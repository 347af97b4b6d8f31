CONSTANTS
    Pkg = {"rb", "k", "rm", "tp"}
    NewPkg <- MCNewPkg
    Addons = {"ha"}
    Debug = {"optdebug"}
    Change <- MCChange
    Missing = {"rb"}
    Requires <- MCRequires
    Own = {}
    DebugInfo = {}
    InName <- TpInRm
    Multilib = {}
    MaxCrashes = 0
SPECIFICATION Spec
PROPERTIES
    UnsignedNotErased
