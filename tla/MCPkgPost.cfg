CONSTANTS
    Pkg = {"rb", "rc", "ro", "k", "dbg"}
    NewPkg <- MCNewPkg
    Addons = {"ha"}
    Debug = {"optdebug"}
    Change <- MCChange
    Missing = {"rb", "rc"}
    Requires <- MCRequires
    Own = {}
    DebugInfo = {"dbg"}
    InName <- OwnNames
    Multilib = {"rc"}
    MaxCrashes = 1
SPECIFICATION Spec
INVARIANTS
    TypeOK
    FixSettles
PROPERTIES
    ModifiedFilesKept
    ErasuresAnnounced
    ImplementsContract
