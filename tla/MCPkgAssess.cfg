CONSTANTS
    Pkg <- MCPkg
    NewPkg <- MCNewPkg
    Addons = {"ha"}
    Debug = {"optdebug"}
    Change <- MCChange
    Missing = {"rb"}
    Requires <- MCRequires
    NativeCandidates = {"rb", "ro", "oa", "rm", "ko", "ka", "kd"}
    RerunCandidates = {"rb", "ro", "ko"}
    ReadableChoices <- SomeMissing
    ForeignCandidates = {"tp"}
    MaxRuns = 2
SPECIFICATION Spec
INVARIANTS
    TypeOK
    NoPackageLost
    ResultMatchesLists
    AdviceFitsLists
    ListsDescribeThisRun
    FixPlanMatchesLists
