SPECIFICATION Spec
CONSTANTS
    Installs <- MCInstalls
    Repos <- MCRepos
    Requires <- MCRequires
    BaseArch = "x86_64"
    MaxRuns = 3
    MaxLosses = 1
CHECK_DEADLOCK FALSE
INVARIANTS
    TypeOK
    Enforced
    ListIsDirectory
PROPERTY
    HookEnds
