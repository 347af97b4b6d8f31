CONSTANTS
    Sysv = {"a", "c", "cx"}
    Xinetd = {"x"}
    Unit = {"a.service", "cy.socket", "cx.service", "cx.wants", "x.service"}
    OwnUnit <- MCOwn
    Prefixed <- MCPrefixed
    Dirs = {"cx.wants"}
    Static = {"x.service"}
    Also <- MCAlso
    OldLists = {{}, {"cx"}}
    Preset = {"a.service", "cx.service", "cx.wants", "x.service"}
    InPreset = {"a"}
    NoSystemd = {"c"}
    NoUnit = "nounit"
    MaxCrashes = 1
SPECIFICATION Spec
INVARIANTS
    TypeOK
    EveryServiceAccounted
    EnabledSurvives
    DisabledStaysOff
    OthersUntouched
