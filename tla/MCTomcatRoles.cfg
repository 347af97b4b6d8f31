SPECIFICATION Spec
CONSTANTS
    File <- MCFile
    Document <- MCDocument
    NoFile = NoFile
    Torn = Torn
    Default = Default
    NoTree = NoTree
    NoDir = NoDir
    MaxCrashes = 0
INVARIANT
    RolesFollow
