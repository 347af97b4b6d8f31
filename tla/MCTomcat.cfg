SPECIFICATION Spec
CONSTANTS
    File <- MCFile
    Document <- MCDocument
    NoFile = NoFile
    Torn = Torn
    Default = Default
    NoTree = NoTree
    NoDir = NoDir
    MaxCrashes = 2
INVARIANTS
    TypeOK
    ConfigsKept
    InPlace

    
