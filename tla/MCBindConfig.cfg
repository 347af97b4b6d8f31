SPECIFICATION Spec
CONSTANTS
    Main = Main
    a = a
    b = b
    chroot = chroot
    File = {Main, a, b}
    EmptyZone = {z64}
    Occurs <- MCOccurs
    Includes <- MCIncludes
    Texts <- MCTexts
    Readable <- MCReadable
    AllChanged <- MCAllChanged
CHECK_DEADLOCK FALSE
INVARIANTS
    TypeOK
    LoadedExactly
    Verdict
    CleanIsComplete
PROPERTY
    Terminates
