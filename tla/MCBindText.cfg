SPECIFICATION Spec
CONSTANTS
    Starts <- MCStarts
    Piece <- MCPiece
    MaxPieces = 4
CHECK_DEADLOCK FALSE
INVARIANTS
    TokensAdvance
    SameSection
    RepairRecognised
