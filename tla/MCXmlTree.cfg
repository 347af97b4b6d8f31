SPECIFICATION Spec
CONSTANTS
    Name <- MCName
    StartTag <- MCStartTag
    Text <- MCText
    CommentText <- MCCommentText
    NoUri = ""
    XmlUri = "xml"
    WellKnown <- MCWellKnown
    Comment = Comment
    None = None
    MaxTokens = 7
INVARIANTS
    TypeOK
    NoAssertionFails
    PrefixesUnique
    RoundTrip
