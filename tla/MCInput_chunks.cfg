CONSTANTS
    EOF = EOF
    Bytes = {"a", "b"}
    Subjects <- TextsOfAB
    Steps <- UpTo3
    Offsets <- UpTo5
    Sets <- SetsOfAB
    MaxPos = 7
    INPUT_CHUNK = 2
    NoSpan = NoSpan
SPECIFICATION Spec
INVARIANT CacheOK
PROPERTIES
    ImplementsFlat
    SpanReturns
