CONSTANTS
    Grammars <- Programs
    MaxText = 5
    Threshold = 0
    Alphabet = {"a", "b", "c", "."}
    InlineThreshold = 6
    RareSet = 2
    MaxBack = 256
    MaxSets = 256
    NoErr = NoErr
    NoProgram = NoProgram
    Relocated <- RelocatedCaptures
    EOF = EOF
    EOT = EOT
    Word = {"a", "b", "c"}
    Newline = Newline
    Checker <- TheChecker
    Unregistered = Unregistered
    Whole = Whole
    NoResult = NoResult
SPECIFICATION Spec
INVARIANTS
    ProgramIsSound
    ProgramIsPaired
    ProgramIsListing
    
    InputInBounds
    FetchInProgram
    NeverAborts
    TreesShielded
    ResultIsMeaning
    MemoIsTruth
    WindowComplete
