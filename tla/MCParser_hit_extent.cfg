CONSTANTS
    Grammars <- NestedOnly
    MaxText = 3
    Threshold = 0
    Alphabet = {"a", "b", "c", "."}
    InlineThreshold = 100
    RareSet = 10
    MaxBack = 256
    MaxSets = 256
    NoErr = NoErr
    NoProgram = NoProgram
    Relocated <- RelocatedCaptures
    EOF = EOF
    EOT = EOT
    Word = {"a", "b", "c"}
    Newline = Newline
    Checker <- TheChecker
    Unregistered = Unregistered
    Whole = Whole
    NoResult = NoResult
SPECIFICATION Spec
INVARIANTS
    ResultIsMeaning
