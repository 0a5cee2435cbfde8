CONSTANTS
    Bytes = {"a", "b"}
    EOF = EOF
    Inputs <- ShortTexts
    Ids = {"run", "before", "other"}
    Honest = {"run", "before"}
    Results = {"result"}
    Threshold = 0
    Verdict <- TheVerdict
    Undecided = Undecided
    MaxLen = 3
    MaxExamined = 4
    MaxEntries = 2
SPECIFICATION BoundedRuleSpec
INVARIANTS
    TypeOK
    Coherent
    HitStaysInside
    TableIsTrue
    AnswersAgree
PROPERTY EditKeepsClearEntries
