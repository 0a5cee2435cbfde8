CONSTANTS
    NULL = NULL
    Vals = {1, 2}
    Ids = {1}
    Adds <- LateAdds
    Edits <- LateEdits
    MaxShifts = 2
    MaxPos = 9
SPECIFICATION Spec
INVARIANT LazyEqualsEager
