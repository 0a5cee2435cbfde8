CONSTANTS
    NULL = NULL
    Vals = {1, 2, 3, 4, 5, 6, 7, 8}
    Ids = {1, 2}
    Adds <- TreeAdds
    Edits <- TreeEdits
    MaxShifts = 2
    MaxPos = 11
SPECIFICATION TreeSpec
INVARIANTS
    TypeOK
    itree_verify
    HandlesFollowGroups
    FreesEveryNodeOnce
PROPERTY ImplementsArray
