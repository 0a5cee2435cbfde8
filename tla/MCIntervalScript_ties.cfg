CONSTANTS
    NULL = NULL
    Vals = {1, 2, 3}
    Ids = {1}
    Adds <- TiesAdds
    Edits <- TiesEdits
    MaxShifts = 1
    MaxPos = 6
SPECIFICATION TiesSpec
INVARIANT EarliestInsertedWins
