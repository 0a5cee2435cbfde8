CONSTANTS
    Caps = {c1, c2, c3}
    Ents = {e1, e2}
    NoEnt = NoEnt
    Positions = {0, 1}
    Starts = {1}
    MaxDepth = 3
    MaxList = 2
    MaxRefs = 4
SPECIFICATION Spec
SYMMETRY Addresses
INVARIANTS TypeOK RefsCountHolders NoDangling Attached
PROPERTIES PositionsKept
