CONSTANTS
    a = a
    b = b
    c = c
    d = d
    e = e
    Values <- MCValues
    Immediate = Immediate
    MaxPhis = 4
    PhiLists <- MCPhiLists
SPECIFICATION Spec
INVARIANTS
    TypeOK
    NoLostCopy
    FewestMoves
PROPERTIES
    ImplementsParallelCopy
CHECK_DEADLOCK FALSE
