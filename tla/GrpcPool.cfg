CONSTANTS
    Users = {g1, g2, g3}
    Capacity = 2
    InitConns = 1
    MaxConns = 3
    MaxErrorCount = 1
    Nil = Nil
SPECIFICATION Spec
SYMMETRY MCUserSymmetry
INVARIANT TypeOK
INVARIANT SlotsConserved
INVARIANT ExclusiveUse
INVARIANT HeldConnsOpen
INVARIANT OpenConnsAccounted
CHECK_DEADLOCK FALSE
