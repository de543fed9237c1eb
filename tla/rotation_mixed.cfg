CONSTANTS
    N = 3
    Threshold = 2
    Rots = {r1, r2}
    Procs = {p1, p2}
    MaxKey = 3
    RowOrders <- OneOrder
SPECIFICATION OrderlySpec
SYMMETRY Symmetry
INVARIANT SecretSurvives
CHECK_DEADLOCK FALSE
