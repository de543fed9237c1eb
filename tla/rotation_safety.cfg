CONSTANTS
    N = 3
    Threshold = 2
    Rots = {r1, r2}
    Procs = {p1, p2}
    MaxKey = 3
    RowOrders <- TwoOrders
SPECIFICATION OrderlySpec
SYMMETRY Symmetry
INVARIANTS TypeOK OneSplit QuorumOfOthers SerialReadable SerialActive
PROPERTIES IndexStays DeniedStays AccessRestored SerialKeys
CHECK_DEADLOCK FALSE
