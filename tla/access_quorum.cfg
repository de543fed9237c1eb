CONSTANTS
    admin = admin
    Users = {alice, bob, carol, admin}
    Holders = {alice, bob, carol}
    Admins = {admin}
    Reqs = {r1}
    Procs = {p1, p2}
    Threshold = 2
SPECIFICATION Spec
SYMMETRY Symmetry
INVARIANT QuorumIsApproved
CHECK_DEADLOCK FALSE
