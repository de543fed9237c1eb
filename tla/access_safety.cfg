CONSTANTS
    admin = admin
    alice = alice
    carol = carol
    r1 = r1
    p1 = p1
    p2 = p2
    Users = {alice, bob, carol, admin}
    Holders = {alice, bob, carol}
    Admins = {admin}
    Reqs = {r1, r2}
    Procs = {p1, p2, p3}
    Threshold = 2
    Secrets = {83}
    Random = {202, 9}
SPECIFICATION MCSpec
INVARIANTS TypeOK QuorumGenuine ApprovedMeansReleased TablesMultiply PayloadOpens
PROPERTIES ClosedStaysClosed HandlersTerminate KeepsPromise
CHECK_DEADLOCK FALSE
