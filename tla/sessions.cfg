CONSTANTS
    laptop = laptop
    phone = phone
    tablet = tablet
    firefox = firefox
    Browsers = {laptop, phone, tablet}
    Agents <- TwoAgents
    HeaderOf <- TwoHeaders
    Procs = {p1, p2}
    MaxSessions = 1
    MaxIds = 3
    MaxTok = 3
SPECIFICATION Spec
SYMMETRY Symmetry
INVARIANTS TypeOK SessionsBounded OldestIsEvicted CookieIsCurrent 
PROPERTY RevokedStaysRevoked
CHECK_DEADLOCK FALSE
