CONSTANTS
    Tabs = {t1}
    Emails = {e1, e2}
    Passwords = {p1, p2}
    Names <- OneName
    Servers = {s1}
    MaxRegs = 2
    MaxHellos = 2
    Ttl = 2
    Period = 2
SPECIFICATION FairSpec
INVARIANTS TypeOK AccountsWhole RightPasswordWorks HeldBriefly
PROPERTY WizardEnds
CHECK_DEADLOCK FALSE
