CONSTANTS
    founder = founder
    ann = ann
    bob = bob
    Users = {founder, ann, bob}
    Founder = founder
    Links = {link}
    Tasks = {task}
    Procs = {p1, p2}
    MaxUses = 1
SPECIFICATION Spec
SYMMETRY Symmetry
INVARIANTS TypeOK UsesBounded FounderOwns NoOrphans AssigneeWasMember
PROPERTY EntryIsCounted
CHECK_DEADLOCK FALSE
