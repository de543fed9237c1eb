CONSTANTS
    Reqs = {r}
    Sockets = {s1, s2}
    Loads = {l}
    MaxImports = 1
    Minutes = 1
SPECIFICATION Spec
SYMMETRY Symmetry
CONSTRAINT OneKind
INVARIANTS TypeOK  HiddenInTime
 
CHECK_DEADLOCK FALSE
