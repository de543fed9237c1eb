CONSTANTS
    Users = {ann, bob}
    Devices = {laptop, phone}
    MaxKey = 3
SPECIFICATION Spec
SYMMETRY Symmetry
INVARIANTS TypeOK SealedToSaved
CHECK_DEADLOCK FALSE
