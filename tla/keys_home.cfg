CONSTANTS
    Users = {ann, bob}
    Devices = {laptop, phone}
    MaxKey = 4
SPECIFICATION Spec
INVARIANT MismatchMeansNewDevice
CHECK_DEADLOCK FALSE
