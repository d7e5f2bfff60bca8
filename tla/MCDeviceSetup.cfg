SPECIFICATION Spec
CONSTANTS
    Devices <- MCDevices
    Garbage = {0, 1, 4}
    MaxChanges = 3
INVARIANTS
    TreeMatchesDevice
    NoFalseRejection
    ActiveExists
    ActiveIsTheDevices
CHECK_DEADLOCK FALSE
