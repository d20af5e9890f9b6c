SPECIFICATION Spec
CONSTANTS
    Shims <- MCShims
    First = "shim0"
    VendorCerts <- Both
    HabitSets <- OnlyDrivers
    MaxDepth = 5
CHECK_DEADLOCK FALSE
PROPERTY FirstStageGuarded
