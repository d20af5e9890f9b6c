SPECIFICATION Spec
CONSTANTS
    Shims <- MCShims
    First = "shim0"
    VendorCerts <- Both
    HabitSets <- UsualOrOdd
    MaxDepth = 5
CHECK_DEADLOCK FALSE
INVARIANTS TypeOK ChainsEndInFirmware GuardedBoot
PROPERTY ExitNeedsParticipation
