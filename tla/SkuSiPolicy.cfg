SPECIFICATION Spec
CONSTANTS
    Word = 3
    Versions <- MCVersions
    Builtin <- MCBuiltin
    RevFiles <- MCRevFiles
    Faults <- NoReadFaults
INVARIANTS TypeOK AskedPairLeft
PROPERTY SspStore
