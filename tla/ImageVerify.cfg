SPECIFICATION Spec
CONSTANTS
    Images <- MCImages
    Configs <- MCConfigs
    MaxImages = 3
CHECK_DEADLOCK FALSE
INVARIANTS TypeOK VerdictIsPolicy AcceptedIsMeasured MeasuredOnce
