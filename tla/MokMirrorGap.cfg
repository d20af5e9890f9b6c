SPECIFICATION Spec
CONSTANTS
    Ids <- MCIds
    Configs <- GapConfigs
    Faults <- FaultKinds
INVARIANT EntriesThatFit
