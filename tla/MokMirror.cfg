SPECIFICATION Spec
CONSTANTS
    Ids <- MCIds
    Configs <- MCConfigs
    Faults <- FaultKinds
INVARIANTS TypeOK NothingLost BadVariablesRefused CopiesAreShims
