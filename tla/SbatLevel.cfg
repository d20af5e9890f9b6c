SPECIFICATION FairSpec
CONSTANTS
    Component <- MCComponent
    Payloads <- MCPayloads
    Original <- MCOriginal
    Automatic <- MCAutomatic
    Latest <- MCLatest
    ShimSbat <- MCShimSbat
    Sections <- MCSections
    RevFiles <- MCRevFiles
    Faults <- NoReadFaults
INVARIANTS TypeOK EnforcedNotOlder RunningNotRevoked AtLeastRequested
PROPERTIES LevelStore NeverSelfRevokes BootEnds
