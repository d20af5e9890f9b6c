SPECIFICATION FairSpec
CONSTANTS
    MaxNics = 2
    BindTries = 2
    DhcpTries = 2
    RxSize = 2
    MaxLength = 4
INVARIANTS FetchTypeOK TokenInFrame WholeFile VerifiedByAll
PROPERTY FetchEnds
