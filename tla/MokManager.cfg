SPECIFICATION Spec
CONSTANTS
    Stored <- MCStored
    KeyLists <- MCKeyLists
    DiskNode <- MCDisk
    Switches <- MCSwitches
    Passwords <- MCPasswords
    AuthKinds <- MCAuthKinds
    MaxRequests = 3
    MaxFaults = 1
INVARIANTS TypeOK RebootAfterChange ChangesAuthorised
PROPERTIES NothingLeftBehind DeletesWhatIsNamed
