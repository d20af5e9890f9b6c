SPECIFICATION Spec
CONSTANTS
    Stored <- RepStored
    KeyLists <- RepKeyLists
    DiskNode <- MCDisk
    Switches <- MCSwitches
    Passwords <- MCPasswords
    AuthKinds <- MCAuthKinds
    MaxRequests = 2
    MaxFaults = 0
PROPERTY RepeatsDeleted
