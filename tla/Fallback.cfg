SPECIFICATION Spec
CONSTANTS
    MaxNumber = 3
    Rows <- MCRows
    Malformed <- MCMalformed
    Short <- MCShort
    Bootable <- MCBootable
    Disks <- MCDisks
    Stores <- MCStores
    MaxFaults = 2
    MaxLosses = 2
INVARIANTS TypeOK RowsFirst OthersKeepTheirOrder NoDuplicateEntries
PROPERTIES BootsUnlessFull
