SPECIFICATION Spec
CONSTANTS
    Word = 16
    PageSize = 2
    Files <- MCFiles
INVARIANTS TypeOK LoadedIsHashed RunsAsDeclared
