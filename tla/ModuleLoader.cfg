SPECIFICATION FairSpec
CONSTANTS
    Names = {1, 2, 3}
    Entry = 1
    Disk <- MCDisk
INVARIANTS
    TypeOK
    OrderIsLeast
PROPERTIES
    ImplementsProgramLoad
CHECK_DEADLOCK FALSE
