SPECIFICATION Spec
CONSTANTS
    Programs <- MCPrograms
    Worlds <- MCWorlds
    Functions = {"f", "g"}
    MaxDepth = 8
INVARIANTS
    TypeOK
    FullyExpanded
    BuiltinsKeepTheirMeaning
    NoCapture
CHECK_DEADLOCK FALSE
