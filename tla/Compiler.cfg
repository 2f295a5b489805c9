SPECIFICATION Spec
CONSTANTS
    Programs <- MCPrograms
    INLINE_COST_THRESHOLD = 10
    Fuel = 5
INVARIANTS
    TypeOK
    MeaningPreserved
    EmittedIsRight
    NativeNeverWrong
PROPERTY
    OnlyInliningUnbinds
CHECK_DEADLOCK FALSE
