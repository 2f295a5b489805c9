SPECIFICATION Spec
CONSTANTS
    MaxDepth = 2
    MaxStack = 3
    MaxNames = 2
INVARIANTS
    TypeOK
    CallDepthBalanced
    LoopStateLive
    RecurReachesItsLoop
PROPERTY
    ErrorsStopOnlyWhereCaught
