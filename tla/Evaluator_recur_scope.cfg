SPECIFICATION Spec
CONSTANTS
    MaxDepth = 2
    MaxStack = 3
    MaxNames = 2
INVARIANT RecurStaysInFunction
