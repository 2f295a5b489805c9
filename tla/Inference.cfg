SPECIFICATION Spec
CONSTANTS
    ERROR_LIMIT = 2
    ErrorKind = {"malformed", "unbound", "other"}
    MaxStack = 2
    MaxAbandoned = 1
INVARIANTS
    TypeOK
    ContextFollowsForms
    EffectScopesAccounted
    ErrorNeverAccepted
