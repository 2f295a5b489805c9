SPECIFICATION Spec
CONSTANTS
    Deployers = {d1, d2}
    Entries <- MCEntries
    MaxDeploys = 2
    Server = server
    Invokers = {cli}
    Requests = {r1, r2}
    NoRequest = none
    Paths <- MCPaths
    Operations <- MCOperations
    Statuses <- MCStatuses
    MaxInvokes = 1
    MaxExits = 1
SYMMETRY MCSymmetry
INVARIANTS
    TypeOK
    UndisturbedDeploysSurvive
    EffectsWithinCapability
    AnswersAreLogged
CHECK_DEADLOCK FALSE
