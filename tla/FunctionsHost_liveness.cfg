SPECIFICATION FairSpec
CONSTANTS
    Deployers = {d1}
    Entries <- MCEntries
    MaxDeploys = 1
    Server = server
    Invokers = {}
    Requests = {r1, r2}
    NoRequest = none
    Paths <- MCPaths
    Operations <- MCOperations
    Statuses <- MCStatuses
    MaxInvokes = 0
    MaxExits = 1
PROPERTY RequestsAnswered
CHECK_DEADLOCK FALSE
