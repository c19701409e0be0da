CONSTANTS
    Ids = {a, b}
    Claimant = a
    Handlers = {h}
    None = None
    Requests <- PageRequests
    AddTypes = {"ChromeBrowser"}
    HealthTimeout = 9
    SessionLifetime = 9
    MaxLifetime = 9
    AgentGrace = 9
    Word = 16
    MaxTime = 2
    Viewers = {v, w}
    CacheExpiration = 1
    MaxItems = 1
SPECIFICATION PageSpec
CONSTRAINT KillLoopSleeps
INVARIANTS PageTypeOK NewestListed
PROPERTIES FreshPages PagesMoveForward ViewersServed
