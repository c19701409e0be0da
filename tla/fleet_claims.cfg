CONSTANTS
    Browsers = {b1, b2}
    Proxies = {p}
    Ports = {CDP, TZAFONWRIGHT}
    Ids <- AllIds
    Handlers <- AllIds
    None = None
    Requests = {}
    AddTypes = {}
    HealthTimeout = 1
    SessionLifetime = 1
    MaxLifetime = 1
    AgentGrace = 1
    Word = 16
    MaxTime = 0
    MaxRetries = 1
    MaxRestarts = 1
SPECIFICATION FleetSpec
SYMMETRY Symmetry
INVARIANTS FleetTypeOK OneSessionPerBrowser SessionsAreClaims
CONSTRAINT KillLoopSleeps
