CONSTANTS
    Browsers = {b1}
    Proxies = {p}
    Ports = {CDP}
    Ids <- AllIds
    Handlers <- AllIds
    None = None
    Requests = {}
    AddTypes = {}
    HealthTimeout = 1
    SessionLifetime = 0
    MaxLifetime = 1
    AgentGrace = 1
    Word = 16
    MaxTime = 1
    MaxRetries = 0
    MaxRestarts = 1
SPECIFICATION FleetLiveSpec
PROPERTIES ContainersFollow ListenersReturn ContainersLive ExpiredBrowsersEnd
