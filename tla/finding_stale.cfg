CONSTANTS
    Ids = {a}
    Handlers = {h1}
    None = None
    Requests <- SoloRequests
    AddTypes = {"Unmonitored"}
    HealthTimeout = 1
    SessionLifetime = 1
    MaxLifetime = 2
    AgentGrace = 2
    Word = 16
    Watched = {a}
    MaxTime = 2
SPECIFICATION LiveSpec
PROPERTY StaleAreUnlisted
