CONSTANTS
    Ids = {a, b}
    Handlers = {h1}
    None = None
    Requests <- TimingRequests
    AddTypes = {"ChromeBrowser", "Agent", "Unmonitored"}
    HealthTimeout = 1
    SessionLifetime = 1
    MaxLifetime = 2
    AgentGrace = 2
    Word = 16
    Watched = {a}
    MaxTime = 3
SPECIFICATION LiveSpec
PROPERTIES DeadIsFrozen SilentInstancesDie BrowsersDoNotOutlive
