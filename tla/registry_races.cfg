CONSTANTS
    Ids = {a, b, c}
    Handlers = {h1, h2}
    None = None
    Requests <- RaceRequests
    AddTypes = {"Unmonitored"}
    HealthTimeout = 1
    SessionLifetime = 1
    MaxLifetime = 1
    AgentGrace = 1
    Word = 16
    Watched = {a}
    MaxTime = 1
SPECIFICATION Spec
SYMMETRY Symmetry
INVARIANTS TypeOK StubOwnership IInv ParentDeathReaches
PROPERTIES ImplementsLifecycle
CONSTRAINT KillLoopSleeps
