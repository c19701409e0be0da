SPECIFICATION Spec
CONSTANTS
    None = None
    Connections = {c1, c2}
    Commands = {a1, a2, a3}
    MayHang = {a3}
    Callers = {p1}
    Cancellable = {"connecting", "closing"}
INVARIANTS
    ClientTypeOK
    RepliesInOrder
    ResultIsOfAction
    NoConnectionLeaked
    PageOutlivesCommands
PROPERTIES
    CallsEnd
    ServerStops
CHECK_DEADLOCK FALSE
