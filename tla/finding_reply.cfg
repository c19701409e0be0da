SPECIFICATION Spec
CONSTANTS
    None = None
    Connections = {c1}
    Commands = {a1, a2}
    MayHang = {}
    Callers = {p1}
    Cancellable = {"sent", "receiving"}
INVARIANT ResultIsOfAction
CHECK_DEADLOCK FALSE
