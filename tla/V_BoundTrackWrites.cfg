SPECIFICATION Spec
CONSTANTS
    Ctx = {x1, x2}
    Provider = {}
    Pump = {p1, p2, p3, p4}
    App = App
    None = None
    MaxBinds = 3
INVARIANT BoundTrackWrites
CHECK_DEADLOCK FALSE
