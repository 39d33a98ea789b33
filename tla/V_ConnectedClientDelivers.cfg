SPECIFICATION Spec
CONSTANTS
    Conn = {c1, c2}
    Sig = {s1, s2}
    Peer = {p1, p2}
    None = None
    MaxFastAttempts = 1
    RejoinLimit = 2
    GivesUp = TRUE
    MaxEvents = 1
SYMMETRY Symmetry
INVARIANT ConnectedClientDelivers
CHECK_DEADLOCK FALSE
