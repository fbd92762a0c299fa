\* Three connections for a server that takes two, and two events at a time.
CONSTANTS
    Clients = {c1, c2, c3}
    Listener = listener
    Nobody = nobody
    MaxBytes = 1
    RecvBuf = 1
    MsgCap = 1
    SendCap = 1
    SockCap = 1
    MAX_CONNECTIONS = 2
    MaxEvents = 2
    Version = 2
SPECIFICATION Spec
SYMMETRY Symmetry
INVARIANTS ConnsAccounting BatchLive
CHECK_DEADLOCK FALSE
