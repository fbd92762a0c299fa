\* One byte is enough: a client that is sent what another client wrote.
CONSTANTS
    MaxBytes = 1
    RecvBuf = 2
    MsgCap = 2
    SendCap = 1
    SockCap = 1
    MAX_CONNECTIONS = 3
    MaxPeers = 2
SPECIFICATION Spec
INVARIANTS OnlyOwnEcho
CHECK_DEADLOCK FALSE
