\* A peer that sends its requests and ends its stream at once.
CONSTANTS
    MaxBytes = 3
    RecvBuf = 2
    MsgCap = 2
    SendCap = 2
    SockCap = 1
    MAX_CONNECTIONS = 1
    MaxFd = 2
    MaxPeers = 1
    MaxSent <- FirstSends
SPECIFICATION Spec
PROPERTIES ClosedAfterEcho
CHECK_DEADLOCK FALSE
