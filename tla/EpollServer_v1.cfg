\* Version 1: the end of the stream seen with the first bytes of the batch.
CONSTANTS
    Clients = {c1}
    Listener = listener
    Nobody = nobody
    MaxBytes = 4
    RecvBuf = 2
    MsgCap = 3
    SendCap = 3
    SockCap = 1
    MAX_CONNECTIONS = 1
    MaxEvents = 2
    Version = 1
SPECIFICATION Spec
INVARIANTS EchoedBeforeClose
CHECK_DEADLOCK FALSE
