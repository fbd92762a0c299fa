\* One connection with five bytes: partial receives and sends, several lines in
\* one receive, and both buffers too small.
CONSTANTS
    Clients = {c1}
    Listener = listener
    Nobody = nobody
    MaxBytes = 5
    RecvBuf = 2
    MsgCap = 3
    SendCap = 3
    SockCap = 1
    MAX_CONNECTIONS = 1
    MaxEvents = 2
    Version = 2
SPECIFICATION FairSpec
INVARIANTS Inv Conserved EchoedBeforeClose
PROPERTIES ClosedOnlyWhileWriting OutputLeaves
CHECK_DEADLOCK FALSE
