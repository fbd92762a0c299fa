\* Two slots and three peers: partial receives and sends, both buffers too small,
\* every slot full and one peer refused, and slots and descriptor numbers used
\* again while the other connection goes on.
CONSTANTS
    MaxBytes = 3
    RecvBuf = 2
    MsgCap = 2
    SendCap = 2
    SockCap = 1
    MAX_CONNECTIONS = 2
    MaxFd = 3
    MaxPeers = 3
    MaxSent <- FirstSends
SPECIFICATION FairSpec
INVARIANTS Inv Conserved
PROPERTIES ClosedAtTheEnd EventuallyRead
CHECK_DEADLOCK FALSE
