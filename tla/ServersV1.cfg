\* The poll server with two peers that may use the same descriptor number one
\* after the other: entries that stay, move and come back as those of another
\* connection.  The select server with three numbers, of which the array has two,
\* three peers, a message buffer of one byte, and a kernel that takes one byte at
\* a time of the two that there may be to send.
CONSTANTS
    MaxBytes = 2
    RecvBuf = 2
    MsgCap = 2
    SendCap = 1
    SockCap = 1
    MAX_CONNECTIONS = 3
    MaxPeers = 2
    SelMsgCap = 1
    SelSendCap = 2
    SelMaxConnections = 3
    SelMaxFd = 3
    SelMaxPeers = 3
    SelMaxSent <- FewSends
SPECIFICATION ServersSpec
INVARIANTS Inv NotAnswered SelInv SelConserved
PROPERTIES EventuallyRead SelReadUnlessBlocked
CHECK_DEADLOCK FALSE
