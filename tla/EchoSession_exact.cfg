\* A peer that reads slowly: send_all meets EAGAIN.
CONSTANTS
    MaxBytes = 4
    BufSize = 3
    MessageSize = 3
    SockCap = 1
SPECIFICATION Spec
INVARIANTS ExactEcho
CHECK_DEADLOCK FALSE
