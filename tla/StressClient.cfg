\* Two clients with two requests of two bytes: partial sends, answers in pieces,
\* one byte that nobody sent before, inside or behind an answer, recv_buf full,
\* lost connections, SIGINT and errors of poll at any point of the other
\* client's work.
CONSTANTS
    client_count = 2
    requests_per_client = 2
    ReqLen = 2
    RecvCap = 3
    NetCap = 1
    MaxNoise = 1
    MaxSamples = 3
SPECIFICATION FairSpec
INVARIANTS Inv EndsOnlyIfAccounted SuccessIsComplete NoFalseFailure
PROPERTIES Terminates
CHECK_DEADLOCK FALSE
