\* A server that sends one byte more than the answer.
CONSTANTS
    client_count = 1
    requests_per_client = 2
    ReqLen = 2
    RecvCap = 3
    NetCap = 1
    MaxNoise = 1
    MaxSamples = 3
SPECIFICATION Spec
PROPERTIES LeftoverKept
CHECK_DEADLOCK FALSE
