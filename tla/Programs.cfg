\* One session: five bytes against a receive buffer of three (two per recv), a
\* message buffer of three and room for two echoed bytes, so that lines are split
\* across receives, joined in one, longer than the message buffer, and longer
\* than the room.  The other programs: few threads or processes and a few rounds,
\* enough for rings to wrap, queues to fill, deadlines to pass and runs to meet.
CONSTANTS
    MaxBytes = 5
    BufSize = 3
    MessageSize = 3
    SockCap = 2
    PoolWorkers = {w1, w2}
    MAX_TASK = 3
    BUF_SIZE = 2
    Missions = 5
    Rounds = 4
    MaxReads = 3
    Counters = {t1, t2}
    Increments = 3
    Readers = {r1, r2}
    Updates = 3
    Producers = {p1, p2}
    Consumers = {c1, c2}
    NoQueue = none
    mq_maxmsg = 1
    MaxLines = 2
    forkMaxmsg = 3
    Runs = {a1, a2}
    NoRun = none
    EarlierRun = a0
    MessageLen = 2
    ArgLen = 4
    PipeCap = 2
    MaxChunks = 2
    ChunkLen = 2
    MaxString = 2
    FifoCap = 3
SPECIFICATION ProgramsSpec
INVARIANTS ProgramsTypeOK Conserved CutToTheEnd ShortLinesAccepted SemInv
    HandedInOrder UpdatesKept MessagesKept OwnObject BytesKept
PROPERTIES EndsAfterFin TaskHandOffSpec LeftBehindStays ProgramsEnd
CHECK_DEADLOCK FALSE
