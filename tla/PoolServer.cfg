\* Two workers around a ring of two slots, and four descriptor numbers: the ring
\* can be full while workers sleep, wake and serve, and a closed number can be
\* accepted again.  No symmetry, which is unsound for liveness.
CONSTANTS
    Workers = {w1, w2}
    Main = main
    NoThread = nobody
    Fds = {f1, f2, f3, f4}
    NoFd = nofd
    MAX_TASK = 2
SPECIFICATION FairSpec
INVARIANTS FdOwnership NoLostWakeup
PROPERTIES HandOffSpec EventuallyServed
CHECK_DEADLOCK FALSE
