CONSTANTS
    w1 = w1
    w2 = w2
    rd = rd
    wr = wr
    cl = cl
    sl = sl
    fd1 = fd1
    NoFiber = NoFiber
    Workers <- OneWorker
    Fibers <- MixFibers
    Prog <- MixProg
    Fds <- OneFd
    Events <- BothEvents
    MaxSpurious = 1
SPECIFICATION Spec
INVARIANT TypeOK
INVARIANT OneResumer
INVARIANT StopOnlyWhenQuiescent
PROPERTY ShutdownCompletes
