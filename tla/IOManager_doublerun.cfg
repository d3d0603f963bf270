CONSTANTS
    w1 = w1
    w2 = w2
    rd = rd
    wr = wr
    cl = cl
    sl = sl
    fd1 = fd1
    NoFiber = NoFiber
    Workers <- TwoWorkers
    Fibers <- ReadFibers
    Prog <- ReadProg
    Fds <- OneFd
    Events <- ReadEvent
    MaxSpurious = 1
SPECIFICATION Spec
INVARIANT NoDoubleRun
