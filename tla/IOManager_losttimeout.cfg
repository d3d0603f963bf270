CONSTANTS
    w1 = w1
    w2 = w2
    rd = rd
    wr = wr
    cl = cl
    sl = sl
    fd1 = fd1
    NoFiber = NoFiber
    Workers <- TwoWorkers
    Fibers <- ReadFibers
    Prog <- TimedProg
    Fds <- OneFd
    Events <- ReadEvent
    MaxSpurious = 0
SPECIFICATION Spec
PROPERTY ShutdownCompletes
