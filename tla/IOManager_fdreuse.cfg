CONSTANTS
    w1 = w1
    w2 = w2
    rd = rd
    wr = wr
    cl = cl
    sl = sl
    fd1 = fd1
    NoFiber = NoFiber
    Workers <- OneWorker
    Fibers <- ReuseFibers
    Prog <- ReuseProg
    Fds <- OneFd
    Events <- ReadEvent
    MaxSpurious = 0
SPECIFICATION ReuseSpec
PROPERTY ReadsOwnSocket
