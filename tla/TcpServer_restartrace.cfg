CONSTANTS
    a1 = a1
    a2 = a2
    t1 = t1
    t2 = t2
    NoFiber = NoFiber
    StopCbRun = StopCbRun
    Addrs <- TwoAddrs
    Threads <- TwoThreads
    Calls <- StopRestart
    MaxConns = 2
SPECIFICATION Spec
INVARIANT NoDoubleRegistration
