CONSTANTS
    main = main
    w1 = w1
    w2 = w2
    t1 = t1
    t2 = t2
    t3 = t3
    t4 = t4
    AnyThread = AnyThread
    Self = Self
    NoFiber = NoFiber
    SemInit = 0
    Main = main
    UseCaller = TRUE
    Workers <- OneWorker
    Tasks <- WindowTasks
    Roots <- WindowRoots
    Prog <- WindowProg
SPECIFICATION Spec
PROPERTY ShutdownCompletes
