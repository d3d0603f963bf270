CONSTANTS
    main = main
    w1 = w1
    w2 = w2
    t1 = t1
    t2 = t2
    t3 = t3
    t4 = t4
    AnyThread = AnyThread
    Self = Self
    NoFiber = NoFiber
    SemInit = 0
    Main = main
    UseCaller = FALSE
    Workers <- TwoWorkers
    Tasks <- SemRaceTasks
    Roots <- SemRaceRoots
    Prog <- SemRaceProg
SPECIFICATION Spec
PROPERTY PoolRefined
