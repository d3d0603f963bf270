CONSTANTS
    main = main
    w1 = w1
    w2 = w2
    t1 = t1
    t2 = t2
    t3 = t3
    t4 = t4
    AnyThread = AnyThread
    Self = Self
    NoFiber = NoFiber
    SemInit = 1
    Main = main
    UseCaller = TRUE
    Workers <- OneWorker
    Tasks <- MixTasks
    Roots <- MixRoots
    Prog <- MixProg
SPECIFICATION Spec
INVARIANT TypeOK
INVARIANT NoTaskLeftBehind
PROPERTY PoolRefined
PROPERTY ShutdownCompletes
INVARIANT NoWaiterWithPermit
