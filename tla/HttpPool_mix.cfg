CONSTANTS
    c1 = c1
    c2 = c2
    k1 = k1
    k2 = k2
    k3 = k3
    k4 = k4
    None = None
    Clients <- TwoClients
    Conns <- FourConns
    MaxSize = 2
    MaxAlive = 2
    MaxRequest = 2
    Epoch = 10
    MaxTime = 2
    MaxCalls = 2
SPECIFICATION Spec
INVARIANT TypeOK
INVARIANT ConnectionOwnedOnce
INVARIANT TotalCountsLive
INVARIANT RequestLimit
