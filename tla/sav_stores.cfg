CONSTANTS
    c1 = c1
    c2 = c2
    c3 = c3
    Callers <- ThreeCallers
    MaxCalls = 3
    Stores = {"cached", "memory", "remote"}
SPECIFICATION FairSpec
CONSTRAINT FailingStoreBound
INVARIANTS SingleFlight FlightHasOneLeader
PROPERTIES StoreMovesForward NoRedundantResolve MonotonicReads EveryCallReturns
