SPECIFICATION FairSpec
CONSTANTS
    c1 = c1
    c2 = c2
    t1 = t1
    t2 = t2
    Connections <- MCConnections
    Tasks <- MCTasks
    Nobody = Nobody
INVARIANTS LiveIsReachable TableHoldsLive ClosedOnce SendsSerialised
PROPERTIES WaitersProceed FailureCloses
CHECK_DEADLOCK FALSE
