\* Start/Stop of the block proposer against its goroutine and exit goroutine.
CONSTANTS
    n1 = n1
    n2 = n2
    Callers <- MCCallers
    MaxStarts = 2
    MaxHeight = 2
    BatchSize = 1
    MaxForceSyncs = 1
SPECIFICATION Spec
\* os.Exit(1) ends the process: a state after it has no successor.
CHECK_DEADLOCK FALSE
INVARIANTS
    TypeOK
    StopChOwned
    NoDoubleClose
    SyncingReported
PROPERTIES
    ImplementsLifecycle
    StopQuiesces
    StopReturns
