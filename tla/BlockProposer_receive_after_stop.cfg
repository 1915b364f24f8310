\* A Stop racing the chain head case of syncConsensus.
CONSTANTS
    n1 = n1
    n2 = n2
    Callers <- MCCallers
    MaxStarts = 1
    MaxHeight = 2
    BatchSize = 1
    MaxForceSyncs = 0
SPECIFICATION Spec
\* os.Exit(1) ends the process: a state after it has no successor.
CHECK_DEADLOCK FALSE
INVARIANT
    ReceiveOffAfterStop
