\* Two callers, every operation, answers published one by one.
CONSTANTS
    n1 = n1  n2 = n2  n3 = n3  t1 = t1  t2 = t2
    Nodes <- MCNodes
    Rounds <- MCRounds
    Threads <- TwoThreads
    Ops <- AllOpsMC
    NodeSetOf <- MCNodeSetOf
    CRSOf <- MCCRSOf
    NotarySetSizeOf <- MCNotarySetSizeOf
    InitAvail <- GenesisOnly
    RoundModulus <- MCRoundModulus
    MaxRefCnt = 3
SPECIFICATION Spec
INVARIANTS
    TypeOK
    KeysOfCachedRoundsAvailable
