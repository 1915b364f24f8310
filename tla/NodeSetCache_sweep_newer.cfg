\* One caller of every operation but Purge, all answers ready.
CONSTANTS
    n1 = n1  n2 = n2  n3 = n3  t1 = t1  t2 = t2
    Nodes <- MCNodes
    Rounds <- MCRounds
    Threads <- OneThread
    Ops <- NoPurge
    NodeSetOf <- MCNodeSetOf
    CRSOf <- MCCRSOf
    NotarySetSizeOf <- MCNotarySetSizeOf
    InitAvail <- AllReady
    RoundModulus <- MCRoundModulus
    MaxRefCnt = 3
SPECIFICATION Spec
PROPERTY
    SweepKeepsNewerRounds
