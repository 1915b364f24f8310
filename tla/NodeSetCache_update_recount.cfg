\* Two callers of Exists and Touch, all answers ready: update of a round that is
\* already cached, reached by a repeated Touch or by two misses of one round.
CONSTANTS
    n1 = n1  n2 = n2  n3 = n3  t1 = t1  t2 = t2
    Nodes <- MCNodes
    Rounds <- MCRounds
    Threads <- TwoThreads
    Ops <- TouchAndExists
    NodeSetOf <- MCNodeSetOf
    CRSOf <- MCCRSOf
    NotarySetSizeOf <- MCNotarySetSizeOf
    InitAvail <- AllReady
    RoundModulus <- MCRoundModulus
    MaxRefCnt = 3
SPECIFICATION Spec
INVARIANT
    RefCountExact
