\* The spec: no two message types share an encoding.
CONSTANTS
    h1 = h1
    h2 = h2
    b1 = b1
    c1 = c1
    x1 = x1
    ps1 = ps1
    pl1 = pl1
    pl2 = pl2
    t1 = t1
    wd1 = wd1
    Honest <- MCHonest
    Byzantine <- MCByzantine
    Rounds <- MCRounds
    Resets = {0}
    CRSs = {c1}
    DKGDelayRound = 1
    BLSReady <- MCBLSReady
    Heights = {0}
    NPKs <- MCNPKs
    NilNPKs = NilNPKs
    MaxSigned = 2
    BlockHashes = {x1}
    Periods = {1}
    VoteTypes = {"Com"}
    PartialSigs = {ps1}
    Payloads = {pl1}
    Timestamps = {t1}
    Witnesses <- MCWitnesses
SPECIFICATION Spec
INVARIANT
    DKGMessagesAuthentic
