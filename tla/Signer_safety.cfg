\* Two honest nodes (h2 without a BLS signer) and one Byzantine node, rounds 0 (before dkgDelayRound) and 1.
CONSTANTS
    h1 = h1
    h2 = h2
    b1 = b1
    c1 = c1
    x1 = x1
    ps1 = ps1
    pl1 = pl1
    pl2 = pl2
    t1 = t1
    wd1 = wd1
    Honest <- MCHonest
    Byzantine <- MCByzantine
    Rounds <- MCRounds
    Resets = {0}
    CRSs = {c1}
    DKGDelayRound = 1
    BLSReady <- MCBLSReady
    Heights = {0}
    NPKs <- MCNPKs
    NilNPKs = NilNPKs
    BlockHashes = {x1}
    Periods = {1}
    VoteTypes = {"PreCom", "Com"}
    PartialSigs = {ps1}
    Payloads = {pl1, pl2}
    Timestamps = {t1}
    Witnesses <- MCWitnesses
    MaxSigned = 2
SPECIFICATION Spec
INVARIANTS
    TypeOK
    ComplaintEvidenceAuthentic
    CRSSignatureAuthentic
    VoteSignatureAuthentic
    BlockSignatureAuthentic
