\* Finalize over every order of coinbases and round changes up to 7 blocks.
CONSTANTS
    a = a
    b = b
    e = e
    Nodes <- MCNodes
    Empty = e
    MaxRound = 3
    MaxBlocks = 7
    RoundLength = 2
    DKGDelayRound = 1
    DKGSet <- MCDKGSet
    MiningVelocity <- MCMiningVelocity
    TotalStaked = 1000
    MinBlockInterval = 1000
    AYear = 1000
    HalvingSupply <- MCHalvingSupply
SPECIFICATION Spec
\* Finalize runs for the blocks the chain gets, up to MaxBlocks.
CHECK_DEADLOCK FALSE
INVARIANTS
    TypeOK
    DeadNodesDisqualified
    RewardOnlyInRound
