\* Three positions against size 2, so addVote evicts whole positions (its
\* own included); three hashes on two positions against size 2, so both
\* block maps evict; batches of two blocks.
CONSTANTS
    p1 = p1
    p2 = p2
    p3 = p3
    k1 = k1
    k2 = k2
    a = a
    b = b
    c = c
    Positions = {p1, p2, p3}
    VoteKeys = {k1, k2}
    Hashes = {a, b, c}
    PosOf <- MCPosOf
    Size = 2
    MaxBatch = 2
SPECIFICATION Spec
INVARIANTS
    TypeOK
    VoteAccounting
    FinalizedNotShadowed
