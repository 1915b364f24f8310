\* Vote schedule and fast-path ownership, with restarts, period jumps,
\* leader blocks and output interleaved with the driver.
CONSTANTS
    h1 = h1  h2 = h2
    NullHash = NullHash
    SkipHash = SkipHash
    Hashes <- OneHash
    MaxPosition = 2
    MaxPeriod = 2
SPECIFICATION Spec
INVARIANTS
    TypeOK
    VoteSchedule
PROPERTY
    ReachesPullVote
\* A BA parked in Sleep after the last restart the bound allows waits for a
\* restart that never comes: the one state where the system stops.
CHECK_DEADLOCK FALSE
