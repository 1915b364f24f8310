------------------------------- MODULE DexCache -------------------------------
(***************************************************************************)
(* The dex protocol's cache of votes and blocks, the type cache of package *)
(* dex (src/unnamed/part_002, lines 342-499).                              *)
(*                                                                         *)
(* Every method takes c.lock for its whole body, so each is one step.      *)
(* addVote keeps the votes of each position in voteCache and the positions *)
(* in arrival order in votePosition; once voteSize reaches size it drops   *)
(* the oldest position whole.  addBlock and addFinalizedBlock keep blocks  *)
(* by hash, and finalized blocks by position, each map bounded by size by  *)
(* deleting the first key Go's randomised map iteration yields.  The       *)
(* readers (votes, blocks, finalizedBlock) change nothing and are not      *)
(* actions.                                                                *)
(***************************************************************************)
EXTENDS Integers, Sequences, FiniteSets, Functions, TLC

CONSTANTS
    Positions,   \* coreTypes.Position values votes and blocks carry
    VoteKeys,    \* the rest of a voteKey: proposer, type, block hash, period
    Hashes,      \* block hashes
    PosOf,       \* the position of the block with a given hash
    Size,        \* c.size
    MaxBatch     \* bound on the blocks one addBlocks call carries

ASSUME /\ PosOf \in [Hashes -> Positions]
       /\ Size \in Nat \ {0}
       /\ MaxBatch \in Nat \ {0}

\* A vote, identified by voteToKey: its position and the rest of its key.
Votes == [position : Positions, key : VoteKeys]

\* A block: IsFinalized() is whether the block carries its finalization.
Blocks == [hash : Hashes, position : Positions, finalized : BOOLEAN]
ValidBlocks == {b \in Blocks : b.position = PosOf[b.hash]}

VARIABLES
    voteCache,            \* position -> the set of cached vote keys
    votePosition,         \* the cached positions, oldest first
    voteSize,             \* c.voteSize
    blockCache,           \* hash -> block
    finalizedBlockCache   \* position -> block

vars == <<voteCache, votePosition, voteSize, blockCache, finalizedBlockCache>>

-----------------------------------------------------------------------------
(* Helpers.                                                                *)

\* delete(m, k)
Delete(m, k) == [x \in DOMAIN m \ {k} |-> m[x]]

\* m[k] = v
Put(m, k, v) == (k :> v) @@ m

\* `if len(m) >= c.size { for k := range m { delete(m, k); break } }`:
\* the maps the statement can leave, one per key the iteration may yield.
EvictRandom(m) ==
    IF Cardinality(DOMAIN m) >= Size
      THEN {Delete(m, k) : k \in DOMAIN m}
      ELSE {m}

-----------------------------------------------------------------------------
(* Votes.                                                                  *)

\* newCache(size, db)
Init ==
    /\ voteCache = << >>
    /\ votePosition = << >>
    /\ voteSize = 0
    /\ blockCache = << >>
    /\ finalizedBlockCache = << >>

\* Mutant of AddVote: the duplicate check does not return.
AddVoteCountsDuplicates(v) ==
    LET full == voteSize >= Size
        pos  == Head(votePosition)
        vc1  == IF full THEN Delete(voteCache, pos) ELSE voteCache
        vs1  == IF full THEN voteSize - Cardinality(voteCache[pos]) ELSE voteSize
        vp1  == IF full THEN Tail(votePosition) ELSE votePosition
        new  == v.position \notin DOMAIN vc1
        vc2  == IF new THEN Put(vc1, v.position, {}) ELSE vc1
    IN  /\ votePosition' = IF new THEN Append(vp1, v.position) ELSE vp1
        /\ voteCache' = [vc2 EXCEPT ![v.position] = @ \cup {v.key}]
        /\ voteSize' = vs1 + 1
        /\ UNCHANGED <<blockCache, finalizedBlockCache>>

\* addVote: when full, drop the oldest position and its votes; create the
\* vote's position if absent (appending it to votePosition); return if the
\* key is already there, else store it and count it.  The eviction and the
\* creation happen before the duplicate check and stay when it returns.
AddVote(v) ==
    LET full == voteSize >= Size
        pos  == Head(votePosition)
        vc1  == IF full THEN Delete(voteCache, pos) ELSE voteCache
        vs1  == IF full THEN voteSize - Cardinality(voteCache[pos]) ELSE voteSize
        vp1  == IF full THEN Tail(votePosition) ELSE votePosition
        new  == v.position \notin DOMAIN vc1
        vc2  == IF new THEN Put(vc1, v.position, {}) ELSE vc1
        dup  == v.key \in vc2[v.position]
    IN  /\ votePosition' = IF new THEN Append(vp1, v.position) ELSE vp1
        /\ voteCache' = IF dup THEN vc2
                        ELSE [vc2 EXCEPT ![v.position] = @ \cup {v.key}]
        /\ voteSize' = IF dup THEN vs1 ELSE vs1 + 1
        /\ UNCHANGED <<blockCache, finalizedBlockCache>>

-----------------------------------------------------------------------------
(* Blocks.  The NoLock helpers map one cache state, a record of the two    *)
(* maps, to the set of states it can leave.                                *)

\* Mutant of AddFinalizedBlockNoLock: the finalized block is stored under its
\* hash in finalizedBlockCache.
AddFinalizedBlockNoLockByHash(st, b) ==
    {[bc |-> Put(m, b.hash, b), fc |-> Put(f, b.hash, b)] :
        m \in EvictRandom(st.bc), f \in EvictRandom(st.fc)}

\* Mutant of AddBlockNoLock: no finalized-position guard.
AddBlockNoLockUnguarded(st, b) ==
    {[st EXCEPT !.bc = Put(m, b.hash, b)] : m \in EvictRandom(st.bc)}

\* addBlockNoLock: a block of a position that has a cached finalized block
\* is ignored; otherwise make room in blockCache and store the clone.
AddBlockNoLock(st, b) ==
    IF b.position \in DOMAIN st.fc
      THEN {st}
      ELSE {[st EXCEPT !.bc = Put(m, b.hash, b)] : m \in EvictRandom(st.bc)}

\* addFinalizedBlockNoLock: make room in both maps, then store the clone
\* by hash and by position.
AddFinalizedBlockNoLock(st, b) ==
    {[bc |-> Put(m, b.hash, b), fc |-> Put(f, b.position, b)] :
        m \in EvictRandom(st.bc), f \in EvictRandom(st.fc)}

\* The loop body of addBlocks: dispatch on b.IsFinalized().
AddAnyBlockNoLock(st, b) ==
    IF b.finalized THEN AddFinalizedBlockNoLock(st, b) ELSE AddBlockNoLock(st, b)

\* addBlocks: the blocks one after the other, all under one lock.
RECURSIVE AddBlocksNoLock(_, _)
AddBlocksNoLock(sts, bs) ==
    IF bs = << >>
      THEN sts
      ELSE AddBlocksNoLock(UNION {AddAnyBlockNoLock(st, Head(bs)) : st \in sts},
                           Tail(bs))

CurrentBlockState == [bc |-> blockCache, fc |-> finalizedBlockCache]

\* Take one of the states a locked section can leave.
SetBlockState(sts) ==
    /\ \E st \in sts :
          /\ blockCache' = st.bc
          /\ finalizedBlockCache' = st.fc
    /\ UNCHANGED <<voteCache, votePosition, voteSize>>

AddBlock(b) == SetBlockState(AddBlockNoLock(CurrentBlockState, b))

AddFinalizedBlock(b) ==
    SetBlockState(AddFinalizedBlockNoLock(CurrentBlockState, b))

AddBlocks(bs) == SetBlockState(AddBlocksNoLock({CurrentBlockState}, bs))

-----------------------------------------------------------------------------

Batches == UNION {[1..n -> ValidBlocks] : n \in 1..MaxBatch}

\* The protocol manager passes addFinalizedBlock finalized blocks only;
\* addBlock and addBlocks get whatever peers send.
Next ==
    \/ \E v \in Votes : AddVote(v)
    \/ \E b \in ValidBlocks : AddBlock(b)
    \/ \E b \in ValidBlocks : b.finalized /\ AddFinalizedBlock(b)
    \/ \E bs \in Batches : AddBlocks(bs)

Spec == Init /\ [][Next]_vars

-----------------------------------------------------------------------------
(* Properties.                                                             *)

TypeOK ==
    /\ DOMAIN voteCache \subseteq Positions
    /\ \A p \in DOMAIN voteCache : voteCache[p] \subseteq VoteKeys
    /\ votePosition \in Seq(Positions)
    /\ voteSize \in Nat
    /\ DOMAIN blockCache \subseteq Hashes
    /\ \A h \in DOMAIN blockCache : blockCache[h] \in ValidBlocks
    /\ DOMAIN finalizedBlockCache \subseteq Positions
    /\ \A p \in DOMAIN finalizedBlockCache : finalizedBlockCache[p] \in ValidBlocks

\* addVote's bookkeeping stays exact through evictions, re-created
\* positions and duplicates: votePosition lists every cached position once,
\* voteSize is the number of cached votes, and it never exceeds size.
VoteAccounting ==
    /\ IsInjective(votePosition)
    /\ Range(votePosition) = DOMAIN voteCache
    /\ voteSize = SumFunction([p \in DOMAIN voteCache |-> Cardinality(voteCache[p])])
    /\ voteSize <= Size

\* addBlock's guard keeps a finalized block from being replaced by the
\* non-finalized copy of itself: while finalizedBlockCache holds a block
\* and blockCache holds its hash, the block there is the finalized one.
FinalizedNotShadowed ==
    \A p \in DOMAIN finalizedBlockCache :
        LET h == finalizedBlockCache[p].hash
        IN  h \in DOMAIN blockCache => blockCache[h].finalized

====
