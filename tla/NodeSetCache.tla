---------------------------- MODULE NodeSetCache ----------------------------
(***************************************************************************)
(* The committee cache utils.NodeSetCache (src/unnamed/part_000).          *)
(*                                                                         *)
(* The cache keeps, per round, a snapshot of the round's node set, CRS and *)
(* notary set, and a key pool shared by all cached rounds in which every   *)
(* node carries a reference count.  Readers (Exists, GetNodeSet,           *)
(* GetNotarySet) look the round up under the read lock and, on a miss,     *)
(* call update, which takes the write lock; the read lock is released in   *)
(* between, so two readers may both miss and both update.  Touch calls     *)
(* update directly, Purge evicts one round.  update fetches the node set,  *)
(* the CRS and the configuration from the round-information provider      *)
(* (the governance), each of which may not be ready yet, and finishes with *)
(* a sweep that evicts every cached round rID with round - rID > 5,        *)
(* computed on uint64.                                                     *)
(*                                                                         *)
(* Each locked section is one atomic step; the gap between a reader's get  *)
(* and its update is a separate step so that other callers interleave.     *)
(***************************************************************************)
EXTENDS Integers, FiniteSets, FiniteSetsExt

CONSTANTS
    Nodes,            \* node identities (NewNodeID of a public key)
    Rounds,           \* the rounds callers ask about
    Threads,          \* concurrent callers of the cache
    Ops,              \* the operations the callers perform (a run's choice)
    NodeSetOf,        \* provider: NodeSet(round), as node identities
    CRSOf,            \* provider: CRS(round) once it is ready
    NotarySetSizeOf,  \* provider: Configuration(round).NotarySetSize
    InitAvail,        \* which provider answers are ready initially
    RoundModulus,     \* 2^64: rounds are uint64
    MaxRefCnt         \* bound on a key's reference count (model bound)

\* The provider answers update asks for, in the order update asks.
Items == {"NodeSet", "CRS", "Configuration"}

AllOps == {"Exists", "GetNodeSet", "GetNotarySet", "Touch", "Purge"}

\* "if round-rID <= 5 { continue }": rounds further back than this are swept.
PurgeDistance == 5

ASSUME
    /\ Rounds \subseteq Nat /\ Rounds # {}
    /\ Ops \subseteq AllOps
    /\ NodeSetOf \in [Rounds -> SUBSET Nodes]
    /\ NotarySetSizeOf \in [Rounds -> Nat]
    /\ InitAvail \subseteq [Rounds -> SUBSET Items]
    \* a uint64 difference of two modelled rounds wraps as it does on 2^64
    /\ \A r \in Rounds : r + PurgeDistance < RoundModulus
    /\ MaxRefCnt \in Nat \ {0}

\* The value a reader's pending update is for when it has none.
NoRound == -1

VARIABLES
    rounds,    \* cache.rounds: round -> [crs, nodeSet, notarySet]
    keyPool,   \* cache.keyPool: node -> refCnt (the public key itself abstracted)
    pending,   \* per thread: the round its get missed, or NoRound
    avail      \* per round: the provider answers that are ready

vars == <<rounds, keyPool, pending, avail>>

-----------------------------------------------------------------------------
(* Helpers.                                                                *)

\* types.NodeSet.GetSubSet(size, NewNotarySetTarget(crs)): a deterministic
\* subset of the node set selected by the CRS (its ranking is abstracted).
NotarySubset(ns, crs, size) ==
    CHOOSE s \in kSubset(IF size < Cardinality(ns) THEN size ELSE Cardinality(ns), ns) : TRUE

\* The sets struct update builds for round r.
Snapshot(r) ==
    [crs |-> CRSOf[r], nodeSet |-> NodeSetOf[r],
     notarySet |-> NotarySubset(NodeSetOf[r], CRSOf[r], NotarySetSizeOf[r])]

\* The loop over keySet: refCnt++ for a pooled key, a new record at 1 otherwise.
AddRefs(pool, ks) ==
    [n \in DOMAIN pool \cup ks |->
        IF n \in DOMAIN pool THEN pool[n] + (IF n \in ks THEN 1 ELSE 0) ELSE 1]

\* Mutant of DropRefs: a record whose count reaches zero is kept.
DropRefsKeepZero(pool, cached, evicted) ==
    LET left(n) == pool[n] - Quantify(evicted, LAMBDA x : n \in cached[x].nodeSet)
    IN  [n \in DOMAIN pool |-> left(n)]

\* Decrement every key of the evicted rounds' node sets once per evicted
\* round, deleting a record whose count reaches zero.
DropRefs(pool, cached, evicted) ==
    LET left(n) == pool[n] - Quantify(evicted, LAMBDA x : n \in cached[x].nodeSet)
    IN  [n \in {m \in DOMAIN pool : left(m) > 0} |-> left(n)]

\* The sweep condition "round-rID <= 5 { continue }" on uint64 rounds: a
\* round newer than the one updated wraps around to a huge difference.
Swept(round, rID) == (round - rID) % RoundModulus > PurgeDistance

\* Store round r's snapshot (over one already cached) and sweep.
StoreAndSweep(r) ==
    LET cached  == [x \in DOMAIN rounds \cup {r} |->
                        IF x = r THEN Snapshot(r) ELSE rounds[x]]
        evicted == {rID \in DOMAIN cached : Swept(r, rID)}
        pool    == AddRefs(keyPool, NodeSetOf[r])
    IN  /\ rounds'  = [x \in DOMAIN cached \ evicted |-> cached[x]]
        /\ keyPool' = DropRefs(pool, cached, evicted)

\* update(round): the whole locked section.  A nil node set or a zero CRS
\* returns before anything changes; a nil configuration returns after the
\* key pool has been incremented; otherwise the snapshot is stored, over
\* any snapshot of the round already cached, and the sweep runs.
Update(r) ==
    \/ /\ "NodeSet" \notin avail[r]
       /\ UNCHANGED <<rounds, keyPool>>
    \/ /\ "NodeSet" \in avail[r] /\ "CRS" \notin avail[r]
       /\ UNCHANGED <<rounds, keyPool>>
    \/ /\ {"NodeSet", "CRS"} \subseteq avail[r] /\ "Configuration" \notin avail[r]
       /\ keyPool' = AddRefs(keyPool, NodeSetOf[r])
       /\ UNCHANGED rounds
    \/ /\ Items \subseteq avail[r]
       /\ StoreAndSweep(r)

\* Model bound: a caller only starts an update while every count is below
\* MaxRefCnt (so counts stay below MaxRefCnt + Cardinality(Threads)).
BelowRefBound == \A n \in DOMAIN keyPool : keyPool[n] < MaxRefCnt

\* GetPublicKey(nodeID): found iff the key pool holds a record for the node.
GetPublicKey(n) == n \in DOMAIN keyPool

-----------------------------------------------------------------------------
(* Actions.                                                                *)

Init ==
    /\ rounds = [r \in {} |-> Snapshot(r)]
    /\ keyPool = [n \in {} |-> 0]
    /\ pending = [t \in Threads |-> NoRound]
    /\ avail \in InitAvail

\* get(round) under the read lock, by a caller of op: a hit returns, a miss
\* leaves the caller about to call update.
Get(t, r) ==
    /\ pending[t] = NoRound
    /\ IF r \in DOMAIN rounds
         THEN UNCHANGED pending
         ELSE BelowRefBound /\ pending' = [pending EXCEPT ![t] = r]
    /\ UNCHANGED <<rounds, keyPool, avail>>

\* Exists, GetNodeSet and GetNotarySet (through getOrUpdate) all run get and
\* on a miss update; they differ only in what they return.
Exists(t, r) == "Exists" \in Ops /\ Get(t, r)

GetNodeSet(t, r) == "GetNodeSet" \in Ops /\ Get(t, r)

GetNotarySet(t, r) == "GetNotarySet" \in Ops /\ Get(t, r)

\* The reader that missed calls update; whatever it returns, the call ends.
UpdateAfterMiss(t) ==
    /\ pending[t] # NoRound
    /\ Update(pending[t])
    /\ pending' = [pending EXCEPT ![t] = NoRound]
    /\ UNCHANGED avail

\* Touch(round) calls update without looking at the cache first.
Touch(t, r) ==
    /\ "Touch" \in Ops
    /\ pending[t] = NoRound
    /\ BelowRefBound
    /\ Update(r)
    /\ UNCHANGED <<pending, avail>>

\* Mutant of Purge: the key records are released but the round stays cached.
PurgeKeepRound(t, r) ==
    /\ "Purge" \in Ops
    /\ pending[t] = NoRound
    /\ r \in DOMAIN rounds
    /\ keyPool' = DropRefs(keyPool, rounds, {r})
    /\ UNCHANGED <<rounds, pending, avail>>

\* Purge(rID): a round that is not cached is a no-op; otherwise every key of
\* its node set is released and the snapshot is deleted.
Purge(t, r) ==
    /\ "Purge" \in Ops
    /\ pending[t] = NoRound
    /\ IF r \in DOMAIN rounds
         THEN /\ keyPool' = DropRefs(keyPool, rounds, {r})
              /\ rounds' = [x \in DOMAIN rounds \ {r} |-> rounds[x]]
         ELSE UNCHANGED <<rounds, keyPool>>
    /\ UNCHANGED <<pending, avail>>

\* The governance makes one more answer for round r ready.
Publish(r, item) ==
    /\ item \notin avail[r]
    /\ avail' = [avail EXCEPT ![r] = @ \cup {item}]
    /\ UNCHANGED <<rounds, keyPool, pending>>

Next ==
    \/ \E t \in Threads, r \in Rounds :
          \/ Exists(t, r) \/ GetNodeSet(t, r) \/ GetNotarySet(t, r)
          \/ Touch(t, r) \/ Purge(t, r)
    \/ \E t \in Threads : UpdateAfterMiss(t)
    \/ \E r \in Rounds, item \in Items : Publish(r, item)

Spec == Init /\ [][Next]_vars

-----------------------------------------------------------------------------
(* Properties.                                                             *)

\* The number of cached rounds whose node set contains n.
RefsTo(n) == Quantify(DOMAIN rounds, LAMBDA r : n \in rounds[r].nodeSet)

TypeOK ==
    /\ DOMAIN rounds \subseteq Rounds
    /\ \A r \in DOMAIN rounds : rounds[r] = Snapshot(r)
    /\ DOMAIN keyPool \subseteq Nodes
    /\ \A n \in DOMAIN keyPool : keyPool[n] \in 1..(MaxRefCnt + Cardinality(Threads))
    /\ pending \in [Threads -> Rounds \cup {NoRound}]
    /\ avail \in [Rounds -> SUBSET Items]

\* The key pool never under-counts: every node of every cached round has a
\* record whose count is at least the number of cached rounds holding it.
\* So GetPublicKey finds the key of every member of a cached round, and the
\* decrement loops of Purge and of update's sweep never reach a record that
\* was already deleted (a nil dereference in the code).
KeysOfCachedRoundsAvailable ==
    \A n \in UNION {rounds[r].nodeSet : r \in DOMAIN rounds} :
        GetPublicKey(n) /\ keyPool[n] >= RefsTo(n)

\* The spec and the doc comment of update: the key pool's count for a node is
\* exactly the number of cached rounds referencing it, and a record exists
\* exactly for the nodes of the cached rounds (no double counting when two
\* callers update the same round, no leak when an update fails).
RefCountExact ==
    /\ DOMAIN keyPool = UNION {rounds[r].nodeSet : r \in DOMAIN rounds}
    /\ \A n \in DOMAIN keyPool : keyPool[n] = RefsTo(n)

\* The spec's sweep evicts a cached round R' only when R - R' > 5 for the
\* round R being updated: a step that stores a snapshot never evicts a
\* round newer than the one it stores.  (Checked where no caller purges.)
SweepKeepsNewerRounds ==
    [][\A r \in DOMAIN rounds \ DOMAIN rounds' :
          \A R \in DOMAIN rounds' \ {r} : r < R]_vars

=============================================================================
