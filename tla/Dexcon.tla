-------------------------------- MODULE Dexcon --------------------------------
(***************************************************************************)
(* The Dexcon consensus engine's Finalize (src/consensus/dexcon/dexcon.go) *)
(* as the blockchain calls it on every new block, in height order.         *)
(*                                                                         *)
(* Finalize records the first height of each round (PushRoundHeight),      *)
(* disqualifies, at the first block of a round after DKGDelayRound, the    *)
(* DKG set nodes of the previous round that proposed nothing in it, pays   *)
(* the block reward unless the block is empty or in the extended part of   *)
(* its round, adds it to the total supply, halves mining once the supply   *)
(* reaches the next halving checkpoint, and records the coinbase's last    *)
(* proposed height.  Every other engine method is a stub with no state.    *)
(*                                                                         *)
(* The governance state (vm.GovernanceState) is kept as variables: the     *)
(* round heights, last proposed heights, disqualified nodes, balances,     *)
(* total supply and halvings.  The per-round configuration the fetcher     *)
(* returns is constant.  The rounds of successive blocks come from the     *)
(* consensus core: a block stays in its parent's round or, once that round *)
(* has RoundLength blocks, may open the next one.                          *)
(***************************************************************************)
EXTENDS Integers, Sequences, FiniteSets, Functions, TLC

CONSTANTS
    Nodes,             \* node owner addresses; a block's coinbase is one
    Empty,             \* common.Address{}: the coinbase of an empty block
    MaxRound,          \* bound on rounds
    MaxBlocks,         \* bound on finalized blocks
    RoundLength,       \* config.RoundLength
    DKGDelayRound,     \* dexCore.DKGDelayRound
    DKGSet,            \* round -> DKGSetNodeKeyAddresses(round), as owners
    MiningVelocity,    \* config.MiningVelocity as <<numerator, denominator>>
    TotalStaked,       \* gs.TotalStaked()
    MinBlockInterval,  \* config.MinBlockInterval, in milliseconds
    AYear,             \* 86400*1000*365, scaled to TLC's integers
    HalvingSupply      \* n -> config.NextHalvingSupply after n halvings

ASSUME /\ Empty \notin Nodes
       /\ RoundLength \in Nat \ {0}
       /\ DKGSet \in [0..MaxRound -> SUBSET Nodes]
       /\ MiningVelocity \in (Nat \X (Nat \ {0}))
       /\ AYear \in Nat \ {0}

VARIABLES
    number,              \* header.Number of the last finalized block
    round,               \* header.Round of the last finalized block
    roundHeight,         \* gs round heights: <<h0, h1, ...>>, round r at r+1
    lastProposedHeight,  \* owner -> gs.LastProposedHeight(owner)
    disqualified,        \* <<round, owner>>: gs.Disqualify at that round
    balance,             \* owner -> reward added by state.AddBalance
    totalSupply,         \* gs.TotalSupply()
    halvings,            \* gs.MiningHalved() calls
    chain                \* the finalized blocks: [round, coinbase, reward]

vars == <<number, round, roundHeight, lastProposedHeight, disqualified,
          balance, totalSupply, halvings, chain>>

\* gs.RoundHeight(r): 0 for a round not pushed yet.
RoundHeightOf(rh, r) == IF r < Len(rh) THEN rh[r + 1] ELSE 0

-----------------------------------------------------------------------------

\* Mutant of InExtendedRound: round 0 is not shifted by one.
InExtendedRoundNoGenesisShift(rh, num, r) ==
    num >= RoundHeightOf(rh, r) + RoundLength

\* inExtendedRound: the round ends RoundLength heights after its first one,
\* one later for round 0, which starts at height 0 instead of 1.
InExtendedRound(rh, num, r) ==
    LET roundEnd == RoundHeightOf(rh, r) + RoundLength + (IF r = 0 THEN 1 ELSE 0)
    IN  num >= roundEnd

\* calculateBlockReward: velocity * totalStaked * roundLength *
\* minBlockInterval, truncated to an integer, divided by aYear *
\* roundLength.
CalculateBlockReward ==
    LET numerator == (MiningVelocity[1] * TotalStaked * RoundLength * MinBlockInterval)
                         \div MiningVelocity[2]
    IN  numerator \div (AYear * RoundLength)

\* Mutant of DeadNodes: a node whose last block is the first one of round
\* r-1 counts as dead.
DeadNodesAtOrBelow(rh, r) ==
    {n \in DKGSet[r - 1] : lastProposedHeight[n] <= RoundHeightOf(rh, r - 1)}

\* The disqualification loop of Finalize at the first block of round r: the
\* nodes of round r-1's DKG set whose last proposed height is below round
\* r-1's first height.
DeadNodes(rh, r) ==
    {n \in DKGSet[r - 1] : lastProposedHeight[n] < RoundHeightOf(rh, r - 1)}

\* Mutant of IsFirstBlock: the round > 0 test is dropped.
IsFirstBlockAnyRound(rh, r) == RoundHeightOf(rh, r) = 0

\* "The first block of a round is found": a round after 0 with no height.
IsFirstBlock(rh, r) == r > 0 /\ RoundHeightOf(rh, r) = 0

\* Finalize of the block at height num in round r with coinbase cb.
Finalize(r, cb) ==
    LET num    == number + 1
        first  == IsFirstBlock(roundHeight, r)
        rh     == IF first THEN Append(roundHeight, num) ELSE roundHeight
        dead   == IF first /\ r > DKGDelayRound THEN DeadNodes(rh, r) ELSE {}
        reward == IF cb # Empty /\ ~InExtendedRound(rh, num, r)
                    THEN CalculateBlockReward ELSE 0
        supply == totalSupply + reward
    IN  /\ roundHeight' = rh
        /\ disqualified' = disqualified \cup {<<r, n>> : n \in dead}
        /\ balance' = IF cb # Empty THEN [balance EXCEPT ![cb] = @ + reward]
                                    ELSE balance
        /\ totalSupply' = supply
        /\ halvings' = IF supply >= HalvingSupply[halvings]
                         THEN halvings + 1 ELSE halvings
        /\ lastProposedHeight' = IF cb # Empty
                                   THEN [lastProposedHeight EXCEPT ![cb] = num]
                                   ELSE lastProposedHeight
        /\ number' = num
        /\ round' = r
        /\ chain' = Append(chain, [round |-> r, coinbase |-> cb, reward |-> reward])

-----------------------------------------------------------------------------

\* The genesis block: height 0 of round 0, not finalized by the engine.
Init ==
    /\ number = 0
    /\ round = 0
    /\ roundHeight = <<0>>
    /\ lastProposedHeight = [n \in Nodes |-> 0]
    /\ disqualified = {}
    /\ balance = [n \in Nodes |-> 0]
    /\ totalSupply = 0
    /\ halvings = 0
    /\ chain = << >>

\* Blocks of the current round so far.
BlocksInRound(r) == Cardinality({i \in DOMAIN chain : chain[i].round = r})

\* The next block stays in the round or, once the round is full, opens the
\* next one; its coinbase is a node or empty.
Next ==
    /\ number < MaxBlocks
    /\ \E r \in {round} \cup {x \in {round + 1} : x <= MaxRound /\
                                 BlocksInRound(round) >= RoundLength} :
         \E cb \in Nodes \cup {Empty} : Finalize(r, cb)

Spec == Init /\ [][Next]_vars

-----------------------------------------------------------------------------
(* Properties.                                                             *)

TypeOK ==
    /\ number \in 0..MaxBlocks
    /\ round \in 0..MaxRound
    /\ roundHeight \in Seq(0..MaxBlocks)
    /\ Len(roundHeight) = round + 1
    /\ lastProposedHeight \in [Nodes -> 0..MaxBlocks]
    /\ disqualified \subseteq (1..MaxRound) \X Nodes
    /\ balance \in [Nodes -> Nat]
    /\ totalSupply \in Nat
    /\ halvings \in Nat
    /\ chain \in Seq([round : 0..MaxRound, coinbase : Nodes \cup {Empty},
                      reward : Nat])

\* The owners that proposed a block of round r.
ProposersOf(r) == {chain[i].coinbase : i \in {j \in DOMAIN chain : chain[j].round = r}}

\* Finalize's dead-node check (lastProposedHeight below the previous
\* round's first height) disqualifies, at every round after DKGDelayRound
\* that has begun, exactly the previous round's DKG set nodes that proposed
\* no block in that round.
DeadNodesDisqualified ==
    \A r \in 1..round :
        r > DKGDelayRound =>
            \A n \in DKGSet[r - 1] :
                <<r, n>> \in disqualified <=> n \notin ProposersOf(r - 1)

\* inExtendedRound, from the round heights Finalize pushes: a block earns
\* a reward exactly when it has a coinbase and fewer than RoundLength
\* blocks of its round precede it, round 0 counting from height 1.
RewardOnlyInRound ==
    \A i \in DOMAIN chain :
        chain[i].reward > 0 <=>
            /\ chain[i].coinbase # Empty
            /\ Cardinality({j \in 1..(i - 1) : chain[j].round = chain[i].round})
                   < RoundLength

====
