--------------------------- MODULE AgreementState ---------------------------
(***************************************************************************)
(* One node's Byzantine Agreement state machine, core/agreement-state.go.  *)
(*                                                                         *)
(* Each state has clocks(), the ticks the driver waits in it, and          *)
(* nextState(), which casts at most one vote through recv.ProposeVote and  *)
(* returns the successor.  The driver (agreement.go, not under src) waits  *)
(* the clocks and calls nextState with the agreement lock held, the same   *)
(* lock under which votes are processed, so a nextState is one step here.  *)
(*                                                                         *)
(* The agreement data the states read (isLeader, lockValue, period, the    *)
(* leader's block hash) is written by agreement.go outside src: restart    *)
(* for a new position, the jump to PreCommit of a later period when a      *)
(* period's Com votes reach quorum, and the switch to Sleep once the BA    *)
(* has output.  Those are modelled from the spec as environment actions.   *)
(***************************************************************************)
EXTENDS Integers, Sequences

CONSTANTS
    Hashes,       \* block hashes a proposal or a leader block can have
    NullHash,     \* types.NullBlockHash (the zero hash, the BA's bottom)
    SkipHash,     \* types.SkipBlockHash (all 0xff)
    MaxPosition,  \* bound on the positions the node is restarted for
    MaxPeriod     \* bound on the periods of one position

ASSUME
    /\ NullHash \notin Hashes /\ SkipHash \notin Hashes /\ NullHash # SkipHash
    /\ MaxPosition \in Nat \ {0} /\ MaxPeriod \in Nat \ {0}

\* agreementStateType
States == {"Fast", "FastVote", "Initial", "PreCommit", "Commit", "Forward",
           "PullVote", "Sleep"}

\* types.VoteType, in the order of its iota enumeration.
VoteTypes == {"Init", "PreCom", "Com", "Fast", "FastCom"}

\* The order in which one period's ballots are cast by the state sequence.
BallotRank == [t \in VoteTypes |->
                  CASE t = "Fast"    -> 0
                    [] t = "Init"    -> 1
                    [] t = "PreCom"  -> 2
                    [] t = "Com"     -> 3
                    [] t = "FastCom" -> 4]

VoteHashes == Hashes \cup {NullHash, SkipHash}

VARIABLES
    state,       \* the agreementState the driver holds
    ticks,       \* ticks waited in the current state
    isLeader,    \* agreementData.isLeader
    lockValue,   \* agreementData.lockValue
    period,      \* agreementData.period
    position,    \* the position recv stamps on the votes
    leaderHash,  \* leader.leaderBlockHash()
    votes        \* history: every vote passed to recv.ProposeVote, in order

vars == <<state, ticks, isLeader, lockValue, period, position, leaderHash, votes>>

agreementData == <<isLeader, lockValue, period, position, leaderHash>>

-----------------------------------------------------------------------------
(* clocks() of every state.  Sleep's 65536 ticks are never waited out in   *)
(* the model: Sleep is left only by a restart.                             *)

\* Mutant of Clocks: forwardState waits 5 ticks.
ClocksForwardFive(s) ==
    CASE s = "Fast"      -> 0
      [] s = "FastVote"  -> 3
      [] s = "Initial"   -> 0
      [] s = "PreCommit" -> 2
      [] s = "Commit"    -> 2
      [] s = "Forward"   -> 5
      [] s = "PullVote"  -> 4
      [] s = "Sleep"     -> 65536

Clocks(s) ==
    CASE s = "Fast"      -> 0
      [] s = "FastVote"  -> 3
      [] s = "Initial"   -> 0
      [] s = "PreCommit" -> 2
      [] s = "Commit"    -> 2
      [] s = "Forward"   -> 4
      [] s = "PullVote"  -> 4
      [] s = "Sleep"     -> 65536

\* types.NewVote(t, hash, period), stamped with the position by recv.
NewVote(t, hash) ==
    [type |-> t, hash |-> hash, period |-> period, position |-> position]

\* recv.ProposeVote: the vote is broadcast (recorded in the history).
ProposeVote(v) == votes' = Append(votes, v)

\* The driver calls nextState once the state's clocks have elapsed; the new
\* state starts its own wait.
Advance(from, to) ==
    /\ state = from
    /\ ticks >= Clocks(from)
    /\ state' = to
    /\ ticks' = 0

-----------------------------------------------------------------------------
(* nextState of every state.                                               *)

\* fastState: a leader proposes a block and casts a Fast vote for it unless
\* the proposal is the null hash; everyone moves on to FastVote.
FastNext ==
    /\ Advance("Fast", "FastVote")
    /\ IF isLeader
         THEN \E hash \in Hashes \cup {NullHash} :     \* recv.ProposeBlock()
                 IF hash # NullHash THEN ProposeVote(NewVote("Fast", hash))
                                    ELSE UNCHANGED votes
         ELSE UNCHANGED votes
    /\ UNCHANGED agreementData

FastVoteNext ==
    /\ Advance("FastVote", "Initial")
    /\ UNCHANGED <<votes, agreementData>>

\* initialState: a node that is not the leader proposes a block and casts an
\* Init vote for whatever hash the proposal returns, the null hash included.
InitialNext ==
    /\ Advance("Initial", "PreCommit")
    /\ IF ~isLeader
         THEN \E hash \in Hashes \cup {NullHash} :     \* recv.ProposeBlock()
                 ProposeVote(NewVote("Init", hash))
         ELSE UNCHANGED votes
    /\ UNCHANGED agreementData

\* preCommitState: without a lock (SKIP or NULL) vote PreCom for the
\* leader's block, otherwise for the lock value.
PreCommitNext ==
    /\ Advance("PreCommit", "Commit")
    /\ ProposeVote(NewVote("PreCom",
                           IF lockValue \in {SkipHash, NullHash}
                             THEN leaderHash ELSE lockValue))
    /\ UNCHANGED agreementData

\* commitState: vote Com for the lock value.
CommitNext ==
    /\ Advance("Commit", "Forward")
    /\ ProposeVote(NewVote("Com", lockValue))
    /\ UNCHANGED agreementData

\* Mutant of ForwardNext: forward returns to commit.
ForwardNextToCommit ==
    /\ Advance("Forward", "Commit")
    /\ UNCHANGED <<votes, agreementData>>

\* Mutant of ForwardNext: forwardState returns itself, as pullVoteState does.
ForwardNextSelf ==
    /\ Advance("Forward", "Forward")
    /\ UNCHANGED <<votes, agreementData>>

ForwardNext ==
    /\ Advance("Forward", "PullVote")
    /\ UNCHANGED <<votes, agreementData>>

\* pullVoteState returns itself: the driver waits another 4 ticks.
PullVoteNext ==
    /\ Advance("PullVote", "PullVote")
    /\ UNCHANGED <<votes, agreementData>>

\* The driver's ticker: one tick of waiting in the current state.
Tick ==
    /\ ticks < Clocks(state)
    /\ state # "Sleep"
    /\ ticks' = ticks + 1
    /\ UNCHANGED <<state, votes, agreementData>>

-----------------------------------------------------------------------------
(* agreement.go, modelled from the spec.                                   *)

\* restart for the next position: period 1, no lock, the leader flag of the
\* new position; the BA starts at Fast, or at Initial off the fast path.
Restart ==
    /\ position < MaxPosition
    /\ position' = position + 1
    /\ period' = 1
    /\ lockValue' = SkipHash
    /\ isLeader' \in BOOLEAN
    /\ leaderHash' = NullHash
    /\ state' \in {"Fast", "Initial"}
    /\ ticks' = 0
    /\ UNCHANGED votes

\* Com votes of period >= the current one reached quorum for a hash: it is
\* locked, the period becomes that vote period + 1, and the BA continues at
\* PreCommit.
EnterPeriod ==
    /\ state # "Sleep"
    /\ \E p \in period..(MaxPeriod - 1), h \in VoteHashes :
          /\ period' = p + 1
          /\ lockValue' = h
    /\ state' = "PreCommit"
    /\ ticks' = 0
    /\ UNCHANGED <<isLeader, position, leaderHash, votes>>

\* The leader selector sees a (better) block from the position's leader.
LeaderBlock ==
    /\ \E h \in Hashes : leaderHash' = h
    /\ leaderHash' # leaderHash
    /\ UNCHANGED <<state, ticks, isLeader, lockValue, period, position, votes>>

\* The BA has output: the driver parks it in sleepState.
Decide ==
    /\ state # "Sleep"
    /\ state' = "Sleep"
    /\ ticks' = 0
    /\ UNCHANGED <<votes, agreementData>>

-----------------------------------------------------------------------------

Init ==
    /\ state = "Fast"
    /\ ticks = 0
    /\ isLeader \in BOOLEAN
    /\ lockValue = SkipHash
    /\ period = 1
    /\ position = 1
    /\ leaderHash = NullHash
    /\ votes = << >>

StateNext ==
    \/ FastNext \/ FastVoteNext \/ InitialNext \/ PreCommitNext
    \/ CommitNext \/ ForwardNext \/ PullVoteNext

Environment == Restart \/ EnterPeriod \/ LeaderBlock \/ Decide

Next == Tick \/ StateNext \/ Environment

\* The ticker fires periodically and the driver calls nextState whenever
\* the clocks have elapsed; the environment's steps are not required.
Fairness == WF_vars(Tick) /\ WF_vars(StateNext)

Spec == Init /\ [][Next]_vars /\ Fairness

-----------------------------------------------------------------------------
(* Properties.                                                             *)

TypeOK ==
    /\ state \in States
    /\ ticks \in 0..4
    /\ isLeader \in BOOLEAN
    /\ lockValue \in VoteHashes
    /\ period \in 1..MaxPeriod
    /\ position \in 1..MaxPosition
    /\ leaderHash \in Hashes \cup {NullHash}
    /\ votes \in Seq([type : VoteTypes, hash : VoteHashes,
                      period : 1..MaxPeriod, position : 1..MaxPosition])

\* The ballots one node casts for one (position, period) come in strictly
\* increasing ballot order: Fast or Init, then PreCom, then Com, never one
\* type twice and never an earlier type after a later one, whatever the
\* interleaving of restarts, period jumps and the driver's steps.
VoteSchedule ==
    \A i, j \in 1..Len(votes) :
        /\ i < j
        /\ votes[i].position = votes[j].position
        /\ votes[i].period = votes[j].period
        => BallotRank[votes[i].type] < BallotRank[votes[j].type]

\* Once the environment is quiet, the driver takes the BA through the main
\* path and parks it: eventually it stays in PullVote or Sleep for good.
ReachesPullVote ==
    <>[](state \in {"PullVote", "Sleep"})

=============================================================================
