-------------------------- MODULE MC_NodeSetCache --------------------------
(***************************************************************************)
(* Instantiation of NodeSetCache for TLC.                                  *)
(*                                                                         *)
(* Rounds {0, 1, 6, 7} give every distance the sweep tells apart: 6 - 1 =  *)
(* 5 is kept, 6 - 0 and 7 - 1 are swept, 1 - 1 is the round itself, and    *)
(* asking for 0 or 1 after 6 or 7 makes the uint64 difference wrap.  The   *)
(* node sets overlap so that keys are shared by several cached rounds.     *)
(***************************************************************************)
EXTENDS NodeSetCache, TLC

CONSTANTS n1, n2, n3, t1, t2

MCNodes == {n1, n2, n3}

MCRounds == {0, 1, 6, 7}

MCNodeSetOf == (0 :> {n1, n2}) @@ (1 :> {n2, n3}) @@ (6 :> {n1, n3}) @@ (7 :> {n1, n2, n3})

\* The CRS of a round, abstracted to a value distinct per round.
MCCRSOf == [r \in MCRounds |-> <<"crs", r>>]

MCNotarySetSizeOf == [r \in MCRounds |-> 2]

\* Only the genesis round's answers are ready; the rest are published later.
GenesisOnly == {[r \in MCRounds |-> IF r = 0 THEN Items ELSE {}]}

\* Every answer is ready from the start (no not-ready error path).
AllReady == {[r \in MCRounds |-> Items]}

\* Stands for 2^64: for rounds below 2^30 - 5, (a - b) % 2^30 > 5 exactly
\* when (a - b) on uint64 is > 5, so the wrap behaves as in the code.
MCRoundModulus == 2^30

AllOpsMC == AllOps
TouchOnly == {"Touch"}
ExistsOnly == {"Exists"}
TouchAndExists == {"Touch", "Exists"}
NoPurge == AllOps \ {"Purge"}

OneThread == {t1}
TwoThreads == {t1, t2}

=============================================================================
