------------------------------ MODULE MC_Dexcon ------------------------------
(* Two nodes, rounds 0..3 of two blocks each (plus extended blocks), up to  *)
(* seven blocks, DKGDelayRound 1; node b is not in round 2's DKG set.       *)
EXTENDS Dexcon

CONSTANTS a, b, e

MCNodes == {a, b}
\* config.MiningVelocity 0.1875, as in TestBlockRewardCalculation.
MCMiningVelocity == <<3, 16>>
MCDKGSet == [r \in 0..3 |-> IF r = 2 THEN {a} ELSE {a, b}]
\* Halving checkpoints every 400 units of supply.
MCHalvingSupply == [n \in 0..7 |-> 400 * (n + 1)]

====
