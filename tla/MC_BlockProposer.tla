--------------------------- MODULE MC_BlockProposer ---------------------------
(* The block proposer with two node callers, two Starts, a chain of height *)
(* up to 2 synced one block per batch, and one forced synchronise.         *)
EXTENDS BlockProposer

CONSTANTS n1, n2

MCCallers == {n1, n2}

====
