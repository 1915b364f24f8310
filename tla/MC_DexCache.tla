------------------------------ MODULE MC_DexCache ------------------------------
EXTENDS DexCache

CONSTANTS p1, p2, p3, k1, k2, a, b, c

\* Two blocks compete for p1, one block is at p2; p3 only receives votes.
MCPosOf == (a :> p1) @@ (b :> p1) @@ (c :> p2)

=============================================================================
