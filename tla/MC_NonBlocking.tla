--------------------------- MODULE MC_NonBlocking ---------------------------
EXTENDS NonBlocking

CONSTANTS s1, s2

MCSubmitters == {s1, s2}

=============================================================================
