------------------------------- MODULE MC_Signer -------------------------------
EXTENDS Signer

CONSTANTS h1, h2, b1, c1, x1, ps1, pl1, pl2, t1, wd1

MCHonest == {h1, h2}
\* h2 has not completed the DKG: it has no BLS signer (SetBLSSigner was
\* never called) and no public key share after round 0.
MCBLSReady == {h1}
MCByzantine == {b1}
MCRounds == {0, 1}
\* The node public keys of each round: those that completed the DKG.
MCNPKs == [r \in MCRounds |-> IF r = 0 THEN {h1, h2, b1} ELSE {h1, b1}]

\* One witness: height 0 and its data.
MCWitnesses == {[height |-> 0, data |-> wd1]}

=============================================================================
