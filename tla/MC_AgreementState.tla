------------------------- MODULE MC_AgreementState -------------------------
(***************************************************************************)
(* Instantiation of AgreementState for TLC: two block hashes, so that a    *)
(* proposal, a leader block and a lock value can agree or differ; two      *)
(* positions, so that a restart flips the leader flag between them; two    *)
(* periods, so that a period jump re-enters PreCommit.                     *)
(***************************************************************************)
EXTENDS AgreementState

CONSTANTS h1, h2

MCHashes == {h1, h2}

OneHash == {h1}

=============================================================================
