-------------------------- MODULE ProposerLifecycle --------------------------
(***************************************************************************)
(* What the block proposer promises the node, without goroutines, locks or *)
(* channels: it is started only when it is not running; a run is asked to *)
(* stop at most once; a run asked to stop ends (unless the process exits   *)
(* first); it is proposing only while running, and it is marked not        *)
(* proposing only once no run is live.  A run may also end by itself (a    *)
(* failed sync).  BlockProposer implements this specification under the    *)
(* mapping in MC_BlockProposer.                                            *)
(***************************************************************************)

VARIABLES
    on,         \* a run is live
    stopReq,    \* the live run has been asked to stop
    proposing,  \* IsProposing()
    exited      \* the process has exited

lvars == <<on, stopReq, proposing, exited>>

LInit ==
    /\ on = FALSE
    /\ stopReq = FALSE
    /\ proposing = FALSE
    /\ exited = FALSE

LStart ==
    /\ ~on
    /\ on' = TRUE
    /\ stopReq' = FALSE
    /\ UNCHANGED <<proposing, exited>>

LRequestStop ==
    /\ on /\ ~stopReq
    /\ stopReq' = TRUE
    /\ UNCHANGED <<on, proposing, exited>>

LPropose ==
    /\ on
    /\ proposing' = TRUE
    /\ UNCHANGED <<on, stopReq, exited>>

LEnd ==
    /\ on
    /\ on' = FALSE
    /\ UNCHANGED <<stopReq, proposing, exited>>

LQuiesce ==
    /\ ~on
    /\ proposing' = FALSE
    /\ UNCHANGED <<on, stopReq, exited>>

LExit ==
    /\ ~exited
    /\ exited' = TRUE
    /\ UNCHANGED <<on, stopReq, proposing>>

LNext ==
    /\ ~exited
    /\ \/ LStart \/ LRequestStop \/ LPropose \/ LEnd \/ LQuiesce \/ LExit

\* A run asked to stop ends, unless the process exits first.
LSpec == LInit /\ [][LNext]_lvars /\ WF_lvars(~exited /\ stopReq /\ LEnd)

====
