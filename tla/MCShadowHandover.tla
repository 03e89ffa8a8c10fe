--------------------------- MODULE MCShadowHandover ---------------------------
(***************************************************************************)
(* ShadowHandover for TLC.                                                 *)
(***************************************************************************)
EXTENDS ShadowHandover

Job(fast, offload, eval, bound) ==
    [fast |-> fast, offload |-> offload, eval |-> eval, faults |-> bound]

\* the monitor pauses outside rollouts, or goes on during training and update
SomeJobs ==
    {Job(TRUE, TRUE, TRUE, 2), Job(FALSE, TRUE, TRUE, 2),
     Job(TRUE, FALSE, FALSE, 1), Job(FALSE, FALSE, FALSE, 2)}
=============================================================================
