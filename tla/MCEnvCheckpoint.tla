---------------------------- MODULE MCEnvCheckpoint ----------------------------
(***************************************************************************)
(* EnvCheckpoint for TLC.  Container names are interchangeable.            *)
(***************************************************************************)
EXTENDS EnvCheckpoint, TLC

ContainerSymmetry == Permutations(Containers)

\* three checkpoints in a line, one at a time
FullInLine ==
    [legacy |-> FALSE, keep |-> {1}, delete |-> FALSE,
     inflight |-> 1, checkpoints |-> 3, steps |-> 3]
\* two at a time, a third after a rerun
FullKeepingOne ==
    [legacy |-> FALSE, keep |-> {1}, delete |-> FALSE,
     inflight |-> 2, checkpoints |-> 3, steps |-> 2]
ImagesKeepingOne == [FullKeepingOne EXCEPT !.legacy = TRUE]
ImagesDeleting ==
    [legacy |-> TRUE, keep |-> {1}, delete |-> TRUE,
     inflight |-> 2, checkpoints |-> 2, steps |-> 2]
\* collections that keep none, of the only checkpoint
ImagesKeepingNone ==
    [legacy |-> TRUE, keep |-> {0, 1}, delete |-> TRUE,
     inflight |-> 1, checkpoints |-> 1, steps |-> 1]

BothBackends == {FullInLine, FullKeepingOne, ImagesDeleting, ImagesKeepingNone}
ImagesOnly == {ImagesKeepingOne}
=============================================================================
