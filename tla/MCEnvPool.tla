----------------------------- MODULE MCEnvPool -----------------------------
(* EnvPool for TLC.  The names of rollouts are interchangeable. *)
EXTENDS EnvPool, TLC

RolloutSymmetry == Permutations(Rollouts)
=============================================================================
