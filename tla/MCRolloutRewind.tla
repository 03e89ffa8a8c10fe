---------------------------- MODULE MCRolloutRewind ----------------------------
(***************************************************************************)
(* RolloutRewind for TLC.                                                  *)
(***************************************************************************)
EXTENDS RolloutRewind

Setting(policy, raises, attempts, bound) ==
    [policy |-> policy, recoveryRaises |-> raises, attempts |-> attempts, faults |-> bound]

\* two faults, or one with a command sent twice, or a recovery that raises
SomeSetups ==
    {Setting("fixed", FALSE, 1, 1), Setting("adaptive", FALSE, 1, 2),
     Setting("fixed", FALSE, 2, 1), Setting("fixed", TRUE, 1, 1)}
=============================================================================
