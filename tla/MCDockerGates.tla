---------------------------- MODULE MCDockerGates ----------------------------
(***************************************************************************)
(* DockerGates for TLC.  Requests are alike, so that of the operations of  *)
(* three of them it matters only which meet.                               *)
(***************************************************************************)
EXTENDS DockerGates, TLC

CONSTANTS r1, r2, r3

Meetings ==
    r1 :> {"exec", "checkpoint", "gc"}
        @@ r2 :> {"exec", "checkpoint", "destroy", "fault"}
        @@ r3 :> AllOps
=============================================================================
