-------------------------- MODULE MCContainerPool --------------------------
(* Values of the constants of ContainerPool for TLC. *)
EXTENDS ContainerPool, TLC

CONSTANTS r1, r2, i1, i2

TwoWants == (r1 :> i1) @@ (r2 :> i1)
Turns == <<i1, i2>>
=============================================================================
