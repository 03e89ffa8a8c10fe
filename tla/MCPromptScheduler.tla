-------------------------- MODULE MCPromptScheduler --------------------------
(***************************************************************************)
(* Demands, budgets and histories for PromptScheduler.                     *)
(***************************************************************************)
EXTENDS PromptScheduler

CONSTANTS a, b, c, memory, cpu

TwoResources(m, n) == [r \in {memory, cpu} |-> IF r = memory THEN m ELSE n]

\* c exceeds every budget, a and b do not fit together in the smaller one
ThreeDemands ==
    [p \in {a, b, c} |->
        CASE p = a -> TwoResources(4, 2) [] p = b -> TwoResources(2, 3)
          [] p = c -> TwoResources(9, 1)]
TwoBudgets == {TwoResources(8, 6), TwoResources(5, 4)}
LargestKnown == [p \in {a, b, c} |-> p = c]

Packing == [preserve |-> FALSE, threshold |-> 0]
InOrder == [preserve |-> TRUE, threshold |-> 0]
Requeueing == [preserve |-> TRUE, threshold |-> 2]
AnyOrder == {Packing, InOrder, Requeueing}
=============================================================================
