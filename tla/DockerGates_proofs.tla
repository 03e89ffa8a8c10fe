-------------------------- MODULE DockerGates_proofs --------------------------
(***************************************************************************)
(* Proofs about DockerGates for every set of requests, containers, gates   *)
(* and every commit limit.                                                 *)
(***************************************************************************)
EXTENDS DockerGates, FiniteSetTheorems, TLAPS

(***************************************************************************)
(* The inductive invariant, in parts.                                      *)
(***************************************************************************)
Waiters(g) == {r \in Requests : pc[r] = "exec_wait" /\ gate[r] = g}
Sharers(g) == {r \in Requests : pc[r] \in SharedStages /\ gate[r] = g}
InForeground == {r \in Requests : pc[r] \in ForegroundStages}
Committers == {r \in Requests : pc[r] = "commit"}

\* the counts of the gates and of the node are the requests in the sections
GatesCounted ==
    \A g \in Gates : /\ waiting_execs[g] = Cardinality(Waiters(g))
                     /\ active_execs[g] = Cardinality(Sharers(g))
NodeCounted ==
    /\ foreground_ops = Cardinality(InForeground)
    /\ commit_ops = Cardinality(Committers)

\* a request that arrived has a target, a rerun that goes on to remove the old
\* container has a new one
Targeted ==
    \A r \in Requests :
        /\ pc[r] # "new" => target[r] \in Containers
        /\ pc[r] # "new" => container[target[r]] # "absent"
        /\ op[r] = "rerun" /\ pc[r] \notin {"new", "restore_wait", "restore", "done"}
              => spare[r] \in Containers /\ container[spare[r]] # "absent"
        /\ pc[r] = "swap" => op[r] = "rerun"

GateStages == {"enter", "exec_wait"} \cup SharedStages \cup ExclusiveStages

GateHeld ==
    \A r \in Requests : /\ pc[r] \in GateStages => gate[r] \in Gates
                        /\ pc[r] \notin GateStages => gate[r] = NoGate

TypeInv == TypeOK /\ Targeted /\ GateHeld /\ GatesCounted /\ NodeCounted

-----------------------------------------------------------------------------
(***************************************************************************)
(* A step of request r counts rightly if its set stays, is joined or left  *)
(* by r, or is emptied, and the count goes along.                          *)
(***************************************************************************)
Moves(r, S, T, n, m) ==
    \/ T = S /\ m = n
    \/ r \notin S /\ T = S \cup {r} /\ m = n + 1
    \/ r \in S /\ T = S \ {r} /\ m \in {n - 1, Decremented(n)}
    \/ T = {} /\ m = 0

LEMMA MovesCounted ==
    ASSUME NEW r, NEW S, NEW T, NEW m, IsFiniteSet(S), Moves(r, S, T, Cardinality(S), m)
    PROVE  m = Cardinality(T)
  <1>0. Cardinality(S) \in Nat
    BY FS_CardinalityType
  <1>1. CASE T = S /\ m = Cardinality(S)
    BY <1>1
  <1>2. CASE r \notin S /\ T = S \cup {r} /\ m = Cardinality(S) + 1
    BY <1>2, FS_AddElement
  <1>3. CASE r \in S /\ T = S \ {r} /\ m \in {Cardinality(S) - 1, Decremented(Cardinality(S))}
    <2>1. Cardinality(T) = Cardinality(S) - 1 /\ Cardinality(T) \in Nat
      BY <1>3, FS_RemoveElement, FS_CardinalityType
    <2>. QED  BY <1>0, <1>3, <2>1 DEF Decremented
  <1>4. CASE T = {} /\ m = 0
    BY <1>4, FS_EmptySet
  <1>. QED  BY <1>1, <1>2, <1>3, <1>4 DEF Moves

LEMMA SetsFinite ==
    /\ \A g : IsFiniteSet(Waiters(g)) /\ IsFiniteSet(Sharers(g))
    /\ IsFiniteSet(InForeground) /\ IsFiniteSet(Committers)
  BY RequestsAssumption, FS_Subset DEF Waiters, Sharers, InForeground, Committers

LEMMA InitTypeInv == Init => TypeInv
  <1>. SUFFICES ASSUME Init PROVE TypeInv
    OBVIOUS
  <1>1. TypeOK
    BY ContainersAssumption DEF Init, TypeOK, Stages, ContainerStates
  <1>2. Targeted /\ GateHeld
    BY DEF Init, Targeted, GateHeld, GateStages, SharedStages, ExclusiveStages
  <1>3. /\ \A g \in Gates : Waiters(g) = {} /\ Sharers(g) = {}
        /\ InForeground = {} /\ Committers = {}
    BY DEF Init, Waiters, Sharers, InForeground, Committers, SharedStages, ForegroundStages
  <1>4. GatesCounted /\ NodeCounted
    BY <1>3, FS_EmptySet DEF Init, GatesCounted, NodeCounted
  <1>. QED  BY <1>1, <1>2, <1>4 DEF TypeInv

-----------------------------------------------------------------------------
(***************************************************************************)
(* One step of one request.                                                *)
(***************************************************************************)
LEMMA NewGateUnreferenced ==
    ASSUME \E g \in Gates : Unreferenced(g)
    PROVE  NewGate \in Gates /\ Unreferenced(NewGate)
  BY DEF NewGate

GateMoves(r, g) ==
    /\ Moves(r, Waiters(g), Waiters(g)', waiting_execs[g], waiting_execs'[g])
    /\ Moves(r, Sharers(g), Sharers(g)', active_execs[g], active_execs'[g])

NodeMoves(r) ==
    /\ Moves(r, InForeground, InForeground', foreground_ops, foreground_ops')
    /\ Moves(r, Committers, Committers', commit_ops, commit_ops')

LEMMA CountsKept ==
    ASSUME GatesCounted, NodeCounted, NEW r, \A g \in Gates : GateMoves(r, g), NodeMoves(r)
    PROVE  GatesCounted' /\ NodeCounted'
  <1>1. ASSUME NEW g \in Gates
        PROVE  /\ waiting_execs'[g] = Cardinality(Waiters(g)')
               /\ active_execs'[g] = Cardinality(Sharers(g)')
    BY MovesCounted, SetsFinite DEF GatesCounted, GateMoves
  <1>2. NodeCounted'
    BY MovesCounted, SetsFinite DEF NodeCounted, NodeMoves
  <1>. QED  BY <1>1, <1>2 DEF GatesCounted

\* a waiting exec and a running one are counted at their gate
LEMMA Counted ==
    ASSUME TypeInv, NEW r \in Requests, gate[r] \in Gates
    PROVE  /\ pc[r] = "exec_wait" => waiting_execs[gate[r]] # 0
           /\ pc[r] \in SharedStages => active_execs[gate[r]] # 0
  <1>1. Waiters(gate[r]) # {} => Cardinality(Waiters(gate[r])) # 0
    BY SetsFinite, FS_EmptySet
  <1>2. Sharers(gate[r]) # {} => Cardinality(Sharers(gate[r])) # 0
    BY SetsFinite, FS_EmptySet
  <1>. QED  BY <1>1, <1>2 DEF TypeInv, GatesCounted, Waiters, Sharers

LEMMA TypeInvStep ==
    ASSUME TypeInv, NEW r \in Requests, Arrive(r) \/ Serve(r)
    PROVE  TypeInv'
  <1>. USE ContainersAssumption, GatesAssumption, OpsAssumption
       DEF TypeInv, TypeOK, Targeted, GateHeld, GateStages, SharedStages, ExclusiveStages,
           ForegroundStages, Stages, AllOps, ContainerStates, Goto,
           reqVars, countVars, gateVars, nodeVars, ctrVars
  <1>1. CASE Arrive(r)
    <2>1. TypeOK' /\ Targeted' /\ GateHeld'
      BY <1>1 DEF Arrive, FirstStage
    <2>2. \A g \in Gates : GateMoves(r, g)
      BY <1>1 DEF Arrive, FirstStage, GateMoves, Moves, Waiters, Sharers
    <2>3. NodeMoves(r)
      BY <1>1 DEF Arrive, FirstStage, NodeMoves, Moves, InForeground, Committers
    <2>. QED  BY <2>1, <2>2, <2>3, CountsKept
  <1>2. CASE LookupGate(r)
    <2>0. gate'[r] \in Gates
      BY <1>2, NewGateUnreferenced DEF LookupGate
    <2>1. TypeOK' /\ Targeted' /\ GateHeld'
      <3>1. CASE gates[target[r]] # NoGate
        BY <1>2, <3>1 DEF LookupGate
      <3>2. CASE gates[target[r]] = NoGate
        <4>1. PICK g \in Gates : g = NewGate
          BY <1>2, <3>2, NewGateUnreferenced DEF LookupGate
        <4>4. /\ gate' \in [Requests -> Gates \cup {NoGate}]
              /\ gates' \in [Containers -> Gates \cup {NoGate}]
          BY <1>2, <3>2, <4>1 DEF LookupGate
        <4>5. /\ active_execs' \in [Gates -> Nat]
              /\ waiting_execs' \in [Gates -> Nat]
              /\ exclusive_active' \in [Gates -> BOOLEAN]
          <5>1. /\ active_execs' = [active_execs EXCEPT ![NewGate] = 0]
                /\ waiting_execs' = [waiting_execs EXCEPT ![NewGate] = 0]
                /\ exclusive_active' = [exclusive_active EXCEPT ![NewGate] = FALSE]
            BY <1>2, <3>2 DEF LookupGate
          <5>2. active_execs' \in [Gates -> Nat]
            BY <5>1
          <5>3. waiting_execs' \in [Gates -> Nat]
            BY <5>1
          <5>4. exclusive_active' \in [Gates -> BOOLEAN]
            BY <5>1
          <5>. QED  BY <5>2, <5>3, <5>4
        <4>2. TypeOK'
          BY <1>2, <4>4, <4>5 DEF LookupGate
        <4>3. Targeted' /\ GateHeld'
          BY <1>2, <3>2, <4>1 DEF LookupGate
        <4>. QED  BY <4>2, <4>3
      <3>. QED  BY <3>1, <3>2
    <2>2. \A g \in Gates : GateMoves(r, g)
      BY <1>2, NewGateUnreferenced DEF LookupGate, Unreferenced, GateMoves, Moves, Waiters, Sharers
    <2>3. NodeMoves(r)
      BY <1>2 DEF LookupGate, Unreferenced, NodeMoves, Moves, InForeground, Committers
    <2>. QED  BY <2>1, <2>2, <2>3, CountsKept
  <1>3. CASE ExecEnter(r)
    <2>1. TypeOK' /\ Targeted' /\ GateHeld'
      BY <1>3 DEF ExecEnter
    <2>2. \A g \in Gates : GateMoves(r, g)
      BY <1>3 DEF ExecEnter, GateMoves, Moves, Waiters, Sharers
    <2>3. NodeMoves(r)
      BY <1>3 DEF ExecEnter, NodeMoves, Moves, InForeground, Committers
    <2>. QED  BY <2>1, <2>2, <2>3, CountsKept
  <1>4. CASE ExecWake(r)
    <2>0. gate[r] \in Gates /\ waiting_execs[gate[r]] \in Nat \ {0}
      BY <1>4, Counted DEF ExecWake
    <2>1. TypeOK' /\ Targeted' /\ GateHeld'
      BY <1>4, <2>0, SMTT(30) DEF ExecWake
    <2>2. \A g \in Gates : GateMoves(r, g)
      BY <1>4, Counted DEF ExecWake, GateMoves, Moves, Waiters, Sharers
    <2>3. NodeMoves(r)
      BY <1>4 DEF ExecWake, NodeMoves, Moves, InForeground, Committers
    <2>. QED  BY <2>1, <2>2, <2>3, CountsKept
  <1>5. CASE ExecRelease(r)
    <2>1. TypeOK' /\ Targeted' /\ GateHeld'
      BY <1>5 DEF ExecRelease, Decremented
    <2>2. \A g \in Gates : GateMoves(r, g)
      BY <1>5 DEF ExecRelease, Decremented, GateMoves, Moves, Waiters, Sharers
    <2>3. NodeMoves(r)
      BY <1>5 DEF ExecRelease, Decremented, NodeMoves, Moves, InForeground, Committers
    <2>. QED  BY <2>1, <2>2, <2>3, CountsKept
  <1>6. CASE ExclusiveEnter(r)
    <2>1. TypeOK' /\ Targeted' /\ GateHeld'
      BY <1>6 DEF ExclusiveEnter
    <2>2. \A g \in Gates : GateMoves(r, g)
      BY <1>6 DEF ExclusiveEnter, GateMoves, Moves, Waiters, Sharers
    <2>3. NodeMoves(r)
      BY <1>6 DEF ExclusiveEnter, NodeMoves, Moves, InForeground, Committers
    <2>. QED  BY <2>1, <2>2, <2>3, CountsKept
  <1>7. CASE ExclusiveRelease(r)
    <2>1. TypeOK' /\ Targeted' /\ GateHeld'
      BY <1>7 DEF ExclusiveRelease, AfterExclusive
    <2>2. \A g \in Gates : GateMoves(r, g)
      BY <1>7 DEF ExclusiveRelease, AfterExclusive, GateMoves, Moves, Waiters, Sharers
    <2>3. NodeMoves(r)
      BY <1>7 DEF ExclusiveRelease, AfterExclusive, NodeMoves, Moves, InForeground, Committers
    <2>. QED  BY <2>1, <2>2, <2>3, CountsKept
  <1>8. CASE ForegroundEnter(r)
    <2>1. TypeOK' /\ Targeted' /\ GateHeld'
      BY <1>8 DEF ForegroundEnter, ForegroundStage
    <2>2. \A g \in Gates : GateMoves(r, g)
      BY <1>8 DEF ForegroundEnter, ForegroundStage, GateMoves, Moves, Waiters, Sharers
    <2>3. NodeMoves(r)
      BY <1>8 DEF ForegroundEnter, ForegroundStage, NodeMoves, Moves, InForeground, Committers
    <2>. QED  BY <2>1, <2>2, <2>3, CountsKept
  <1>9. CASE ExecFinish(r)
    <2>1. TypeOK' /\ Targeted' /\ GateHeld'
      BY <1>9 DEF ExecFinish, ForegroundLeave, Decremented
    <2>2. \A g \in Gates : GateMoves(r, g)
      BY <1>9 DEF ExecFinish, ForegroundLeave, Decremented, GateMoves, Moves, Waiters, Sharers
    <2>3. NodeMoves(r)
      BY <1>9 DEF ExecFinish, ForegroundLeave, Decremented, NodeMoves, Moves, InForeground, Committers
    <2>. QED  BY <2>1, <2>2, <2>3, CountsKept
  <1>10. CASE CheckpointRecheck(r)
    <2>1. TypeOK' /\ Targeted' /\ GateHeld'
      BY <1>10 DEF CheckpointRecheck
    <2>2. \A g \in Gates : GateMoves(r, g)
      BY <1>10 DEF CheckpointRecheck, GateMoves, Moves, Waiters, Sharers
    <2>3. NodeMoves(r)
      BY <1>10 DEF CheckpointRecheck, NodeMoves, Moves, InForeground, Committers
    <2>. QED  BY <2>1, <2>2, <2>3, CountsKept
  <1>11. CASE CommitSlotEnter(r)
    <2>1. TypeOK' /\ Targeted' /\ GateHeld'
      BY <1>11 DEF CommitSlotEnter
    <2>2. \A g \in Gates : GateMoves(r, g)
      BY <1>11 DEF CommitSlotEnter, GateMoves, Moves, Waiters, Sharers
    <2>3. NodeMoves(r)
      BY <1>11 DEF CommitSlotEnter, NodeMoves, Moves, InForeground, Committers
    <2>. QED  BY <2>1, <2>2, <2>3, CountsKept
  <1>12. CASE FullCheckpointStopsSource(r)
    <2>1. TypeOK' /\ Targeted' /\ GateHeld'
      BY <1>12 DEF FullCheckpointStopsSource
    <2>2. \A g \in Gates : GateMoves(r, g)
      BY <1>12 DEF FullCheckpointStopsSource, GateMoves, Moves, Waiters, Sharers
    <2>3. NodeMoves(r)
      BY <1>12 DEF FullCheckpointStopsSource, NodeMoves, Moves, InForeground, Committers
    <2>. QED  BY <2>1, <2>2, <2>3, CountsKept
  <1>13. CASE CommitSucceeds(r)
    <2>1. TypeOK' /\ Targeted' /\ GateHeld'
      BY <1>13 DEF CommitSucceeds, CommitSlotLeave, ForegroundLeave, Decremented
    <2>2. \A g \in Gates : GateMoves(r, g)
      BY <1>13 DEF CommitSucceeds, CommitSlotLeave, ForegroundLeave, Decremented, GateMoves, Moves, Waiters, Sharers
    <2>3. NodeMoves(r)
      BY <1>13 DEF CommitSucceeds, CommitSlotLeave, ForegroundLeave, Decremented, NodeMoves, Moves, InForeground, Committers
    <2>. QED  BY <2>1, <2>2, <2>3, CountsKept
  <1>14. CASE CommitFails(r)
    <2>1. TypeOK' /\ Targeted' /\ GateHeld'
      BY <1>14 DEF CommitFails, CommitSlotLeave, ForegroundLeave, Decremented
    <2>2. \A g \in Gates : GateMoves(r, g)
      BY <1>14 DEF CommitFails, CommitSlotLeave, ForegroundLeave, Decremented, GateMoves, Moves, Waiters, Sharers
    <2>3. NodeMoves(r)
      BY <1>14 DEF CommitFails, CommitSlotLeave, ForegroundLeave, Decremented, NodeMoves, Moves, InForeground, Committers
    <2>. QED  BY <2>1, <2>2, <2>3, CountsKept
  <1>15. CASE RecoverSource(r)
    <2>1. TypeOK' /\ Targeted' /\ GateHeld'
      BY <1>15 DEF RecoverSource
    <2>2. \A g \in Gates : GateMoves(r, g)
      BY <1>15 DEF RecoverSource, GateMoves, Moves, Waiters, Sharers
    <2>3. NodeMoves(r)
      BY <1>15 DEF RecoverSource, NodeMoves, Moves, InForeground, Committers
    <2>. QED  BY <2>1, <2>2, <2>3, CountsKept
  <1>16. CASE RemoveFinish(r)
    <2>1. TypeOK' /\ Targeted' /\ GateHeld'
      BY <1>16 DEF RemoveFinish, Removed, ForegroundLeave, Decremented
    <2>2. \A g \in Gates : GateMoves(r, g)
      BY <1>16 DEF RemoveFinish, Removed, ForegroundLeave, Decremented, GateMoves, Moves, Waiters, Sharers
    <2>3. NodeMoves(r)
      BY <1>16 DEF RemoveFinish, Removed, ForegroundLeave, Decremented, NodeMoves, Moves, InForeground, Committers
    <2>. QED  BY <2>1, <2>2, <2>3, CountsKept
  <1>17. CASE FaultKill(r)
    <2>1. TypeOK' /\ Targeted' /\ GateHeld'
      BY <1>17 DEF FaultKill, Removed
    <2>2. \A g \in Gates : GateMoves(r, g)
      BY <1>17 DEF FaultKill, Removed, GateMoves, Moves, Waiters, Sharers
    <2>3. NodeMoves(r)
      BY <1>17 DEF FaultKill, Removed, NodeMoves, Moves, InForeground, Committers
    <2>. QED  BY <2>1, <2>2, <2>3, CountsKept
  <1>18. CASE Untrack(r)
    <2>1. TypeOK' /\ Targeted' /\ GateHeld'
      BY <1>18 DEF Untrack
    <2>2. \A g \in Gates : GateMoves(r, g)
      BY <1>18 DEF Untrack, GateMoves, Moves, Waiters, Sharers
    <2>3. NodeMoves(r)
      BY <1>18 DEF Untrack, NodeMoves, Moves, InForeground, Committers
    <2>. QED  BY <2>1, <2>2, <2>3, CountsKept
  <1>19. CASE DropGate(r)
    <2>1. TypeOK' /\ Targeted' /\ GateHeld'
      BY <1>19 DEF DropGate
    <2>2. \A g \in Gates : GateMoves(r, g)
      BY <1>19 DEF DropGate, GateMoves, Moves, Waiters, Sharers
    <2>3. NodeMoves(r)
      BY <1>19 DEF DropGate, NodeMoves, Moves, InForeground, Committers
    <2>. QED  BY <2>1, <2>2, <2>3, CountsKept
  <1>20. CASE RestoreFinish(r)
    <2>1. TypeOK' /\ Targeted' /\ GateHeld'
      BY <1>20 DEF RestoreFinish, ForegroundLeave, Decremented
    <2>2. \A g \in Gates : GateMoves(r, g)
      BY <1>20 DEF RestoreFinish, ForegroundLeave, Decremented, GateMoves, Moves, Waiters, Sharers
    <2>3. NodeMoves(r)
      BY <1>20 DEF RestoreFinish, ForegroundLeave, Decremented, NodeMoves, Moves, InForeground, Committers
    <2>. QED  BY <2>1, <2>2, <2>3, CountsKept
  <1>21. CASE SwapActive(r)
    <2>1. TypeOK' /\ Targeted' /\ GateHeld'
      BY <1>21 DEF SwapActive
    <2>2. \A g \in Gates : GateMoves(r, g)
      BY <1>21 DEF SwapActive, GateMoves, Moves, Waiters, Sharers
    <2>3. NodeMoves(r)
      BY <1>21 DEF SwapActive, NodeMoves, Moves, InForeground, Committers
    <2>. QED  BY <2>1, <2>2, <2>3, CountsKept
  <1>22. CASE MaintenanceEnter(r)
    <2>1. TypeOK' /\ Targeted' /\ GateHeld'
      BY <1>22 DEF MaintenanceEnter
    <2>2. \A g \in Gates : GateMoves(r, g)
      BY <1>22 DEF MaintenanceEnter, GateMoves, Moves, Waiters, Sharers
    <2>3. NodeMoves(r)
      BY <1>22 DEF MaintenanceEnter, NodeMoves, Moves, InForeground, Committers
    <2>. QED  BY <2>1, <2>2, <2>3, CountsKept
  <1>23. CASE MaintenanceRun(r)
    <2>1. TypeOK' /\ Targeted' /\ GateHeld'
      BY <1>23 DEF MaintenanceRun
    <2>2. \A g \in Gates : GateMoves(r, g)
      BY <1>23 DEF MaintenanceRun, GateMoves, Moves, Waiters, Sharers
    <2>3. NodeMoves(r)
      BY <1>23 DEF MaintenanceRun, NodeMoves, Moves, InForeground, Committers
    <2>. QED  BY <2>1, <2>2, <2>3, CountsKept
  <1>24. CASE MaintenanceLeave(r)
    <2>1. TypeOK' /\ Targeted' /\ GateHeld'
      BY <1>24 DEF MaintenanceLeave
    <2>2. \A g \in Gates : GateMoves(r, g)
      BY <1>24 DEF MaintenanceLeave, GateMoves, Moves, Waiters, Sharers
    <2>3. NodeMoves(r)
      BY <1>24 DEF MaintenanceLeave, NodeMoves, Moves, InForeground, Committers
    <2>. QED  BY <2>1, <2>2, <2>3, CountsKept
  <1>25. CASE EvaluateStart(r)
    <2>1. TypeOK' /\ Targeted' /\ GateHeld'
      BY <1>25 DEF EvaluateStart
    <2>2. \A g \in Gates : GateMoves(r, g)
      BY <1>25 DEF EvaluateStart, GateMoves, Moves, Waiters, Sharers
    <2>3. NodeMoves(r)
      BY <1>25 DEF EvaluateStart, NodeMoves, Moves, InForeground, Committers
    <2>. QED  BY <2>1, <2>2, <2>3, CountsKept
  <1>26. CASE EvaluateFinish(r)
    <2>1. TypeOK' /\ Targeted' /\ GateHeld'
      BY <1>26 DEF EvaluateFinish
    <2>2. \A g \in Gates : GateMoves(r, g)
      BY <1>26 DEF EvaluateFinish, GateMoves, Moves, Waiters, Sharers
    <2>3. NodeMoves(r)
      BY <1>26 DEF EvaluateFinish, NodeMoves, Moves, InForeground, Committers
    <2>. QED  BY <2>1, <2>2, <2>3, CountsKept
  <1>. QED
    BY <1>1, <1>2, <1>3, <1>4, <1>5, <1>6, <1>7, <1>8, <1>9, <1>10, <1>11, <1>12, <1>13, <1>14, <1>15, <1>16, <1>17, <1>18, <1>19, <1>20, <1>21, <1>22, <1>23, <1>24, <1>25, <1>26 DEF Serve

LEMMA OrphanStep ==
    ASSUME TypeInv, NEW c \in Containers, OrphanEnds(c)
    PROVE  TypeInv'
  BY DEF TypeInv, TypeOK, Targeted, GateHeld, GatesCounted, NodeCounted, Waiters, Sharers,
         InForeground, Committers, OrphanEnds, reqVars, countVars, gateVars, nodeVars

LEMMA StutterTypeInv ==
    ASSUME TypeInv, UNCHANGED vars
    PROVE  TypeInv'
  BY Z3 DEF TypeInv, TypeOK, Targeted, GateHeld, GatesCounted, NodeCounted, Waiters, Sharers,
         InForeground, Committers, vars, reqVars, countVars, gateVars, nodeVars, ctrVars

\* The variables keep their types and the sections' counts are the requests in
\* them, whatever the numbers of requests, containers and gates.
THEOREM TypeInvAlways == Spec => []TypeInv
  <1>1. Init => TypeInv
    BY InitTypeInv
  <1>2. TypeInv /\ [Next]_vars => TypeInv'
    BY TypeInvStep, OrphanStep, StutterTypeInv DEF Next
  <1>. QED  BY <1>1, <1>2, PTL DEF Spec

\* TypeOK, which a waiting count below zero would break (ExecWake).
THEOREM TypeCorrect == Spec => []TypeOK
  <1>1. TypeInv => TypeOK
    BY DEF TypeInv
  <1>. QED  BY <1>1, TypeInvAlways, PTL

-----------------------------------------------------------------------------
(***************************************************************************)
(* Exclusion: what the gates, the maintenance section and the commit slots *)
(* guarantee, whether or not docker rm fails.                              *)
(***************************************************************************)
GateExclusive ==
    \A r, e \in Requests :
        pc[r] \in ExclusiveStages =>
            /\ exclusive_active[gate[r]]
            /\ gate[e] = gate[r] =>
                   /\ pc[e] \notin SharedStages
                   /\ pc[e] \in ExclusiveStages => e = r

MaintenanceExclusive ==
    \A m, n \in Requests :
        pc[m] \in {"gc_wait", "gc_run"} =>
            /\ maintenance_active
            /\ pc[n] \in {"gc_wait", "gc_run"} => n = m
            /\ pc[m] = "gc_run" => pc[n] \notin ForegroundStages

CommitsWithinLimit == commit_ops <= CommitLimit

Exclusion == TypeInv /\ GateExclusive /\ MaintenanceExclusive /\ CommitsWithinLimit

LEMMA NoForeground ==
    ASSUME TypeInv, foreground_ops = 0
    PROVE  \A r \in Requests : pc[r] \notin ForegroundStages
  <1>1. InForeground = {}
    BY SetsFinite, FS_EmptySet DEF TypeInv, NodeCounted
  <1>. QED  BY <1>1 DEF InForeground

LEMMA ExclusionStep ==
    ASSUME Exclusion, NEW r \in Requests, Arrive(r) \/ Serve(r)
    PROVE  GateExclusive' /\ MaintenanceExclusive' /\ CommitsWithinLimit'
  <1>. USE CommitLimitAssumption
       DEF Exclusion, TypeInv, TypeOK, GateHeld, GateStages, SharedStages, ExclusiveStages,
           ForegroundStages, GateExclusive, MaintenanceExclusive, CommitsWithinLimit,
           Goto, reqVars, countVars, gateVars, nodeVars, ctrVars
  <1>1. CASE Arrive(r)
    <2>1. PICK o \in AllOps : pc' = [pc EXCEPT ![r] = FirstStage[o]]
      BY <1>1, OpsAssumption DEF Arrive
    <2>2. FirstStage[o] \in {"lookup", "kill", "restore_wait", "gc_enter", "eval"}
      BY DEF FirstStage, AllOps
    <2>. QED  BY <1>1, <2>1, <2>2 DEF Arrive
  <1>2. CASE LookupGate(r)
    BY <1>2, NewGateUnreferenced DEF LookupGate, Unreferenced
  <1>3. CASE ExecEnter(r)
    BY <1>3 DEF ExecEnter
  <1>4. CASE ExecWake(r)
    BY <1>4 DEF ExecWake
  <1>5. CASE ExecRelease(r)
    BY <1>5 DEF ExecRelease, Decremented
  <1>6. CASE ExclusiveEnter(r)
    BY <1>6, Counted DEF ExclusiveEnter
  <1>7. CASE ExclusiveRelease(r)
    BY <1>7 DEF ExclusiveRelease, AfterExclusive
  <1>8. CASE ForegroundEnter(r)
    BY <1>8 DEF ForegroundEnter, ForegroundStage
  <1>9. CASE ExecFinish(r)
    BY <1>9 DEF ExecFinish, ForegroundLeave, Decremented
  <1>10. CASE CheckpointRecheck(r)
    BY <1>10 DEF CheckpointRecheck
  <1>11. CASE CommitSlotEnter(r)
    BY <1>11 DEF CommitSlotEnter
  <1>12. CASE FullCheckpointStopsSource(r)
    BY <1>12 DEF FullCheckpointStopsSource
  <1>13. CASE CommitSucceeds(r)
    BY <1>13 DEF CommitSucceeds, CommitSlotLeave, ForegroundLeave, Decremented
  <1>14. CASE CommitFails(r)
    BY <1>14 DEF CommitFails, CommitSlotLeave, ForegroundLeave, Decremented
  <1>15. CASE RecoverSource(r)
    BY <1>15 DEF RecoverSource
  <1>16. CASE RemoveFinish(r)
    BY <1>16 DEF RemoveFinish, Removed, ForegroundLeave, Decremented
  <1>17. CASE FaultKill(r)
    BY <1>17 DEF FaultKill, Removed
  <1>18. CASE Untrack(r)
    BY <1>18 DEF Untrack
  <1>19. CASE DropGate(r)
    BY <1>19 DEF DropGate
  <1>20. CASE RestoreFinish(r)
    BY <1>20 DEF RestoreFinish, ForegroundLeave, Decremented
  <1>21. CASE SwapActive(r)
    BY <1>21 DEF SwapActive
  <1>22. CASE MaintenanceEnter(r)
    BY <1>22 DEF MaintenanceEnter
  <1>23. CASE MaintenanceRun(r)
    BY <1>23, NoForeground DEF MaintenanceRun
  <1>24. CASE MaintenanceLeave(r)
    BY <1>24 DEF MaintenanceLeave
  <1>25. CASE EvaluateStart(r)
    BY <1>25 DEF EvaluateStart
  <1>26. CASE EvaluateFinish(r)
    BY <1>26 DEF EvaluateFinish
  <1>. QED
    BY <1>1, <1>2, <1>3, <1>4, <1>5, <1>6, <1>7, <1>8, <1>9, <1>10, <1>11, <1>12, <1>13, <1>14, <1>15, <1>16, <1>17, <1>18, <1>19, <1>20, <1>21, <1>22, <1>23, <1>24, <1>25, <1>26 DEF Serve

THEOREM ExclusionAlways == Spec => []Exclusion
  <1>1. Init => Exclusion
    BY InitTypeInv, CommitLimitAssumption
       DEF Init, Exclusion, GateExclusive, MaintenanceExclusive, CommitsWithinLimit, ExclusiveStages
  <1>2. Exclusion /\ [Next]_vars => Exclusion'
    <2>. SUFFICES ASSUME Exclusion, [Next]_vars PROVE Exclusion'
      OBVIOUS
    <2>1. ASSUME NEW r \in Requests, Arrive(r) \/ Serve(r) PROVE Exclusion'
      BY <2>1, TypeInvStep, ExclusionStep DEF Exclusion
    <2>2. ASSUME NEW c \in Containers, OrphanEnds(c) PROVE Exclusion'
      BY <2>2, OrphanStep DEF Exclusion, GateExclusive, MaintenanceExclusive, CommitsWithinLimit,
             OrphanEnds, reqVars, countVars, gateVars, nodeVars
    <2>3. CASE UNCHANGED vars
      BY <2>3, StutterTypeInv DEF Exclusion, GateExclusive, MaintenanceExclusive, CommitsWithinLimit,
             vars, reqVars, countVars, gateVars, nodeVars
    <2>. QED  BY <2>1, <2>2, <2>3 DEF Next
  <1>. QED  BY <1>1, <1>2, PTL DEF Spec

\* The maintenance section of checkpoint GC excludes every foreground section
\* (lines 484-530).
THEOREM MaintenanceIsAlone == Spec => []MaintenanceAlone
  <1>1. Exclusion => MaintenanceAlone
    BY DEF Exclusion, MaintenanceExclusive, MaintenanceAlone
  <1>. QED  BY <1>1, ExclusionAlways, PTL

\* At most checkpoint_max_inflight commits at a time (lines 500-513).
THEOREM CommitsAreBounded == Spec => []CommitsBounded
  <1>1. Exclusion => CommitsBounded
    BY DEF Exclusion, TypeInv, NodeCounted, CommitsWithinLimit, CommitsBounded, Committers
  <1>. QED  BY <1>1, ExclusionAlways, PTL

\* Execs that wait at a gate are not overtaken by an exclusive section
\* (line 556).
THEOREM ExecIsNotOvertaken == Spec => ExecNotOvertaken
  <1>1. ASSUME Exclusion, Next,
               NEW e \in Requests, NEW r \in Requests,
               pc[e] = "exec_wait", gate[r] = gate[e], pc[r] = "enter", pc'[r] = "excl_in"
        PROVE  FALSE
    <2>. USE DEF Exclusion, TypeInv, TypeOK, Goto
    <2>1. gate[e] \in Gates /\ waiting_execs[gate[e]] # 0
      BY <1>1, Counted DEF GateHeld, GateStages
    <2>2. PICK q \in Requests : Arrive(q) \/ Serve(q)
      BY <1>1 DEF Next, OrphanEnds, reqVars
    <2>3. q = r
      BY <1>1, <2>2 DEF Serve, Arrive, LookupGate, ExecEnter, ExecWake, ExecRelease, ExclusiveEnter, ExclusiveRelease, ForegroundEnter, ExecFinish, CheckpointRecheck, CommitSlotEnter, FullCheckpointStopsSource, CommitSucceeds, CommitFails, RecoverSource, RemoveFinish, FaultKill, Untrack, DropGate, RestoreFinish, SwapActive, MaintenanceEnter, MaintenanceRun, MaintenanceLeave, EvaluateStart, EvaluateFinish, AfterExclusive, FirstStage, ForegroundStage, reqVars
    <2>4. ExclusiveEnter(r)
      BY <1>1, <2>2, <2>3 DEF Serve, Arrive, LookupGate, ExecEnter, ExecWake, ExecRelease, ExclusiveEnter, ExclusiveRelease, ForegroundEnter, ExecFinish, CheckpointRecheck, CommitSlotEnter, FullCheckpointStopsSource, CommitSucceeds, CommitFails, RecoverSource, RemoveFinish, FaultKill, Untrack, DropGate, RestoreFinish, SwapActive, MaintenanceEnter, MaintenanceRun, MaintenanceLeave, EvaluateStart, EvaluateFinish, AfterExclusive, FirstStage, ForegroundStage, reqVars
    <2>. QED  BY <1>1, <2>1, <2>4 DEF ExclusiveEnter
  <1>2. Exclusion /\ [Next]_vars =>
           [\A e, r \in Requests :
               pc[e] = "exec_wait" /\ pc'[e] = "exec_wait" /\ gate[r] = gate[e]
                  => ~(pc[r] = "enter" /\ pc'[r] = "excl_in")]_vars
    BY <1>1
  <1>. QED  BY <1>2, ExclusionAlways, PTL DEF Spec, ExecNotOvertaken

-----------------------------------------------------------------------------
(***************************************************************************)
(* Lifetimes: a gate lives as long as its container, provided docker rm    *)
(* does not fail on it.  Only then does the exclusion of a gate exclude    *)
(* for the container: a container that stays gets a second gate.           *)
(***************************************************************************)
GateOfLiveContainer ==
    \A r \in Requests :
        pc[r] \in GateStages /\ Live(target[r]) /\ target[r] \notin Unremovable
            => gates[target[r]] = gate[r]

GoneBeforeDropped ==
    \A r \in Requests : target[r] \notin Unremovable =>
        /\ pc[r] \in {"rm_out", "untrack", "drop"} => container[target[r]] = "removed"
        /\ pc[r] # "rm_failed"

FrozenByCheckpoint ==
    \A c \in Containers : container[c] = "frozen" =>
        \E r \in Requests : pc[r] \in {"commit", "recover"} /\ target[r] = c

Lifetimes == GateOfLiveContainer /\ GoneBeforeDropped /\ FrozenByCheckpoint

LEMMA LifetimesStep ==
    ASSUME Exclusion, Lifetimes, NEW r \in Requests, Arrive(r) \/ Serve(r)
    PROVE  Lifetimes'
  <1>. USE ContainersAssumption, OpsAssumption
       DEF Exclusion, TypeInv, TypeOK, Targeted, GateHeld, GateStages, SharedStages, ExclusiveStages,
           Lifetimes, GateOfLiveContainer, GoneBeforeDropped, FrozenByCheckpoint, Live,
           ContainerStates, Goto, reqVars, countVars, gateVars, nodeVars, ctrVars
  <1>1. CASE Arrive(r)
    BY <1>1 DEF Arrive, FirstStage, AllOps
  <1>2. CASE LookupGate(r)
    BY <1>2, GatesAssumption, NewGateUnreferenced DEF LookupGate, Unreferenced
  <1>3. CASE ExecEnter(r)
    BY <1>3 DEF ExecEnter
  <1>4. CASE ExecWake(r)
    BY <1>4 DEF ExecWake
  <1>5. CASE ExecRelease(r)
    BY <1>5 DEF ExecRelease
  <1>6. CASE ExclusiveEnter(r)
    BY <1>6 DEF ExclusiveEnter
  <1>7. CASE ExclusiveRelease(r)
    BY <1>7 DEF ExclusiveRelease, AfterExclusive
  <1>8. CASE ForegroundEnter(r)
    BY <1>8 DEF ForegroundEnter, ForegroundStage
  <1>9. CASE ExecFinish(r)
    BY <1>9 DEF ExecFinish
  <1>10. CASE CheckpointRecheck(r)
    BY <1>10 DEF CheckpointRecheck
  <1>11. CASE CommitSlotEnter(r)
    BY <1>11 DEF CommitSlotEnter
  <1>12. CASE FullCheckpointStopsSource(r)
    BY <1>12 DEF FullCheckpointStopsSource
  <1>13. CASE CommitSucceeds(r)
    BY <1>13 DEF CommitSucceeds, GateExclusive
  <1>14. CASE CommitFails(r)
    BY <1>14 DEF CommitFails
  <1>15. CASE RecoverSource(r)
    BY <1>15 DEF RecoverSource, GateExclusive
  <1>16. CASE RemoveFinish(r)
    BY <1>16 DEF RemoveFinish, Removed
  <1>17. CASE FaultKill(r)
    BY <1>17 DEF FaultKill, Removed
  <1>18. CASE Untrack(r)
    BY <1>18 DEF Untrack
  <1>19. CASE DropGate(r)
    BY <1>19 DEF DropGate
  <1>20. CASE RestoreFinish(r)
    BY <1>20 DEF RestoreFinish
  <1>21. CASE SwapActive(r)
    BY <1>21 DEF SwapActive
  <1>22. CASE MaintenanceEnter(r)
    BY <1>22 DEF MaintenanceEnter
  <1>23. CASE MaintenanceRun(r)
    BY <1>23 DEF MaintenanceRun
  <1>24. CASE MaintenanceLeave(r)
    BY <1>24 DEF MaintenanceLeave
  <1>25. CASE EvaluateStart(r)
    BY <1>25 DEF EvaluateStart
  <1>26. CASE EvaluateFinish(r)
    BY <1>26 DEF EvaluateFinish
  <1>. QED
    BY <1>1, <1>2, <1>3, <1>4, <1>5, <1>6, <1>7, <1>8, <1>9, <1>10, <1>11, <1>12, <1>13, <1>14, <1>15, <1>16, <1>17, <1>18, <1>19, <1>20, <1>21, <1>22, <1>23, <1>24, <1>25, <1>26 DEF Serve

THEOREM LifetimesAlways == Spec => []Lifetimes
  <1>1. Init => Lifetimes
    BY DEF Init, Lifetimes, GateOfLiveContainer, GoneBeforeDropped, FrozenByCheckpoint,
           GateStages, SharedStages, ExclusiveStages
  <1>2. Exclusion /\ Lifetimes /\ [Next]_vars => Lifetimes'
    <2>. SUFFICES ASSUME Exclusion, Lifetimes, [Next]_vars PROVE Lifetimes'
      OBVIOUS
    <2>1. ASSUME NEW r \in Requests, Arrive(r) \/ Serve(r) PROVE Lifetimes'
      BY <2>1, LifetimesStep
    <2>2. CASE UNCHANGED vars \/ \E c \in Containers : OrphanEnds(c)
      BY <2>2 DEF Lifetimes, GateOfLiveContainer, GoneBeforeDropped, FrozenByCheckpoint, Live,
             OrphanEnds, vars, reqVars, countVars, gateVars, nodeVars, ctrVars
    <2>. QED  BY <2>1, <2>2 DEF Next
  <1>. QED  BY <1>1, <1>2, ExclusionAlways, PTL DEF Spec

\* No commit and no removal of a live container overlaps a docker exec in it
\* (lines 533-565): both hold the container's one gate, which excludes them.
THEOREM ExclusiveIsAlone == Spec => []ExclusiveAlone
  <1>1. Exclusion /\ Lifetimes => ExclusiveAlone
    BY DEF Exclusion, GateExclusive, Lifetimes, GateOfLiveContainer, ExclusiveAlone,
           GateStages, SharedStages, ExclusiveStages
  <1>. QED  BY <1>1, ExclusionAlways, LifetimesAlways, PTL

\* No docker exec meets a source that a full checkpoint has stopped
\* (lines 2974-3021).
THEOREM FrozenSourceIsHidden == Spec => []FrozenSourceHidden
  <1>1. Exclusion /\ Lifetimes => FrozenSourceHidden
    BY DEF Exclusion, TypeInv, Targeted, GateExclusive, Lifetimes, GateOfLiveContainer,
           FrozenByCheckpoint, FrozenSourceHidden, Live, GateStages, SharedStages, ExclusiveStages
  <1>. QED  BY <1>1, ExclusionAlways, LifetimesAlways, PTL
=============================================================================
