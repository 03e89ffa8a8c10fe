----------------------------- MODULE DockerGates -----------------------------
(***************************************************************************)
(* The concurrency control of one exec node (swe_exec_server.py).          *)
(*                                                                         *)
(* Every HTTP request is served by a thread of its own.  A request that    *)
(* runs docker against a container first passes the container's gate (a    *)
(* shared section for docker exec, an exclusive one for checkpoint and     *)
(* destroy), then the foreground section, which excludes the maintenance   *)
(* section of checkpoint GC, and a checkpoint also takes one of the        *)
(* commit slots.  Gates are Python objects found through a dictionary and  *)
(* dropped from it with the container: two requests may hold two different *)
(* gates of one container, so a request remembers the object it looked up. *)
(*                                                                         *)
(* A waiter of a condition variable is a request whose next action is not  *)
(* enabled; notify_all is implicit.  The fault injections inside a handler *)
(* are the "fault" requests: they use no gate, so a separate request takes *)
(* every step the injecting handler could take.                            *)
(***************************************************************************)
EXTENDS Naturals, FiniteSets

CONSTANTS
    Requests,        \* the HTTP requests, each served by one thread
    Containers,      \* docker container ids; an id is never used twice
    Gates,           \* gate objects
    NoGate,          \* "no gate object"
    NoContainer,     \* "no container id"
    CommitLimit,     \* checkpoint_max_inflight, at least 1 by max(1, ...)
    Ops,             \* the operations each request may be
    Initial,         \* containers that already run
    ExecMayTimeOut,  \* whether docker exec may outlive its timeout
    Unremovable      \* containers that docker rm -f may fail to remove

AllOps == {"exec", "checkpoint", "destroy", "fault", "rerun", "gc", "evaluate"}

ASSUME RequestsAssumption == IsFiniteSet(Requests)
ASSUME ContainersAssumption == Initial \subseteq Containers /\ NoContainer \notin Containers
ASSUME GatesAssumption == NoGate \notin Gates
ASSUME CommitLimitAssumption == CommitLimit \in Nat \ {0}
ASSUME OpsAssumption == Ops \in [Requests -> SUBSET AllOps]
ASSUME FlagsAssumption == ExecMayTimeOut \in BOOLEAN

VARIABLES
    pc, op, target, gate, spare,          \* per request
    gates,                                \* _container_op_gates
    active_execs, waiting_execs, exclusive_active,   \* per gate object
    foreground_ops, maintenance_active, commit_ops,  \* node-wide sections
    container,                            \* docker's view of a container
    active,                               \* _active_containers
    orphans                               \* containers running a timed-out command

reqVars == <<pc, op, target, gate, spare>>
countVars == <<active_execs, waiting_execs, exclusive_active>>
gateVars == <<gates, countVars>>
nodeVars == <<foreground_ops, maintenance_active, commit_ops>>
ctrVars == <<container, active, orphans>>
vars == <<reqVars, gateVars, nodeVars, ctrVars>>

Stages == {"new", "lookup", "enter", "exec_wait", "exec_in", "exec_run", "exec_out",
           "excl_in", "ckpt_ready", "slot_wait", "commit", "recover", "excl_out",
           "rm_run", "rm_out", "rm_failed", "kill", "untrack", "drop", "swap",
           "restore_wait", "restore", "gc_enter", "gc_wait", "gc_run",
           "eval", "eval_run", "done"}

ContainerStates == {"absent", "running", "frozen", "stopped", "removed"}

Live(c) == container[c] \in {"running", "frozen", "stopped"}

(***************************************************************************)
(* Stages in which a request is inside the shared, the exclusive or the    *)
(* foreground section.                                                     *)
(***************************************************************************)
SharedStages == {"exec_in", "exec_run", "exec_out"}
ExclusiveStages == {"excl_in", "ckpt_ready", "slot_wait", "commit", "recover", "excl_out",
                    "rm_run", "rm_out", "rm_failed"}
ForegroundStages == {"exec_run", "slot_wait", "commit", "rm_run", "restore"}

TypeOK ==
    /\ pc \in [Requests -> Stages]
    /\ op \in [Requests -> AllOps \cup {"none"}]
    /\ target \in [Requests -> Containers \cup {NoContainer}]
    /\ spare \in [Requests -> Containers \cup {NoContainer}]
    /\ gate \in [Requests -> Gates \cup {NoGate}]
    /\ gates \in [Containers -> Gates \cup {NoGate}]
    /\ active_execs \in [Gates -> Nat]
    /\ waiting_execs \in [Gates -> Nat]
    /\ exclusive_active \in [Gates -> BOOLEAN]
    /\ foreground_ops \in Nat
    /\ maintenance_active \in BOOLEAN
    /\ commit_ops \in Nat
    /\ container \in [Containers -> ContainerStates]
    /\ active \subseteq Containers
    /\ orphans \subseteq Containers

Init ==
    /\ pc = [r \in Requests |-> "new"]
    /\ op = [r \in Requests |-> "none"]
    /\ target = [r \in Requests |-> NoContainer]
    /\ spare = [r \in Requests |-> NoContainer]
    /\ gate = [r \in Requests |-> NoGate]
    /\ gates = [c \in Containers |-> NoGate]
    /\ active_execs = [g \in Gates |-> 0]
    /\ waiting_execs = [g \in Gates |-> 0]
    /\ exclusive_active = [g \in Gates |-> FALSE]
    /\ foreground_ops = 0
    /\ maintenance_active = FALSE
    /\ commit_ops = 0
    /\ container = [c \in Containers |-> IF c \in Initial THEN "running" ELSE "absent"]
    /\ active = Initial
    /\ orphans = {}

Goto(r, stage) == pc' = [pc EXCEPT ![r] = stage]

\* max(0, n - 1), the way the sections give a count back
Decremented(n) == IF n > 0 THEN n - 1 ELSE 0

-----------------------------------------------------------------------------
(***************************************************************************)
(* A request arrives.  Checkpoint answers 404 for a container that is not  *)
(* in _active_containers; no other handler looks.                          *)
(***************************************************************************)
FirstStage ==
    [exec |-> "lookup", checkpoint |-> "lookup", destroy |-> "lookup", fault |-> "kill",
     rerun |-> "restore_wait", gc |-> "gc_enter", evaluate |-> "eval"]

Arrive(r) ==
    /\ pc[r] = "new"
    /\ \E o \in Ops[r], c \in Containers :
          /\ container[c] # "absent"
          /\ o = "checkpoint" => c \in active
          /\ op' = [op EXCEPT ![r] = o]
          /\ target' = [target EXCEPT ![r] = c]
          /\ Goto(r, FirstStage[o])
    /\ UNCHANGED <<gate, spare, gateVars, nodeVars, ctrVars>>

(***************************************************************************)
(* The gate of a container: looked up, or created, under _lock.            *)
(***************************************************************************)
Unreferenced(g) ==
    /\ \A r \in Requests : gate[r] # g
    /\ \A c \in Containers : gates[c] # g

NewGate == CHOOSE g \in Gates : Unreferenced(g)

LookupGate(r) ==
    LET c == target[r] IN
    /\ pc[r] = "lookup"
    /\ \/ /\ gates[c] # NoGate
          /\ gate' = [gate EXCEPT ![r] = gates[c]]
          /\ UNCHANGED gateVars
       \/ /\ gates[c] = NoGate
          /\ \E g \in Gates : Unreferenced(g)
          /\ gate' = [gate EXCEPT ![r] = NewGate]
          /\ gates' = [gates EXCEPT ![c] = NewGate]
          /\ active_execs' = [active_execs EXCEPT ![NewGate] = 0]
          /\ waiting_execs' = [waiting_execs EXCEPT ![NewGate] = 0]
          /\ exclusive_active' = [exclusive_active EXCEPT ![NewGate] = FALSE]
    /\ Goto(r, "enter")
    /\ UNCHANGED <<op, target, spare, nodeVars, ctrVars>>

(***************************************************************************)
(* The shared section of docker exec: it waits only for an exclusive       *)
(* holder, and is counted while it waits.                                  *)
(***************************************************************************)
ExecEnterUncounted(r) ==   \* mutated form: the waiting exec is not counted
    LET g == gate[r] IN
    /\ pc[r] = "enter"
    /\ op[r] = "exec"
    /\ active_execs' = [active_execs EXCEPT ![g] = IF exclusive_active[g] THEN @ ELSE @ + 1]
    /\ Goto(r, IF exclusive_active[g] THEN "exec_wait" ELSE "exec_in")
    /\ UNCHANGED <<op, target, gate, spare, gates, waiting_execs, exclusive_active, nodeVars, ctrVars>>

ExecEnter(r) ==
    LET g == gate[r] IN
    /\ pc[r] = "enter"
    /\ op[r] = "exec"
    /\ \/ /\ exclusive_active[g]
          /\ waiting_execs' = [waiting_execs EXCEPT ![g] = @ + 1]
          /\ Goto(r, "exec_wait")
          /\ UNCHANGED active_execs
       \/ /\ ~exclusive_active[g]
          /\ active_execs' = [active_execs EXCEPT ![g] = @ + 1]
          /\ Goto(r, "exec_in")
          /\ UNCHANGED waiting_execs
    /\ UNCHANGED <<op, target, gate, spare, gates, exclusive_active, nodeVars, ctrVars>>

ExecWake(r) ==
    LET g == gate[r] IN
    /\ pc[r] = "exec_wait"
    /\ ~exclusive_active[g]
    /\ waiting_execs' = [waiting_execs EXCEPT ![g] = @ - 1]
    /\ active_execs' = [active_execs EXCEPT ![g] = @ + 1]
    /\ Goto(r, "exec_in")
    /\ UNCHANGED <<op, target, gate, spare, gates, exclusive_active, nodeVars, ctrVars>>

ExecRelease(r) ==
    /\ pc[r] = "exec_out"
    /\ active_execs' = [active_execs EXCEPT ![gate[r]] = Decremented(@)]
    /\ gate' = [gate EXCEPT ![r] = NoGate]
    /\ Goto(r, "done")
    /\ UNCHANGED <<op, target, spare, gates, waiting_execs, exclusive_active, nodeVars, ctrVars>>

\* mutated forms: an exclusive section that does not wait for running, or for
\* waiting, execs
ExclusiveEnterOverActive(r) ==
    LET g == gate[r] IN
    /\ pc[r] = "enter"
    /\ op[r] # "exec"
    /\ ~exclusive_active[g]
    /\ waiting_execs[g] = 0
    /\ exclusive_active' = [exclusive_active EXCEPT ![g] = TRUE]
    /\ Goto(r, "excl_in")
    /\ UNCHANGED <<op, target, gate, spare, gates, active_execs, waiting_execs, nodeVars, ctrVars>>

ExclusiveEnterOverWaiting(r) ==
    LET g == gate[r] IN
    /\ pc[r] = "enter"
    /\ op[r] # "exec"
    /\ ~exclusive_active[g]
    /\ active_execs[g] = 0
    /\ exclusive_active' = [exclusive_active EXCEPT ![g] = TRUE]
    /\ Goto(r, "excl_in")
    /\ UNCHANGED <<op, target, gate, spare, gates, active_execs, waiting_execs, nodeVars, ctrVars>>

(***************************************************************************)
(* The exclusive section: exec gets priority, running and waiting alike.   *)
(***************************************************************************)
ExclusiveEnter(r) ==
    LET g == gate[r] IN
    /\ pc[r] = "enter"
    /\ op[r] # "exec"
    /\ ~exclusive_active[g]
    /\ active_execs[g] = 0
    /\ waiting_execs[g] = 0
    /\ exclusive_active' = [exclusive_active EXCEPT ![g] = TRUE]
    /\ Goto(r, "excl_in")
    /\ UNCHANGED <<op, target, gate, spare, gates, active_execs, waiting_execs, nodeVars, ctrVars>>

\* afterwards: checkpoint is over, destroy forgets the container, rerun drops
\* the old gate; a rerun whose docker rm failed turns to destroying the
\* container it had restored
AfterExclusive(r) ==
    \/ /\ pc[r] = "excl_out" \/ (pc[r] = "rm_failed" /\ op[r] # "rerun")
       /\ Goto(r, "done")
       /\ UNCHANGED <<op, target>>
    \/ /\ pc[r] = "rm_out"
       /\ Goto(r, IF op[r] = "rerun" THEN "drop" ELSE "untrack")
       /\ UNCHANGED <<op, target>>
    \/ /\ pc[r] = "rm_failed"
       /\ op[r] = "rerun"
       /\ Goto(r, "lookup")
       /\ op' = [op EXCEPT ![r] = "destroy"]
       /\ target' = [target EXCEPT ![r] = spare[r]]

ExclusiveRelease(r) ==
    /\ AfterExclusive(r)
    /\ exclusive_active' = [exclusive_active EXCEPT ![gate[r]] = FALSE]
    /\ gate' = [gate EXCEPT ![r] = NoGate]
    /\ UNCHANGED <<spare, gates, active_execs, waiting_execs, nodeVars, ctrVars>>

-----------------------------------------------------------------------------
(***************************************************************************)
(* The foreground section, entered while no maintenance is active.         *)
(***************************************************************************)
ForegroundStage ==
    [exec_in |-> "exec_run", ckpt_ready |-> "slot_wait", excl_in |-> "rm_run",
     restore_wait |-> "restore"]

ForegroundEnter(r) ==
    /\ pc[r] \in DOMAIN ForegroundStage
    /\ ~(pc[r] = "excl_in" /\ op[r] = "checkpoint")
    /\ ~maintenance_active
    /\ foreground_ops' = foreground_ops + 1
    /\ Goto(r, ForegroundStage[pc[r]])
    /\ UNCHANGED <<op, target, gate, spare, gateVars, maintenance_active, commit_ops, ctrVars>>

ForegroundLeave == foreground_ops' = Decremented(foreground_ops)

\* docker exec ends, or its client is killed by the timeout and the command goes on
ExecFinish(r) ==
    /\ pc[r] = "exec_run"
    /\ ForegroundLeave
    /\ Goto(r, "exec_out")
    /\ \/ UNCHANGED orphans
       \/ /\ ExecMayTimeOut
          /\ container[target[r]] = "running"
          /\ orphans' = orphans \cup {target[r]}
    /\ UNCHANGED <<op, target, gate, spare, gateVars, maintenance_active, commit_ops, container, active>>

OrphanEnds(c) ==
    /\ c \in orphans
    /\ orphans' = orphans \ {c}
    /\ UNCHANGED <<reqVars, gateVars, nodeVars, container, active>>

-----------------------------------------------------------------------------
(***************************************************************************)
(* Checkpoint: the container is checked again under the gate; one of the   *)
(* commit slots is taken inside the foreground section.  The full backend  *)
(* stops the source and must have resumed it before the gate is released.  *)
(***************************************************************************)
CheckpointRecheck(r) ==
    /\ pc[r] = "excl_in"
    /\ op[r] = "checkpoint"
    /\ Goto(r, IF target[r] \in active /\ container[target[r]] = "running"
               THEN "ckpt_ready" ELSE "excl_out")
    /\ UNCHANGED <<op, target, gate, spare, gateVars, nodeVars, ctrVars>>

CommitSlotEnter(r) ==
    /\ pc[r] = "slot_wait"
    /\ commit_ops < CommitLimit
    /\ commit_ops' = commit_ops + 1
    /\ Goto(r, "commit")
    /\ UNCHANGED <<op, target, gate, spare, gateVars, foreground_ops, maintenance_active, ctrVars>>

FullCheckpointStopsSource(r) ==
    /\ pc[r] = "commit"
    /\ container[target[r]] = "running"
    /\ container' = [container EXCEPT ![target[r]] = "frozen"]
    /\ UNCHANGED <<reqVars, gateVars, nodeVars, active, orphans>>

\* the slot and the foreground section are left one after the other; no other
\* request can tell the two steps apart
CommitSlotLeave ==
    /\ commit_ops' = Decremented(commit_ops)
    /\ ForegroundLeave

CommitSucceeds(r) ==
    /\ pc[r] = "commit"
    /\ container[target[r]] \in {"running", "frozen"}
    /\ container' = [container EXCEPT ![target[r]] = "running"]
    /\ CommitSlotLeave
    /\ Goto(r, "excl_out")
    /\ UNCHANGED <<op, target, gate, spare, gateVars, maintenance_active, active, orphans>>

CommitFails(r) ==
    /\ pc[r] = "commit"
    /\ CommitSlotLeave
    /\ Goto(r, "recover")
    /\ UNCHANGED <<op, target, gate, spare, gateVars, maintenance_active, ctrVars>>

RecoverSourceForgotten(r) ==   \* mutated form: no docker start
    /\ pc[r] = "recover"
    /\ Goto(r, "excl_out")
    /\ UNCHANGED <<op, target, gate, spare, gateVars, nodeVars, ctrVars>>

\* the plain docker start of a source the failed checkpoint left stopped
RecoverSource(r) ==
    LET c == target[r] IN
    /\ pc[r] = "recover"
    /\ \/ /\ container[c] = "frozen"
          /\ \/ c \in active /\ container' = [container EXCEPT ![c] = "running"]
             \/ container' = [container EXCEPT ![c] = "stopped"]
       \/ /\ container[c] # "frozen"
          /\ UNCHANGED container
    /\ Goto(r, "excl_out")
    /\ UNCHANGED <<op, target, gate, spare, gateVars, nodeVars, active, orphans>>

-----------------------------------------------------------------------------
(***************************************************************************)
(* Removal of a container: by destroy and rerun under the exclusive gate,  *)
(* by a fault injection under none.                                        *)
(***************************************************************************)
Removed(c) ==
    /\ container' = [container EXCEPT ![c] = "removed"]
    /\ orphans' = orphans \ {c}

RemoveFinish(r) ==
    /\ pc[r] = "rm_run"
    /\ ForegroundLeave
    /\ \/ Removed(target[r]) /\ Goto(r, "rm_out")
       \/ target[r] \in Unremovable /\ Goto(r, "rm_failed") /\ UNCHANGED <<container, orphans>>
    /\ UNCHANGED <<op, target, gate, spare, gateVars, maintenance_active, commit_ops, active>>

FaultKill(r) ==
    /\ pc[r] = "kill"
    /\ Removed(target[r]) \/ (target[r] \in Unremovable /\ UNCHANGED <<container, orphans>>)
    /\ \E stage \in {"untrack", "done"} : Goto(r, stage)   \* remove_tracking and drop_gate
    /\ UNCHANGED <<op, target, gate, spare, gateVars, nodeVars, active>>

Untrack(r) ==
    /\ pc[r] = "untrack"
    /\ active' = active \ {target[r]}
    /\ Goto(r, "drop")
    /\ UNCHANGED <<op, target, gate, spare, gateVars, nodeVars, container, orphans>>

DropGate(r) ==
    /\ pc[r] = "drop"
    /\ gates' = [gates EXCEPT ![target[r]] = NoGate]
    /\ Goto(r, IF op[r] = "rerun" THEN "swap" ELSE "done")
    /\ UNCHANGED <<op, target, gate, spare, countVars, nodeVars, ctrVars>>

-----------------------------------------------------------------------------
(***************************************************************************)
(* Rerun: a new container is restored in a foreground section, then the    *)
(* old one is removed under its gate and replaced in _active_containers.   *)
(* A target that fails validation is destroyed again.                      *)
(***************************************************************************)
RestoreFinish(r) ==
    /\ pc[r] = "restore"
    /\ ForegroundLeave
    /\ \/ /\ Goto(r, "done")                               \* nothing was created
          /\ UNCHANGED <<op, target, spare, container>>
       \/ \E c \in Containers :
             /\ container[c] = "absent"
             /\ container' = [container EXCEPT ![c] = "running"]
             /\ spare' = [spare EXCEPT ![r] = c]
             /\ Goto(r, "lookup")
             /\ \/ UNCHANGED <<op, target>>
                \/ /\ op' = [op EXCEPT ![r] = "destroy"]   \* validation failed
                   /\ target' = [target EXCEPT ![r] = c]
    /\ UNCHANGED <<gate, gateVars, maintenance_active, commit_ops, active, orphans>>

SwapActive(r) ==
    /\ pc[r] = "swap"
    /\ active' = (active \ {target[r]}) \cup {spare[r]}
    /\ Goto(r, "done")
    /\ UNCHANGED <<op, target, gate, spare, gateVars, nodeVars, container, orphans>>

(***************************************************************************)
(* The maintenance section of checkpoint GC and delete.                    *)
(***************************************************************************)
MaintenanceEnter(r) ==
    /\ pc[r] = "gc_enter"
    /\ ~maintenance_active
    /\ maintenance_active' = TRUE
    /\ Goto(r, "gc_wait")
    /\ UNCHANGED <<op, target, gate, spare, gateVars, foreground_ops, commit_ops, ctrVars>>

MaintenanceRunAtOnce(r) ==   \* mutated form: does not wait for foreground operations
    /\ pc[r] = "gc_wait"
    /\ Goto(r, "gc_run")
    /\ UNCHANGED <<op, target, gate, spare, gateVars, nodeVars, ctrVars>>

MaintenanceRun(r) ==
    /\ pc[r] = "gc_wait"
    /\ foreground_ops = 0
    /\ Goto(r, "gc_run")
    /\ UNCHANGED <<op, target, gate, spare, gateVars, nodeVars, ctrVars>>

MaintenanceLeaveHeld(r) ==   \* mutated form: maintenance_active is not reset
    /\ pc[r] = "gc_run"
    /\ Goto(r, "done")
    /\ UNCHANGED <<op, target, gate, spare, gateVars, nodeVars, ctrVars>>

MaintenanceLeave(r) ==
    /\ pc[r] = "gc_run"
    /\ maintenance_active' = FALSE
    /\ Goto(r, "done")
    /\ UNCHANGED <<op, target, gate, spare, gateVars, foreground_ops, commit_ops, ctrVars>>

(***************************************************************************)
(* Evaluate runs docker exec in the container under no gate or section.    *)
(***************************************************************************)
EvaluateStart(r) ==
    /\ pc[r] = "eval"
    /\ Goto(r, "eval_run")
    /\ UNCHANGED <<op, target, gate, spare, gateVars, nodeVars, ctrVars>>

EvaluateFinish(r) ==
    /\ pc[r] = "eval_run"
    /\ Goto(r, "done")
    /\ \/ UNCHANGED orphans
       \/ /\ ExecMayTimeOut
          /\ container[target[r]] = "running"
          /\ orphans' = orphans \cup {target[r]}
    /\ UNCHANGED <<op, target, gate, spare, gateVars, nodeVars, container, active>>

-----------------------------------------------------------------------------
\* the steps of a request's thread once the request has arrived
Serve(r) ==
    \/ LookupGate(r)
    \/ ExecEnter(r)
    \/ ExecWake(r)
    \/ ExecRelease(r)
    \/ ExclusiveEnter(r)
    \/ ExclusiveRelease(r)
    \/ ForegroundEnter(r)
    \/ ExecFinish(r)
    \/ CheckpointRecheck(r)
    \/ CommitSlotEnter(r)
    \/ FullCheckpointStopsSource(r)
    \/ CommitSucceeds(r)
    \/ CommitFails(r)
    \/ RecoverSource(r)
    \/ RemoveFinish(r)
    \/ FaultKill(r)
    \/ Untrack(r)
    \/ DropGate(r)
    \/ RestoreFinish(r)
    \/ SwapActive(r)
    \/ MaintenanceEnter(r)
    \/ MaintenanceRun(r)
    \/ MaintenanceLeave(r)
    \/ EvaluateStart(r)
    \/ EvaluateFinish(r)

Next ==
    \/ \E r \in Requests : Arrive(r) \/ Serve(r)
    \/ \E c \in Containers : OrphanEnds(c)

Spec == Init /\ [][Next]_vars

(***************************************************************************)
(* A thread that can run does run: docker commands return or time out, and *)
(* a notified waiter gets the lock.  Nothing forces a client to call.      *)
(***************************************************************************)
Fairness == \A r \in Requests : WF_vars(Serve(r))

FairSpec == Spec /\ Fairness

-----------------------------------------------------------------------------
(***************************************************************************)
(* Properties                                                              *)
(***************************************************************************)

\* No docker commit (or CRIU checkpoint) and no docker rm of a container runs
\* while a docker exec runs in it, as the shared and exclusive sections of
\* the container's gate promise (lines 534-565); a container that is gone is
\* of no interest.
ExclusiveAlone ==
    \A r, e \in Requests :
        ~ /\ pc[r] \in {"commit", "rm_run"}
          /\ pc[e] = "exec_run"
          /\ target[e] = target[r]
          /\ Live(target[r]) /\ target[r] \notin Unremovable

\* No docker exec meets a source that a full checkpoint has stopped and not
\* yet resumed, or restarted: _full_checkpoint_source_guard keeps the gate
\* until then (lines 2974-3021).
FrozenSourceHidden ==
    \A r \in Requests :
        pc[r] = "exec_run" /\ target[r] \notin Unremovable => container[target[r]] # "frozen"

\* While the maintenance section deletes artifacts no request runs docker in
\* a foreground section (lines 484-530).
MaintenanceAlone ==
    \A g, r \in Requests : pc[g] = "gc_run" => pc[r] \notin ForegroundStages

\* Never more commits than checkpoint_max_inflight (lines 500-513).
CommitsBounded == Cardinality({r \in Requests : pc[r] = "commit"}) <= CommitLimit

\* An exec that waits for a container's gate is never overtaken by another
\* exclusive section of that gate (the comment at line 555).
ExecNotOvertaken ==
    [][\A e, r \in Requests :
          pc[e] = "exec_wait" /\ pc'[e] = "exec_wait" /\ gate[r] = gate[e]
             => ~(pc[r] = "enter" /\ pc'[r] = "excl_in")]_vars

\* Every request that arrived is answered: gates, foreground, maintenance and
\* commit slots never leave a request waiting for good.
EveryRequestAnswered == \A r \in Requests : pc[r] # "new" ~> pc[r] = "done"

\* A checkpoint never captures a container in which a command still runs that
\* the previous docker exec started (README_EN.md:90).
CommitSeesNoOrphan ==
    \A r \in Requests : pc[r] = "commit" => target[r] \notin orphans

=============================================================================
