----------------------------- MODULE EnvCheckpoint -----------------------------
(***************************************************************************)
(* Checkpoints of SWE environments on one exec node: the records and       *)
(* artifacts the node keeps (swe_exec_server.py), the leases and latest    *)
(* pointers the pool keeps (swe_env_pool_server.py), and the position of   *)
(* the rollout that owns a lease (generate_with_swe_remote.py).            *)
(*                                                                         *)
(* A handler of the exec node is a job: it goes on when the pool stops     *)
(* waiting for it.  The gates and sections of module DockerGates appear    *)
(* here as their effect: a docker step is atomic, and none is taken while  *)
(* a collection is deleting.                                               *)
(***************************************************************************)
EXTENDS Naturals, FiniteSets

CONSTANTS
    Leases,
    Containers,
    NoContainer,
    MaxCheckpoints,    \* bound: checkpoints ever created, in any setup
    MaxSteps,          \* bound: steps of a trajectory, in any setup
    MaxReruns,         \* bound: reruns of a lease
    MaxCalls,          \* bound: concurrent GC and delete calls
    Setups,            \* the settings of the node and the habits of its callers
    MayTimeOut,        \* the pool may stop waiting, a docker command outlive its limit
    MayCrash           \* the exec server may crash and restart

ASSUME BoundsAssumption ==
    /\ {MaxCheckpoints, MaxSteps, MaxReruns, MaxCalls} \subseteq Nat
    /\ {MayTimeOut, MayCrash} \subseteq BOOLEAN
    /\ \A s \in Setups :
        /\ {s.legacy, s.delete} \subseteq BOOLEAN
        /\ s.keep \subseteq Nat /\ s.inflight \in Nat
        /\ s.checkpoints \in 0..MaxCheckpoints /\ s.steps \in 0..MaxSteps
ASSUME ContainersAssumption == NoContainer \notin Containers
ASSUME LeasesAssumption == Leases # {}

VARIABLES
    setup,      \* legacy: the backend makes docker images, or else full
                \* checkpoints; keep: the values of keep_latest that callers
                \* pass; delete: they also delete single checkpoints;
                \* inflight: checkpoint_max_inflight; checkpoints, steps:
                \* bounds
    record,     \* the record of each checkpoint id, ids in order of created_at
    created,    \* how many ids were given out
    artifact,   \* ids whose image or artifact directory exists
    used,       \* container ids docker has given out
    running,    \* containers docker runs
    tracked,    \* keys of _active_containers
    image,      \* the checkpoint a container was made from, 0 for a base image
    lease,      \* the pool's leases
    client,     \* the rollouts' checkpoint_state
    jobs,       \* checkpoint and rerun handlers at work
    calls,      \* the pool's GC and delete calls
    tasks       \* queued collections

dockerVars == <<used, running, tracked, image>>
storeVars == <<record, created, artifact, setup>>
vars == <<storeVars, dockerVars, lease, client, jobs, calls, tasks>>

Ids == 1..MaxCheckpoints
MaybeId == 0..MaxCheckpoints
Statuses == {"none", "pending", "ready", "failed", "deleted"}

Records == [status : Statuses, lease : Leases, generation : 0..MaxReruns,
            step : 0..MaxSteps, parent : MaybeId]
LeaseRecords == [status : {"none", "open", "closed"}, container : Containers \cup {NoContainer},
                 generation : 0..MaxReruns, latest : MaybeId]
Clients == [latest : MaybeId, step : 0..MaxSteps, faulted : BOOLEAN, restart : BOOLEAN]
Jobs == [kind : {"create", "rerun"}, id : Ids, lease : Leases,
         container : Containers, new : Containers \cup {NoContainer},
         stage : {"queued", "committed", "ready", "failed",
                  "restoring", "restored", "destroyed", "swapped", "done"},
         waited : BOOLEAN]
Calls == [stage : {"checked", "wiped", "refresh", "listed"}, lease : Leases, id : MaybeId]
Tasks == [scope : SUBSET Leases, plan : SUBSET Ids, todo : SUBSET Ids,
          collecting : BOOLEAN, wiped : BOOLEAN]

TypeOK ==
    /\ setup \in Setups
    /\ record \in [Ids -> Records]
    /\ created \in MaybeId
    /\ artifact \subseteq Ids
    /\ used \subseteq Containers /\ running \subseteq used /\ tracked \subseteq used
    /\ image \in [Containers -> MaybeId]
    /\ lease \in [Leases -> LeaseRecords]
    /\ client \in [Leases -> Clients]
    /\ jobs \subseteq Jobs /\ calls \subseteq Calls /\ tasks \subseteq Tasks

NoLease == [status |-> "none", container |-> NoContainer, generation |-> 0, latest |-> 0]
NewClient == [latest |-> 0, step |-> 0, faulted |-> FALSE, restart |-> FALSE]

Init ==
    /\ setup \in Setups
    /\ record = [i \in Ids |-> [status |-> "none", lease |-> CHOOSE l \in Leases : TRUE,
                                generation |-> 0, step |-> 0, parent |-> 0]]
    /\ created = 0 /\ artifact = {}
    /\ used = {} /\ running = {} /\ tracked = {}
    /\ image = [c \in Containers |-> 0]
    /\ lease = [l \in Leases |-> NoLease]
    /\ client = [l \in Leases |-> NewClient]
    /\ jobs = {} /\ calls = {} /\ tasks = {}

-----------------------------------------------------------------------------
Exists(i) == i # 0 /\ record[i].status \in {"pending", "ready", "failed"}
ReadyOf(l) == {i \in Ids : record[i].status = "ready" /\ record[i].lease = l}

IsOpen(l) == lease[l].status = "open"
Locked(l) == \E j \in jobs : j.lease = l /\ j.waited       \* lease.lifecycle_lock
Collecting == \E t \in tasks : t.collecting                \* the maintenance section

\* _checkpoint_sort_key: generation, step, created_at
SortsBefore(i, j) ==
    LET r == record[i]  s == record[j] IN
    \/ r.generation < s.generation
    \/ r.generation = s.generation /\ r.step < s.step
    \/ r.generation = s.generation /\ r.step = s.step /\ i < j

NewestReady(l) ==
    IF ReadyOf(l) = {} THEN 0
    ELSE CHOOSE i \in ReadyOf(l) : \A j \in ReadyOf(l) \ {i} : SortsBefore(j, i)

Advance(j, stage) == jobs' = (jobs \ {j}) \cup {[j EXCEPT !.stage = stage]}
Forget(j) == jobs' = jobs \ {j}

-----------------------------------------------------------------------------
(***************************************************************************)
(* Leases.                                                                 *)
(***************************************************************************)
Allocate(l, c) ==
    /\ lease[l].status = "none" /\ c \notin used /\ ~Collecting
    /\ lease' = [lease EXCEPT ![l].status = "open", ![l].container = c]
    /\ used' = used \cup {c} /\ running' = running \cup {c} /\ tracked' = tracked \cup {c}
    /\ UNCHANGED <<storeVars, image, client, jobs, calls, tasks>>

Close(l) ==
    /\ IsOpen(l) /\ ~Locked(l) /\ ~Collecting
    /\ lease' = [lease EXCEPT ![l].status = "closed"]
    /\ running' = running \ {lease[l].container}
    /\ tracked' = tracked \ {lease[l].container}
    /\ UNCHANGED <<storeVars, used, image, client, jobs, calls, tasks>>

Working(l) == IsOpen(l) /\ ~client[l].faulted /\ ~client[l].restart

\* an injected fault removes the container, forgets it, and answers that it did
FaultKill(l) ==
    /\ Working(l) /\ ~Collecting
    /\ lease[l].container \in running
    /\ \A j \in jobs : j.lease = l /\ j.kind = "rerun" => ~j.waited
    /\ running' = running \ {lease[l].container}
    /\ tracked' = tracked \ {lease[l].container}
    /\ client' = [client EXCEPT ![l].faulted = TRUE]
    /\ UNCHANGED <<storeVars, used, image, lease, jobs, calls, tasks>>

-----------------------------------------------------------------------------
(***************************************************************************)
(* Checkpoint creation: pool and handler, then the dispatcher's worker,    *)
(* then the answer.                                                        *)
(***************************************************************************)
MayParent(l, p) == p \in {0} \cup ReadyOf(l)

BeginCreate(l) ==
    LET i == created + 1 IN
    /\ Working(l) /\ ~Locked(l)
    /\ created < setup.checkpoints /\ client[l].step < setup.steps
    /\ lease[l].container \in tracked
    /\ MayParent(l, client[l].latest)
    /\ Cardinality({j \in jobs : j.kind = "create"}) < setup.inflight
    /\ created' = i
    /\ client' = [client EXCEPT ![l].step = @ + 1]
    /\ record' = [record EXCEPT ![i] =
          [status |-> "pending", lease |-> l, generation |-> lease[l].generation,
           step |-> client[l].step + 1, parent |-> client[l].latest]]
    /\ jobs' = jobs \cup {[kind |-> "create", id |-> i, lease |-> l,
                           container |-> lease[l].container, new |-> NoContainer,
                           stage |-> "queued", waited |-> TRUE]}
    /\ UNCHANGED <<setup, artifact, dockerVars, lease, calls, tasks>>

CommitSource(j) ==
    /\ j.kind = "create" /\ j.stage = "queued" /\ ~Collecting
    /\ j.container \in tracked \cap running
    /\ artifact' = artifact \cup {j.id}
    /\ Advance(j, "committed")
    /\ UNCHANGED <<setup, record, created, dockerVars, lease, client, calls, tasks>>

CreateFailsQuietly(j) ==          \* mutated form: the record stays pending
    /\ j.kind = "create" /\ j.stage \in {"queued", "committed"}
    /\ Advance(j, "failed")
    /\ UNCHANGED <<storeVars, dockerVars, lease, client, calls, tasks>>

\* what a stopped checkpoint of these containers may leave running: a full
\* checkpoint stops its source, and the plain restart that follows may fail
LeftRunning(sources) ==
    IF setup.legacy THEN {running} ELSE {running \ stopped : stopped \in SUBSET sources}

\* the container is gone, or a docker command fails and may leave an artifact
CreateFails(j) ==
    /\ j.kind = "create" /\ j.stage \in {"queued", "committed"}
    /\ record' = [record EXCEPT ![j.id].status = "failed"]
    /\ artifact' \in {artifact, artifact \cup {j.id}}
    /\ running' \in LeftRunning({j.container} \cap tracked)
    /\ Advance(j, "failed")
    /\ UNCHANGED <<setup, created, used, tracked, image, lease, client, calls, tasks>>

CreateReady(j) ==
    /\ j.kind = "create" /\ j.stage = "committed"
    /\ record' = [record EXCEPT ![j.id].status = "ready"]
    /\ Advance(j, "ready")
    /\ UNCHANGED <<setup, created, artifact, dockerVars, lease, client, calls, tasks>>

\* the pool moves its pointer; the rollout does too, unless its deadline has passed
CreateAnswered(j) ==
    /\ j.stage = "ready" /\ j.waited
    /\ lease' = [lease EXCEPT ![j.lease].latest =
          IF /\ lease[j.lease].container = j.container
             /\ lease[j.lease].generation = record[j.id].generation
          THEN j.id ELSE @]
    /\ \/ client' = [client EXCEPT ![j.lease].latest = j.id]
       \/ UNCHANGED client
    /\ Forget(j)
    /\ UNCHANGED <<storeVars, dockerVars, calls, tasks>>

-----------------------------------------------------------------------------
(***************************************************************************)
(* Rerun: a new container from a checkpoint takes the place of the old.    *)
(***************************************************************************)
\* the rollout names the latest checkpoint it knows of
BeginRerun(l) ==
    LET i == client[l].latest IN
    /\ IsOpen(l) /\ ~Locked(l) /\ ~client[l].restart
    /\ lease[l].generation < MaxReruns
    /\ i \in ReadyOf(l)
    /\ jobs' = jobs \cup {[kind |-> "rerun", id |-> i, lease |-> l,
                           container |-> lease[l].container, new |-> NoContainer,
                           stage |-> "restoring", waited |-> TRUE]}
    /\ UNCHANGED <<storeVars, dockerVars, lease, client, calls, tasks>>

\* the node no longer has it, or not ready
RerunRefused(l) ==
    /\ IsOpen(l) /\ ~Locked(l) /\ ~client[l].restart
    /\ client[l].latest # 0 /\ client[l].latest \notin ReadyOf(l)
    /\ client' = [client EXCEPT ![l].restart = TRUE]
    /\ UNCHANGED <<storeVars, dockerVars, lease, jobs, calls, tasks>>

DestroyBeforeRestore(j, c) ==     \* mutated form: the old container goes first
    /\ j.stage = "restoring" /\ ~Collecting
    /\ running' = running \ {j.container}
    /\ Advance(j, "destroyed")
    /\ UNCHANGED <<storeVars, used, tracked, image, lease, client, calls, tasks>>

RestoreTarget(j, c) ==
    /\ j.stage = "restoring" /\ ~Collecting
    /\ j.id \in artifact /\ c \notin used
    /\ used' = used \cup {c} /\ running' = running \cup {c}
    /\ jobs' = (jobs \ {j}) \cup {[j EXCEPT !.stage = "restored", !.new = c]}
    /\ UNCHANGED <<storeVars, tracked, image, lease, client, calls, tasks>>

DestroyOld(j) ==
    /\ j.stage = "restored" /\ ~Collecting
    /\ running' = running \ {j.container}
    /\ Advance(j, "destroyed")
    /\ UNCHANGED <<storeVars, used, tracked, image, lease, client, calls, tasks>>

SwapTracked(j) ==
    /\ j.stage = "destroyed"
    /\ tracked' = (tracked \ {j.container}) \cup {j.new}
    /\ image' = [image EXCEPT ![j.new] = IF setup.legacy THEN j.id ELSE 0]
    /\ Advance(j, "swapped")
    /\ UNCHANGED <<storeVars, used, running, lease, client, calls, tasks>>

MarkUsed(j) ==
    /\ j.stage = "swapped"
    /\ Exists(j.id)
    /\ Advance(j, "done")
    /\ UNCHANGED <<storeVars, dockerVars, lease, client, calls, tasks>>

RerunFailsKeepingNew(j) ==        \* mutated form: the new container is left behind
    /\ \/ j.stage \in {"restoring", "restored"}
       \/ j.stage = "swapped" /\ ~Exists(j.id)
    /\ ~Collecting
    /\ Advance(j, "failed")
    /\ UNCHANGED <<storeVars, dockerVars, lease, client, calls, tasks>>

\* a docker step or the validation fails, or mark_used finds no record: the
\* new container is destroyed, and _active_containers stays as it is.  A docker
\* run whose limit passes may have started it unknown to the handler, and a
\* docker rm that fails is only logged: it then runs on.
RerunFails(j) ==
    /\ \/ j.stage \in {"restoring", "restored"}
       \/ j.stage = "swapped" /\ ~Exists(j.id)
    /\ ~Collecting
    /\ \/ running' = running \ {j.new}
       \/ MayTimeOut /\ UNCHANGED running
    /\ Advance(j, "failed")
    /\ UNCHANGED <<storeVars, used, tracked, image, lease, client, calls, tasks>>

RerunAnswered(j) ==
    /\ j.stage = "done" /\ j.waited
    /\ lease' = [lease EXCEPT ![j.lease].container = j.new, ![j.lease].generation = @ + 1]
    /\ client' = [client EXCEPT ![j.lease].latest = j.id, ![j.lease].step = record[j.id].step,
                                ![j.lease].faulted = FALSE]
    /\ Forget(j)
    /\ UNCHANGED <<storeVars, dockerVars, calls, tasks>>

FailureIgnored(j) ==              \* mutated form: the rollout goes on with its lease
    /\ j.stage = "failed" /\ j.waited
    /\ Forget(j)
    /\ UNCHANGED <<storeVars, dockerVars, lease, client, calls, tasks>>

\* the rollout skips a failed checkpoint; after a failed rerun it closes the
\* lease and starts again from the base image with another one
FailureAnswered(j) ==
    /\ j.stage = "failed" /\ j.waited
    /\ client' = [client EXCEPT ![j.lease].restart = @ \/ j.kind = "rerun"]
    /\ Forget(j)
    /\ UNCHANGED <<storeVars, dockerVars, lease, calls, tasks>>

PoolTimesOut(j) ==
    /\ MayTimeOut /\ j.waited /\ j.stage \notin {"ready", "failed", "done"}
    /\ jobs' = (jobs \ {j}) \cup {[j EXCEPT !.waited = FALSE]}
    /\ client' = [client EXCEPT ![j.lease].restart = @ \/ j.kind = "rerun"]
    /\ UNCHANGED <<storeVars, dockerVars, lease, calls, tasks>>

AnswerDropped(j) ==
    /\ j.stage \in {"ready", "failed", "done"} /\ ~j.waited
    /\ Forget(j)
    /\ UNCHANGED <<storeVars, dockerVars, lease, client, calls, tasks>>

-----------------------------------------------------------------------------
(***************************************************************************)
(* Garbage collection: _checkpoint_gc_plan, the queued worker, and the     *)
(* pool's refresh of its pointer.                                          *)
(***************************************************************************)
AncestorsIn(l, roots) ==
    LET ancestors[i \in MaybeId] ==
            IF i = 0 \/ ~Exists(i) \/ record[i].lease # l THEN {}
            ELSE {i} \cup ancestors[record[i].parent]
    IN  UNION {ancestors[i] : i \in roots}

OldestReady(l, k) ==              \* mutated form: keeps the other end
    {i \in ReadyOf(l) : Cardinality({j \in ReadyOf(l) : SortsBefore(j, i)}) < k}
LatestReady(l, k) == {i \in ReadyOf(l) : Cardinality({j \in ReadyOf(l) : SortsBefore(i, j)}) < k}
Pending(l) == {i \in Ids : record[i].status = "pending" /\ record[i].lease = l}
ImagesInUse == {image[c] : c \in tracked} \ {0}

ProtectedRootsOnly(l, k) == LatestReady(l, k) \cup Pending(l)   \* mutated form: no ancestors
Protected(l, k) == AncestorsIn(l, LatestReady(l, k) \cup Pending(l) \cup ImagesInUse)

Deletable(l, k) ==
    (ReadyOf(l) \ Protected(l, k)) \cup {i \in Ids : record[i].status = "failed" /\ record[i].lease = l}

Enqueued(scope, plan) ==
    tasks' = IF plan = {} \/ \E t \in tasks : t.scope = scope /\ t.plan = plan THEN tasks
             ELSE tasks \cup {[scope |-> scope, plan |-> plan, todo |-> plan,
                               collecting |-> FALSE, wiped |-> FALSE]}

\* for one lease, with a refresh to follow, or for the node, without one
CollectLease(l, k) ==
    /\ IsOpen(l) /\ Cardinality(calls) < MaxCalls
    /\ Enqueued({l}, Deletable(l, k))
    /\ calls' = calls \cup {[stage |-> "refresh", lease |-> l, id |-> 0]}
    /\ UNCHANGED <<storeVars, dockerVars, lease, client, jobs>>

CollectNode(k) ==
    /\ Enqueued(Leases, UNION {Deletable(l, k) : l \in Leases})
    /\ UNCHANGED <<storeVars, dockerVars, lease, client, jobs, calls>>

StartCollecting(t) ==
    /\ ~Collecting
    /\ tasks' = (tasks \ {t}) \cup {[t EXCEPT !.collecting = TRUE]}
    /\ UNCHANGED <<storeVars, dockerVars, lease, client, jobs, calls>>

\* ready ones first, in reverse order of their keys, so that children go before parents
GoesFirst(i, j) ==
    \/ record[i].status # "failed" /\ record[j].status = "failed"
    \/ (record[i].status = "failed") = (record[j].status = "failed") /\ SortsBefore(j, i)

NextToDelete(t, i) == \A j \in t.todo \ {i} : GoesFirst(i, j)

WipeNext(t) ==
    /\ t.collecting /\ ~t.wiped
    /\ \E i \in t.todo : NextToDelete(t, i) /\ artifact' = artifact \ {i}
    /\ tasks' = (tasks \ {t}) \cup {[t EXCEPT !.wiped = TRUE]}
    /\ UNCHANGED <<setup, record, created, dockerVars, lease, client, jobs, calls>>

ForgetNext(t) ==
    /\ t.collecting /\ t.wiped
    /\ \E i \in t.todo :
          /\ NextToDelete(t, i)
          /\ record' = [record EXCEPT ![i].status = "deleted"]
          /\ tasks' = (tasks \ {t}) \cup
                (IF t.todo = {i} THEN {} ELSE {[t EXCEPT !.todo = @ \ {i}, !.wiped = FALSE]})
    /\ UNCHANGED <<setup, created, artifact, dockerVars, lease, client, jobs, calls>>

CollectingFailsHeld(t) ==           \* mutated form: the maintenance section is not left
    /\ t.collecting
    /\ tasks' = (tasks \ {t}) \cup {[t EXCEPT !.todo = {}]}
    /\ UNCHANGED <<storeVars, dockerVars, lease, client, jobs, calls>>

\* a docker command times out and ends the task
CollectingFails(t) ==
    /\ t.collecting
    /\ tasks' = tasks \ {t}
    /\ UNCHANGED <<storeVars, dockerVars, lease, client, jobs, calls>>

-----------------------------------------------------------------------------
(***************************************************************************)
(* Deletion of one checkpoint, and the refresh that ends it and a lease's  *)
(* GC call.  Neither is under the lifecycle lock.                          *)
(***************************************************************************)
BeginDelete(l, i) ==
    /\ setup.delete /\ IsOpen(l) /\ Cardinality(calls) < MaxCalls
    /\ record[i].status \in {"ready", "failed"}
    /\ calls' = calls \cup {[stage |-> "checked", lease |-> l, id |-> i]}
    /\ UNCHANGED <<storeVars, dockerVars, lease, client, jobs, tasks>>

Replace(c, new) == calls' = (calls \ {c}) \cup {new}

DeleteArtifact(c) ==
    /\ c.stage = "checked" /\ ~Collecting
    /\ artifact' = artifact \ {c.id}
    /\ Replace(c, [c EXCEPT !.stage = "wiped"])
    /\ UNCHANGED <<setup, record, created, dockerVars, lease, client, jobs, tasks>>

DeleteRecord(c) ==
    /\ c.stage = "wiped"
    /\ record' = [record EXCEPT ![c.id].status = "deleted"]
    /\ Replace(c, [c EXCEPT !.stage = "refresh"])
    /\ UNCHANGED <<setup, created, artifact, dockerVars, lease, client, jobs, tasks>>

RefreshLists(c) ==
    /\ c.stage = "refresh"
    /\ Replace(c, [c EXCEPT !.stage = "listed", !.id = NewestReady(c.lease)])
    /\ UNCHANGED <<storeVars, dockerVars, lease, client, jobs, tasks>>

RefreshSets(c) ==
    /\ c.stage = "listed"
    /\ lease' = [lease EXCEPT ![c.lease].latest = c.id]
    /\ calls' = calls \ {c}
    /\ UNCHANGED <<storeVars, dockerVars, client, jobs, tasks>>

-----------------------------------------------------------------------------
\* records, artifacts and containers survive; handlers, tasks, tracking and the
\* pool's pending calls do not
Restart ==
    /\ MayCrash
    /\ jobs' = {} /\ tasks' = {} /\ tracked' = {}
    /\ running' \in LeftRunning({j.container : j \in {k \in jobs : k.kind = "create"}})
    /\ \E going \in SUBSET {c \in calls : c.stage = "refresh"} :
          calls' = going \cup {c \in calls : c.stage = "listed"}
    /\ client' = [l \in Leases |-> [client[l] EXCEPT !.restart = @ \/
                     \E j \in jobs : j.lease = l /\ j.kind = "rerun" /\ j.waited]]
    /\ UNCHANGED <<storeVars, used, image, lease>>

JobStep(j) ==
    \/ CommitSource(j) \/ CreateFails(j) \/ CreateReady(j) \/ CreateAnswered(j)
    \/ \E c \in Containers : RestoreTarget(j, c)
    \/ DestroyOld(j) \/ SwapTracked(j) \/ MarkUsed(j) \/ RerunFails(j) \/ RerunAnswered(j)
    \/ FailureAnswered(j) \/ AnswerDropped(j)

TaskStep(t) == StartCollecting(t) \/ WipeNext(t) \/ ForgetNext(t) \/ CollectingFails(t)
CallStep(c) == DeleteArtifact(c) \/ DeleteRecord(c) \/ RefreshLists(c) \/ RefreshSets(c)

Next ==
    \/ \E l \in Leases, c \in Containers : Allocate(l, c)
    \/ \E l \in Leases : Close(l) \/ FaultKill(l) \/ BeginCreate(l) \/ BeginRerun(l) \/ RerunRefused(l)
    \/ \E j \in jobs : JobStep(j) \/ PoolTimesOut(j)
    \/ \E k \in setup.keep : CollectNode(k) \/ \E l \in Leases : CollectLease(l, k)
    \/ \E l \in Leases, i \in Ids : BeginDelete(l, i)
    \/ \E t \in tasks : TaskStep(t)
    \/ \E c \in calls : CallStep(c)
    \/ Restart

Spec == Init /\ [][Next]_vars

(***************************************************************************)
(* Handlers and collections go on; a handler gets its turn between two     *)
(* collections (foreground and maintenance sections alternate, see         *)
(* DockerGates).                                                           *)
(***************************************************************************)
Fairness ==
    /\ \A l \in Leases : SF_vars(\E j \in jobs : j.lease = l /\ JobStep(j))
    /\ WF_vars(\E t \in tasks : TaskStep(t))

FairSpec == Spec /\ Fairness

-----------------------------------------------------------------------------
(***************************************************************************)
(* Properties                                                              *)
(***************************************************************************)
Restorable(i) == record[i].status = "ready" /\ i \in artifact

\* Callers that delete no single checkpoint and let collections keep one.
Careful == ~setup.delete /\ 0 \notin setup.keep

\* The checkpoint a rollout would rerun from is never collected, although the
\* node does not know what the rollout has heard (README_EN.md 3.4 step 1).
ClientCheckpointKept == Careful =>
    \A l \in Leases : IsOpen(l) /\ client[l].latest # 0 => Restorable(client[l].latest)

\* Every checkpoint in use keeps its parent, also between the deletions of a
\* collection and after a crash in the middle of one ("preserve ancestors
\* required by record lineage", README_EN.md 3.4).
LineageKept == Careful =>
    \A i \in Ids : record[i].status \in {"ready", "pending"} /\ record[i].parent # 0
                      => Restorable(record[i].parent)

\* A container runs only as the container of an open lease or in the hands of
\* a handler, since nothing else would ever remove it; and what the node lists
\* as active runs, but for an old container that a rerun has destroyed and is
\* about to replace (README_EN.md 3.4 step 4: the new container is "written to
\* active metadata" once the old one is destroyed).
ContainersAccounted ==
    /\ \A c \in running : \/ \E l \in Leases : IsOpen(l) /\ lease[l].container = c
                          \/ \E j \in jobs : c \in {j.container, j.new}
    /\ \A c \in tracked \ running : \E j \in jobs : j.container = c /\ j.stage = "destroyed"

\* A rollout that does not know of a fault, and has not given its lease up,
\* still has its container, whatever was lost, late or deleted in between
\* (_recover_from_injected_fault restarts from the base image otherwise); with
\* full checkpoints a crash of the node may leave the source stopped.  And a
\* rerun under way has destroyed the old container only when the new one runs.
LossKnown ==
    /\ setup.legacy =>
         \A l \in Leases : Working(l) /\ ~Locked(l) => lease[l].container \in running
    /\ \A j \in jobs : j.stage \in {"destroyed", "swapped"} => j.new \in running

\* While no call or collection is under way, the pool's latest pointer names
\* a ready checkpoint of the node, or none.
PointerIsReady ==
    \A l \in Leases : IsOpen(l) /\ ~Locked(l) /\ calls = {} /\ tasks = {}
                         => lease[l].latest = 0 \/ record[lease[l].latest].status = "ready"

\* A pending checkpoint becomes ready or failed ("the caller waits until the
\* checkpoint becomes ready or failed", README_EN.md 3.2).
PendingResolved == \A i \in Ids : record[i].status = "pending" ~> record[i].status # "pending"

\* Every lifecycle call of a lease returns and releases its lifecycle lock.
LockReleased == \A l \in Leases : Locked(l) ~> ~Locked(l)

=============================================================================
