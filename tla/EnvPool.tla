------------------------------ MODULE EnvPool ------------------------------
(***************************************************************************)
(* Leases of the env pool (swe_env_pool_server.py): the handlers of         *)
(* /allocate and /close, which run in threads of their own, the counters    *)
(* that bound them and the health of the nodes.                             *)
(*                                                                         *)
(* The pool is driven by rollouts (generate_with_swe_remote.py) through a   *)
(* client that repeats a call that failed or was not answered               *)
(* (swe_env_client.py).  The handler of a call nobody waits for goes on.    *)
(* An exec node makes a container or refuses (module ContainerSupply).      *)
(***************************************************************************)
EXTENDS Naturals, FiniteSets, FiniteSetsExt

CONSTANTS
    Rollouts,
    Nobody,         \* in the place of a rollout that no longer waits
    Nodes,          \* exec nodes, numbered in the order of the command line
    Ids,            \* leases, which have the number of their container
    Threads,        \* threads of the pool that serve a call
    MaxTotal,       \* max_total_leases; 0 is no limit
    NodeCap,        \* max_containers_per_node; 0 is no limit
    MaxAllocates,   \* max_concurrent_allocates
    Threshold,      \* health_check_failure_threshold
    MaxCreates,     \* max_concurrent of the rollouts' _DockerCreateLimiter
    MaxEvals,       \* slots of eval_semaphore
    Tries,          \* attempts of the client at one operation
    MaxEvents       \* bound: rollouts started, calls unanswered, probes failed
                    \* and the like, taken together

ASSUME BoundsAssumption ==
    /\ Nodes \subseteq Nat \ {0} /\ Ids \subseteq Nat \ {0} /\ Threads \subseteq Nat
    /\ {MaxTotal, NodeCap, MaxEvents} \subseteq Nat
    /\ {MaxAllocates, Threshold, MaxCreates, MaxEvals, Tries} \subseteq Nat \ {0}
    /\ Nobody \notin Rollouts
    /\ IsFiniteSet(Threads)

VARIABLES
    thread,     \* the call each thread serves, and how far it is
    lease,      \* _leases: the node of each, or 0
    active,     \* active_containers of each node
    pending,    \* _pending_allocations
    permits,    \* _allocate_sem
    misses,     \* consecutive_health_check_failures, up to the threshold
    healthy,    \* nodes the pool takes for healthy
    box,        \* whether a container is being made or is up on its node
    late,       \* history: creations the pool gave up while the node went on
    orphaned,   \* history: leases whose number reached nobody, or whose
                \* closing was given up
    rollout,    \* the local state of each rollout
    events      \* counted for the bound

poolVars == <<lease, active, pending, permits>>
healthVars == <<misses, healthy>>
nodeVars == <<box, late>>
vars == <<thread, poolVars, healthVars, nodeVars, orphaned, rollout, events>>

Allocating == {"allocating", "replacing", "evalAllocating"}
Closing == {"closingOld", "closing", "evalClosing", "lastClosing"}
Evaluating == {"evalAllocating", "evaluating", "evalClosing"}
Places == {"start", "working", "evalWaiting", "evaluating", "done"} \union Allocating \union Closing

(* The stages at which an allocation holds its slot of the total. *)
SlotStages == {"reserved", "creating", "leased", "givingUp"}
Stages == {"idle", "queued", "entered", "asked", "found", "destroying", "destroyed",
           "popped", "ok", "failed"} \union SlotStages

ThreadRecords == [op : {"none", "allocate", "close"}, stage : Stages, by : Rollouts \union {Nobody},
                  id : Ids \union {0}, node : Nodes \union {0}]
RolloutRecords == [at : Places, tries : 0..Tries, again : BOOLEAN,
                   agent : Ids \union {0}, mine : Ids \union {0}, eval : Ids \union {0}]

TypeOK ==
    /\ thread \in [Threads -> ThreadRecords]
    /\ lease \in [Ids -> Nodes \union {0}]
    /\ active \in [Nodes -> Nat]
    /\ pending \in Nat
    /\ permits \in 0..MaxAllocates
    /\ misses \in [Nodes -> 0..Threshold]
    /\ healthy \subseteq Nodes
    /\ box \in [Ids -> {"none", "making", "up"}]
    /\ late \subseteq Ids /\ orphaned \subseteq Ids
    /\ rollout \in [Rollouts -> RolloutRecords]
    /\ events \in 0..MaxEvents

Idle == [op |-> "none", stage |-> "idle", by |-> Nobody, id |-> 0, node |-> 0]

Init ==
    /\ thread = [t \in Threads |-> Idle]
    /\ lease = [i \in Ids |-> 0]
    /\ active = [n \in Nodes |-> 0]
    /\ pending = 0
    /\ permits = MaxAllocates
    /\ misses = [n \in Nodes |-> 0]
    /\ healthy = Nodes
    /\ box = [i \in Ids |-> "none"]
    /\ late = {} /\ orphaned = {}
    /\ rollout = [r \in Rollouts |-> [at |-> "start", tries |-> 0, again |-> FALSE,
                                      agent |-> 0, mine |-> 0, eval |-> 0]]
    /\ events = 0

Leases == {i \in Ids : lease[i] # 0}
Held(r) == {rollout[r].agent, rollout[r].eval}
Replacements == {rollout[r].mine : r \in {q \in Rollouts : rollout[q].again}}
Served == {thread[t].id : t \in Threads}

(* uuid4 and docker give numbers nobody has; it does not matter which. *)
Free == {i \in Ids : box[i] = "none"}
            \ (Leases \union Served \union UNION {Held(r) \union {rollout[r].mine} : r \in Rollouts})

Event == events < MaxEvents /\ events' = events + 1

At(t, stage) == thread[t].stage = stage
Goes(t, stage) == thread' = [thread EXCEPT ![t].stage = stage]

(* The handler returns; nobody may be left to hear it. *)
Answers(t, result) ==
    thread' = [thread EXCEPT ![t] = IF @.by = Nobody THEN Idle ELSE [@ EXCEPT !.stage = result]]

(***************************************************************************)
(* /allocate                                                                *)
(***************************************************************************)
(* with self._allocate_sem *)
Enter(t) ==
    /\ At(t, "queued")
    /\ permits > 0
    /\ permits' = permits - 1
    /\ Goes(t, "entered")
    /\ UNCHANGED <<lease, active, pending, healthVars, nodeVars, orphaned, rollout, events>>

\* mutated form: reservations do not count
UsedUpByLeases == MaxTotal > 0 /\ Cardinality(Leases) >= MaxTotal

UsedUp == MaxTotal > 0 /\ Cardinality(Leases) + pending >= MaxTotal

(* _reserve_total_slot *)
ReserveSlot(t) ==
    /\ At(t, "entered")
    /\ ~UsedUp
    /\ pending' = IF MaxTotal > 0 THEN pending + 1 ELSE pending
    /\ Goes(t, "reserved")
    /\ UNCHANGED <<lease, active, permits, healthVars, nodeVars, orphaned, rollout, events>>

LimitReached(t) ==
    /\ At(t, "entered")
    /\ UsedUp
    /\ permits' = permits + 1
    /\ Answers(t, "failed")
    /\ UNCHANGED <<lease, active, pending, healthVars, nodeVars, orphaned, rollout, events>>

Candidates == {n \in healthy : NodeCap = 0 \/ active[n] < NodeCap}
LeastLoaded == {n \in Candidates : \A m \in Candidates : active[n] <= active[m]}

(* _pick_and_reserve_node: the first of the least loaded, and the request to *)
(* it is on its way.                                                        *)
PickNode(t) ==
    /\ At(t, "reserved")
    /\ Candidates # {}
    /\ Free # {}
    /\ LET n == Min(LeastLoaded)
           i == Min(Free)
       IN  /\ active' = [active EXCEPT ![n] = @ + 1]
           /\ box' = [box EXCEPT ![i] = "making"]
           /\ thread' = [thread EXCEPT ![t].stage = "creating", ![t].id = i, ![t].node = n]
    /\ UNCHANGED <<lease, pending, permits, healthVars, late, orphaned, rollout, events>>

NoNode(t) ==
    /\ At(t, "reserved")
    /\ Candidates = {}
    /\ Goes(t, "givingUp")
    /\ UNCHANGED <<poolVars, healthVars, nodeVars, orphaned, rollout, events>>

InsertLease(t) ==
    /\ At(t, "creating")
    /\ box[thread[t].id] = "up"
    /\ lease' = [lease EXCEPT ![thread[t].id] = thread[t].node]
    /\ Goes(t, "leased")
    /\ UNCHANGED <<active, pending, permits, healthVars, nodeVars, orphaned, rollout, events>>

Fewer(n) == IF active[n] > 0 THEN active[n] - 1 ELSE 0

CreateFailsReserved(t) ==       \* mutated form: the node is not unreserved
    /\ At(t, "creating")
    /\ box[thread[t].id] = "none"
    /\ Goes(t, "givingUp")
    /\ UNCHANGED <<poolVars, healthVars, nodeVars, orphaned, rollout, events>>

(* The node refuses, or the pool does not wait for it any longer. *)
CreateFails(t) ==
    /\ At(t, "creating")
    /\ \/ box[thread[t].id] = "none" /\ UNCHANGED <<late, events>>
       \/ box[thread[t].id] # "none" /\ Event /\ late' = late \union {thread[t].id}
    /\ active' = [active EXCEPT ![thread[t].node] = Fewer(thread[t].node)]
    /\ thread' = [thread EXCEPT ![t].stage = "givingUp", ![t].id = 0, ![t].node = 0]
    /\ UNCHANGED <<lease, pending, permits, healthVars, box, orphaned, rollout>>

(* _release_total_slot, the end of the semaphore's block, and the answer. *)
ReleaseSlot(t) ==
    /\ thread[t].stage \in {"leased", "givingUp"}
    /\ pending' = IF pending > 0 THEN pending - 1 ELSE 0
    /\ permits' = permits + 1
    /\ Answers(t, IF At(t, "leased") THEN "ok" ELSE "failed")
    /\ orphaned' = IF At(t, "leased") /\ thread[t].by = Nobody THEN orphaned \union {thread[t].id}
                                                               ELSE orphaned
    /\ UNCHANGED <<lease, active, healthVars, nodeVars, rollout, events>>

Allocate(t) ==
    \/ Enter(t) \/ ReserveSlot(t) \/ LimitReached(t) \/ PickNode(t) \/ NoNode(t)
    \/ InsertLease(t) \/ CreateFails(t) \/ ReleaseSlot(t)

(***************************************************************************)
(* /close                                                                   *)
(***************************************************************************)
LookUp(t) ==
    /\ At(t, "asked")
    /\ IF thread[t].id \in Leases THEN Goes(t, "found") ELSE Answers(t, "ok")
    /\ UNCHANGED <<poolVars, healthVars, nodeVars, orphaned, rollout, events>>

(* The lifecycle lock of a lease is held by who destroys its container. *)
Locked(i) == \E t \in Threads : thread[t].id = i /\ thread[t].stage \in {"destroying", "destroyed"}

TakeLock(t) ==
    /\ At(t, "found")
    /\ ~Locked(thread[t].id)
    /\ IF thread[t].id \in Leases THEN Goes(t, "destroying") ELSE Answers(t, "ok")
    /\ UNCHANGED <<poolVars, healthVars, nodeVars, orphaned, rollout, events>>

Destroy(t) ==
    /\ At(t, "destroying")
    /\ box' = [box EXCEPT ![thread[t].id] = "none"]
    /\ Goes(t, "destroyed")
    /\ UNCHANGED <<poolVars, healthVars, late, orphaned, rollout, events>>

DestroyFailsPops(t) ==          \* mutated form: the lease goes although its container stays
    /\ At(t, "destroying")
    /\ Event
    /\ lease' = [lease EXCEPT ![thread[t].id] = 0]
    /\ active' = [active EXCEPT ![lease[thread[t].id]] = Fewer(lease[thread[t].id])]
    /\ Answers(t, "failed")
    /\ UNCHANGED <<pending, permits, healthVars, nodeVars, orphaned, rollout>>

(* docker rm fails, or it succeeds and the answer of the node is lost: the  *)
(* lease stays.                                                             *)
DestroyFails(t) ==
    /\ At(t, "destroying")
    /\ Event
    /\ box' \in {box, [box EXCEPT ![thread[t].id] = "none"]}
    /\ Answers(t, "failed")
    /\ UNCHANGED <<poolVars, healthVars, late, orphaned, rollout>>

Pop(t) ==
    /\ At(t, "destroyed")
    /\ lease' = [lease EXCEPT ![thread[t].id] = 0]
    /\ thread' = [thread EXCEPT ![t].stage = "popped", ![t].node = lease[thread[t].id]]
    /\ UNCHANGED <<active, pending, permits, healthVars, nodeVars, orphaned, rollout, events>>

Unreserve(t) ==
    /\ At(t, "popped")
    /\ active' = [active EXCEPT ![thread[t].node] = Fewer(thread[t].node)]
    /\ Answers(t, "ok")
    /\ UNCHANGED <<lease, pending, permits, healthVars, nodeVars, orphaned, rollout, events>>

Close(t) == LookUp(t) \/ TakeLock(t) \/ Destroy(t) \/ DestroyFails(t) \/ Pop(t) \/ Unreserve(t)

(***************************************************************************)
(* The nodes, and the thread that checks their health                       *)
(***************************************************************************)
NodeAnswers(i) ==
    /\ box[i] = "making"
    /\ \/ box' = [box EXCEPT ![i] = "up"] /\ UNCHANGED late
       \/ box' = [box EXCEPT ![i] = "none"] /\ late' = late \ {i}
    /\ UNCHANGED <<thread, poolVars, healthVars, orphaned, rollout, events>>

ProbeSucceeds(n) ==
    /\ misses[n] # 0
    /\ misses' = [misses EXCEPT ![n] = 0]
    /\ healthy' = healthy \union {n}
    /\ UNCHANGED <<thread, poolVars, nodeVars, orphaned, rollout, events>>

ProbeFails(n) ==
    /\ misses[n] < Threshold
    /\ Event
    /\ misses' = [misses EXCEPT ![n] = @ + 1]
    /\ healthy' = IF misses'[n] = Threshold THEN healthy \ {n} ELSE healthy
    /\ UNCHANGED <<thread, poolVars, nodeVars, orphaned, rollout>>

(***************************************************************************)
(* The client                                                               *)
(***************************************************************************)
Waits(r, t) == thread[t].by = r

(* An allocation waits for the limiter before its first attempt, and keeps  *)
(* it until the last.                                                       *)
Limited == {r \in Rollouts : rollout[r].at \in Allocating /\ rollout[r].tries > 0}

ToClose(r) ==
    CASE rollout[r].at = "closingOld" -> rollout[r].mine
      [] rollout[r].at = "evalClosing" -> rollout[r].eval
      [] OTHER -> rollout[r].agent

Send(r) ==
    /\ rollout[r].at \in Allocating \union Closing
    /\ \A t \in Threads : ~Waits(r, t)
    /\ rollout[r].at \in Allocating => r \in Limited \/ Cardinality(Limited) < MaxCreates
    /\ \E t \in Threads :
        /\ At(t, "idle") /\ \A s \in Threads : At(s, "idle") => t <= s
        /\ thread' = [thread EXCEPT ![t] =
               IF rollout[r].at \in Allocating
               THEN [Idle EXCEPT !.op = "allocate", !.stage = "queued", !.by = r]
               ELSE [Idle EXCEPT !.op = "close", !.stage = "asked", !.by = r, !.id = ToClose(r)]]
    /\ rollout' = [rollout EXCEPT ![r].tries = @ + 1]
    /\ UNCHANGED <<poolVars, healthVars, nodeVars, orphaned, events>>

EndedAtOnce(o) == [o EXCEPT !.at = "done", !.agent = 0]    \* mutated form: no finally block

(* The finally block closes what lease_id names, if anything. *)
Ended(o) == IF o.agent = 0 THEN [o EXCEPT !.at = "done"] ELSE [o EXCEPT !.at = "lastClosing"]

(* The rollout after an operation gave i, or after one that has no result. *)
Succeeded(o, i) ==
    CASE o.at = "allocating" -> [o EXCEPT !.at = "working", !.agent = i, !.mine = i]
      [] o.at = "closingOld" -> [o EXCEPT !.at = "replacing"]
      [] o.at = "replacing" -> [o EXCEPT !.at = "working", !.mine = i, !.again = TRUE]
      [] o.at = "closing" -> [o EXCEPT !.at = "evalWaiting", !.agent = 0]
      [] o.at = "evalAllocating" -> [o EXCEPT !.at = "evaluating", !.eval = i]
      [] o.at = "evalClosing" -> Ended([o EXCEPT !.eval = 0])
      [] OTHER -> [o EXCEPT !.at = "done", !.agent = 0]

(* The rollout after the last attempt failed. *)
Failed(o) ==
    CASE o.at \in {"closingOld", "replacing"} -> [o EXCEPT !.at = "working"]
      [] o.at = "closing" -> [o EXCEPT !.at = "evalWaiting"]
      [] o.at = "evalAllocating" -> Ended(o)
      [] o.at = "evalClosing" -> Ended([o EXCEPT !.eval = 0])
      [] OTHER -> [o EXCEPT !.at = "done", !.agent = 0]

Fresh(o) == [o EXCEPT !.tries = 0]

(* An attempt failed: the next one follows, or the operation has failed. *)
AttemptFails(r) ==
    rollout' = [rollout EXCEPT ![r] = IF @.tries < Tries THEN @ ELSE Fresh(Failed(@))]

GivenUp(r) ==
    IF rollout[r].tries = Tries /\ rollout[r].at \in {"evalClosing", "lastClosing"}
    THEN {ToClose(r)} ELSE {}

Hears(r, t) ==
    /\ Waits(r, t)
    /\ thread[t].stage \in {"ok", "failed"}
    /\ thread' = [thread EXCEPT ![t] = Idle]
    /\ IF At(t, "ok")
       THEN /\ rollout' = [rollout EXCEPT ![r] = Fresh(Succeeded(@, thread[t].id))]
            /\ UNCHANGED orphaned
       ELSE /\ AttemptFails(r)
            /\ orphaned' = orphaned \union GivenUp(r)
    /\ UNCHANGED <<poolVars, healthVars, nodeVars, events>>

(* Nobody waits for the call of t any more. *)
Abandoned(t) ==
    thread' = [thread EXCEPT ![t] = IF @.stage \in {"ok", "failed"} THEN Idle
                                                                    ELSE [@ EXCEPT !.by = Nobody]]
AnswerLost(t) == IF thread[t].op = "allocate" /\ At(t, "ok") THEN {thread[t].id} ELSE {}

(* The connection breaks, or the client's timeout passes. *)
Unanswered(r, t) ==
    /\ Waits(r, t)
    /\ Event
    /\ Abandoned(t)
    /\ AttemptFails(r)
    /\ orphaned' = orphaned \union GivenUp(r) \union AnswerLost(t)
    /\ UNCHANGED <<poolVars, healthVars, nodeVars>>

(***************************************************************************)
(* The rollout                                                              *)
(***************************************************************************)
Moves(r, from, to) ==
    /\ rollout[r].at = from
    /\ rollout' = [rollout EXCEPT ![r].at = to]

(* A container that was lost and cannot be rerun is replaced; at most once  *)
(* for a rollout here.                                                      *)
RestartFromBase(r) == ~rollout[r].again /\ Moves(r, "working", "closingOld")

(* The agent ends with a patch, or without. *)
AgentEnds(r) ==
    \/ Moves(r, "working", "closing")
    \/ Moves(r, "working", "lastClosing")

TakeEvalSlot(r) ==
    /\ Cardinality({q \in Rollouts : rollout[q].at \in Evaluating}) < MaxEvals
    /\ Moves(r, "evalWaiting", "evalAllocating")

Starts(r) ==
    /\ Event
    /\ Moves(r, "start", "allocating")
    /\ UNCHANGED <<thread, poolVars, healthVars, nodeVars, orphaned>>

RolloutStep(r) ==
    /\ \/ RestartFromBase(r)
       \/ AgentEnds(r)
       \/ TakeEvalSlot(r)
       \/ Moves(r, "evaluating", "evalClosing")
    /\ UNCHANGED <<thread, poolVars, healthVars, nodeVars, orphaned, events>>

(* The agent's time is up while it replaces its container. *)
CutShort(r) ==
    /\ rollout[r].at \in {"closingOld", "replacing"}
    /\ Event
    /\ rollout' = [rollout EXCEPT ![r].at = "lastClosing", ![r].tries = 0]
    /\ IF \E t \in Threads : Waits(r, t)
       THEN LET t == CHOOSE t \in Threads : Waits(r, t)
            IN  Abandoned(t) /\ orphaned' = orphaned \union AnswerLost(t)
       ELSE UNCHANGED <<thread, orphaned>>
    /\ UNCHANGED <<poolVars, healthVars, nodeVars>>

(***************************************************************************)
(* Specification                                                            *)
(***************************************************************************)
(* Nothing is left to do.  Where a rollout or a handler waits for ever, there *)
(* is a deadlock instead.                                                   *)
AllEnded ==
    /\ \A r \in Rollouts : rollout[r].at \in {"start", "done"}
    /\ thread = [t \in Threads |-> Idle]
    /\ UNCHANGED vars

Next ==
    \/ \E t \in Threads : Allocate(t) \/ Close(t)
    \/ \E i \in Ids : NodeAnswers(i)
    \/ \E n \in Nodes : ProbeSucceeds(n) \/ ProbeFails(n)
    \/ \E r \in Rollouts : Starts(r) \/ Send(r) \/ RolloutStep(r) \/ CutShort(r)
    \/ \E r \in Rollouts, t \in Threads : Hears(r, t) \/ Unanswered(r, t)
    \/ AllEnded

Spec == Init /\ [][Next]_vars

(***************************************************************************)
(* Properties                                                               *)
(***************************************************************************)
AtNode(n, stages) == {t \in Threads : thread[t].stage \in stages /\ thread[t].node = n}

(* Whatever fails, and however often a call is repeated, what the counters  *)
(* say is what is there: a node's counter is its leases, the creations it   *)
(* was picked for and the leases just closed; the pending slots and the     *)
(* permits are the allocations in their blocks.                             *)
CapacityExact ==
    /\ TypeOK
    /\ \A n \in Nodes :
        active[n] = Cardinality({i \in Leases : lease[i] = n})
                    + Cardinality(AtNode(n, {"creating", "popped"}))
    /\ MaxTotal > 0 => pending = Cardinality({t \in Threads : thread[t].stage \in SlotStages})
    /\ MaxAllocates - permits =
           Cardinality({t \in Threads : thread[t].stage \in SlotStages \union {"entered"}})

(* "global lease cap enforced at pool server" (swe-rl/README.md), also with *)
(* allocations beside each other.                                           *)
LimitsHold ==
    /\ MaxTotal > 0 => Cardinality(Leases) <= MaxTotal
    /\ NodeCap > 0 => \A n \in Nodes : active[n] <= NodeCap

(* Every container that is made or runs is leased or about to be, except    *)
(* those whose creation was given up; and one that is evaluated in is there.*)
ContainersLeased ==
    /\ \A i \in Ids : box[i] # "none" => i \in Leases \union Served \union late
    /\ \A r \in Rollouts : rollout[r].at = "evaluating" =>
           rollout[r].eval \in Leases /\ box[rollout[r].eval] = "up"

(* A lease belongs to a call in progress or to a rollout that will close    *)
(* it, unless its number got lost or its closing was given up, or it        *)
(* replaced the first one of its rollout.                                   *)
LeasesOwned ==
    Leases \subseteq orphaned \union Served \union Replacements \union UNION {Held(r) : r \in Rollouts}

(* "When the prompt completes or exits exceptionally, a `finally` path      *)
(* closes the leases" (README_EN.md): also the one that replaced the first. *)
FinallyClosesLeases ==
    \A r \in Rollouts : rollout[r].at = "done" => rollout[r].mine \notin Leases \ orphaned
=============================================================================
