--------------------------- MODULE ContainerPool ---------------------------
(***************************************************************************)
(* The warm containers of one exec node (class ContainerPool of             *)
(* swe_exec_server.py) and the handlers that call it: /container/create,    *)
(* /container/destroy and the injection of a fault.                         *)
(*                                                                         *)
(* A request of this module is one environment: it is created, used by      *)
(* whoever asked for it, and destroyed.  The pool is enabled.               *)
(***************************************************************************)
EXTENDS Naturals, FiniteSets, SequencesExt

CONSTANTS
    Requests,       \* environments asked for
    Wanted,         \* the image each of them wants
    Containers,     \* identities of docker containers, numbers
    NoContainer,
    Images,
    NoImage,
    PrewarmImages,  \* _prewarm_images, a sequence that may repeat an image
    PerImage,       \* pool_max_size_per_image
    TotalCap,       \* _effective_total_cap(); 0 is none
    MaxRestarts,    \* bound: restarts of the exec server
    MaxFaults       \* bound: docker commands that exceed their timeout and
                    \* containers that die

ASSUME ConfigAssumption ==
    /\ Wanted \in [Requests -> Images]
    /\ PrewarmImages \in Seq(Images)
    /\ {PerImage, TotalCap, MaxRestarts, MaxFaults} \subseteq Nat
    /\ Containers \subseteq Nat
    /\ NoContainer \notin Containers
    /\ NoImage \notin Images
    /\ IsFiniteSet(Images)

VARIABLES
    pc,             \* where the handler of an environment is
    cont,           \* the container it has in hand
    docker,         \* the image a running container was made from, or NoImage
    idle,           \* _idle_by_image (its members are the keys of _idle_meta)
    prewarm,        \* [queue, pending, by, next]: _prewarm_queue, the two
                    \* pending counts, and _prewarm_rr_index modulo its range
    worker,         \* the image the prewarm thread is making, or NoImage
    active,         \* _active_containers
    abandoned,      \* history: running, and nobody knows of it any more
    inUse,          \* history: handed out since the restart, not given back
    restarts, faults \* counted for the bounds

bounds == <<restarts, faults>>
vars == <<pc, cont, docker, idle, prewarm, worker, active, abandoned, inUse, bounds>>

Creating == {"popping", "checking", "making", "acquired"}
Holding == {"given", "released", "faulting"}

Running == {c \in Containers : docker[c] # NoImage}
Warm == UNION {ToSet(idle[i]) : i \in Images}
InHand == {cont[r] : r \in Requests} \ {NoContainer}

TypeOK ==
    /\ pc \in [Requests -> {"new", "refused", "gone"} \union Creating \union Holding]
    /\ cont \in [Requests -> Containers \union {NoContainer}]
    /\ docker \in [Containers -> Images \union {NoImage}]
    /\ idle \in [Images -> Seq(Containers)]
    /\ \A i \in Images : IsInjective(idle[i])
    /\ prewarm \in [queue : Seq(Images), pending : Nat, by : [Images -> Nat], next : Nat]
    /\ worker \in Images \union {NoImage}
    /\ active \subseteq Containers
    /\ abandoned \subseteq Running
    /\ inUse \subseteq Containers
    /\ restarts \in 0..MaxRestarts
    /\ faults \in 0..MaxFaults

(***************************************************************************)
(* Refilling                                                                *)
(***************************************************************************)

(* _enqueue_prewarm_unlocked: one more container to make, of the preferred  *)
(* image if it may have one, else of the next image in turn that may.       *)
(* Containers popped and not yet tracked are in none of the three counts.   *)
Enqueue(p, idl, act, preferred) ==
    LET known == Cardinality(UNION {ToSet(idl[i]) : i \in Images}) + p.pending + Cardinality(act)
        fits(i) == Len(idl[i]) + p.by[i] < PerImage
        n == Len(PrewarmImages)
        turn(k) == PrewarmImages[((p.next + k - 1) % n) + 1]
        turns == {k \in 1..n : fits(turn(k))}
        add(i, next) == [queue |-> Append(p.queue, i), pending |-> p.pending + 1,
                         by |-> [p.by EXCEPT ![i] = @ + 1], next |-> next]
    IN  IF TotalCap > 0 /\ known >= TotalCap THEN p
        ELSE IF preferred \in ToSet(PrewarmImages) /\ fits(preferred) THEN add(preferred, p.next)
        ELSE IF turns = {} THEN p
        ELSE add(turn(Min(turns)), (p.next + Min(turns)) % n)

(* while self._enqueue_prewarm_unlocked(): pass *)
Fill(p, idl, act) ==
    LET filled[k \in 0..(PerImage * Cardinality(Images))] ==
            IF k = 0 THEN p ELSE Enqueue(filled[k - 1], idl, act, NoImage)
    IN  filled[PerImage * Cardinality(Images)]

NothingPending == [queue |-> <<>>, pending |-> 0, by |-> [i \in Images |-> 0], next |-> 0]

(* One creation of the prewarm thread has ended, well or not. *)
Resolved(i) == [prewarm EXCEPT !.pending = IF @ > 0 THEN @ - 1 ELSE 0,
                               !.by[i] = IF @ > 0 THEN @ - 1 ELSE 0]

(* docker run gives an identity nobody has; which one does not matter, so   *)
(* it is the least.                                                         *)
Free == {c \in Containers : docker[c] = NoImage} \ (Warm \union active \union InHand \union inUse)
Fresh(c) == Free # {} /\ c = Min(Free)

Init ==
    /\ pc = [r \in Requests |-> "new"]
    /\ cont = [r \in Requests |-> NoContainer]
    /\ docker = [c \in Containers |-> NoImage]
    /\ idle = [i \in Images |-> <<>>]
    /\ prewarm = Fill(NothingPending, [i \in Images |-> <<>>], {})
    /\ worker = NoImage
    /\ active = {}
    /\ abandoned = {}
    /\ inUse = {}
    /\ restarts = 0
    /\ faults = 0

Goes(r, state, c) ==
    /\ pc' = [pc EXCEPT ![r] = state]
    /\ cont' = [cont EXCEPT ![r] = c]

(* A docker command exceeds its timeout (subprocess.run raises), or a       *)
(* container dies.                                                          *)
Fault ==
    /\ faults < MaxFaults
    /\ faults' = faults + 1
    /\ UNCHANGED restarts

(* A container stops and is removed. *)
Gone(c) ==
    /\ docker' = [docker EXCEPT ![c] = NoImage]
    /\ abandoned' = abandoned \ {c}

(***************************************************************************)
(* /container/create: acquire                                               *)
(***************************************************************************)
Ask(r) ==
    /\ pc[r] = "new"
    /\ Goes(r, "popping", NoContainer)
    /\ UNCHANGED <<docker, idle, prewarm, worker, active, abandoned, inUse, bounds>>

PopIdleLeaves(r) ==             \* mutated form: the container stays idle
    /\ pc[r] = "popping"
    /\ idle[Wanted[r]] # <<>>
    /\ Goes(r, "checking", Head(idle[Wanted[r]]))
    /\ UNCHANGED <<docker, idle, prewarm, worker, active, abandoned, inUse, bounds>>

(* _pop_idle_candidate *)
PopIdle(r) ==
    /\ pc[r] = "popping"
    /\ idle[Wanted[r]] # <<>>
    /\ Goes(r, "checking", Head(idle[Wanted[r]]))
    /\ idle' = [idle EXCEPT ![Wanted[r]] = Tail(@)]
    /\ UNCHANGED <<docker, prewarm, worker, active, abandoned, inUse, bounds>>

(* A warm miss asks for one more warm container and makes its own. *)
Miss(r) ==
    /\ pc[r] = "popping"
    /\ idle[Wanted[r]] = <<>>
    /\ prewarm' = Enqueue(prewarm, idle, active, Wanted[r])
    /\ Goes(r, "making", NoContainer)
    /\ UNCHANGED <<docker, idle, worker, active, abandoned, inUse, bounds>>

Healthy(r) ==
    /\ pc[r] = "checking"
    /\ docker[cont[r]] # NoImage
    /\ prewarm' = Enqueue(prewarm, idle, active, Wanted[r])
    /\ Goes(r, "acquired", cont[r])
    /\ UNCHANGED <<docker, idle, worker, active, abandoned, inUse, bounds>>

UnhealthyForgets(r) ==          \* mutated form: the container is not destroyed
    /\ pc[r] = "checking"
    /\ Goes(r, "popping", NoContainer)
    /\ UNCHANGED <<docker, idle, prewarm, worker, active, abandoned, inUse, bounds>>

(* The container has gone, or it runs and its probe fails: it is destroyed. *)
Unhealthy(r) ==
    /\ pc[r] = "checking"
    /\ Gone(cont[r])
    /\ Goes(r, "popping", NoContainer)
    /\ UNCHANGED <<idle, prewarm, worker, active, inUse, bounds>>

(* The check or the destruction raises, and nobody remembers the container  *)
(* that was popped.                                                         *)
CheckHangs(r) ==
    /\ pc[r] = "checking"
    /\ Fault
    /\ abandoned' = abandoned \union ({cont[r]} \intersect Running)
    /\ Goes(r, "refused", NoContainer)
    /\ UNCHANGED <<docker, idle, prewarm, worker, active, inUse>>

Make(r) ==
    /\ pc[r] = "making"
    /\ \E c \in Containers :
        /\ Fresh(c)
        /\ docker' = [docker EXCEPT ![c] = Wanted[r]]
        /\ Goes(r, "acquired", c)
    /\ UNCHANGED <<idle, prewarm, worker, active, abandoned, inUse, bounds>>

MakeFails(r) ==
    /\ pc[r] = "making"
    /\ Goes(r, "refused", NoContainer)
    /\ UNCHANGED <<docker, idle, prewarm, worker, active, abandoned, inUse, bounds>>

(* docker run is cut off, and the daemon starts the container all the same. *)
MakeHangs(r) ==
    /\ pc[r] = "making"
    /\ Fault
    /\ \E c \in Containers :
        /\ Fresh(c)
        /\ docker' = [docker EXCEPT ![c] = Wanted[r]]
        /\ abandoned' = abandoned \union {c}
    /\ Goes(r, "refused", NoContainer)
    /\ UNCHANGED <<idle, prewarm, worker, active, inUse>>

(* container_create enters the container under _lock and answers. *)
Track(r) ==
    /\ pc[r] = "acquired"
    /\ active' = active \union {cont[r]}
    /\ inUse' = inUse \union {cont[r]}
    /\ Goes(r, "given", cont[r])
    /\ UNCHANGED <<docker, idle, prewarm, worker, abandoned, bounds>>

(***************************************************************************)
(* /container/destroy: release                                              *)
(***************************************************************************)
(* docker rm, and a refill that looks at a count that still includes the    *)
(* container.                                                               *)
Release(r) ==
    /\ pc[r] = "given"
    /\ cont[r] \in active
    /\ Gone(cont[r])
    /\ prewarm' = Enqueue(prewarm, idle, active, Wanted[r])
    /\ Goes(r, "released", cont[r])
    /\ UNCHANGED <<idle, worker, active, inUse, bounds>>

Untrack(r) ==
    /\ pc[r] = "released"
    /\ active' = active \ {cont[r]}
    /\ inUse' = inUse \ {cont[r]}
    /\ Goes(r, "gone", NoContainer)
    /\ UNCHANGED <<docker, idle, prewarm, worker, abandoned, bounds>>

(* A container the node does not list as active is removed outside the pool. *)
RemoveUnknown(r) ==
    /\ pc[r] = "given"
    /\ cont[r] \notin active
    /\ Gone(cont[r])
    /\ inUse' = inUse \ {cont[r]}
    /\ Goes(r, "gone", NoContainer)
    /\ UNCHANGED <<idle, prewarm, worker, active, bounds>>

(* _release_container_for_fault stops an active container and forgets it,   *)
(* also when docker rm fails.                                               *)
FaultKills(r) ==
    /\ pc[r] = "given"
    /\ cont[r] \in active
    /\ \/ /\ Gone(cont[r])
          /\ prewarm' = Enqueue(prewarm, idle, active, Wanted[r])
          /\ UNCHANGED bounds
       \/ /\ Fault
          /\ UNCHANGED <<docker, prewarm, abandoned>>
    /\ Goes(r, "faulting", cont[r])
    /\ UNCHANGED <<idle, worker, active, inUse>>

FaultUntracks(r) ==
    /\ pc[r] = "faulting"
    /\ active' = active \ {cont[r]}
    /\ Goes(r, "given", cont[r])
    /\ UNCHANGED <<docker, idle, prewarm, worker, abandoned, inUse, bounds>>

(***************************************************************************)
(* The prewarm thread                                                       *)
(***************************************************************************)
TakeNext ==
    /\ worker = NoImage
    /\ prewarm.queue # <<>>
    /\ worker' = Head(prewarm.queue)
    /\ prewarm' = [prewarm EXCEPT !.queue = Tail(@)]
    /\ UNCHANGED <<pc, cont, docker, idle, active, abandoned, inUse, bounds>>

WakeUpOnly ==                   \* mutated form: waits for a notification alone
    /\ worker = NoImage
    /\ prewarm.queue = <<>>
    /\ UNCHANGED vars

(* With nothing queued the thread wakes every second and refills. *)
WakeUp ==
    /\ worker = NoImage
    /\ prewarm.queue = <<>>
    /\ prewarm' = Fill(prewarm, idle, active)
    /\ UNCHANGED <<pc, cont, docker, idle, worker, active, abandoned, inUse, bounds>>

PrewarmMade ==
    /\ worker # NoImage
    /\ \E c \in Containers :
        /\ Fresh(c)
        /\ docker' = [docker EXCEPT ![c] = worker]
        /\ idle' = [idle EXCEPT ![worker] = Append(@, c)]
    /\ prewarm' = Fill(Resolved(worker), idle', active)
    /\ worker' = NoImage
    /\ UNCHANGED <<pc, cont, active, abandoned, inUse, bounds>>

PrewarmFailsUncounted ==        \* mutated form: the pending count is left
    /\ worker # NoImage
    /\ prewarm' = Fill(prewarm, idle, active)
    /\ worker' = NoImage
    /\ UNCHANGED <<pc, cont, docker, idle, active, abandoned, inUse, bounds>>

PrewarmFails ==
    /\ worker # NoImage
    /\ prewarm' = Fill(Resolved(worker), idle, active)
    /\ worker' = NoImage
    /\ UNCHANGED <<pc, cont, docker, idle, active, abandoned, inUse, bounds>>

PrewarmHangs ==
    /\ worker # NoImage
    /\ Fault
    /\ \E c \in Containers :
        /\ Fresh(c)
        /\ docker' = [docker EXCEPT ![c] = worker]
        /\ abandoned' = abandoned \union {c}
    /\ prewarm' = Fill(Resolved(worker), idle, active)
    /\ worker' = NoImage
    /\ UNCHANGED <<pc, cont, idle, active, inUse>>

(***************************************************************************)
(* Faults                                                                   *)
(***************************************************************************)
Dies(c) ==
    /\ docker[c] # NoImage
    /\ Fault
    /\ Gone(c)
    /\ UNCHANGED <<pc, cont, idle, prewarm, worker, active, inUse>>

(* _sync_existing_prewarmed_containers at a start, when nothing else runs:  *)
(* what docker ps lists is adopted in its order, if its image is one of     *)
(* those to be warmed, the caps allow it and the health check passes.       *)
Adoptable == {c \in Running : docker[c] \in ToSet(PrewarmImages)}

(* The exec server dies and starts again: its handlers and its dictionaries *)
(* are gone, the containers run on.                                         *)
Restart ==
    /\ restarts < MaxRestarts
    /\ restarts' = restarts + 1
    /\ idle' \in [Images -> BoundedSeq(Adoptable, PerImage)]
    /\ \A i \in Images : IsInjective(idle'[i]) /\ \A c \in ToSet(idle'[i]) : docker[c] = i
    /\ TotalCap > 0 => Cardinality(Warm') <= TotalCap
    /\ prewarm' = Fill(NothingPending, idle', {})
    /\ abandoned' = Running \ (Warm' \union {cont[r] : r \in {q \in Requests : pc[q] \in Holding}})
    /\ worker' = NoImage
    /\ active' = {}
    /\ inUse' = {}
    /\ pc' = [r \in Requests |-> CASE pc[r] \in Creating -> "refused"
                                   [] pc[r] \in Holding -> "given"
                                   [] OTHER -> pc[r]]
    /\ cont' = [r \in Requests |-> IF pc[r] \in Creating THEN NoContainer ELSE cont[r]]
    /\ UNCHANGED <<docker, faults>>

(***************************************************************************)
(* Specification                                                            *)
(***************************************************************************)
Create(r) ==
    \/ Ask(r) \/ PopIdle(r) \/ Miss(r) \/ Healthy(r) \/ Unhealthy(r) \/ CheckHangs(r)
    \/ Make(r) \/ MakeFails(r) \/ MakeHangs(r) \/ Track(r)

Destroy(r) ==
    \/ Release(r) \/ Untrack(r) \/ RemoveUnknown(r)
    \/ FaultKills(r) \/ FaultUntracks(r)

PrewarmLoop == TakeNext \/ WakeUp \/ PrewarmMade \/ PrewarmFails \/ PrewarmHangs

Next ==
    \/ \E r \in Requests : Create(r) \/ Destroy(r)
    \/ PrewarmLoop
    \/ \E c \in Containers : Dies(c)
    \/ Restart

Spec == Init /\ [][Next]_vars

(* Every handler and the prewarm thread go on; docker does not refuse the   *)
(* creations of warm containers for ever, nor fail the probe of running     *)
(* ones for ever.                                                           *)
Fairness ==
    /\ \A r \in Requests :
        /\ WF_vars(Create(r))
        /\ SF_vars(Healthy(r))
        /\ WF_vars(Untrack(r) \/ FaultUntracks(r))
    /\ WF_vars(TakeNext)
    /\ WF_vars(WakeUp)
    /\ SF_vars(PrewarmMade)

FairSpec == Spec /\ Fairness

(***************************************************************************)
(* Properties                                                               *)
(***************************************************************************)
(* Every container that runs is warm, active or in somebody's hands, except *)
(* those a docker command was given up on or that a restart did not adopt:  *)
(* no error path of acquire or of the prewarm thread loses one, and no      *)
(* discarded container is left running.                                     *)
ContainersKnown == Running \subseteq Warm \union active \union InHand \union abandoned

(* The pending counts are what is queued or being made, for the node and    *)
(* for every image, and warm and pending containers stay within both caps,  *)
(* although they are counted under one lock and made outside it.            *)
WarmCounted ==
    /\ TypeOK
    /\ prewarm.pending = Len(prewarm.queue) + (IF worker = NoImage THEN 0 ELSE 1)
    /\ TotalCap > 0 => Cardinality(Warm) + prewarm.pending <= TotalCap
    /\ \A i \in Images :
        /\ prewarm.by[i] = Cardinality({k \in DOMAIN prewarm.queue : prewarm.queue[k] = i})
                           + (IF worker = i THEN 1 ELSE 0)
        /\ Len(idle[i]) + prewarm.by[i] <= PerImage

(* "each warmed container is used at most once ... This avoids reusing      *)
(* mutated containers" (docs/en/container_pool.md): no two environments     *)
(* have the same container.                                                 *)
UsedAtMostOnce ==
    \A r, s \in Requests : cont[r] = cont[s] /\ cont[r] # NoContainer => r = s

(* Whatever capacity becomes free, also between the refill of a release and *)
(* the removal from the active containers, in the end the pool is as full   *)
(* as its caps allow and nothing is pending, provided docker has not        *)
(* reached its own limit (Containers).                                      *)
PoolIsFull == prewarm.pending = 0 /\ Fill(prewarm, idle, active) = prewarm

PoolRefills == <>[](Free # {}) => <>[]PoolIsFull

(* To the env pool all this looks like ContainerSupply: every request is    *)
(* answered, and without a restart no two hold the same container.          *)
Answer(r) ==
    CASE pc[r] = "new" -> "none"
      [] pc[r] \in Creating -> "asked"
      [] pc[r] = "refused" -> "refused"
      [] pc[r] = "gone" -> "closed"
      [] OTHER -> "given"

Supply == INSTANCE ContainerSupply WITH
    answer <- [r \in Requests |-> Answer(r)],
    held <- [r \in Requests |-> IF pc[r] \in Holding THEN cont[r] ELSE NoContainer]

ImplementsSupply == Supply!Spec
=============================================================================
