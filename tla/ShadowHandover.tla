--------------------------- MODULE ShadowHandover ---------------------------
(***************************************************************************)
(* How an inference engine that dies is replaced, and how the trainer gets *)
(* its weights to the replacement.                                         *)
(*                                                                         *)
(* Each slot of the rollout manager holds a Ray actor that owns a primary  *)
(* server process and, with fast restart, a shadow that is already warm.   *)
(* A watcher thread in the actor promotes the shadow when the primary      *)
(* exits.  A health monitor thread in the manager asks for the same        *)
(* promotion after repeated failures and otherwise kills the actor and     *)
(* starts another one.  Either way the trainer's weight-update group is    *)
(* stale: the engine or the manager remembers that, and the ranks of the   *)
(* trainer reconnect at their next update_weights.                         *)
(*                                                                         *)
(* Engines have one node each.  A shadow is warm from the start, because   *)
(* the manager waits for it before it lets anything use the engine.  The   *)
(* router always answers; what it does is module SlimeRouter's.            *)
(***************************************************************************)
EXTENDS Integers, FiniteSets

CONSTANTS
    Engines,        \* slots of all_rollout_engines
    Ranks,          \* training processes that run update_weights
    Main,           \* rank 0
    Options,        \* settings a job may have, with its bound on crashes and hangs
    Threshold,      \* consecutive failed checks before the monitor acts
    MaxLaunches,    \* bound on processes launched in a slot
    MaxRollouts     \* bound on rollouts

ASSUME EnginesAreFinite == IsFiniteSet(Engines) /\ Engines # {}
ASSUME MainIsARank == Main \in Ranks
\* sglang_enable_fast_restart; offload_rollout, by which checks stop during an update; whether
\* the driver evaluates before the first rollout.
ASSUME OptionsAreSettings ==
    Options \subseteq [fast : BOOLEAN, offload : BOOLEAN, eval : BOOLEAN, faults : Nat]
\* A slot starts with two processes where there are shadows.
ASSUME BoundsArePositive ==
    /\ Threshold \in Nat \ {0}
    /\ MaxLaunches \in Nat \ {0, 1}
    /\ MaxRollouts \in Nat \ {0}

VARIABLES
    options,        \* the settings of this job
    \* engine actors
    slot,           \* "empty" (None), "starting", "up", "dead" (killed, still listed)
    actor,          \* the actor of the slot, named by its first process; 0: none
    process,        \* the process the actor serves with; 0: none
    shadow,         \* the process it would promote; 0: none
    launches,       \* processes ever launched in the slot
    alive,          \* processes that have not exited
    healthy,        \* processes that answer /health
    registered,     \* processes whose URL the router has
    pending,        \* _pending_shadow_handover_reconnect
    watching,       \* the watcher thread has not been told to stop
    promotion,      \* holder of the handover lock and how far it is
    \* rollout manager
    monitor,        \* the health monitor thread
    checking,       \* the monitor is not paused
    recovery,       \* recover_rollout_engines in each of the two threads that call it
    num_new_engines,
    pending_reconnects, \* _pending_shadow_handover_reconnects
    \* driver and trainer
    phase,          \* what the driver waits for
    rollout_id,     \* -1 before the first rollout
    rank,           \* each rank inside update_weights
    handles,        \* engines Main was given by get_rollout_engines_and_lock
    connected,      \* processes the weight-update group was built with
    begun,          \* processes in use when the update began (history)
    overtaken,      \* processes the watcher was promoting as a shutdown began (history)
    faults          \* crashes and hangs so far

actors  == <<slot, actor, process, shadow, launches, alive, healthy, registered,
             pending, watching, promotion, overtaken>>
manager == <<monitor, checking, recovery, num_new_engines, pending_reconnects>>
trainer == <<phase, rollout_id, rank, handles, connected, begun>>
vars    == <<options, actors, manager, trainer, faults>>

Pids == Engines \X (1..MaxLaunches)
PidOrNone == 0..MaxLaunches
Threads == {"monitor", "manager"}

Free == [by |-> "nobody", at |-> "free"]
Held(by, at, new) == [by |-> by, at |-> at, new |-> new]

-----------------------------------------------------------------------------
(***************************************************************************)
(* Processes                                                               *)
(***************************************************************************)

Primary(e) == <<e, process[e]>>
Shadow(e)  == <<e, shadow[e]>>

Serves(e) == slot[e] = "up" /\ Primary(e) \in healthy

\* The slots that are None, and the others.
Empty == {e \in Engines : slot[e] = "empty"}
Listed == Engines \ Empty

\* How many processes an engine launches when it is started.
Needed == IF options.fast THEN 2 ELSE 1

\* kill_process_tree.
Killed(pids) ==
    /\ alive' = alive \ pids
    /\ healthy' = healthy \ pids

Faulty == faults < options.faults /\ faults' = faults + 1

\* A server process exits, for any reason the engine has not caused.
Crash(p) ==
    /\ p \in alive
    /\ Faulty
    /\ Killed({p})
    /\ UNCHANGED <<options, slot, actor, process, shadow, launches, registered,
                   pending, watching, promotion, overtaken, manager, trainer>>

\* A server process stops answering and does not exit: only /health tells.
Hang(p) ==
    /\ p \in healthy
    /\ Faulty
    /\ healthy' = healthy \ {p}
    /\ UNCHANGED <<options, slot, actor, process, shadow, launches, alive,
                   registered, pending, watching, promotion, overtaken, manager, trainer>>

\* It was slow, or answered 503, and answers again.
Answers(p) ==
    /\ p \in alive \ healthy
    /\ healthy' = healthy \union {p}
    /\ UNCHANGED <<options, slot, actor, process, shadow, launches, alive,
                   registered, pending, watching, promotion, overtaken, manager, trainer,
                   faults>>

-----------------------------------------------------------------------------
(***************************************************************************)
(* _promote_shadow_worker_impl, under the handover lock of the engine      *)
(***************************************************************************)

\* _shadow_worker_ready_for_handover can succeed now.  It is asked again at the next poll.
ShadowReady(e) == shadow[e] # 0 /\ Shadow(e) \in healthy

\* The watcher thread, not yet told to stop, sees that the primary has exited and that its
\* shadow answers.  Nothing it does from here on looks at the stop event again.
WatcherPromotes(e) ==
    /\ slot[e] = "up" /\ watching[e]
    /\ shadow[e] # 0 /\ Primary(e) \notin alive
    /\ promotion[e] = Free
    /\ ~pending[e] /\ ShadowReady(e)
    /\ promotion' = [promotion EXCEPT ![e] = Held("watcher", "register", shadow[e])]
    /\ UNCHANGED <<options, slot, actor, process, shadow, launches, alive, healthy,
                   registered, pending, watching, overtaken, manager, trainer, faults>>

RegisterShadowLast(e) ==   \* mutated form: the old URL is removed first
    /\ promotion[e].at = "register"
    /\ registered' = registered \ {Primary(e)}
    /\ promotion' = [promotion EXCEPT ![e].at = "unregister"]
    /\ UNCHANGED <<options, slot, actor, process, shadow, launches, alive, healthy,
                   pending, watching, overtaken, manager, trainer, faults>>

RegisterShadow(e) ==
    /\ promotion[e].at = "register"
    /\ registered' = registered \union {<<e, promotion[e].new>>}
    /\ promotion' = [promotion EXCEPT ![e].at = "unregister"]
    /\ UNCHANGED <<options, slot, actor, process, shadow, launches, alive, healthy,
                   pending, watching, overtaken, manager, trainer, faults>>

UnregisterPrimary(e) ==
    /\ promotion[e].at = "unregister"
    /\ registered' = registered \ {Primary(e)}
    /\ promotion' = [promotion EXCEPT ![e].at = "switch"]
    /\ UNCHANGED <<options, slot, actor, process, shadow, launches, alive, healthy,
                   pending, watching, overtaken, manager, trainer, faults>>

\* The monitor goes on with its next engine; failures are counted from zero again.
PassedOver(e) ==
    monitor' = [monitor EXCEPT !.at = "checking", !.todo = @ \ {e},
                               !.failures[e] = 0]

SwitchProcessSilently(e) ==   \* mutated form: the handover leaves no event
    /\ promotion[e].at = "switch"
    /\ Killed({Primary(e)})
    /\ process' = [process EXCEPT ![e] = shadow[e]]
    /\ shadow' = [shadow EXCEPT ![e] = 0]
    /\ promotion' = [promotion EXCEPT ![e] = Free]
    /\ IF promotion[e].by = "monitor" THEN PassedOver(e) ELSE UNCHANGED monitor
    /\ UNCHANGED <<options, slot, actor, launches, registered, pending, watching, overtaken,
                   checking, recovery, num_new_engines, pending_reconnects, trainer, faults>>

\* The old process is killed, the shadow takes its place and the event is left for the
\* manager.  A shutdown may have taken the shadow: the thread then ends with an exception.
SwitchProcess(e) ==
    /\ promotion[e].at = "switch"
    /\ Killed({Primary(e)})
    /\ process' = [process EXCEPT ![e] = shadow[e]]
    /\ shadow' = [shadow EXCEPT ![e] = 0]
    /\ pending' = [pending EXCEPT ![e] = shadow[e] # 0]
    /\ promotion' = [promotion EXCEPT ![e] = Free]
    /\ IF promotion[e].by = "monitor" THEN PassedOver(e) ELSE UNCHANGED monitor
    /\ UNCHANGED <<options, slot, actor, launches, registered, watching, overtaken, checking,
                   recovery, num_new_engines, pending_reconnects, trainer, faults>>

-----------------------------------------------------------------------------
(***************************************************************************)
(* RolloutHealthMonitor                                                    *)
(***************************************************************************)

Monitored == UNCHANGED <<options, checking, recovery, num_new_engines,
                         pending_reconnects, trainer, faults>>

\* The pass goes over a copy of the slots: one that is None now is missing to the end of it.
StartPass ==
    /\ monitor.at = "waiting" /\ checking
    /\ monitor' = [monitor EXCEPT !.at = "checking", !.todo = Engines, !.missing = Empty,
                                  !.failed = {}]
    /\ UNCHANGED actors /\ Monitored

\* The pass is over, or cut short by a pause; what it found is dealt with in either case.
EndPass ==
    /\ monitor.at = "checking"
    /\ monitor.todo = {} \/ ~checking
    /\ monitor' = [monitor EXCEPT !.at = IF monitor.failed = {} THEN "waiting" ELSE "killing",
                                  !.todo = {}, !.missing = {}]
    /\ UNCHANGED actors /\ Monitored

\* A failed check of e: enough is what the monitor does when it has failed too often.
\* The count starts again then: a handover resets it, and so does suppression.
CountFailure(e, enough) ==
    LET n == monitor.failures[e] + 1 IN
    monitor' = IF n < Threshold
               THEN [monitor EXCEPT !.todo = @ \ {e}, !.failures[e] = n]
               ELSE [enough EXCEPT !.failures[e] = 0]

CheckEngine(e) ==
    /\ monitor.at = "checking" /\ checking /\ e \in monitor.todo
    /\ \/ /\ e \in monitor.missing
          /\ CountFailure(e, [monitor EXCEPT !.todo = @ \ {e}, !.failed = @ \union {e}])
       \/ e \notin monitor.missing /\ Serves(e) /\ PassedOver(e)
       \/ /\ e \notin monitor.missing /\ slot[e] = "up" /\ ~Serves(e)
          /\ CountFailure(e, [monitor EXCEPT !.at = "promoting", !.engine = e])
    /\ UNCHANGED actors /\ Monitored

MonitorTrustsHandover(e) ==   \* mutated form: an impossible handover counts as done
    /\ monitor.at = "promoting" /\ monitor.engine = e
    /\ promotion[e] = Free
    /\ IF ~pending[e] /\ ShadowReady(e)
       THEN /\ promotion' = [promotion EXCEPT ![e] = Held("monitor", "register", shadow[e])]
            /\ UNCHANGED monitor
       ELSE PassedOver(e) /\ UNCHANGED promotion
    /\ UNCHANGED <<slot, actor, process, shadow, launches, alive, healthy, registered,
                   pending, watching, overtaken>>
    /\ Monitored

\* _try_shadow_handover: promote_shadow_worker runs in the actor and waits for the lock.
\* Its probe may time out although the shadow answers the next one.
MonitorPromotes(e) ==
    /\ monitor.at = "promoting" /\ monitor.engine = e
    /\ promotion[e] = Free
    /\ \/ /\ pending[e]
          /\ PassedOver(e)
          /\ UNCHANGED promotion
       \/ /\ ~pending[e] /\ ShadowReady(e)
          /\ promotion' = [promotion EXCEPT ![e] = Held("monitor", "register", shadow[e])]
          /\ UNCHANGED monitor
       \/ /\ ~pending[e]
          /\ monitor' = [monitor EXCEPT !.at = "checking", !.todo = @ \ {e},
                                        !.failed = @ \union {e}]
          /\ UNCHANGED promotion
    /\ UNCHANGED <<slot, actor, process, shadow, launches, alive, healthy, registered,
                   pending, watching, overtaken>>
    /\ Monitored

\* shutdown of the next engine on the list: its watcher is told to stop, its URL removed.
\* It takes no handover lock, so a promotion that has begun goes on beside it.
ShutdownUnregisters(e) ==
    /\ monitor.at = "killing" /\ e \in monitor.failed
    /\ \/ /\ slot[e] = "empty"
          /\ monitor' = [monitor EXCEPT !.failed = @ \ {e}]
          /\ UNCHANGED <<watching, registered, overtaken>>
       \/ /\ slot[e] = "up"
          /\ watching' = [watching EXCEPT ![e] = FALSE]
          /\ registered' = registered \ {Primary(e)}
          /\ overtaken' = IF promotion[e] = Free THEN overtaken
                          ELSE overtaken \union {<<e, promotion[e].new>>}
          /\ monitor' = [monitor EXCEPT !.at = "unregistered", !.engine = e]
    /\ UNCHANGED <<slot, actor, process, shadow, launches, alive, healthy, pending,
                   promotion>>
    /\ Monitored

ShutdownKillsProcess(e) ==
    /\ monitor.at = "unregistered" /\ monitor.engine = e
    /\ Killed({Primary(e)})
    /\ monitor' = [monitor EXCEPT !.at = "killed"]
    /\ UNCHANGED <<slot, actor, process, shadow, launches, registered, pending,
                   watching, promotion, overtaken>>
    /\ Monitored

ForgetShadow(e) ==   \* mutated form: shutdown forgets the shadow
    /\ monitor.at = "killed" /\ monitor.engine = e
    /\ shadow' = [shadow EXCEPT ![e] = 0]
    /\ monitor' = [monitor EXCEPT !.at = "ended"]
    /\ UNCHANGED <<slot, actor, process, launches, alive, healthy, registered, pending,
                   watching, promotion, overtaken>>
    /\ Monitored

\* The shadow is killed too, if there still is one.
ShutdownKillsShadow(e) ==
    /\ monitor.at = "killed" /\ monitor.engine = e
    /\ Killed({Shadow(e)})
    /\ shadow' = [shadow EXCEPT ![e] = 0]
    /\ monitor' = [monitor EXCEPT !.at = "ended"]
    /\ UNCHANGED <<slot, actor, process, launches, registered, pending, watching,
                   promotion, overtaken>>
    /\ Monitored

\* Ray kills the actor, and with it the thread that held its lock.
KillActor(e) ==
    /\ monitor.at = "ended" /\ monitor.engine = e
    /\ slot' = [slot EXCEPT ![e] = "dead"]
    /\ promotion' = [promotion EXCEPT ![e] = Free]
    /\ monitor' = [monitor EXCEPT !.at = "dropping"]
    /\ UNCHANGED <<actor, process, shadow, launches, alive, healthy, registered, pending,
                   watching, overtaken>>
    /\ Monitored

\* all_rollout_engines[i] = None, a step later than the kill.
DropEngine(e) ==
    /\ monitor.at = "dropping" /\ monitor.engine = e
    /\ slot' = [slot EXCEPT ![e] = "empty"]
    /\ actor' = [actor EXCEPT ![e] = 0]
    /\ process' = [process EXCEPT ![e] = 0]
    /\ pending' = [pending EXCEPT ![e] = FALSE]
    /\ monitor' = [monitor EXCEPT !.at = "killing", !.failed = @ \ {e}]
    /\ UNCHANGED <<shadow, launches, alive, healthy, registered, watching, promotion,
                   overtaken>>
    /\ Monitored

-----------------------------------------------------------------------------
(***************************************************************************)
(* recover_rollout_engines, in the monitor's thread and in the manager's   *)
(***************************************************************************)

\* Thread w is about to call it.
CallsRecovery(w) ==
    \/ w = "monitor" /\ monitor.at = "killing" /\ monitor.failed = {}
    \/ w = "manager" /\ rank[Main].at = "recover"

\* The call of thread w returns or raises.  The monitor catches what it raises.
RecoveryReturns(w, raises) ==
    IF w = "monitor"
    THEN monitor' = [monitor EXCEPT !.at = "waiting"] /\ UNCHANGED rank
    ELSE /\ rank' = [r \in Ranks |-> [rank[r] EXCEPT !.at = IF raises THEN "failed" ELSE "get"]]
         /\ UNCHANGED monitor

\* dead_indices.
RecoveryLooks(w) ==
    /\ CallsRecovery(w) /\ recovery[w].at = "idle"
    /\ IF rollout_id = -1 \/ Empty = {}
       THEN RecoveryReturns(w, FALSE) /\ UNCHANGED recovery
       ELSE /\ recovery' = [recovery EXCEPT ![w] = [at |-> "looked", dead |-> Empty,
                                                    new |-> {}]]
            /\ UNCHANGED <<monitor, rank>>
    /\ UNCHANGED <<options, actors, checking, num_new_engines, pending_reconnects,
                   phase, rollout_id, handles, connected, begun, faults>>

\* init_rollout_engines puts an actor into every slot that is None by now.
RecoveryLaunches(w) ==
    /\ recovery[w].at = "looked"
    /\ slot' = [e \in Engines |-> IF e \in Empty THEN "starting" ELSE slot[e]]
    /\ recovery' = [recovery EXCEPT ![w].at = "launched", ![w].new = Empty]
    /\ UNCHANGED <<options, actor, process, shadow, launches, alive, healthy, registered,
                   pending, watching, promotion, overtaken, monitor, checking,
                   num_new_engines, pending_reconnects, trainer, faults>>

\* Every new actor has launched its process, registered it and launched its shadow.
Started(new) ==
    LET Processes(e) == {<<e, n>> : n \in (launches[e] + 1)..(launches[e] + Needed)} IN
    /\ \A e \in new : launches[e] + Needed <= MaxLaunches
    /\ launches' = [e \in Engines |-> IF e \in new THEN launches[e] + Needed ELSE launches[e]]
    /\ slot' = [e \in Engines |-> IF e \in new THEN "up" ELSE slot[e]]
    /\ actor' = [e \in Engines |-> IF e \in new THEN launches[e] + 1 ELSE actor[e]]
    /\ process' = [e \in Engines |-> IF e \in new THEN launches[e] + 1 ELSE process[e]]
    /\ shadow' = [e \in Engines |-> IF e \in new /\ options.fast THEN launches[e] + 2
                                    ELSE shadow[e]]
    /\ watching' = [e \in Engines |-> IF e \in new THEN options.fast ELSE watching[e]]
    /\ alive' = alive \union UNION {Processes(e) : e \in new}
    /\ healthy' = healthy \union UNION {Processes(e) : e \in new}
    /\ registered' = registered \union {<<e, launches[e] + 1>> : e \in new}
    /\ UNCHANGED <<pending, promotion, overtaken>>

\* num_new_engines is assigned, not added to; the call asserts that what it restarted is
\* as many as it had found dead.
RecoveryEnds(w) ==
    /\ recovery[w].at = "launched"
    /\ Started(recovery[w].new)
    /\ num_new_engines' = Cardinality(recovery[w].new)
    /\ RecoveryReturns(w, Cardinality(recovery[w].new) # Cardinality(recovery[w].dead))
    /\ recovery' = [recovery EXCEPT ![w] = [at |-> "idle", dead |-> {}, new |-> {}]]
    /\ UNCHANGED <<options, checking, pending_reconnects, phase, rollout_id, handles,
                   connected, begun, faults>>

-----------------------------------------------------------------------------
(***************************************************************************)
(* update_weights of the training ranks                                    *)
(***************************************************************************)

\* _collect_engine_side_shadow_handover_reconnects.  Each actor answers when its
\* lock is free; one that is dead makes the call raise, and the answers of the others are lost.
Collected ==
    LET Up == {e \in Engines : slot[e] = "up"}
        count == IF Up = Listed THEN Cardinality({e \in Up : pending[e]}) ELSE 0 IN
    /\ \A e \in Listed : slot[e] # "starting" /\ promotion[e] = Free
    /\ pending' = [e \in Engines |-> pending[e] /\ e \notin Up]
    /\ num_new_engines' = num_new_engines + count
    /\ pending_reconnects' = pending_reconnects + count
    /\ UNCHANGED <<slot, actor, process, shadow, launches, alive, healthy, registered,
                   watching, promotion, overtaken>>

\* get_rollout_engines_and_lock, which every rank calls.
GetEngines(r) ==
    /\ rank[r].at = "get"
    /\ Collected
    /\ rank' = [rank EXCEPT ![r] = [at |-> "debug", num_new |-> num_new_engines', shadows |-> 0]]
    /\ handles' = IF r = Main THEN actor ELSE handles
    /\ UNCHANGED <<options, monitor, checking, recovery, phase, rollout_id, connected,
                   begun, faults>>

\* get_weight_update_reconnect_debug_state collects once more; then the rank decides.
GetDebugState(r) ==
    /\ rank[r].at = "debug"
    /\ Collected
    /\ rank' = [rank EXCEPT
          ![r].shadows = pending_reconnects',
          ![r].at = IF rank[r].num_new > 0 THEN "connect"
                    ELSE IF pending_reconnects' > 0 THEN "failed" ELSE "send"]
    /\ UNCHANGED <<options, monitor, checking, recovery, phase, rollout_id, handles,
                   connected, begun, faults>>

AllRanks(at) == \A r \in Ranks : rank[r].at = at

Trained == UNCHANGED <<options, actors, monitor, checking, recovery, handles, begun, faults>>

\* connect_rollout_engines, by all ranks, with the actors Main was given.
Connect ==
    /\ AllRanks("connect")
    /\ IF \A e \in Engines : Serves(e) /\ actor[e] = handles[e]
       THEN /\ connected' = process
            /\ rank' = [r \in Ranks |-> [rank[r] EXCEPT !.at = IF r = Main THEN "clear" ELSE "send"]]
       ELSE /\ rank' = [r \in Ranks |-> [rank[r] EXCEPT !.at = "failed"]]
            /\ UNCHANGED connected
    /\ UNCHANGED <<num_new_engines, pending_reconnects, phase, rollout_id>>
    /\ Trained

ClearTwice ==   \* mutated form: handovers are taken off a second time
    /\ rank[Main].at = "clear"
    /\ num_new_engines' = num_new_engines - rank[Main].num_new - rank[Main].shadows
    /\ pending_reconnects' = IF rank[Main].shadows > 0 THEN 0 ELSE pending_reconnects
    /\ rank' = [rank EXCEPT ![Main].at = "send"]
    /\ UNCHANGED <<phase, rollout_id, connected>>
    /\ Trained

ClearWithoutAck ==   \* mutated form: handovers are not acknowledged
    /\ rank[Main].at = "clear"
    /\ num_new_engines' = IF num_new_engines > rank[Main].num_new
                          THEN num_new_engines - rank[Main].num_new ELSE 0
    /\ rank' = [rank EXCEPT ![Main].at = "send"]
    /\ UNCHANGED <<pending_reconnects, phase, rollout_id, connected>>
    /\ Trained

\* clear_num_new_engines with what Main was told, then the acknowledgement.
Clear ==
    /\ rank[Main].at = "clear"
    /\ num_new_engines' = IF num_new_engines > rank[Main].num_new
                          THEN num_new_engines - rank[Main].num_new ELSE 0
    /\ pending_reconnects' = IF rank[Main].shadows > 0 THEN 0 ELSE pending_reconnects
    /\ rank' = [rank EXCEPT ![Main].at = "send"]
    /\ UNCHANGED <<phase, rollout_id, connected>>
    /\ Trained

\* The weights are sent over the connections there are; an engine that does not have
\* its end of the connection raises.
Sent == \A e \in Engines : Serves(e) /\ connected[e] = process[e]

Idle == [r \in Ranks |-> [at |-> "idle", num_new |-> 0, shadows |-> 0]]

\* The driver starts the next rollout, after the first update perhaps an evaluation before it.
NextRollout ==
    IF rollout_id + 1 = MaxRollouts
    THEN phase' = "done" /\ UNCHANGED <<rollout_id, checking>>
    ELSE /\ IF rollout_id = -1 /\ options.eval /\ phase # "eval"
            THEN phase' = "eval" /\ UNCHANGED rollout_id
            ELSE phase' = "generate" /\ rollout_id' = rollout_id + 1
         /\ checking' = TRUE

SendWeights ==
    /\ AllRanks("send")
    /\ IF Sent
       THEN /\ rank' = Idle
            /\ IF options.offload
               THEN phase' = "onload" /\ UNCHANGED <<rollout_id, checking>>
               ELSE NextRollout
       ELSE /\ rank' = [r \in Ranks |-> [rank[r] EXCEPT !.at = "failed"]]
            /\ UNCHANGED <<phase, rollout_id, checking>>
    /\ UNCHANGED <<options, actors, monitor, recovery, num_new_engines, pending_reconnects,
                   handles, connected, begun, faults>>

-----------------------------------------------------------------------------
(***************************************************************************)
(* The driver                                                              *)
(***************************************************************************)

\* Requests at a worker that does not answer wait for its replacement.
AllAnswered == \A e \in Engines : \E n \in 1..MaxLaunches : <<e, n>> \in registered \intersect healthy

Driven == UNCHANGED <<options, actors, monitor, recovery, num_new_engines,
                      pending_reconnects, handles, connected, faults>>

EvaluationEnds ==
    /\ phase = "eval"
    /\ NextRollout
    /\ UNCHANGED <<rank, begun>>
    /\ Driven

\* The rollout is over; with offload_rollout the monitor is paused.
RolloutEnds ==
    /\ phase = "generate"
    /\ phase' = IF options.offload THEN "offload" ELSE "train"
    /\ checking' = (checking /\ ~options.offload)
    /\ UNCHANGED <<rollout_id, rank, begun>>
    /\ Driven

\* offload and onload call every engine that is listed and wait for all of them.  They
\* raise for a server that has exited, and wait as long as one hangs.
AllReturn == \A e \in Listed : Serves(e)
OneRaises == \E e \in Listed : slot[e] = "dead" \/ (slot[e] = "up" /\ Primary(e) \notin alive)

OffloadEnds ==
    /\ phase = "offload"
    /\ \/ AllReturn /\ phase' = "train"
       \/ OneRaises /\ phase' = "raised"
    /\ UNCHANGED <<rollout_id, checking, rank, begun>>
    /\ Driven

\* The training step ends and onload_weights returns.  Training is long: a pass the pause has
\* cut short is over by then.
TrainingEnds ==
    /\ phase = "train"
    /\ checking \/ monitor.at = "waiting"
    /\ \/ /\ options.offload => AllReturn
          /\ phase' = "update"
          /\ begun' = process
          /\ rank' = [r \in Ranks |->
                         [Idle[r] EXCEPT !.at = IF r = Main THEN "recover" ELSE "barrier"]]
       \/ /\ options.offload /\ OneRaises
          /\ phase' = "raised"
          /\ UNCHANGED <<rank, begun>>
    /\ UNCHANGED <<rollout_id, checking>>
    /\ Driven

\* onload_kv after an update.
OnloadEnds ==
    /\ phase = "onload"
    /\ \/ AllReturn /\ NextRollout
       \/ OneRaises /\ phase' = "raised" /\ UNCHANGED <<rollout_id, checking>>
    /\ UNCHANGED <<rank, begun>>
    /\ Driven

-----------------------------------------------------------------------------
Init ==
    /\ options \in Options
    /\ slot = [e \in Engines |-> "up"]
    /\ actor = [e \in Engines |-> 1]
    /\ process = [e \in Engines |-> 1]
    /\ shadow = [e \in Engines |-> IF options.fast THEN 2 ELSE 0]
    /\ launches = [e \in Engines |-> Needed]
    /\ alive = Engines \X (1..Needed)
    /\ healthy = alive
    /\ registered = Engines \X {1}
    /\ pending = [e \in Engines |-> FALSE]
    /\ watching = [e \in Engines |-> options.fast]
    /\ promotion = [e \in Engines |-> Free]
    /\ monitor = [at |-> "waiting", engine |-> CHOOSE e \in Engines : TRUE, todo |-> {},
                  missing |-> {}, failed |-> {}, failures |-> [e \in Engines |-> 0]]
    /\ checking = FALSE
    /\ recovery = [w \in Threads |-> [at |-> "idle", dead |-> {}, new |-> {}]]
    /\ num_new_engines = Cardinality(Engines)
    /\ pending_reconnects = 0
    /\ phase = "update"
    /\ rollout_id = -1
    /\ rank = [r \in Ranks |-> [Idle[r] EXCEPT !.at = IF r = Main THEN "recover" ELSE "barrier"]]
    /\ handles = actor
    /\ connected = [e \in Engines |-> 0]
    /\ begun = process
    /\ overtaken = {}
    /\ faults = 0

EngineStep(e) ==
    \/ WatcherPromotes(e)
    \/ RegisterShadow(e)
    \/ UnregisterPrimary(e)
    \/ SwitchProcess(e)

MonitorStep ==
    \/ StartPass
    \/ EndPass
    \/ \E e \in Engines :
          \/ CheckEngine(e)
          \/ MonitorPromotes(e)
          \/ ShutdownUnregisters(e)
          \/ ShutdownKillsProcess(e)
          \/ ShutdownKillsShadow(e)
          \/ KillActor(e)
          \/ DropEngine(e)

RecoveryStep(w) == RecoveryLooks(w) \/ RecoveryLaunches(w) \/ RecoveryEnds(w)

RankStep(r) == GetEngines(r) \/ GetDebugState(r)

Next ==
    \/ \E p \in Pids : Crash(p) \/ Hang(p) \/ Answers(p)
    \/ \E e \in Engines : EngineStep(e)
    \/ MonitorStep
    \/ \E w \in Threads : RecoveryStep(w)
    \/ \E r \in Ranks : RankStep(r)
    \/ Connect
    \/ Clear
    \/ SendWeights
    \/ EvaluationEnds
    \/ RolloutEnds
    \/ OffloadEnds
    \/ TrainingEnds
    \/ OnloadEnds

Spec == Init /\ [][Next]_vars

\* Every thread goes on while it can, and so does a rollout as long as every worker answers.
Fairness ==
    /\ \A e \in Engines : WF_vars(EngineStep(e))
    /\ WF_vars(MonitorStep)
    /\ \A w \in Threads : WF_vars(RecoveryStep(w))
    /\ \A r \in Ranks : WF_vars(RankStep(r))
    /\ WF_vars(Connect) /\ WF_vars(Clear) /\ WF_vars(SendWeights)
    /\ WF_vars(AllAnswered /\ (EvaluationEnds \/ RolloutEnds))
    /\ WF_vars(OffloadEnds) /\ WF_vars(TrainingEnds) /\ WF_vars(OnloadEnds)

FairSpec == Spec /\ Fairness

-----------------------------------------------------------------------------
(***************************************************************************)
(* Properties                                                              *)
(***************************************************************************)

\* Type invariant.
TypeOK ==
    /\ options \in Options
    /\ slot \in [Engines -> {"empty", "starting", "up", "dead"}]
    /\ actor \in [Engines -> PidOrNone]
    /\ process \in [Engines -> PidOrNone]
    /\ shadow \in [Engines -> PidOrNone]
    /\ launches \in [Engines -> PidOrNone]
    /\ alive \subseteq Pids
    /\ healthy \subseteq alive
    /\ registered \subseteq Pids
    /\ pending \in [Engines -> BOOLEAN]
    /\ watching \in [Engines -> BOOLEAN]
    /\ promotion \in [Engines -> {Free} \union
          [by : {"watcher", "monitor"}, at : {"register", "unregister", "switch"},
           new : 1..MaxLaunches]]
    /\ overtaken \subseteq Pids
    /\ monitor \in [at : {"waiting", "checking", "promoting", "killing", "unregistered",
                          "killed", "ended", "dropping"},
                    engine : Engines, todo : SUBSET Engines, missing : SUBSET Engines,
                    failed : SUBSET Engines,
                    failures : [Engines -> 0..(Threshold - 1)]]
    /\ checking \in BOOLEAN
    /\ recovery \in [Threads -> [at : {"idle", "looked", "launched"},
                                 dead : SUBSET Engines, new : SUBSET Engines]]
    /\ num_new_engines \in Nat
    /\ pending_reconnects \in Nat
    /\ phase \in {"update", "onload", "eval", "generate", "offload", "train", "done", "raised"}
    /\ rollout_id \in -1..(MaxRollouts - 1)
    /\ rank \in [Ranks -> [at : {"idle", "recover", "barrier", "get", "debug", "connect",
                                "clear", "send", "failed"},
                           num_new : Nat, shadows : Nat]]
    /\ handles \in [Engines -> PidOrNone]
    /\ connected \in [Engines -> PidOrNone]
    /\ begun \in [Engines -> PidOrNone]
    /\ faults \in 0..options.faults

ShuttingDown(e) == monitor.at \in {"unregistered", "killed", "ended"} /\ monitor.engine = e

\* The router always has a URL of an engine that is not being shut down, through
\* every step of a handover, and never one of a process the engine has given up
\* (_promote_shadow_worker_impl registers before it removes; shutdown).  Only a promotion
\* that the watcher had begun when a shutdown came may leave the URL of its shadow: shutdown
\* takes no handover lock.
RoutedToOwner ==
    \A e \in Engines :
        LET urls == {n \in 1..MaxLaunches : <<e, n>> \in registered \ overtaken} IN
        IF slot[e] # "up" \/ ShuttingDown(e) THEN urls = {}
        ELSE IF promotion[e] = Free THEN urls = {process[e]}
        ELSE urls # {} /\ urls \subseteq {process[e], shadow[e]}

\* A server process that lives belongs to an actor that is listed: no handover, shutdown or
\* restart leaves one behind, whoever of the watcher and the monitor comes first and however
\* often a probe fails and succeeds later.  Only the shadow of a promotion that the
\* watcher had begun when a shutdown came may live on, and that one is still routed to.
NoStrayServer ==
    \A p \in alive :
        \/ slot[p[1]] = "up" /\ p[2] \in {process[p[1]], shadow[p[1]]}
        \/ p \in overtaken \intersect registered

\* When all ranks send weights, the group has been built with every engine that has not
\* been replaced since the update began: no handover or restart before it is forgotten
\* (clear_num_new_engines takes off what it was told; the marks of recover_rollout_engines).
\* Where the monitor goes on during an update, its recovery may assign over what was counted.
UpdateReachesAll ==
    options.offload /\ AllRanks("send") =>
        \A e \in Engines : slot[e] = "up" /\ process[e] = begun[e] => connected[e] = process[e]

\* Between updates, a handover that waits to be acknowledged is backed by a count that makes
\* the next update reconnect; otherwise that update raises "Shadow handover requires a
\* weight-update reconnect".  The same exception.
ObligationBacked ==
    options.offload /\ phase # "update" /\ pending_reconnects > 0 => num_new_engines > 0

\* Memory is being released or resumed, with no timeout and the monitor paused, and a server
\* hangs.
HeldUp ==
    /\ options.offload /\ phase \in {"offload", "train", "onload"}
    /\ \E e \in Engines : slot[e] = "up" /\ Primary(e) \in alive \ healthy

\* The job cannot go on: it is over, the driver or a rank has raised, the driver is held up, or
\* ranks wait for each other because they were told different counts.
JobStopped ==
    \/ phase \in {"done", "raised"}
    \/ HeldUp
    \/ \E r \in Ranks : rank[r].at = "failed"
    \/ \E r, s \in Ranks : rank[r].at = "connect" /\ rank[s].at = "send"

\* From the first rollout on, an engine that stops answering is handed over or answers
\* again, unless the job stops (the watcher, the monitor and its recovery together).
DeadIsReplaced ==
    \A e \in Engines :
        (slot[e] = "up" /\ ~Serves(e) /\ ~pending[e] /\ rollout_id # -1)
            ~> (pending[e] \/ Serves(e) \/ JobStopped)

\* The same of an engine that has been handed over and stops answering before the next
\* update collects the event.
SecondFailureIsReplaced ==
    \A e \in Engines :
        (slot[e] = "up" /\ ~Serves(e) /\ rollout_id # -1) ~> (Serves(e) \/ JobStopped)
=============================================================================
