# A TLA+ verification of Belayer's control code

Belayer makes reinforcement learning of coding agents survive faults. A *rollout* lets a language
model act in a docker container (a SWE environment) for many steps; Belayer checkpoints the
containers, schedules how many run at a time, and restarts inference engines without losing what
they have generated. This directory models the mechanisms that are the project's own (as opposed
to the vendored Megatron-LM, sglang and mini-swe-agent trees), checks them with TLC and proves the
safety of most of them with TLAPS. `src/README_EN.md` chapters 3, 4 and 5 describe most of them.

    PROJECT.json             components, runs, mutants, map from definitions to source lines,
                             hazards, findings, theorems
    DockerGates.tla          sections and container gates of an exec node
    EnvCheckpoint.tla        checkpoints, leases, reruns and garbage collection
    ContainerSupply.tla      what an exec node promises about the containers it hands out
    ContainerPool.tla        warm containers of an exec node, which implement it
    EnvPool.tla              leases, node capacity and health; the rollouts that ask and close
    RolloutRewind.tla        one trajectory: its transcript, its container, faults and rewinds
    PromptScheduler.tla      admission of prompts by predicted demand
    SlimeRouter.tla          the router between rollouts and inference engines
    ShadowHandover.tla       replacement of engines that fail, and reconnection of the trainer
    <module>_proofs.tla      theorems about a module: DockerGates, EnvCheckpoint, EnvPool,
                             ContainerPool, RolloutRewind, PromptScheduler, SlimeRouter,
                             ShadowHandover
    MC<module>.tla           values of constants and symmetry for TLC
    <module>_<run>.cfg       one configuration for each run

## 1. The system

### Components and their state

| Component | Source (under `src/`) | State | Operations |
|---|---|---|---|
| Exec node, sections and gates | `swe-rl/server/swe_exec_server.py` 58-580 | per container: active and waiting execs, an exclusive flag; per node: foreground count, maintenance flag, running creations | exec, checkpoint create, destroy, rerun, fault injection, GC, evaluate |
| Exec node, checkpoints | same, 780-1080, 2270-4560 | checkpoint records (`runtime.json` and record files), artifacts (images or directories), queue of the dispatcher, queued collections | create, status, list, delete, GC, rerun, restart of the node |
| Exec node, warm pool | same, 2438-2793 | idle containers, prewarm queue, pending creations per image and in all, active containers | acquire, release, prewarm, adopt, refill |
| Env pool | `swe-rl/server/swe_env_pool_server.py` | leases (node, container, generation, latest checkpoint, lifecycle lock), node counters and health, pending allocations, allocation permits | allocate, exec, evaluate, checkpoint, rerun, close, health checks |
| Rollout | `swe-rl/generate_with_swe_remote.py`, `swe-rl/swe_env_client.py` | `checkpoint_state`, lease ids, step cursor, messages, step debug, contexts, texts, PRM tasks; creation limiter, evaluation slots | model and container steps, faults, recovery, base restart, evaluation, retried calls |
| Scheduler | `swe-rl/online_env_docker_scheduler.py` | pending and active prompts, reserved demand, budget, caps | admit, finish, refresh |
| Router | `slime/slime/router/router.py` | registered URLs with counts, stable keys and registration sequences; per request a reservation, tokens and token checkpoint | add and remove worker, generate, nonstream, proxy, v1 |
| Engine and shadow | `slime/slime/backends/sglang_utils/sglang_engine.py` | process, shadow process, handover lock, pending reconnection | init, promote shadow, watcher, shutdown |
| Health monitor | `slime/slime/utils/health_monitor.py` | consecutive failures, suppressed groups | check, hand over, kill and recover |
| Rollout manager and trainers | `slime/slime/ray/rollout.py`, `.../megatron_utils/actor.py`, `.../fsdp_utils/actor.py` | engine slots, counts of new engines, update groups | recover, collect and acknowledge reconnections |
| Parameter server | `checkpoint-engine/checkpoint_engine/persistent_ps.py` | weights in host memory | load, update, serve |

`PROJECT.json` lists every component, also those left out, with the reason.

### How they interact

    rollout --admit/finish--> scheduler                    (one process, asyncio condition)
       |  --allocate/exec/checkpoint/rerun/close--> env pool --HTTP--> exec node --> docker
       |                                                (threads, one lifecycle lock a lease)
       `--/generate--> router --HTTP stream--> engine (primary | shadow)
                          ^--add_worker/remove_worker-- engine watcher, health monitor

What is hard here:

* **Interleaving.** The exec node serves every request in a thread and nests three kinds of
  sections. Collections are planned in one request and carried out later in the background. Router
  and scheduler are single event loops, with state read before an await and used after.
* **Late, lost and repeated calls.** The pool stops waiting for a node whose handler goes on; the
  rollout stops waiting for the pool and asks again, beside the handler that still runs; an engine
  goes away in any state of a request.
* **Crashes.** The exec server is restarted between any two steps and reads its records again.
* **Incarnations.** A container is replaced under the same lease, an engine under the same key,
  possibly with the same URL; what is late refers to the old one.
* **Two rescuers.** A dead engine is found by its own watcher and by the manager's monitor, whose
  probes of the same shadow may answer differently; what they did reaches the trainer through
  events that are collected, counted and acknowledged in different calls.
* **Bounds.** Creation slots, admission caps, budgets in floating point, token limits.

### What makes each correct

* Gates: no commit or removal beside an exec of the container, no exec in a stopped source, no
  collection beside docker work, bounded creations, execs first, and every request answered.
* Checkpoints: what a rollout or a lineage may still need is kept, no container without an owner,
  a new container before the old one goes, pending checkpoints end.
* Warm pool: a container has one holder, every running one is known, pending creations and caps
  are exact whatever fails, every request is answered, and the pool fills up again.
* Env pool: counters equal leases, limits hold beside concurrent allocations, every container has
  a lease and every lease somebody who will close it.
* Trajectory: the container is in the state its transcript tells, whichever checkpoint was
  restored and however often it was rewound; lists and cursor agree; it ends.
* Scheduler: what is reserved is what is admitted, caps and budget hold at each admission, order
  where it is asked for, every prompt admitted and every reservation returned.
* Router: exact load, no return to a failed incarnation, token text without gaps or doubles over
  attempts, bounded loss, limits, and every request ended.
* Handover: the router and the weight update follow the process an engine serves with, no server
  outlives its owner (but for one race of watcher and shutdown, see the divergences), no handover
  is forgotten or left without a reconnection, and a dead engine is replaced.

## 2. Modules and their correspondence to the code

### DockerGates

One exec node. `pc[r]` is where the thread of request `r` is; each action is one critical section
of a condition variable (`ExecEnter`, `ExecWake`, `ExclusiveEnter`, `ForegroundEnter`,
`CommitSlotEnter`, `MaintenanceEnter`, ... and their releases), one docker step (`ExecFinish`,
`CommitSucceeds`, `CommitFails`, `RemoveFinish`, `FaultKill`, ...) or one block under `_lock`
(`Untrack`, `DropGate`, `SwapActive`). A gate is a Python object found in a dictionary and dropped
from it with its container, so `gate[r]` is the object the request looked up and may differ from
`gates[c]`; a container can have two gates, and the proofs have to rule that out. Waiting is an
action that is not enabled; `notify_all` is implicit, since every wait of the code is in a loop
that tests its condition again. A container id is never used twice. Gate objects are taken from
the finite set `Gates`; one nobody refers to may be taken again.

### EnvCheckpoint

Leases of the pool, records and artifacts of the node, the rollout's `checkpoint_state`. A handler
is a member of `jobs` and goes on when the pool no longer waits (`PoolTimesOut`); `waited` says
whether the lease's lifecycle lock is held for it. Creation: `BeginCreate`, `CommitSource`,
`CreateReady`, `CreateFails`, `CreateAnswered`. Rerun of both backends: `BeginRerun`,
`RestoreTarget`, `DestroyOld`, `SwapTracked`, `MarkUsed`, `RerunFails`, `RerunAnswered`,
`FailureAnswered`. Collection: `CollectLease` and `CollectNode` plan, `StartCollecting`,
`WipeNext` (artifact), `ForgetNext` (record), `CollectingFails` carry out. The pool's own refresh
after a deletion or a collection is `RefreshLists` and `RefreshSets`, two steps because it has no
lock. `Restart` is a crash of the exec server and the reading of its records. `setup`, chosen at
the start, is the backend and the habits of the callers. `MayTimeOut` lets the pool stop waiting
and a docker command outlive its limit: the new container of a rerun that fails is then removed or
runs on, because its clean-up may fail too (`RerunFails`). The gates of DockerGates appear as their
effect: a docker step is atomic and none is taken while a collection deletes. A plan reads records
and active containers in one step; the code reads them one after the other
(`swe_exec_server.py:4504`).

### ContainerSupply and ContainerPool

ContainerSupply is the abstract specification of `/container/create` and `/container/destroy`: a
request is refused or given one container, never one that is in use, and a restart makes the node
forget what is in use. ContainerPool is the code behind it. `pc[r]` is how far the handlers of one
environment are, `cont[r]` the container in hand. `PopIdle`, `Healthy`, `Unhealthy`, `CheckHangs`,
`Miss`, `Make`, `MakeFails`, `MakeHangs` and `Track` are `acquire` and its caller; `Release`
(docker rm and the refill) and `Untrack` (leaving `_active_containers`) are two steps because the
refill looks at a count that still has the container. `Enqueue` is `_enqueue_prewarm_unlocked`
with both caps and the turn over images, `Fill` its loop. `TakeNext`, `PrewarmMade`,
`PrewarmFails`, `PrewarmHangs` and `WakeUp` are the prewarm thread. `Restart` adopts what docker
lists, in any order. A docker command that exceeds its timeout raises in the handler while the
daemon goes on (`MakeHangs`); what nobody can know of any more is recorded in the history variable
`abandoned`. The refinement `Supply` maps `pc` to what the request has been told and `cont` to
what it holds; `inUse` is the same. ContainerPool is a component of DockerGates' exec node: gates
and sections are left to that module.

### EnvPool

A thread of the pool serves one call: `Enter` (the semaphore), `ReserveSlot` or `LimitReached`,
`PickNode` or `NoNode`, `InsertLease` or `CreateFails`, `ReleaseSlot` for `/allocate`; `LookUp`,
`TakeLock` (the lifecycle lock and the second look), `Destroy` or `DestroyFails`, `Pop`,
`Unreserve` for `/close`. The exec node is ContainerSupply reduced to whether a container is being
made or up (`NodeAnswers`). A rollout is the sequence of its allocations and closes: the agent's
lease (`agent`, the `lease_id` of `_generate_impl`), the lease its loop works with (`mine`, the
`lease_id` of `_run_agent_remote`) and the evaluation's (`eval`), with the base restart, the
evaluation slot and the finally block; `Send`, `Hears` and `Unanswered` are the attempts of the
client, and a handler whose caller left goes on for `Nobody`. `orphaned` and `late` are history
variables: leases whose number reached nobody or whose closing was given up, and creations the
pool gave up while the node went on. A container and its lease have one number; the interval
between allocations is left out, because time does not pass in the model.

### RolloutRewind

One trajectory, `_run_agent_remote`. A container's state is the sequence of commands run in it
(`world`), a checkpoint is such a sequence; a command is a number that tells when the LLM thought
of it. `story` has the five lists that are cut back together, `step` is `step_idx`, `ckpt` what
the rollout knows of its latest checkpoint and `latest` what the pool knows. `Answers`,
`AnswersIdly`, `AnswerFails` are the LLM's answer; `Ask` is a checkpoint by a fixed policy (once a
step index) or the adaptive one (once while the LLM works), and `Commit`, `CreateReady`,
`CreateFails`, `ClientGivesUp` are what becomes of it in the pool and on the node, also after the
client has gone on. `Submits`, `ExecAnswered`, `ExecRetried`, `ExecRaises`, `FaultInjected` are
the outcomes of an exec, with what a call without an answer may have done (`Unanswered`). A step that
fails is recorded and the loop goes on, unless it was the submission: that ends the trajectory
whether its exec answers or raises (`FailedStep`, `Ends`). `Rerun`,
`RerunFails`, `Restart`, `RestartRaises` are `_recover_from_injected_fault`, and `ResumeAt` the
trims, the heartbeat and the cursor. The handlers of pool and node are in EnvCheckpoint, the
leases in EnvPool; here they are what they do to the container. The context manager is off, so a
context is the list of messages.

### PromptScheduler

`admit_prompt` polls under one asyncio condition and admits at most one prompt, be it its own or
another's (`PollUnordered`, `PollHeadOfLine` with the requeueing of a blocked head). Demands and
sums are IEEE floats: integers that are rounded after each addition and subtraction from `Digits`
on, where floats no longer have every integer. A reservation is the whole predicted demand and is
not corrected while the prompt runs, as `scripts/run_swe_rl_online_scheduler.sh` sets it
(`SWE_SCHED_REALTIME_LOCAL_ACTIVE_DISCOUNT=1.0`, `enable_live_profile_updates` off). `Start` is the
semaphore a rollout takes after its ticket, `FinishPrompt` the finally path, `Cancel` a cancellation
at one of the two waits, `Refresh` and `ResetWindow` the background task.

### SlimeRouter

The registry (`registered`, `count`, `seq_by_url`, `url_of_key`, `seq_by_key`) has the names and
contents of the router's dictionaries. `req[r]` is a request: its stage, the reservation (`url`,
`seq`), the attempt, and for streams the tokens. What happens between two awaits is one step; so
`Connect` includes the check at the top of the streaming loop, `Line` the processing of a chunk
and the next check, `Breaks` everything up to the new reservation or to the wait, and `Reroute` is
a step of its own because the reader of the old stream is awaited before the reservation. A token
is the number of the attempt that made it; the last chunk of an attempt repeats all its tokens, as
sglang's cumulative streaming does. Engines are the environment: `Register`, `Unregister`, `Dies`
and `Launch` happen in any order, because promotion by the watcher, handover by the monitor and
full restarts run beside each other. A connection breaks only when the process has gone, and a new
process takes the same URL only after the old connections broke. Abstractions: text and logprobs
travel with the tokens and are left out; a broken and a cleanly closed stream without `[DONE]` are
the same step; new and old reservation overlap inside one step, while in the code the response is
closed in between.

### ShadowHandover

A slot of `all_rollout_engines` holds an actor, named by the number of its first process;
`process` and `shadow` are the numbers of the processes it serves with and would promote, and
`alive`, `healthy`, `registered` are sets of processes. The watcher (`WatcherPromotes`) and the
monitor (`MonitorPromotes`) take the handover lock, and then `RegisterShadow`,
`UnregisterPrimary`, `SwitchProcess` are the steps of `_promote_shadow_worker_impl`. The monitor's
thread goes through `StartPass` (a copy of the slots), `CheckEngine`, `EndPass`, and for engines
that could not be handed over `ShutdownUnregisters`, `ShutdownKillsProcess`,
`ShutdownKillsShadow`, `KillActor`, `DropEngine` and then `recover_rollout_engines`; the same
recovery is called by rank 0 of the trainer in the manager's thread, so it is an action with the
thread as parameter: `RecoveryLooks` (dead indices), `RecoveryLaunches` (the slots that are None by
then), `RecoveryEnds` (assignment and assertion). `update_weights` is `GetEngines` and
`GetDebugState` for every rank, each of which collects the engines' events, then `Connect`, `Clear`
(decrement and acknowledgement) and `SendWeights` for all ranks together, since barriers keep them
together there. The driver is `NextRollout`, `EvaluationEnds`, `RolloutEnds`, `OffloadEnds`,
`TrainingEnds` and `OnloadEnds`, which resume and pause the monitor; with `offload_rollout` the
last three call every listed engine to release or resume memory, raise if one has exited (phase
"raised") and wait if one hangs. `options` is the job's setting, one of the records in the constant
`Options`: fast restart, `offload_rollout`, a first evaluation, and the bound on faults.

The faults are `Crash` and `Hang`; a server that hangs is alive and does not answer `/health`, and
any time later it may answer again (`Answers`). So a probe is only what it is now: the monitor's
may fail, even of a shadow that answers the next one, the monitor lists the engine as failed, and
the watcher's succeeds at a later poll. `shutdown` tells the watcher to stop and takes no handover
lock, so a promotion the watcher has begun (`Held` of `promotion`, with the process it promotes)
goes on through the three steps of the shutdown and until Ray kills the actor: it may register its
shadow after the old URL has been removed, and `SwitchProcess` may find the shadow taken or make a
process primary that nobody kills. The history variable `overtaken` has the processes whose
promotion was under way when a shutdown began.

Abstractions: one node an engine; a failed start and a router that does not answer are left out;
the training step is long enough for a pass cut short by the pause to end (`TrainingEnds`); the two
rescuers' calls at the router are SlimeRouter's `Register` and `Unregister`.

## 3. Runs

Every property of a passing run has a mutant in `PROJECT.json`: a definition of the module (marked
"mutated form") which, put in place of the real one, makes TLC find that property violated under
the same configuration.

| Run | Bounds | Question |
|---|---|---|
| `gates_requests` | 3 requests (one execs, creates or collects, one execs, creates, destroys or is a fault, one is of any of 7 kinds), 2 containers of which the second may resist `docker rm`, 4 gates, 1 slot | Do sections and gates keep apart what they should, with execs that outlive their timeout, and is every request answered? |
| `ckpt_faults` | 1 lease, 1 rerun, timeouts, crashes; full checkpoints (3 in a line, or 2 at once and a third after the rerun, collections keep one) or docker images (2 at once and collections that keep one, or 1 and collections that keep none; single deletions) | Is what a rollout or a lineage needs ever collected; is the new container there before the old one goes; does a rollout know that it lost its container? |
| `ckpt_live` | docker images, 3 checkpoints in 2 steps and a rerun, no timeouts, no crashes | Does every call end, every checkpoint become ready or failed, every container have an owner? |
| `warm` | 2 environments of one image, 2 prewarmed images, 3 containers, 1 warm per image, a total cap of 1, 1 hang or death, 1 restart | Is every container known, every count exact, the pool refilled, and ContainerSupply implemented? |
| `pool_leases` | 2 rollouts, 2 threads, 2 nodes, limits of 2, one rollout at a time that allocates, 2 attempts, 3 events | Are counters exact, limits kept, containers leased, leases owned, and is there no deadlock? |
| `pool_restart` (violation) | the same with 3 threads and rollouts that allocate together | Does a rollout close the lease it got in a restart from the base image? |
| `rewind_faults` | 3 steps; 2 faults and adaptive checkpoints, or 1 with fixed ones, and commands sent once or twice, or a recovery that raises | Is the container in the state the transcript tells, and does the trajectory end? |
| `rewind_raises` (violation) | the same | Do lists and cursor agree whenever the LLM is asked? |
| `scheduler_prompts` | 3 prompts, one beyond every budget, 2 resources, 2 budgets, 3 orders, all caps, cancellation at both waits | Are reservations exact, caps, budget and order respected, and is every prompt admitted and every reservation returned? |
| `router_requests` | 3 URLs, 2 keys, 2 registrations a key; 1 request of 4 tokens with 3 attempts under 3 settings, chunks coalesced by 2, a checkpoint each 2 tokens, or 6 pairs of requests of 1 token | Is the load exact, no failed incarnation tried again, the text whole and within its limit, the loss bounded, and does every request end? |
| `router_wait` (violation) | 1 request, default settings | Does a request wait for ever although its key is served again? |
| `handover_jobs` | 2 engines, 2 ranks, 6 processes a slot, 2 rollouts; with `offload_rollout` and a first evaluation, with or without shadows, 2 crashes or hangs; without `offload_rollout` no shadows and 2, or shadows and 1 | Do router and weight update follow the process that serves, what does a shutdown beside a promotion leave, and is a dead engine replaced? |

**Why the bounds are enough to be interesting.** Gates: three requests are a holder, a waiter and a
late arrival at one gate, or two of them beside a collection; the second container is what a rerun
creates, and a fault whose `docker rm` fails splits its gate; the limit of one slot makes creations
wait for each other. Requests are alike, so their operations are given as sets for each request of
which the products have the meetings that matter (two execs and a checkpoint, two checkpoints and a
collection, a destroy or a fault between an exec and anything). That safety holds for more requests,
and for any of their operations, is proved. Checkpoints: three checkpoints give a chain whose middle
is collected while the end is in use, or a plan that is older than the newest; where two are created
at once, the older may be ready last; a rerun adds a second generation; two containers are the old
and the new. Warm pool: two environments of one image race for its warm container while a second
image takes its turn, and the total cap of 1 is reached by one that is active, warm or pending;
three containers leave room for two that are active and one that was counted before. Env pool: two
rollouts reach the total limit, and the limit of a node when the other is unhealthy; the second
thread lets a repeated call run beside the one nobody waits for, which is how two allocations meet
although one rollout at a time allocates; an event is the start of a rollout, an unanswered call, a
failed probe or destroy or a creation given up: two rollouts with one fault or one with two. A probe
fails once before its node counts as unhealthy. Trajectory: three steps give a checkpoint after the
first or second command, a command after it and one more that is being thought of when a late
checkpoint is captured; a second fault finds the checkpoint used or replaced. Scheduler: three
demands of which two do not fit together in the smaller budget and one fits none, with two
dimensions so that packing is not a total order. Router: two keys give another worker to go to, a
shadow URL gives a handover, a second registration gives a stale reservation on a URL that came
back, two to three attempts give one recovery and its repetition, and four tokens with a checkpoint
every two give a loss of none and of one after a checkpoint. Handover: two engines, since one lost
mark is only seen when another engine makes the trainer reconnect; two ranks, since they are told
different things; two faults: a primary that exits, perhaps with a shadow that hangs for a while, is
the race of watcher and shutdown, two primaries are the two engines of a lost mark, and a primary
and what replaced it are a second failure; two rollouts, so that there is an update before, between
and after them; six processes, enough for two restarts of an engine with its shadow. Where the
monitor is not paused there are many more interleavings, so the run has one fault in jobs with
shadows there; checked once beside the run, without an error: the two properties of router and
processes without `offload_rollout`, with and without shadows, 2 faults and 2 rollouts (7.1 million
states), all properties without `offload_rollout`, with shadows, 2 faults and 1 rollout (2.0
million), and the safety properties with `offload_rollout`, with shadows, 3 faults and 8 processes
(1.7 million). Bounds are named in the CONSTANTS of the modules (`MaxCheckpoints`, `MaxSteps`,
`MaxReruns`, `MaxCalls`, `MaxRegistrations`, ...) and appear as guards of the actions that would
exceed them. Deadlock checking is off where all requests may be served and nothing is left to do
(gates, checkpoints, warm pool, scheduler, a trajectory that is over, handover, whose job ends or
raises); it is on for the router, whose engines never stop coming and going, and for the env pool,
where the end is the step `AllEnded` and any other stop is a rollout or a handler that waits for
ever.

**Symmetry** is used for the names of containers in `ckpt_faults` and of rollouts in `pool_leases`
and `pool_restart`, which have no liveness property.

**Fairness.** Gates: weak fairness of each thread, which the operating system gives; the exclusive
side waits for execs, but each request is finite and their number bounded, so weak fairness is
enough in the model. Checkpoints: strong fairness of the handlers of a lease, because foreground
and maintenance sections exclude each other repeatedly, and weak fairness of collections. Warm
pool: weak fairness of every handler and of the prewarm thread, strong fairness of what docker
answers well again and again (a probe of a running container, a creation of a warm one): without
the first a request may discard warm containers for ever, without the second nothing is ever warm.
Clients need not call, and nobody need die. `PoolRefills` and the part of ContainerSupply that
says that requests are answered rest on this. Env pool: none; its behaviours are bounded and the
absence of deadlock says that each ends with all calls answered. Trajectory: weak fairness of the
rollout and of the answers to its calls; it need not ask for a checkpoint, and no call need
succeed. Scheduler: strong fairness of each coroutine's poll, because an asyncio lock serves its
waiters in order while a head-of-line search holds the lock over several steps; budgets need not
change. Router: weak fairness of each coroutine and of the replacement of an engine whose key
nobody serves; engines need not fail, and lines need not be of any number. Handover: weak fairness
of every watcher, of the monitor, of each recovery and of each rank, all threads that never wait
for more than a lock; a rollout ends fairly only while every worker answers, since its requests
wait for the replacement of one that does not.

### Findings

* `pool_restart`: after a restart from the base image the new lease id stays a local variable of
  the agent loop. The finally block closes the first lease, which is closed already, and is told
  ok; the second keeps its container and its place for ever.
* `rewind_raises`: the heartbeat after the trims stands in the `try` whose `except` makes a failed
  step of any exception. When it raises, the lists are cut back and the step cursor is not: the
  loop goes on at the old index plus one, later checkpoints carry a resume index the lists do not
  have, and the next rewind keeps messages of commands the restored container has not run.
  `README_EN.md:147` says that the messages, step-debug data, PRM tasks and step cursor are
  rewound to the checkpoint position.
* `router_wait`: the wait for a replacement starts from the key's present sequence. A handover
  registers the shadow *before* it kills the primary, so a nonstream request, or a stream whose
  break is noticed before the switch, waits for yet another registration, by default without a
  deadline.

### Known divergences without a run

These are counterexamples TLC gives for definitions or settings of the modules that no listed run
uses; the passing runs leave out the setting named.

* A timed-out `docker exec` is killed on the client side only, its gate released, and a checkpoint
  captures a container in mid-command (`CommitSeesNoOrphan` of DockerGates with `ExecMayTimeOut`).
* A fault injection whose `docker rm` fails still drops the gate: two gates for one live
  container, and an exec overlaps a commit (`ExclusiveAlone` without its exception of
  `Unremovable` containers).
* The client sends an exec again when its answer is lost or is an error (`swe_env_client.py:107`),
  so a command may run more than once; and when the answer that is lost told of a fault, the
  second attempt meets a container that is gone, its `fault_injected` is false, and the rollout
  works on without a container (`Unanswered` of RolloutRewind; `README_EN.md:155` says that
  ordinary errors have no recovery yet).
* A rerun that the node completes after the client gave it up, followed by a close that fails,
  leaves the transcript of the step before beside a container that went back (`WorldMatches`
  without its condition on `recoveryRaises`).
* The rollout reruns with a timeout of 10 seconds, so the pool gives up after 40
  (`generate_with_swe_remote.py:927`, `swe_env_pool_server.py:687`), less than the docker commands
  below may take. The node completes the rerun, the lease closes with its old container, and the
  new one runs for ever (`ContainersAccounted` of EnvCheckpoint with `MayTimeOut = TRUE`).
  `README_EN.md:116` speaks of deadlines chosen to prevent "an ambiguous timeout at the upper
  layer". A rerun that fails leaves its new container running where the `docker run` outlived its
  limit or the clean-up fails (`swe_exec_server.py:4821`); the same setting shows it.
* With full checkpoints a crash of the node between freeze and recovery leaves the source stopped
  under a rollout that works (`LossKnown` without its condition on the backend).
* An evaluation runs under no gate and may overlap a commit.
* After a collection the pool refreshes its pointer when the node has queued the deletions, so the
  pointer goes on naming a checkpoint that is then deleted (`PointerIsReady`).
* A rerun whose checkpoint record was deleted meanwhile fails in `mark_used` after the swap and
  destroys its new container while the node still lists it (`ContainersAccounted` with a setup
  whose `keep` is `{0}`).
* A checkpoint of docker images that was pending at a restart is resolved only by a later request
  (`PendingResolved` with `MayCrash`).
* A rollout that is cancelled at its semaphore, after the ticket and before the `try`, never
  returns its reservation (`EveryPromptServed` without its condition); a cancelled waiter stays in
  the queue and is admitted for nobody.
* The oversized prompt is forced only when the float sums of all reservations are exactly zero
  (`online_env_docker_scheduler.py:1262`), which rounding need not reach again
  (`EveryPromptServed` with `Digits = 8`, demands 4 and 7 and one larger than the budget 13).
* With a requeue threshold of 1 the head of the line is deferred at every look, and a poll that
  finds nothing fitting does not end.
* With reroute to healthy workers the stream loop sees the key still at its old URL and sends the
  request back to the worker that failed (`FailedIncarnationAvoided` without its condition), and a
  nonstream request that moves at its last attempt leaves a reservation behind and answers null;
  with `generate_recovery_max_attempts` at 0 it also does so without rerouting, when it gets a URL
  that its key has just left (`LoadIsActive`; `LeavesReservations` names the settings).
* After a restart of the exec server `_active_containers` is empty, so a container a rollout works
  in may be adopted as a warm one and given to another (`UsedAtMostOnce` of ContainerPool with
  `MaxRestarts = 1`; `docs/en/container_pool.md:6` promises that "each warmed container is used at
  most once"). ContainerSupply forgets `inUse` at a restart for this reason.
* A docker command of `acquire` or of the prewarm thread that exceeds its timeout leaves a running
  container nobody knows (`abandoned`), and so does a creation the pool gives up after 120 seconds
  (`late`): a lease never names it, nothing removes it.
* The cap of the warm pool bounds idle and pending containers only: cold creations are not capped,
  and a popped container is in no count until it is tracked. `docs/en/container_pool.md:47` says
  the image list is deduplicated; it is not (`swe_exec_server.py:2428`). With the pool disabled,
  `acquire` still counts and queues a prewarm that no thread takes.
* An allocation whose answer is lost leaves a lease whose number nobody has, and a close that
  fails at every attempt leaves one nobody closes (`orphaned`): heartbeats are stored, and no
  reaper reads them.
* "All exec nodes are full or unhealthy" is not among the errors `/allocate` marks as capacity
  pressure (`swe_env_pool_server.py:968` looks for "no healthy exec nodes available") and is
  answered with HTTP 500; the client repeats it all the same.
* A URL registered again without removal keeps the count of reservations that no longer match
  (`CountsExact` then only bounds the count from below).
* A worker that goes away between its last token and `[DONE]` makes the next attempt go on past
  the end of the text; `EndToken` may then stand inside `out`.
* A process that was promoted and stops answering before the next update collects its event is
  "handed over" again and again: `promote_shadow_worker` reports success for the pending event
  (`sglang_engine.py:615`), the monitor starts to count anew, and the rollout waits
  (`SecondFailureIsReplaced` of ShadowHandover). `README_EN.md:328` says that a second failure
  requires a full engine restart.
* Without `offload_rollout` the monitor goes on during an update, and `recover_rollout_engines` in
  one thread assigns `num_new_engines` (`rollout.py:796`), even 0, over what a collection or the
  other thread has counted: an engine is left out of the weight update, or a handover that is to be
  acknowledged has no count behind it (`UpdateReachesAll` and `ObligationBacked` without their
  condition on `options.offload`), although `clear_num_new_engines` decrements in order not to lose
  such events. Then an actor that is killed but still listed also makes a collection raise after
  the events of the others were consumed (`rollout.py:519`). The launchers of fast restart run
  without `offload_rollout`.
* A shutdown takes no handover lock (`sglang_engine.py:1027`). A primary exits and its shadow does
  not answer for a while; the monitor's promotion fails and the engine is listed; the shadow
  answers again and the watcher, at its next poll, begins to promote it; then `shutdown` removes
  the old URL and kills the old process. If the watcher has not registered the shadow yet it does
  so now, and the router keeps a URL whose process is killed with the engine; if it has switched
  by the time the shutdown looks for a shadow, the promoted process is neither the process that
  was killed nor a shadow, and runs on, registered, after its actor is gone, on the GPUs of the
  next one. `RoutedToOwner` and `NoStrayServer` except exactly the processes in `overtaken`; without
  the exception TLC finds both traces. The same happens to an engine that was missing at the start
  of a pass, that the trainer's recovery starts again during it, and that is shut down as a failed
  one (without `offload_rollout`).
* A server that hangs while memory is released or resumed holds the job up: these calls have no
  deadline, and with `offload_rollout` the monitor is paused (`HeldUp`, which `DeadIsReplaced`
  allows).
* A handover that is collected between the two calls of a rank makes that rank raise
  (`actor.py:686`), and ranks that were told different counts wait for each other for ever; the
  job stops although every engine serves (`JobStopped` allows both).
* During an evaluation before the first rollout the monitor kills an engine whose recovery is then
  refused (`rollout.py:765`); `DeadIsReplaced` speaks of later rollouts only.

## 4. Proofs

A theorem holds for every value of the constants that the named assumptions of its module allow:
any number of requests, rollouts, threads, containers, engines and faults, any limit. Each module
has an inductive invariant that is stronger than the properties; its parts were checked by TLC on
the module's runs before they were proved. In each proof module the invariant is defined first,
then come lemmas about the operators, then a lemma for each group of actions, and the theorems.

### DockerGates_proofs

* `TypeCorrect`: `TypeOK`. It is not inductive: that a count does not fall below zero needs
  `GatesCounted` and `NodeCounted`, by which each count is the cardinality of the set of requests
  in the section, and these need `GateHeld` (who is inside a section remembers its gate) and
  `Targeted`. `TypeInv` is their conjunction. Lemma `MovesCounted` says what a step of one request
  does to a set and its count, and each action is an instance of it.
* `ExclusionAlways`: the holder of a gate's exclusive section is alone at that gate object, the
  maintenance section alone on the node, creations within the limit; whether or not `docker rm`
  fails. `MaintenanceIsAlone` and `CommitsAreBounded` follow, and `ExecIsNotOvertaken`, an action
  property, follows from the types.
* `ExclusiveIsAlone` and `FrozenSourceIsHidden` speak of containers, not of gate objects. The step
  from one to the other is the invariant of `LifetimesAlways`: whoever works at a live container
  that `docker rm` does not fail to remove holds the gate the dictionary has for it. They hold for
  each such container beside any others; for a container in `Unremovable` they are false, as TLC
  shows.

### EnvCheckpoint_proofs

* `TypeCorrect` and `HandlerInvAlways`: `HandlerInv` holds in every setup, with timeouts of the
  pool, crashes and single deletions. `Ordered`: ids, generations and steps of the records of a
  lease grow together, and a parent is older than its child; so the sort key of the code orders
  them as their ids do, and the recursion of `AncestorsIn` has a solution (`LineageExists`).
  `HandlersOK` and `Apart`: a handler the pool gave up goes on beside those that hold the lifecycle
  lock, and still a lease has one rerun at most and a new container is in one handler's hands,
  because the rollout has gone back to the base image (`Reruns`). `DeletionsOK`: what is to be
  deleted is ready or failed, so nothing pending ever is.
* `LossAlwaysKnown`, from `LossInv`: a rollout that works has its container or waits for a rerun.
  The lifecycle lock alone does not do: that what is waited for is a rerun matters, since a
  checkpoint ends without giving anything back.
* `CheckpointOfRolloutKept` and `LineageAlwaysKept`, from `KeptInv` (`KeptAlways`). That the
  rollout's checkpoint is restorable is not inductive. A plan protects the newest ready record,
  the pending ones and the ancestors of both, and knows nothing of the rollout; so `LatestKept`
  says that every younger record of the lease has the rollout's checkpoint as its parent, and
  that no queued plan names it: then it is the newest ready one, or an ancestor of what is
  protected (`PlanSpares`). `AnswerKept` says the same of a checkpoint that is ready while its
  answer is on the way. A collection stops anywhere, so `ChildrenGo` says that a plan takes no
  parent without its children, and `NoChildLeft` that it deletes children first. The hypothesis
  `Careful` (no single deletions, `keep_latest` at least 1) is that of the properties.
* `ContainersAlwaysAccounted`: where the pool waits and the node does not crash (`Punctual`), with
  docker images and careful callers. The first two are the settings of the run that checks
  `ContainersAccounted`; without each of them it is false, see the divergences.
* Assumed: there is a lease (`LeasesAssumption`), for the value of a record that does not exist.

### EnvPool_proofs

* `CapacityIsExact` and `LimitsAlwaysHold`: counters equal leases and handlers, and limits hold.
  The inductive invariant `PoolInv` (`PoolInvAlways`) has, beside the counts as cardinalities
  (`Counted`), what the stage of a handler says about its number (`Staged`): a counter goes down
  in a step of its own after the lease has left the dictionary, and only the stage says that the
  place is still taken. That two handlers of one lease do not both do so needs `Secret` (a number
  is known to one handler until it is answered, and one thread at a time is past the lifecycle
  lock). The limits need `Bounded`, which adds the creations under way to the leases.
* `ContainersAlwaysLeased` and `LeasesAlwaysOwned`, from `OwnInv` (`OwnInvAlways`), which holds
  together with `PoolInv`: `Accounted` says the same without the calls that only close something,
  since a rollout that asks for a close does not lose the number; `EvaluatesAlone` and `Holds` say
  which numbers a rollout may have at each place.
* Assumed: the pool's threads are finitely many (`BoundsAssumption`), which cardinalities need.

### ContainerPool_proofs

* `WarmAlwaysCounted`, from `WarmInv`: types, `Counts` (pending creations of each image are the
  positions of the queue that hold it, and one that is being made) and `Paired` (a handler has a
  container just where it says). `Fill` is a recursive function. That it has a value at every
  argument, and that it keeps counts and caps, is argued by the least argument for which it does
  not, since the library's induction theorems cannot be instantiated; the same for the queue that
  `Enqueue` makes in turns over the images.
* `ContainersAlwaysKnown`, from `KnownInv`: what was released does not run when the node forgets
  it.
* `UsedOnceUntilRestart`, from `SharedInv` (`SharedInvAlways`): no two environments have the same
  container until the exec server restarts. Without `restarts = 0` it is false, see the
  divergences.
* `KeepsSupply`: `Spec` implements the initial states and the steps of ContainerSupply under the
  mapping of `Supply`; every action is a step of ContainerSupply or a stutter. That is the safety
  part of `ImplementsSupply`; its fairness stays with TLC.
* Assumed: finitely many images (`ConfigAssumption`), for the turns over them.

### RolloutRewind_proofs

* `WorldAlwaysMatches`, from `RewindInv` (`RewindInvAlways`), for every `StepLimit` and any number
  of faults and attempts. `Between` and `Answered` say what the five lists hold between two steps
  and after an answer (`ListsInv`); `Tells` says that a container has run commands of the first
  steps only, in order, and all that have a result. It holds of the running container up to the
  cursor (`WorldTold`), of the checkpoint the rollout knows up to its resume step (`CkptTold`), and
  of what a call captured while somebody waits for it (`CreatesTold`). `WorldMatches` alone is not
  inductive: it says nothing of checkpoints, and of the lists only what the LLM is asked with.
* Nothing is needed of a call that nobody awaits, nor of the pool's `latest`: a rerun names the
  checkpoint the rollout has heard of. That a command is never older than one in the container
  rests on `Numbered`.
* `BeforePrefix` says what the trim of step debug and PRM tasks leaves: of a list in the order of
  its steps the entries before the resume step, which are a prefix. `Before` is a recursive
  function, and the lemma is proved by the least position at which another solution would differ.
* The hypothesis `~setup.recoveryRaises` is part of the property; without it `rewind_raises` shows
  the violation.

### PromptScheduler_proofs

* `InvariantHolds`: the inductive invariant `IInv`, whatever is cancelled and however the prompts
  are taken. `QueueInv`: a prompt is queued once, and not while it is active; the splice of
  `Without` and the turn of `Requeued` keep that (`WithoutThins`, `RequeuedThins`). `TicketInv`:
  who has a ticket is active, and who has not queued is unknown, so a finish never takes away what
  is not there. `SchedulerTypes` and `CapsHold` follow: the caps hold in every state, which the
  property `AdmissionWithinLimits` says of admissions only.
* `InOrder`: `AdmittedInOrder`, from what a step does to each place of the queue (`InOrderStep`).
* `ReservationsHold` and `AdmissionsKeepLimits`, with the hypothesis `NoRounding`: the demand of
  all prompts together is below `Digits`. That holds in the run, and in the code where amounts are
  whole numbers with a sum below 2^53; averages and scaled peaks need not be whole, and without it
  `ReservationsExact` is false, see the divergences. `Demand` is a fold over a set that chooses
  the order of its elements. `TotalsExist` shows by the smallest set without one that there is a
  sum which does not depend on the order, and `DemandIsTotal` that the fold is that sum. `Unit`, a
  recursive function, has a value everywhere (`UnitFacts`), so a rounded amount is an amount, and
  below `Digits` the same one.
* That the oversized prompt runs alone needs that every demand is positive in some resource
  (`DemandAssumption`; the code raises CPU to 0.1 at least, `online_env_docker_scheduler.py:919`):
  a sum of zero then says that nobody is active.

### SlimeRouter_proofs

* `RouterInvAlways` is the inductive invariant: types, `RegistryOK`, `CountsExact`, and for every
  request `Placed`, `Texted` and `Avoids`.
* `CountsAlwaysExact`: sequences of a key only grow, so the sequence a new registration gets is
  above that of every reservation from before (`Placed`), and no stale one can match it. A first
  attempt at the proof failed at the retry of a nonstream request: with a single attempt allowed a
  reservation could stay behind also without rerouting, TLC confirmed it, and the property now
  says when reservations may be left (`LeavesReservations`).
* `FailedAlwaysAvoided`: `Avoids` says of what broke that its sequence is below the reservation,
  or not above the sequence waited for, or on another URL, according to the endpoint.
* `TokensAlwaysIntact` and `LossAlwaysBounded`: `Texted` says that the text is what was sent and
  what was taken of the answer, that the checkpoint is a prefix of it and the target less than an
  interval above.

### ShadowHandover_proofs

* `TypeCorrect`: the types, in every job.
* `RoutedAlways` and `NoStrayAlways`, in every job, and `UpdateAlwaysReaches` and
  `ObligationAlwaysBacked`, which speak of jobs with `offload_rollout`, from `HandoverInv`
  (`HandoverInvAlways`): `OwnerInv` in every job, and `UpdateInv` with `offload_rollout`.
* `OwnerInv` has the types and these parts. `Paused`: each of the two recoveries runs for the one
  who called it, and with `offload_rollout` the monitor and the trainer take turns. `MonitorKnows`:
  the engine that the monitor shuts down is up until Ray has killed it, whatever the trainer's
  recovery and the watcher do meanwhile; who holds a handover lock is the watcher of any engine
  that is up, or the monitor at the engine it is promoting. `Filling`: two recoveries under way
  never have a slot in common, because the slots to fill are taken when they are None and are not
  None until they are filled; this is why the properties do not need the pauses.
  `ProcessesConsistent`: a promotion is of the shadow, except beside a shutdown that has taken it
  (`Ending`), after which the actor may even have no process.
* `RoutedTo`, `Owned`: which URLs the router has and which processes live after each step of a
  promotion or a shutdown. Beside a shutdown they follow from `Raced`: the watcher has been told to
  stop, so a promotion that is under way began before, hence what it promotes is in `overtaken`, and
  is registered before it takes the place of the process; what still lives of an engine whose
  process was killed (`Stopped`) is such a one. `OvertakenOnce`: a process in `overtaken` belongs to
  an actor that is being shut down or has gone, so the exception never covers an engine that
  serves.
* `UpdateInv`: an engine that is not connected is remembered, as an event or in the count
  (`AllOwed`), a rank past its two questions was told of it (`AllTold`), a process number is not
  used again (`AllFresh`), a handover to be acknowledged is counted (`Backed`), and what rank 0
  takes off the counters does not take off what came in later (`MainCounted`). It rests on the turns
  of `Paused` and on `Filled`, that a recovery finds the slots still empty that it has counted.
* Assumed: finitely many engines, at least one (`EnginesAreFinite`), which the two counters need.

### What is only model-checked

* Liveness, and the fairness part of `ImplementsSupply`: they need ENABLED, beyond the prover.
* PromptScheduler: what becomes of reservations once they are rounded; no property holds of it but
  the types, the caps and the order, which are proved without `NoRounding`.

None of the modules uses a RECURSIVE operator, so all of them can be proved about.

## 5. Not modelled, and why

* Wording, logging, metrics, headers, configuration parsing, histories and predictions of the
  scheduler, latency estimates of the checkpoint policies: data no property is about. A checkpoint
  may be attempted at any step, a budget may be any of a set.
* Commit cooldown, probe, status and statistics endpoints, op records: they change nothing the
  properties mention.
* Contents of a checkpoint (CRIU, docker layers): the docker-full-checkpoint submodule is not in
  the tree; a checkpoint is whole or absent.
* CUDA, NCCL and weight transfer, Megatron-LM, sglang: vendored or numerical.
* Engines of several nodes, starts that fail, PRM engines, the FSDP ranks and injected faults of
  ShadowHandover; the monitor's waits.
* Of the env pool: calls that only pass through, heartbeats, injected faults, the intervals
  between allocations, the delays between attempts. Of the warm pool: metrics,
  `warmup(block=True)`, a disabled pool.
* Of the trajectory: the context manager, the PRM's results, the extraction of the patch, and the
  polling of pending checkpoints, of which the synchronous creation leaves none.

## 6. Plan

Done: all modules of section 2 with their runs; proofs of the safety of DockerGates,
EnvCheckpoint, EnvPool, ContainerPool, RolloutRewind, PromptScheduler, SlimeRouter and
ShadowHandover, and of the steps of ContainerPool's refinement.

Next, in this order:

1. **Proofs.** The lists of RolloutRewind when a recovery raises, as far as they still agree with
   each other.
2. **Abstract specifications**: a gate as a readers-writer lock with priority that DockerGates
   implements for each container while `docker rm` does not fail; a worker registry as a map from
   keys to incarnations that SlimeRouter implements.
