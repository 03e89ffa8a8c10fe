----------------------- MODULE ShadowHandover_proofs ------------------------
(***************************************************************************)
(* Proofs about ShadowHandover: the processes of an engine through         *)
(* handover, shutdown and restart, the URLs the router has of them, and    *)
(* the weight updates that reach them.                                     *)
(***************************************************************************)
EXTENDS ShadowHandover, FiniteSetTheorems, TLAPS

TypeInv == TypeOK

\* The conjuncts of TypeOK, by who has the variables.
EngineTypes ==
    /\ slot \in [Engines -> {"empty", "starting", "up", "dead"}]
    /\ actor \in [Engines -> PidOrNone]
    /\ process \in [Engines -> PidOrNone]
    /\ shadow \in [Engines -> PidOrNone]
    /\ launches \in [Engines -> PidOrNone]
    /\ alive \subseteq Pids
    /\ healthy \subseteq alive
    /\ registered \subseteq Pids
    /\ pending \in [Engines -> BOOLEAN]
    /\ watching \in [Engines -> BOOLEAN]
    /\ promotion \in [Engines -> {Free} \union
          [by : {"watcher", "monitor"}, at : {"register", "unregister", "switch"},
           new : 1..MaxLaunches]]
    /\ overtaken \subseteq Pids

MonitorStates ==
    [at : {"waiting", "checking", "promoting", "killing", "unregistered", "killed", "ended",
           "dropping"},
     engine : Engines, todo : SUBSET Engines, missing : SUBSET Engines,
     failed : SUBSET Engines, failures : [Engines -> 0..(Threshold - 1)]]

JobTypes ==
    /\ options \in Options
    /\ checking \in BOOLEAN
    /\ recovery \in [Threads -> [at : {"idle", "looked", "launched"},
                                 dead : SUBSET Engines, new : SUBSET Engines]]
    /\ num_new_engines \in Nat
    /\ pending_reconnects \in Nat
    /\ phase \in {"update", "onload", "eval", "generate", "offload", "train", "done", "raised"}
    /\ rollout_id \in -1..(MaxRollouts - 1)
    /\ rank \in [Ranks -> [at : {"idle", "recover", "barrier", "get", "debug", "connect",
                                "clear", "send", "failed"},
                           num_new : Nat, shadows : Nat]]
    /\ handles \in [Engines -> PidOrNone]
    /\ connected \in [Engines -> PidOrNone]
    /\ begun \in [Engines -> PidOrNone]
    /\ faults \in 0..options.faults

RecoveryStates ==
    [at : {"idle", "looked", "launched"}, dead : SUBSET Engines, new : SUBSET Engines]

RankStates ==
    [at : {"idle", "recover", "barrier", "get", "debug", "connect", "clear", "send", "failed"},
     num_new : Nat, shadows : Nat]

\* The monitor calls recover_rollout_engines when it has killed what it found, and rank 0
\* during an update.  With offload_rollout the monitor and the trainer take turns.
Paused ==
    /\ options.offload =>
          /\ phase \in {"offload", "train", "update"} => ~checking
          /\ phase = "update" => monitor.at = "waiting"
    /\ phase # "update" => \A r \in Ranks : rank[r].at = "idle"
    /\ recovery["monitor"].at # "idle" => monitor.at = "killing" /\ monitor.failed = {}
    /\ recovery["manager"].at # "idle" => rank[Main].at = "recover"

\* The engine that the monitor is shutting down is up until Ray has killed it.  The watcher
\* may hold the handover lock of any engine that is up, whatever the monitor does with it.
MonitorKnows ==
    /\ monitor.at = "waiting" => monitor.failed = {}
    /\ monitor.at \in {"unregistered", "killed", "ended", "dropping"} =>
          monitor.engine \in monitor.failed
    /\ monitor.at \in {"promoting", "unregistered", "killed", "ended"} =>
          slot[monitor.engine] = "up"
    /\ \A e \in Engines : slot[e] = "dead" <=> monitor.at = "dropping" /\ monitor.engine = e
    /\ \A e \in Engines : promotion[e] # Free =>
          /\ slot[e] = "up"
          /\ promotion[e].by = "monitor" => monitor.at = "promoting" /\ monitor.engine = e

\* shutdown has returned and taken the shadow; Ray has not killed the actor yet.
Ending(e) == monitor.at = "ended" /\ monitor.engine = e

\* The processes of an actor are two of those launched, and a promotion is of its shadow,
\* until a shutdown that ends takes them from under a promotion.
ProcessesConsistent(e) ==
    /\ IF slot[e] = "up"
       THEN /\ process[e] \in 1..launches[e] \/ (Ending(e) /\ process[e] = 0)
            /\ shadow[e] \in 0..launches[e]
            /\ shadow[e] # 0 => shadow[e] # process[e]
       ELSE shadow[e] = 0
    /\ Ending(e) => shadow[e] = 0
    /\ promotion[e] # Free => /\ promotion[e].new # process[e]
                              /\ ~Ending(e) => promotion[e].new = shadow[e]

\* A recovery puts actors into slots that nobody else fills.
Filling(w) ==
    recovery[w].at = "launched" =>
        \A e \in recovery[w].new :
            /\ slot[e] = "starting"
            /\ \A u \in Threads \ {w} : recovery[u].at = "launched" => e \notin recovery[u].new

\* Where they take turns, what a recovery has found empty is still empty when it launches.
Filled(w) ==
    options.offload =>
        /\ recovery[w].at = "looked" => Empty # {}
        /\ recovery[w].at = "launched" => recovery[w].new # {}

SlotsConsistent ==
    /\ \A e \in Engines : ProcessesConsistent(e)
    /\ \A w \in Threads : Filling(w) /\ Filled(w)

JobInv == TypeInv /\ Paused /\ MonitorKnows /\ SlotsConsistent

\* Which URLs the router has, by how far the handover is.
Routed(e, n) ==
    /\ slot[e] = "up" /\ ~ShuttingDown(e)
    /\ \/ n = process[e] /\ promotion[e].at # "switch"
       \/ n = shadow[e] /\ promotion[e].at \in {"unregister", "switch"}

RoutedTo(e, n) == <<e, n>> \notin overtaken => (<<e, n>> \in registered <=> Routed(e, n))

Owned(e, n) ==
    <<e, n>> \in alive => \/ slot[e] = "up" /\ n \in {process[e], shadow[e]}
                          \/ <<e, n>> \in overtaken /\ <<e, n>> \in registered

\* A process is overtaken by the shutdown of its own actor only.
OvertakenOnce(e, n) ==
    <<e, n>> \in overtaken =>
        /\ n <= launches[e]
        /\ slot[e] = "up" /\ n \in {process[e], shadow[e]} => ShuttingDown(e)

\* shutdown has killed the process.
Stopped(e) == monitor.at \in {"killed", "ended"} /\ monitor.engine = e

\* A promotion beside a shutdown had begun before it: what it promotes is overtaken, and
\* registered before it takes the place of the process.
Raced(e, n) ==
    /\ ShuttingDown(e) => ~watching[e]
    /\ promotion[e] # Free =>
          /\ n = process[e] => <<e, n>> \notin overtaken
          /\ n = promotion[e].new =>
                /\ ShuttingDown(e) => <<e, n>> \in overtaken
                /\ promotion[e].at \in {"unregister", "switch"} => <<e, n>> \in registered
    /\ Stopped(e) /\ n = process[e] /\ <<e, n>> \in alive =>
          <<e, n>> \in overtaken /\ <<e, n>> \in registered

HandledAt(e, n) == RoutedTo(e, n) /\ Owned(e, n) /\ OvertakenOnce(e, n) /\ Raced(e, n)

Handled == \A e \in Engines, n \in 1..MaxLaunches : HandledAt(e, n)

OwnerInv == JobInv /\ Handled

\* The actor of the slot has a process.
Has(e) == slot[e] = "up" /\ process[e] # 0

\* The engine is connected unless it was replaced since the update began.
ReachedAt(e) == Has(e) /\ process[e] = begun[e] => connected[e] = process[e]

\* An engine that is not connected is remembered, as an event or in the count.
OwedAt(e) ==
    Has(e) /\ connected[e] # process[e] /\ (phase = "update" => process[e] = begun[e])
        => pending[e] \/ num_new_engines > 0

\* The rank sends weights, or will without connecting.
Settled(r) == rank[r].at \in {"send", "clear"} \/ (rank[r].at = "debug" /\ rank[r].num_new = 0)

\* A process is never used again after another has taken its place.
FreshAt(e) ==
    /\ begun[e] <= launches[e] /\ process[e] <= launches[e]
    /\ shadow[e] # 0 => shadow[e] # begun[e]

AllOwed == \A e \in Engines : OwedAt(e)
AllTold == \A r \in Ranks : Settled(r) => \A e \in Engines : ReachedAt(e)
AllFresh == \A e \in Engines : FreshAt(e)

\* A handover to be acknowledged is in the count, and still will be when Main has taken off
\* what it was told.
Backed == pending_reconnects > 0 => num_new_engines > 0

MainCounted ==
    /\ rank[Main].at \in {"debug", "connect", "clear"} => num_new_engines >= rank[Main].num_new
    /\ rank[Main].at \in {"connect", "clear"} /\ rank[Main].shadows = 0 =>
           num_new_engines >= rank[Main].num_new + pending_reconnects

UpdateInv == AllOwed /\ AllTold /\ AllFresh /\ Backed /\ MainCounted

HandoverInv == OwnerInv /\ (options.offload => UpdateInv)
-----------------------------------------------------------------------------
(***************************************************************************)
(* Types.                                                                  *)
(***************************************************************************)
\* The sets of engines that are counted are finite.
LEMMA CountIsNat ==
  ASSUME NEW S, S \subseteq Engines
  PROVE  IsFiniteSet(S) /\ Cardinality(S) \in Nat /\ (S # {} => Cardinality(S) > 0)
<1>1. IsFiniteSet(S)
  BY EnginesAreFinite, FS_Subset
<1>2. Cardinality(S) \in Nat
  BY <1>1, FS_CardinalityType
<1>3. S # {} => Cardinality(S) > 0
  BY <1>1, <1>2, FS_EmptySet
<1>. QED  BY <1>1, <1>2, <1>3

\* TypeOK in parts.
LEMMA TypeParts == TypeInv <=> EngineTypes /\ monitor \in MonitorStates /\ JobTypes
BY DEF TypeInv, TypeOK, EngineTypes, MonitorStates, JobTypes

\* The same of the next state.
LEMMA TypePartsNext == TypeInv' <=> EngineTypes' /\ monitor' \in MonitorStates' /\ JobTypes'
BY DEF TypeInv, TypeOK, EngineTypes, MonitorStates, JobTypes

\* A step of the monitor or of an engine leaves the rest as it is.
LEMMA JobUnchanged ==
  ASSUME JobTypes, UNCHANGED <<options, checking, recovery, num_new_engines,
                         pending_reconnects, trainer, faults>> PROVE JobTypes'
BY DEF JobTypes, trainer

\* A step that leaves the actors alone.
LEMMA EnginesUnchanged ==
  ASSUME EngineTypes, UNCHANGED actors
  PROVE  EngineTypes'
BY DEF EngineTypes, actors

\* The first state has the types.
LEMMA TypeInit == Init => TypeInv
<1>. SUFFICES ASSUME Init PROVE TypeInv
  OBVIOUS
<1>0. /\ Threshold \in Nat /\ Threshold > 0
      /\ MaxLaunches \in Nat /\ MaxLaunches >= 2
      /\ MaxRollouts \in Nat /\ MaxRollouts > 0
  BY BoundsArePositive
<1>. USE DEF Init
<1>1. options \in Options /\ options.fast \in BOOLEAN /\ options.faults \in Nat
  BY OptionsAreSettings
<1>2. Needed \in 1..MaxLaunches /\ (options.fast => 2 \in 1..MaxLaunches)
  <2>1. Needed \in {1, 2}
    BY <1>1 DEF Needed
  <2>. HIDE DEF Init
  <2>. QED  BY <2>1, <1>0
<1>3. /\ slot \in [Engines -> {"empty", "starting", "up", "dead"}]
      /\ actor \in [Engines -> PidOrNone]
      /\ process \in [Engines -> PidOrNone]
      /\ launches \in [Engines -> PidOrNone]
      /\ handles \in [Engines -> PidOrNone]
      /\ connected \in [Engines -> PidOrNone]
      /\ begun \in [Engines -> PidOrNone]
  BY <1>2, BoundsArePositive DEF PidOrNone
<1>4. shadow \in [Engines -> PidOrNone]
  BY <1>2, BoundsArePositive DEF PidOrNone
<1>5. /\ alive \subseteq Pids /\ healthy \subseteq alive /\ registered \subseteq Pids
      /\ overtaken \subseteq Pids
  BY <1>2, BoundsArePositive DEF Pids
<1>6. monitor \in [at : {"waiting", "checking", "promoting", "killing", "unregistered",
                          "killed", "ended", "dropping"},
                    engine : Engines, todo : SUBSET Engines, missing : SUBSET Engines,
                    failed : SUBSET Engines,
                    failures : [Engines -> 0..(Threshold - 1)]]
  <2>1. (CHOOSE e \in Engines : TRUE) \in Engines
    BY EnginesAreFinite
  <2>. QED  BY <2>1, BoundsArePositive
<1>7. recovery \in [Threads -> [at : {"idle", "looked", "launched"},
                                 dead : SUBSET Engines, new : SUBSET Engines]]
  OBVIOUS
<1>8. rank \in [Ranks -> [at : {"idle", "recover", "barrier", "get", "debug", "connect",
                                "clear", "send", "failed"},
                           num_new : Nat, shadows : Nat]]
  BY DEF Idle
<1>9. num_new_engines \in Nat
  BY CountIsNat
<1>10. /\ pending \in [Engines -> BOOLEAN] /\ watching \in [Engines -> BOOLEAN]
       /\ promotion \in [Engines -> {Free}] /\ checking \in BOOLEAN
       /\ pending_reconnects \in Nat /\ phase \in {"update"}
       /\ rollout_id \in -1..(MaxRollouts - 1)
       /\ faults \in 0..options.faults
  <2>1. /\ rollout_id = -1 /\ faults = 0
    OBVIOUS
  <2>2. -1 \in -1..(MaxRollouts - 1) /\ 0 \in 0..options.faults
    <3>. HIDE DEF Init
    <3>. QED  BY <1>0, <1>1
  <2>3. /\ pending \in [Engines -> BOOLEAN] /\ watching \in [Engines -> BOOLEAN]
        /\ promotion \in [Engines -> {Free}] /\ checking \in BOOLEAN
        /\ pending_reconnects \in Nat /\ phase \in {"update"}
    BY <1>1
  <2>. QED  BY <2>1, <2>2, <2>3
<1>11. TypeOK
  BY <1>1, <1>3, <1>4, <1>5, <1>6, <1>7, <1>8, <1>9, <1>10 DEF TypeOK
<1>. QED  BY <1>11 DEF TypeInv

\* The count of failed checks stays below the threshold.
LEMMA FailureCounted ==
  ASSUME monitor \in MonitorStates, NEW e \in Engines, NEW enough \in MonitorStates,
            CountFailure(e, enough)
  PROVE monitor' \in MonitorStates
<1>1. monitor.failures[e] + 1 \in Nat /\ 0 \in 0..(Threshold - 1)
  BY BoundsArePositive DEF MonitorStates
<1>2. CASE monitor.failures[e] + 1 < Threshold
  <2>1. monitor.failures[e] + 1 \in 0..(Threshold - 1)
    BY <1>1, <1>2, BoundsArePositive
  <2>2. PICK n \in 0..(Threshold - 1) : n = monitor.failures[e] + 1
    BY <2>1
  <2>3. monitor' = [monitor EXCEPT !.todo = @ \ {e}, !.failures[e] = n]
    BY <1>2, <2>2 DEF CountFailure
  <2>. QED  BY <2>3 DEF MonitorStates
<1>3. CASE ~(monitor.failures[e] + 1 < Threshold)
  <2>1. monitor' = [enough EXCEPT !.failures[e] = 0]
    BY <1>3 DEF CountFailure
  <2>. QED  BY <2>1, <1>1 DEF MonitorStates
<1>. QED  BY <1>2, <1>3

\* So it does when it starts again.
LEMMA EnginePassed ==
  ASSUME monitor \in MonitorStates, NEW e \in Engines, PassedOver(e)
  PROVE monitor' \in MonitorStates
<1>1. 0 \in 0..(Threshold - 1)
  BY BoundsArePositive
<1>. QED  BY <1>1 DEF MonitorStates, PassedOver

\* Crash, Hang and Answers.
LEMMA TypeFaults ==
  ASSUME TypeInv, NEW p \in Pids, Crash(p) \/ Hang(p) \/ Answers(p)
  PROVE  TypeInv'
<1>1. TypeOK /\ EngineTypes /\ monitor \in MonitorStates /\ JobTypes
  BY TypeParts DEF TypeInv
<1>2. CASE Crash(p)
  BY <1>1, <1>2, OptionsAreSettings DEF TypeInv, TypeOK, Crash, Killed, Faulty,
       manager, trainer
<1>3. CASE Hang(p)
  BY <1>1, <1>3, OptionsAreSettings DEF TypeInv, TypeOK, Hang, Faulty, manager,
       trainer
<1>4. CASE Answers(p)
  BY <1>1, <1>4 DEF TypeInv, TypeOK, Answers, manager, trainer
<1>. QED  BY <1>2, <1>3, <1>4

\* _promote_shadow_worker_impl: a URL that is registered is of a process.
LEMMA TypeEngines ==
  ASSUME TypeInv, NEW e \in Engines, EngineStep(e)
  PROVE  TypeInv'
<1>1. TypeOK /\ EngineTypes /\ monitor \in MonitorStates /\ JobTypes
  BY TypeParts DEF TypeInv
<1>4. CASE WatcherPromotes(e)
  <2>1. Held("watcher", "register", shadow[e]) \in
          [by : {"watcher", "monitor"}, at : {"register", "unregister", "switch"},
           new : 1..MaxLaunches]
    BY <1>1, <1>4, BoundsArePositive DEF EngineTypes, WatcherPromotes, Held, PidOrNone
  <2>2. EngineTypes'
    BY <1>1, <1>4, <2>1 DEF EngineTypes, WatcherPromotes
  <2>3. JobTypes' /\ UNCHANGED monitor
    BY <1>1, <1>4, JobUnchanged DEF WatcherPromotes, manager
  <2>. QED  BY <1>1, <2>2, <2>3, TypePartsNext DEF MonitorStates
<1>5. CASE RegisterShadow(e)
  <2>1. <<e, promotion[e].new>> \in Pids
    BY <1>1, <1>5 DEF EngineTypes, RegisterShadow, Free, Pids
  <2>2. EngineTypes'
    BY <1>1, <1>5, <2>1 DEF EngineTypes, RegisterShadow, Free
  <2>3. JobTypes' /\ UNCHANGED monitor
    BY <1>1, <1>5, JobUnchanged DEF RegisterShadow, manager
  <2>. QED  BY <1>1, <2>2, <2>3, TypePartsNext DEF MonitorStates
<1>6. CASE UnregisterPrimary(e)
  <2>2. EngineTypes'
    BY <1>1, <1>6 DEF EngineTypes, UnregisterPrimary, Free
  <2>3. JobTypes' /\ UNCHANGED monitor
    BY <1>1, <1>6, JobUnchanged DEF UnregisterPrimary, manager
  <2>. QED  BY <1>1, <2>2, <2>3, TypePartsNext DEF MonitorStates
<1>7. CASE SwitchProcess(e)
  <2>2. EngineTypes'
    BY <1>1, <1>7, BoundsArePositive DEF EngineTypes, SwitchProcess, Killed,
         PidOrNone
  <2>3. JobTypes'
    BY <1>1, <1>7, JobUnchanged DEF SwitchProcess
  <2>4. monitor' \in MonitorStates
    BY <1>1, <1>7, EnginePassed DEF SwitchProcess
  <2>. QED  BY <2>2, <2>3, <2>4, TypePartsNext DEF MonitorStates
<1>. QED  BY <1>4, <1>5, <1>6, <1>7 DEF EngineStep

\* The steps of the health monitor.
LEMMA TypeMonitor ==
  ASSUME TypeInv, MonitorStep
  PROVE  TypeInv'
<1>1. EngineTypes /\ monitor \in MonitorStates /\ JobTypes
  BY TypeParts
<1>s. Monitored => JobTypes'
  BY <1>1, JobUnchanged DEF Monitored
<1>t. EngineTypes' /\ monitor' \in MonitorStates /\ JobTypes' => TypeInv'
  BY TypePartsNext DEF MonitorStates
<1>2. CASE StartPass
  <2>1. monitor' \in MonitorStates
    BY <1>1, <1>2 DEF MonitorStates, StartPass, Empty
  <2>. QED  BY <1>1, <1>2, <1>s, <1>t, <2>1, EnginesUnchanged DEF StartPass
<1>3. CASE EndPass
  <2>1. monitor' \in MonitorStates
    BY <1>1, <1>3 DEF MonitorStates, EndPass
  <2>. QED  BY <1>1, <1>3, <1>s, <1>t, <2>1, EnginesUnchanged DEF EndPass
<1>4. ASSUME NEW e \in Engines, CheckEngine(e) PROVE TypeInv'
  <2>1. /\ [monitor EXCEPT !.todo = @ \ {e}, !.failed = @ \union {e}] \in MonitorStates
        /\ [monitor EXCEPT !.at = "promoting", !.engine = e] \in MonitorStates
    BY <1>1 DEF MonitorStates
  <2>2. monitor' \in MonitorStates
    BY <1>1, <1>4, <2>1, FailureCounted, EnginePassed DEF CheckEngine
  <2>. QED  BY <1>1, <1>4, <1>s, <1>t, <2>2, EnginesUnchanged DEF CheckEngine
<1>5. ASSUME NEW e \in Engines, MonitorPromotes(e) PROVE TypeInv'
  <2>1. [monitor EXCEPT !.at = "checking", !.todo = @ \ {e},
        !.failed = @ \union {e}] \in MonitorStates
    BY <1>1 DEF MonitorStates
  <2>2. monitor' \in MonitorStates
    BY <1>1, <1>5, <2>1, EnginePassed DEF MonitorPromotes
  <2>3. EngineTypes'
    <3>1. ShadowReady(e) => Held("monitor", "register", shadow[e]) \in
          [by : {"watcher", "monitor"}, at : {"register", "unregister", "switch"},
           new : 1..MaxLaunches]
      BY <1>1, BoundsArePositive DEF EngineTypes, ShadowReady, Held, PidOrNone
    <3>. QED  BY <1>1, <1>5, <3>1 DEF EngineTypes, MonitorPromotes
  <2>. QED  BY <1>5, <1>s, <1>t, <2>2, <2>3 DEF MonitorPromotes
<1>6. ASSUME NEW e \in Engines, ShutdownUnregisters(e) PROVE TypeInv'
  <2>2. monitor' \in MonitorStates
    BY <1>1, <1>6 DEF MonitorStates, ShutdownUnregisters
  <2>3. EngineTypes'
    <3>1. promotion[e] # Free => <<e, promotion[e].new>> \in Pids
      BY <1>1 DEF EngineTypes, Pids
    <3>. QED  BY <1>1, <1>6, <3>1 DEF EngineTypes, ShutdownUnregisters
  <2>. QED  BY <1>6, <1>s, <1>t, <2>2, <2>3 DEF ShutdownUnregisters
<1>7. ASSUME NEW e \in Engines, ShutdownKillsProcess(e) PROVE TypeInv'
  <2>2. monitor' \in MonitorStates
    BY <1>1, <1>7 DEF MonitorStates, ShutdownKillsProcess
  <2>3. EngineTypes'
    BY <1>1, <1>7 DEF EngineTypes, ShutdownKillsProcess, Killed
  <2>. QED  BY <1>7, <1>s, <1>t, <2>2, <2>3 DEF ShutdownKillsProcess
<1>a. ASSUME NEW e \in Engines, ShutdownKillsShadow(e) PROVE TypeInv'
  <2>2. monitor' \in MonitorStates
    BY <1>1, <1>a DEF MonitorStates, ShutdownKillsShadow
  <2>3. EngineTypes'
    BY <1>1, <1>a, BoundsArePositive DEF EngineTypes, ShutdownKillsShadow, Killed, PidOrNone
  <2>. QED  BY <1>a, <1>s, <1>t, <2>2, <2>3 DEF ShutdownKillsShadow
<1>8. ASSUME NEW e \in Engines, KillActor(e) PROVE TypeInv'
  <2>2. monitor' \in MonitorStates
    BY <1>1, <1>8 DEF MonitorStates, KillActor
  <2>3. EngineTypes'
    BY <1>1, <1>8 DEF EngineTypes, KillActor
  <2>. QED  BY <1>8, <1>s, <1>t, <2>2, <2>3 DEF KillActor
<1>9. ASSUME NEW e \in Engines, DropEngine(e) PROVE TypeInv'
  <2>2. monitor' \in MonitorStates
    BY <1>1, <1>9 DEF MonitorStates, DropEngine
  <2>3. EngineTypes'
    BY <1>1, <1>9, BoundsArePositive DEF EngineTypes, DropEngine, PidOrNone
  <2>. QED  BY <1>9, <1>s, <1>t, <2>2, <2>3 DEF DropEngine
<1>. QED  BY <1>2, <1>3, <1>4, <1>5, <1>6, <1>7, <1>a, <1>8, <1>9 DEF MonitorStep

\* New actors name processes that have been launched.
LEMMA StartedTypes ==
  ASSUME EngineTypes, JobTypes, NEW new \in SUBSET Engines, Started(new)
  PROVE EngineTypes'
<1>. USE DEF EngineTypes
<1>1. Needed \in {1, 2} /\ options.fast \in BOOLEAN /\ (options.fast => Needed = 2)
  BY OptionsAreSettings DEF JobTypes, Needed
<1>2. \A e \in Engines : launches[e] \in Nat
  BY BoundsArePositive DEF PidOrNone
<1>3. \A e \in new : \A n \in (launches[e] + 1)..(launches[e] + Needed) : n \in 1..MaxLaunches
  BY <1>1, <1>2, BoundsArePositive DEF Started
<1>4. \A e \in new : /\ launches[e] + Needed \in PidOrNone
                     /\ launches[e] + 1 \in 1..MaxLaunches /\ launches[e] + 1 \in PidOrNone
                     /\ options.fast => launches[e] + 2 \in PidOrNone /\ launches[e] + 2 # 0
  BY <1>1, <1>2, BoundsArePositive DEF Started, PidOrNone
<1>5. slot' \in [Engines -> {"empty", "starting", "up", "dead"}]
      /\ UNCHANGED <<pending, promotion, overtaken>>
  BY DEF Started
<1>6. launches' \in [Engines -> PidOrNone] /\ actor' \in [Engines -> PidOrNone]
  BY <1>4 DEF Started
<1>7. process' \in [Engines -> PidOrNone]
  BY <1>4 DEF Started
<1>8. shadow' \in [Engines -> PidOrNone]
  BY <1>4 DEF Started
<1>9. watching' \in [Engines -> BOOLEAN]
  BY <1>1 DEF Started
<1>10. alive' \subseteq Pids
  BY <1>3 DEF Started, Pids
<1>11. healthy' \subseteq alive'
  BY DEF Started
<1>12. registered' \subseteq Pids
  BY <1>4 DEF Started, Pids
<1>13. EngineTypes'
  BY <1>5, <1>6, <1>7, <1>8, <1>9, <1>10, <1>11, <1>12
<1>. QED  BY <1>13

\* recover_rollout_engines returns or raises.
LEMMA RecoveryReturned ==
  ASSUME monitor \in MonitorStates, rank \in [Ranks -> RankStates], NEW w \in Threads,
            NEW raises \in BOOLEAN,
         RecoveryReturns(w, raises)
  PROVE monitor' \in MonitorStates /\ rank' \in [Ranks -> RankStates]
<1>1. CASE w = "monitor"
  BY <1>1 DEF RecoveryReturns, MonitorStates
<1>2. CASE w # "monitor"
  BY <1>2 DEF RecoveryReturns, RankStates
<1>. QED  BY <1>1, <1>2

\* The steps of a recovery.
LEMMA TypeRecovery ==
  ASSUME TypeInv, NEW w \in Threads, RecoveryStep(w)
  PROVE  TypeInv'
<1>1. EngineTypes /\ monitor \in MonitorStates /\ JobTypes
  BY TypeParts
<1>2. rank \in [Ranks -> RankStates] /\ recovery \in [Threads -> RecoveryStates]
  BY <1>1 DEF JobTypes, RankStates, RecoveryStates
<1>t. EngineTypes' /\ monitor' \in MonitorStates /\ JobTypes' => TypeInv'
  BY TypePartsNext DEF MonitorStates
<1>3. CASE RecoveryLooks(w)
  <2>1. monitor' \in MonitorStates /\ rank' \in [Ranks -> RankStates]
    BY <1>1, <1>2, <1>3, RecoveryReturned DEF RecoveryLooks
  <2>2. recovery' \in [Threads -> RecoveryStates]
    <3>1. Empty \in SUBSET Engines
      BY DEF Empty
    <3>2. \/ UNCHANGED recovery
          \/ recovery' = [recovery EXCEPT ![w] = [at |-> "looked", dead |-> Empty, new |-> {}]]
      BY <1>3 DEF RecoveryLooks
    <3>. QED  BY <1>2, <3>1, <3>2 DEF RecoveryStates
  <2>3. JobTypes'
    BY <1>1, <1>3, <2>1, <2>2 DEF JobTypes, RankStates, RecoveryStates, RecoveryLooks
  <2>. QED  BY <1>1, <1>3, <1>t, <2>1, <2>3, EnginesUnchanged DEF RecoveryLooks
<1>4. CASE RecoveryLaunches(w)
  <2>2. recovery' \in [Threads -> RecoveryStates]
    BY <1>2, <1>4 DEF RecoveryLaunches, RecoveryStates, Empty
  <2>3. JobTypes'
    BY <1>1, <1>4, <2>2 DEF JobTypes, RankStates, RecoveryStates, RecoveryLaunches, trainer
  <2>4. EngineTypes'
    BY <1>1, <1>4 DEF EngineTypes, RecoveryLaunches
  <2>. QED  BY <1>1, <1>4, <1>t, <2>3, <2>4 DEF RecoveryLaunches
<1>5. CASE RecoveryEnds(w)
  <2>0. recovery[w].new \in SUBSET Engines
    BY <1>2 DEF RecoveryStates
  <2>1. monitor' \in MonitorStates /\ rank' \in [Ranks -> RankStates]
    <3>1. PICK raises \in BOOLEAN : RecoveryReturns(w, raises)
      BY <1>5 DEF RecoveryEnds
    <3>. QED  BY <1>1, <1>2, <3>1, RecoveryReturned
  <2>2. recovery' \in [Threads -> RecoveryStates]
    BY <1>2, <1>5 DEF RecoveryEnds, RecoveryStates
  <2>3. num_new_engines' \in Nat
    BY <1>5, <2>0, CountIsNat DEF RecoveryEnds
  <2>4. JobTypes'
    BY <1>1, <1>5, <2>1, <2>2, <2>3 DEF JobTypes, RankStates, RecoveryStates, RecoveryEnds
  <2>5. EngineTypes'
    BY <1>1, <1>5, <2>0, StartedTypes DEF RecoveryEnds
  <2>. QED  BY <1>t, <2>1, <2>4, <2>5
<1>. QED  BY <1>3, <1>4, <1>5 DEF RecoveryStep

\* A collection adds to both counts.
LEMMA CollectedTypes ==
  ASSUME EngineTypes, num_new_engines \in Nat, pending_reconnects \in Nat,
            Collected
  PROVE EngineTypes' /\ num_new_engines' \in Nat /\ pending_reconnects' \in Nat
<1>1. EngineTypes'
  BY DEF EngineTypes, Collected
<1>. DEFINE Up == {e \in Engines : slot[e] = "up"}
           count == IF Up = Listed THEN Cardinality({e \in Up : pending[e]}) ELSE 0
<1>2. Cardinality({e \in Up : pending[e]}) \in Nat
  BY CountIsNat
<1>3. count \in Nat
  BY <1>2
<1>4. /\ num_new_engines' = num_new_engines + count
      /\ pending_reconnects' = pending_reconnects + count
  BY DEF Collected
<1>. QED  BY <1>1, <1>3, <1>4

\* get_rollout_engines_and_lock and the debug state.
LEMMA TypeRanks ==
  ASSUME TypeInv, NEW r \in Ranks, RankStep(r)
  PROVE  TypeInv'
<1>1. EngineTypes /\ monitor \in MonitorStates /\ JobTypes
  BY TypeParts
<1>2. rank \in [Ranks -> RankStates] /\ num_new_engines \in Nat /\ pending_reconnects \in Nat
  BY <1>1 DEF JobTypes, RankStates
<1>t. EngineTypes' /\ monitor' \in MonitorStates /\ JobTypes' => TypeInv'
  BY TypePartsNext DEF MonitorStates
<1>3. CASE GetEngines(r)
  <2>1. EngineTypes' /\ num_new_engines' \in Nat /\ pending_reconnects' \in Nat
    BY <1>1, <1>2, <1>3, CollectedTypes DEF GetEngines
  <2>2. rank' \in [Ranks -> RankStates]
    BY <1>2, <1>3, <2>1 DEF GetEngines, RankStates
  <2>3. handles' \in [Engines -> PidOrNone]
    BY <1>1, <1>3 DEF GetEngines, JobTypes, EngineTypes
  <2>4. JobTypes'
    BY <1>1, <1>3, <2>1, <2>2, <2>3 DEF GetEngines, JobTypes, RankStates
  <2>. QED  BY <1>1, <1>3, <1>t, <2>1, <2>4 DEF GetEngines
<1>4. CASE GetDebugState(r)
  <2>1. EngineTypes' /\ num_new_engines' \in Nat /\ pending_reconnects' \in Nat
    BY <1>1, <1>2, <1>4, CollectedTypes DEF GetDebugState
  <2>2. rank' \in [Ranks -> RankStates]
    BY <1>2, <1>4, <2>1 DEF GetDebugState, RankStates
  <2>4. JobTypes'
    BY <1>1, <1>4, <2>1, <2>2 DEF GetDebugState, JobTypes, RankStates
  <2>. QED  BY <1>1, <1>4, <1>t, <2>1, <2>4 DEF GetDebugState
<1>. QED  BY <1>3, <1>4 DEF RankStep

\* A rank outside update_weights.
LEMMA IdleRanks == Idle \in [Ranks -> RankStates]
BY DEF Idle, RankStates

\* The next rollout is one of those there are.
LEMMA NextRolloutTypes ==
  ASSUME JobTypes, NextRollout
  PROVE /\ phase' \in {"eval", "generate", "done"}
        /\ rollout_id' \in -1..(MaxRollouts - 1) /\ checking' \in BOOLEAN
<1>1. rollout_id \in -1..(MaxRollouts - 1) /\ checking \in BOOLEAN
  BY DEF JobTypes
<1>2. rollout_id + 1 # MaxRollouts => rollout_id + 1 \in -1..(MaxRollouts - 1)
  BY <1>1, BoundsArePositive
<1>. QED  BY <1>1, <1>2 DEF NextRollout

\* The steps of the trainer and of the driver.
LEMMA TypeJob ==
  ASSUME TypeInv, Connect \/ Clear \/ SendWeights \/ EvaluationEnds \/ RolloutEnds
                     \/ OffloadEnds \/ TrainingEnds \/ OnloadEnds
  PROVE  TypeInv'
<1>1. EngineTypes /\ monitor \in MonitorStates /\ JobTypes
  BY TypeParts
<1>2. rank \in [Ranks -> RankStates] /\ num_new_engines \in Nat /\ pending_reconnects \in Nat
  BY <1>1 DEF JobTypes, RankStates
<1>t. /\ UNCHANGED actors /\ UNCHANGED monitor /\ JobTypes' => TypeInv'
  BY <1>1, TypePartsNext, EnginesUnchanged DEF MonitorStates
<1>3. CASE Connect
  <2>1. rank' \in [Ranks -> RankStates]
    BY <1>2, <1>3 DEF Connect, RankStates
  <2>2. connected' \in [Engines -> PidOrNone]
    BY <1>1, <1>3 DEF Connect, JobTypes, EngineTypes
  <2>3. JobTypes'
    BY <1>1, <1>3, <2>1, <2>2 DEF Connect, Trained, JobTypes, RankStates
  <2>. QED  BY <1>3, <1>t, <2>3 DEF Connect, Trained
<1>4. CASE Clear
  <2>1. rank' \in [Ranks -> RankStates]
    BY <1>2, <1>4 DEF Clear, RankStates
  <2>2. rank[Main].num_new \in Nat
    BY <1>2, MainIsARank DEF RankStates
  <2>3. num_new_engines' \in Nat /\ pending_reconnects' \in Nat
    BY <1>2, <1>4, <2>2 DEF Clear
  <2>4. JobTypes'
    BY <1>1, <1>4, <2>1, <2>3 DEF Clear, Trained, JobTypes, RankStates
  <2>. QED  BY <1>4, <1>t, <2>4 DEF Clear, Trained
<1>5. CASE SendWeights
  <2>1. CASE Sent
    <3>1. rank' \in [Ranks -> RankStates]
      BY <1>5, <2>1, IdleRanks DEF SendWeights
    <3>2. /\ phase' \in {"onload", "eval", "generate", "done"}
          /\ rollout_id' \in -1..(MaxRollouts - 1) /\ checking' \in BOOLEAN
      <4>1. CASE options.offload
        BY <1>1, <1>5, <2>1, <4>1 DEF SendWeights, JobTypes
      <4>2. CASE ~options.offload
        BY <1>1, <1>5, <2>1, <4>2, NextRolloutTypes DEF SendWeights
      <4>. QED  BY <4>1, <4>2
    <3>3. JobTypes'
      BY <1>1, <1>5, <3>1, <3>2 DEF SendWeights, JobTypes, RankStates
    <3>. QED  BY <1>5, <1>t, <3>3 DEF SendWeights
  <2>2. CASE ~Sent
    <3>1. rank' \in [Ranks -> RankStates]
      BY <1>2, <1>5, <2>2 DEF SendWeights, RankStates
    <3>3. JobTypes'
      BY <1>1, <1>5, <2>2, <3>1 DEF SendWeights, JobTypes, RankStates
    <3>. QED  BY <1>5, <1>t, <3>3 DEF SendWeights
  <2>. QED  BY <2>1, <2>2
<1>6. CASE EvaluationEnds
  <2>1. /\ phase' \in {"eval", "generate", "done"}
        /\ rollout_id' \in -1..(MaxRollouts - 1) /\ checking' \in BOOLEAN
    BY <1>1, <1>6, NextRolloutTypes DEF EvaluationEnds
  <2>2. JobTypes'
    BY <1>1, <1>6, <2>1 DEF EvaluationEnds, Driven, JobTypes
  <2>. QED  BY <1>6, <1>t, <2>2 DEF EvaluationEnds, Driven
<1>7. CASE RolloutEnds
  <2>2. JobTypes'
    BY <1>1, <1>7 DEF RolloutEnds, Driven, JobTypes
  <2>. QED  BY <1>7, <1>t, <2>2 DEF RolloutEnds, Driven
<1>8. CASE TrainingEnds
  <2>1. rank' \in [Ranks -> RankStates]
    BY <1>2, <1>8, IdleRanks DEF TrainingEnds, RankStates
  <2>2. begun' \in [Engines -> PidOrNone] /\ phase' \in {"update", "raised"}
    BY <1>1, <1>8 DEF TrainingEnds, EngineTypes, JobTypes
  <2>3. JobTypes'
    BY <1>1, <1>8, <2>1, <2>2 DEF TrainingEnds, Driven, JobTypes, RankStates
  <2>. QED  BY <1>8, <1>t, <2>3 DEF TrainingEnds, Driven
<1>9. CASE OffloadEnds
  <2>2. JobTypes'
    BY <1>1, <1>9 DEF OffloadEnds, Driven, JobTypes
  <2>. QED  BY <1>9, <1>t, <2>2 DEF OffloadEnds, Driven
<1>10. CASE OnloadEnds
  <2>1. /\ phase' \in {"eval", "generate", "done", "raised"}
        /\ rollout_id' \in -1..(MaxRollouts - 1) /\ checking' \in BOOLEAN
    BY <1>1, <1>10, NextRolloutTypes DEF OnloadEnds, JobTypes
  <2>2. JobTypes'
    BY <1>1, <1>10, <2>1 DEF OnloadEnds, Driven, JobTypes
  <2>. QED  BY <1>10, <1>t, <2>2 DEF OnloadEnds, Driven
<1>. QED  BY <1>3, <1>4, <1>5, <1>6, <1>7, <1>8, <1>9, <1>10

\* Every step keeps the types.
LEMMA TypeNext ==
  ASSUME TypeInv, [Next]_vars
  PROVE  TypeInv'
<1>1. ASSUME NEW p \in Pids, Crash(p) \/ Hang(p) \/ Answers(p) PROVE TypeInv'
  BY <1>1, TypeFaults
<1>2. ASSUME NEW e \in Engines, EngineStep(e) PROVE TypeInv'
  BY <1>2, TypeEngines
<1>3. CASE MonitorStep
  BY <1>3, TypeMonitor
<1>4. ASSUME NEW w \in Threads, RecoveryStep(w) PROVE TypeInv'
  BY <1>4, TypeRecovery
<1>5. ASSUME NEW r \in Ranks, RankStep(r) PROVE TypeInv'
  BY <1>5, TypeRanks
<1>6. CASE \/ Connect \/ Clear \/ SendWeights \/ EvaluationEnds \/ RolloutEnds
           \/ OffloadEnds \/ TrainingEnds \/ OnloadEnds
  BY <1>6, TypeJob
<1>7. CASE UNCHANGED vars
  BY <1>7 DEF TypeInv, TypeOK, vars, actors, manager, trainer
<1>. QED  BY <1>1, <1>2, <1>3, <1>4, <1>5, <1>6, <1>7 DEF Next

\* All variables are typed in every job, with or without offload_rollout; in particular
\* clear_num_new_engines never takes the count below zero.
THEOREM TypeCorrect == Spec => []TypeOK
<1>1. Init => TypeInv
  BY TypeInit
<1>2. TypeInv /\ [Next]_vars => TypeInv'
  BY TypeNext
<1>3. TypeInv => TypeOK
  BY DEF TypeInv
<1>. QED  BY <1>1, <1>2, <1>3, PTL DEF Spec
-----------------------------------------------------------------------------
(***************************************************************************)
(* Who works when, and on which engine.                                    *)
(***************************************************************************)
\* The first update, during which the monitor is paused.
LEMMA JobInit == Init => Paused /\ MonitorKnows /\ SlotsConsistent
<1>. SUFFICES ASSUME Init PROVE Paused /\ MonitorKnows /\ SlotsConsistent
  OBVIOUS
<1>1. Paused
  BY DEF Init, Paused, Idle, Threads
<1>2. MonitorKnows
  BY DEF Init, MonitorKnows
<1>3. SlotsConsistent
  BY DEF Init, SlotsConsistent, ProcessesConsistent, Filling, Filled, Ending, Threads, Needed
<1>. QED  BY <1>1, <1>2, <1>3

\* What a step leaves alone stays consistent.
LEMMA ConsistentKept ==
  ASSUME NEW e \in Engines, ProcessesConsistent(e), Ending(e)' <=> Ending(e),
         slot'[e] = slot[e], process'[e] = process[e], shadow'[e] = shadow[e],
         launches'[e] = launches[e], promotion'[e] = promotion[e]
  PROVE  ProcessesConsistent(e)'
BY DEF ProcessesConsistent

\* So does a step that leaves all slots alone and is not the last of a shutdown.
LEMMA SlotsKept ==
  ASSUME SlotsConsistent, UNCHANGED <<options, slot, process, shadow, launches, promotion, recovery>>,
         UNCHANGED monitor \/ (monitor.at # "ended" /\ monitor'.at # "ended")
  PROVE  SlotsConsistent'
<1>1. \A e \in Engines : Ending(e)' <=> Ending(e)
  BY DEF Ending
<1>2. \A e \in Engines : ProcessesConsistent(e)'
  BY <1>1 DEF SlotsConsistent, ProcessesConsistent
<1>. QED  BY <1>2 DEF SlotsConsistent, Filling, Filled, Empty

\* An actor that is not being started may go while a recovery works.
LEMMA FillingKept ==
  ASSUME JobTypes, SlotsConsistent, UNCHANGED <<options, recovery>>,
         \A e \in Engines : slot[e] = "starting" => slot'[e] = "starting",
         options.offload => \A w \in Threads : recovery[w].at = "idle"
  PROVE  \A w \in Threads : Filling(w)' /\ Filled(w)'
<1>. SUFFICES ASSUME NEW w \in Threads PROVE Filling(w)' /\ Filled(w)'
  OBVIOUS
<1>1. recovery[w].new \subseteq Engines
  BY DEF JobTypes
<1>2. Filling(w)'
  BY <1>1 DEF SlotsConsistent, Filling
<1>3. Filled(w)'
  BY DEF Filled
<1>. QED  BY <1>2, <1>3

\* A fault is of a process, and none of this is about those that live.
LEMMA JobFaults ==
  ASSUME JobInv, NEW p \in Pids, Crash(p) \/ Hang(p) \/ Answers(p)
  PROVE  Paused' /\ MonitorKnows' /\ SlotsConsistent'
<1>1. UNCHANGED <<options, slot, process, shadow, launches, promotion, monitor, checking,
                   recovery, phase, rank>>
  BY DEF Crash, Hang, Answers, manager, trainer
<1>2. Paused' /\ MonitorKnows'
  BY <1>1 DEF JobInv, Paused, MonitorKnows
<1>3. SlotsConsistent'
  BY <1>1, SlotsKept DEF JobInv
<1>. QED  BY <1>2, <1>3

\* The steps of a handover: its shadow becomes the process, unless a shutdown has taken it.
LEMMA JobEngines ==
  ASSUME JobInv, NEW e \in Engines, EngineStep(e)
  PROVE  Paused' /\ MonitorKnows' /\ SlotsConsistent'
<1>1. EngineTypes /\ monitor \in MonitorStates /\ JobTypes
      /\ Paused /\ MonitorKnows /\ SlotsConsistent
  BY TypeParts DEF JobInv
<1>2. CASE WatcherPromotes(e)
  <2>1. /\ UNCHANGED <<options, slot, process, shadow, launches, monitor, checking, recovery,
                       phase, rank>>
        /\ slot[e] = "up" /\ shadow[e] # 0
        /\ promotion' = [promotion EXCEPT ![e] = Held("watcher", "register", shadow[e])]
    BY <1>2 DEF WatcherPromotes, manager, trainer
  <2>2. promotion'[e].by = "watcher" /\ promotion'[e].new = shadow[e]
        /\ \A i \in Engines \ {e} : promotion'[i] = promotion[i]
    BY <1>1, <2>1 DEF EngineTypes, Held
  <2>3. Paused' /\ MonitorKnows'
    BY <1>1, <2>1, <2>2 DEF Paused, MonitorKnows
  <2>4. ProcessesConsistent(e)'
    BY <1>1, <2>1, <2>2 DEF SlotsConsistent, ProcessesConsistent, Ending
  <2>5. \A i \in Engines \ {e} : ProcessesConsistent(i)'
    BY <1>1, <2>1, <2>2, ConsistentKept DEF SlotsConsistent, Ending
  <2>6. SlotsConsistent'
    BY <1>1, <2>1, <2>4, <2>5 DEF SlotsConsistent, Filling, Filled, Empty
  <2>. QED  BY <2>3, <2>6
<1>3. CASE RegisterShadow(e) \/ UnregisterPrimary(e)
  <2>0. promotion[e] # Free
    BY <1>3, <1>1 DEF RegisterShadow, UnregisterPrimary, Free
  <2>1. UNCHANGED <<options, slot, process, shadow, launches, monitor, checking, recovery,
                    phase, rank>>
    BY <1>3 DEF RegisterShadow, UnregisterPrimary, manager, trainer
  <2>2. /\ promotion'[e].by = promotion[e].by /\ promotion'[e].new = promotion[e].new
        /\ \A i \in Engines \ {e} : promotion'[i] = promotion[i]
    BY <1>1, <1>3, <2>0 DEF EngineTypes, RegisterShadow, UnregisterPrimary
  <2>3. Paused' /\ MonitorKnows'
    BY <1>1, <2>0, <2>1, <2>2 DEF Paused, MonitorKnows
  <2>4. ProcessesConsistent(e)'
    BY <1>1, <2>0, <2>1, <2>2 DEF SlotsConsistent, ProcessesConsistent, Ending
  <2>5. \A i \in Engines \ {e} : ProcessesConsistent(i)'
    BY <1>1, <2>1, <2>2, ConsistentKept DEF SlotsConsistent, Ending
  <2>6. SlotsConsistent'
    BY <1>1, <2>1, <2>4, <2>5 DEF SlotsConsistent, Filling, Filled, Empty
  <2>. QED  BY <2>3, <2>6
<1>4. CASE SwitchProcess(e)
  <2>0. promotion[e] # Free /\ slot[e] = "up" /\ promotion[e].new \in 1..MaxLaunches
        /\ (promotion[e].by = "monitor" => monitor.at = "promoting" /\ monitor.engine = e)
    BY <1>4, <1>1 DEF SwitchProcess, Free, MonitorKnows, EngineTypes
  <2>1. /\ UNCHANGED <<options, slot, launches, checking, recovery, phase, rank>>
        /\ process' = [process EXCEPT ![e] = shadow[e]]
        /\ shadow' = [shadow EXCEPT ![e] = 0]
        /\ promotion' = [promotion EXCEPT ![e] = Free]
    BY <1>4 DEF SwitchProcess, trainer
  <2>m. \/ UNCHANGED monitor
        \/ /\ monitor.at = "promoting" /\ monitor.engine = e
           /\ monitor'.at = "checking" /\ monitor'.failed = monitor.failed
    <3>1. CASE promotion[e].by = "monitor"
      BY <1>1, <1>4, <2>0, <3>1 DEF SwitchProcess, PassedOver, MonitorStates
    <3>2. CASE promotion[e].by # "monitor"
      BY <1>4, <3>2 DEF SwitchProcess
    <3>. QED  BY <3>1, <3>2
  <2>2. Paused'
    BY <1>1, <2>1, <2>m DEF Paused, MonitorKnows
  <2>3. /\ process'[e] = shadow[e] /\ shadow'[e] = 0 /\ promotion'[e] = Free
        /\ \A i \in Engines \ {e} : /\ process'[i] = process[i] /\ shadow'[i] = shadow[i]
                                   /\ promotion'[i] = promotion[i]
    BY <1>1, <2>1 DEF EngineTypes
  <2>4. \A i \in Engines : Ending(i)' <=> Ending(i)
    BY <2>m DEF Ending
  <2>5. ProcessesConsistent(e)'
    <3>1. CASE Ending(e)
      <4>1. shadow[e] = 0
        BY <1>1, <3>1 DEF SlotsConsistent, ProcessesConsistent
      <4>. QED  BY <1>1, <2>0, <2>1, <2>3, <2>4, <3>1, <4>1, BoundsArePositive
           DEF ProcessesConsistent, EngineTypes, PidOrNone
    <3>2. CASE ~Ending(e)
      <4>1. shadow[e] \in 1..launches[e] /\ launches[e] \in Nat
        <5>1. shadow[e] = promotion[e].new /\ shadow[e] \in 0..launches[e]
              /\ launches[e] \in Nat
          BY <1>1, <2>0, <3>2, BoundsArePositive
          DEF SlotsConsistent, ProcessesConsistent, EngineTypes, PidOrNone
        <5>. QED  BY <2>0, <5>1
      <4>. QED  BY <2>0, <2>1, <2>3, <2>4, <3>2, <4>1 DEF ProcessesConsistent
    <3>. QED  BY <3>1, <3>2
  <2>6. \A i \in Engines \ {e} : ProcessesConsistent(i)'
    BY <1>1, <2>1, <2>3, <2>4, ConsistentKept DEF SlotsConsistent
  <2>7. SlotsConsistent'
    BY <1>1, <2>1, <2>5, <2>6 DEF SlotsConsistent, Filling, Filled, Empty
  <2>8. MonitorKnows'
    <3>1. \A i \in Engines : promotion'[i] # Free =>
          /\ slot'[i] = "up"
          /\ promotion'[i].by = "monitor" => monitor'.at = "promoting" /\ monitor'.engine = i
      <4>1. \A i \in Engines \ {e} : promotion'[i] # Free =>
          /\ slot'[i] = "up" /\ promotion[i] = promotion'[i]
          /\ promotion[i].by = "monitor" => monitor.at = "promoting" /\ monitor.engine = i
        BY <1>1, <2>1, <2>3 DEF MonitorKnows
      <4>. QED  BY <4>1, <2>3, <2>m
    <3>. QED  BY <1>1, <2>1, <2>m, <3>1 DEF MonitorKnows
  <2>. QED  BY <2>2, <2>7, <2>8
<1>. QED  BY <1>2, <1>3, <1>4 DEF EngineStep

\* Nobody else empties slots, and the one the monitor is killing is not being filled.
LEMMA JobMonitor ==
  ASSUME JobInv, MonitorStep
  PROVE  Paused' /\ MonitorKnows' /\ SlotsConsistent'
<1>1. EngineTypes /\ monitor \in MonitorStates /\ JobTypes
      /\ Paused /\ MonitorKnows /\ SlotsConsistent
  BY TypeParts DEF JobInv
<1>m. \A e \in Engines : promotion[e] # Free /\ ~(monitor.at = "promoting"
      /\ monitor.engine = e) => promotion[e].by # "monitor"
  BY <1>1 DEF MonitorKnows
<1>p. ASSUME Monitored, options.offload => phase # "update", recovery["monitor"].at = "idle"
      PROVE  Paused'
  BY <1>1, <1>p DEF Paused, Monitored, trainer
<1>q. ASSUME monitor.at \in {"checking", "promoting", "unregistered", "killed", "ended", "dropping"}
             \/ (monitor.at = "killing" /\ monitor.failed # {})
      PROVE /\ recovery["monitor"].at = "idle"
            /\ options.offload => phase # "update" /\ recovery["manager"].at = "idle"
  BY <1>q, <1>1, MainIsARank DEF Paused, JobTypes, Threads
<1>s. ASSUME UNCHANGED <<options, slot, process, shadow, launches, promotion, recovery>>,
             monitor.at # "ended", monitor'.at # "ended"
      PROVE SlotsConsistent'
  BY <1>1, <1>s, SlotsKept
<1>2. CASE StartPass
  <2>1. /\ monitor'.at = "checking" /\ monitor'.failed = {}
        /\ UNCHANGED actors /\ Monitored /\ monitor.at = "waiting"
    BY <1>1, <1>2 DEF StartPass, MonitorStates
  <2>2. recovery["monitor"].at = "idle" /\ (options.offload => phase # "update")
    BY <1>1, <1>2 DEF StartPass, Paused
  <2>3. MonitorKnows'
    BY <1>1, <1>2, <2>1 DEF MonitorKnows, StartPass, actors, Empty
  <2>. QED  BY <2>1, <2>2, <2>3, <1>p, <1>s DEF actors, Monitored
<1>3. CASE EndPass
  <2>1. /\ monitor'.at = (IF monitor.failed = {} THEN "waiting" ELSE "killing")
        /\ monitor'.failed = monitor.failed
        /\ UNCHANGED actors /\ Monitored /\ monitor.at = "checking"
    BY <1>1, <1>3 DEF EndPass, MonitorStates
  <2>3. MonitorKnows'
    BY <1>1, <1>3, <2>1 DEF MonitorKnows, EndPass, actors
  <2>. QED  BY <2>1, <2>3, <1>p, <1>q, <1>s DEF actors, Monitored
<1>4. ASSUME NEW e \in Engines, CheckEngine(e) PROVE Paused' /\ MonitorKnows' /\ SlotsConsistent'
  <2>1. \/ monitor'.at = "checking"
        \/ monitor'.at = "promoting" /\ monitor'.engine = e /\ slot[e] = "up"
    BY <1>1, <1>4 DEF CheckEngine, CountFailure, PassedOver, MonitorStates
  <2>3. monitor.at = "checking" /\ UNCHANGED actors /\ Monitored
    BY <1>4 DEF CheckEngine
  <2>5. MonitorKnows'
    BY <1>1, <2>1, <2>3 DEF MonitorKnows, actors
  <2>. QED  BY <2>1, <2>3, <2>5, <1>p, <1>q, <1>s DEF actors, Monitored
<1>5. ASSUME NEW e \in Engines, MonitorPromotes(e)
      PROVE  Paused' /\ MonitorKnows' /\ SlotsConsistent'
  <2>1. /\ monitor.at = "promoting" /\ monitor.engine = e /\ promotion[e] = Free /\ Monitored
        /\ slot[e] = "up"
        /\ UNCHANGED <<slot, process, shadow, launches>>
    BY <1>1, <1>5 DEF MonitorPromotes, MonitorKnows
  <2>2. \/ monitor'.at = "checking" /\ UNCHANGED promotion
        \/ /\ ShadowReady(e) /\ UNCHANGED monitor
           /\ promotion' = [promotion EXCEPT ![e] = Held("monitor", "register", shadow[e])]
    BY <1>1, <1>5 DEF MonitorPromotes, PassedOver, MonitorStates
  <2>3. CASE UNCHANGED promotion /\ monitor'.at = "checking"
    <3>1. \A i \in Engines : promotion[i] # Free =>
            slot[i] = "up" /\ promotion[i].by # "monitor"
      BY <1>1, <2>1, <1>m DEF MonitorKnows
    <3>2. MonitorKnows'
      BY <1>1, <2>1, <2>3, <3>1 DEF MonitorKnows
    <3>. QED  BY <2>1, <2>3, <3>2, <1>p, <1>q, <1>s DEF Monitored
  <2>4. CASE /\ ShadowReady(e) /\ UNCHANGED monitor
             /\ promotion' = [promotion EXCEPT ![e] = Held("monitor", "register", shadow[e])]
    <3>1. /\ promotion'[e].by = "monitor" /\ promotion'[e].new = shadow[e]
          /\ \A i \in Engines \ {e} : promotion'[i] = promotion[i]
      BY <1>1, <2>4 DEF EngineTypes, Held
    <3>2. MonitorKnows'
      BY <1>1, <2>1, <2>4, <3>1 DEF MonitorKnows
    <3>3. ProcessesConsistent(e)'
      BY <1>1, <2>1, <2>4, <3>1 DEF SlotsConsistent, ProcessesConsistent, Ending, ShadowReady
    <3>4. \A i \in Engines \ {e} : ProcessesConsistent(i)'
      BY <1>1, <2>1, <2>4, <3>1, ConsistentKept DEF SlotsConsistent, Ending
    <3>5. SlotsConsistent'
      BY <1>1, <2>1, <3>3, <3>4 DEF SlotsConsistent, Filling, Filled, Empty, Monitored
    <3>. QED  BY <2>1, <2>4, <3>2, <3>5, <1>p, <1>q
  <2>. QED  BY <2>2, <2>3, <2>4
<1>6. ASSUME NEW e \in Engines, ShutdownUnregisters(e)
      PROVE  Paused' /\ MonitorKnows' /\ SlotsConsistent'
  <2>1. /\ monitor.at = "killing" /\ e \in monitor.failed /\ Monitored
        /\ UNCHANGED <<slot, process, shadow, launches, promotion>>
    BY <1>6 DEF ShutdownUnregisters
  <2>2. \/ /\ slot[e] = "empty" /\ monitor'.at = "killing"
           /\ monitor'.failed = monitor.failed \ {e}
        \/ /\ slot[e] = "up" /\ monitor'.at = "unregistered" /\ monitor'.engine = e
           /\ monitor'.failed = monitor.failed
    BY <1>1, <1>6 DEF ShutdownUnregisters, MonitorStates
  <2>3. MonitorKnows'
    BY <1>1, <2>1, <2>2 DEF MonitorKnows
  <2>4. monitor'.at \in {"killing", "unregistered"} /\ monitor.failed # {}
    BY <2>1, <2>2
  <2>. QED  BY <2>1, <2>3, <2>4, <1>p, <1>q, <1>s DEF Monitored
<1>7. ASSUME NEW e \in Engines, ShutdownKillsProcess(e)
      PROVE  Paused' /\ MonitorKnows' /\ SlotsConsistent'
  <2>1. /\ monitor.at = "unregistered" /\ monitor.engine = e /\ Monitored
        /\ UNCHANGED <<slot, process, shadow, launches, promotion>>
    BY <1>7 DEF ShutdownKillsProcess
  <2>2. monitor'.at = "killed" /\ monitor'.engine = e /\ monitor'.failed = monitor.failed
    BY <1>1, <1>7 DEF ShutdownKillsProcess, MonitorStates
  <2>3. MonitorKnows'
    BY <1>1, <2>1, <2>2 DEF MonitorKnows
  <2>. QED  BY <2>1, <2>2, <2>3, <1>p, <1>q, <1>s DEF Monitored
<1>8. ASSUME NEW e \in Engines, ShutdownKillsShadow(e)
      PROVE  Paused' /\ MonitorKnows' /\ SlotsConsistent'
  <2>1. /\ monitor.at = "killed" /\ monitor.engine = e /\ Monitored
        /\ UNCHANGED <<slot, process, launches, promotion>>
        /\ shadow' = [shadow EXCEPT ![e] = 0]
    BY <1>8 DEF ShutdownKillsShadow
  <2>2. monitor'.at = "ended" /\ monitor'.engine = e /\ monitor'.failed = monitor.failed
    BY <1>1, <1>8 DEF ShutdownKillsShadow, MonitorStates
  <2>3. MonitorKnows'
    BY <1>1, <2>1, <2>2 DEF MonitorKnows
  <2>4. shadow'[e] = 0 /\ slot[e] = "up" /\ \A i \in Engines \ {e} : shadow'[i] = shadow[i]
    BY <1>1, <2>1 DEF EngineTypes, MonitorKnows
  <2>5. ProcessesConsistent(e)'
    <3>1. process[e] \in 1..launches[e] /\ launches[e] \in Nat
          /\ (promotion[e] # Free => promotion[e].new # process[e])
      BY <1>1, <2>1, <2>4, BoundsArePositive
      DEF SlotsConsistent, ProcessesConsistent, Ending, EngineTypes, PidOrNone
    <3>. QED  BY <2>1, <2>2, <2>4, <3>1 DEF ProcessesConsistent, Ending
  <2>6. \A i \in Engines \ {e} : ProcessesConsistent(i)'
    BY <1>1, <2>1, <2>2, <2>4, ConsistentKept DEF SlotsConsistent, Ending
  <2>7. SlotsConsistent'
    BY <1>1, <2>1, <2>5, <2>6 DEF SlotsConsistent, Filling, Filled, Empty, Monitored
  <2>. QED  BY <2>1, <2>3, <2>7, <1>p, <1>q
<1>9. ASSUME NEW e \in Engines, KillActor(e) PROVE Paused' /\ MonitorKnows' /\ SlotsConsistent'
  <2>1. /\ monitor.at = "ended" /\ monitor.engine = e /\ Monitored
        /\ UNCHANGED <<process, shadow, launches>>
        /\ slot' = [slot EXCEPT ![e] = "dead"]
        /\ promotion' = [promotion EXCEPT ![e] = Free]
    BY <1>9 DEF KillActor
  <2>2. monitor'.at = "dropping" /\ monitor'.engine = e /\ monitor'.failed = monitor.failed
    BY <1>1, <1>9 DEF KillActor, MonitorStates
  <2>a. slot[e] = "up" /\ shadow[e] = 0
    BY <1>1, <2>1 DEF MonitorKnows, SlotsConsistent, ProcessesConsistent, Ending
  <2>b. \A i \in Engines \ {e} : slot'[i] = slot[i] /\ promotion'[i] = promotion[i]
    BY <1>1, <2>1 DEF EngineTypes
  <2>c. slot'[e] = "dead" /\ promotion'[e] = Free
    BY <1>1, <2>1 DEF EngineTypes
  <2>3. MonitorKnows'
    <3>3. \A i \in Engines : promotion'[i] # Free =>
          slot'[i] = "up" /\ promotion'[i].by # "monitor"
      BY <1>1, <1>m, <2>1, <2>b, <2>c DEF MonitorKnows
    <3>4. \A i \in Engines : slot'[i] = "dead" <=> i = e
      BY <1>1, <2>1, <2>b, <2>c DEF MonitorKnows
    <3>. QED  BY <1>1, <2>1, <2>2, <3>3, <3>4 DEF MonitorKnows
  <2>4. SlotsConsistent'
    <3>0. /\ UNCHANGED <<options, recovery>> /\ recovery["monitor"].at = "idle"
          /\ options.offload => recovery["manager"].at = "idle"
      BY <2>1, <1>q DEF Monitored
    <3>1. \A w \in Threads : Filling(w)' /\ Filled(w)'
      <4>1. \A i \in Engines : slot[i] = "starting" => slot'[i] = "starting"
        BY <2>a, <2>b
      <4>. QED  BY <1>1, <3>0, <4>1, FillingKept DEF Threads
    <3>2. ProcessesConsistent(e)'
      BY <2>1, <2>2, <2>a, <2>c DEF ProcessesConsistent, Ending
    <3>3. \A i \in Engines \ {e} : ProcessesConsistent(i)'
      BY <1>1, <2>1, <2>2, <2>b, ConsistentKept DEF SlotsConsistent, Ending
    <3>. QED  BY <3>1, <3>2, <3>3 DEF SlotsConsistent
  <2>. QED  BY <2>1, <2>3, <2>4, <1>p, <1>q
<1>10. ASSUME NEW e \in Engines, DropEngine(e) PROVE Paused' /\ MonitorKnows' /\ SlotsConsistent'
  <2>1. /\ monitor.at = "dropping" /\ monitor.engine = e /\ Monitored
        /\ UNCHANGED <<shadow, launches, promotion>>
        /\ slot' = [slot EXCEPT ![e] = "empty"]
        /\ process' = [process EXCEPT ![e] = 0]
    BY <1>10 DEF DropEngine
  <2>2. monitor'.at = "killing" /\ monitor'.failed = monitor.failed \ {e}
    BY <1>1, <1>10 DEF DropEngine, MonitorStates
  <2>a. slot[e] = "dead" /\ promotion[e] = Free
    BY <1>1, <2>1 DEF MonitorKnows
  <2>b. \A i \in Engines \ {e} : /\ slot'[i] = slot[i] /\ process'[i] = process[i]
    BY <1>1, <2>1 DEF EngineTypes
  <2>c. slot'[e] = "empty" /\ process'[e] = 0
    BY <1>1, <2>1 DEF EngineTypes
  <2>3. MonitorKnows'
    <3>3. \A i \in Engines : promotion'[i] # Free =>
          slot'[i] = "up" /\ promotion'[i].by # "monitor"
      BY <1>1, <1>m, <2>1, <2>a, <2>b DEF MonitorKnows
    <3>4. \A i \in Engines : slot'[i] # "dead"
      BY <1>1, <2>1, <2>b, <2>c DEF MonitorKnows
    <3>. QED  BY <1>1, <2>1, <2>2, <3>3, <3>4 DEF MonitorKnows
  <2>4. SlotsConsistent'
    <3>0. /\ UNCHANGED <<options, recovery>> /\ recovery["monitor"].at = "idle"
          /\ options.offload => recovery["manager"].at = "idle"
      BY <2>1, <1>q DEF Monitored
    <3>1. \A w \in Threads : Filling(w)' /\ Filled(w)'
      <4>1. \A i \in Engines : slot[i] = "starting" => slot'[i] = "starting"
        BY <2>a, <2>b
      <4>. QED  BY <1>1, <3>0, <4>1, FillingKept DEF Threads
    <3>2. shadow[e] = 0
      BY <1>1, <2>a DEF SlotsConsistent, ProcessesConsistent
    <3>3. ProcessesConsistent(e)'
      BY <2>1, <2>2, <2>a, <2>c, <3>2 DEF ProcessesConsistent, Ending
    <3>4. \A i \in Engines \ {e} : ProcessesConsistent(i)'
      BY <1>1, <2>1, <2>2, <2>b, ConsistentKept DEF SlotsConsistent, Ending
    <3>. QED  BY <3>1, <3>3, <3>4 DEF SlotsConsistent
  <2>. QED  BY <2>1, <2>3, <2>4, <1>p, <1>q
<1>. QED  BY <1>2, <1>3, <1>4, <1>5, <1>6, <1>7, <1>8, <1>9, <1>10 DEF MonitorStep

\* Where a thread that recovers was when it called, and with offload_rollout the other one.
LEMMA RecoveryWorks ==
  ASSUME JobInv, NEW w \in Threads, recovery[w].at # "idle" \/ CallsRecovery(w)
  PROVE /\ IF w = "monitor" THEN monitor.at = "killing" /\ monitor.failed = {}
                            ELSE w = "manager" /\ phase = "update" /\ rank[Main].at = "recover"
        /\ options.offload =>
              /\ \A u \in Threads \ {w} : recovery[u].at = "idle"
              /\ w = "monitor" => phase # "update"
<1>1. EngineTypes /\ monitor \in MonitorStates /\ JobTypes
      /\ Paused /\ MonitorKnows /\ SlotsConsistent
  BY TypeParts DEF JobInv
<1>2. CASE w = "monitor"
  <2>1. monitor.at = "killing" /\ monitor.failed = {}
    BY <1>1, <1>2 DEF CallsRecovery, Paused
  <2>2. options.offload => phase # "update" /\ recovery["manager"].at = "idle"
    BY <1>1, <2>1, MainIsARank DEF Paused
  <2>. QED  BY <1>1, <1>2, <2>1, <2>2 DEF Threads
<1>3. CASE w = "manager"
  <2>1. rank[Main].at = "recover"
    BY <1>1, <1>3 DEF CallsRecovery, Paused
  <2>2. phase = "update" /\ (options.offload => recovery["monitor"].at = "idle")
    BY <1>1, <2>1, MainIsARank DEF Paused
  <2>. QED  BY <1>1, <1>3, <2>1, <2>2 DEF Threads
<1>. QED  BY <1>2, <1>3 DEF Threads

\* A recovery that returns leaves slots and lists consistent.
LEMMA RecoveryFinished ==
  ASSUME JobInv, NEW w \in Threads, recovery[w].at # "idle" \/ CallsRecovery(w),
         NEW raises \in BOOLEAN, RecoveryReturns(w, raises),
         recovery'[w].at = "idle", \A u \in Threads \ {w} : recovery'[u] = recovery[u],
         UNCHANGED <<options, checking, phase, promotion>>,
         \A e \in Engines : /\ slot[e] = "up" => slot'[e] = "up"
                            /\ slot'[e] = "dead" <=> slot[e] = "dead"
                            /\ ProcessesConsistent(e)',
         \A u \in Threads \ {w} : Filling(u)'
  PROVE Paused' /\ MonitorKnows' /\ SlotsConsistent'
<1>1. EngineTypes /\ monitor \in MonitorStates /\ JobTypes
      /\ Paused /\ MonitorKnows /\ SlotsConsistent
  BY TypeParts DEF JobInv
<1>2. CASE w = "monitor"
  <2>1. /\ monitor.at = "killing" /\ monitor.failed = {}
        /\ monitor' = [monitor EXCEPT !.at = "waiting"] /\ UNCHANGED rank
        /\ options.offload => recovery["manager"].at = "idle" /\ phase # "update"
    BY <1>2, RecoveryWorks DEF RecoveryReturns, Threads
  <2>2. monitor'.at = "waiting" /\ monitor'.failed = {} /\ recovery'["monitor"].at = "idle"
        /\ recovery'["manager"] = recovery["manager"]
    BY <1>1, <1>2, <2>1 DEF MonitorStates, Threads
  <2>3. Paused'
    BY <1>1, <2>1, <2>2 DEF Paused
  <2>4. MonitorKnows'
    BY <1>1, <2>1, <2>2 DEF MonitorKnows
  <2>5. Filling("monitor")' /\ Filled("monitor")' /\ Filled("manager")'
    BY <2>1, <2>2 DEF Filling, Filled
  <2>. QED  BY <1>2, <2>3, <2>4, <2>5 DEF SlotsConsistent, Threads
<1>3. CASE w = "manager"
  <2>1. /\ phase = "update" /\ UNCHANGED monitor
        /\ options.offload => recovery["monitor"].at = "idle"
    BY <1>3, RecoveryWorks DEF RecoveryReturns, Threads
  <2>2. recovery'["manager"].at = "idle" /\ recovery'["monitor"] = recovery["monitor"]
    BY <1>3 DEF Threads
  <2>3. Paused'
    BY <1>1, <2>1, <2>2 DEF Paused
  <2>4. MonitorKnows'
    <3>1. monitor.engine \in Engines
      BY <1>1 DEF MonitorStates
    <3>. QED  BY <1>1, <2>1, <3>1 DEF MonitorKnows
  <2>5. Filling("manager")' /\ Filled("monitor")' /\ Filled("manager")'
    BY <2>1, <2>2 DEF Filling, Filled
  <2>. QED  BY <1>3, <2>3, <2>4, <2>5 DEF SlotsConsistent, Threads
<1>. QED  BY <1>2, <1>3 DEF Threads

\* The steps of a recovery.
LEMMA JobRecovery ==
  ASSUME JobInv, NEW w \in Threads, RecoveryStep(w)
  PROVE  Paused' /\ MonitorKnows' /\ SlotsConsistent'
<1>1. EngineTypes /\ monitor \in MonitorStates /\ JobTypes
      /\ Paused /\ MonitorKnows /\ SlotsConsistent
  BY TypeParts DEF JobInv
<1>2. recovery \in [Threads -> RecoveryStates]
  BY <1>1 DEF JobTypes, RecoveryStates
<1>0. recovery[w].at # "idle" \/ CallsRecovery(w)
  BY DEF RecoveryStep, RecoveryLooks, RecoveryLaunches, RecoveryEnds
<1>w. /\ IF w = "monitor" THEN monitor.at = "killing" /\ monitor.failed = {}
                          ELSE w = "manager" /\ phase = "update" /\ rank[Main].at = "recover"
      /\ options.offload => \A u \in Threads \ {w} : recovery[u].at = "idle"
  BY <1>0, RecoveryWorks
<1>3. CASE RecoveryLooks(w)
  <2>2. CASE rollout_id = -1 \/ Empty = {}
    <3>1. RecoveryReturns(w, FALSE) /\ UNCHANGED recovery /\ recovery[w].at = "idle"
          /\ UNCHANGED <<options, actors, checking, phase>> /\ CallsRecovery(w)
      BY <1>3, <2>2 DEF RecoveryLooks
    <3>2. UNCHANGED <<slot, process, shadow, launches, promotion>>
      BY <3>1 DEF actors
    <3>3. \A e \in Engines : Ending(e)' <=> Ending(e)
      BY <1>1, <1>w, <3>1 DEF RecoveryReturns, MonitorStates, Ending
    <3>4. \A e \in Engines : ProcessesConsistent(e)'
      BY <1>1, <3>2, <3>3, ConsistentKept DEF SlotsConsistent
    <3>5. \A u \in Threads \ {w} : Filling(u)'
      BY <1>1, <3>1, <3>2 DEF SlotsConsistent, Filling
    <3>. QED  BY <3>1, <3>2, <3>4, <3>5, RecoveryFinished
  <2>3. CASE ~(rollout_id = -1 \/ Empty = {})
    <3>1. /\ recovery' = [recovery EXCEPT ![w] = [at |-> "looked", dead |-> Empty, new |-> {}]]
          /\ UNCHANGED <<monitor, rank, options, actors, checking, phase>>
      BY <1>3, <2>3 DEF RecoveryLooks
    <3>2. recovery'[w] = [at |-> "looked", dead |-> Empty, new |-> {}]
          /\ \A u \in Threads \ {w} : recovery'[u] = recovery[u]
      BY <1>2, <3>1
    <3>3. Paused'
      BY <1>1, <1>w, <3>1, <3>2 DEF Paused, Threads
    <3>4. MonitorKnows'
      BY <1>1, <3>1 DEF MonitorKnows, actors
    <3>5. \A e \in Engines : ProcessesConsistent(e)'
      BY <1>1, <3>1, ConsistentKept DEF SlotsConsistent, Ending, actors
    <3>6. Filling(w)' /\ Filled(w)'
      BY <2>3, <3>1, <3>2 DEF Filling, Filled, Empty, actors
    <3>7. \A u \in Threads \ {w} : Filling(u)' /\ Filled(u)'
      BY <1>1, <1>w, <3>1, <3>2 DEF SlotsConsistent, Filling, Filled, actors
    <3>. QED  BY <3>3, <3>4, <3>5, <3>6, <3>7 DEF SlotsConsistent
  <2>. QED  BY <2>2, <2>3
<1>4. CASE RecoveryLaunches(w)
  <2>0. recovery[w].at = "looked"
    BY <1>4 DEF RecoveryLaunches
  <2>2. /\ slot' = [e \in Engines |-> IF e \in Empty THEN "starting" ELSE slot[e]]
        /\ UNCHANGED <<options, process, shadow, launches, promotion, monitor, checking, phase,
              rank>>
    BY <1>4 DEF RecoveryLaunches, trainer
  <2>3. recovery'[w].at = "launched" /\ recovery'[w].new = Empty
        /\ \A u \in Threads \ {w} : recovery'[u] = recovery[u]
    BY <1>2, <1>4 DEF RecoveryLaunches, RecoveryStates
  <2>4. \A e \in Engines : slot'[e] = (IF e \in Empty THEN "starting" ELSE slot[e])
    BY <2>2
  <2>5. Paused'
    BY <1>1, <1>w, <2>2, <2>3 DEF Paused, Threads
  <2>6. MonitorKnows'
    <3>1. \A e \in Engines : /\ slot[e] = "up" <=> slot'[e] = "up"
                             /\ slot[e] = "dead" <=> slot'[e] = "dead"
      BY <2>4 DEF Empty
    <3>2. monitor.at \in {"promoting", "unregistered", "killed", "ended"} =>
            monitor.engine \in Engines /\ slot[monitor.engine] = "up"
      BY <1>1 DEF MonitorKnows, MonitorStates
    <3>. QED  BY <1>1, <2>2, <3>1, <3>2 DEF MonitorKnows
  <2>7. \A e \in Engines : ProcessesConsistent(e)'
    <3>. SUFFICES ASSUME NEW e \in Engines PROVE ProcessesConsistent(e)'
      OBVIOUS
    <3>1. Ending(e)' <=> Ending(e)
      BY <2>2 DEF Ending
    <3>2. (slot'[e] = "up") <=> (slot[e] = "up")
      BY <2>4 DEF Empty
    <3>. QED  BY <1>1, <2>2, <3>1, <3>2 DEF SlotsConsistent, ProcessesConsistent
  <2>8. \A u \in Threads \ {w} : recovery[u].at = "launched" =>
          \A e \in recovery[u].new : e \in Engines /\ slot[e] = "starting" /\ e \notin Empty
    BY <1>1, <1>2 DEF SlotsConsistent, Filling, RecoveryStates, Empty
  <2>9. Filling(w)'
    BY <2>3, <2>4, <2>8 DEF Filling, Empty
  <2>10. Filled(w)'
    BY <1>1, <2>0, <2>2, <2>3 DEF SlotsConsistent, Filled
  <2>11. \A u \in Threads \ {w} : Filling(u)' /\ Filled(u)'
    <3>. TAKE u \in Threads \ {w}
    <3>1. Filling(u)
      BY <1>1 DEF SlotsConsistent
    <3>2. Filling(u)'
      BY <2>3, <2>4, <2>8, <3>1 DEF Filling
    <3>. QED  BY <1>w, <2>2, <2>3, <3>2 DEF Filled
  <2>. QED  BY <2>5, <2>6, <2>7, <2>9, <2>10, <2>11 DEF SlotsConsistent
<1>5. CASE RecoveryEnds(w)
  <2>0. recovery[w].at = "launched" /\ recovery[w].new \in SUBSET Engines
    BY <1>2, <1>5 DEF RecoveryEnds, RecoveryStates
  <2>2. PICK new \in SUBSET Engines : new = recovery[w].new
    BY <2>0
  <2>3. \A e \in new : slot[e] = "starting" /\ shadow[e] = 0
    BY <1>1, <2>0, <2>2 DEF SlotsConsistent, Filling, ProcessesConsistent
  <2>4. /\ Started(new) /\ UNCHANGED <<options, checking, phase>>
        /\ \E raises \in BOOLEAN : RecoveryReturns(w, raises)
        /\ recovery' = [recovery EXCEPT ![w] = [at |-> "idle", dead |-> {}, new |-> {}]]
    BY <1>5, <2>2 DEF RecoveryEnds
  <2>5. recovery'[w].at = "idle" /\ \A u \in Threads \ {w} : recovery'[u] = recovery[u]
    BY <1>2, <2>4
  <2>6. UNCHANGED promotion /\ \A e \in Engines : slot'[e] = (IF e \in new THEN "up" ELSE slot[e])
    BY <2>4 DEF Started
  <2>7. \A e \in Engines : /\ slot[e] = "up" => slot'[e] = "up"
                           /\ slot'[e] = "dead" <=> slot[e] = "dead"
    BY <2>3, <2>6
  <2>8. \A e \in Engines : ProcessesConsistent(e)'
    <3>. TAKE e \in Engines
    <3>0. Ending(e)' <=> Ending(e)
      BY <1>1, <1>w, <2>4 DEF RecoveryReturns, MonitorStates, Ending
    <3>1. CASE e \in new
      <4>1. /\ slot'[e] = "up" /\ process'[e] = launches[e] + 1
            /\ launches'[e] = launches[e] + Needed
            /\ shadow'[e] = (IF options.fast THEN launches[e] + 2 ELSE 0)
        BY <2>3, <2>4, <3>1 DEF Started
      <4>2. launches[e] \in Nat /\ Needed = (IF options.fast THEN 2 ELSE 1)
        BY <1>1, BoundsArePositive DEF EngineTypes, PidOrNone, Needed
      <4>3. promotion'[e] = Free /\ ~Ending(e)
        BY <1>1, <2>3, <2>6, <3>1 DEF MonitorKnows, Ending
      <4>. QED  BY <3>0, <4>1, <4>2, <4>3 DEF ProcessesConsistent
    <3>2. CASE e \notin new
      <4>1. /\ slot'[e] = slot[e] /\ process'[e] = process[e] /\ launches'[e] = launches[e]
            /\ shadow'[e] = shadow[e]
        BY <2>4, <3>2 DEF Started
      <4>. QED  BY <1>1, <2>6, <3>0, <4>1, ConsistentKept DEF SlotsConsistent
    <3>. QED  BY <3>1, <3>2
  <2>9. \A u \in Threads \ {w} : Filling(u)'
    <3>. TAKE u \in Threads \ {w}
    <3>1. recovery[u].at = "launched" =>
            \A e \in recovery[u].new : e \in Engines /\ slot[e] = "starting" /\ e \notin new
      BY <1>1, <1>2, <2>0, <2>2 DEF SlotsConsistent, Filling, RecoveryStates
    <3>2. Filling(u)
      BY <1>1 DEF SlotsConsistent
    <3>. QED  BY <2>5, <2>6, <3>1, <3>2 DEF Filling
  <2>. QED  BY <2>0, <2>4, <2>5, <2>6, <2>7, <2>8, <2>9, RecoveryFinished
<1>. QED  BY <1>3, <1>4, <1>5 DEF RecoveryStep

\* The calls of a rank take no part in this.
LEMMA JobRanks ==
  ASSUME JobInv, NEW r \in Ranks, RankStep(r)
  PROVE  Paused' /\ MonitorKnows' /\ SlotsConsistent'
<1>1. EngineTypes /\ monitor \in MonitorStates /\ JobTypes
      /\ Paused /\ MonitorKnows /\ SlotsConsistent
  BY TypeParts DEF JobInv
<1>2. /\ UNCHANGED <<slot, actor, process, shadow, launches, alive, healthy, registered,
            watching, promotion>>
      /\ UNCHANGED <<options, monitor, checking, recovery, phase>>
      /\ rank[r].at \in {"get", "debug"}
      /\ \A s \in Ranks \ {r} : rank'[s] = rank[s]
  BY <1>1 DEF RankStep, GetEngines, GetDebugState, Collected, JobTypes
<1>3. phase = "update"
  BY <1>1, <1>2 DEF Paused
<1>4. rank[Main].at = "recover" => rank'[Main] = rank[Main]
  BY <1>2, MainIsARank
<1>5. Paused'
  BY <1>1, <1>2, <1>3, <1>4 DEF Paused
<1>6. MonitorKnows'
  BY <1>1, <1>2 DEF MonitorKnows
<1>7. SlotsConsistent'
  BY <1>1, <1>2, SlotsKept
<1>. QED  BY <1>5, <1>6, <1>7

\* Training begins an update when the monitor waits, and sending weights ends it.
LEMMA JobDriver ==
  ASSUME JobInv, Connect \/ Clear \/ SendWeights \/ EvaluationEnds \/ RolloutEnds
                   \/ OffloadEnds \/ TrainingEnds \/ OnloadEnds
  PROVE  Paused' /\ MonitorKnows' /\ SlotsConsistent'
<1>1. EngineTypes /\ monitor \in MonitorStates /\ JobTypes
      /\ Paused /\ MonitorKnows /\ SlotsConsistent
  BY TypeParts DEF JobInv
<1>2. UNCHANGED <<slot, actor, process, shadow, launches, alive, healthy, registered, pending,
      watching, promotion, options, monitor, recovery>>
  BY DEF Connect, Clear, SendWeights, EvaluationEnds, RolloutEnds, OffloadEnds, TrainingEnds,
       OnloadEnds, Trained, Driven, actors
<1>3. MonitorKnows'
  BY <1>1, <1>2 DEF MonitorKnows
<1>4. SlotsConsistent'
  BY <1>1, <1>2, SlotsKept
<1>5. CASE Connect
  <2>1. phase = "update" /\ rank[Main].at = "connect" /\ UNCHANGED <<phase, checking>>
    BY <1>1, <1>5, MainIsARank DEF Paused, Connect, AllRanks, Trained
  <2>. QED  BY <1>1, <1>2, <1>3, <1>4, <2>1 DEF Paused
<1>6. CASE Clear
  <2>1. phase = "update" /\ rank[Main].at = "clear" /\ UNCHANGED <<phase, checking>>
    BY <1>1, <1>6, MainIsARank DEF Paused, Clear, Trained
  <2>. QED  BY <1>1, <1>2, <1>3, <1>4, <2>1 DEF Paused
<1>7. CASE SendWeights
  <2>1. phase = "update" /\ rank[Main].at = "send"
    BY <1>1, <1>7, MainIsARank DEF Paused, SendWeights, AllRanks
  <2>2. CASE Sent
    <3>1. rank' = Idle /\ phase' \in {"onload", "eval", "generate", "done"}
      BY <1>7, <2>2 DEF SendWeights, NextRollout
    <3>2. \A r \in Ranks : rank'[r].at = "idle"
      BY <3>1 DEF Idle
    <3>. QED  BY <1>1, <1>2, <1>3, <1>4, <2>1, <3>1, <3>2 DEF Paused
  <2>3. CASE ~Sent
    <3>1. UNCHANGED <<phase, checking>>
      BY <1>7, <2>3 DEF SendWeights
    <3>. QED  BY <1>1, <1>2, <1>3, <1>4, <2>1, <3>1 DEF Paused
  <2>. QED  BY <2>2, <2>3
<1>8. CASE EvaluationEnds
  <2>1. phase # "update" /\ phase' \in {"eval", "generate", "done"} /\ UNCHANGED rank
    BY <1>8 DEF EvaluationEnds, NextRollout
  <2>. QED  BY <1>1, <1>2, <1>3, <1>4, <2>1 DEF Paused
<1>9. CASE RolloutEnds
  <2>1. phase = "generate" /\ phase' \in {"offload", "train"} /\ UNCHANGED rank
        /\ (options.offload => ~checking')
    BY <1>1, <1>9 DEF RolloutEnds
  <2>. QED  BY <1>1, <1>2, <1>3, <1>4, <2>1 DEF Paused
<1>10. CASE OffloadEnds
  <2>1. phase = "offload" /\ phase' \in {"train", "raised"} /\ UNCHANGED <<rank, checking>>
    BY <1>1, <1>10 DEF OffloadEnds
  <2>. QED  BY <1>1, <1>2, <1>3, <1>4, <2>1 DEF Paused
<1>11. CASE TrainingEnds
  <2>1. phase = "train" /\ UNCHANGED checking
        /\ (options.offload => ~checking /\ monitor.at = "waiting")
    BY <1>1, <1>11 DEF TrainingEnds, Paused
  <2>2. recovery["manager"].at = "idle"
    BY <1>1, <2>1, MainIsARank DEF Paused
  <2>3. \/ phase' = "update"
        \/ phase' = "raised" /\ UNCHANGED rank
    BY <1>11 DEF TrainingEnds
  <2>. QED  BY <1>1, <1>2, <1>3, <1>4, <2>1, <2>2, <2>3 DEF Paused
<1>12. CASE OnloadEnds
  <2>1. phase # "update" /\ phase' \in {"eval", "generate", "done", "raised"} /\ UNCHANGED rank
    BY <1>12 DEF OnloadEnds, NextRollout
  <2>. QED  BY <1>1, <1>2, <1>3, <1>4, <2>1 DEF Paused
<1>. QED  BY <1>5, <1>6, <1>7, <1>8, <1>9, <1>10, <1>11, <1>12
-----------------------------------------------------------------------------
(***************************************************************************)
(* Processes and URLs.                                                     *)
(***************************************************************************)
\* The parts of the invariant.
LEMMA OwnerFacts ==
  ASSUME OwnerInv
  PROVE /\ EngineTypes /\ monitor \in MonitorStates /\ JobTypes
        /\ Paused /\ MonitorKnows /\ SlotsConsistent
        /\ \A e \in Engines, n \in 1..MaxLaunches : HandledAt(e, n)
BY TypeParts DEF OwnerInv, JobInv, Handled

\* A promotion, in a shutdown or not, replaces the process by another.
LEMMA Promoting ==
  ASSUME OwnerInv, NEW e \in Engines, promotion[e] # Free
  PROVE /\ slot[e] = "up" /\ promotion[e].new \in 1..MaxLaunches
        /\ promotion[e].new # process[e]
        /\ IF Ending(e) THEN shadow[e] = 0 /\ ShuttingDown(e)
                        ELSE shadow[e] = promotion[e].new /\ shadow[e] \in 1..launches[e]
        /\ promotion[e].by = "monitor" => monitor.at = "promoting"
<1>1. EngineTypes /\ MonitorKnows /\ ProcessesConsistent(e)
  BY OwnerFacts DEF SlotsConsistent
<1>2. slot[e] = "up" /\ promotion[e].new \in 1..MaxLaunches
      /\ (promotion[e].by = "monitor" => monitor.at = "promoting")
  BY <1>1 DEF MonitorKnows, EngineTypes
<1>3. launches[e] \in Nat
  BY <1>1, BoundsArePositive DEF EngineTypes, PidOrNone
<1>4. CASE Ending(e)
  BY <1>1, <1>2, <1>4 DEF ProcessesConsistent, Ending, ShuttingDown
<1>5. CASE ~Ending(e)
  <2>1. shadow[e] = promotion[e].new /\ shadow[e] \in 0..launches[e]
    BY <1>1, <1>2, <1>5 DEF ProcessesConsistent
  <2>. QED  BY <1>1, <1>2, <1>3, <1>5, <2>1 DEF ProcessesConsistent
<1>. QED  BY <1>4, <1>5

\* What a step does not touch stays accounted for.
LEMMA HandledKept ==
  ASSUME NEW e \in Engines, NEW n \in 1..MaxLaunches, HandledAt(e, n),
         slot'[e] = slot[e], process'[e] = process[e], shadow'[e] = shadow[e],
         launches'[e] = launches[e], promotion'[e] = promotion[e], watching'[e] = watching[e],
         ShuttingDown(e)' <=> ShuttingDown(e), Stopped(e)' <=> Stopped(e),
         <<e, n>> \in registered' <=> <<e, n>> \in registered,
         <<e, n>> \in alive' => <<e, n>> \in alive,
         <<e, n>> \in overtaken' <=> <<e, n>> \in overtaken
  PROVE  HandledAt(e, n)'
<1>1. RoutedTo(e, n)'
  BY DEF HandledAt, RoutedTo, Routed
<1>2. Owned(e, n)'
  BY DEF HandledAt, Owned
<1>3. OvertakenOnce(e, n)'
  BY DEF HandledAt, OvertakenOnce
<1>4. Raced(e, n)'
  BY DEF HandledAt, Raced
<1>. QED  BY <1>1, <1>2, <1>3, <1>4 DEF HandledAt

\* The same of a step that leaves the actors and the monitor's place alone.
LEMMA HandledSame ==
  ASSUME OwnerInv, UNCHANGED <<slot, process, shadow, launches, promotion, watching, registered,
                               overtaken>>,
         \A e \in Engines : ShuttingDown(e)' <=> ShuttingDown(e),
         \A e \in Engines : Stopped(e)' <=> Stopped(e),
         alive' \subseteq alive
  PROVE  Handled'
<1>1. \A e \in Engines, n \in 1..MaxLaunches : HandledAt(e, n)
  BY OwnerFacts
<1>. SUFFICES ASSUME NEW i \in Engines, NEW n \in 1..MaxLaunches PROVE HandledAt(i, n)'
  BY DEF Handled
<1>. QED  BY <1>1, HandledKept

\* At the start every primary is registered.
LEMMA HandledInit ==
  ASSUME Init, TypeInv
  PROVE  Handled
<1>1. EngineTypes
  BY TypeParts
<1>. SUFFICES ASSUME NEW i \in Engines, NEW n \in 1..MaxLaunches PROVE HandledAt(i, n)
  BY DEF Handled
<1>2. registered = Engines \X {1} /\ alive = Engines \X (1..Needed) /\ slot[i] = "up"
      /\ process[i] = 1 /\ overtaken = {}
      /\ shadow[i] = (IF options.fast THEN 2 ELSE 0) /\ promotion[i] = Free
      /\ ~ShuttingDown(i) /\ ~Stopped(i)
  BY DEF Init, ShuttingDown, Stopped
<1>3. n \in 1..Needed => n = 1 \/ (options.fast /\ n = 2)
  <2>1. n \in Int
    BY BoundsArePositive
  <2>2. CASE options.fast
    BY <2>1, <2>2 DEF Needed
  <2>3. CASE ~options.fast
    BY <2>1, <2>3 DEF Needed
  <2>. QED  BY <2>2, <2>3
<1>4. RoutedTo(i, n) /\ Owned(i, n)
  BY <1>2, <1>3 DEF RoutedTo, Owned, Routed, Free
<1>5. OvertakenOnce(i, n) /\ Raced(i, n)
  BY <1>2 DEF OvertakenOnce, Raced
<1>. QED  BY <1>4, <1>5 DEF HandledAt

\* Faults register nothing.
LEMMA HandledFaults ==
  ASSUME OwnerInv, NEW p \in Pids, Crash(p) \/ Hang(p) \/ Answers(p)
  PROVE  Handled'
<1>1. alive' \subseteq alive
      /\ UNCHANGED <<slot, process, shadow, launches, promotion, watching, registered, overtaken,
                     monitor>>
  BY DEF Crash, Hang, Answers, Killed, manager
<1>. QED  BY <1>1, HandledSame DEF ShuttingDown, Stopped

\* The watcher or the monitor begins, which no engine does that is being shut down.
LEMMA HandledPromotes ==
  ASSUME OwnerInv, NEW e \in Engines, WatcherPromotes(e) \/ MonitorPromotes(e)
  PROVE  Handled'
<1>1. EngineTypes /\ monitor \in MonitorStates /\ MonitorKnows /\ SlotsConsistent
      /\ \A i \in Engines, n \in 1..MaxLaunches : HandledAt(i, n)
  BY OwnerFacts
<1>2. UNCHANGED <<slot, process, shadow, launches, registered, alive, watching, overtaken>>
  BY DEF WatcherPromotes, MonitorPromotes
<1>3. \A i \in Engines : /\ ShuttingDown(i)' <=> ShuttingDown(i)
                         /\ Stopped(i)' <=> Stopped(i)
  <2>1. CASE WatcherPromotes(e)
    BY <2>1 DEF WatcherPromotes, manager, ShuttingDown, Stopped
  <2>2. CASE MonitorPromotes(e)
    <3>1. monitor.at = "promoting" /\ monitor'.at \in {"checking", "promoting"}
      BY <1>1, <2>2 DEF MonitorPromotes, PassedOver, MonitorStates
    <3>. QED  BY <3>1 DEF ShuttingDown, Stopped
  <2>. QED  BY <2>1, <2>2
<1>4. CASE UNCHANGED promotion
  BY <1>2, <1>3, <1>4, HandledSame
<1>5. CASE promotion' # promotion
  <2>1. \E by \in {"watcher", "monitor"} :
           promotion' = [promotion EXCEPT ![e] = Held(by, "register", shadow[e])]
    BY <1>5 DEF WatcherPromotes, MonitorPromotes
  <2>2. /\ promotion'[e].at = "register" /\ promotion'[e].new = shadow[e]
        /\ \A i \in Engines \ {e} : promotion'[i] = promotion[i]
    BY <1>1, <2>1 DEF EngineTypes, Held
  <2>3. promotion[e] = Free /\ slot[e] = "up"
    BY <1>1 DEF WatcherPromotes, MonitorPromotes, MonitorKnows
  <2>4. promotion[e].at = "free"
    BY <2>3 DEF Free
  <2>5. ~ShuttingDown(e)
    <3>1. CASE WatcherPromotes(e)
      <4>1. watching[e] /\ 1 \in 1..MaxLaunches
        BY <3>1, BoundsArePositive DEF WatcherPromotes
      <4>. QED  BY <1>1, <4>1 DEF HandledAt, Raced
    <3>2. CASE MonitorPromotes(e)
      BY <3>2 DEF MonitorPromotes, ShuttingDown
    <3>. QED  BY <3>1, <3>2
  <2>. SUFFICES ASSUME NEW i \in Engines, NEW n \in 1..MaxLaunches PROVE HandledAt(i, n)'
    BY DEF Handled
  <2>6. CASE i # e
    BY <1>1, <1>2, <1>3, <2>2, <2>6, HandledKept
  <2>7. CASE i = e
    <3>1. HandledAt(e, n)
      BY <1>1
    <3>2. RoutedTo(e, n)'
      BY <1>2, <1>3, <2>2, <2>4, <3>1 DEF HandledAt, RoutedTo, Routed
    <3>3. Owned(e, n)' /\ OvertakenOnce(e, n)'
      BY <1>2, <1>3, <3>1 DEF HandledAt, Owned, OvertakenOnce
    <3>4. Raced(e, n)'
      <4>1. n = process[e] => <<e, n>> \notin overtaken
        BY <2>3, <2>5, <3>1 DEF HandledAt, OvertakenOnce
      <4>. QED  BY <1>2, <1>3, <2>2, <2>5, <3>1, <4>1 DEF HandledAt, Raced
    <3>. QED  BY <2>7, <3>2, <3>3, <3>4 DEF HandledAt
  <2>. QED  BY <2>6, <2>7
<1>. QED  BY <1>4, <1>5

\* The URL of the new process is added.
LEMMA HandledRegister ==
  ASSUME OwnerInv, NEW e \in Engines, RegisterShadow(e)
  PROVE  Handled'
<1>1. EngineTypes /\ \A i \in Engines, n \in 1..MaxLaunches : HandledAt(i, n)
  BY OwnerFacts
<1>2. /\ UNCHANGED <<slot, process, shadow, launches, alive, watching, overtaken, monitor>>
      /\ registered' = registered \union {<<e, promotion[e].new>>}
      /\ promotion[e].at = "register" /\ promotion' = [promotion EXCEPT ![e].at = "unregister"]
  BY DEF RegisterShadow, manager
<1>3. promotion[e] # Free
  BY <1>2 DEF Free
<1>4. /\ promotion'[e].at = "unregister" /\ promotion'[e].new = promotion[e].new
      /\ promotion'[e] # Free
      /\ \A i \in Engines \ {e} : promotion'[i] = promotion[i]
  BY <1>1, <1>2 DEF EngineTypes, Free
<1>5. \A i \in Engines : /\ ShuttingDown(i)' <=> ShuttingDown(i)
                         /\ Stopped(i)' <=> Stopped(i)
  BY <1>2 DEF ShuttingDown, Stopped
<1>. SUFFICES ASSUME NEW i \in Engines, NEW n \in 1..MaxLaunches PROVE HandledAt(i, n)'
  BY DEF Handled
<1>6. <<i, n>> \in registered' <=> <<i, n>> \in registered \/ (i = e /\ n = promotion[e].new)
  BY <1>2
<1>7. CASE i # e
  BY <1>1, <1>2, <1>4, <1>5, <1>6, <1>7, HandledKept
<1>8. CASE i = e
  <2>0. n # 0 /\ HandledAt(e, n)
    BY <1>1, BoundsArePositive
  <2>1. RoutedTo(e, n)'
    <3>1. CASE ShuttingDown(e)
      <4>1. n = promotion[e].new => <<e, n>> \in overtaken
        BY <1>3, <2>0, <3>1 DEF HandledAt, Raced
      <4>. QED  BY <1>2, <1>5, <1>6, <1>8, <2>0, <3>1, <4>1 DEF HandledAt, RoutedTo, Routed
    <3>2. CASE ~ShuttingDown(e)
      <4>1. shadow[e] = promotion[e].new /\ slot[e] = "up" /\ shadow[e] # process[e]
        BY <1>3, <3>2, Promoting
      <4>. QED  BY <1>2, <1>4, <1>5, <1>6, <1>8, <2>0, <3>2, <4>1
           DEF HandledAt, RoutedTo, Routed
    <3>. QED  BY <3>1, <3>2
  <2>2. Owned(e, n)' /\ OvertakenOnce(e, n)'
    BY <1>2, <1>5, <1>6, <1>8, <2>0 DEF HandledAt, Owned, OvertakenOnce
  <2>3. Raced(e, n)'
    BY <1>2, <1>3, <1>4, <1>5, <1>6, <1>8, <2>0 DEF HandledAt, Raced
  <2>. QED  BY <1>8, <2>1, <2>2, <2>3 DEF HandledAt
<1>. QED  BY <1>7, <1>8

\* The URL of the old process is removed; it is not one that a shutdown has overtaken.
LEMMA HandledUnregister ==
  ASSUME OwnerInv, NEW e \in Engines, UnregisterPrimary(e)
  PROVE  Handled'
<1>1. EngineTypes /\ \A i \in Engines, n \in 1..MaxLaunches : HandledAt(i, n)
  BY OwnerFacts
<1>2. /\ UNCHANGED <<slot, process, shadow, launches, alive, watching, overtaken, monitor>>
      /\ registered' = registered \ {<<e, process[e]>>}
      /\ promotion[e].at = "unregister" /\ promotion' = [promotion EXCEPT ![e].at = "switch"]
  BY DEF UnregisterPrimary, Primary, manager
<1>3. promotion[e] # Free
  BY <1>2 DEF Free
<1>4. /\ promotion'[e].at = "switch" /\ promotion'[e].new = promotion[e].new
      /\ promotion'[e] # Free
      /\ \A i \in Engines \ {e} : promotion'[i] = promotion[i]
  BY <1>1, <1>2 DEF EngineTypes, Free
<1>5. \A i \in Engines : /\ ShuttingDown(i)' <=> ShuttingDown(i)
                         /\ Stopped(i)' <=> Stopped(i)
  BY <1>2 DEF ShuttingDown, Stopped
<1>. SUFFICES ASSUME NEW i \in Engines, NEW n \in 1..MaxLaunches PROVE HandledAt(i, n)'
  BY DEF Handled
<1>6. <<i, n>> \in registered' <=> <<i, n>> \in registered /\ ~(i = e /\ n = process[e])
  BY <1>2
<1>7. CASE i # e
  BY <1>1, <1>2, <1>4, <1>5, <1>6, <1>7, HandledKept
<1>8. CASE i = e
  <2>0. n # 0 /\ HandledAt(e, n)
    BY <1>1, BoundsArePositive
  <2>1. n = process[e] => <<e, n>> \notin overtaken
    BY <1>3, <2>0 DEF HandledAt, Raced
  <2>2. /\ promotion[e].new # process[e] /\ slot[e] = "up"
        /\ shadow[e] \in {0, promotion[e].new}
    BY <1>3, Promoting
  <2>3. RoutedTo(e, n)'
    BY <1>2, <1>4, <1>5, <1>6, <1>8, <2>0, <2>2 DEF HandledAt, RoutedTo, Routed
  <2>4. Owned(e, n)' /\ OvertakenOnce(e, n)'
    BY <1>2, <1>5, <1>6, <1>8, <2>0, <2>1, <2>2 DEF HandledAt, Owned, OvertakenOnce
  <2>5. Raced(e, n)'
    BY <1>2, <1>3, <1>4, <1>5, <1>6, <1>8, <2>0, <2>1, <2>2 DEF HandledAt, Raced
  <2>. QED  BY <1>8, <2>3, <2>4, <2>5 DEF HandledAt
<1>. QED  BY <1>7, <1>8

\* The new process takes the place of the old one, or nothing does when a shutdown has ended.
LEMMA HandledSwitch ==
  ASSUME OwnerInv, NEW e \in Engines, SwitchProcess(e)
  PROVE  Handled'
<1>1. EngineTypes /\ monitor \in MonitorStates
      /\ \A i \in Engines, n \in 1..MaxLaunches : HandledAt(i, n)
  BY OwnerFacts
<1>2. /\ UNCHANGED <<slot, launches, registered, watching, overtaken>>
      /\ promotion[e].at = "switch" /\ promotion' = [promotion EXCEPT ![e] = Free]
      /\ process' = [process EXCEPT ![e] = shadow[e]]
      /\ shadow' = [shadow EXCEPT ![e] = 0]
      /\ alive' = alive \ {<<e, process[e]>>}
  BY DEF SwitchProcess, Killed, Primary
<1>3. promotion[e] # Free
  BY <1>2 DEF Free
<1>4. /\ slot[e] = "up" /\ promotion[e].new # process[e]
      /\ IF Ending(e) THEN shadow[e] = 0 /\ ShuttingDown(e) ELSE shadow[e] = promotion[e].new
      /\ promotion[e].by = "monitor" => monitor.at = "promoting"
  BY <1>3, Promoting
<1>5. \A i \in Engines : /\ ShuttingDown(i)' <=> ShuttingDown(i)
                         /\ Stopped(i)' <=> Stopped(i)
  <2>1. CASE promotion[e].by = "monitor"
    <3>1. monitor'.at = "checking"
      BY <1>1, <2>1 DEF SwitchProcess, PassedOver, MonitorStates
    <3>. QED  BY <1>4, <2>1, <3>1 DEF ShuttingDown, Stopped
  <2>2. CASE promotion[e].by # "monitor"
    BY <2>2 DEF SwitchProcess, ShuttingDown, Stopped
  <2>. QED  BY <2>1, <2>2
<1>6. /\ promotion'[e] = Free /\ promotion'[e].at = "free" /\ process'[e] = shadow[e]
      /\ shadow'[e] = 0
      /\ \A i \in Engines \ {e} : /\ promotion'[i] = promotion[i] /\ process'[i] = process[i]
                                 /\ shadow'[i] = shadow[i]
  BY <1>1, <1>2 DEF EngineTypes, Free
<1>. SUFFICES ASSUME NEW i \in Engines, NEW n \in 1..MaxLaunches PROVE HandledAt(i, n)'
  BY DEF Handled
<1>7. <<i, n>> \in alive' <=> <<i, n>> \in alive /\ ~(i = e /\ n = process[e])
  BY <1>2
<1>8. CASE i # e
  BY <1>1, <1>2, <1>5, <1>6, <1>7, <1>8, HandledKept
<1>9. CASE i = e
  <2>0. n # 0 /\ HandledAt(e, n)
    BY <1>1, BoundsArePositive
  <2>1. n = promotion[e].new => /\ <<e, n>> \in registered
                                /\ ShuttingDown(e) => <<e, n>> \in overtaken
    BY <1>2, <1>3, <2>0 DEF HandledAt, Raced
  <2>2. RoutedTo(e, n)'
    <3>1. CASE ShuttingDown(e)
      BY <1>2, <1>5, <2>0, <3>1 DEF HandledAt, RoutedTo, Routed
    <3>2. CASE ~ShuttingDown(e)
      <4>1. shadow[e] = promotion[e].new
        BY <1>4, <3>2
      <4>2. <<e, n>> \notin overtaken => (<<e, n>> \in registered <=> n = shadow[e])
        BY <1>2, <1>4, <2>0, <2>1, <3>2, <4>1 DEF HandledAt, RoutedTo, Routed
      <4>3. Routed(e, n)' <=> n = shadow[e]
        BY <1>2, <1>4, <1>5, <1>6, <2>0, <3>2 DEF Routed
      <4>. QED  BY <1>2, <4>2, <4>3 DEF RoutedTo
    <3>. QED  BY <3>1, <3>2
  <2>3. Owned(e, n)'
    BY <1>2, <1>4, <1>6, <1>7, <1>9, <2>0 DEF HandledAt, Owned
  <2>4. OvertakenOnce(e, n)'
    BY <1>2, <1>4, <1>5, <1>6, <2>0 DEF HandledAt, OvertakenOnce
  <2>5. Raced(e, n)'
    <3>1. Stopped(e) => ShuttingDown(e)
      BY DEF Stopped, ShuttingDown
    <3>. QED  BY <1>2, <1>4, <1>5, <1>6, <2>0, <2>1, <3>1 DEF HandledAt, Raced
  <2>. QED  BY <1>9, <2>2, <2>3, <2>4, <2>5 DEF HandledAt
<1>. QED  BY <1>8, <1>9

\* The steps of a handover.
LEMMA HandledEngines ==
  ASSUME OwnerInv, NEW e \in Engines, EngineStep(e)
  PROVE  Handled'
BY HandledPromotes, HandledRegister, HandledUnregister, HandledSwitch DEF EngineStep

\* A shutdown removes the URL; what the watcher is promoting is overtaken.
LEMMA HandledUnregisters ==
  ASSUME OwnerInv, NEW e \in Engines, ShutdownUnregisters(e)
  PROVE  Handled'
<1>1. EngineTypes /\ monitor \in MonitorStates /\ MonitorKnows /\ SlotsConsistent
      /\ \A i \in Engines, n \in 1..MaxLaunches : HandledAt(i, n)
  BY OwnerFacts
<1>2. /\ UNCHANGED <<slot, process, shadow, launches, alive, promotion>>
      /\ monitor.at = "killing"
  BY DEF ShutdownUnregisters
<1>3. CASE slot[e] = "empty"
  <2>1. UNCHANGED <<registered, watching, overtaken>> /\ monitor'.at = "killing"
    BY <1>1, <1>3 DEF ShutdownUnregisters, MonitorStates
  <2>. QED  BY <1>2, <2>1, HandledSame DEF ShuttingDown, Stopped
<1>4. CASE slot[e] # "empty"
  <2>1. /\ registered' = registered \ {<<e, process[e]>>} /\ slot[e] = "up"
        /\ watching' = [watching EXCEPT ![e] = FALSE]
        /\ overtaken' = (IF promotion[e] = Free THEN overtaken
                         ELSE overtaken \union {<<e, promotion[e].new>>})
    BY <1>4 DEF ShutdownUnregisters, Primary
  <2>2. monitor'.at = "unregistered" /\ monitor'.engine = e
    BY <1>1, <1>4 DEF ShutdownUnregisters, MonitorStates
  <2>3. /\ ~watching'[e]
        /\ \A i \in Engines \ {e} : watching'[i] = watching[i]
    BY <1>1, <2>1 DEF EngineTypes
  <2>4. \A i \in Engines : /\ ~ShuttingDown(i) /\ ~Stopped(i) /\ ~Stopped(i)'
                           /\ ShuttingDown(i)' <=> i = e
    BY <1>2, <2>2 DEF ShuttingDown, Stopped
  <2>. SUFFICES ASSUME NEW i \in Engines, NEW n \in 1..MaxLaunches PROVE HandledAt(i, n)'
    BY DEF Handled
  <2>5. <<i, n>> \in registered' <=> <<i, n>> \in registered /\ ~(i = e /\ n = process[e])
    BY <2>1
  <2>6. <<i, n>> \in overtaken' <=>
            \/ <<i, n>> \in overtaken
            \/ i = e /\ promotion[e] # Free /\ n = promotion[e].new
    BY <2>1
  <2>7. CASE i # e
    BY <1>1, <1>2, <2>3, <2>4, <2>5, <2>6, <2>7, HandledKept
  <2>8. CASE i = e
    <3>0. n # 0 /\ HandledAt(e, n)
      BY <1>1, BoundsArePositive
    <3>1. promotion[e] # Free => /\ promotion[e].new # process[e]
                                 /\ shadow[e] = promotion[e].new
                                 /\ shadow[e] \in 1..launches[e]
      BY <2>4, Promoting
    <3>2. n = process[e] => <<e, n>> \notin overtaken
      BY <2>1, <2>4, <3>0 DEF HandledAt, OvertakenOnce
    <3>3. RoutedTo(e, n)'
      <4>1. ~Routed(e, n)'
        BY <2>4 DEF Routed
      <4>2. <<e, n>> \notin overtaken' => <<e, n>> \notin registered'
        <5>1. promotion[e].at \in {"unregister", "switch"} => promotion[e] # Free
          BY DEF Free
        <5>. QED  BY <2>5, <2>6, <2>8, <3>0, <3>1, <5>1 DEF HandledAt, RoutedTo, Routed
      <4>. QED  BY <4>1, <4>2 DEF RoutedTo
    <3>4. Owned(e, n)'
      BY <1>2, <2>1, <2>5, <2>6, <2>8, <3>0, <3>2 DEF HandledAt, Owned
    <3>5. OvertakenOnce(e, n)'
      <4>1. launches[e] \in Nat
        BY <1>1, BoundsArePositive DEF EngineTypes, PidOrNone
      <4>. QED  BY <1>2, <2>4, <2>6, <2>8, <3>0, <3>1, <4>1 DEF HandledAt, OvertakenOnce
    <3>6. Raced(e, n)'
      BY <1>2, <2>3, <2>4, <2>5, <2>6, <2>8, <3>0, <3>1, <3>2 DEF HandledAt, Raced
    <3>. QED  BY <2>8, <3>3, <3>4, <3>5, <3>6 DEF HandledAt
  <2>. QED  BY <2>7, <2>8
<1>. QED  BY <1>3, <1>4

\* Then it kills the process.
LEMMA HandledKillsProcess ==
  ASSUME OwnerInv, NEW e \in Engines, ShutdownKillsProcess(e)
  PROVE  Handled'
<1>1. monitor \in MonitorStates /\ \A i \in Engines, n \in 1..MaxLaunches : HandledAt(i, n)
  BY OwnerFacts
<1>2. /\ UNCHANGED <<slot, process, shadow, launches, registered, promotion, watching, overtaken>>
      /\ alive' = alive \ {<<e, process[e]>>}
      /\ monitor.at = "unregistered" /\ monitor.engine = e
      /\ monitor'.at = "killed" /\ monitor'.engine = e
  BY <1>1 DEF ShutdownKillsProcess, MonitorStates, Killed, Primary
<1>3. \A i \in Engines : /\ ShuttingDown(i)' <=> ShuttingDown(i)
                         /\ i # e => (Stopped(i)' <=> Stopped(i))
  BY <1>2 DEF ShuttingDown, Stopped
<1>. SUFFICES ASSUME NEW i \in Engines, NEW n \in 1..MaxLaunches PROVE HandledAt(i, n)'
  BY DEF Handled
<1>4. CASE i # e
  BY <1>1, <1>2, <1>3, <1>4, HandledKept
<1>5. CASE i = e
  <2>0. HandledAt(e, n)
    BY <1>1
  <2>1. RoutedTo(e, n)' /\ OvertakenOnce(e, n)'
    BY <1>2, <1>3, <2>0 DEF HandledAt, RoutedTo, Routed, OvertakenOnce
  <2>2. Owned(e, n)'
    BY <1>2, <2>0 DEF HandledAt, Owned
  <2>3. Raced(e, n)'
    BY <1>2, <1>3, <2>0 DEF HandledAt, Raced
  <2>. QED  BY <1>5, <2>1, <2>2, <2>3 DEF HandledAt
<1>. QED  BY <1>4, <1>5

\* Then the shadow, if the watcher has not promoted it.
LEMMA HandledKillsShadow ==
  ASSUME OwnerInv, NEW e \in Engines, ShutdownKillsShadow(e)
  PROVE  Handled'
<1>1. EngineTypes /\ monitor \in MonitorStates
      /\ \A i \in Engines, n \in 1..MaxLaunches : HandledAt(i, n)
  BY OwnerFacts
<1>2. /\ UNCHANGED <<slot, process, launches, registered, promotion, watching, overtaken>>
      /\ alive' = alive \ {<<e, shadow[e]>>}
      /\ shadow' = [shadow EXCEPT ![e] = 0]
      /\ monitor.at = "killed" /\ monitor.engine = e
      /\ monitor'.at = "ended" /\ monitor'.engine = e
  BY <1>1 DEF ShutdownKillsShadow, MonitorStates, Killed, Shadow
<1>3. \A i \in Engines : /\ ShuttingDown(i)' <=> ShuttingDown(i)
                         /\ Stopped(i)' <=> Stopped(i)
  BY <1>2 DEF ShuttingDown, Stopped
<1>4. shadow'[e] = 0 /\ \A i \in Engines \ {e} : shadow'[i] = shadow[i]
  BY <1>1, <1>2 DEF EngineTypes
<1>. SUFFICES ASSUME NEW i \in Engines, NEW n \in 1..MaxLaunches PROVE HandledAt(i, n)'
  BY DEF Handled
<1>5. CASE i # e
  BY <1>1, <1>2, <1>3, <1>4, <1>5, HandledKept
<1>6. CASE i = e
  <2>0. n # 0 /\ HandledAt(e, n) /\ ShuttingDown(e)
    BY <1>1, <1>2, BoundsArePositive DEF ShuttingDown
  <2>1. RoutedTo(e, n)'
    BY <1>2, <1>3, <2>0 DEF HandledAt, RoutedTo, Routed
  <2>2. Owned(e, n)'
    BY <1>2, <2>0 DEF HandledAt, Owned
  <2>3. OvertakenOnce(e, n)'
    BY <1>2, <1>3, <2>0 DEF HandledAt, OvertakenOnce
  <2>4. Raced(e, n)'
    BY <1>2, <1>3, <2>0 DEF HandledAt, Raced
  <2>. QED  BY <1>6, <2>1, <2>2, <2>3, <2>4 DEF HandledAt
<1>. QED  BY <1>5, <1>6

\* Ray kills the actor: a process that is left behind was overtaken and is registered.
LEMMA HandledKillActor ==
  ASSUME OwnerInv, NEW e \in Engines, KillActor(e)
  PROVE  Handled'
<1>1. EngineTypes /\ monitor \in MonitorStates /\ SlotsConsistent
      /\ \A i \in Engines, n \in 1..MaxLaunches : HandledAt(i, n)
  BY OwnerFacts
<1>2. /\ UNCHANGED <<process, shadow, launches, alive, registered, watching, overtaken>>
      /\ slot' = [slot EXCEPT ![e] = "dead"]
      /\ promotion' = [promotion EXCEPT ![e] = Free]
      /\ monitor.at = "ended" /\ monitor.engine = e
      /\ monitor'.at = "dropping" /\ monitor'.engine = e
  BY <1>1 DEF KillActor, MonitorStates
<1>3. \A i \in Engines : /\ ~ShuttingDown(i)' /\ ~Stopped(i)'
                         /\ i # e => ~ShuttingDown(i) /\ ~Stopped(i)
  BY <1>2 DEF ShuttingDown, Stopped
<1>4. /\ slot'[e] = "dead" /\ promotion'[e] = Free
      /\ \A i \in Engines \ {e} : slot'[i] = slot[i] /\ promotion'[i] = promotion[i]
  BY <1>1, <1>2 DEF EngineTypes
<1>. SUFFICES ASSUME NEW i \in Engines, NEW n \in 1..MaxLaunches PROVE HandledAt(i, n)'
  BY DEF Handled
<1>5. CASE i # e
  BY <1>1, <1>2, <1>3, <1>4, <1>5, HandledKept
<1>6. CASE i = e
  <2>0. n # 0 /\ HandledAt(e, n) /\ ShuttingDown(e) /\ Stopped(e) /\ shadow[e] = 0
    BY <1>1, <1>2, BoundsArePositive
    DEF ShuttingDown, Stopped, SlotsConsistent, ProcessesConsistent, Ending
  <2>1. RoutedTo(e, n)'
    BY <1>2, <1>4, <2>0 DEF HandledAt, RoutedTo, Routed
  <2>2. Owned(e, n)'
    BY <1>2, <2>0 DEF HandledAt, Owned, Raced
  <2>3. OvertakenOnce(e, n)'
    BY <1>2, <1>4, <2>0 DEF HandledAt, OvertakenOnce
  <2>4. Raced(e, n)'
    BY <1>3, <1>4 DEF Raced
  <2>. QED  BY <1>6, <2>1, <2>2, <2>3, <2>4 DEF HandledAt
<1>. QED  BY <1>5, <1>6

\* The slot is None.
LEMMA HandledDropEngine ==
  ASSUME OwnerInv, NEW e \in Engines, DropEngine(e)
  PROVE  Handled'
<1>1. EngineTypes /\ monitor \in MonitorStates /\ MonitorKnows
      /\ \A i \in Engines, n \in 1..MaxLaunches : HandledAt(i, n)
  BY OwnerFacts
<1>2. /\ UNCHANGED <<shadow, launches, alive, registered, promotion, watching, overtaken>>
      /\ slot' = [slot EXCEPT ![e] = "empty"]
      /\ process' = [process EXCEPT ![e] = 0]
      /\ monitor.at = "dropping" /\ monitor.engine = e /\ monitor'.at = "killing"
  BY <1>1 DEF DropEngine, MonitorStates
<1>3. \A i \in Engines : /\ ~ShuttingDown(i)' /\ ~Stopped(i)'
                         /\ ~ShuttingDown(i) /\ ~Stopped(i)
  BY <1>2 DEF ShuttingDown, Stopped
<1>4. /\ slot'[e] = "empty" /\ slot[e] = "dead" /\ promotion[e] = Free
      /\ \A i \in Engines \ {e} : slot'[i] = slot[i] /\ process'[i] = process[i]
  BY <1>1, <1>2 DEF EngineTypes, MonitorKnows
<1>. SUFFICES ASSUME NEW i \in Engines, NEW n \in 1..MaxLaunches PROVE HandledAt(i, n)'
  BY DEF Handled
<1>5. CASE i # e
  BY <1>1, <1>2, <1>3, <1>4, <1>5, HandledKept
<1>6. CASE i = e
  <2>0. HandledAt(e, n)
    BY <1>1
  <2>1. RoutedTo(e, n)' /\ Owned(e, n)' /\ OvertakenOnce(e, n)'
    BY <1>2, <1>4, <2>0 DEF HandledAt, RoutedTo, Routed, Owned, OvertakenOnce
  <2>2. Raced(e, n)'
    BY <1>2, <1>3, <1>4 DEF Raced
  <2>. QED  BY <1>6, <2>1, <2>2 DEF HandledAt
<1>. QED  BY <1>5, <1>6

\* The steps of the monitor.
LEMMA HandledMonitor ==
  ASSUME OwnerInv, MonitorStep
  PROVE  Handled'
<1>1. CASE StartPass \/ EndPass \/ \E e \in Engines : CheckEngine(e)
  <2>1. monitor \in MonitorStates
    BY OwnerFacts
  <2>2. /\ UNCHANGED <<slot, process, shadow, launches, promotion, watching, registered, overtaken,
                       alive>>
        /\ monitor.at \in {"waiting", "checking"}
        /\ monitor'.at \in {"waiting", "checking", "killing", "promoting"}
    BY <1>1, <2>1 DEF StartPass, EndPass, CheckEngine, CountFailure, PassedOver, MonitorStates,
         actors
  <2>. QED  BY <2>2, HandledSame DEF ShuttingDown, Stopped
<1>. QED  BY <1>1, HandledPromotes, HandledUnregisters, HandledKillsProcess, HandledKillsShadow,
          HandledKillActor, HandledDropEngine DEF MonitorStep

\* A new actor registers its process and owns what it has launched.
LEMMA HandledRecovery ==
  ASSUME OwnerInv, NEW w \in Threads, RecoveryStep(w)
  PROVE  Handled'
<1>1. EngineTypes /\ monitor \in MonitorStates /\ JobTypes /\ MonitorKnows /\ SlotsConsistent
      /\ \A i \in Engines, n \in 1..MaxLaunches : HandledAt(i, n)
  BY OwnerFacts
<1>2. recovery[w] \in RecoveryStates
  BY <1>1 DEF JobTypes, RecoveryStates
<1>3. recovery[w].at # "idle" \/ CallsRecovery(w)
  BY DEF RecoveryStep, RecoveryLooks, RecoveryLaunches, RecoveryEnds
<1>4. UNCHANGED monitor \/ (monitor.at = "killing" /\ monitor'.at = "waiting")
  <2>1. w = "monitor" => monitor.at = "killing"
    BY <1>3, RecoveryWorks DEF OwnerInv
  <2>. QED  BY <1>1, <2>1 DEF RecoveryStep, RecoveryLooks, RecoveryLaunches, RecoveryEnds,
            RecoveryReturns, MonitorStates
<1>6. \A i \in Engines : /\ ShuttingDown(i)' <=> ShuttingDown(i)
                         /\ Stopped(i)' <=> Stopped(i)
  BY <1>4 DEF ShuttingDown, Stopped
<1>7. CASE RecoveryLooks(w)
  BY <1>6, <1>7, HandledSame DEF RecoveryLooks, actors
<1>. SUFFICES ASSUME RecoveryLaunches(w) \/ RecoveryEnds(w),
                    NEW i \in Engines, NEW n \in 1..MaxLaunches
             PROVE  HandledAt(i, n)'
  BY <1>7 DEF Handled, RecoveryStep
<1>8. n # 0 /\ n \in Nat /\ HandledAt(i, n)
  BY <1>1, BoundsArePositive
<1>9. CASE RecoveryLaunches(w)
  <2>1. /\ UNCHANGED <<process, shadow, launches, promotion, watching, alive, registered,
                       overtaken>>
        /\ slot'[i] = slot[i] \/ (slot[i] = "empty" /\ slot'[i] = "starting")
    BY <1>9 DEF RecoveryLaunches, Empty
  <2>2. RoutedTo(i, n)' /\ Owned(i, n)' /\ OvertakenOnce(i, n)' /\ Raced(i, n)'
    BY <1>6, <1>8, <2>1 DEF HandledAt, RoutedTo, Owned, Routed, OvertakenOnce, Raced
  <2>. QED  BY <2>2 DEF HandledAt
<1>10. CASE RecoveryEnds(w)
  <2>1. PICK new \in SUBSET Engines : new = recovery[w].new
    BY <1>2 DEF RecoveryStates
  <2>2. Started(new) /\ recovery[w].at = "launched"
    BY <1>10, <2>1 DEF RecoveryEnds
  <2>3. \A e \in new : slot[e] = "starting" /\ shadow[e] = 0
    BY <1>1, <2>1, <2>2 DEF SlotsConsistent, Filling, ProcessesConsistent
  <2>4. UNCHANGED <<promotion, overtaken>>
    BY <2>2 DEF Started
  <2>5. CASE i \notin new
    <3>1. /\ slot'[i] = slot[i] /\ process'[i] = process[i] /\ shadow'[i] = shadow[i]
          /\ launches'[i] = launches[i] /\ watching'[i] = watching[i]
      BY <2>2, <2>5 DEF Started
    <3>2. <<i, n>> \in registered' <=> <<i, n>> \in registered
      BY <2>2, <2>5 DEF Started
    <3>3. <<i, n>> \in alive' <=> <<i, n>> \in alive
      BY <2>2, <2>5 DEF Started
    <3>. QED  BY <1>6, <1>8, <2>4, <3>1, <3>2, <3>3, HandledKept
  <2>6. CASE i \in new
    <3>1. /\ slot'[i] = "up" /\ process'[i] = launches[i] + 1
          /\ launches'[i] = launches[i] + Needed
          /\ shadow'[i] = (IF options.fast THEN launches[i] + 2 ELSE 0)
      BY <2>2, <2>3, <2>6 DEF Started
    <3>2. slot[i] = "starting" /\ promotion'[i] = Free /\ promotion'[i].at = "free"
      BY <1>1, <2>3, <2>4, <2>6 DEF MonitorKnows, Free
    <3>0. ~ShuttingDown(i) /\ ~ShuttingDown(i)' /\ ~Stopped(i) /\ ~Stopped(i)'
      BY <1>1, <1>6, <3>2 DEF MonitorKnows, ShuttingDown, Stopped
    <3>3. launches[i] \in Nat /\ Needed = (IF options.fast THEN 2 ELSE 1)
      BY <1>1, BoundsArePositive DEF EngineTypes, PidOrNone, Needed
    <3>4. <<i, n>> \in registered' <=> <<i, n>> \in registered \/ n = launches[i] + 1
      BY <2>2, <2>6 DEF Started
    <3>5. <<i, n>> \in alive' => \/ <<i, n>> \in alive
                                 \/ n \in (launches[i] + 1)..(launches[i] + Needed)
      BY <2>2, <2>6 DEF Started
    <3>6. <<i, n>> \in overtaken => n <= launches[i]
      BY <1>8 DEF HandledAt, OvertakenOnce
    <3>7. RoutedTo(i, n)'
      BY <1>8, <2>4, <3>0, <3>1, <3>2, <3>4 DEF HandledAt, RoutedTo, Routed
    <3>8. Owned(i, n)'
      <4>1. <<i, n>> \in alive => <<i, n>> \in overtaken /\ <<i, n>> \in registered
        BY <1>8, <3>2 DEF HandledAt, Owned
      <4>2. n \in (launches[i] + 1)..(launches[i] + Needed) => n \in {process'[i], shadow'[i]}
        BY <1>8, <3>1, <3>3
      <4>. QED  BY <2>4, <3>1, <3>4, <3>5, <4>1, <4>2 DEF Owned
    <3>9. OvertakenOnce(i, n)'
      BY <1>8, <2>4, <3>1, <3>3, <3>6 DEF OvertakenOnce
    <3>10. Raced(i, n)'
      BY <3>0, <3>2 DEF Raced
    <3>. QED  BY <3>7, <3>8, <3>9, <3>10 DEF HandledAt
  <2>. QED  BY <2>5, <2>6
<1>. QED  BY <1>9, <1>10

\* Trainer and driver do not touch processes or URLs.
LEMMA HandledRest ==
  ASSUME OwnerInv, \/ \E r \in Ranks : RankStep(r)
                   \/ Connect \/ Clear \/ SendWeights \/ EvaluationEnds \/ RolloutEnds
                   \/ OffloadEnds \/ TrainingEnds \/ OnloadEnds
                   \/ UNCHANGED vars
  PROVE Handled'
<1>1. UNCHANGED <<slot, process, shadow, launches, promotion, watching, registered, overtaken,
                  alive, monitor>>
  BY DEF RankStep, GetEngines, GetDebugState, Collected, Connect, Clear, SendWeights,
         EvaluationEnds, RolloutEnds, OffloadEnds, TrainingEnds, OnloadEnds, Trained, Driven,
         actors, vars, manager
<1>. QED  BY <1>1, HandledSame DEF ShuttingDown, Stopped

\* URLs by stage are what RoutedToOwner says.
LEMMA RoutedMeans ==
  ASSUME OwnerInv
  PROVE  RoutedToOwner
<1>1. EngineTypes /\ SlotsConsistent /\ \A i \in Engines, n \in 1..MaxLaunches : HandledAt(i, n)
  BY OwnerFacts
<1>. SUFFICES ASSUME NEW e \in Engines
             PROVE  LET urls == {n \in 1..MaxLaunches : <<e, n>> \in registered \ overtaken} IN
        IF slot[e] # "up" \/ ShuttingDown(e) THEN urls = {}
        ELSE IF promotion[e] = Free THEN urls = {process[e]}
        ELSE urls # {} /\ urls \subseteq {process[e], shadow[e]}
  BY DEF RoutedToOwner
<1>. DEFINE urls == {n \in 1..MaxLaunches : <<e, n>> \in registered \ overtaken}
<1>2. \A n \in 1..MaxLaunches : n \in urls <=> Routed(e, n) /\ <<e, n>> \notin overtaken
  BY <1>1 DEF HandledAt, RoutedTo
<1>. HIDE DEF urls
<1>u. urls \subseteq 1..MaxLaunches
  BY DEF urls
<1>3. slot[e] = "up" /\ ~ShuttingDown(e) =>
        /\ process[e] \in 1..MaxLaunches /\ <<e, process[e]>> \notin overtaken
        /\ shadow[e] # 0 => shadow[e] \in 1..MaxLaunches /\ <<e, shadow[e]>> \notin overtaken
  <2>. SUFFICES ASSUME slot[e] = "up", ~ShuttingDown(e)
               PROVE  /\ process[e] \in 1..MaxLaunches /\ <<e, process[e]>> \notin overtaken
                      /\ shadow[e] # 0 => /\ shadow[e] \in 1..MaxLaunches
                                          /\ <<e, shadow[e]>> \notin overtaken
    OBVIOUS
  <2>1. launches[e] \in 0..MaxLaunches
    BY <1>1 DEF EngineTypes, PidOrNone
  <2>2. process[e] \in 1..launches[e] /\ shadow[e] \in 0..launches[e]
    BY <1>1 DEF SlotsConsistent, ProcessesConsistent, Ending, ShuttingDown
  <2>3. process[e] \in 1..MaxLaunches /\ (shadow[e] # 0 => shadow[e] \in 1..MaxLaunches)
    BY <2>1, <2>2, BoundsArePositive
  <2>4. \A n \in 1..MaxLaunches : n \in {process[e], shadow[e]} => <<e, n>> \notin overtaken
    BY <1>1 DEF HandledAt, OvertakenOnce
  <2>. QED  BY <2>3, <2>4
<1>4. promotion[e] # Free /\ ~ShuttingDown(e) => shadow[e] # 0
  <2>1. 0 \notin 1..launches[e]
    BY <1>1, BoundsArePositive DEF EngineTypes, PidOrNone
  <2>. QED  BY <2>1, Promoting DEF Ending, ShuttingDown
<1>5. CASE slot[e] # "up" \/ ShuttingDown(e)
  <2>1. urls = {}
    BY <1>2, <1>5, <1>u DEF Routed
  <2>. QED  BY <1>5, <2>1 DEF urls
<1>6. CASE slot[e] = "up" /\ ~ShuttingDown(e) /\ promotion[e] = Free
  <2>0. promotion[e].at = "free"
    BY <1>6 DEF Free
  <2>a. \A n \in 1..MaxLaunches : n \in urls <=> n = process[e]
    BY <1>2, <1>3, <1>6, <2>0 DEF Routed
  <2>1. urls = {process[e]}
    BY <2>a, <1>3, <1>6, <1>u
  <2>. QED  BY <1>6, <2>1 DEF urls
<1>7. CASE slot[e] = "up" /\ ~ShuttingDown(e) /\ promotion[e] # Free
  <2>1. urls \subseteq {process[e], shadow[e]}
    BY <1>2, <1>7, <1>u DEF Routed
  <2>2. process[e] \in urls \/ shadow[e] \in urls
    BY <1>2, <1>3, <1>4, <1>7 DEF Routed
  <2>. QED  BY <1>7, <2>1, <2>2 DEF urls
<1>. QED  BY <1>5, <1>6, <1>7

\* No server is stray.
LEMMA OwnedMeans ==
  ASSUME OwnerInv
  PROVE  NoStrayServer
<1>1. EngineTypes /\ \A i \in Engines, n \in 1..MaxLaunches : HandledAt(i, n)
  BY OwnerFacts
<1>. SUFFICES ASSUME NEW p \in alive
             PROVE  \/ slot[p[1]] = "up" /\ p[2] \in {process[p[1]], shadow[p[1]]}
                    \/ p \in overtaken \intersect registered
  BY DEF NoStrayServer
<1>2. p[1] \in Engines /\ p[2] \in 1..MaxLaunches /\ p = <<p[1], p[2]>>
  BY <1>1 DEF EngineTypes, Pids
<1>. QED  BY <1>1, <1>2 DEF HandledAt, Owned
-----------------------------------------------------------------------------
(***************************************************************************)
(* Weight updates.                                                         *)
(***************************************************************************)
\* The types that the counts need.
LEMMA UpdateFacts ==
  ASSUME JobInv
  PROVE /\ EngineTypes /\ JobTypes /\ Paused /\ MonitorKnows /\ SlotsConsistent
        /\ rank \in [Ranks -> RankStates] /\ rank[Main] \in RankStates
        /\ num_new_engines \in Nat /\ pending_reconnects \in Nat
        /\ \A e \in Engines : /\ launches[e] \in Nat /\ process[e] \in Nat /\ shadow[e] \in Nat
                              /\ begun[e] \in Nat
<1>1. EngineTypes /\ JobTypes /\ Paused /\ MonitorKnows /\ SlotsConsistent
  BY TypeParts DEF JobInv
<1>2. rank \in [Ranks -> RankStates] /\ num_new_engines \in Nat /\ pending_reconnects \in Nat
  BY <1>1 DEF JobTypes, RankStates
<1>3. \A n \in PidOrNone : n \in Nat
  BY BoundsArePositive DEF PidOrNone
<1>4. \A e \in Engines : launches[e] \in PidOrNone /\ process[e] \in PidOrNone
      /\ shadow[e] \in PidOrNone /\ begun[e] \in PidOrNone
  BY <1>1 DEF EngineTypes, JobTypes
<1>. QED  BY <1>1, <1>2, <1>3, <1>4, MainIsARank

\* Before the first update all engines count as new.
LEMMA UpdateInit == Init => UpdateInv
<1>. SUFFICES ASSUME Init PROVE UpdateInv
  OBVIOUS
<1>1. num_new_engines > 0
  BY CountIsNat, EnginesAreFinite DEF Init
<1>2. AllFresh
  BY DEF Init, AllFresh, FreshAt, Needed
<1>3. \A r \in Ranks : rank[r].at \in {"recover", "barrier"}
  BY DEF Init, Idle
<1>. QED  BY <1>1, <1>2, <1>3, MainIsARank DEF UpdateInv, AllOwed, AllTold, Backed, MainCounted,
     OwedAt, Has, Settled

\* Steps that change nothing the update depends on.
LEMMA UpdateUntouched ==
  ASSUME UpdateInv,
         UNCHANGED <<slot, process, shadow, launches, begun, connected, pending, num_new_engines,
                     pending_reconnects, phase, rank>>
  PROVE UpdateInv'
BY DEF UpdateInv, AllOwed, AllTold, AllFresh, Backed, MainCounted, OwedAt, Has, ReachedAt, Settled,
     FreshAt

\* SwitchProcess leaves an event.
LEMMA UpdateEngines ==
  ASSUME JobInv, options.offload, UpdateInv, NEW e \in Engines, EngineStep(e) PROVE UpdateInv'
<1>1. CASE WatcherPromotes(e) \/ RegisterShadow(e) \/ UnregisterPrimary(e)
  BY <1>1, UpdateUntouched DEF WatcherPromotes, RegisterShadow, UnregisterPrimary, manager,
       trainer
<1>2. CASE SwitchProcess(e)
  <2>1. /\ UNCHANGED <<slot, launches, begun, connected, num_new_engines, pending_reconnects,
              phase, rank>>
        /\ process' = [process EXCEPT ![e] = shadow[e]]
        /\ shadow' = [shadow EXCEPT ![e] = 0]
        /\ pending' = [pending EXCEPT ![e] = shadow[e] # 0]
    BY <1>2 DEF SwitchProcess, trainer
  <2>2. shadow[e] <= launches[e]
    <3>1. promotion[e] # Free
      BY <1>2 DEF SwitchProcess, Free
    <3>2. slot[e] = "up" /\ ProcessesConsistent(e)
      BY <3>1, UpdateFacts DEF MonitorKnows, SlotsConsistent
    <3>. QED  BY <3>2, UpdateFacts DEF ProcessesConsistent
  <2>3. \A i \in Engines \ {e} : process'[i] = process[i] /\ shadow'[i] = shadow[i]
        /\ pending'[i] = pending[i]
    BY <2>1, UpdateFacts DEF EngineTypes
  <2>4. process'[e] = shadow[e] /\ shadow'[e] = 0 /\ pending'[e] = (shadow[e] # 0)
    BY <2>1, UpdateFacts DEF EngineTypes
  <2>5. AllOwed'
    <3>1. \A i \in Engines \ {e} : OwedAt(i)'
      BY <2>1, <2>3 DEF UpdateInv, AllOwed, OwedAt, Has
    <3>2. OwedAt(e)'
      BY <2>4 DEF OwedAt, Has
    <3>. QED  BY <3>1, <3>2 DEF AllOwed
  <2>6. \A i \in Engines : ReachedAt(i) => ReachedAt(i)'
    BY <2>1, <2>3, <2>4 DEF ReachedAt, Has, UpdateInv, AllFresh, FreshAt
  <2>7. AllTold'
    BY <2>1, <2>6 DEF UpdateInv, AllTold, Settled
  <2>8. AllFresh'
    BY <2>1, <2>2, <2>3, <2>4 DEF UpdateInv, AllFresh, FreshAt
  <2>. QED  BY <2>1, <2>5, <2>7, <2>8 DEF UpdateInv, Backed, MainCounted
<1>. QED  BY <1>1, <1>2 DEF EngineStep

\* An actor that is killed owes nothing.
LEMMA UpdateMonitor ==
  ASSUME JobInv, options.offload, UpdateInv, MonitorStep
  PROVE  UpdateInv'
<1>1. CASE StartPass \/ EndPass \/ \E e \in Engines :
             \/ CheckEngine(e) \/ MonitorPromotes(e) \/ ShutdownUnregisters(e)
                   \/ ShutdownKillsProcess(e)
  <2>1. UNCHANGED <<slot, process, shadow, launches, pending>> /\ Monitored
    BY <1>1 DEF StartPass, EndPass, CheckEngine, MonitorPromotes, ShutdownUnregisters,
         ShutdownKillsProcess, actors
  <2>. QED  BY <2>1, UpdateUntouched DEF Monitored, trainer
<1>3. ASSUME NEW e \in Engines, ShutdownKillsShadow(e) PROVE UpdateInv'
  <2>1. /\ UNCHANGED <<slot, process, launches, pending, begun, connected, num_new_engines,
                       pending_reconnects, phase, rank>>
        /\ \A i \in Engines : shadow'[i] \in {0, shadow[i]}
    BY <1>3, UpdateFacts DEF ShutdownKillsShadow, Monitored, trainer, EngineTypes
  <2>. QED  BY <2>1 DEF UpdateInv, AllOwed, AllTold, AllFresh, Backed, MainCounted, OwedAt, Has,
       ReachedAt, Settled, FreshAt
<1>2. ASSUME NEW e \in Engines, KillActor(e) \/ DropEngine(e) PROVE UpdateInv'
  <2>1. UNCHANGED <<launches, begun, connected, num_new_engines, pending_reconnects, phase, rank>>
    BY <1>2 DEF KillActor, DropEngine, Monitored, trainer
  <2>2. /\ slot'[e] # "up" /\ process'[e] \in {0, process[e]} /\ shadow'[e] \in {0, shadow[e]}
        /\ \A i \in Engines \ {e} : slot'[i] = slot[i] /\ process'[i] = process[i]
              /\ shadow'[i] = shadow[i] /\ pending'[i] = pending[i]
    BY <1>2, UpdateFacts DEF KillActor, DropEngine, EngineTypes
  <2>5. AllOwed'
    BY <2>1, <2>2 DEF UpdateInv, AllOwed, OwedAt, Has
  <2>6. \A i \in Engines : ReachedAt(i) => ReachedAt(i)'
    BY <2>1, <2>2 DEF ReachedAt, Has
  <2>7. AllTold'
    BY <2>1, <2>6 DEF UpdateInv, AllTold, Settled
  <2>8. AllFresh'
    BY <2>1, <2>2, UpdateFacts DEF UpdateInv, AllFresh, FreshAt
  <2>. QED  BY <2>1, <2>5, <2>7, <2>8 DEF UpdateInv, Backed, MainCounted
<1>. QED  BY <1>1, <1>2, <1>3 DEF MonitorStep

\* After a recovery no rank has been told anything yet.
LEMMA RecoveryTells ==
  ASSUME JobInv, options.offload, NEW w \in Threads, recovery[w].at # "idle"
            \/ CallsRecovery(w), NEW raises \in BOOLEAN,
         RecoveryReturns(w, raises)
  PROVE \A r \in Ranks : rank'[r].at \in {"idle", "get", "failed"}
<1>1. CASE w = "monitor"
  <2>1. phase # "update" /\ UNCHANGED rank
    BY <1>1, RecoveryWorks DEF RecoveryReturns
  <2>. QED  BY <2>1, UpdateFacts DEF Paused
<1>2. CASE w # "monitor"
  <2>1. rank' = [r \in Ranks |-> [rank[r] EXCEPT !.at = IF raises THEN "failed" ELSE "get"]]
    BY <1>2 DEF RecoveryReturns
  <2>. QED  BY <2>1, UpdateFacts DEF RankStates
<1>. QED  BY <1>1, <1>2

\* A recovery leaves a count above zero.
LEMMA UpdateRecovery ==
  ASSUME JobInv, options.offload, UpdateInv, NEW w \in Threads, RecoveryStep(w)
  PROVE  UpdateInv'
<1>1. recovery[w].at # "idle" \/ CallsRecovery(w)
  BY DEF RecoveryStep, RecoveryLooks, RecoveryLaunches, RecoveryEnds
<1>2. CASE RecoveryLooks(w)
  <2>1. UNCHANGED <<slot, process, shadow, launches, begun, connected, pending, num_new_engines,
                    pending_reconnects, phase>>
    BY <1>2 DEF RecoveryLooks, actors
  <2>2. CASE UNCHANGED rank
    BY <2>1, <2>2, UpdateUntouched
  <2>3. CASE rank' # rank
    <3>1. RecoveryReturns(w, FALSE)
      BY <1>2, <2>3 DEF RecoveryLooks
    <3>2. \A r \in Ranks : rank'[r].at \in {"idle", "get", "failed"}
      BY <1>1, <3>1, RecoveryTells
    <3>. QED  BY <2>1, <3>2, MainIsARank DEF UpdateInv, AllOwed, AllTold, AllFresh, Backed,
         MainCounted, OwedAt, Has, Settled, FreshAt
  <2>. QED  BY <2>2, <2>3
<1>3. CASE RecoveryLaunches(w)
  <2>1. /\ UNCHANGED <<process, shadow, launches, begun, connected, pending, num_new_engines,
                       pending_reconnects, phase, rank>>
        /\ \A e \in Engines : slot'[e] = "up" => slot[e] = "up"
    BY <1>3 DEF RecoveryLaunches, trainer
  <2>. QED  BY <2>1 DEF UpdateInv, AllOwed, AllTold, AllFresh, Backed, MainCounted, OwedAt, Has,
       ReachedAt, Settled, FreshAt
<1>4. CASE RecoveryEnds(w)
  <2>1. recovery[w].at = "launched" /\ recovery[w].new \in SUBSET Engines /\ recovery[w].new # {}
    BY <1>4, UpdateFacts DEF RecoveryEnds, JobTypes, SlotsConsistent, Filled
  <2>2. PICK new \in SUBSET Engines : new = recovery[w].new
    BY <2>1
  <2>3. Started(new) /\ UNCHANGED <<pending_reconnects, begun, connected, phase>>
    BY <1>4, <2>2 DEF RecoveryEnds
  <2>4. num_new_engines' > 0
    BY <1>4, <2>1, CountIsNat DEF RecoveryEnds
  <2>5. \A r \in Ranks : rank'[r].at \in {"idle", "get", "failed"}
    <3>1. PICK raises \in BOOLEAN : RecoveryReturns(w, raises)
      BY <1>4 DEF RecoveryEnds
    <3>. QED  BY <1>1, <3>1, RecoveryTells
  <2>6. AllFresh'
    <3>. SUFFICES ASSUME NEW e \in Engines PROVE FreshAt(e)'
      BY DEF AllFresh
    <3>1. FreshAt(e)
      BY DEF UpdateInv, AllFresh
    <3>2. CASE e \notin new
      <4>1. process'[e] = process[e] /\ shadow'[e] = shadow[e] /\ launches'[e] = launches[e]
        BY <2>3, <3>2 DEF Started
      <4>. QED  BY <2>3, <3>1, <4>1 DEF FreshAt
    <3>3. CASE e \in new
      <4>1. /\ process'[e] = launches[e] + 1 /\ launches'[e] = launches[e] + Needed
            /\ shadow'[e] = (IF options.fast THEN launches[e] + 2 ELSE shadow[e])
        BY <2>3, <3>3 DEF Started
      <4>2. Needed = (IF options.fast THEN 2 ELSE 1) /\ launches[e] \in Nat /\ begun[e] \in Nat
        BY UpdateFacts DEF Needed
      <4>. QED  BY <2>3, <3>1, <4>1, <4>2 DEF FreshAt
    <3>. QED  BY <3>2, <3>3
  <2>. QED  BY <2>4, <2>5, <2>6, MainIsARank DEF UpdateInv, AllOwed, AllTold, Backed,
       MainCounted, OwedAt, Has, Settled
<1>. QED  BY <1>2, <1>3, <1>4 DEF RecoveryStep

\* In an update every engine that is listed answers, so a collection counts all events.
LEMMA CollectionCounts ==
  ASSUME JobInv, options.offload, UpdateInv, Collected, phase = "update"
  PROVE \E n \in Nat : /\ num_new_engines' = num_new_engines + n
                       /\ pending_reconnects' = pending_reconnects + n
                       /\ \A e \in Engines : slot[e] = "up" /\ pending[e] => n > 0
<1>. DEFINE Up == {e \in Engines : slot[e] = "up"}
           Waiting == {e \in Up : pending[e]}
<1>1. \A e \in Engines : slot[e] # "dead"
  BY UpdateFacts DEF Paused, MonitorKnows
<1>2. \A e \in Listed : slot[e] # "starting"
  BY DEF Collected
<1>3. Up = Listed
  <2>1. \A e \in Engines : slot[e] \in {"empty", "starting", "up", "dead"}
    BY UpdateFacts DEF EngineTypes
  <2>. QED  BY <1>1, <1>2, <2>1 DEF Listed, Empty
<1>4. /\ num_new_engines' = num_new_engines + Cardinality(Waiting)
      /\ pending_reconnects' = pending_reconnects + Cardinality(Waiting)
  BY <1>3 DEF Collected
<1>5. Cardinality(Waiting) \in Nat /\ (Waiting # {} => Cardinality(Waiting) > 0)
  BY CountIsNat
<1>6. \A e \in Engines : slot[e] = "up" /\ pending[e] => Waiting # {}
  OBVIOUS
<1>. QED  BY <1>4, <1>5, <1>6

\* A rank that is told of nothing new finds every engine connected.
LEMMA UpdateRanks ==
  ASSUME JobInv, options.offload, UpdateInv, NEW r \in Ranks, RankStep(r)
  PROVE  UpdateInv'
<1>1. /\ Collected /\ UNCHANGED <<slot, process, shadow, launches, phase, connected, begun>>
      /\ rank[r].at \in {"get", "debug"}
  BY DEF RankStep, GetEngines, GetDebugState, Collected
<1>2. phase = "update"
  BY <1>1, UpdateFacts DEF Paused
<1>3. PICK n \in Nat : /\ num_new_engines' = num_new_engines + n
                       /\ pending_reconnects' = pending_reconnects + n
                       /\ \A e \in Engines : slot[e] = "up" /\ pending[e] => n > 0
  BY <1>1, <1>2, CollectionCounts
<1>4. AllOwed'
  BY <1>1, <1>3, UpdateFacts DEF UpdateInv, AllOwed, OwedAt, Has
<1>5. AllFresh'
  BY <1>1 DEF UpdateInv, AllFresh, FreshAt
<1>6. Backed'
  BY <1>3, UpdateFacts DEF UpdateInv, Backed
<1>7. \A e \in Engines : ReachedAt(e) => ReachedAt(e)'
  BY <1>1 DEF ReachedAt, Has
<1>8. \A s \in Ranks \ {r} : rank'[s] = rank[s]
  BY UpdateFacts DEF RankStep, GetEngines, GetDebugState
<1>9. Settled(r)' => \A e \in Engines : ReachedAt(e)
  <2>1. CASE GetEngines(r)
    <3>1. rank'[r].at = "debug" /\ rank'[r].num_new = num_new_engines'
      BY <2>1, UpdateFacts DEF GetEngines
    <3>. SUFFICES ASSUME num_new_engines' = 0, NEW e \in Engines PROVE ReachedAt(e)
      BY <3>1 DEF Settled
    <3>2. num_new_engines = 0 /\ n = 0
      BY <1>3, UpdateFacts
    <3>. QED  BY <1>2, <1>3, <3>2 DEF UpdateInv, AllOwed, OwedAt, Has, ReachedAt
  <2>2. CASE GetDebugState(r)
    <3>1. rank'[r].at = "send" => rank[r].at = "debug" /\ ~(rank[r].num_new > 0)
      BY <2>2, UpdateFacts DEF GetDebugState, RankStates
    <3>2. rank'[r].at \in {"send", "connect", "failed"}
      BY <2>2, UpdateFacts DEF GetDebugState, RankStates
    <3>3. rank[r].num_new \in Nat
      BY UpdateFacts DEF RankStates
    <3>. QED  BY <3>1, <3>2, <3>3 DEF UpdateInv, AllTold, Settled
  <2>. QED  BY <2>1, <2>2 DEF RankStep
<1>10. AllTold'
  BY <1>7, <1>8, <1>9 DEF UpdateInv, AllTold, Settled
<1>11. MainCounted'
  <2>1. rank[Main].num_new \in Nat /\ rank[Main].shadows \in Nat
    BY UpdateFacts DEF RankStates
  <2>2. CASE r # Main
    <3>1. rank'[Main] = rank[Main]
      BY <1>8, <2>2, MainIsARank
    <3>. QED  BY <1>3, <2>1, <3>1, UpdateFacts DEF UpdateInv, MainCounted
  <2>3. CASE r = Main /\ GetEngines(r)
    <3>1. rank'[Main].at = "debug" /\ rank'[Main].num_new = num_new_engines'
      BY <2>3, UpdateFacts DEF GetEngines
    <3>. QED  BY <1>3, <3>1, UpdateFacts DEF MainCounted
  <2>4. CASE r = Main /\ GetDebugState(r)
    <3>1. rank[Main].at = "debug" /\ rank'[Main].num_new = rank[Main].num_new
          /\ rank'[Main].shadows = pending_reconnects'
      BY <2>4, UpdateFacts DEF GetDebugState, RankStates
    <3>. QED  BY <1>3, <2>1, <3>1, UpdateFacts DEF UpdateInv, MainCounted
  <2>. QED  BY <2>2, <2>3, <2>4 DEF RankStep
<1>. QED  BY <1>4, <1>5, <1>6, <1>10, <1>11 DEF UpdateInv

\* Connecting reaches every engine; clearing takes off no more than was told.
LEMMA UpdateDriver ==
  ASSUME JobInv, options.offload, UpdateInv, Connect \/ Clear \/ SendWeights \/ EvaluationEnds \/ RolloutEnds
                   \/ OffloadEnds \/ TrainingEnds \/ OnloadEnds
  PROVE  UpdateInv'
<1>1. UNCHANGED <<slot, process, shadow, launches, pending>>
  BY DEF Connect, Clear, SendWeights, EvaluationEnds, RolloutEnds, OffloadEnds, TrainingEnds,
       OnloadEnds, Trained, Driven, actors
<1>2. CASE Connect
  <2>1. UNCHANGED <<begun, num_new_engines, pending_reconnects, phase>>
        /\ rank[Main].at = "connect"
    BY <1>2, MainIsARank DEF Connect, Trained, AllRanks
  <2>2. rank'[Main].num_new = rank[Main].num_new /\ rank'[Main].shadows = rank[Main].shadows
    BY <1>2, UpdateFacts, MainIsARank DEF Connect, RankStates
  <2>3. AllFresh' /\ Backed' /\ MainCounted'
    BY <1>1, <2>1, <2>2 DEF UpdateInv, AllFresh, FreshAt, Backed, MainCounted
  <2>4. CASE connected' = process
    BY <1>1, <2>1, <2>3, <2>4 DEF UpdateInv, AllOwed, AllTold, OwedAt, Has, ReachedAt
  <2>5. CASE connected' # process
    <3>1. UNCHANGED connected /\ \A r \in Ranks : rank'[r].at = "failed"
      BY <1>2, <2>5, UpdateFacts DEF Connect, RankStates
    <3>. QED  BY <1>1, <2>1, <2>3, <3>1 DEF UpdateInv, AllOwed, AllTold, OwedAt, Has, Settled
  <2>. QED  BY <2>4, <2>5
<1>3. CASE Clear
  <2>1. UNCHANGED <<begun, connected, phase>> /\ rank[Main].at = "clear"
    BY <1>3 DEF Clear, Trained
  <2>2. \A e \in Engines : ReachedAt(e)
    BY <2>1, MainIsARank DEF UpdateInv, AllTold, Settled
  <2>3. phase = "update"
    BY <2>1, UpdateFacts, MainIsARank DEF Paused
  <2>4. AllOwed' /\ AllFresh' /\ AllTold'
    BY <1>1, <2>1, <2>2, <2>3 DEF UpdateInv, AllOwed, AllTold, AllFresh, OwedAt, Has, ReachedAt,
         FreshAt
  <2>5. rank'[Main].at = "send"
    BY <1>3, UpdateFacts, MainIsARank DEF Clear, RankStates
  <2>6. Backed'
    <3>1. PICK nn \in Nat, sh \in Nat : nn = rank[Main].num_new /\ sh = rank[Main].shadows
      BY UpdateFacts DEF RankStates
    <3>2. /\ num_new_engines' = (IF num_new_engines > nn THEN num_new_engines - nn ELSE 0)
          /\ pending_reconnects' = (IF sh > 0 THEN 0 ELSE pending_reconnects)
      BY <1>3, <3>1 DEF Clear
    <3>3. sh = 0 => num_new_engines >= nn + pending_reconnects
      BY <2>1, <3>1 DEF UpdateInv, MainCounted
    <3>4. num_new_engines \in Nat /\ pending_reconnects \in Nat
      BY UpdateFacts
    <3>. QED  BY <3>2, <3>3, <3>4 DEF Backed
  <2>. QED  BY <2>4, <2>5, <2>6 DEF UpdateInv, MainCounted
<1>4. CASE SendWeights
  <2>1. UNCHANGED <<begun, connected, num_new_engines, pending_reconnects>>
    BY <1>4 DEF SendWeights
  <2>2. CASE Sent
    <3>1. phase' # "update" /\ rank' = Idle
      BY <1>4, <2>2 DEF SendWeights, NextRollout
    <3>2. \A r \in Ranks : rank'[r].at = "idle"
      BY <3>1 DEF Idle
    <3>3. \A e \in Engines : connected[e] = process[e]
      BY <2>2 DEF Sent
    <3>. QED  BY <1>1, <2>1, <3>2, <3>3, MainIsARank DEF UpdateInv, AllOwed, AllTold, AllFresh,
         Backed, MainCounted, OwedAt, Has, Settled, FreshAt
  <2>3. CASE ~Sent
    <3>1. UNCHANGED phase /\ \A r \in Ranks : rank'[r].at = "failed"
      BY <1>4, <2>3, UpdateFacts DEF SendWeights, RankStates
    <3>. QED  BY <1>1, <2>1, <3>1, MainIsARank DEF UpdateInv, AllOwed, AllTold, AllFresh,
         Backed, MainCounted, OwedAt, Has, Settled, FreshAt
  <2>. QED  BY <2>2, <2>3
<1>5. CASE EvaluationEnds \/ RolloutEnds \/ OffloadEnds \/ OnloadEnds
  <2>1. UNCHANGED <<begun, connected, num_new_engines, pending_reconnects, rank>>
    BY <1>5 DEF EvaluationEnds, RolloutEnds, OffloadEnds, OnloadEnds, Driven
  <2>2. phase # "update" /\ phase' # "update"
    BY <1>5 DEF EvaluationEnds, RolloutEnds, OffloadEnds, OnloadEnds, NextRollout
  <2>. QED  BY <1>1, <2>1, <2>2 DEF UpdateInv, AllOwed, AllTold, AllFresh, Backed, MainCounted,
       OwedAt, Has, ReachedAt, Settled, FreshAt
<1>6. CASE TrainingEnds
  <2>1. UNCHANGED <<connected, num_new_engines, pending_reconnects>> /\ phase # "update"
    BY <1>6 DEF TrainingEnds, Driven
  <2>2. CASE phase' = "update"
    <3>1. begun' = process /\ \A r \in Ranks : rank'[r].at \in {"recover", "barrier"}
      BY <1>6, <2>2 DEF TrainingEnds, Idle
    <3>2. \A e \in Engines : shadow[e] # 0 => shadow[e] # process[e]
      BY UpdateFacts DEF SlotsConsistent, ProcessesConsistent
    <3>3. AllFresh'
      BY <1>1, <3>1, <3>2 DEF UpdateInv, AllFresh, FreshAt
    <3>. QED  BY <1>1, <2>1, <3>1, <3>3, MainIsARank DEF UpdateInv, AllOwed, AllTold, Backed,
         MainCounted, OwedAt, Has, Settled
  <2>3. CASE phase' # "update"
    <3>1. UNCHANGED <<begun, rank>>
      BY <1>6, <2>3 DEF TrainingEnds
    <3>. QED  BY <1>1, <2>1, <2>3, <3>1 DEF UpdateInv, AllOwed, AllTold, AllFresh, Backed,
         MainCounted, OwedAt, ReachedAt, Has, Settled, FreshAt
  <2>. QED  BY <2>2, <2>3
<1>. QED  BY <1>2, <1>3, <1>4, <1>5, <1>6

\* The invariant says what the properties ask.
LEMMA SentReaches ==
  ASSUME JobInv, options.offload, UpdateInv
  PROVE  UpdateReachesAll /\ ObligationBacked
<1>1. ObligationBacked
  BY DEF ObligationBacked, UpdateInv, Backed
<1>2. UpdateReachesAll
  <2>. SUFFICES ASSUME AllRanks("send"), NEW e \in Engines, slot[e] = "up",
                      process[e] = begun[e]
               PROVE  connected[e] = process[e]
    BY DEF UpdateReachesAll
  <2>1. rank[Main].at = "send"
    BY MainIsARank DEF AllRanks
  <2>2. phase = "update" /\ monitor.at = "waiting"
    BY <2>1, MainIsARank, UpdateFacts DEF Paused
  <2>3. process[e] # 0
    BY <2>2, UpdateFacts DEF SlotsConsistent, ProcessesConsistent, Ending
  <2>. QED  BY <2>1, <2>3, MainIsARank DEF UpdateInv, AllTold, Settled, ReachedAt, Has
<1>. QED  BY <1>1, <1>2
-----------------------------------------------------------------------------
(***************************************************************************)
(* The theorems.                                                           *)
(***************************************************************************)
\* Nothing changes the settings.
LEMMA OptionsKept == [Next]_vars => UNCHANGED options
<1>. SUFFICES ASSUME [Next]_vars PROVE UNCHANGED options
  OBVIOUS
<1>1. ASSUME NEW p \in Pids, Crash(p) \/ Hang(p) \/ Answers(p) PROVE UNCHANGED options
  BY <1>1 DEF Crash, Hang, Answers
<1>2. ASSUME NEW e \in Engines, EngineStep(e) PROVE UNCHANGED options
  BY <1>2 DEF EngineStep, WatcherPromotes, RegisterShadow, UnregisterPrimary, SwitchProcess
<1>3. CASE MonitorStep
  BY <1>3 DEF MonitorStep, StartPass, EndPass, CheckEngine, MonitorPromotes,
       ShutdownUnregisters, ShutdownKillsProcess, ShutdownKillsShadow, KillActor, DropEngine,
       Monitored
<1>4. ASSUME NEW w \in Threads, RecoveryStep(w) PROVE UNCHANGED options
  BY <1>4 DEF RecoveryStep, RecoveryLooks, RecoveryLaunches, RecoveryEnds
<1>5. ASSUME NEW r \in Ranks, RankStep(r) PROVE UNCHANGED options
  BY <1>5 DEF RankStep, GetEngines, GetDebugState
<1>6. CASE \/ Connect \/ Clear \/ SendWeights \/ EvaluationEnds \/ RolloutEnds
           \/ OffloadEnds \/ TrainingEnds \/ OnloadEnds
  BY <1>6 DEF Connect, Clear, SendWeights, EvaluationEnds, RolloutEnds, OffloadEnds,
       TrainingEnds, OnloadEnds, Trained, Driven
<1>7. CASE UNCHANGED vars
  BY <1>7 DEF vars
<1>. QED  BY <1>1, <1>2, <1>3, <1>4, <1>5, <1>6, <1>7 DEF Next

\* Every step keeps what is known of engines and processes.
LEMMA OwnerNext ==
  ASSUME OwnerInv, [Next]_vars
  PROVE  OwnerInv'
<1>1. TypeInv /\ Paused /\ MonitorKnows /\ SlotsConsistent /\ Handled /\ JobInv
  BY DEF OwnerInv, JobInv
<1>2. TypeInv'
  BY <1>1, TypeNext
<1>s. Paused' /\ MonitorKnows' /\ SlotsConsistent' /\ Handled' => OwnerInv'
  BY <1>2 DEF OwnerInv, JobInv
<1>. HIDE DEF OwnerInv
<1>3. ASSUME NEW p \in Pids, Crash(p) \/ Hang(p) \/ Answers(p) PROVE OwnerInv'
  BY <1>1, <1>3, <1>s, JobFaults, HandledFaults
<1>4. ASSUME NEW e \in Engines, EngineStep(e) PROVE OwnerInv'
  BY <1>1, <1>4, <1>s, JobEngines, HandledEngines
<1>5. CASE MonitorStep
  BY <1>1, <1>5, <1>s, JobMonitor, HandledMonitor
<1>6. ASSUME NEW w \in Threads, RecoveryStep(w) PROVE OwnerInv'
  BY <1>1, <1>6, <1>s, JobRecovery, HandledRecovery
<1>7. ASSUME NEW r \in Ranks, RankStep(r) PROVE OwnerInv'
  BY <1>1, <1>7, <1>s, JobRanks, HandledRest
<1>8. CASE \/ Connect \/ Clear \/ SendWeights \/ EvaluationEnds \/ RolloutEnds
           \/ OffloadEnds \/ TrainingEnds \/ OnloadEnds
  BY <1>1, <1>8, <1>s, JobDriver, HandledRest
<1>9. CASE UNCHANGED vars
  <2>1. UNCHANGED <<options, slot, process, shadow, launches, promotion, monitor, checking,
                    recovery, phase, rank>>
    BY <1>9 DEF vars, actors, manager, trainer
  <2>2. Paused' /\ MonitorKnows' /\ SlotsConsistent'
    BY <1>1, <2>1, SlotsKept DEF Paused, MonitorKnows
  <2>. QED  BY <1>9, <1>s, <2>2, HandledRest
<1>. QED  BY <1>3, <1>4, <1>5, <1>6, <1>7, <1>8, <1>9 DEF Next

\* With offload_rollout, every step keeps what is known of the weight update.
LEMMA UpdateNext ==
  ASSUME JobInv, options.offload, UpdateInv, [Next]_vars
  PROVE  UpdateInv'
<1>3. ASSUME NEW p \in Pids, Crash(p) \/ Hang(p) \/ Answers(p) PROVE UpdateInv'
  BY <1>3, UpdateUntouched DEF Crash, Hang, Answers, manager, trainer
<1>4. ASSUME NEW e \in Engines, EngineStep(e) PROVE UpdateInv'
  BY <1>4, UpdateEngines
<1>5. CASE MonitorStep
  BY <1>5, UpdateMonitor
<1>6. ASSUME NEW w \in Threads, RecoveryStep(w) PROVE UpdateInv'
  BY <1>6, UpdateRecovery
<1>7. ASSUME NEW r \in Ranks, RankStep(r) PROVE UpdateInv'
  BY <1>7, UpdateRanks
<1>8. CASE \/ Connect \/ Clear \/ SendWeights \/ EvaluationEnds \/ RolloutEnds
           \/ OffloadEnds \/ TrainingEnds \/ OnloadEnds
  BY <1>8, UpdateDriver
<1>9. CASE UNCHANGED vars
  BY <1>9, UpdateUntouched DEF vars, actors, manager, trainer
<1>. QED  BY <1>3, <1>4, <1>5, <1>6, <1>7, <1>8, <1>9 DEF Next

\* In every job slots, processes and URLs are accounted for, and in one with offload_rollout
\* also events and counts.  In particular a promotion beside a shutdown is one that the watcher
\* began before it (sglang_engine.py, health_monitor.py, rollout.py).
THEOREM HandoverInvAlways == Spec => []HandoverInv
<1>1. Init => HandoverInv
  BY TypeInit, JobInit, HandledInit, UpdateInit DEF HandoverInv, OwnerInv, JobInv
<1>2. HandoverInv /\ [Next]_vars => HandoverInv'
  <2>. SUFFICES ASSUME HandoverInv, [Next]_vars PROVE HandoverInv'
    OBVIOUS
  <2>1. OwnerInv /\ JobInv /\ (options.offload => UpdateInv)
    BY DEF HandoverInv, OwnerInv
  <2>2. OwnerInv'
    BY <2>1, OwnerNext
  <2>3. UNCHANGED options
    BY OptionsKept
  <2>4. options.offload => UpdateInv'
    BY <2>1, UpdateNext
  <2>. QED  BY <2>2, <2>3, <2>4 DEF HandoverInv
<1>. QED  BY <1>1, <1>2, PTL DEF Spec

\* In every job the router always has a URL of an engine that is not being shut down
\* and never one of a process that was given up, but for the shadow of a promotion that the
\* watcher had begun when a shutdown came (_promote_shadow_worker_impl, shutdown).
THEOREM RoutedAlways == Spec => []RoutedToOwner
<1>1. HandoverInv => RoutedToOwner
  BY RoutedMeans DEF HandoverInv
<1>. QED  BY <1>1, HandoverInvAlways, PTL

\* In every job a server process that outlives the actor that owns it was promoted
\* while a shutdown overtook the watcher, and is registered; in whatever order watcher, monitor,
\* the two recoveries and faults come, no other does (_promote_shadow_worker_impl, shutdown).
THEOREM NoStrayAlways == Spec => []NoStrayServer
<1>1. HandoverInv => NoStrayServer
  BY OwnedMeans DEF HandoverInv
<1>. QED  BY <1>1, HandoverInvAlways, PTL

\* With offload_rollout, weights are sent to every engine that was not replaced meanwhile: no
\* handover and no restart is forgotten (clear_num_new_engines, recover_rollout_engines).
THEOREM UpdateAlwaysReaches == Spec => []UpdateReachesAll
<1>1. HandoverInv => UpdateReachesAll
  <2>1. CASE options.offload
    BY <2>1, SentReaches DEF HandoverInv, OwnerInv
  <2>2. CASE ~options.offload
    BY <2>2 DEF UpdateReachesAll
  <2>. QED  BY <2>1, <2>2
<1>. QED  BY <1>1, HandoverInvAlways, PTL

\* With offload_rollout, the next update will reconnect when a handover waits for it
\* (get_weight_update_reconnect_debug_state, clear_num_new_engines).
THEOREM ObligationAlwaysBacked == Spec => []ObligationBacked
<1>1. HandoverInv => ObligationBacked
  <2>1. CASE options.offload
    BY <2>1, SentReaches DEF HandoverInv, OwnerInv
  <2>2. CASE ~options.offload
    BY <2>2 DEF ObligationBacked
  <2>. QED  BY <2>1, <2>2
<1>. QED  BY <1>1, HandoverInvAlways, PTL
=============================================================================
