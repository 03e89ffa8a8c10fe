--------------------------- MODULE PromptScheduler ---------------------------
(***************************************************************************)
(* Admission of prompts by the workload-aware scheduler of one rollout     *)
(* process (online_env_docker_scheduler.py) and its use by a rollout       *)
(* (generate_with_swe_remote.py).                                          *)
(*                                                                         *)
(* Coroutines share one asyncio condition.  A coroutine that waits for     *)
(* admission wakes up by a notification or by its timeout, admits at most  *)
(* one prompt, be it its own or another's, and returns once its own is     *)
(* admitted.  Amounts of a resource are IEEE floats: scaled to integers    *)
(* and rounded as these are.                                               *)
(***************************************************************************)
EXTENDS Naturals, Sequences, FiniteSets, FiniteSetsExt

CONSTANTS
    Prompts,
    NoPrompt,
    Resources,         \* memory, cpu, disk read, disk write
    Predicted,         \* predicted demand: [Prompts -> [Resources -> Nat]]
    HasHistory,        \* [Prompts -> BOOLEAN]
    Budgets,           \* effective budgets the servers may report, a set of [Resources -> Nat]
    Digits,            \* up to which floats have every integer, 2^53 in the code
    RequestCap,        \* max_requests_per_resource_update, 0 for none
    ActiveCap,         \* max_active_prompts, 0 for none
    StartupCap,        \* startup_max_active_prompts, 0 for none
    UnknownCap,        \* max_unknown_repo_concurrency, 0 for none
    Orders,            \* the settings of preserve_prompt_order and
                       \* head_block_requeue_threshold (0 for never) the process may start with
    RequeueOffset,     \* head_block_requeue_offset, at least 1 by max(1, ...)
    CancelStates       \* the waits at which a task may be cancelled

Amounts == [Resources -> Nat]

ASSUME PromptsAssumption == IsFiniteSet(Prompts) /\ NoPrompt \notin Prompts
ASSUME DemandAssumption ==
    /\ Predicted \in [Prompts -> Amounts] /\ HasHistory \in [Prompts -> BOOLEAN]
    /\ \A p \in Prompts : \E d \in Resources : Predicted[p][d] > 0   \* max(1.0, ...)
ASSUME BudgetsAssumption == Budgets \subseteq Amounts
ASSUME CapsAssumption ==
    /\ {RequestCap, ActiveCap, StartupCap, UnknownCap} \subseteq Nat
    /\ {Digits, RequeueOffset} \subseteq Nat \ {0}
    /\ Orders \subseteq [preserve : BOOLEAN, threshold : Nat]
ASSUME CancelAssumption == CancelStates \subseteq {"waiting", "admitted"}

VARIABLES
    order,             \* the setting the process has started with
    state,             \* of the coroutine of each prompt
    pending,           \* _pending
    active,            \* _active_prompts
    active_predicted,  \* _active_predicted
    admitted_since,    \* _admitted_since_resource_refresh
    head_block,        \* head_block_count
    budget,            \* _effective_budget()
    window_due,        \* a refresh has succeeded and has yet to reset the window
    starting,          \* the startup period is not over
    poller             \* the coroutine in the middle of a head-of-line search

queueVars == <<pending, active, active_predicted, admitted_since, head_block>>
serverVars == <<order, budget, window_due, starting>>
vars == <<state, queueVars, serverVars, poller>>

States == {"new", "waiting", "admitted", "running", "finished", "cancelled", "abandoned"}

TypeOK ==
    /\ order \in Orders
    /\ state \in [Prompts -> States]
    /\ pending \in Seq(Prompts)
    /\ active \subseteq Prompts
    /\ active_predicted \in Amounts
    /\ admitted_since \in Nat
    /\ head_block \in [Prompts -> Nat]
    /\ budget \in Amounts
    /\ window_due \in BOOLEAN /\ starting \in BOOLEAN
    /\ poller \in Prompts \cup {NoPrompt}

\* the budget is 0 until the servers have reported
Init ==
    /\ order \in Orders
    /\ state = [p \in Prompts |-> "new"]
    /\ pending = <<>>
    /\ active = {}
    /\ active_predicted = [d \in Resources |-> 0]
    /\ admitted_since = 0
    /\ head_block = [p \in Prompts |-> 0]
    /\ budget = [d \in Resources |-> 0]
    /\ window_due = FALSE
    /\ starting = TRUE
    /\ poller = NoPrompt

-----------------------------------------------------------------------------
(***************************************************************************)
(* Float addition (round half to even) and ResourceVector.minus.           *)
(***************************************************************************)
\* the distance of the floats around n
Unit[n \in Nat] == IF n < Digits THEN 1 ELSE 2 * Unit[n \div 2]

Rounded(n) ==
    LET unit == Unit[n]
        down == n \div unit
        rest == 2 * (n % unit)
    IN  unit * (IF rest > unit \/ (rest = unit /\ down % 2 = 1) THEN down + 1 ELSE down)

Plus(a, b) == [d \in Resources |-> Rounded(a[d] + b[d])]
Minus(a, b) == [d \in Resources |-> IF a[d] > b[d] THEN Rounded(a[d] - b[d]) ELSE 0]

IsZero(a) == \A d \in Resources : a[d] = 0

Fits(p) == \A d \in Resources : Rounded(active_predicted[d] + Predicted[p][d]) <= budget[d]
IsOversized(p) == \E d \in Resources : Predicted[p][d] > budget[d]

Queued == {pending[i] : i \in 1..Len(pending)}
Oldest(S) == CHOOSE p \in S : \E i \in 1..Len(pending) :
                 pending[i] = p /\ \A j \in 1..(i - 1) : pending[j] \notin S

-----------------------------------------------------------------------------
(***************************************************************************)
(* _admit_next_unlocked.                                                   *)
(***************************************************************************)
BelowOrAt(n, cap) == cap = 0 \/ n <= cap          \* mutated form: off by one
Below(n, cap) == cap = 0 \/ n < cap

CapsAllow ==
    /\ Below(admitted_since, RequestCap)
    /\ Below(Cardinality(active), ActiveCap)
    /\ starting => Below(Cardinality(active), StartupCap)

Unknown(S) == {p \in S : ~HasHistory[p]}
UnknownCapAllows(p) == HasHistory[p] \/ Below(Cardinality(Unknown(active)), UnknownCap)

Forced(p) == ~Fits(p) /\ IsZero(active_predicted) /\ IsOversized(p)

\* ids are unique
Without(p) ==
    LET at == CHOOSE i \in 1..Len(pending) : pending[i] = p
    IN  SubSeq(pending, 1, at - 1) \o SubSeq(pending, at + 1, Len(pending))

MarkAdmitted(p) ==
    /\ pending' = Without(p)
    /\ active' = active \cup {p}
    /\ active_predicted' = Plus(active_predicted, Predicted[p])
    /\ admitted_since' = admitted_since + 1

\* the unordered search: the best of those that fit, whichever its score makes
\* it, or else the oldest oversized one when nothing is active
UnorderedChoice ==
    LET eligible == {p \in Queued : UnknownCapAllows(p)}
        candidates == {p \in eligible : Fits(p)}
        oversized == {p \in eligible : Forced(p)}
    IN  IF candidates # {} THEN candidates
        ELSE IF oversized # {} THEN {Oldest(oversized)} ELSE {}

\* mutated form: a coroutine notices only its own admission, not another's poll
PollEndsOwnOnly(p) ==
    /\ poller' = NoPrompt
    /\ state' = [state EXCEPT ![p] = IF p \in active' \ active THEN "admitted" ELSE @]

\* the coroutine leaves the condition, with a ticket if it was admitted
PollEnds(p) ==
    /\ poller' = NoPrompt
    /\ state' = [state EXCEPT ![p] = IF p \in active' THEN "admitted" ELSE @]

AdmitsNothing == UNCHANGED <<pending, active, active_predicted, admitted_since>>

PollUnordered(p) ==
    /\ \/ CapsAllow /\ \E q \in UnorderedChoice : MarkAdmitted(q)
       \/ ~(CapsAllow /\ UnorderedChoice # {}) /\ AdmitsNothing
    /\ PollEnds(p)
    /\ UNCHANGED head_block

-----------------------------------------------------------------------------
(***************************************************************************)
(* The head-of-line search, one round of its loop at a time.               *)
(***************************************************************************)
HeadMaySearch == CapsAllow /\ pending # <<>> /\ UnknownCapAllows(Head(pending))

HeadAdmitted(p) ==
    LET q == Head(pending) IN
    /\ HeadMaySearch
    /\ Fits(q) \/ Forced(q)
    /\ head_block' = [head_block EXCEPT ![q] = 0]
    /\ MarkAdmitted(q)
    /\ PollEnds(p)

Requeued ==
    LET rest == Tail(pending)
        at == IF RequeueOffset < Len(rest) THEN RequeueOffset ELSE Len(rest)
    IN  SubSeq(rest, 1, at) \o <<Head(pending)>> \o SubSeq(rest, at + 1, Len(rest))

\* mutated form: a threshold of 0 does not switch the requeueing off
BlockedTooOftenAlways(n) == n >= order.threshold /\ Len(pending) > 1
BlockedTooOften(n) == order.threshold > 0 /\ n >= order.threshold /\ Len(pending) > 1

HeadRequeued(p) ==
    LET q == Head(pending) IN
    /\ HeadMaySearch
    /\ ~(Fits(q) \/ Forced(q))
    /\ BlockedTooOften(head_block[q] + 1)
    /\ head_block' = [head_block EXCEPT ![q] = 0]
    /\ pending' = Requeued
    /\ poller' = p                      \* and the loop continues
    /\ UNCHANGED <<state, active, active_predicted, admitted_since>>

\* the count is capped here at the threshold, above which it makes no difference
HeadBlocked(p) ==
    LET q == Head(pending) IN
    /\ HeadMaySearch
    /\ ~(Fits(q) \/ Forced(q))
    /\ ~BlockedTooOften(head_block[q] + 1)
    /\ head_block' = [head_block EXCEPT ![q] = IF @ < order.threshold THEN @ + 1 ELSE @]
    /\ AdmitsNothing
    /\ PollEnds(p)

HeadMayNotSearch(p) ==
    /\ ~HeadMaySearch
    /\ AdmitsNothing
    /\ PollEnds(p)
    /\ UNCHANGED head_block

PollHeadOfLine(p) == HeadAdmitted(p) \/ HeadRequeued(p) \/ HeadBlocked(p) \/ HeadMayNotSearch(p)

-----------------------------------------------------------------------------
(***************************************************************************)
(* The coroutine of a prompt.                                              *)
(***************************************************************************)
Idle == poller = NoPrompt

Enqueue(p) ==
    /\ Idle
    /\ state[p] = "new"
    /\ state' = [state EXCEPT ![p] = "waiting"]
    /\ pending' = Append(pending, p)
    /\ UNCHANGED <<active, active_predicted, admitted_since, head_block, serverVars, poller>>

Poll(p) ==
    /\ poller \in {NoPrompt, p}
    /\ state[p] = "waiting"
    /\ IF order.preserve THEN PollHeadOfLine(p) ELSE PollUnordered(p)
    /\ UNCHANGED serverVars

\* the rollout got its semaphore and entered the try block that ends in finish_prompt
Start(p) ==
    /\ Idle
    /\ state[p] = "admitted"
    /\ state' = [state EXCEPT ![p] = "running"]
    /\ UNCHANGED <<queueVars, serverVars, poller>>

FinishKeepsReservation(p) ==   \* mutated form: _active_predicted is not given back
    /\ Idle
    /\ state[p] = "running"
    /\ state' = [state EXCEPT ![p] = "finished"]
    /\ active' = active \ {p}
    /\ admitted_since' = 0
    /\ UNCHANGED <<pending, active_predicted, head_block, serverVars, poller>>

FinishPrompt(p) ==
    /\ Idle
    /\ state[p] = "running"
    /\ state' = [state EXCEPT ![p] = "finished"]
    /\ active' = active \ {p}
    /\ active_predicted' = Minus(active_predicted, Predicted[p])
    /\ admitted_since' = 0
    /\ UNCHANGED <<pending, head_block, serverVars, poller>>

\* cancelled while it waits for admission, or for the semaphore after it: no
\* handler withdraws the request or gives the reservation back
Cancel(p) ==
    /\ Idle
    /\ state[p] \in CancelStates
    /\ state' = [state EXCEPT ![p] = IF @ = "waiting" THEN "cancelled" ELSE "abandoned"]
    /\ UNCHANGED <<queueVars, serverVars, poller>>

-----------------------------------------------------------------------------
(***************************************************************************)
(* The refresh task and the clock.                                         *)
(***************************************************************************)
Refresh ==
    /\ Idle
    /\ budget' \in Budgets
    /\ window_due' = TRUE
    /\ UNCHANGED <<order, state, queueVars, starting, poller>>

ResetWindowByCap ==            \* mutated form: lowered by the cap rather than reset
    /\ Idle
    /\ window_due
    /\ window_due' = FALSE
    /\ admitted_since' = admitted_since - RequestCap
    /\ UNCHANGED <<order, state, pending, active, active_predicted, head_block, budget, starting,
                   poller>>

ResetWindow ==
    /\ Idle
    /\ window_due
    /\ window_due' = FALSE
    /\ admitted_since' = 0
    /\ UNCHANGED <<order, state, pending, active, active_predicted, head_block, budget, starting,
                   poller>>

StartupEnds ==
    /\ Idle
    /\ starting
    /\ starting' = FALSE
    /\ UNCHANGED <<order, state, queueVars, budget, window_due, poller>>

-----------------------------------------------------------------------------
Next ==
    \/ \E p \in Prompts : Enqueue(p) \/ Poll(p) \/ Start(p) \/ FinishPrompt(p) \/ Cancel(p)
    \/ Refresh \/ ResetWindow \/ StartupEnds

Spec == Init /\ [][Next]_vars

(***************************************************************************)
(* A waiter wakes up at its timeout at the latest, a rollout is bounded by *)
(* its timeouts.  Fairness is strong because a head-of-line search keeps   *)
(* the lock over several steps and an asyncio lock serves its waiters in   *)
(* order.  Budgets need not change and clients need not call.              *)
(***************************************************************************)
Fairness == \A p \in Prompts : SF_vars(Poll(p) \/ Start(p) \/ FinishPrompt(p))

FairSpec == Spec /\ Fairness

-----------------------------------------------------------------------------
(***************************************************************************)
(* Properties                                                              *)
(***************************************************************************)
Demand(S) == [d \in Resources |-> MapThenSumSet(LAMBDA p : Predicted[p][d], S)]

\* What is reserved is what the active prompts were admitted with, neither
\* more nor less, as long as no rounding interferes (lines 722, 1384).
ReservationsExact == active_predicted = Demand(active)

\* However polls, finishes and refreshes interleave, an admission keeps the
\* caps on active and on unknown prompts, and it keeps the demand of all active
\* prompts within the budget of that moment, or is the forced one of a single
\* oversized prompt, which runs alone (README_EN.md 4.3).
AdmissionWithinLimits ==
    [][active' \subseteq active \/
          /\ ActiveCap > 0 => Cardinality(active') <= ActiveCap
          /\ UnknownCap > 0 => Cardinality(Unknown(active')) <= UnknownCap
          /\ \/ Cardinality(active') = 1
             \/ \A d \in Resources : Demand(active')[d] <= budget[d]]_vars

\* When order is preserved and requeueing is off, prompts are admitted in the
\* order they queued: no step admits a prompt past an earlier one, and none
\* changes the order of two that stay (preserve_prompt_order, lines 1236-1242).
Before(s, p, q) == \E i, j \in 1..Len(s) : s[i] = p /\ s[j] = q /\ i < j

AdmittedInOrder ==
    [][order.preserve /\ order.threshold = 0 => \A p, q \in Queued : Before(pending, p, q) =>
          /\ q \in active' => p \in active'
          /\ Before(pending', p, q) \/ {p, q} \cap active' # {}]_vars

\* As long as no task is cancelled, every prompt that waits for admission is
\* admitted ("Never deadlock the pipeline on a single heavy task", line 1276),
\* and returns what it reserved ("When the prompt completes or exits
\* exceptionally, a finally path ... releases semaphores and resource
\* reservations", README_EN.md 4.5).
EveryPromptServed ==
    [](\A p \in Prompts : state[p] \notin {"cancelled", "abandoned"})
        => \A p \in Prompts : state[p] = "waiting" ~> p \notin Queued \union active

=============================================================================
