----------------------------- MODULE RolloutRewind -----------------------------
(***************************************************************************)
(* One trajectory (_run_agent_remote of generate_with_swe_remote.py): the  *)
(* steps of the agent, the checkpoints asked for while the LLM answers,    *)
(* and the recovery from an injected fault, which rewinds the transcript   *)
(* while the node puts the container back to a checkpoint.                 *)
(*                                                                         *)
(* The calls to pool and node appear as what they do to the container of   *)
(* the lease; EnvCheckpoint has their handlers.  A command is a number,    *)
(* later ones have greater ones, 0 stands for an answer without a command. *)
(* The state of a container is the sequence of commands run in it, and a   *)
(* checkpoint is the state it captured.                                    *)
(***************************************************************************)
EXTENDS Naturals, Sequences, SequencesExt

CONSTANTS
    StepLimit,         \* step_limit
    Setups             \* the settings to choose from

ASSUME StepLimitAssumption == StepLimit \in Nat
ASSUME SetupsAssumption ==
    Setups \subseteq [policy : {"fixed", "adaptive"}, recoveryRaises : BOOLEAN,
                      attempts : Nat \ {0}, faults : Nat]

VARIABLES
    setup,      \* policy: "fixed" is always or every-3; recoveryRaises: a call
                \* that ends a recovery may raise; attempts: app_error_max_retries,
                \* at least 1 by max(1, ...); faults: bound on injected faults
    at,         \* what the trajectory awaits
    step,       \* step_idx
    story,      \* the lists that tell the trajectory
    ckpt,       \* the latest ready checkpoint the client knows, and its resume step
    tried,      \* last_fixed_policy_checkpoint_attempt_step_idx + 1
    asked,      \* a checkpoint was asked for in this wait for the LLM
    attempt,    \* attempts of the exec call
    world,      \* commands run in the container of the lease
    alive,      \* the container runs
    life,       \* containers the trajectory has had
    faults,     \* faults injected
    creates,    \* checkpoint calls at work in the pool or on the node
    latest      \* the latest ready checkpoint the pool knows

clientVars == <<setup, at, step, story, ckpt, tried, asked, attempt>>
nodeVars == <<world, alive, life, faults, creates, latest>>
vars == <<clientVars, nodeVars>>

NoStory == [messages |-> <<>>, step_debug |-> <<>>, managed_contexts |-> <<>>,
            assistant_texts |-> <<>>, prm |-> <<>>]
NoCheckpoint == [ready |-> FALSE, resume |-> 0, content |-> <<>>]

Init ==
    /\ setup \in Setups
    /\ at = (IF 0 < StepLimit THEN "llm" ELSE "over") /\ step = 0 /\ story = NoStory
    /\ ckpt = NoCheckpoint /\ tried = 0 /\ asked = FALSE /\ attempt = 1
    /\ world = <<>> /\ alive = TRUE /\ life = 1 /\ faults = 0
    /\ creates = {} /\ latest = <<>>

-----------------------------------------------------------------------------
(***************************************************************************)
(* The lists.  The two messages before the first step are left out.        *)
(***************************************************************************)
Message(role, c) == [role |-> role, command |-> c]

Said(s, c) ==
    [s EXCEPT !.managed_contexts = Append(@, s.messages),
              !.messages = Append(@, Message("assistant", c)),
              !.assistant_texts = Append(@, c)]

Observed(s, c) == [s EXCEPT !.messages = Append(@, Message("user", c))]

\* what a step that ran a command appends, the PRM's task with it
Recorded(s, c, ok) ==
    LET entry == [step_idx |-> step, command |-> c, ok |-> ok]
    IN  [s EXCEPT !.step_debug = Append(@, entry), !.prm = Append(@, entry)]

\* what the last step appends: a submission has no PRM task
Submitted(s, c, ok) == [Recorded(s, c, ok) EXCEPT !.prm = s.prm]

FirstOf(list, n) == SubSeq(list, 1, IF n < Len(list) THEN n ELSE Len(list))

\* the entries of steps before n
Before(list, n) ==
    LET kept[i \in 0..Len(list)] ==
            IF i = 0 THEN <<>>
            ELSE IF list[i].step_idx < n THEN Append(kept[i - 1], list[i]) ELSE kept[i - 1]
    IN  kept[Len(list)]

\* the trims to a resume step
Rewound(s, n) ==
    [messages |-> FirstOf(s.messages, 2 * n), step_debug |-> Before(s.step_debug, n),
     managed_contexts |-> FirstOf(s.managed_contexts, n),
     assistant_texts |-> FirstOf(s.assistant_texts, n), prm |-> Before(s.prm, n)]

\* the loop goes on at step n, or ends
GoOn(n) ==
    /\ step' = n
    /\ at' = IF n < StepLimit THEN "llm" ELSE "over"
    /\ asked' = FALSE /\ attempt' = 1

Ends == at' = "over" /\ UNCHANGED <<step, asked, attempt>>

-----------------------------------------------------------------------------
(***************************************************************************)
(* The LLM's answer.                                                       *)
(***************************************************************************)
\* greater than any command before, and than any before the last fault
NewCommand == faults * StepLimit + step + 1

Answers ==
    /\ at = "llm"
    /\ story' = Said(story, NewCommand)
    /\ at' = "exec"
    /\ UNCHANGED <<setup, step, ckpt, tried, asked, attempt, nodeVars>>

\* no bash command in the answer
AnswersIdly ==
    /\ at = "llm"
    /\ story' = Observed(Said(story, 0), 0)
    /\ GoOn(step + 1)
    /\ UNCHANGED <<setup, ckpt, tried, nodeVars>>

\* the call of the LLM, or the heartbeat before it, raises
AnswerFails ==
    /\ at = "llm"
    /\ at' = "over"
    /\ UNCHANGED <<setup, step, story, ckpt, tried, asked, attempt, nodeVars>>

-----------------------------------------------------------------------------
(***************************************************************************)
(* A checkpoint asked for while the LLM works.                             *)
(***************************************************************************)
Ask ==
    /\ at = "llm" /\ step > 0 /\ ~asked
    /\ setup.policy = "fixed" => tried < step
    /\ at' = "saving" /\ asked' = TRUE
    /\ tried' = IF setup.policy = "fixed" THEN step ELSE tried
    /\ creates' = creates \cup {[resume |-> step, life |-> life, content |-> <<>>,
                                 committed |-> FALSE, awaited |-> TRUE]}
    /\ UNCHANGED <<setup, step, story, ckpt, attempt,
                   world, alive, life, faults, latest>>

\* under the lease's lifecycle lock and the container's gate
Commit(c) ==
    /\ ~c.committed /\ alive /\ c.life = life
    /\ \A d \in creates : ~d.committed
    /\ creates' = (creates \ {c}) \cup {[c EXCEPT !.committed = TRUE, !.content = world]}
    /\ UNCHANGED <<clientVars, world, alive, life, faults, latest>>

Returns(c) == at' = IF c.awaited THEN "llm" ELSE at

CreateFailsSilently(c) ==         \* mutated form: the caller is not told
    /\ creates' = creates \ {c}
    /\ UNCHANGED <<clientVars, world, alive, life, faults, latest>>

\* busy, refused, failed, the container is gone, or the pool's deadline passes
CreateFails(c) ==
    /\ creates' = creates \ {c}
    /\ Returns(c)
    /\ UNCHANGED <<setup, step, story, ckpt, tried, asked, attempt,
                   world, alive, life, faults, latest>>

CreateReady(c) ==
    /\ c.committed
    /\ latest' = IF c.life = life THEN c.content ELSE latest
    /\ ckpt' = IF c.awaited THEN [ready |-> TRUE, resume |-> c.resume, content |-> c.content]
               ELSE ckpt
    /\ creates' = creates \ {c}
    /\ Returns(c)
    /\ UNCHANGED <<setup, step, story, tried, asked, attempt, world, alive, life, faults>>

\* the client's deadline passes, and the pool's call goes on
ClientGivesUp(c) ==
    /\ c.awaited
    /\ creates' = (creates \ {c}) \cup {[c EXCEPT !.awaited = FALSE]}
    /\ Returns(c)
    /\ UNCHANGED <<setup, step, story, ckpt, tried, asked, attempt,
                   world, alive, life, faults, latest>>

-----------------------------------------------------------------------------
(***************************************************************************)
(* The command.                                                            *)
(***************************************************************************)
Command == Last(story.assistant_texts)

\* in a container that is gone, docker's error is the output
Runs == world' = IF alive THEN Append(world, Command) ELSE world

Submits ==
    /\ at = "exec"
    /\ Runs
    /\ story' = Submitted(story, Command, TRUE)
    /\ Ends
    /\ UNCHANGED <<setup, ckpt, tried, alive, life, faults, creates, latest>>

ExecAnswered ==
    /\ at = "exec"
    /\ Runs
    /\ story' = Observed(Recorded(story, Command, TRUE), Command)
    /\ GoOn(step + 1)
    /\ UNCHANGED <<setup, ckpt, tried, alive, life, faults, creates, latest>>

\* what a call without an answer may have done: nothing, the command, or the fault
Unanswered ==
    \/ UNCHANGED <<world, alive, faults>>
    \/ Runs /\ UNCHANGED <<alive, faults>>
    \/ faults < setup.faults /\ alive' = FALSE /\ faults' = faults + 1 /\ UNCHANGED world

\* the answer is lost, or it is an error: _post_with_retry sends the command again
ExecRetried ==
    /\ at = "exec" /\ attempt < setup.attempts
    /\ Unanswered
    /\ attempt' = attempt + 1
    /\ UNCHANGED <<setup, at, step, story, ckpt, tried, asked,
                   life, creates, latest>>

\* the step goes on with returncode -1 and the lists s: a submission is the last
\* step even then
FailedStep(s) ==
    \/ story' = Observed(Recorded(s, Command, FALSE), Command) /\ GoOn(step + 1)
    \/ story' = Submitted(s, Command, FALSE) /\ Ends

\* the client raises, or the command times out
ExecRaises ==
    /\ at = "exec"
    /\ Unanswered
    /\ FailedStep(story)
    /\ UNCHANGED <<setup, ckpt, tried, life, creates, latest>>

\* fault_injected = true: the container is gone
FaultInjected ==
    /\ at = "exec" /\ faults < setup.faults
    /\ alive' = FALSE /\ faults' = faults + 1
    /\ at' = IF ckpt.ready THEN "rerun" ELSE "restart"
    /\ UNCHANGED <<setup, step, story, ckpt, tried, asked, attempt,
                   world, life, creates, latest>>

-----------------------------------------------------------------------------
(***************************************************************************)
(* Recovery.                                                               *)
(***************************************************************************)
Restored(content) == world' = content /\ alive' = TRUE /\ life' = life + 1

\* the lists are trimmed; then the heartbeat, and the cursor moves, or an
\* exception makes it a failed step
ResumeAt(n) ==
    \/ story' = Rewound(story, n) /\ GoOn(n)
    \/ setup.recoveryRaises /\ FailedStep(Rewound(story, n))

RerunLatest ==                    \* mutated form: what the pool knows is restored
    /\ at = "rerun"
    /\ Restored(latest)
    /\ tried' = ckpt.resume
    /\ ResumeAt(ckpt.resume)
    /\ UNCHANGED <<setup, ckpt, faults, creates, latest>>

\* rerun names the checkpoint the rollout has heard of
Rerun ==
    /\ at = "rerun"
    /\ Restored(ckpt.content)
    /\ tried' = ckpt.resume
    /\ ResumeAt(ckpt.resume)
    /\ UNCHANGED <<setup, ckpt, faults, creates, latest>>

\* the call fails or its answer is lost
RerunFails ==
    /\ at = "rerun"
    /\ \/ UNCHANGED <<world, alive, life>>
       \/ Restored(ckpt.content)
    /\ at' = "restart"
    /\ UNCHANGED <<setup, step, story, ckpt, tried, asked, attempt,
                   faults, creates, latest>>

\* another lease, from the base image
Restart ==
    /\ at = "restart"
    /\ world' = <<>> /\ alive' = TRUE /\ life' = life + 1 /\ latest' = <<>>
    /\ ckpt' = NoCheckpoint /\ tried' = 0
    /\ ResumeAt(0)
    /\ UNCHANGED <<setup, faults, creates>>

\* close or allocate raises, and the step goes on with the old lease
RestartRaises ==
    /\ at = "restart" /\ setup.recoveryRaises
    /\ alive' \in {alive, FALSE}
    /\ FailedStep(story)
    /\ UNCHANGED <<setup, ckpt, tried, world, life, faults, creates, latest>>

-----------------------------------------------------------------------------
Progress ==
    \/ Answers \/ AnswersIdly \/ AnswerFails
    \/ Submits \/ ExecAnswered \/ ExecRetried \/ ExecRaises \/ FaultInjected
    \/ Rerun \/ RerunFails \/ Restart \/ RestartRaises
    \/ \E c \in creates : CreateFails(c) \/ CreateReady(c)

Next == Progress \/ Ask \/ \E c \in creates : Commit(c) \/ ClientGivesUp(c)

Spec == Init /\ [][Next]_vars

\* Every call is answered, fails or times out (PendingResolved of EnvCheckpoint,
\* EveryRequestAnswered of DockerGates).
FairSpec == Spec /\ WF_vars(Progress)

-----------------------------------------------------------------------------
(***************************************************************************)
(* Properties.                                                             *)
(***************************************************************************)

\* "The rollout rewinds its messages, step-debug data, PRM tasks, and step
\* cursor to the checkpoint position, then continues" (README_EN.md 3.4 step 5):
\* whenever the LLM is asked, every list tells the steps before the cursor.
ListsRewound ==
    at \in {"llm", "saving"} =>
        /\ Len(story.messages) = 2 * step
        /\ Len(story.assistant_texts) = step /\ Len(story.managed_contexts) = step
        /\ \A i \in 1..step :
             /\ story.messages[2 * i - 1] = Message("assistant", story.assistant_texts[i])
             /\ story.messages[2 * i].role = "user"
             /\ story.managed_contexts[i] = SubSeq(story.messages, 1, 2 * i - 2)
        /\ story.prm = story.step_debug
        /\ \A i, j \in DOMAIN story.step_debug :
             i < j => story.step_debug[i].step_idx < story.step_debug[j].step_idx
        /\ \A i \in DOMAIN story.step_debug :
             /\ story.step_debug[i].step_idx < step /\ story.step_debug[i].command # 0
             /\ story.assistant_texts[story.step_debug[i].step_idx + 1] = story.step_debug[i].command
        /\ \A n \in 1..step : story.assistant_texts[n] # 0 =>
             \E i \in DOMAIN story.step_debug : story.step_debug[i].step_idx = n - 1

\* The container is in the state the transcript tells: the commands run in it
\* are commands of the transcript, in its order, and none it tells a result of
\* is missing, whichever checkpoint was restored and whatever was captured late
\* ("one trajectory step" of protection, README_EN.md 2).  A command whose
\* answer was lost may have run more than once, or not at all.
WorldMatches ==
    ~setup.recoveryRaises =>
        /\ ListsRewound
        /\ alive /\ at \notin {"rerun", "restart"} =>
             /\ \A i, j \in DOMAIN world : i < j => world[i] <= world[j]
             /\ \A i \in DOMAIN world : Contains(story.assistant_texts, world[i])
             /\ \A i \in DOMAIN story.step_debug :
                  story.step_debug[i].ok => Contains(world, story.step_debug[i].command)

\* A trajectory with finitely many faults ends, however often it is rewound.
RolloutEnds == <>(at = "over")
=============================================================================
