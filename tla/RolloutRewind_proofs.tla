------------------------ MODULE RolloutRewind_proofs ------------------------
(***************************************************************************)
(* Theorems about RolloutRewind: while no recovery ends in an exception,   *)
(* the container is in the state that the transcript tells.                *)
(*                                                                         *)
(* The checkpoint that a rollout knows was captured between the LLM's being*)
(* asked at its resume step and the answer: while the call is awaited no   *)
(* command runs, so the container has run what the transcript tells before *)
(* that step.  Lists only grow behind it, until a rewind to that very step *)
(* trims them.  A call that comes back late tells nobody.                  *)
(***************************************************************************)
EXTENDS RolloutRewind, SequenceTheorems, WellFoundedInduction, TLAPS
-----------------------------------------------------------------------------
(***************************************************************************)
(* The invariant.                                                          *)
(***************************************************************************)
\* The types of the lists, of what the rollout knows of a checkpoint and of a call for one.
Lines == [role : {"assistant", "user"}, command : Nat]
Entries == [step_idx : Nat, command : Nat, ok : BOOLEAN]
Stories == [messages : Seq(Lines), step_debug : Seq(Entries), managed_contexts : Seq(Seq(Lines)),
            assistant_texts : Seq(Nat), prm : Seq(Entries)]
Checkpoints == [ready : BOOLEAN, resume : Nat, content : Seq(Nat)]
Creates == [resume : Nat, life : Nat, content : Seq(Nat), committed : BOOLEAN, awaited : BOOLEAN]

\* The loop waits for the LLM, with a checkpoint asked for or not; and has its answer.
Deciding == {"llm", "saving"}
Answering == {"exec", "rerun", "restart"}

\* The types of the variables; the loop ends at StepLimit.
TypeInv ==
    /\ at \in Deciding \union Answering \union {"over"}
    /\ step \in Nat /\ (at # "over" => step < StepLimit)
    /\ story \in Stories
    /\ ckpt \in Checkpoints
    /\ tried \in Nat /\ asked \in BOOLEAN /\ attempt \in Nat
    /\ world \in Seq(Nat) /\ alive \in BOOLEAN /\ life \in Nat /\ faults \in Nat
    /\ creates \subseteq Creates /\ latest \in Seq(Nat)

\* The first k steps: two messages each, with the context that the answer was given in.
TextsTold(s, k) ==
    \A i \in 1..k :
       /\ s.messages[2 * i - 1] = Message("assistant", s.assistant_texts[i])
       /\ s.messages[2 * i].role = "user"
       /\ s.managed_contexts[i] = SubSeq(s.messages, 1, 2 * i - 2)

\* The entries are in the order of their steps.
Sequential(list) ==
    \A i, j \in DOMAIN list : i < j => list[i].step_idx < list[j].step_idx

\* An entry for each step before k that ran a command, and no other.
EntriesTold(s, k) ==
    /\ s.prm = s.step_debug
    /\ Sequential(s.step_debug)
    /\ \A i \in DOMAIN s.step_debug :
          /\ s.step_debug[i].step_idx < k /\ s.step_debug[i].command # 0
          /\ s.assistant_texts[s.step_debug[i].step_idx + 1] = s.step_debug[i].command
    /\ \A n \in 1..k : s.assistant_texts[n] # 0 =>
          \E i \in DOMAIN s.step_debug : s.step_debug[i].step_idx = n - 1

\* Between two steps; and after an answer, with a command.
Between(s, k) ==
    /\ TextsTold(s, k) /\ EntriesTold(s, k)
    /\ Len(s.messages) = 2 * k /\ Len(s.assistant_texts) = k /\ Len(s.managed_contexts) = k

Pending(s, k) ==
    /\ TextsTold(s, k)
    /\ Len(s.messages) = 2 * k + 1 /\ Len(s.assistant_texts) = k + 1
    /\ Len(s.managed_contexts) = k + 1
    /\ s.messages[2 * k + 1] = Message("assistant", s.assistant_texts[k + 1])
    /\ s.managed_contexts[k + 1] = SubSeq(s.messages, 1, 2 * k)

Answered(s, k) ==
    /\ Pending(s, k) /\ EntriesTold(s, k)
    /\ s.assistant_texts[k + 1] # 0

\* The lists, wherever the loop is.
ListsInv ==
    /\ at \in Deciding => Between(story, step)
    /\ at \in Answering => Answered(story, step)
    /\ at = "over" => \A i \in DOMAIN story.step_debug : story.step_debug[i].step_idx <= step

\* Commands grow.
High == faults * StepLimit

AtMost(s, n) == \A i \in DOMAIN s.assistant_texts : s.assistant_texts[i] <= n

\* No text is greater than the next command; a command in progress is the greatest.
Numbered ==
    /\ at \in Deciding => AtMost(story, High + step)
    /\ at = "exec" => AtMost(story, High + step + 1) /\ AtMost(story, Command)
    /\ at \in {"rerun", "restart"} => AtMost(story, High)

\* A container that ran w has run nothing but texts before step m, in order, and all that is
\* told to have run before step k.
Sorted(w) == \A i, j \in DOMAIN w : i < j => w[i] <= w[j]

Tells(s, w, k, m) ==
    /\ Sorted(w)
    /\ \A i \in DOMAIN w : \E p \in 1..m : s.assistant_texts[p] = w[i]
    /\ \A i \in DOMAIN s.step_debug : s.step_debug[i].ok /\ s.step_debug[i].step_idx < k =>
          \E j \in DOMAIN w : w[j] = s.step_debug[i].command

\* The container, up to the step that the loop is at.
WorldTold ==
    alive => /\ at \in Deciding => Tells(story, world, step, step)
             /\ at = "exec" => Tells(story, world, step, step + 1)
             /\ at = "over" => Tells(story, world, step + 1, Len(story.assistant_texts))

\* The checkpoint that the rollout would rerun from has the container of its resume step.
CkptTold ==
    /\ ckpt.ready /\ at # "over" =>
          ckpt.resume <= step /\ Tells(story, ckpt.content, ckpt.resume, ckpt.resume)
    /\ at = "rerun" => ckpt.ready

\* A call that is awaited has the step of the cursor, and what it captured is the container
\* of that step. Of the calls that nobody awaits nothing is said.
CreatesTold ==
    /\ \A c \in creates : c.awaited =>
          /\ at = "saving" /\ c.resume = step
          /\ c.committed => Tells(story, c.content, step, step)
    /\ \A c, d \in creates : c.awaited /\ d.awaited => c = d

\* Together; of a recovery that raises only the setting is known.
StoryInv == TypeInv /\ ListsInv /\ Numbered /\ WorldTold /\ CkptTold /\ CreatesTold
RewindInv == setup \in Setups /\ (~setup.recoveryRaises => StoryInv)
-----------------------------------------------------------------------------
(***************************************************************************)
(* Sequences, and what Before returns.                                     *)
(***************************************************************************)
\* A set of naturals that is not empty has a least element.
LEMMA LeastNatural ==
    ASSUME NEW S, S \subseteq Nat, S # {}
    PROVE  \E x \in S : \A y \in S : x <= y
  <1>. DEFINE R == OpToRel(<, Nat)
  <1>1. PICK x \in S : \A y \in S : ~ (<<y, x>> \in R)
    <2>1. IsWellFoundedOn(R, Nat)
      BY NatLessThanWellFounded
    <2>. HIDE DEF R
    <2>. QED  BY <2>1, WFMin, Zenon
  <1>2. ASSUME NEW y \in S PROVE ~(y < x)
    <2>1. <<y, x>> \in Nat \X Nat
      OBVIOUS
    <2>. QED  BY <1>1, <2>1 DEF OpToRel
  <1>. HIDE DEF R
  <1>3. \A y \in S : y \in Nat /\ x \in Nat
    OBVIOUS
  <1>. QED  BY <1>2, <1>3

\* The first m elements of a sequence.
LEMMA Prefix ==
    ASSUME NEW T, NEW list \in Seq(T), NEW m \in 0..Len(list)
    PROVE  /\ SubSeq(list, 1, m) \in Seq(T) /\ Len(SubSeq(list, 1, m)) = m
           /\ DOMAIN SubSeq(list, 1, m) = 1..m
           /\ \A i \in 1..m : SubSeq(list, 1, m)[i] = list[i]
  <1>1. Len(list) \in Nat /\ m \in Nat /\ DOMAIN list = 1..Len(list)
    OBVIOUS
  <1>2. \A i \in 1..m : list[i] \in T
    BY <1>1
  <1>. QED  BY <1>1, <1>2

\* The entries before step n come first.
LEMMA Split ==
    ASSUME NEW list \in Seq(Entries), Sequential(list), NEW n \in Nat
    PROVE  \E m \in 0..Len(list) :
              /\ \A i \in 1..m : list[i].step_idx < n
              /\ \A i \in (m + 1)..Len(list) : ~(list[i].step_idx < n)
  <1>. DEFINE L == Len(list)
              Late == {i \in 1..(L + 1) : i = L + 1 \/ ~(list[i].step_idx < n)}
  <1>1. L \in Nat /\ DOMAIN list = 1..L
    OBVIOUS
  <1>2. \A i \in 1..L : list[i].step_idx \in Nat
    <2>1. \A i \in 1..L : list[i] \in Entries
      BY <1>1
    <2>. QED  BY <2>1 DEF Entries
  <1>3. PICK x \in Late : \A y \in Late : x <= y
    <2>1. Late \subseteq Nat /\ L + 1 \in Late
      BY <1>1
    <2>. HIDE DEF Late
    <2>. QED  BY <2>1, LeastNatural
  <1>4. x \in 1..(L + 1) /\ (x = L + 1 \/ ~(list[x].step_idx < n))
    BY <1>3
  <1>5. ASSUME NEW i \in 1..(x - 1) PROVE list[i].step_idx < n
    <2>1. i \in 1..L /\ i < x /\ i \in 1..(L + 1) /\ ~(x <= i) /\ i # L + 1
      BY <1>1, <1>4
    <2>. QED  BY <1>3, <2>1
  <1>6. ASSUME NEW i \in ((x - 1) + 1)..L PROVE ~(list[i].step_idx < n)
    <2>1. i \in 1..L /\ x \in 1..L /\ (i = x \/ x < i)
      BY <1>1, <1>4
    <2>2. CASE i = x
      BY <1>4, <2>1, <2>2
    <2>3. CASE x < i
      <3>1. list[x].step_idx < list[i].step_idx
        BY <1>1, <2>1, <2>3 DEF Sequential
      <3>. QED  BY <1>1, <1>2, <1>4, <2>1, <3>1
    <2>. QED  BY <2>1, <2>2, <2>3
  <1>7. x - 1 \in 0..L
    BY <1>1, <1>4
  <1>. HIDE DEF Late
  <1>8. WITNESS x - 1 \in 0..L
  <1>. QED  BY <1>5, <1>6

\* What Before returns of a list in the order of its steps: the entries before step n, and no other.
LEMMA BeforePrefix ==
    ASSUME NEW list \in Seq(Entries), Sequential(list), NEW n \in Nat,
           NEW m \in 0..Len(list),
           \A i \in 1..m : list[i].step_idx < n,
           \A i \in (m + 1)..Len(list) : ~(list[i].step_idx < n)
    PROVE  Before(list, n) = SubSeq(list, 1, m)
  <1>. DEFINE L == Len(list)
              Kept(f) == f = [i \in 0..L |->
                                IF i = 0 THEN <<>>
                                ELSE IF list[i].step_idx < n THEN Append(f[i - 1], list[i])
                                ELSE f[i - 1]]
              w == [i \in 0..L |-> IF i < m THEN SubSeq(list, 1, i) ELSE SubSeq(list, 1, m)]
  <1>1. L \in Nat /\ m \in Nat /\ m <= L /\ DOMAIN list = 1..L
    OBVIOUS
  <1>2. ASSUME NEW i \in 0..L, NEW f, i # 0 => f[i - 1] = w[i - 1]
        PROVE  w[i] = (IF i = 0 THEN <<>>
                       ELSE IF list[i].step_idx < n THEN Append(f[i - 1], list[i]) ELSE f[i - 1])
    <2>1. i \in Nat
      BY <1>1
    <2>2. CASE i = 0
      <3>1. SubSeq(list, 1, 0) = <<>>
        OBVIOUS
      <3>. QED  BY <1>1, <2>2, <3>1
    <2>3. CASE i # 0 /\ i <= m
      <3>1. i \in 1..m /\ i - 1 \in 0..L /\ i - 1 < m
        BY <1>1, <2>3
      <3>2. w[i - 1] = SubSeq(list, 1, i - 1)
        BY <3>1
      <3>3. w[i] = SubSeq(list, 1, i)
        BY <2>3, <1>1
      <3>4. SubSeq(list, 1, i) = Append(SubSeq(list, 1, i - 1), list[i])
        BY <1>1, <3>1
      <3>. HIDE DEF w
      <3>. QED  BY <1>2, <2>3, <3>1, <3>2, <3>3, <3>4
    <2>4. CASE m < i
      <3>1. i \in (m + 1)..L /\ i # 0 /\ i - 1 \in 0..L /\ ~(i < m) /\ ~(i - 1 < m)
        BY <1>1, <2>1, <2>4
      <3>2. w[i - 1] = w[i]
        BY <3>1
      <3>. HIDE DEF w
      <3>. QED  BY <1>2, <3>1, <3>2
    <2>. QED  BY <1>1, <2>1, <2>2, <2>3, <2>4
  <1>3. Kept(w)
    <2>1. \A i \in 0..L : w[i] = (IF i = 0 THEN <<>>
                       ELSE IF list[i].step_idx < n THEN Append(w[i - 1], list[i]) ELSE w[i - 1])
      <3>. HIDE DEF w
      <3>. QED  BY <1>2
    <2>2. w = [i \in 0..L |-> w[i]]
      OBVIOUS
    <2>. HIDE DEF w
    <2>. QED  BY <2>1, <2>2
  <1>4. ASSUME NEW f, Kept(f) PROVE f[L] = w[L]
    <2>. DEFINE Bad == {i \in 0..L : f[i] # w[i]}
    <2>1. Bad = {}
      <3>1. SUFFICES ASSUME Bad # {} PROVE FALSE
        OBVIOUS
      <3>2. PICK x \in Bad : \A y \in Bad : x <= y
        <4>1. Bad \subseteq Nat
          BY <1>1
        <4>. HIDE DEF Bad
        <4>. QED  BY <3>1, <4>1, LeastNatural
      <3>3. x \in 0..L /\ f[x] # w[x]
        BY <3>2
      <3>4. x # 0 => f[x - 1] = w[x - 1]
        <4>1. SUFFICES ASSUME x # 0, f[x - 1] # w[x - 1] PROVE FALSE
          OBVIOUS
        <4>2. x - 1 \in 0..L /\ ~(x <= x - 1)
          BY <1>1, <3>3, <4>1
        <4>. HIDE DEF w
        <4>. QED  BY <3>2, <4>1, <4>2
      <3>. HIDE DEF w, Bad
      <3>5. f[x] = (IF x = 0 THEN <<>>
                    ELSE IF list[x].step_idx < n THEN Append(f[x - 1], list[x]) ELSE f[x - 1])
        BY <1>4, <3>3
      <3>. QED  BY <1>2, <3>3, <3>4, <3>5
    <2>2. L \in 0..L
      BY <1>1
    <2>. HIDE DEF w
    <2>. QED  BY <2>1, <2>2
  <1>5. w[L] = SubSeq(list, 1, m)
    BY <1>1
  <1>6. Before(list, n) = (CHOOSE f : Kept(f))[L]
    BY DEF Before
  <1>7. Kept(CHOOSE f : Kept(f))
    <2>. HIDE DEF w, Kept
    <2>. QED  BY <1>3
  <1>. HIDE DEF w, Kept, L
  <1>. QED  BY <1>4, <1>5, <1>6, <1>7
-----------------------------------------------------------------------------
(***************************************************************************)
(* The operations on the lists.                                            *)
(***************************************************************************)
\* Two sequences that agree on their first m elements.
LEMMA SamePrefix ==
    ASSUME NEW T, NEW p \in Seq(T), NEW q \in Seq(T), NEW m \in 0..Len(p), m \in 0..Len(q),
           \A i \in 1..m : p[i] = q[i]
    PROVE  SubSeq(p, 1, m) = SubSeq(q, 1, m)
  <1>1. /\ SubSeq(p, 1, m) \in Seq(T) /\ Len(SubSeq(p, 1, m)) = m
        /\ \A i \in 1..m : SubSeq(p, 1, m)[i] = p[i]
    BY Prefix
  <1>2. /\ SubSeq(q, 1, m) \in Seq(T) /\ Len(SubSeq(q, 1, m)) = m
        /\ \A i \in 1..m : SubSeq(q, 1, m)[i] = q[i]
    BY Prefix
  <1>. QED  BY <1>1, <1>2, SeqEqual

\* A sequence with one element more.
LEMMA Longer ==
    ASSUME NEW T, NEW q \in Seq(T), NEW e \in T
    PROVE  /\ Append(q, e) \in Seq(T) /\ Len(Append(q, e)) = Len(q) + 1 /\ Len(q) \in Nat
           /\ DOMAIN q = 1..Len(q) /\ DOMAIN Append(q, e) = 1..(Len(q) + 1)
           /\ \A i \in 1..Len(q) : Append(q, e)[i] = q[i]
           /\ Append(q, e)[Len(q) + 1] = e
  OBVIOUS

\* The lists of a story.
LEMMA StoryFields ==
    ASSUME NEW s \in Stories
    PROVE  /\ s.messages \in Seq(Lines) /\ Len(s.messages) \in Nat
           /\ s.step_debug \in Seq(Entries) /\ Len(s.step_debug) \in Nat
           /\ DOMAIN s.step_debug = 1..Len(s.step_debug)
           /\ s.managed_contexts \in Seq(Seq(Lines)) /\ Len(s.managed_contexts) \in Nat
           /\ s.assistant_texts \in Seq(Nat) /\ Len(s.assistant_texts) \in Nat
           /\ DOMAIN s.assistant_texts = 1..Len(s.assistant_texts)
           /\ \A i \in 1..Len(s.assistant_texts) : s.assistant_texts[i] \in Nat
           /\ s.prm \in Seq(Entries)
           /\ \A i \in 1..Len(s.step_debug) :
                 /\ s.step_debug[i].step_idx \in Nat /\ s.step_debug[i].command \in Nat
                 /\ s.step_debug[i].ok \in BOOLEAN
  <1>1. /\ s.messages \in Seq(Lines) /\ s.step_debug \in Seq(Entries)
        /\ s.managed_contexts \in Seq(Seq(Lines)) /\ s.assistant_texts \in Seq(Nat)
        /\ s.prm \in Seq(Entries)
    BY DEF Stories
  <1>2. ASSUME NEW i \in 1..Len(s.step_debug)
        PROVE  /\ s.step_debug[i].step_idx \in Nat /\ s.step_debug[i].command \in Nat
               /\ s.step_debug[i].ok \in BOOLEAN
    <2>1. s.step_debug[i] \in Entries
      BY <1>1
    <2>. QED  BY <2>1 DEF Entries
  <1>. QED  BY <1>1, <1>2

\* What an answer of the LLM, an observation and an entry do to the lists.
LEMMA SaidFields ==
    ASSUME NEW s \in Stories, NEW c \in Nat
    PROVE  /\ Said(s, c) \in Stories
           /\ Said(s, c).messages = Append(s.messages, Message("assistant", c))
           /\ Said(s, c).step_debug = s.step_debug
           /\ Said(s, c).managed_contexts = Append(s.managed_contexts, s.messages)
           /\ Said(s, c).assistant_texts = Append(s.assistant_texts, c)
           /\ Said(s, c).prm = s.prm
           /\ Message("assistant", c) \in Lines
  <1>1. Message("assistant", c) \in Lines
    BY DEF Message, Lines
  <1>2. /\ s.messages \in Seq(Lines) /\ s.step_debug \in Seq(Entries)
        /\ s.managed_contexts \in Seq(Seq(Lines)) /\ s.assistant_texts \in Seq(Nat)
        /\ s.prm \in Seq(Entries)
    BY StoryFields
  <1>3. /\ Append(s.messages, Message("assistant", c)) \in Seq(Lines)
        /\ Append(s.managed_contexts, s.messages) \in Seq(Seq(Lines))
        /\ Append(s.assistant_texts, c) \in Seq(Nat)
    BY <1>1, <1>2, Longer
  <1>. DEFINE M == Append(s.messages, Message("assistant", c))
              X == Append(s.managed_contexts, s.messages)
              A == Append(s.assistant_texts, c)
  <1>4. Said(s, c) = [s EXCEPT !.managed_contexts = X, !.messages = M, !.assistant_texts = A]
    BY DEF Said
  <1>. HIDE DEF M, X, A
  <1>. QED  BY <1>1, <1>2, <1>3, <1>4 DEF Stories, M, X, A

\* What an observation does to the lists.
LEMMA ObservedFields ==
    ASSUME NEW s \in Stories, NEW c \in Nat
    PROVE  /\ Observed(s, c) \in Stories
           /\ Observed(s, c).messages = Append(s.messages, Message("user", c))
           /\ Observed(s, c).step_debug = s.step_debug
           /\ Observed(s, c).managed_contexts = s.managed_contexts
           /\ Observed(s, c).assistant_texts = s.assistant_texts
           /\ Observed(s, c).prm = s.prm
           /\ Message("user", c) \in Lines
  <1>1. Message("user", c) \in Lines
    BY DEF Message, Lines
  <1>2. s.messages \in Seq(Lines)
    BY StoryFields
  <1>3. Append(s.messages, Message("user", c)) \in Seq(Lines)
    BY <1>1, <1>2, Longer
  <1>. DEFINE M == Append(s.messages, Message("user", c))
  <1>4. Observed(s, c) = [s EXCEPT !.messages = M]
    BY DEF Observed
  <1>. HIDE DEF M
  <1>. QED  BY <1>1, <1>3, <1>4 DEF Stories, M

\* The entry that Recorded appends.
Entry(c, ok) == [step_idx |-> step, command |-> c, ok |-> ok]

\* What a step that ran a command adds to step_debug and the PRM tasks.
LEMMA RecordedFields ==
    ASSUME NEW s \in Stories, NEW c \in Nat, NEW ok \in BOOLEAN, step \in Nat
    PROVE  /\ Recorded(s, c, ok) \in Stories
           /\ Recorded(s, c, ok).messages = s.messages
           /\ Recorded(s, c, ok).step_debug = Append(s.step_debug, Entry(c, ok))
           /\ Recorded(s, c, ok).managed_contexts = s.managed_contexts
           /\ Recorded(s, c, ok).assistant_texts = s.assistant_texts
           /\ Recorded(s, c, ok).prm = Append(s.prm, Entry(c, ok))
           /\ Entry(c, ok) \in Entries /\ Entry(c, ok).step_idx = step
           /\ Entry(c, ok).command = c /\ Entry(c, ok).ok = ok
  <1>1. /\ Entry(c, ok) \in Entries /\ Entry(c, ok).step_idx = step
        /\ Entry(c, ok).command = c /\ Entry(c, ok).ok = ok
    BY DEF Entry, Entries
  <1>2. s.step_debug \in Seq(Entries) /\ s.prm \in Seq(Entries)
    BY StoryFields
  <1>. DEFINE D == Append(s.step_debug, Entry(c, ok))
              P == Append(s.prm, Entry(c, ok))
  <1>3. D \in Seq(Entries) /\ P \in Seq(Entries)
    BY <1>1, <1>2, Longer
  <1>4. Recorded(s, c, ok) = [s EXCEPT !.step_debug = D, !.prm = P]
    BY DEF Recorded, Entry
  <1>. HIDE DEF D, P
  <1>. QED  BY <1>1, <1>3, <1>4 DEF Stories, D, P

\* A trim to a length that the list has.
LEMMA FirstOfPrefix ==
    ASSUME NEW T, NEW list \in Seq(T), NEW n \in 0..Len(list)
    PROVE  FirstOf(list, n) = SubSeq(list, 1, n)
  BY DEF FirstOf

\* What a rewind to a step the story tells leaves of each list.
LEMMA RewoundFields ==
    ASSUME NEW s \in Stories, NEW n \in Nat, 2 * n <= Len(s.messages),
           n <= Len(s.managed_contexts), n <= Len(s.assistant_texts),
           s.prm = s.step_debug, NEW m \in 0..Len(s.step_debug),
           Before(s.step_debug, n) = SubSeq(s.step_debug, 1, m)
    PROVE  /\ Rewound(s, n) \in Stories
           /\ Rewound(s, n).messages = SubSeq(s.messages, 1, 2 * n)
           /\ Rewound(s, n).step_debug = SubSeq(s.step_debug, 1, m)
           /\ Rewound(s, n).managed_contexts = SubSeq(s.managed_contexts, 1, n)
           /\ Rewound(s, n).assistant_texts = SubSeq(s.assistant_texts, 1, n)
           /\ Rewound(s, n).prm = SubSeq(s.step_debug, 1, m)
  <1>. DEFINE M == SubSeq(s.messages, 1, 2 * n)
              X == SubSeq(s.managed_contexts, 1, n)
              A == SubSeq(s.assistant_texts, 1, n)
              D == SubSeq(s.step_debug, 1, m)
  <1>1. 2 * n \in 0..Len(s.messages) /\ n \in 0..Len(s.managed_contexts)
        /\ n \in 0..Len(s.assistant_texts)
    BY StoryFields
  <1>2. /\ FirstOf(s.messages, 2 * n) = M /\ FirstOf(s.managed_contexts, n) = X
        /\ FirstOf(s.assistant_texts, n) = A
    BY <1>1, FirstOfPrefix, StoryFields
  <1>3. M \in Seq(Lines) /\ X \in Seq(Seq(Lines)) /\ A \in Seq(Nat) /\ D \in Seq(Entries)
    BY <1>1, Prefix, StoryFields
  <1>4. Rewound(s, n) = [messages |-> M, step_debug |-> D, managed_contexts |-> X,
                         assistant_texts |-> A, prm |-> D]
    BY <1>2 DEF Rewound
  <1>. HIDE DEF M, X, A, D
  <1>. QED  BY <1>3, <1>4 DEF Stories, M, X, A, D
-----------------------------------------------------------------------------
(***************************************************************************)
(* One step, told.                                                         *)
(***************************************************************************)
\* Two lists with the same first m elements.
Agree(p, q, m) == \A i \in 1..m : p[i] = q[i]

\* What is told of the first n steps depends only on what the lists have of them.
LEMMA TextsAgree ==
    ASSUME NEW s \in Stories, NEW t \in Stories, NEW n \in Nat, NEW k \in Nat, n <= k,
           TextsTold(s, k),
           2 * n <= Len(s.messages), 2 * n <= Len(t.messages),
           Agree(t.messages, s.messages, 2 * n),
           Agree(t.managed_contexts, s.managed_contexts, n),
           Agree(t.assistant_texts, s.assistant_texts, n)
    PROVE  TextsTold(t, n)
  <1>1. SUFFICES ASSUME NEW i \in 1..n
                 PROVE  /\ t.messages[2 * i - 1] = Message("assistant", t.assistant_texts[i])
                        /\ t.messages[2 * i].role = "user"
                        /\ t.managed_contexts[i] = SubSeq(t.messages, 1, 2 * i - 2)
    BY DEF TextsTold
  <1>2. i \in 1..k /\ 2 * i - 1 \in 1..(2 * n) /\ 2 * i \in 1..(2 * n)
    OBVIOUS
  <1>3. /\ s.messages[2 * i - 1] = Message("assistant", s.assistant_texts[i])
        /\ s.messages[2 * i].role = "user"
        /\ s.managed_contexts[i] = SubSeq(s.messages, 1, 2 * i - 2)
    BY <1>2 DEF TextsTold
  <1>4. /\ t.messages[2 * i - 1] = s.messages[2 * i - 1] /\ t.messages[2 * i] = s.messages[2 * i]
        /\ t.managed_contexts[i] = s.managed_contexts[i]
        /\ t.assistant_texts[i] = s.assistant_texts[i]
    BY <1>2 DEF Agree
  <1>5. SubSeq(t.messages, 1, 2 * i - 2) = SubSeq(s.messages, 1, 2 * i - 2)
    <2>1. s.messages \in Seq(Lines) /\ t.messages \in Seq(Lines)
          /\ Len(s.messages) \in Nat /\ Len(t.messages) \in Nat
      BY StoryFields
    <2>2. 2 * i - 2 \in 0..Len(s.messages) /\ 2 * i - 2 \in 0..Len(t.messages)
      BY <1>2, <2>1
    <2>3. \A j \in 1..(2 * i - 2) : t.messages[j] = s.messages[j]
      <3>1. \A j \in 1..(2 * i - 2) : j \in 1..(2 * n)
        BY <1>2
      <3>. QED  BY <3>1 DEF Agree
    <2>. QED  BY <2>1, <2>2, <2>3, SamePrefix
  <1>. QED  BY <1>3, <1>4, <1>5

\* An answer given between two steps.
LEMMA SaidTold ==
    ASSUME NEW s \in Stories, NEW k \in Nat, Between(s, k), NEW c \in Nat
    PROVE  /\ Pending(Said(s, c), k) /\ EntriesTold(Said(s, c), k)
           /\ Said(s, c).assistant_texts[k + 1] = c
  <1>. DEFINE t == Said(s, c)
  <1>1. /\ t \in Stories
        /\ t.messages = Append(s.messages, Message("assistant", c))
        /\ t.step_debug = s.step_debug
        /\ t.managed_contexts = Append(s.managed_contexts, s.messages)
        /\ t.assistant_texts = Append(s.assistant_texts, c) /\ t.prm = s.prm
        /\ Message("assistant", c) \in Lines
    BY SaidFields
  <1>2. /\ Len(s.messages) = 2 * k /\ Len(s.assistant_texts) = k /\ Len(s.managed_contexts) = k
        /\ TextsTold(s, k) /\ EntriesTold(s, k)
    BY DEF Between
  <1>. HIDE DEF t
  <1>3. /\ Len(t.messages) = 2 * k + 1 /\ t.messages[2 * k + 1] = Message("assistant", c)
        /\ Agree(t.messages, s.messages, 2 * k)
    <2>1. s.messages \in Seq(Lines)
      BY StoryFields
    <2>2. /\ Len(t.messages) = Len(s.messages) + 1
          /\ t.messages[Len(s.messages) + 1] = Message("assistant", c)
          /\ \A i \in 1..Len(s.messages) : t.messages[i] = s.messages[i]
      BY <1>1, <2>1, Longer
    <2>. QED  BY <1>2, <2>2 DEF Agree
  <1>4. /\ Len(t.managed_contexts) = k + 1 /\ t.managed_contexts[k + 1] = s.messages
        /\ Agree(t.managed_contexts, s.managed_contexts, k)
    <2>1. s.managed_contexts \in Seq(Seq(Lines)) /\ s.messages \in Seq(Lines)
      BY StoryFields
    <2>. QED  BY <1>1, <1>2, <2>1, Longer, SMTT(30) DEF Agree
  <1>5. /\ Len(t.assistant_texts) = k + 1 /\ t.assistant_texts[k + 1] = c
        /\ Agree(t.assistant_texts, s.assistant_texts, k)
    <2>1. s.assistant_texts \in Seq(Nat)
      BY StoryFields
    <2>. QED  BY <1>1, <1>2, <2>1, Longer DEF Agree
  <1>6. s.messages = SubSeq(t.messages, 1, 2 * k)
    <2>1. s.messages \in Seq(Lines) /\ t.messages \in Seq(Lines)
      BY <1>1, StoryFields
    <2>2. SubSeq(s.messages, 1, 2 * k) = SubSeq(t.messages, 1, 2 * k)
      <3>1. 2 * k \in 0..Len(s.messages) /\ 2 * k \in 0..Len(t.messages)
        BY <1>2, <1>3
      <3>2. \A i \in 1..(2 * k) : s.messages[i] = t.messages[i]
        BY <1>3 DEF Agree
      <3>. QED  BY <2>1, <3>1, <3>2, SamePrefix
    <2>3. SubSeq(s.messages, 1, 2 * k) = s.messages
      <3>1. 2 * k \in 0..Len(s.messages)
        BY <1>2
      <3>2. /\ SubSeq(s.messages, 1, 2 * k) \in Seq(Lines)
            /\ Len(SubSeq(s.messages, 1, 2 * k)) = 2 * k
            /\ \A i \in 1..(2 * k) : SubSeq(s.messages, 1, 2 * k)[i] = s.messages[i]
        BY <2>1, <3>1, Prefix
      <3>. QED  BY <1>2, <2>1, <3>2, SeqEqual
    <2>. QED  BY <2>2, <2>3
  <1>7. TextsTold(t, k)
    <2>1. 2 * k \in Nat /\ 2 * k <= Len(s.messages) /\ 2 * k <= Len(t.messages) /\ k <= k
      BY <1>2, <1>3
    <2>. QED  BY <1>1, <1>2, <1>3, <1>4, <1>5, <2>1, TextsAgree
  <1>8. EntriesTold(t, k)
    <2>1. \A i \in DOMAIN s.step_debug : s.step_debug[i].step_idx \in Nat
      BY StoryFields
    <2>2. \A i \in DOMAIN s.step_debug : s.step_debug[i].step_idx + 1 \in 1..k
      BY <1>2, <2>1 DEF EntriesTold
    <2>. QED  BY <1>1, <1>2, <1>5, <2>2 DEF EntriesTold, Agree
  <1>. QED  BY <1>3, <1>4, <1>5, <1>6, <1>7, <1>8 DEF Pending, t

\* The observation ends the step.
LEMMA ObservedTexts ==
    ASSUME NEW s \in Stories, NEW k \in Nat, Pending(s, k), NEW c \in Nat
    PROVE  LET t == Observed(s, c) IN
           /\ TextsTold(t, k + 1)
           /\ Len(t.messages) = 2 * (k + 1) /\ Len(t.assistant_texts) = k + 1
           /\ Len(t.managed_contexts) = k + 1
  <1>. DEFINE t == Observed(s, c)
  <1>1. /\ t \in Stories
        /\ t.messages = Append(s.messages, Message("user", c))
        /\ t.managed_contexts = s.managed_contexts /\ t.assistant_texts = s.assistant_texts
        /\ Message("user", c) \in Lines /\ Message("user", c).role = "user"
    BY ObservedFields DEF Message
  <1>2. /\ TextsTold(s, k)
        /\ Len(s.messages) = 2 * k + 1 /\ Len(s.assistant_texts) = k + 1
        /\ Len(s.managed_contexts) = k + 1
        /\ s.messages[2 * k + 1] = Message("assistant", s.assistant_texts[k + 1])
        /\ s.managed_contexts[k + 1] = SubSeq(s.messages, 1, 2 * k)
    BY DEF Pending
  <1>. HIDE DEF t
  <1>3. /\ Len(t.messages) = 2 * k + 2 /\ t.messages[2 * k + 2] = Message("user", c)
        /\ \A i \in 1..(2 * k + 1) : t.messages[i] = s.messages[i]
    <2>1. s.messages \in Seq(Lines)
      BY StoryFields
    <2>2. /\ Len(t.messages) = Len(s.messages) + 1
          /\ t.messages[Len(s.messages) + 1] = Message("user", c)
          /\ \A i \in 1..Len(s.messages) : t.messages[i] = s.messages[i]
      BY <1>1, <2>1, Longer
    <2>3. Len(s.messages) + 1 = 2 * k + 2
      BY <1>2
    <2>. QED  BY <1>2, <2>2, <2>3
  <1>4. TextsTold(t, k)
    <2>1. 2 * k \in Nat /\ 2 * k <= Len(s.messages) /\ 2 * k <= Len(t.messages) /\ k <= k
      BY <1>2, <1>3
    <2>2. Agree(t.messages, s.messages, 2 * k)
      <3>1. \A i \in 1..(2 * k) : i \in 1..(2 * k + 1)
        OBVIOUS
      <3>. QED  BY <1>3, <3>1 DEF Agree
    <2>3. Agree(t.managed_contexts, s.managed_contexts, k)
          /\ Agree(t.assistant_texts, s.assistant_texts, k)
      BY <1>1 DEF Agree
    <2>. QED  BY <1>1, <1>2, <2>1, <2>2, <2>3, TextsAgree
  <1>5. /\ t.messages[2 * (k + 1) - 1] = Message("assistant", t.assistant_texts[k + 1])
        /\ t.messages[2 * (k + 1)].role = "user"
        /\ t.managed_contexts[k + 1] = SubSeq(t.messages, 1, 2 * (k + 1) - 2)
    <2>1. /\ 2 * (k + 1) - 1 = 2 * k + 1 /\ 2 * (k + 1) = 2 * k + 2 /\ 2 * (k + 1) - 2 = 2 * k
          /\ 2 * k + 1 \in 1..(2 * k + 1)
      OBVIOUS
    <2>2. t.messages[2 * k + 1] = Message("assistant", t.assistant_texts[k + 1])
      BY <1>1, <1>2, <1>3, <2>1
    <2>3. SubSeq(t.messages, 1, 2 * k) = SubSeq(s.messages, 1, 2 * k)
      <3>1. s.messages \in Seq(Lines) /\ t.messages \in Seq(Lines)
        BY <1>1, StoryFields
      <3>2. 2 * k \in 0..Len(s.messages) /\ 2 * k \in 0..Len(t.messages)
        BY <1>2, <1>3
      <3>3. \A i \in 1..(2 * k) : t.messages[i] = s.messages[i]
        <4>1. \A i \in 1..(2 * k) : i \in 1..(2 * k + 1)
          OBVIOUS
        <4>. QED  BY <1>3, <4>1
      <3>. QED  BY <3>1, <3>2, <3>3, SamePrefix
    <2>4. t.messages[2 * (k + 1)].role = "user"
      BY <1>1, <1>3, <2>1
    <2>. QED  BY <1>1, <1>2, <2>1, <2>2, <2>3, <2>4
  <1>6. TextsTold(t, k + 1)
    <2>1. \A i \in 1..(k + 1) : i \in 1..k \/ i = k + 1
      OBVIOUS
    <2>. QED  BY <1>4, <1>5, <2>1 DEF TextsTold
  <1>7. 2 * k + 2 = 2 * (k + 1)
    OBVIOUS
  <1>. QED  BY <1>1, <1>2, <1>3, <1>6, <1>7 DEF t

\* A step without a command makes no entry.
LEMMA IdleEntries ==
    ASSUME NEW s \in Stories, NEW k \in Nat, EntriesTold(s, k), s.assistant_texts[k + 1] = 0
    PROVE  EntriesTold(s, k + 1)
  <1>1. \A i \in DOMAIN s.step_debug : s.step_debug[i].step_idx \in Nat
    BY StoryFields
  <1>2. \A i \in DOMAIN s.step_debug : s.step_debug[i].step_idx < k + 1
    BY <1>1 DEF EntriesTold
  <1>3. \A n \in 1..(k + 1) : n \in 1..k \/ n = k + 1
    OBVIOUS
  <1>. QED  BY <1>2, <1>3 DEF EntriesTold

\* A step with a command makes an entry, the latest one.
LEMMA RecordedTold ==
    ASSUME NEW s \in Stories, step \in Nat, NEW k, k = step, Answered(s, k), NEW ok \in BOOLEAN,
           NEW c \in Nat, s.assistant_texts[k + 1] = c
    PROVE  Pending(Recorded(s, c, ok), k) /\ EntriesTold(Recorded(s, c, ok), k + 1)
  <1>. DEFINE t == Recorded(s, c, ok)
              e == Entry(c, ok)
              L == Len(s.step_debug)
  <1>1. /\ t \in Stories /\ t.messages = s.messages
        /\ t.step_debug = Append(s.step_debug, e)
        /\ t.managed_contexts = s.managed_contexts /\ t.assistant_texts = s.assistant_texts
        /\ t.prm = Append(s.prm, e)
        /\ e \in Entries /\ e.step_idx = k /\ e.command = c
    BY RecordedFields
  <1>. HIDE DEF t, e
  <1>2. Pending(s, k) /\ EntriesTold(s, k) /\ c # 0 /\ k \in Nat
    BY DEF Answered
  <1>3. Pending(t, k)
    BY <1>1, <1>2 DEF Pending, TextsTold
  <1>4. /\ L \in Nat /\ DOMAIN s.step_debug = 1..L /\ DOMAIN t.step_debug = 1..(L + 1)
        /\ \A i \in 1..L : t.step_debug[i] = s.step_debug[i]
        /\ t.step_debug[L + 1] = e
    <2>1. s.step_debug \in Seq(Entries)
      BY StoryFields
    <2>. QED  BY <1>1, <2>1, Longer
  <1>5. \A i \in 1..L : s.step_debug[i].step_idx \in Nat /\ s.step_debug[i].step_idx < k
    BY <1>2, <1>4, StoryFields DEF EntriesTold
  <1>. HIDE DEF L
  <1>6. \A i \in 1..(L + 1) : i \in 1..L \/ i = L + 1
    BY <1>4
  <1>7. t.prm = t.step_debug
    BY <1>1, <1>2 DEF EntriesTold
  <1>8. ASSUME NEW i \in 1..(L + 1), NEW j \in 1..(L + 1), i < j
        PROVE  t.step_debug[i].step_idx < t.step_debug[j].step_idx
    <2>1. i \in 1..L
      BY <1>4, <1>8
    <2>2. CASE j = L + 1
      BY <1>1, <1>4, <1>5, <2>1, <2>2
    <2>3. CASE j # L + 1
      <3>1. j \in 1..L
        BY <1>6, <2>3
      <3>. QED  BY <1>2, <1>4, <1>8, <2>1, <3>1 DEF EntriesTold, Sequential
    <2>. QED  BY <2>2, <2>3
  <1>9. ASSUME NEW i \in 1..(L + 1)
        PROVE  /\ t.step_debug[i].step_idx < k + 1 /\ t.step_debug[i].command # 0
               /\ t.assistant_texts[t.step_debug[i].step_idx + 1] = t.step_debug[i].command
    <2>1. CASE i = L + 1
      BY <1>1, <1>2, <1>4, <2>1
    <2>2. CASE i \in 1..L
      <3>1. /\ s.step_debug[i].step_idx < k /\ s.step_debug[i].command # 0
            /\ s.assistant_texts[s.step_debug[i].step_idx + 1] = s.step_debug[i].command
        BY <1>2, <1>4, <2>2 DEF EntriesTold
      <3>. QED  BY <1>1, <1>2, <1>4, <1>5, <2>2, <3>1
    <2>. QED  BY <1>6, <2>1, <2>2
  <1>10. ASSUME NEW n \in 1..(k + 1), t.assistant_texts[n] # 0
         PROVE  \E i \in DOMAIN t.step_debug : t.step_debug[i].step_idx = n - 1
    <2>1. CASE n = k + 1
      <3>1. L + 1 \in DOMAIN t.step_debug /\ t.step_debug[L + 1].step_idx = n - 1
        BY <1>1, <1>2, <1>4, <2>1
      <3>. QED  BY <3>1
    <2>2. CASE n \in 1..k
      <3>1. PICK i \in 1..L : s.step_debug[i].step_idx = n - 1
        BY <1>1, <1>2, <1>4, <1>10, <2>2 DEF EntriesTold
      <3>2. i \in DOMAIN t.step_debug /\ t.step_debug[i].step_idx = n - 1
        BY <1>4, <3>1
      <3>. QED  BY <3>2
    <2>. QED  BY <1>2, <2>1, <2>2
  <1>11. EntriesTold(t, k + 1)
    BY <1>4, <1>7, <1>8, <1>9, <1>10 DEF EntriesTold, Sequential
  <1>. QED  BY <1>3, <1>11 DEF t
-----------------------------------------------------------------------------
(***************************************************************************)
(* A rewind, and what is told of a container.                              *)
(***************************************************************************)
\* A rewound story tells the steps before the one it resumes at, and nothing of the others.
LEMMA RewoundTold ==
    ASSUME NEW s \in Stories, NEW k \in Nat, Answered(s, k), NEW n \in Nat, n <= k
    PROVE  LET t == Rewound(s, n) IN
           /\ t \in Stories /\ Between(t, n) /\ Agree(t.assistant_texts, s.assistant_texts, n)
           /\ \A i \in DOMAIN t.step_debug :
                 i \in DOMAIN s.step_debug /\ t.step_debug[i] = s.step_debug[i]
  <1>. DEFINE t == Rewound(s, n)
              L == Len(s.step_debug)
  <1>1. /\ TextsTold(s, k) /\ EntriesTold(s, k) /\ Sequential(s.step_debug)
        /\ s.prm = s.step_debug
        /\ Len(s.messages) = 2 * k + 1 /\ Len(s.assistant_texts) = k + 1
        /\ Len(s.managed_contexts) = k + 1
    BY DEF Answered, Pending, EntriesTold
  <1>2. /\ s.step_debug \in Seq(Entries) /\ L \in Nat /\ DOMAIN s.step_debug = 1..L
        /\ s.messages \in Seq(Lines) /\ s.assistant_texts \in Seq(Nat)
        /\ s.managed_contexts \in Seq(Seq(Lines))
        /\ \A i \in 1..L : s.step_debug[i].step_idx \in Nat
    BY StoryFields
  <1>3. PICK m \in 0..L : /\ \A i \in 1..m : s.step_debug[i].step_idx < n
                          /\ \A i \in (m + 1)..L : ~(s.step_debug[i].step_idx < n)
    BY <1>1, <1>2, Split
  <1>4. Before(s.step_debug, n) = SubSeq(s.step_debug, 1, m)
    BY <1>1, <1>2, <1>3, BeforePrefix
  <1>5. 2 * n <= Len(s.messages) /\ n <= Len(s.managed_contexts) /\ n <= Len(s.assistant_texts)
        /\ 2 * n \in 0..Len(s.messages) /\ n \in 0..Len(s.managed_contexts)
        /\ n \in 0..Len(s.assistant_texts)
    BY <1>1
  <1>6. /\ t \in Stories
        /\ t.messages = SubSeq(s.messages, 1, 2 * n)
        /\ t.step_debug = SubSeq(s.step_debug, 1, m)
        /\ t.managed_contexts = SubSeq(s.managed_contexts, 1, n)
        /\ t.assistant_texts = SubSeq(s.assistant_texts, 1, n)
        /\ t.prm = SubSeq(s.step_debug, 1, m)
    BY <1>1, <1>4, <1>5, RewoundFields
  <1>. HIDE DEF t
  <1>7. Len(t.messages) = 2 * n /\ Agree(t.messages, s.messages, 2 * n)
    <2>1. /\ Len(SubSeq(s.messages, 1, 2 * n)) = 2 * n
          /\ \A i \in 1..(2 * n) : SubSeq(s.messages, 1, 2 * n)[i] = s.messages[i]
      BY <1>2, <1>5, Prefix
    <2>. QED  BY <1>6, <2>1 DEF Agree
  <1>8. Len(t.managed_contexts) = n /\ Agree(t.managed_contexts, s.managed_contexts, n)
    BY <1>2, <1>5, <1>6, Prefix DEF Agree
  <1>9. Len(t.assistant_texts) = n /\ Agree(t.assistant_texts, s.assistant_texts, n)
    BY <1>2, <1>5, <1>6, Prefix DEF Agree
  <1>10. /\ DOMAIN t.step_debug = 1..m
         /\ \A i \in 1..m : i \in 1..L /\ t.step_debug[i] = s.step_debug[i]
    <2>1. \A i \in 1..m : i \in 1..L
      BY <1>2
    <2>. QED  BY <1>2, <1>6, <2>1, Prefix
  <1>11. TextsTold(t, n)
    <2>1. 2 * n <= Len(t.messages)
      BY <1>7
    <2>. QED  BY <1>1, <1>5, <1>6, <1>7, <1>8, <1>9, <2>1, TextsAgree
  <1>12. ASSUME NEW i \in 1..m
         PROVE  /\ t.step_debug[i].step_idx < n /\ t.step_debug[i].command # 0
                /\ t.assistant_texts[t.step_debug[i].step_idx + 1] = t.step_debug[i].command
    <2>1. i \in 1..L /\ t.step_debug[i] = s.step_debug[i]
      BY <1>10
    <2>2. /\ s.step_debug[i].command # 0
          /\ s.assistant_texts[s.step_debug[i].step_idx + 1] = s.step_debug[i].command
      BY <1>1, <1>2, <2>1 DEF EntriesTold
    <2>3. s.step_debug[i].step_idx \in Nat /\ s.step_debug[i].step_idx < n
      BY <1>2, <1>3, <2>1
    <2>4. s.step_debug[i].step_idx + 1 \in 1..n
      BY <2>3
    <2>. QED  BY <1>9, <2>1, <2>2, <2>3, <2>4 DEF Agree
  <1>13. ASSUME NEW j \in 1..n, t.assistant_texts[j] # 0
         PROVE  \E i \in DOMAIN t.step_debug : t.step_debug[i].step_idx = j - 1
    <2>1. j \in 1..k /\ s.assistant_texts[j] # 0
      <3>1. j \in 1..k
        OBVIOUS
      <3>. QED  BY <1>9, <1>13, <3>1 DEF Agree
    <2>2. PICK i \in 1..L : s.step_debug[i].step_idx = j - 1
      BY <1>1, <1>2, <2>1 DEF EntriesTold
    <2>3. i \in 1..m
      <3>1. SUFFICES ASSUME i \notin 1..m PROVE FALSE
        OBVIOUS
      <3>2. i \in (m + 1)..L
        BY <1>2, <3>1
      <3>. QED  BY <1>3, <2>2, <3>2
    <2>. QED  BY <1>10, <2>2, <2>3
  <1>14. Sequential(t.step_debug)
    BY <1>1, <1>2, <1>10 DEF Sequential
  <1>15. EntriesTold(t, n)
    BY <1>6, <1>10, <1>12, <1>13, <1>14 DEF EntriesTold
  <1>. QED  BY <1>2, <1>6, <1>7, <1>8, <1>9, <1>10, <1>11, <1>15 DEF Between, t

\* What is told of a container carries over to a story that has the texts, and no entry to ask
\* more of it.
LEMMA TellsAgree ==
    ASSUME NEW s, NEW t, NEW w, NEW k, NEW l, NEW m, Tells(s, w, k, m),
           Agree(t.assistant_texts, s.assistant_texts, m),
           \A i \in DOMAIN t.step_debug :
              t.step_debug[i].ok /\ t.step_debug[i].step_idx < l =>
                 \/ \E j \in DOMAIN s.step_debug :
                       /\ t.step_debug[i] = s.step_debug[j] /\ s.step_debug[j].step_idx < k
                 \/ \E j \in DOMAIN w : w[j] = t.step_debug[i].command
    PROVE  Tells(t, w, l, m)
  <1>1. ASSUME NEW i \in DOMAIN w PROVE \E p \in 1..m : t.assistant_texts[p] = w[i]
    <2>1. PICK p \in 1..m : s.assistant_texts[p] = w[i]
      BY DEF Tells
    <2>2. t.assistant_texts[p] = w[i]
      BY <2>1 DEF Agree
    <2>. QED  BY <2>2
  <1>2. ASSUME NEW i \in DOMAIN t.step_debug, t.step_debug[i].ok, t.step_debug[i].step_idx < l
        PROVE  \E j \in DOMAIN w : w[j] = t.step_debug[i].command
    <2>1. CASE \E j \in DOMAIN w : w[j] = t.step_debug[i].command
      BY <2>1
    <2>2. CASE \E j \in DOMAIN s.step_debug :
                  /\ t.step_debug[i] = s.step_debug[j] /\ s.step_debug[j].step_idx < k
      <3>1. PICK j \in DOMAIN s.step_debug :
                  t.step_debug[i] = s.step_debug[j] /\ s.step_debug[j].step_idx < k
        BY <2>2
      <3>. QED  BY <1>2, <3>1 DEF Tells
    <2>. QED  BY <1>2, <2>1, <2>2
  <1>. QED  BY <1>1, <1>2 DEF Tells

\* A container that ran one command more, the story's greatest.
LEMMA TellsRun ==
    ASSUME NEW s \in Stories, NEW w \in Seq(Nat), NEW k, NEW m \in Nat \ {0}, Tells(s, w, k, m),
           m = Len(s.assistant_texts), NEW c \in Nat, c = s.assistant_texts[m], AtMost(s, c)
    PROVE  /\ Tells(s, Append(w, c), k, m) /\ Append(w, c) \in Seq(Nat)
           /\ \E j \in DOMAIN Append(w, c) : Append(w, c)[j] = c
  <1>. DEFINE v == Append(w, c)
              L == Len(w)
  <1>1. /\ v \in Seq(Nat) /\ L \in Nat /\ DOMAIN w = 1..L /\ DOMAIN v = 1..(L + 1)
        /\ \A i \in 1..L : v[i] = w[i]
        /\ v[L + 1] = c
    BY Longer
  <1>. HIDE DEF v
  <1>2. \A i \in 1..L : w[i] \in Nat /\ w[i] <= c
    <2>1. SUFFICES ASSUME NEW i \in 1..L PROVE w[i] \in Nat /\ w[i] <= c
      OBVIOUS
    <2>2. PICK p \in 1..m : s.assistant_texts[p] = w[i]
      BY <1>1 DEF Tells
    <2>3. p \in DOMAIN s.assistant_texts
      BY <2>2, StoryFields
    <2>4. w[i] \in Nat
      BY <1>1
    <2>5. s.assistant_texts[p] <= c
      BY <2>3 DEF AtMost
    <2>. QED  BY <2>2, <2>4, <2>5
  <1>3. \A i \in 1..(L + 1) : i \in 1..L \/ i = L + 1
    BY <1>1
  <1>4. ASSUME NEW i \in 1..(L + 1), NEW j \in 1..(L + 1), i < j PROVE v[i] <= v[j]
    <2>1. i \in 1..L
      BY <1>1, <1>4
    <2>2. CASE j = L + 1
      BY <1>1, <1>2, <2>1, <2>2
    <2>3. CASE j \in 1..L
      BY <1>1, <1>4, <2>1, <2>3 DEF Tells, Sorted
    <2>. QED  BY <1>3, <2>2, <2>3
  <1>5. ASSUME NEW i \in 1..(L + 1) PROVE \E p \in 1..m : s.assistant_texts[p] = v[i]
    <2>1. CASE i = L + 1
      <3>1. m \in 1..m /\ s.assistant_texts[m] = v[i]
        BY <1>1, <2>1
      <3>. QED  BY <3>1
    <2>2. CASE i \in 1..L
      BY <1>1, <2>2 DEF Tells
    <2>. QED  BY <1>3, <2>1, <2>2
  <1>6. L + 1 \in DOMAIN v /\ \A i \in 1..L : i \in DOMAIN v
    BY <1>1
  <1>7. ASSUME NEW i \in DOMAIN s.step_debug, s.step_debug[i].ok, s.step_debug[i].step_idx < k
        PROVE  \E j \in DOMAIN v : v[j] = s.step_debug[i].command
    <2>1. PICK j \in 1..L : w[j] = s.step_debug[i].command
      BY <1>1, <1>7 DEF Tells
    <2>. QED  BY <1>1, <1>6, <2>1
  <1>8. Tells(s, v, k, m)
    BY <1>1, <1>4, <1>5, <1>7 DEF Tells, Sorted
  <1>. QED  BY <1>1, <1>6, <1>8 DEF v
-----------------------------------------------------------------------------
(***************************************************************************)
(* Common parts of the steps.                                              *)
(***************************************************************************)
\* The trajectory comes to step n with its lists, its container and its checkpoint in agreement.
LEMMA Arrives ==
    ASSUME StoryInv, NEW s \in Stories, story' = s, NEW n \in Nat, GoOn(n), Between(s, n),
           AtMost(s, High' + n),
           world' \in Seq(Nat), alive' \in BOOLEAN, alive' => Tells(s, world', n, n),
           life' \in Nat, faults' \in Nat, tried' \in Nat, latest' \in Seq(Nat),
           ckpt' \in Checkpoints,
           ckpt'.ready => ckpt'.resume <= n /\ Tells(s, ckpt'.content, ckpt'.resume, ckpt'.resume),
           UNCHANGED creates, \A c \in creates : ~c.awaited
    PROVE  StoryInv'
  <1>1. /\ step' = n /\ at' = (IF n < StepLimit THEN "llm" ELSE "over")
        /\ asked' = FALSE /\ attempt' = 1
    BY DEF GoOn
  <1>2. at' \in {"llm", "over"} /\ (at' # "over" => step' < StepLimit)
    BY <1>1
  <1>3. \A i \in DOMAIN s.step_debug :
           s.step_debug[i].step_idx \in Nat /\ s.step_debug[i].step_idx < n
    BY StoryFields DEF Between, EntriesTold
  <1>4. n = Len(s.assistant_texts)
    BY DEF Between
  <1>5. TypeInv'
    BY <1>1, <1>2 DEF StoryInv, TypeInv, Deciding
  <1>6. ListsInv'
    BY <1>1, <1>2, <1>3 DEF ListsInv, Deciding, Answering
  <1>7. Numbered'
    BY <1>1, <1>2 DEF Numbered, Deciding
  <1>8. alive' => Tells(s, world', n + 1, n)
    BY DEF Tells, Between, EntriesTold
  <1>9. WorldTold'
    BY <1>1, <1>2, <1>4, <1>8 DEF WorldTold, Deciding
  <1>10. CkptTold'
    BY <1>1, <1>2 DEF CkptTold
  <1>11. CreatesTold'
    BY DEF CreatesTold
  <1>. QED  BY <1>5, <1>6, <1>7, <1>9, <1>10, <1>11 DEF StoryInv

\* High grows by StepLimit with a fault.
LEMMA OneMoreTimes ==
    ASSUME NEW f \in Nat, NEW g \in Nat, NEW h \in {f, f + 1}
    PROVE  /\ f * g \in Nat /\ h * g \in Nat /\ f * g <= h * g
           /\ h = f + 1 => h * g = f * g + g
  <1>1. f * g \in Nat /\ (f + 1) * g = f * g + g
    OBVIOUS
  <1>2. CASE h = f
    BY <1>1, <1>2
  <1>3. CASE h = f + 1
    BY <1>1, <1>3
  <1>. QED  BY <1>2, <1>3

\* Commands after a fault are greater than any before it.
LEMMA HighGrows ==
    ASSUME faults \in Nat, faults' \in {faults, faults + 1}
    PROVE  /\ High \in Nat /\ High' \in Nat /\ High <= High'
           /\ faults' = faults + 1 => High' = High + StepLimit
  <1>1. High = faults * StepLimit /\ High' = faults' * StepLimit
    BY DEF High
  <1>2. /\ faults * StepLimit \in Nat /\ faults' * StepLimit \in Nat
        /\ faults * StepLimit <= faults' * StepLimit
        /\ faults' = faults + 1 => faults' * StepLimit = faults * StepLimit + StepLimit
    BY StepLimitAssumption, OneMoreTimes
  <1>. QED  BY <1>1, <1>2, Zenon

\* Only in "saving" is a checkpoint call awaited.
LEMMA NoneAwaited ==
    ASSUME StoryInv, at # "saving"
    PROVE  \A c \in creates : ~c.awaited
  BY DEF StoryInv, CreatesTold

\* The latest command.
LEMMA CommandIs ==
    ASSUME StoryInv, at \in Answering
    PROVE  /\ Command \in Nat /\ Command = story.assistant_texts[step + 1]
           /\ story \in Stories /\ step \in Nat /\ step < StepLimit
           /\ Len(story.assistant_texts) = step + 1
           /\ Answered(story, step) /\ Pending(story, step) /\ EntriesTold(story, step)
           /\ Command # 0
  <1>1. story \in Stories /\ step \in Nat /\ at # "over" /\ step < StepLimit
    BY DEF StoryInv, TypeInv, Answering
  <1>2. Answered(story, step)
    BY DEF StoryInv, ListsInv
  <1>3. /\ Pending(story, step) /\ EntriesTold(story, step)
        /\ story.assistant_texts[step + 1] # 0 /\ Len(story.assistant_texts) = step + 1
    BY <1>2 DEF Answered, Pending
  <1>4. Command = story.assistant_texts[step + 1]
    BY <1>3 DEF Command, Last
  <1>5. step + 1 \in 1..Len(story.assistant_texts)
    BY <1>1, <1>3
  <1>. QED  BY <1>1, <1>2, <1>3, <1>4, <1>5, StoryFields

\* The container after the command, or without it.
LEMMA RunTold ==
    ASSUME StoryInv, at = "exec", alive, Runs \/ UNCHANGED world
    PROVE  /\ world' \in Seq(Nat) /\ Tells(story, world', step, step + 1)
           /\ Runs => \E j \in DOMAIN world' : world'[j] = Command
  <1>1. at \in Answering
    BY DEF Answering
  <1>2. /\ Command \in Nat /\ Command = story.assistant_texts[step + 1] /\ step \in Nat
        /\ story \in Stories /\ Len(story.assistant_texts) = step + 1
    BY <1>1, CommandIs
  <1>3. world \in Seq(Nat) /\ Tells(story, world, step, step + 1) /\ AtMost(story, Command)
    BY DEF StoryInv, TypeInv, WorldTold, Numbered
  <1>4. step + 1 \in Nat \ {0}
    BY <1>2
  <1>5. /\ Append(world, Command) \in Seq(Nat)
        /\ Tells(story, Append(world, Command), step, step + 1)
        /\ \E j \in DOMAIN Append(world, Command) : Append(world, Command)[j] = Command
    <2>1. AtMost(story, Command) /\ Tells(story, world, step, step + 1)
          /\ Command = story.assistant_texts[step + 1]
          /\ step + 1 = Len(story.assistant_texts)
      BY <1>2, <1>3
    <2>. QED  BY <1>2, <1>3, <1>4, <2>1, TellsRun
  <1>6. Runs => world' = Append(world, Command)
    BY DEF Runs
  <1>. QED  BY <1>3, <1>5, <1>6

\* A checkpoint stays in agreement with a story that only grows.
LEMMA EntryAdded ==
    ASSUME StoryInv, at \in Answering, NEW ok \in BOOLEAN, NEW w
    PROVE  LET t == Recorded(story, Command, ok) IN
           /\ \A k \in Nat : k <= step /\ Tells(story, w, k, k) => Tells(t, w, k, k)
           /\ Tells(story, w, step, step + 1) /\ (ok => \E j \in DOMAIN w : w[j] = Command)
                 => Tells(t, w, step + 1, step + 1)
  <1>. DEFINE t == Recorded(story, Command, ok)
              e == Entry(Command, ok)
              L == Len(story.step_debug)
  <1>1. story \in Stories /\ step \in Nat /\ Command \in Nat /\ EntriesTold(story, step)
    BY CommandIs
  <1>2. /\ t.step_debug = Append(story.step_debug, e) /\ t.assistant_texts = story.assistant_texts
        /\ e \in Entries /\ e.step_idx = step /\ e.command = Command /\ e.ok = ok
    BY <1>1, RecordedFields
  <1>. HIDE DEF t, e
  <1>3. /\ L \in Nat /\ DOMAIN story.step_debug = 1..L /\ DOMAIN t.step_debug = 1..(L + 1)
        /\ \A i \in 1..L : t.step_debug[i] = story.step_debug[i]
        /\ t.step_debug[L + 1] = e
    <2>1. story.step_debug \in Seq(Entries)
      BY <1>1, StoryFields
    <2>. QED  BY <1>2, <2>1, Longer
  <1>. HIDE DEF L
  <1>4. \A m : Agree(t.assistant_texts, story.assistant_texts, m)
    BY <1>2 DEF Agree
  <1>5. \A i \in 1..(L + 1) : i \in 1..L \/ i = L + 1
    BY <1>3
  <1>6. \A i \in 1..L : story.step_debug[i].step_idx < step
    BY <1>1, <1>3 DEF EntriesTold
  <1>7. ASSUME NEW k \in Nat, k <= step, Tells(story, w, k, k) PROVE Tells(t, w, k, k)
    <2>1. ~(e.step_idx < k)
      BY <1>1, <1>2, <1>7
    <2>2. ASSUME NEW i \in DOMAIN t.step_debug, t.step_debug[i].step_idx < k
          PROVE  \E j \in DOMAIN story.step_debug :
                    t.step_debug[i] = story.step_debug[j] /\ story.step_debug[j].step_idx < k
      <3>1. i \in 1..L
        BY <1>3, <1>5, <2>1, <2>2
      <3>. QED  BY <1>3, <2>2, <3>1
    <2>. QED  BY <1>4, <1>7, <2>2, TellsAgree
  <1>8. ASSUME Tells(story, w, step, step + 1), ok => \E j \in DOMAIN w : w[j] = Command
        PROVE  Tells(t, w, step + 1, step + 1)
    <2>1. ASSUME NEW i \in DOMAIN t.step_debug, t.step_debug[i].ok
          PROVE  \/ \E j \in DOMAIN story.step_debug :
                       t.step_debug[i] = story.step_debug[j] /\ story.step_debug[j].step_idx < step
                 \/ \E j \in DOMAIN w : w[j] = t.step_debug[i].command
      <3>1. CASE i \in 1..L
        BY <1>3, <1>6, <3>1
      <3>2. CASE i = L + 1
        BY <1>2, <1>3, <1>8, <2>1, <3>2
      <3>. QED  BY <1>3, <1>5, <3>1, <3>2
    <2>. QED  BY <1>4, <1>8, <2>1, TellsAgree
  <1>. QED  BY <1>7, <1>8 DEF t
-----------------------------------------------------------------------------
(***************************************************************************)
(* The steps of the LLM.                                                   *)
(***************************************************************************)
\* The container and the checkpoint stay in agreement with a story that has one answer more.
LEMMA AnswerAdded ==
    ASSUME NEW s \in Stories, NEW c \in Nat, NEW w, NEW k \in Nat, NEW m \in Nat,
           m <= Len(s.assistant_texts), Tells(s, w, k, m)
    PROVE  Tells(Said(s, c), w, k, m)
  <1>1. /\ Said(s, c).step_debug = s.step_debug
        /\ Said(s, c).assistant_texts = Append(s.assistant_texts, c)
        /\ s.assistant_texts \in Seq(Nat) /\ Len(s.assistant_texts) \in Nat
    BY SaidFields, StoryFields
  <1>2. \A i \in 1..Len(s.assistant_texts) : Said(s, c).assistant_texts[i] = s.assistant_texts[i]
    BY <1>1, Longer
  <1>3. Agree(Said(s, c).assistant_texts, s.assistant_texts, m)
    <2>1. \A i \in 1..m : i \in 1..Len(s.assistant_texts)
      BY <1>1
    <2>. QED  BY <1>2, <2>1 DEF Agree
  <1>. QED  BY <1>1, <1>3, TellsAgree

\* What is told between two steps carries over to a greater bound on the texts.
LEMMA TellsMore ==
    ASSUME NEW s, NEW w, NEW k \in Nat, NEW m \in Nat, Tells(s, w, k, m)
    PROVE  Tells(s, w, k, m + 1)
  <1>1. \A p \in 1..m : p \in 1..(m + 1)
    OBVIOUS
  <1>. QED  BY <1>1 DEF Tells

\* An observation leaves texts and entries as they are.
LEMMA ObservedAgree ==
    ASSUME NEW s \in Stories, NEW c \in Nat
    PROVE  /\ \A k : EntriesTold(s, k) => EntriesTold(Observed(s, c), k)
           /\ \A w, k, m : Tells(s, w, k, m) => Tells(Observed(s, c), w, k, m)
           /\ \A n : AtMost(s, n) => AtMost(Observed(s, c), n)
           /\ Observed(s, c) \in Stories
  <1>1. /\ Observed(s, c).step_debug = s.step_debug /\ Observed(s, c).prm = s.prm
        /\ Observed(s, c).assistant_texts = s.assistant_texts
        /\ Observed(s, c) \in Stories
    BY ObservedFields
  <1>. QED  BY <1>1 DEF EntriesTold, Tells, AtMost

\* The texts after an answer.
LEMMA SaidAtMost ==
    ASSUME NEW s \in Stories, NEW c \in Nat, NEW n \in Nat, NEW m \in Nat, AtMost(s, n),
           n <= m, c <= m
    PROVE  AtMost(Said(s, c), m)
  <1>. DEFINE L == Len(s.assistant_texts)
              t == Said(s, c)
  <1>1. /\ L \in Nat /\ DOMAIN s.assistant_texts = 1..L
        /\ \A i \in 1..L : s.assistant_texts[i] \in Nat
        /\ s.assistant_texts \in Seq(Nat)
    BY StoryFields
  <1>2. t.assistant_texts = Append(s.assistant_texts, c)
    BY SaidFields
  <1>3. /\ DOMAIN t.assistant_texts = 1..(L + 1) /\ t.assistant_texts[L + 1] = c
        /\ \A i \in 1..L : t.assistant_texts[i] = s.assistant_texts[i]
    BY <1>1, <1>2, Longer
  <1>. HIDE DEF L, t
  <1>4. ASSUME NEW i \in 1..(L + 1) PROVE t.assistant_texts[i] <= m
    <2>1. CASE i = L + 1
      BY <1>3, <2>1
    <2>2. CASE i # L + 1
      <3>1. i \in 1..L
        BY <1>1, <2>2
      <3>2. s.assistant_texts[i] \in Nat /\ s.assistant_texts[i] <= n
        BY <1>1, <3>1 DEF AtMost
      <3>3. t.assistant_texts[i] = s.assistant_texts[i]
        BY <1>3, <3>1
      <3>. QED  BY <3>2, <3>3
    <2>. QED  BY <2>1, <2>2
  <1>. QED  BY <1>3, <1>4 DEF AtMost, t

\* What holds when the LLM is asked.
LEMMA DecidingFacts ==
    ASSUME StoryInv, at = "llm"
    PROVE  /\ story \in Stories /\ step \in Nat /\ step < StepLimit /\ Between(story, step)
           /\ Len(story.assistant_texts) = step /\ EntriesTold(story, step)
           /\ High \in Nat /\ AtMost(story, High + step)
           /\ alive => Tells(story, world, step, step)
           /\ ckpt \in Checkpoints /\ ckpt.resume \in Nat
           /\ ckpt.ready => /\ ckpt.resume <= step
                            /\ Tells(story, ckpt.content, ckpt.resume, ckpt.resume)
           /\ \A c \in creates : ~c.awaited
           /\ world \in Seq(Nat) /\ alive \in BOOLEAN /\ life \in Nat /\ faults \in Nat
           /\ tried \in Nat /\ latest \in Seq(Nat) /\ creates \subseteq Creates
           /\ asked \in BOOLEAN /\ attempt \in Nat
  <1>1. TypeInv
    BY DEF StoryInv
  <1>2. /\ story \in Stories /\ step \in Nat /\ step < StepLimit /\ faults \in Nat
        /\ ckpt \in Checkpoints /\ ckpt.resume \in Nat
        /\ world \in Seq(Nat) /\ alive \in BOOLEAN /\ life \in Nat
        /\ tried \in Nat /\ latest \in Seq(Nat) /\ creates \subseteq Creates
        /\ asked \in BOOLEAN /\ attempt \in Nat
    BY <1>1 DEF TypeInv, Checkpoints
  <1>3. High \in Nat
    <2>1. \A f, g \in Nat : f * g \in Nat
      OBVIOUS
    <2>. QED  BY <1>2, <2>1, StepLimitAssumption DEF High
  <1>4. Between(story, step)
    BY DEF StoryInv, ListsInv, Deciding
  <1>5. Len(story.assistant_texts) = step /\ EntriesTold(story, step)
    BY <1>4 DEF Between
  <1>6. AtMost(story, High + step)
    BY DEF StoryInv, Numbered, Deciding
  <1>7. alive => Tells(story, world, step, step)
    BY DEF StoryInv, WorldTold, Deciding
  <1>8. ckpt.ready => /\ ckpt.resume <= step
                      /\ Tells(story, ckpt.content, ckpt.resume, ckpt.resume)
    BY DEF StoryInv, CkptTold
  <1>9. \A c \in creates : ~c.awaited
    BY NoneAwaited
  <1>. QED  BY <1>2, <1>3, <1>4, <1>5, <1>6, <1>7, <1>8, <1>9

\* An answer with a command (the append of :1153-1155) keeps the invariant.
LEMMA AnswersStep ==
    ASSUME StoryInv, Answers
    PROVE  StoryInv'
  <1>. DEFINE c == NewCommand
              t == Said(story, c)
  <1>1. /\ at = "llm" /\ story' = t /\ at' = "exec"
        /\ UNCHANGED <<setup, step, ckpt, tried, asked, attempt>>
        /\ UNCHANGED <<world, alive, life, faults, creates, latest>>
    BY DEF Answers, nodeVars
  <1>2. /\ story \in Stories /\ step \in Nat /\ step < StepLimit /\ Between(story, step)
        /\ Len(story.assistant_texts) = step
        /\ High \in Nat /\ AtMost(story, High + step)
        /\ alive => Tells(story, world, step, step)
        /\ ckpt \in Checkpoints /\ ckpt.resume \in Nat
        /\ ckpt.ready => /\ ckpt.resume <= step
                         /\ Tells(story, ckpt.content, ckpt.resume, ckpt.resume)
        /\ \A d \in creates : ~d.awaited
    BY <1>1, DecidingFacts
  <1>3. c = High + step + 1 /\ c \in Nat /\ c # 0
    BY <1>2 DEF NewCommand, High
  <1>4. t \in Stories /\ Answered(t, step) /\ t.assistant_texts[step + 1] = c
        /\ Len(t.assistant_texts) = step + 1
    <2>1. t \in Stories
      BY <1>2, <1>3, SaidFields
    <2>2. Pending(t, step) /\ EntriesTold(t, step) /\ t.assistant_texts[step + 1] = c
      BY <1>2, <1>3, SaidTold
    <2>3. Len(t.assistant_texts) = step + 1
      BY <2>2 DEF Pending
    <2>. QED  BY <1>3, <2>1, <2>2, <2>3 DEF Answered
  <1>5. AtMost(t, High + step + 1)
    BY <1>2, <1>3, SaidAtMost
  <1>6. alive => Tells(t, world, step, step + 1)
    BY <1>2, <1>3, AnswerAdded, TellsMore
  <1>7. ckpt.ready => Tells(t, ckpt.content, ckpt.resume, ckpt.resume)
    BY <1>2, <1>3, AnswerAdded
  <1>. HIDE DEF c, t
  <1>8. Command' = c
    BY <1>1, <1>4 DEF Command, Last
  <1>9. TypeInv'
    BY <1>1, <1>2, <1>4 DEF StoryInv, TypeInv, Answering
  <1>10. ListsInv'
    BY <1>1, <1>4 DEF ListsInv, Deciding, Answering
  <1>11. Numbered'
    <2>1. High' = High
      BY <1>1 DEF High
    <2>. QED  BY <1>1, <1>3, <1>5, <1>8, <2>1 DEF Numbered, Deciding
  <1>12. WorldTold'
    BY <1>1, <1>6 DEF WorldTold, Deciding
  <1>13. CkptTold'
    BY <1>1, <1>2, <1>7 DEF CkptTold
  <1>14. CreatesTold'
    BY <1>1, <1>2 DEF CreatesTold
  <1>. QED  BY <1>9, <1>10, <1>11, <1>12, <1>13, <1>14 DEF StoryInv

\* An answer without a command ends its step; the container need not follow.
LEMMA AnswersIdlyStep ==
    ASSUME StoryInv, AnswersIdly
    PROVE  StoryInv'
  <1>. DEFINE t == Said(story, 0)
              u == Observed(t, 0)
  <1>1. /\ at = "llm" /\ story' = u /\ GoOn(step + 1)
        /\ UNCHANGED <<setup, ckpt, tried>>
        /\ UNCHANGED <<world, alive, life, faults, creates, latest>>
    BY DEF AnswersIdly, nodeVars
  <1>2. /\ story \in Stories /\ step \in Nat /\ Between(story, step)
        /\ Len(story.assistant_texts) = step
        /\ High \in Nat /\ AtMost(story, High + step)
        /\ alive => Tells(story, world, step, step)
        /\ ckpt \in Checkpoints /\ ckpt.resume \in Nat
        /\ ckpt.ready => /\ ckpt.resume <= step
                         /\ Tells(story, ckpt.content, ckpt.resume, ckpt.resume)
        /\ \A d \in creates : ~d.awaited
        /\ world \in Seq(Nat) /\ alive \in BOOLEAN /\ life \in Nat /\ faults \in Nat
        /\ tried \in Nat /\ latest \in Seq(Nat)
    BY <1>1, DecidingFacts
  <1>3. /\ t \in Stories /\ Pending(t, step) /\ EntriesTold(t, step)
        /\ t.assistant_texts[step + 1] = 0
    <2>1. 0 \in Nat
      OBVIOUS
    <2>2. t \in Stories
      BY <1>2, <2>1, SaidFields
    <2>3. Pending(t, step) /\ EntriesTold(t, step) /\ t.assistant_texts[step + 1] = 0
      BY <1>2, <2>1, SaidTold
    <2>. QED  BY <2>2, <2>3
  <1>4. EntriesTold(t, step + 1)
    BY <1>2, <1>3, IdleEntries
  <1>5. /\ TextsTold(u, step + 1)
        /\ Len(u.messages) = 2 * (step + 1) /\ Len(u.assistant_texts) = step + 1
        /\ Len(u.managed_contexts) = step + 1
    BY <1>2, <1>3, ObservedTexts
  <1>6. u \in Stories /\ EntriesTold(u, step + 1)
    BY <1>3, <1>4, ObservedAgree
  <1>7. Between(u, step + 1)
    BY <1>5, <1>6 DEF Between
  <1>8. AtMost(u, High + (step + 1))
    <2>1. AtMost(t, High + (step + 1))
      BY <1>2, SaidAtMost
    <2>. QED  BY <1>3, <2>1, ObservedAgree
  <1>9. alive => Tells(u, world, step + 1, step + 1)
    <2>1. alive => Tells(t, world, step, step + 1)
      BY <1>2, AnswerAdded, TellsMore
    <2>2. alive => Tells(u, world, step, step + 1)
      BY <1>3, <2>1, ObservedAgree
    <2>3. \A i \in DOMAIN u.step_debug : u.step_debug[i].step_idx < step
      <3>1. u.step_debug = t.step_debug
        BY <1>3, ObservedFields
      <3>. QED  BY <1>3, <3>1 DEF EntriesTold
    <2>. QED  BY <2>2, <2>3 DEF Tells
  <1>10. ckpt.ready => Tells(u, ckpt.content, ckpt.resume, ckpt.resume)
    <2>1. ckpt.ready => Tells(t, ckpt.content, ckpt.resume, ckpt.resume)
      BY <1>2, AnswerAdded
    <2>. QED  BY <1>3, <2>1, ObservedAgree
  <1>. HIDE DEF t, u
  <1>11. High' = High
    BY <1>1 DEF High
  <1>12. ckpt'.ready => ckpt'.resume <= step + 1
                          /\ Tells(u, ckpt'.content, ckpt'.resume, ckpt'.resume)
    BY <1>1, <1>2, <1>10
  <1>13. step + 1 \in Nat
    BY <1>2
  <1>. QED  BY <1>1, <1>2, <1>6, <1>7, <1>8, <1>9, <1>11, <1>12, <1>13, Arrives
-----------------------------------------------------------------------------
(***************************************************************************)
(* The steps of the checkpoint calls.                                      *)
(***************************************************************************)
\* A step of a checkpoint call leaves story and container as they are.
LEMMA CallStep ==
    ASSUME StoryInv, UNCHANGED <<step, story, attempt, world, alive, life, faults>>,
           at' = at \/ (at \in Deciding /\ at' \in Deciding),
           tried' \in Nat, asked' \in BOOLEAN, latest' \in Seq(Nat),
           creates' \subseteq Creates, ckpt' \in Checkpoints, CkptTold', CreatesTold'
    PROVE  StoryInv'
  <1>1. at' \in Deciding <=> at \in Deciding
    BY DEF Deciding
  <1>2. at' \notin Deciding => at' = at
    BY <1>1
  <1>3. at' \in Answering => at' = at
    BY <1>2 DEF Deciding, Answering
  <1>4. at' = "over" => at' = at
    BY <1>2 DEF Deciding
  <1>5. at' \in {"exec", "rerun", "restart"} => at' = at
    BY <1>3 DEF Answering
  <1>6. /\ UNCHANGED step /\ UNCHANGED story /\ UNCHANGED attempt /\ UNCHANGED world
        /\ UNCHANGED alive /\ UNCHANGED life /\ UNCHANGED faults
    OBVIOUS
  <1>7. TypeInv'
    BY <1>6 DEF StoryInv, TypeInv, Deciding, Answering
  <1>8. ListsInv'
    BY <1>1, <1>3, <1>4, <1>6 DEF StoryInv, ListsInv
  <1>9. Numbered'
    <2>1. High' = High /\ Command' = Command
      BY <1>6 DEF High, Command
    <2>. QED  BY <1>1, <1>5, <1>6, <2>1 DEF StoryInv, Numbered
  <1>10. WorldTold'
    BY <1>1, <1>4, <1>5, <1>6 DEF StoryInv, WorldTold
  <1>. QED  BY <1>7, <1>8, <1>9, <1>10 DEF StoryInv

\* What a call in creates is.
LEMMA CreateFields ==
    ASSUME StoryInv, NEW c \in creates
    PROVE  /\ c \in Creates /\ c.resume \in Nat /\ c.content \in Seq(Nat)
           /\ c.committed \in BOOLEAN /\ c.awaited \in BOOLEAN /\ c.life \in Nat
           /\ c.awaited => /\ at = "saving" /\ c.resume = step
                           /\ c.committed => Tells(story, c.content, step, step)
                           /\ \A d \in creates : d.awaited => d = c
           /\ creates \subseteq Creates
  <1>1. creates \subseteq Creates /\ CreatesTold
    BY DEF StoryInv, TypeInv
  <1>2. c \in Creates
    BY <1>1
  <1>3. /\ c.resume \in Nat /\ c.content \in Seq(Nat)
        /\ c.committed \in BOOLEAN /\ c.awaited \in BOOLEAN /\ c.life \in Nat
    BY <1>2 DEF Creates
  <1>4. c.awaited => /\ at = "saving" /\ c.resume = step
                     /\ c.committed => Tells(story, c.content, step, step)
                     /\ \A d \in creates : d.awaited => d = c
    BY <1>1 DEF CreatesTold
  <1>. QED  BY <1>1, <1>2, <1>3, <1>4

\* What the checkpoint steps need of the rest.
LEMMA CallTypes ==
    ASSUME StoryInv
    PROVE  /\ tried \in Nat /\ asked \in BOOLEAN /\ latest \in Seq(Nat)
           /\ creates \subseteq Creates /\ ckpt \in Checkpoints /\ CkptTold /\ CreatesTold
           /\ world \in Seq(Nat) /\ life \in Nat /\ step \in Nat
  BY DEF StoryInv, TypeInv

\* A call of the LLM that raises ends the trajectory between two steps.
LEMMA AnswerFailsStep ==
    ASSUME StoryInv, AnswerFails
    PROVE  StoryInv'
  <1>1. /\ at = "llm" /\ at' = "over"
        /\ UNCHANGED <<setup, step, story, ckpt, tried, asked, attempt>>
        /\ UNCHANGED <<world, alive, life, faults, creates, latest>>
    BY DEF AnswerFails, nodeVars
  <1>2. /\ story \in Stories /\ step \in Nat /\ Between(story, step)
        /\ Len(story.assistant_texts) = step /\ EntriesTold(story, step)
        /\ alive => Tells(story, world, step, step)
        /\ \A c \in creates : ~c.awaited
    BY <1>1, DecidingFacts
  <1>3. \A i \in DOMAIN story.step_debug :
           story.step_debug[i].step_idx \in Nat /\ story.step_debug[i].step_idx < step
    BY <1>2, StoryFields DEF EntriesTold
  <1>4. TypeInv'
    BY <1>1 DEF StoryInv, TypeInv
  <1>5. ListsInv'
    BY <1>1, <1>2, <1>3 DEF ListsInv, Deciding, Answering
  <1>6. Numbered'
    BY <1>1 DEF Numbered, Deciding
  <1>7. WorldTold'
    <2>1. alive => Tells(story, world, step + 1, step)
      BY <1>2, <1>3 DEF Tells
    <2>. QED  BY <1>1, <1>2, <2>1 DEF WorldTold, Deciding
  <1>8. CkptTold' /\ CreatesTold'
    BY <1>1, <1>2 DEF CkptTold, CreatesTold
  <1>. QED  BY <1>4, <1>5, <1>6, <1>7, <1>8 DEF StoryInv

\* A checkpoint is asked for while no other is awaited, for the step that is to come.
LEMMA AskStep ==
    ASSUME StoryInv, Ask
    PROVE  StoryInv'
  <1>. DEFINE new == [resume |-> step, life |-> life, content |-> <<>>,
                      committed |-> FALSE, awaited |-> TRUE]
  <1>1. /\ at = "llm" /\ at' = "saving" /\ asked' = TRUE
        /\ tried' = (IF setup.policy = "fixed" THEN step ELSE tried)
        /\ creates' = creates \union {new}
        /\ UNCHANGED <<setup, step, story, ckpt, attempt, world, alive, life, faults, latest>>
    BY DEF Ask
  <1>2. /\ tried \in Nat /\ latest \in Seq(Nat) /\ creates \subseteq Creates
        /\ ckpt \in Checkpoints /\ CkptTold /\ life \in Nat /\ step \in Nat
    BY CallTypes
  <1>3. \A c \in creates : ~c.awaited
    BY <1>1, DecidingFacts
  <1>4. /\ new \in Creates /\ new.resume = step /\ ~new.committed
    BY <1>2 DEF Creates
  <1>. HIDE DEF new
  <1>5. CreatesTold'
    BY <1>1, <1>3, <1>4 DEF CreatesTold
  <1>6. CkptTold'
    BY <1>1, <1>2 DEF CkptTold
  <1>7. at \in Deciding /\ at' \in Deciding
    BY <1>1 DEF Deciding
  <1>8. tried' \in Nat /\ asked' \in BOOLEAN /\ latest' \in Seq(Nat)
        /\ creates' \subseteq Creates /\ ckpt' \in Checkpoints
    BY <1>1, <1>2, <1>4
  <1>. QED  BY <1>1, <1>5, <1>6, <1>7, <1>8, CallStep

\* What a call captures while its caller waits is the container at the step it names:
\* no command runs before the LLM has answered and the wait is over.
LEMMA CommitStep ==
    ASSUME StoryInv, NEW c \in creates, Commit(c)
    PROVE  StoryInv'
  <1>. DEFINE new == [c EXCEPT !.committed = TRUE, !.content = world]
  <1>1. /\ alive /\ creates' = (creates \ {c}) \union {new}
        /\ UNCHANGED <<setup, at, step, story, ckpt, tried, asked, attempt>>
        /\ UNCHANGED <<world, alive, life, faults, latest>>
    BY DEF Commit, clientVars
  <1>2. /\ tried \in Nat /\ asked \in BOOLEAN /\ latest \in Seq(Nat) /\ creates \subseteq Creates
        /\ ckpt \in Checkpoints /\ CkptTold /\ CreatesTold /\ world \in Seq(Nat)
    BY CallTypes
  <1>3. /\ c \in Creates
        /\ c.awaited => /\ at = "saving" /\ c.resume = step
                        /\ \A d \in creates : d.awaited => d = c
    BY CreateFields
  <1>4. /\ new \in Creates /\ new.resume = c.resume /\ new.content = world
        /\ new.awaited = c.awaited
    BY <1>2, <1>3 DEF Creates
  <1>. HIDE DEF new
  <1>5. at = "saving" => Tells(story, world, step, step)
    BY <1>1 DEF StoryInv, WorldTold, Deciding
  <1>6. CreatesTold'
    <2>1. \A d \in creates' : (d \in creates /\ d # c) \/ d = new
      BY <1>1
    <2>2. ASSUME NEW d \in creates', d.awaited
          PROVE  /\ at' = "saving" /\ d.resume = step'
                 /\ d.committed => Tells(story', d.content, step', step')
      <3>1. CASE d = new
        BY <1>1, <1>3, <1>4, <1>5, <2>2, <3>1
      <3>2. CASE d \in creates
        BY <1>1, <1>2, <2>2, <3>2 DEF CreatesTold
      <3>. QED  BY <2>1, <3>1, <3>2
    <2>3. ASSUME NEW d \in creates', NEW e \in creates', d.awaited, e.awaited PROVE d = e
      BY <1>2, <1>3, <1>4, <2>1, <2>3 DEF CreatesTold
    <2>. QED  BY <2>2, <2>3 DEF CreatesTold
  <1>7. CkptTold'
    BY <1>1, <1>2 DEF CkptTold
  <1>8. tried' \in Nat /\ asked' \in BOOLEAN /\ latest' \in Seq(Nat)
        /\ creates' \subseteq Creates /\ ckpt' \in Checkpoints
    BY <1>1, <1>2, <1>4
  <1>. QED  BY <1>1, <1>6, <1>7, <1>8, CallStep

\* A call that ends leaves no call awaited if it was.
LEMMA CallEnds ==
    ASSUME StoryInv, NEW c \in creates, creates' = creates \ {c}, Returns(c),
           UNCHANGED <<step, story>>
    PROVE  /\ CreatesTold' /\ creates' \subseteq Creates
           /\ at' = at \/ (at \in Deciding /\ at' \in Deciding)
           /\ at' = "rerun" => at = "rerun"
           /\ at' # "over" => at # "over"
  <1>1. /\ c.awaited => at = "saving" /\ \A d \in creates : d.awaited => d = c
        /\ creates \subseteq Creates
    BY CreateFields
  <1>2. at' = (IF c.awaited THEN "llm" ELSE at)
    BY DEF Returns
  <1>3. CreatesTold
    BY CallTypes
  <1>4. CASE c.awaited
    <2>1. \A d \in creates' : ~d.awaited
      BY <1>1, <1>4
    <2>. QED  BY <1>1, <1>2, <1>4, <2>1 DEF CreatesTold, Deciding
  <1>5. CASE ~c.awaited
    <2>1. at' = at
      BY <1>2, <1>5
    <2>2. CreatesTold'
      BY <1>3, <2>1 DEF CreatesTold
    <2>. QED  BY <1>1, <2>1, <2>2
  <1>. QED  BY <1>4, <1>5

\* A call that fails changes nothing but the wait for it.
LEMMA CreateFailsStep ==
    ASSUME StoryInv, NEW c \in creates, CreateFails(c)
    PROVE  StoryInv'
  <1>1. /\ creates' = creates \ {c} /\ Returns(c)
        /\ UNCHANGED <<setup, step, story, ckpt, tried, asked, attempt>>
        /\ UNCHANGED <<world, alive, life, faults, latest>>
    BY DEF CreateFails
  <1>2. /\ CreatesTold' /\ creates' \subseteq Creates
        /\ at' = at \/ (at \in Deciding /\ at' \in Deciding)
        /\ at' = "rerun" => at = "rerun"
        /\ at' # "over" => at # "over"
    BY <1>1, CallEnds
  <1>3. /\ tried \in Nat /\ asked \in BOOLEAN /\ latest \in Seq(Nat)
        /\ ckpt \in Checkpoints /\ CkptTold
    BY CallTypes
  <1>4. CkptTold'
    BY <1>1, <1>2, <1>3 DEF CkptTold
  <1>. QED  BY <1>1, <1>2, <1>3, <1>4, CallStep

\* A call that returns in time gives the rollout a checkpoint of the step the cursor is
\* at; one that returns late does not reach it (_attempt_rollout_checkpoint_create).
LEMMA CreateReadyStep ==
    ASSUME StoryInv, NEW c \in creates, CreateReady(c)
    PROVE  StoryInv'
  <1>. DEFINE new == [ready |-> TRUE, resume |-> c.resume, content |-> c.content]
  <1>1. /\ c.committed /\ creates' = creates \ {c} /\ Returns(c)
        /\ latest' = (IF c.life = life THEN c.content ELSE latest)
        /\ ckpt' = (IF c.awaited THEN new ELSE ckpt)
        /\ UNCHANGED <<setup, step, story, tried, asked, attempt, world, alive, life, faults>>
    BY DEF CreateReady
  <1>2. /\ CreatesTold' /\ creates' \subseteq Creates
        /\ at' = at \/ (at \in Deciding /\ at' \in Deciding)
        /\ at' = "rerun" => at = "rerun"
        /\ at' # "over" => at # "over"
    BY <1>1, CallEnds
  <1>3. /\ tried \in Nat /\ asked \in BOOLEAN /\ latest \in Seq(Nat)
        /\ ckpt \in Checkpoints /\ CkptTold /\ step \in Nat
    BY CallTypes
  <1>4. /\ c.resume \in Nat /\ c.content \in Seq(Nat)
        /\ c.awaited => at = "saving" /\ c.resume = step /\ Tells(story, c.content, step, step)
    BY <1>1, CreateFields
  <1>5. new \in Checkpoints /\ new.ready /\ new.resume = c.resume /\ new.content = c.content
    BY <1>4 DEF Checkpoints
  <1>. HIDE DEF new
  <1>6. CkptTold'
    <2>1. CASE c.awaited
      BY <1>1, <1>3, <1>4, <1>5, <2>1 DEF CkptTold
    <2>2. CASE ~c.awaited
      BY <1>1, <1>2, <1>3, <2>2 DEF CkptTold
    <2>. QED  BY <2>1, <2>2
  <1>7. ckpt' \in Checkpoints /\ latest' \in Seq(Nat) /\ tried' \in Nat /\ asked' \in BOOLEAN
    BY <1>1, <1>3, <1>4, <1>5
  <1>. QED  BY <1>1, <1>2, <1>6, <1>7, CallStep

\* A call given up goes on, and nothing it captures is used (_post_checkpoint_once).
LEMMA ClientGivesUpStep ==
    ASSUME StoryInv, NEW c \in creates, ClientGivesUp(c)
    PROVE  StoryInv'
  <1>. DEFINE new == [c EXCEPT !.awaited = FALSE]
  <1>1. /\ c.awaited /\ creates' = (creates \ {c}) \union {new} /\ at' = "llm"
        /\ UNCHANGED <<setup, step, story, ckpt, tried, asked, attempt>>
        /\ UNCHANGED <<world, alive, life, faults, latest>>
    BY DEF ClientGivesUp, Returns
  <1>2. /\ tried \in Nat /\ asked \in BOOLEAN /\ latest \in Seq(Nat) /\ creates \subseteq Creates
        /\ ckpt \in Checkpoints /\ CkptTold
    BY CallTypes
  <1>3. /\ c \in Creates /\ at = "saving" /\ \A d \in creates : d.awaited => d = c
    BY <1>1, CreateFields
  <1>4. new \in Creates /\ ~new.awaited
    BY <1>3 DEF Creates
  <1>. HIDE DEF new
  <1>5. CreatesTold'
    <2>1. \A d \in creates' : ~d.awaited
      BY <1>1, <1>3, <1>4
    <2>. QED  BY <2>1 DEF CreatesTold
  <1>6. CkptTold'
    BY <1>1, <1>2, <1>3 DEF CkptTold
  <1>7. at \in Deciding /\ at' \in Deciding
    BY <1>1, <1>3 DEF Deciding
  <1>8. tried' \in Nat /\ asked' \in BOOLEAN /\ latest' \in Seq(Nat)
        /\ creates' \subseteq Creates /\ ckpt' \in Checkpoints
    BY <1>1, <1>2, <1>4
  <1>. QED  BY <1>1, <1>5, <1>6, <1>7, <1>8, CallStep
-----------------------------------------------------------------------------
(***************************************************************************)
(* The steps of the command.                                               *)
(***************************************************************************)
\* What holds while a command or a recovery is awaited.
LEMMA AnsweringFacts ==
    ASSUME StoryInv, at \in Answering
    PROVE  /\ High \in Nat /\ AtMost(story, High + step + 1)
           /\ ckpt \in Checkpoints /\ ckpt.resume \in Nat /\ ckpt.content \in Seq(Nat)
           /\ ckpt.ready => /\ ckpt.resume <= step
                            /\ Tells(story, ckpt.content, ckpt.resume, ckpt.resume)
           /\ \A c \in creates : ~c.awaited
           /\ world \in Seq(Nat) /\ alive \in BOOLEAN /\ life \in Nat /\ faults \in Nat
           /\ tried \in Nat /\ latest \in Seq(Nat) /\ creates \subseteq Creates
           /\ asked \in BOOLEAN /\ attempt \in Nat /\ step \in Nat
  <1>1. TypeInv
    BY DEF StoryInv
  <1>2. /\ step \in Nat /\ faults \in Nat
        /\ ckpt \in Checkpoints /\ ckpt.resume \in Nat /\ ckpt.content \in Seq(Nat)
        /\ world \in Seq(Nat) /\ alive \in BOOLEAN /\ life \in Nat
        /\ tried \in Nat /\ latest \in Seq(Nat) /\ creates \subseteq Creates
        /\ asked \in BOOLEAN /\ attempt \in Nat
    BY <1>1 DEF TypeInv, Checkpoints
  <1>3. High \in Nat
    <2>1. \A f, g \in Nat : f * g \in Nat
      OBVIOUS
    <2>. QED  BY <1>2, <2>1, StepLimitAssumption DEF High
  <1>4. AtMost(story, High + step + 1)
    <2>1. CASE at = "exec"
      BY <2>1 DEF StoryInv, Numbered
    <2>2. CASE at # "exec"
      <3>1. AtMost(story, High)
        BY <2>2 DEF StoryInv, Numbered, Answering
      <3>2. \A i \in DOMAIN story.assistant_texts : story.assistant_texts[i] \in Nat
        BY <1>1, StoryFields DEF TypeInv
      <3>3. \A x \in Nat : x <= High => x <= High + step + 1
        BY <1>2, <1>3
      <3>. QED  BY <3>1, <3>2, <3>3 DEF AtMost
    <2>. QED  BY <2>1, <2>2
  <1>5. ckpt.ready => /\ ckpt.resume <= step
                      /\ Tells(story, ckpt.content, ckpt.resume, ckpt.resume)
    BY DEF StoryInv, CkptTold, Answering
  <1>6. at # "saving"
    BY DEF Answering
  <1>7. \A c \in creates : ~c.awaited
    BY <1>6, NoneAwaited
  <1>. QED  BY <1>2, <1>3, <1>4, <1>5, <1>7

\* A greater bound.
LEMMA AtMostMore ==
    ASSUME NEW s \in Stories, NEW m \in Nat, NEW n \in Nat, m <= n, AtMost(s, m)
    PROVE  AtMost(s, n)
  <1>1. \A i \in DOMAIN s.assistant_texts : s.assistant_texts[i] \in Nat
    BY StoryFields
  <1>2. \A x \in Nat : x <= m => x <= n
    OBVIOUS
  <1>. QED  BY <1>1, <1>2 DEF AtMost

\* Sums that the steps below compare.
LEMMA PlusStep ==
    ASSUME NEW a \in Nat, NEW b \in Nat, NEW n \in Nat, a <= b
    PROVE  /\ a + n + 1 \in Nat /\ b + n + 1 \in Nat /\ b + (n + 1) \in Nat
           /\ a + n + 1 <= b + n + 1 /\ a + n + 1 <= b + (n + 1)
  OBVIOUS

\* A step that ran a command ends, with a result or without.
LEMMA ExecDone ==
    ASSUME StoryInv, at = "exec", NEW ok \in BOOLEAN,
           story' = Observed(Recorded(story, Command, ok), Command), GoOn(step + 1),
           UNCHANGED <<setup, ckpt, tried, life, creates, latest>>,
           world' \in Seq(Nat), alive' \in BOOLEAN, faults' \in {faults, faults + 1},
           alive' => /\ Tells(story, world', step, step + 1)
                     /\ ok => \E j \in DOMAIN world' : world'[j] = Command
    PROVE  StoryInv'
  <1>. DEFINE c == Command
              t == Recorded(story, c, ok)
              u == Observed(t, c)
  <1>1. at \in Answering
    BY DEF Answering
  <1>2. /\ c \in Nat /\ c = story.assistant_texts[step + 1]
        /\ story \in Stories /\ step \in Nat /\ Answered(story, step)
    BY <1>1, CommandIs
  <1>3. /\ High \in Nat /\ AtMost(story, High + step + 1)
        /\ ckpt \in Checkpoints /\ ckpt.resume \in Nat
        /\ ckpt.ready => /\ ckpt.resume <= step
                         /\ Tells(story, ckpt.content, ckpt.resume, ckpt.resume)
        /\ \A d \in creates : ~d.awaited
        /\ life \in Nat /\ faults \in Nat /\ tried \in Nat /\ latest \in Seq(Nat)
    BY <1>1, AnsweringFacts
  <1>4. /\ t \in Stories /\ t.assistant_texts = story.assistant_texts
    <2>1. story \in Stories /\ step \in Nat /\ Command \in Nat
      BY <1>2
    <2>. QED  BY <2>1, RecordedFields
  <1>5. Pending(t, step) /\ EntriesTold(t, step + 1)
    BY <1>2, RecordedTold
  <1>6. /\ \A k \in Nat : k <= step /\ Tells(story, ckpt.content, k, k)
                => Tells(t, ckpt.content, k, k)
        /\ alive' => Tells(t, world', step + 1, step + 1)
    <2>1. \A w, k : k \in Nat /\ k <= step /\ Tells(story, w, k, k) => Tells(t, w, k, k)
      BY <1>1, EntryAdded
    <2>2. \A w : Tells(story, w, step, step + 1) /\ (ok => \E j \in DOMAIN w : w[j] = c)
                    => Tells(t, w, step + 1, step + 1)
      BY <1>1, EntryAdded
    <2>3. alive' => Tells(t, world', step + 1, step + 1)
      BY <2>2
    <2>. QED  BY <2>1, <2>3
  <1>7. /\ TextsTold(u, step + 1)
        /\ Len(u.messages) = 2 * (step + 1) /\ Len(u.assistant_texts) = step + 1
        /\ Len(u.managed_contexts) = step + 1
    BY <1>2, <1>4, <1>5, ObservedTexts
  <1>8. u \in Stories /\ EntriesTold(u, step + 1)
    BY <1>2, <1>4, <1>5, ObservedAgree
  <1>9. Between(u, step + 1)
    BY <1>7, <1>8 DEF Between
  <1>10. alive' => Tells(u, world', step + 1, step + 1)
    BY <1>2, <1>4, <1>6, ObservedAgree
  <1>11. ckpt.ready => Tells(u, ckpt.content, ckpt.resume, ckpt.resume)
    BY <1>2, <1>3, <1>4, <1>6, ObservedAgree
  <1>12. AtMost(u, High + step + 1)
    <2>1. AtMost(t, High + step + 1)
      BY <1>3, <1>4 DEF AtMost
    <2>. QED  BY <1>2, <1>4, <2>1, ObservedAgree
  <1>. HIDE DEF c, t, u
  <1>13. story' = u
    BY DEF c, t, u
  <1>14. High' \in Nat /\ High <= High' /\ faults' \in Nat
    BY <1>3, HighGrows
  <1>15. AtMost(u, High' + (step + 1))
    <2>1. High + step + 1 \in Nat /\ High' + (step + 1) \in Nat
          /\ High + step + 1 <= High' + (step + 1)
      BY <1>2, <1>3, <1>14, PlusStep
    <2>. QED  BY <1>8, <1>12, <2>1, AtMostMore
  <1>16. ckpt'.ready => ckpt'.resume <= step + 1
                          /\ Tells(u, ckpt'.content, ckpt'.resume, ckpt'.resume)
    BY <1>2, <1>3, <1>11
  <1>17. step + 1 \in Nat
    BY <1>2
  <1>. QED  BY <1>3, <1>8, <1>9, <1>10, <1>13, <1>14, <1>15, <1>16, <1>17, Arrives

\* The last command is told in step_debug and not in the messages.
LEMMA SubmitDone ==
    ASSUME StoryInv, at = "exec", NEW ok \in BOOLEAN,
           story' = Submitted(story, Command, ok), Ends,
           UNCHANGED <<setup, ckpt, tried, life, creates, latest>>,
           world' \in Seq(Nat), alive' \in BOOLEAN, faults' \in {faults, faults + 1},
           alive' => /\ Tells(story, world', step, step + 1)
                     /\ ok => \E j \in DOMAIN world' : world'[j] = Command
    PROVE  StoryInv'
  <1>. DEFINE t == Recorded(story, Command, ok)
              u == Submitted(story, Command, ok)
  <1>1. at' = "over" /\ UNCHANGED <<step, asked, attempt>>
    BY DEF Ends
  <1>2. at \in Answering
    BY DEF Answering
  <1>3. /\ Command \in Nat /\ Command = story.assistant_texts[step + 1]
        /\ story \in Stories /\ step \in Nat /\ Answered(story, step)
        /\ Len(story.assistant_texts) = step + 1
    BY <1>2, CommandIs
  <1>4. /\ t \in Stories /\ t.assistant_texts = story.assistant_texts
    <2>1. story \in Stories /\ step \in Nat /\ Command \in Nat
      BY <1>3
    <2>. QED  BY <2>1, RecordedFields
  <1>5. EntriesTold(t, step + 1)
    BY <1>3, RecordedTold
  <1>6. /\ u \in Stories /\ u.assistant_texts = t.assistant_texts /\ u.step_debug = t.step_debug
    <2>1. story.prm \in Seq(Entries)
      BY <1>3, StoryFields
    <2>2. u = [t EXCEPT !.prm = story.prm]
      BY DEF Submitted
    <2>. HIDE DEF t, u
    <2>. QED  BY <1>4, <2>1, <2>2 DEF Stories
  <1>7. \A i \in DOMAIN u.step_debug :
           u.step_debug[i].step_idx \in Nat /\ u.step_debug[i].step_idx < step + 1
    BY <1>4, <1>5, <1>6, StoryFields DEF EntriesTold
  <1>8. /\ \A d \in creates : ~d.awaited
        /\ faults \in Nat
    BY <1>2, AnsweringFacts
  <1>9. faults' \in Nat
    BY <1>8
  <1>10. alive' => Tells(u, world', step + 1, step + 1)
    <2>1. \A w : Tells(story, w, step, step + 1) /\ (ok => \E j \in DOMAIN w : w[j] = Command)
                    => Tells(t, w, step + 1, step + 1)
      BY <1>2, EntryAdded
    <2>2. alive' => Tells(t, world', step + 1, step + 1)
      BY <2>1
    <2>. HIDE DEF t, u
    <2>. QED  BY <1>6, <2>2 DEF Tells
  <1>. HIDE DEF t
  <1>11. story' = u
    OBVIOUS
  <1>. HIDE DEF u
  <1>12. TypeInv'
    BY <1>1, <1>6, <1>9, <1>11 DEF StoryInv, TypeInv
  <1>13. ListsInv'
    <2>1. \A i \in DOMAIN u.step_debug : u.step_debug[i].step_idx <= step
      BY <1>3, <1>7
    <2>. QED  BY <1>1, <1>11, <2>1 DEF ListsInv, Deciding, Answering
  <1>14. Numbered'
    BY <1>1 DEF Numbered, Deciding
  <1>15. WorldTold'
    BY <1>1, <1>3, <1>4, <1>6, <1>10, <1>11 DEF WorldTold, Deciding
  <1>16. CkptTold' /\ CreatesTold'
    BY <1>1, <1>8 DEF CkptTold, CreatesTold
  <1>. QED  BY <1>12, <1>13, <1>14, <1>15, <1>16 DEF StoryInv

\* What a call without an answer may have done.
LEMMA UnansweredTold ==
    ASSUME StoryInv, at = "exec", Unanswered
    PROVE  /\ world' \in Seq(Nat) /\ alive' \in BOOLEAN /\ faults' \in {faults, faults + 1}
           /\ alive' => Tells(story, world', step, step + 1)
  <1>1. world \in Seq(Nat) /\ alive \in BOOLEAN
    BY DEF StoryInv, TypeInv
  <1>2. CASE UNCHANGED <<world, alive, faults>>
    BY <1>1, <1>2 DEF StoryInv, WorldTold
  <1>3. CASE Runs /\ UNCHANGED <<alive, faults>>
    <2>1. CASE alive
      BY <1>1, <1>3, <2>1, RunTold
    <2>2. CASE ~alive
      BY <1>1, <1>3, <2>2 DEF Runs
    <2>. QED  BY <1>1, <2>1, <2>2
  <1>4. CASE alive' = FALSE /\ faults' = faults + 1 /\ UNCHANGED world
    BY <1>1, <1>4
  <1>. QED  BY <1>2, <1>3, <1>4 DEF Unanswered

\* A command with a result has run in the container, if that is there.
LEMMA ExecAnsweredStep ==
    ASSUME StoryInv, ExecAnswered
    PROVE  StoryInv'
  <1>1. /\ at = "exec" /\ Runs /\ story' = Observed(Recorded(story, Command, TRUE), Command)
        /\ GoOn(step + 1)
        /\ UNCHANGED <<setup, ckpt, tried, alive, life, faults, creates, latest>>
    BY DEF ExecAnswered
  <1>2. world \in Seq(Nat) /\ alive \in BOOLEAN
    BY DEF StoryInv, TypeInv
  <1>3. CASE alive
    <2>1. /\ world' \in Seq(Nat) /\ Tells(story, world', step, step + 1)
          /\ \E j \in DOMAIN world' : world'[j] = Command
      BY <1>1, <1>3, RunTold
    <2>. QED  BY <1>1, <1>2, <2>1, ExecDone
  <1>4. CASE ~alive
    <2>1. world' \in Seq(Nat) /\ ~alive' /\ alive' \in BOOLEAN
      BY <1>1, <1>2, <1>4 DEF Runs
    <2>. QED  BY <1>1, <2>1, ExecDone
  <1>. QED  BY <1>3, <1>4

\* The same for the command that ends the loop.
LEMMA SubmitsStep ==
    ASSUME StoryInv, Submits
    PROVE  StoryInv'
  <1>1. /\ at = "exec" /\ Runs /\ story' = Submitted(story, Command, TRUE) /\ Ends
        /\ UNCHANGED <<setup, ckpt, tried, alive, life, faults, creates, latest>>
    BY DEF Submits
  <1>2. world \in Seq(Nat) /\ alive \in BOOLEAN
    BY DEF StoryInv, TypeInv
  <1>3. CASE alive
    <2>1. /\ world' \in Seq(Nat) /\ Tells(story, world', step, step + 1)
          /\ \E j \in DOMAIN world' : world'[j] = Command
      BY <1>1, <1>3, RunTold
    <2>. QED  BY <1>1, <1>2, <2>1, SubmitDone
  <1>4. CASE ~alive
    <2>1. world' \in Seq(Nat) /\ ~alive' /\ alive' \in BOOLEAN
      BY <1>1, <1>2, <1>4 DEF Runs
    <2>. QED  BY <1>1, <2>1, SubmitDone
  <1>. QED  BY <1>3, <1>4

\* A command without a result is told as failed, whatever it did; a submission ends the
\* loop all the same.
LEMMA ExecRaisesStep ==
    ASSUME StoryInv, ExecRaises
    PROVE  StoryInv'
  <1>1. /\ at = "exec" /\ Unanswered /\ FailedStep(story)
        /\ UNCHANGED <<setup, ckpt, tried, life, creates, latest>>
    BY DEF ExecRaises
  <1>2. /\ world' \in Seq(Nat) /\ alive' \in BOOLEAN /\ faults' \in {faults, faults + 1}
        /\ alive' => Tells(story, world', step, step + 1)
    BY <1>1, UnansweredTold
  <1>3. CASE story' = Observed(Recorded(story, Command, FALSE), Command) /\ GoOn(step + 1)
    BY <1>1, <1>2, <1>3, ExecDone
  <1>4. CASE story' = Submitted(story, Command, FALSE) /\ Ends
    BY <1>1, <1>2, <1>4, SubmitDone
  <1>. QED  BY <1>1, <1>3, <1>4 DEF FailedStep

\* A command sent again may have run before (_post_with_retry): it then runs twice in a
\* row, which the transcript allows.
LEMMA ExecRetriedStep ==
    ASSUME StoryInv, ExecRetried
    PROVE  StoryInv'
  <1>1. /\ at = "exec" /\ Unanswered /\ attempt' = attempt + 1
        /\ UNCHANGED <<setup, at, step, story, ckpt, tried, asked, life, creates, latest>>
    BY DEF ExecRetried
  <1>2. /\ world' \in Seq(Nat) /\ alive' \in BOOLEAN /\ faults' \in {faults, faults + 1}
        /\ alive' => Tells(story, world', step, step + 1)
    BY <1>1, UnansweredTold
  <1>3. at \in Answering
    BY <1>1 DEF Answering
  <1>4. /\ High \in Nat /\ AtMost(story, High + step + 1) /\ faults \in Nat /\ step \in Nat
        /\ attempt \in Nat
    BY <1>3, AnsweringFacts
  <1>5. story \in Stories
    BY <1>3, CommandIs
  <1>6. High' \in Nat /\ High <= High' /\ faults' \in Nat
    BY <1>2, <1>4, HighGrows
  <1>7. attempt' \in Nat
    BY <1>1, <1>4
  <1>8. TypeInv'
    BY <1>1, <1>2, <1>6, <1>7 DEF StoryInv, TypeInv
  <1>9. ListsInv'
    BY <1>1 DEF StoryInv, ListsInv, Deciding
  <1>10. Numbered'
    <2>1. AtMost(story, High' + step + 1)
      <3>1. High + step + 1 \in Nat /\ High' + step + 1 \in Nat
            /\ High + step + 1 <= High' + step + 1
        BY <1>4, <1>6, PlusStep
      <3>. QED  BY <1>4, <1>5, <3>1, AtMostMore
    <2>2. Command' = Command /\ AtMost(story, Command)
      BY <1>1 DEF Command, StoryInv, Numbered
    <2>. QED  BY <1>1, <2>1, <2>2 DEF Numbered, Deciding
  <1>11. WorldTold'
    BY <1>1, <1>2 DEF WorldTold, Deciding
  <1>12. CkptTold' /\ CreatesTold'
    BY <1>1 DEF StoryInv, CkptTold, CreatesTold
  <1>. QED  BY <1>8, <1>9, <1>10, <1>11, <1>12 DEF StoryInv

-----------------------------------------------------------------------------
(***************************************************************************)
(* The fault and the recovery.                                             *)
(***************************************************************************)
\* An injected fault leaves the lists as they are and the container gone.
LEMMA FaultInjectedStep ==
    ASSUME StoryInv, FaultInjected
    PROVE  StoryInv'
  <1>1. /\ at = "exec" /\ alive' = FALSE /\ faults' = faults + 1
        /\ at' = (IF ckpt.ready THEN "rerun" ELSE "restart")
        /\ UNCHANGED <<setup, step, story, ckpt, tried, asked, attempt,
                       world, life, creates, latest>>
    BY DEF FaultInjected
  <1>2. at \in Answering /\ at' \in {"rerun", "restart"} /\ at' \in Answering /\ at' \notin Deciding
        /\ at # "over"
    BY <1>1 DEF Answering, Deciding
  <1>3. /\ High \in Nat /\ AtMost(story, High + step + 1) /\ faults \in Nat
        /\ \A c \in creates : ~c.awaited
        /\ ckpt.ready => /\ ckpt.resume <= step
                         /\ Tells(story, ckpt.content, ckpt.resume, ckpt.resume)
    BY <1>2, AnsweringFacts
  <1>4. story \in Stories /\ step \in Nat /\ step < StepLimit /\ Answered(story, step)
    BY <1>2, CommandIs
  <1>5. High' \in Nat /\ High' = High + StepLimit /\ faults' \in Nat
    BY <1>1, <1>3, HighGrows
  <1>6. AtMost(story, High')
    <2>1. \A a, b, n \in Nat : n < b => a + n + 1 \in Nat /\ a + n + 1 <= a + b
      OBVIOUS
    <2>2. High + step + 1 \in Nat /\ High + step + 1 <= High'
      BY <1>3, <1>4, <1>5, <2>1, StepLimitAssumption
    <2>. QED  BY <1>3, <1>4, <1>5, <2>2, AtMostMore
  <1>7. TypeInv'
    BY <1>1, <1>2, <1>4, <1>5 DEF StoryInv, TypeInv
  <1>8. ListsInv'
    BY <1>1, <1>2, <1>4 DEF ListsInv
  <1>9. Numbered'
    BY <1>1, <1>2, <1>6 DEF Numbered
  <1>10. WorldTold'
    BY <1>1 DEF WorldTold
  <1>11. CkptTold' /\ CreatesTold'
    BY <1>1, <1>2, <1>3 DEF CkptTold, CreatesTold
  <1>. QED  BY <1>7, <1>8, <1>9, <1>10, <1>11 DEF StoryInv

\* A rerun that fails, or whose answer is lost after the container was restored, leaves
\* the lists for the restart from the base image to trim.
LEMMA RerunFailsStep ==
    ASSUME StoryInv, RerunFails
    PROVE  StoryInv'
  <1>1. /\ at = "rerun" /\ at' = "restart"
        /\ UNCHANGED <<world, alive, life>> \/ Restored(ckpt.content)
        /\ UNCHANGED <<setup, step, story, ckpt, tried, asked, attempt, faults, creates, latest>>
    BY DEF RerunFails
  <1>2. at \in Answering /\ at' \in Answering /\ at' \notin Deciding /\ at # "over"
    BY <1>1 DEF Answering, Deciding
  <1>3. /\ world \in Seq(Nat) /\ alive \in BOOLEAN /\ life \in Nat /\ ckpt.content \in Seq(Nat)
        /\ \A c \in creates : ~c.awaited
        /\ ckpt.ready => /\ ckpt.resume <= step
                         /\ Tells(story, ckpt.content, ckpt.resume, ckpt.resume)
    BY <1>2, AnsweringFacts
  <1>4. story \in Stories /\ step \in Nat /\ step < StepLimit /\ Answered(story, step)
    BY <1>2, CommandIs
  <1>5. world' \in Seq(Nat) /\ alive' \in BOOLEAN /\ life' \in Nat
    <2>1. CASE UNCHANGED <<world, alive, life>>
      BY <1>3, <2>1
    <2>2. CASE Restored(ckpt.content)
      BY <1>3, <2>2 DEF Restored
    <2>. QED  BY <1>1, <2>1, <2>2
  <1>6. TypeInv'
    BY <1>1, <1>2, <1>4, <1>5 DEF StoryInv, TypeInv
  <1>7. ListsInv'
    BY <1>1, <1>2, <1>4 DEF ListsInv
  <1>8. Numbered'
    <2>1. High' = High
      BY <1>1 DEF High
    <2>. QED  BY <1>1, <1>2, <2>1 DEF StoryInv, Numbered
  <1>9. WorldTold'
    BY <1>1, <1>2 DEF WorldTold
  <1>10. CkptTold' /\ CreatesTold'
    BY <1>1, <1>2, <1>3 DEF CkptTold, CreatesTold
  <1>. QED  BY <1>6, <1>7, <1>8, <1>9, <1>10 DEF StoryInv

\* What the rewind to step n leaves to the loop.
LEMMA ResumeTold ==
    ASSUME StoryInv, at \in {"rerun", "restart"}, NEW n \in Nat, n <= step
    PROVE  LET s == Rewound(story, n) IN
           /\ s \in Stories /\ Between(s, n) /\ AtMost(s, High + n)
           /\ \A w : Tells(story, w, n, n) => Tells(s, w, n, n)
  <1>. DEFINE s == Rewound(story, n)
  <1>1. at \in Answering
    BY DEF Answering
  <1>2. story \in Stories /\ step \in Nat /\ Answered(story, step)
        /\ Len(story.assistant_texts) = step + 1
    BY <1>1, CommandIs
  <1>3. High \in Nat
    BY <1>1, AnsweringFacts
  <1>4. /\ s \in Stories /\ Between(s, n) /\ Agree(s.assistant_texts, story.assistant_texts, n)
        /\ \A i \in DOMAIN s.step_debug :
              i \in DOMAIN story.step_debug /\ s.step_debug[i] = story.step_debug[i]
    BY <1>2, RewoundTold
  <1>. HIDE DEF s
  <1>5. AtMost(s, High)
    <2>1. AtMost(story, High)
      BY DEF StoryInv, Numbered
    <2>2. DOMAIN s.assistant_texts = 1..n /\ DOMAIN story.assistant_texts = 1..(step + 1)
      BY <1>2, <1>4, StoryFields DEF Between
    <2>3. \A i \in 1..n : i \in 1..(step + 1)
      BY <1>2
    <2>. QED  BY <1>4, <2>1, <2>2, <2>3 DEF AtMost, Agree
  <1>6. AtMost(s, High + n)
    <2>1. High + n \in Nat /\ High <= High + n
      BY <1>3
    <2>. QED  BY <1>3, <1>4, <1>5, <2>1, AtMostMore
  <1>7. ASSUME NEW w, Tells(story, w, n, n) PROVE Tells(s, w, n, n)
    <2>1. \A i \in DOMAIN s.step_debug :
             s.step_debug[i].ok /\ s.step_debug[i].step_idx < n =>
                \E j \in DOMAIN story.step_debug :
                   s.step_debug[i] = story.step_debug[j] /\ story.step_debug[j].step_idx < n
      BY <1>4
    <2>. QED  BY <1>4, <1>7, <2>1, TellsAgree
  <1>. QED  BY <1>4, <1>6, <1>7 DEF s

\* A rerun that is answered trims the lists to the step that the restored checkpoint was
\* captured at (_recover_from_injected_fault).
LEMMA RerunStep ==
    ASSUME StoryInv, Rerun, ~setup.recoveryRaises
    PROVE  StoryInv'
  <1>. DEFINE n == ckpt.resume
              s == Rewound(story, n)
  <1>1. /\ at = "rerun" /\ world' = ckpt.content /\ alive' = TRUE /\ life' = life + 1
        /\ tried' = n /\ story' = s /\ GoOn(n)
        /\ UNCHANGED <<setup, ckpt, faults, creates, latest>>
    BY DEF Rerun, ResumeAt, Restored
  <1>2. at \in Answering
    BY <1>1 DEF Answering
  <1>3. /\ ckpt \in Checkpoints /\ n \in Nat /\ ckpt.content \in Seq(Nat)
        /\ ckpt.ready => n <= step /\ Tells(story, ckpt.content, n, n)
        /\ \A c \in creates : ~c.awaited
        /\ life \in Nat /\ faults \in Nat /\ latest \in Seq(Nat)
    BY <1>2, AnsweringFacts
  <1>4. ckpt.ready
    BY <1>1 DEF StoryInv, CkptTold
  <1>5. /\ s \in Stories /\ Between(s, n) /\ AtMost(s, High + n)
        /\ \A w : Tells(story, w, n, n) => Tells(s, w, n, n)
    BY <1>1, <1>3, <1>4, ResumeTold
  <1>6. Tells(s, ckpt.content, n, n)
    BY <1>3, <1>4, <1>5
  <1>7. High' = High
    BY <1>1 DEF High
  <1>. HIDE DEF s
  <1>8. ckpt'.ready => ckpt'.resume <= n /\ Tells(s, ckpt'.content, ckpt'.resume, ckpt'.resume)
    BY <1>1, <1>3, <1>6
  <1>9. /\ world' \in Seq(Nat) /\ alive' \in BOOLEAN /\ life' \in Nat /\ faults' \in Nat
        /\ tried' \in Nat /\ latest' \in Seq(Nat) /\ ckpt' \in Checkpoints
        /\ Tells(s, world', n, n)
    BY <1>1, <1>3, <1>6
  <1>10. AtMost(s, High' + n)
    BY <1>5, <1>7
  <1>. QED  BY <1>1, <1>3, <1>5, <1>8, <1>9, <1>10, Arrives

\* A restart from the base image leaves empty lists and an empty container.
LEMMA RestartStep ==
    ASSUME StoryInv, Restart, ~setup.recoveryRaises
    PROVE  StoryInv'
  <1>. DEFINE s == Rewound(story, 0)
  <1>1. /\ at = "restart" /\ world' = <<>> /\ alive' = TRUE /\ life' = life + 1 /\ latest' = <<>>
        /\ ckpt' = NoCheckpoint /\ tried' = 0 /\ story' = s /\ GoOn(0)
        /\ UNCHANGED <<setup, faults, creates>>
    BY DEF Restart, ResumeAt
  <1>2. at \in Answering
    BY <1>1 DEF Answering
  <1>3. \A c \in creates : ~c.awaited
    BY <1>2, AnsweringFacts
  <1>4. life \in Nat /\ faults \in Nat /\ step \in Nat /\ 0 <= step /\ 0 \in Nat
    BY <1>2, AnsweringFacts
  <1>5. s \in Stories /\ Between(s, 0) /\ AtMost(s, High + 0)
    BY <1>1, <1>4, ResumeTold
  <1>6. High' = High
    BY <1>1 DEF High
  <1>. HIDE DEF s
  <1>7. <<>> \in Seq(Nat) /\ DOMAIN <<>> = {} /\ NoCheckpoint \in Checkpoints
        /\ ~NoCheckpoint.ready
    BY DEF NoCheckpoint, Checkpoints
  <1>8. \A i \in DOMAIN s.step_debug : ~(s.step_debug[i].step_idx < 0)
    <2>1. \A i \in DOMAIN s.step_debug : s.step_debug[i].step_idx \in Nat
      BY <1>5, StoryFields
    <2>2. \A x \in Nat : ~(x < 0)
      OBVIOUS
    <2>. QED  BY <2>1, <2>2
  <1>9. Tells(s, <<>>, 0, 0)
    BY <1>7, <1>8 DEF Tells, Sorted
  <1>10. /\ world' \in Seq(Nat) /\ alive' \in BOOLEAN /\ life' \in Nat /\ faults' \in Nat
         /\ tried' \in Nat /\ latest' \in Seq(Nat) /\ ckpt' \in Checkpoints /\ ~ckpt'.ready
         /\ Tells(s, world', 0, 0)
    BY <1>1, <1>4, <1>7, <1>9
  <1>11. AtMost(s, High' + 0)
    BY <1>5, <1>6
  <1>. QED  BY <1>1, <1>3, <1>4, <1>5, <1>10, <1>11, Arrives
-----------------------------------------------------------------------------
(***************************************************************************)
(* The theorem.                                                            *)
(***************************************************************************)
\* The trajectory starts with empty lists and an empty container.
LEMMA InitRewind == Init => RewindInv
  <1>1. SUFFICES ASSUME Init PROVE RewindInv
    OBVIOUS
  <1>2. /\ setup \in Setups
        /\ at = (IF 0 < StepLimit THEN "llm" ELSE "over") /\ step = 0 /\ story = NoStory
        /\ ckpt = NoCheckpoint /\ tried = 0 /\ asked = FALSE /\ attempt = 1
        /\ world = <<>> /\ alive = TRUE /\ life = 1 /\ faults = 0
        /\ creates = {} /\ latest = <<>>
    BY <1>1 DEF Init
  <1>3. at \in {"llm", "over"} /\ (at # "over" => step < StepLimit)
    BY <1>2
  <1>4. /\ NoStory \in Stories /\ NoCheckpoint \in Checkpoints /\ ~NoCheckpoint.ready
        /\ NoStory.messages = <<>> /\ NoStory.step_debug = <<>> /\ NoStory.prm = <<>>
        /\ NoStory.managed_contexts = <<>> /\ NoStory.assistant_texts = <<>>
    BY DEF NoStory, NoCheckpoint, Stories, Checkpoints
  <1>5. <<>> \in Seq(Nat) /\ Len(<<>>) = 0 /\ DOMAIN <<>> = {}
    OBVIOUS
  <1>6. \A i \in 1..0 : FALSE
    OBVIOUS
  <1>7. TypeInv
    BY <1>2, <1>3, <1>4, <1>5 DEF TypeInv, Deciding
  <1>8. Between(story, 0)
    BY <1>2, <1>4, <1>5, <1>6 DEF Between, TextsTold, EntriesTold, Sequential
  <1>9. ListsInv
    BY <1>2, <1>3, <1>4, <1>5, <1>8 DEF ListsInv, Answering
  <1>10. Numbered
    BY <1>2, <1>3, <1>4, <1>5 DEF Numbered, AtMost
  <1>11. \A k, m : Tells(story, world, k, m)
    BY <1>2, <1>4, <1>5 DEF Tells, Sorted
  <1>12. WorldTold
    BY <1>3, <1>11 DEF WorldTold
  <1>13. CkptTold /\ CreatesTold
    BY <1>2, <1>3, <1>4 DEF CkptTold, CreatesTold
  <1>. QED  BY <1>2, <1>7, <1>9, <1>10, <1>12, <1>13 DEF RewindInv, StoryInv

\* A step of nobody.
LEMMA StutterStep ==
    ASSUME StoryInv, UNCHANGED vars
    PROVE  StoryInv'
  <1>1. /\ UNCHANGED <<setup, at, step, story, ckpt, tried, asked, attempt>>
        /\ UNCHANGED <<world, alive, life, faults, creates, latest>>
    BY DEF vars, clientVars, nodeVars
  <1>2. CkptTold' /\ CreatesTold'
    BY <1>1 DEF StoryInv, CkptTold, CreatesTold
  <1>3. /\ tried' \in Nat /\ asked' \in BOOLEAN /\ latest' \in Seq(Nat)
        /\ creates' \subseteq Creates /\ ckpt' \in Checkpoints
    BY <1>1, CallTypes
  <1>. QED  BY <1>1, <1>2, <1>3, CallStep

\* Every step of the loop, of a checkpoint call and of a recovery keeps the invariant.
LEMMA NextRewind == RewindInv /\ [Next]_vars => RewindInv'
  <1>1. SUFFICES ASSUME RewindInv, [Next]_vars PROVE RewindInv'
    OBVIOUS
  <1>2. setup' = setup
    BY <1>1 DEF Next, Progress, Answers, AnswersIdly, AnswerFails, Submits, ExecAnswered,
                ExecRetried, ExecRaises, FaultInjected, Rerun, RerunFails, Restart, RestartRaises,
                CreateFails, CreateReady, Ask, Commit, ClientGivesUp, clientVars, vars
  <1>3. setup' \in Setups
    BY <1>1, <1>2 DEF RewindInv
  <1>4. SUFFICES ASSUME ~setup.recoveryRaises PROVE StoryInv'
    BY <1>2, <1>3 DEF RewindInv
  <1>5. StoryInv
    BY <1>1, <1>4 DEF RewindInv
  <1>6. CASE Answers
    BY <1>5, <1>6, AnswersStep
  <1>7. CASE AnswersIdly
    BY <1>5, <1>7, AnswersIdlyStep
  <1>8. CASE AnswerFails
    BY <1>5, <1>8, AnswerFailsStep
  <1>9. CASE Submits
    BY <1>5, <1>9, SubmitsStep
  <1>10. CASE ExecAnswered
    BY <1>5, <1>10, ExecAnsweredStep
  <1>11. CASE ExecRetried
    BY <1>5, <1>11, ExecRetriedStep
  <1>12. CASE ExecRaises
    BY <1>5, <1>12, ExecRaisesStep
  <1>13. CASE FaultInjected
    BY <1>5, <1>13, FaultInjectedStep
  <1>14. CASE Rerun
    BY <1>4, <1>5, <1>14, RerunStep
  <1>15. CASE RerunFails
    BY <1>5, <1>15, RerunFailsStep
  <1>16. CASE Restart
    BY <1>4, <1>5, <1>16, RestartStep
  <1>17. ~RestartRaises
    BY <1>4 DEF RestartRaises
  <1>18. ASSUME NEW c \in creates, CreateFails(c) PROVE StoryInv'
    BY <1>5, <1>18, CreateFailsStep
  <1>19. ASSUME NEW c \in creates, CreateReady(c) PROVE StoryInv'
    BY <1>5, <1>19, CreateReadyStep
  <1>20. CASE Ask
    BY <1>5, <1>20, AskStep
  <1>21. ASSUME NEW c \in creates, Commit(c) PROVE StoryInv'
    BY <1>5, <1>21, CommitStep
  <1>22. ASSUME NEW c \in creates, ClientGivesUp(c) PROVE StoryInv'
    BY <1>5, <1>22, ClientGivesUpStep
  <1>23. CASE UNCHANGED vars
    BY <1>5, <1>23, StutterStep
  <1>24. CASE Progress
    BY <1>6, <1>7, <1>8, <1>9, <1>10, <1>11, <1>12, <1>13, <1>14, <1>15, <1>16, <1>17, <1>18,
       <1>19, <1>24 DEF Progress
  <1>. QED  BY <1>1, <1>20, <1>21, <1>22, <1>23, <1>24 DEF Next

\* In every setting without an exception at the end of a recovery, for every step limit
\* and every number of faults and attempts, the invariant holds throughout.
THEOREM RewindInvAlways == Spec => []RewindInv
  <1>1. Init => RewindInv
    BY InitRewind
  <1>2. RewindInv /\ [Next]_vars => RewindInv'
    BY NextRewind
  <1>. QED  BY <1>1, <1>2, PTL DEF Spec

\* Between two steps the lists are as ListsRewound says.
LEMMA BetweenIsRewound ==
    ASSUME StoryInv
    PROVE  ListsRewound
  <1>1. SUFFICES ASSUME at \in {"llm", "saving"} PROVE ListsRewound
    BY DEF ListsRewound
  <1>2. Between(story, step)
    BY <1>1 DEF StoryInv, ListsInv, Deciding
  <1>. QED  BY <1>2 DEF ListsRewound, Between, TextsTold, EntriesTold, Sequential

\* The invariant gives the property, wherever the loop is.
LEMMA WorldFromStory ==
    ASSUME StoryInv
    PROVE  WorldMatches
  <1>1. ListsRewound
    BY BetweenIsRewound
  <1>2. SUFFICES ASSUME alive, at \notin {"rerun", "restart"}
                 PROVE  /\ \A i, j \in DOMAIN world : i < j => world[i] <= world[j]
                        /\ \A i \in DOMAIN world : Contains(story.assistant_texts, world[i])
                        /\ \A i \in DOMAIN story.step_debug :
                              story.step_debug[i].ok => Contains(world, story.step_debug[i].command)
    BY <1>1 DEF WorldMatches
  <1>3. story \in Stories /\ world \in Seq(Nat) /\ step \in Nat
        /\ at \in Deciding \union Answering \union {"over"}
    BY DEF StoryInv, TypeInv
  <1>4. \A i \in DOMAIN story.step_debug : story.step_debug[i].step_idx \in Nat
    BY <1>3, StoryFields
  <1>5. PICK k \in Nat, m \in Nat :
           /\ Tells(story, world, k, m) /\ m = Len(story.assistant_texts)
           /\ \A i \in DOMAIN story.step_debug : story.step_debug[i].step_idx < k
    <2>1. CASE at \in Deciding
      <3>1. Between(story, step) /\ Tells(story, world, step, step)
        BY <1>2, <2>1 DEF StoryInv, ListsInv, WorldTold
      <3>2. /\ step = Len(story.assistant_texts)
            /\ \A i \in DOMAIN story.step_debug : story.step_debug[i].step_idx < step
        BY <3>1 DEF Between, EntriesTold
      <3>. QED  BY <1>3, <3>1, <3>2
    <2>2. CASE at = "exec"
      <3>1. Answered(story, step) /\ Tells(story, world, step, step + 1)
        BY <1>2, <2>2 DEF StoryInv, ListsInv, WorldTold, Answering
      <3>2. /\ step + 1 = Len(story.assistant_texts)
            /\ \A i \in DOMAIN story.step_debug : story.step_debug[i].step_idx < step
        BY <3>1 DEF Answered, Pending, EntriesTold
      <3>3. step + 1 \in Nat
        BY <1>3
      <3>. QED  BY <1>3, <3>1, <3>2, <3>3
    <2>3. CASE at = "over"
      <3>1. /\ Tells(story, world, step + 1, Len(story.assistant_texts))
            /\ \A i \in DOMAIN story.step_debug : story.step_debug[i].step_idx <= step
        BY <1>2, <2>3 DEF StoryInv, ListsInv, WorldTold
      <3>2. step + 1 \in Nat /\ Len(story.assistant_texts) \in Nat
        BY <1>3, StoryFields
      <3>3. \A i \in DOMAIN story.step_debug : story.step_debug[i].step_idx < step + 1
        BY <1>3, <1>4, <3>1
      <3>. QED  BY <3>1, <3>2, <3>3
    <2>. QED  BY <1>2, <1>3, <2>1, <2>2, <2>3 DEF Answering
  <1>6. \A i \in DOMAIN world : Contains(story.assistant_texts, world[i])
    BY <1>5 DEF Tells, Contains
  <1>7. \A i \in DOMAIN story.step_debug :
           story.step_debug[i].ok => Contains(world, story.step_debug[i].command)
    <2>1. DOMAIN world = 1..Len(world)
      BY <1>3
    <2>. QED  BY <1>5, <2>1 DEF Tells, Contains
  <1>8. \A i, j \in DOMAIN world : i < j => world[i] <= world[j]
    BY <1>5 DEF Tells, Sorted
  <1>. QED  BY <1>6, <1>7, <1>8

\* For every step limit and every number of faults and attempts: when no call that ends a
\* recovery raises, the lists tell the steps before the cursor whenever the LLM is asked, and
\* a running container has run commands of the transcript only, in its order, and every one
\* the transcript has a result of. Checkpoints that return late, that the client gave up, or
\* that are captured around a fault never put a container under a transcript of another step.
THEOREM WorldAlwaysMatches == Spec => []WorldMatches
  <1>1. RewindInv => WorldMatches
    BY WorldFromStory DEF RewindInv, WorldMatches
  <1>. QED  BY <1>1, RewindInvAlways, PTL
=============================================================================
