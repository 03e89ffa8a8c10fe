------------------------- MODULE SlimeRouter_proofs -------------------------
(***************************************************************************)
(* Proofs about SlimeRouter: the registry and its counts, where a request  *)
(* may be sent, and the tokens it has.                                     *)
(***************************************************************************)
EXTENDS SlimeRouter, FiniteSetTheorems, SequenceTheorems, TLAPS

\* a text within its limit, with a checkpoint that is a prefix and a target above it
TextFits(t, max) ==
    /\ t \in Texts
    /\ t.taken <= Len(t.got)
    /\ Len(t.sent) + Len(t.got) <= max
    /\ Len(t.out) <= max
    /\ Len(t.saved) <= Len(t.out) /\ t.saved = SubSeq(t.out, 1, Len(t.saved))
    /\ t.target = Multiple(Len(t.saved)) /\ Len(t.out) < t.target

\* the text is what was sent and what was taken of the worker's tokens
Whole(t) == t.out = t.sent \o SubSeq(t.got, 1, t.taken)

\* a registered URL has a sequence of its key, the URL of a key the last one
RegistryOK ==
    /\ \A u \in registered : 1 <= seq_by_url[u] /\ seq_by_url[u] <= seq_by_key[Owner[u]]
    /\ \A k \in Keys : url_of_key[k] # NoUrl =>
           Owner[url_of_key[k]] = k /\ seq_by_url[url_of_key[k]] = seq_by_key[k]

\* a reservation is for a URL and not ahead of its key
Placed(q) ==
    /\ q.stage \in Holding => /\ q.url \in Urls /\ q.key \in Keys
                              /\ 1 <= q.seq /\ q.seq <= seq_by_key[Owner[q.url]]
    /\ q.stage \notin Holding => q.url = NoUrl
    /\ q.stage # "reroute" => q.next = NoUrl
    /\ q.stage \in {"stream", "reroute"} => q.kind = "generate"
    /\ q.stage = "wait" => q.kind \in {"generate", "nonstream"}
    /\ q.kind = "none" => q.stage = "new"

\* text and checkpoint; a waiting request has lost what was not checkpointed
Texted(q) ==
    /\ TextFits(q.text, q.max_new_tokens)
    /\ q.stage \notin {"wait", "failed"} => Whole(q.text)

\* the endpoints that go on after a failure, by the sequences of one key
Recovers(q) == q.kind \in {"generate", "nonstream"}

\* what broke is behind: by sequence, by URL, or by ending the request
Avoids(q) ==
    /\ q.stage = "new" => q.broken = {}
    /\ q.kind = "v1" /\ q.stage \in Holding => q.broken = {}
    /\ q.kind = "proxy" /\ q.stage \in Holding => \A b \in q.broken : b[1] # q.url
    /\ Recovers(q) /\ q.stage \in Holding =>
          /\ Owner[q.url] = q.key
          /\ q.stage = "wait" => \A b \in q.broken : b[2] <= q.after
          /\ q.stage # "wait" => \A b \in q.broken : b[2] < q.seq
          /\ q.next # NoUrl =>
                /\ Owner[q.next] = q.key
                /\ q.next \in registered => \A b \in q.broken : b[2] < seq_by_url[q.next]

RequestOK(q) ==
    /\ q \in RequestStates /\ Placed(q) /\ Texted(q)
    /\ ~options.to_healthy => Avoids(q)

RouterInv ==
    /\ TypeOK /\ RegistryOK /\ CountsExact
    /\ \A r \in Requests : RequestOK(req[r])

\* counts without the reservation of r
Excludes(n, r) ==
    /\ n \in [Urls -> Nat]
    /\ \A u \in registered :
          /\ n[u] >= Cardinality(Holders(u) \ {r})
          /\ n[u] = Cardinality(Holders(u) \ {r}) \/ LeavesReservations
-----------------------------------------------------------------------------
(***************************************************************************)
(* Tokens and texts.                                                       *)
(***************************************************************************)
\* The next target lies above the tokens there are, by one interval at most.
LEMMA MultipleBounds ==
    ASSUME NEW n \in Nat
    PROVE  Multiple(n) \in Nat /\ n < Multiple(n) /\ Multiple(n) <= n + CheckpointTokens
  <1>1. CheckpointTokens \in Nat \ {0}
    BY BoundsAssumption
  <1>2. PICK c \in Nat \ {0} : c = CheckpointTokens
    BY <1>1
  <1>3. n \div c \in Nat /\ n % c \in 0..(c - 1) /\ n = c * (n \div c) + (n % c)
    OBVIOUS
  <1>4. PICK d \in Nat : d = n \div c
    BY <1>3
  <1>5. PICK m \in 0..(c - 1) : m = n % c
    BY <1>3
  <1>6. c * (d + 1) = c * d + c /\ c * d \in Nat
    OBVIOUS
  <1>7. PICK e \in Nat : e = c * d
    BY <1>6
  <1>8. n = e + m
    BY <1>3, <1>4, <1>5, <1>7
  <1>9. Multiple(n) = e + c
    BY <1>2, <1>4, <1>6, <1>7 DEF Multiple
  <1>. QED  BY <1>2, <1>5, <1>8, <1>9

\* A prefix has the length asked for.
LEMMA PrefixOf ==
    ASSUME NEW s \in Tokens, NEW k \in 0..Len(s)
    PROVE  SubSeq(s, 1, k) \in Tokens /\ Len(SubSeq(s, 1, k)) = k
  <1>1. Len(s) \in Nat /\ \A i \in 1..k : s[i] \in Nat
    BY DEF Tokens
  <1>. QED  BY <1>1, SubSeqProperties DEF Tokens

\* What is appended does not change a prefix.
LEMMA PrefixOfConcat ==
    ASSUME NEW s \in Tokens, NEW t \in Tokens, NEW k \in 0..Len(s)
    PROVE  SubSeq(s \o t, 1, k) = SubSeq(s, 1, k)
  <1>1. Len(s) \in Nat /\ Len(t) \in Nat /\ s \in Seq(Nat) /\ t \in Seq(Nat)
    BY DEF Tokens
  <1>2. CASE k = 0
    BY <1>2, SubSeqEmpty
  <1>3. CASE k # 0
    <2>1. k \in 1..Len(s) /\ 1 \in 1..Len(s)
      BY <1>1, <1>3
    <2>. QED  BY <1>1, <2>1, SubSeqOfConcat1
  <1>. QED  BY <1>2, <1>3

\* A text starts out correct.
LEMMA NewTextFits ==
    ASSUME NEW max \in Nat
    PROVE  TextFits(NewText, max) /\ Whole(NewText)
  <1>1. <<>> \in Tokens /\ Len(<<>>) = 0
    BY DEF Tokens
  <1>2. CheckpointTokens \in Nat \ {0}
    BY BoundsAssumption
  <1>3. NewText \in Texts
    BY <1>1, <1>2 DEF NewText, Texts
  <1>4. SubSeq(<<>>, 1, 0) = <<>>
    BY SubSeqEmpty
  <1>5. Multiple(0) = CheckpointTokens
    <2>1. PICK c \in Nat \ {0} : c = CheckpointTokens
      BY <1>2
    <2>2. 0 \div c = 0
      OBVIOUS
    <2>3. c * (0 + 1) = c
      OBVIOUS
    <2>. QED  BY <2>1, <2>2, <2>3 DEF Multiple
  <1>6. <<>> \o <<>> = <<>>
    OBVIOUS
  <1>7. /\ NewText.out = <<>> /\ NewText.sent = <<>> /\ NewText.got = <<>> /\ NewText.taken = 0
        /\ NewText.saved = <<>> /\ NewText.target = CheckpointTokens
    BY DEF NewText
  <1>8. Whole(NewText)
    BY <1>4, <1>6, <1>7 DEF Whole
  <1>9. TextFits(NewText, max)
    BY <1>1, <1>2, <1>3, <1>4, <1>5, <1>7 DEF TextFits
  <1>. QED  BY <1>8, <1>9

\* Tokens are sequences with a length.
LEMMA TokensAre ==
    /\ \A s \in Tokens : s \in Seq(Nat) /\ Len(s) \in Nat
    /\ \A s \in Seq(Nat) : s \in Tokens
    /\ <<>> \in Tokens /\ Len(<<>>) = 0
  BY DEF Tokens

\* The parts of a correct text.
LEMMA TextFields ==
    ASSUME NEW max \in Nat, NEW t, TextFits(t, max)
    PROVE  /\ t \in Texts /\ t.sent \in Tokens /\ t.got \in Tokens /\ t.out \in Tokens /\ t.saved \in Tokens
           /\ t.taken \in Nat /\ t.target \in Nat /\ t.lines \in Nat
           /\ t.taken <= Len(t.got) /\ Len(t.sent) + Len(t.got) <= max /\ Len(t.out) <= max
           /\ Len(t.saved) <= Len(t.out) /\ t.saved = SubSeq(t.out, 1, Len(t.saved))
           /\ t.target = Multiple(Len(t.saved)) /\ Len(t.out) < t.target
           /\ Len(t.sent) \in Nat /\ Len(t.got) \in Nat /\ Len(t.saved) \in Nat /\ Len(t.out) \in Nat
  <1>1. t \in Texts
    BY DEF TextFits
  <1>2. /\ t.sent \in Tokens /\ t.got \in Tokens /\ t.out \in Tokens /\ t.saved \in Tokens
        /\ t.taken \in Nat /\ t.target \in Nat /\ t.lines \in Nat
    BY <1>1 DEF Texts
  <1>. QED  BY <1>1, <1>2, TokensAre DEF TextFits

\* A sequence is its prefix and what follows.
LEMMA SplitAt ==
    ASSUME NEW s \in Tokens, NEW k \in 0..Len(s)
    PROVE  /\ SubSeq(s, 1, k) \in Tokens /\ SubSeq(s, k + 1, Len(s)) \in Tokens
           /\ s = SubSeq(s, 1, k) \o SubSeq(s, k + 1, Len(s))
  <1>1. s \in Seq(Nat) /\ Len(s) \in Nat /\ k \in Nat /\ k <= Len(s)
    BY TokensAre
  <1>2. \A i \in 1..Len(s) : s[i] \in Nat
    BY <1>1
  <1>3. SubSeq(s, 1, k) \in Seq(Nat)
    <2>1. \A i \in 1..k : s[i] \in Nat
      BY <1>1, <1>2
    <2>. QED  BY <1>1, <2>1, SubSeqProperties
  <1>4. SubSeq(s, k + 1, Len(s)) \in Seq(Nat)
    <2>1. \A i \in k + 1..Len(s) : s[i] \in Nat
      BY <1>1, <1>2
    <2>. QED  BY <1>1, <2>1, SubSeqProperties
  <1>5. SubSeq(s, 1, k) \o SubSeq(s, k + 1, Len(s)) = SubSeq(s, 1, Len(s))
    <2>1. 1 \in 1..Len(s) + 1 /\ k \in 1 - 1..Len(s) /\ Len(s) \in k..Len(s)
      BY <1>1
    <2>. QED  BY <1>1, <2>1, ConcatAdjacentSubSeq
  <1>6. SubSeq(s, 1, Len(s)) = s
    BY <1>1, SubSeqFull
  <1>. QED  BY <1>3, <1>4, <1>5, <1>6, TokensAre

\* Appending adds up the lengths.
LEMMA Joined ==
    ASSUME NEW s \in Tokens, NEW t \in Tokens
    PROVE  s \o t \in Tokens /\ Len(s \o t) = Len(s) + Len(t) /\ Len(s) <= Len(s \o t)
  <1>1. s \in Seq(Nat) /\ t \in Seq(Nat) /\ Len(s) \in Nat /\ Len(t) \in Nat
    BY TokensAre
  <1>2. s \o t \in Seq(Nat) /\ Len(s \o t) = Len(s) + Len(t)
    BY <1>1, ConcatProperties
  <1>3. PICK x, y : x = Len(s) /\ y = Len(t)
    OBVIOUS
  <1>4. x <= x + y
    BY <1>1, <1>3
  <1>. QED  BY <1>2, <1>3, <1>4, TokensAre

\* flush_pending_chunk: what was sent and all that came make up the text, and the token
\* checkpoint is a prefix of it.
LEMMA FlushedText ==
    ASSUME NEW max \in Nat, NEW t, TextFits(t, max), Whole(t),
           NEW out, out = t.out \o SubSeq(t.got, t.taken + 1, Len(t.got))
    PROVE  /\ out \in Tokens /\ out = t.sent \o t.got /\ Len(out) = Len(t.sent) + Len(t.got)
           /\ Len(t.out) <= Len(out) /\ t.saved = SubSeq(out, 1, Len(t.saved))
  <1>1. PICK a, b : a = SubSeq(t.got, 1, t.taken) /\ b = SubSeq(t.got, t.taken + 1, Len(t.got))
    OBVIOUS
  <1>2. a \in Tokens /\ b \in Tokens /\ t.got = a \o b
    <2>1. t.taken \in 0..Len(t.got)
      <3>1. PICK x, y : x = t.taken /\ y = Len(t.got)
        OBVIOUS
      <3>2. x \in Nat /\ y \in Nat /\ x <= y
        BY <3>1, TextFields
      <3>3. x \in 0..y
        BY <3>2
      <3>. QED  BY <3>1, <3>3
    <2>2. t.got \in Tokens
      BY TextFields
    <2>. QED  BY <1>1, <2>1, <2>2, SplitAt
  <1>3. t.out = t.sent \o a /\ out = t.out \o b
    BY <1>1 DEF Whole
  <1>4. out = t.sent \o t.got
    <2>1. t.sent \in Seq(Nat) /\ a \in Seq(Nat) /\ b \in Seq(Nat)
      BY <1>2, TextFields, TokensAre
    <2>2. PICK c : c = t.sent
      OBVIOUS
    <2>3. (c \o a) \o b = c \o (a \o b)
      <3>1. PICK x, y, z : x = c /\ y = a /\ z = b
        OBVIOUS
      <3>2. x \in Seq(Nat) /\ y \in Seq(Nat) /\ z \in Seq(Nat)
        BY <2>1, <2>2, <3>1
      <3>3. (x \o y) \o z = x \o (y \o z)
        BY ONLY <3>2, ConcatAssociative
      <3>. QED  BY <3>1, <3>3
    <2>. QED  BY <1>2, <1>3, <2>2, <2>3
  <1>5. out \in Tokens /\ Len(out) = Len(t.sent) + Len(t.got)
    BY <1>4, TextFields, Joined
  <1>6. Len(t.out) <= Len(out)
    BY <1>2, <1>3, TextFields, Joined
  <1>7. t.saved = SubSeq(out, 1, Len(t.saved))
    <2>1. t.out \in Tokens /\ t.saved = SubSeq(t.out, 1, Len(t.saved))
      BY TextFields
    <2>3. Len(t.saved) \in 0..Len(t.out)
      <3>1. PICK x, y : x = Len(t.saved) /\ y = Len(t.out)
        OBVIOUS
      <3>2. x \in Nat /\ y \in Nat /\ x <= y
        BY <3>1, TextFields
      <3>3. x \in 0..y
        BY <3>2
      <3>. QED  BY <3>1, <3>3
    <2>2. SubSeq(t.out \o b, 1, Len(t.saved)) = SubSeq(t.out, 1, Len(t.saved))
      BY <1>2, <2>1, <2>3, PrefixOfConcat
    <2>. QED  BY <1>3, <2>1, <2>2
  <1>. QED  BY <1>4, <1>5, <1>6, <1>7

\* So flushing keeps a text correct, and its new token target is above its length.
LEMMA FlushedFits ==
    ASSUME NEW max \in Nat, NEW t, TextFits(t, max), Whole(t)
    PROVE  /\ TextFits(Flushed(t), max) /\ Whole(Flushed(t))
           /\ Flushed(t).sent = t.sent /\ Flushed(t).got = t.got
  <1>1. PICK out : out = t.out \o SubSeq(t.got, t.taken + 1, Len(t.got))
    OBVIOUS
  <1>2. PICK f : f = Flushed(t)
    OBVIOUS
  <1>3. /\ out \in Tokens /\ out = t.sent \o t.got /\ Len(out) = Len(t.sent) + Len(t.got)
        /\ Len(t.out) <= Len(out) /\ t.saved = SubSeq(out, 1, Len(t.saved))
    BY <1>1, FlushedText
  <1>4. /\ t \in Texts /\ t.sent \in Tokens /\ t.got \in Tokens /\ t.saved \in Tokens
        /\ t.target \in Nat /\ Len(t.sent) + Len(t.got) <= max
        /\ Len(t.saved) <= Len(t.out) /\ t.target = Multiple(Len(t.saved))
        /\ Len(t.sent) \in Nat /\ Len(t.got) \in Nat /\ Len(t.saved) \in Nat /\ Len(t.out) \in Nat
    BY TextFields
  <1>5. Len(out) \in Nat
    BY <1>3, TokensAre
  <1>6. PICK saved, target :
            /\ saved = IF Len(out) >= t.target THEN out ELSE t.saved
            /\ target = IF Len(out) >= t.target THEN Multiple(Len(out)) ELSE t.target
    OBVIOUS
  <1>7. /\ saved \in Tokens /\ Len(saved) <= Len(out) /\ saved = SubSeq(out, 1, Len(saved))
        /\ target = Multiple(Len(saved)) /\ Len(out) < target /\ target \in Nat
    <2>1. CASE Len(out) >= t.target
      <3>1. saved = out /\ target = Multiple(Len(out))
        BY <1>6, <2>1
      <3>2. out = SubSeq(out, 1, Len(out))
        BY <1>3, SubSeqFull, TokensAre
      <3>3. Multiple(Len(out)) \in Nat /\ Len(out) < Multiple(Len(out)) /\ Len(out) <= Len(out)
        BY <1>5, MultipleBounds
      <3>. QED  BY <1>3, <3>1, <3>2, <3>3
    <2>2. CASE ~(Len(out) >= t.target)
      <3>1. saved = t.saved /\ target = t.target
        BY <1>6, <2>2
      <3>2. Len(t.saved) <= Len(out)
        <4>1. PICK x, y, z : x = Len(t.saved) /\ y = Len(t.out) /\ z = Len(out)
          OBVIOUS
        <4>2. x \in Nat /\ y \in Nat /\ z \in Nat /\ x <= y /\ y <= z
          BY <1>3, <1>4, <1>5, <4>1
        <4>3. x <= z
          BY <4>2
        <4>. QED  BY <4>1, <4>3
      <3>3. Len(out) < t.target
        BY <1>4, <1>5, <2>2
      <3>. QED  BY <1>3, <1>4, <3>1, <3>2, <3>3
    <2>. QED  BY <2>1, <2>2
  <1>8. f = [t EXCEPT !.out = out, !.taken = Len(t.got), !.lines = 0, !.saved = saved, !.target = target]
    BY <1>1, <1>2, <1>4, <1>6 DEF Flushed, Texts
  <1>9. /\ f \in Texts /\ f.sent = t.sent /\ f.got = t.got /\ f.out = out /\ f.taken = Len(t.got)
        /\ f.saved = saved /\ f.target = target
    BY <1>3, <1>4, <1>7, <1>8 DEF Texts
  <1>10. Whole(f)
    <2>1. SubSeq(t.got, 1, Len(t.got)) = t.got
      BY <1>4, SubSeqFull, TokensAre
    <2>. QED  BY <1>3, <1>9, <2>1 DEF Whole
  <1>11. TextFits(f, max)
    <2>1. Len(out) <= max
      BY <1>3, <1>4
    <2>2. Len(t.got) <= Len(t.got)
      BY <1>4
    <2>. QED  BY <1>4, <1>7, <1>9, <2>1, <2>2 DEF TextFits
  <1>. QED  BY <1>2, <1>9, <1>10, <1>11

\* What a broken stream, or one that is rerouted, goes on with is correct.
LEMMA RewoundFits ==
    ASSUME NEW max \in Nat, NEW t, TextFits(t, max), Whole(t)
    PROVE  TextFits(Rewound(t), max) /\ TextFits(Kept(t), max)
  <1>1. TextFits(NewText, max)
    BY NewTextFits
  <1>2. PICK f : f = Flushed(t)
    OBVIOUS
  <1>3. TextFits(f, max)
    BY <1>2, FlushedFits
  <1>4. PICK g : g = [f EXCEPT !.out = f.saved]
    OBVIOUS
  <1>5. /\ f \in Texts /\ f.saved \in Tokens /\ Len(f.saved) \in Nat /\ Len(f.out) \in Nat /\ f.target \in Nat
        /\ Len(f.saved) <= Len(f.out) /\ Len(f.out) <= max /\ Len(f.out) < f.target
        /\ f.taken <= Len(f.got) /\ Len(f.sent) + Len(f.got) <= max /\ f.target = Multiple(Len(f.saved))
    BY <1>3, TextFields
  <1>6. /\ g \in Texts /\ g.out = f.saved /\ g.saved = f.saved /\ g.sent = f.sent /\ g.got = f.got
        /\ g.taken = f.taken /\ g.target = f.target
    BY <1>4, <1>5 DEF Texts
  <1>7. TextFits(g, max)
    <2>1. f.saved = SubSeq(f.saved, 1, Len(f.saved))
      BY <1>5, SubSeqFull, TokensAre
    <2>2. Len(f.saved) <= Len(f.saved) /\ Len(f.saved) <= max /\ Len(f.saved) < f.target
      BY <1>5
    <2>. QED  BY <1>5, <1>6, <2>1, <2>2 DEF TextFits
  <1>8. Rewound(t) \in {g, NewText} /\ Kept(t) \in {f, NewText}
    BY <1>2, <1>4 DEF Rewound, Kept
  <1>. QED  BY <1>1, <1>3, <1>7, <1>8

\* _build_generate_recovery_payload: sending a text as a prefix makes it whole.
LEMMA ResentFits ==
    ASSUME NEW max \in Nat, NEW t, TextFits(t, max)
    PROVE  TextFits(Resent(t), max) /\ Whole(Resent(t)) /\ Resent(t).got = <<>>
  <1>1. PICK g : g = Resent(t)
    OBVIOUS
  <1>2. /\ t \in Texts /\ t.out \in Tokens /\ Len(t.out) \in Nat /\ Len(t.out) <= max
        /\ Len(t.saved) <= Len(t.out) /\ t.saved = SubSeq(t.out, 1, Len(t.saved))
        /\ t.target = Multiple(Len(t.saved)) /\ Len(t.out) < t.target
    BY TextFields
  <1>3. /\ g \in Texts /\ g.out = t.out /\ g.saved = t.saved /\ g.sent = t.out /\ g.got = <<>>
        /\ g.taken = 0 /\ g.target = t.target
    BY <1>1, <1>2, TokensAre DEF Resent, Texts
  <1>4. Whole(g)
    <2>1. SubSeq(<<>>, 1, 0) = <<>>
      BY SubSeqEmpty
    <2>2. t.out \o <<>> = t.out
      BY <1>2, TokensAre, ConcatEmptySeq
    <2>. QED  BY <1>3, <2>1, <2>2 DEF Whole
  <1>5. TextFits(g, max)
    <2>1. Len(<<>>) = 0 /\ 0 <= 0 /\ Len(t.out) + 0 <= max
      BY <1>2, TokensAre
    <2>. QED  BY <1>2, <1>3, <2>1 DEF TextFits
  <1>. QED  BY <1>1, <1>3, <1>4, <1>5

\* A chunk with one more token, before the limit, keeps a text correct.
LEMMA LineFits ==
    ASSUME NEW max \in Nat, NEW t, TextFits(t, max), Whole(t), NEW token \in Nat,
           Len(t.sent) + Len(t.got) < max,
           NEW g, g = [t EXCEPT !.got = Append(@, token), !.lines = @ + 1]
    PROVE  TextFits(g, max) /\ Whole(g)
  <1>1. /\ t \in Texts /\ t.sent \in Tokens /\ t.got \in Tokens /\ t.out \in Tokens /\ t.saved \in Tokens
        /\ t.taken \in Nat /\ t.target \in Nat /\ t.lines \in Nat
        /\ t.taken <= Len(t.got) /\ Len(t.sent) + Len(t.got) <= max /\ Len(t.out) <= max
        /\ Len(t.saved) <= Len(t.out) /\ t.saved = SubSeq(t.out, 1, Len(t.saved))
        /\ t.target = Multiple(Len(t.saved)) /\ Len(t.out) < t.target
        /\ Len(t.sent) \in Nat /\ Len(t.got) \in Nat
    BY TextFields
  <1>2. PICK b : b = Append(t.got, token)
    OBVIOUS
  <1>3. <<token>> \in Tokens /\ Len(<<token>>) = 1 /\ b = t.got \o <<token>>
    <2>1. <<token>> \in Seq(Nat) /\ Len(<<token>>) = 1
      OBVIOUS
    <2>2. t.got \in Seq(Nat)
      BY <1>1, TokensAre
    <2>3. b = t.got \o <<token>>
      BY <1>2, <2>2
    <2>. QED  BY <2>1, <2>3, TokensAre
  <1>4. b \in Tokens /\ Len(b) = Len(t.got) + 1
    BY <1>1, <1>3, Joined
  <1>5. /\ g \in Texts /\ g.out = t.out /\ g.saved = t.saved /\ g.sent = t.sent
        /\ g.got = b /\ g.taken = t.taken /\ g.target = t.target
    <2>1. g = [t EXCEPT !.got = b, !.lines = t.lines + 1] /\ t.lines + 1 \in Nat
      BY <1>1, <1>2 DEF Texts
    <2>. QED  BY <1>1, <1>4, <2>1 DEF Texts
  <1>6. SubSeq(b, 1, t.taken) = SubSeq(t.got, 1, t.taken)
    <2>1. t.taken \in 0..Len(t.got)
      BY <1>1
    <2>. QED  BY <1>1, <1>3, <2>1, PrefixOfConcat
  <1>7. Whole(g)
    BY <1>5, <1>6 DEF Whole
  <1>8. TextFits(g, max)
    <2>1. t.taken <= Len(b) /\ Len(t.sent) + Len(b) <= max
      <3>1. PICK x, y, z, w : x = Len(t.sent) /\ y = Len(t.got) /\ z = Len(b) /\ w = t.taken
        OBVIOUS
      <3>2. x \in Nat /\ y \in Nat /\ w \in Nat /\ z = y + 1 /\ w <= y /\ x + y < max
        BY <1>1, <1>4, <3>1
      <3>3. w <= z /\ x + z <= max
        BY <3>2
      <3>. QED  BY <3>1, <3>3
    <2>. QED  BY <1>1, <1>5, <2>1 DEF TextFits
  <1>. QED  BY <1>7, <1>8
-----------------------------------------------------------------------------
(***************************************************************************)
(* Counts and reservations.                                                *)
(***************************************************************************)
\* The requests that hold a reservation of a URL, with and without one of them.
LEMMA HoldersFinite ==
    ASSUME NEW u, NEW r
    PROVE  /\ IsFiniteSet(Holders(u)) /\ IsFiniteSet(Holders(u) \ {r})
           /\ Cardinality(Holders(u)) \in Nat /\ Cardinality(Holders(u) \ {r}) \in Nat
           /\ r \in Holders(u) => Cardinality(Holders(u)) = Cardinality(Holders(u) \ {r}) + 1
           /\ r \notin Holders(u) => Holders(u) \ {r} = Holders(u)
  <1>1. Holders(u) \subseteq Requests
    BY DEF Holders
  <1>2. IsFiniteSet(Holders(u))
    BY <1>1, RequestsAssumption, FS_Subset
  <1>3. IsFiniteSet(Holders(u) \ {r}) /\ Cardinality(Holders(u)) \in Nat
    BY <1>2, FS_RemoveElement, FS_CardinalityType
  <1>4. Cardinality(Holders(u) \ {r}) \in Nat
    BY <1>3, FS_CardinalityType
  <1>5. r \in Holders(u) => Cardinality(Holders(u) \ {r}) = Cardinality(Holders(u)) - 1
    BY <1>2, FS_RemoveElement
  <1>6. r \in Holders(u) => Cardinality(Holders(u)) = Cardinality(Holders(u) \ {r}) + 1
    BY <1>3, <1>4, <1>5
  <1>7. r \notin Holders(u) => Holders(u) \ {r} = Holders(u)
    OBVIOUS
  <1>. QED  BY <1>2, <1>3, <1>4, <1>6, <1>7

\* _finish_url: giving back a reservation leaves the counts right for the others.
LEMMA ReleasedCounts ==
    ASSUME TypeOK, CountsExact, NEW r \in Requests, NEW q,
           req[r].stage \in Holding, q.url = req[r].url, q.seq = req[r].seq
    PROVE  Excludes(Finished(q), r)
  <1>1. registered \subseteq Urls /\ count \in [Urls -> Nat]
    BY DEF TypeOK
  <1>2. \A u \in registered : r \in Holders(u) <=> q.url = u /\ q.seq = seq_by_url[u]
    BY DEF Holders
  <1>3. CASE q.url \in registered /\ seq_by_url[q.url] = q.seq
    <2>1. PICK v : v = q.url
      OBVIOUS
    <2>2. v \in registered /\ v \in Urls /\ r \in Holders(v)
      BY <1>1, <1>2, <1>3, <2>1
    <2>3. count[v] >= Cardinality(Holders(v) \ {r}) + 1 /\ count[v] \in Nat
          /\ (count[v] = Cardinality(Holders(v) \ {r}) + 1 \/ LeavesReservations)
      BY <1>1, <2>2, HoldersFinite DEF CountsExact
    <2>4. PICK a, b : a = count[v] /\ b = Cardinality(Holders(v) \ {r})
      OBVIOUS
    <2>5. a \in Nat /\ b \in Nat /\ a >= b + 1
      BY <2>3, <2>4, HoldersFinite
    <2>6. a - 1 \in Nat /\ a - 1 >= b /\ (a = b + 1 => a - 1 = b)
      BY <2>5
    <2>7. Finished(q) = [count EXCEPT ![v] = a - 1]
      BY <1>3, <2>1, <2>4 DEF Finished
    <2>8. Finished(q) \in [Urls -> Nat]
      BY <1>1, <2>6, <2>7
    <2>9. ASSUME NEW u \in registered
          PROVE  /\ Finished(q)[u] >= Cardinality(Holders(u) \ {r})
                 /\ Finished(q)[u] = Cardinality(Holders(u) \ {r}) \/ LeavesReservations
      <3>1. CASE u = v
        <4>1. Finished(q)[u] = a - 1
          BY <1>1, <2>2, <2>7, <3>1
        <4>. QED  BY <2>3, <2>4, <2>6, <3>1, <4>1
      <3>2. CASE u # v
        <4>1. Finished(q)[u] = count[u]
          BY <1>1, <2>7, <3>2
        <4>2. Holders(u) \ {r} = Holders(u)
          BY <1>2, <2>1, <3>2
        <4>. QED  BY <4>1, <4>2 DEF CountsExact
      <3>. QED  BY <3>1, <3>2
    <2>. QED  BY <2>8, <2>9 DEF Excludes
  <1>4. CASE ~(q.url \in registered /\ seq_by_url[q.url] = q.seq)
    <2>1. Finished(q) = count
      BY <1>4 DEF Finished
    <2>2. \A u \in registered : Holders(u) \ {r} = Holders(u)
      BY <1>2, <1>4
    <2>. QED  BY <1>1, <2>1, <2>2 DEF Excludes, CountsExact
  <1>. QED  BY <1>3, <1>4

\* Who has no reservation is in no count.
LEMMA UnheldCounts ==
    ASSUME TypeOK, CountsExact, NEW r \in Requests, req[r].stage \notin Holding
    PROVE  Excludes(count, r)
  <1>1. \A u \in registered : Holders(u) \ {r} = Holders(u)
    BY DEF Holders
  <1>. QED  BY <1>1 DEF Excludes, CountsExact, TypeOK

\* what a step of one request does to the holders of a URL
LEMMA HoldersBecome ==
    ASSUME TypeOK, NEW r \in Requests, NEW q, NEW n, Becomes(r, q, n), NEW u \in Urls
    PROVE  Holders(u)' = (Holders(u) \ {r}) \cup
               (IF q.stage \in Holding /\ q.url = u /\ q.seq = seq_by_url[u] THEN {r} ELSE {})
  <1>1. req' = [req EXCEPT ![r] = q] /\ seq_by_url' = seq_by_url /\ req \in [Requests -> RequestStates]
    BY DEF Becomes, TypeOK
  <1>2. req'[r] = q /\ \A s \in Requests \ {r} : req'[s] = req[s]
    BY <1>1
  <1>3. ASSUME NEW s \in Requests
        PROVE  s \in Holders(u)' <=> s \in (Holders(u) \ {r}) \cup
               (IF q.stage \in Holding /\ q.url = u /\ q.seq = seq_by_url[u] THEN {r} ELSE {})
    <2>1. CASE s = r
      BY <1>1, <1>2, <2>1 DEF Holders
    <2>2. CASE s # r
      BY <1>1, <1>2, <2>2 DEF Holders
    <2>. QED  BY <2>1, <2>2
  <1>4. Holders(u)' \subseteq Requests /\ Holders(u) \subseteq Requests
    BY DEF Holders
  <1>. QED  BY <1>3, <1>4

\* a step of one request that gives its reservation back, or takes one it keeps or leaves behind
LEMMA CountsBecome ==
    ASSUME TypeOK, NEW r \in Requests, NEW q, NEW n, NEW m, Excludes(n, r), Becomes(r, q, m),
           \/ q.stage \notin Holding /\ m = n
           \/ \E v \in registered : m = [n EXCEPT ![v] = @ + 1] /\
                 (\/ q.stage \in Holding /\ q.url = v /\ q.seq = seq_by_url[v]
                  \/ q.stage \notin Holding /\ LeavesReservations)
    PROVE  CountsExact' /\ count' \in [Urls -> Nat]
  <1>1. /\ count' = m /\ registered' = registered /\ options' = options /\ registered \subseteq Urls
        /\ n \in [Urls -> Nat]
    BY DEF Becomes, TypeOK, Excludes
  <1>2. LeavesReservations' <=> LeavesReservations
    BY <1>1 DEF LeavesReservations
  <1>3. ASSUME NEW u \in registered,
               Cardinality(Holders(u)') <= m[u],
               Cardinality(Holders(u)') = m[u] \/ LeavesReservations
        PROVE  (count[u] >= Cardinality(Holders(u)) /\ (count[u] = Cardinality(Holders(u)) \/ LeavesReservations))'
    BY <1>1, <1>2, <1>3
  <1>4. CASE q.stage \notin Holding /\ m = n
    <2>1. \A u \in registered : Holders(u)' = Holders(u) \ {r}
      BY <1>1, <1>4, HoldersBecome
    <2>2. \A u \in registered : m[u] \in Nat /\ Cardinality(Holders(u) \ {r}) \in Nat
      BY <1>1, <1>4, HoldersFinite
    <2>3. ASSUME NEW u \in registered
          PROVE  Cardinality(Holders(u)') <= m[u] /\ (Cardinality(Holders(u)') = m[u] \/ LeavesReservations)
      BY <1>4, <2>1, <2>2 DEF Excludes
    <2>. QED  BY <1>1, <1>3, <1>4, <2>3 DEF CountsExact
  <1>5. ASSUME NEW v \in registered, m = [n EXCEPT ![v] = @ + 1],
               \/ q.stage \in Holding /\ q.url = v /\ q.seq = seq_by_url[v]
               \/ q.stage \notin Holding /\ LeavesReservations
        PROVE  CountsExact' /\ count' \in [Urls -> Nat]
    <2>1. m \in [Urls -> Nat] /\ m[v] = n[v] + 1 /\ \A u \in Urls \ {v} : m[u] = n[u]
      BY <1>1, <1>5
    <2>2. ASSUME NEW u \in registered
          PROVE  Cardinality(Holders(u)') <= m[u] /\ (Cardinality(Holders(u)') = m[u] \/ LeavesReservations)
      <3>1. PICK a, b : a = n[u] /\ b = Cardinality(Holders(u) \ {r})
        OBVIOUS
      <3>2. a \in Nat /\ b \in Nat /\ b <= a /\ (a = b \/ LeavesReservations)
        BY <1>1, <3>1, HoldersFinite DEF Excludes
      <3>3. CASE u = v /\ q.stage \in Holding
        <4>1. Holders(u)' = (Holders(u) \ {r}) \cup {r}
          BY <1>1, <1>5, <3>3, HoldersBecome
        <4>2. Cardinality((Holders(u) \ {r}) \cup {r}) = b + 1
          BY <3>1, HoldersFinite, FS_AddElement
        <4>3. m[u] = a + 1
          BY <2>1, <3>1, <3>3
        <4>. QED  BY <3>2, <4>1, <4>2, <4>3
      <3>4. CASE ~(u = v /\ q.stage \in Holding)
        <4>1. Holders(u)' = Holders(u) \ {r}
          BY <1>1, <1>5, <3>4, HoldersBecome
        <4>2. \/ m[u] = a
              \/ (m[u] = a + 1 /\ LeavesReservations)
          <5>1. CASE u # v
            BY <1>1, <2>1, <3>1, <5>1
          <5>2. CASE u = v
            <6>1. LeavesReservations
              BY <1>5, <3>4, <5>2
            <6>2. m[u] = a + 1
              BY <2>1, <3>1, <5>2
            <6>. QED  BY <6>1, <6>2
          <5>. QED  BY <5>1, <5>2
        <4>. QED  BY <3>1, <3>2, <4>1, <4>2
      <3>. QED  BY <3>3, <3>4
    <2>. QED  BY <1>1, <1>3, <2>1, <2>2 DEF CountsExact
  <1>. QED  BY <1>4, <1>5

\* a step of one request that keeps its reservation
LEMMA CountsKept ==
    ASSUME TypeOK, CountsExact, NEW r \in Requests, NEW q, Becomes(r, q, count),
           req[r].stage \in Holding, q.stage \in Holding, q.url = req[r].url, q.seq = req[r].seq
    PROVE  CountsExact' /\ count' \in [Urls -> Nat]
  <1>1. /\ count' = count /\ registered' = registered /\ options' = options /\ registered \subseteq Urls
        /\ count \in [Urls -> Nat]
    BY DEF Becomes, TypeOK
  <1>2. \A u \in registered : Holders(u)' = Holders(u)
    <2>1. TAKE u \in registered
    <2>2. Holders(u)' = (Holders(u) \ {r}) \cup
               (IF q.stage \in Holding /\ q.url = u /\ q.seq = seq_by_url[u] THEN {r} ELSE {})
      BY <1>1, HoldersBecome
    <2>3. r \in Holders(u) <=> q.url = u /\ q.seq = seq_by_url[u]
      BY DEF Holders
    <2>. QED  BY <2>2, <2>3
  <1>3. LeavesReservations' <=> LeavesReservations
    BY <1>1 DEF LeavesReservations
  <1>. QED  BY <1>1, <1>2, <1>3 DEF CountsExact
-----------------------------------------------------------------------------
(***************************************************************************)
(* Engines.                                                                *)
(***************************************************************************)
\* what an engine does keeps the requests correct, if the sequences of keys only
\* grow and the registered URLs a request may go to keep or raise theirs
LEMMA RequestsKept ==
    ASSUME TypeOK, \A r \in Requests : RequestOK(req[r]), req' = req, options' = options,
           seq_by_key' \in [Keys -> Nat], \A k \in Keys : seq_by_key[k] <= seq_by_key'[k],
           \A u \in Urls : u \in registered' =>
               \/ u \in registered /\ seq_by_url[u] <= seq_by_url'[u]
               \/ seq_by_key[Owner[u]] <= seq_by_url'[u],
           seq_by_url' \in [Urls -> Nat]
    PROVE  \A r \in Requests : RequestOK(req[r])'
  <1>. SUFFICES ASSUME NEW r \in Requests PROVE RequestOK(req[r])'
    OBVIOUS
  <1>1. PICK q : q = req[r]
    OBVIOUS
  <1>2. RequestOK(q) /\ req'[r] = q
    BY <1>1
  <1>3. q \in RequestStates /\ q.url \in Urls \cup {NoUrl} /\ q.seq \in Nat /\ q.next \in Urls \cup {NoUrl}
        /\ q.broken \in SUBSET (Urls \X Nat)
    BY <1>2 DEF RequestOK, RequestStates
  <1>4. Owner \in [Urls -> Keys] /\ NoUrl \notin Urls
    BY UrlsAssumption
  <1>5. seq_by_key \in [Keys -> Nat] /\ seq_by_url \in [Urls -> Nat]
    BY DEF TypeOK
  <1>6. q.stage \in Holding => q.url \in Urls /\ q.key \in Keys /\ 1 <= q.seq /\ q.seq <= seq_by_key'[Owner[q.url]]
    <2>. SUFFICES ASSUME q.stage \in Holding
                  PROVE  q.url \in Urls /\ q.key \in Keys /\ 1 <= q.seq /\ q.seq <= seq_by_key'[Owner[q.url]]
      OBVIOUS
    <2>1. q.url \in Urls /\ q.key \in Keys /\ 1 <= q.seq /\ q.seq <= seq_by_key[Owner[q.url]]
      BY <1>2 DEF RequestOK, Placed
    <2>2. Owner[q.url] \in Keys
      BY <1>4, <2>1
    <2>3. PICK a, b, c : a = q.seq /\ b = seq_by_key[Owner[q.url]] /\ c = seq_by_key'[Owner[q.url]]
      OBVIOUS
    <2>4. a \in Nat /\ b \in Nat /\ c \in Nat /\ a <= b /\ b <= c
      BY <1>3, <1>5, <2>1, <2>2, <2>3
    <2>5. a <= c
      BY <2>4
    <2>. QED  BY <2>1, <2>3, <2>5
  <1>7. Placed(req[r])'
    BY <1>2, <1>6 DEF RequestOK, Placed
  <1>8. Texted(req[r])'
    BY <1>2 DEF RequestOK, Texted
  <1>9. ASSUME ~options.to_healthy PROVE Avoids(req[r])'
    <2>1. Avoids(q)
      BY <1>2, <1>9 DEF RequestOK
    <2>2. ASSUME Recovers(q), q.stage \in Holding, q.next # NoUrl, q.next \in registered',
                 NEW b \in q.broken
          PROVE  b[2] < seq_by_url'[q.next]
      <3>1. Owner[q.next] = q.key /\ Owner[q.url] = q.key /\ q.next \in Urls /\ q.key \in Keys /\ b[2] \in Nat
            /\ q.url \in Urls /\ q.seq <= seq_by_key[q.key]
        BY <1>2, <1>3, <2>1, <2>2 DEF Avoids, RequestOK, Placed
      <3>2. CASE q.next \in registered /\ seq_by_url[q.next] <= seq_by_url'[q.next]
        <4>1. b[2] < seq_by_url[q.next]
          BY <2>1, <2>2, <3>2 DEF Avoids
        <4>. QED  BY <1>5, <3>1, <3>2, <4>1
      <3>3. CASE seq_by_key[Owner[q.next]] <= seq_by_url'[q.next] /\ q.stage # "wait"
        <4>1. b[2] < q.seq
          BY <2>1, <2>2, <3>3 DEF Avoids
        <4>2. PICK x, y, z, w : x = b[2] /\ y = q.seq /\ z = seq_by_key[q.key] /\ w = seq_by_url'[q.next]
          OBVIOUS
        <4>3. x \in Nat /\ y \in Nat /\ z \in Nat /\ w \in Nat /\ x < y /\ y <= z /\ z <= w
          BY <1>3, <1>5, <3>1, <3>3, <4>1, <4>2
        <4>4. x < w
          BY <4>3
        <4>. QED  BY <4>2, <4>4
      <3>4. CASE q.stage = "wait"
        BY <1>2, <2>2, <3>4 DEF RequestOK, Placed
      <3>. QED  BY <2>2, <3>1, <3>2, <3>3, <3>4
    <2>3. (\A b \in q.broken : b[2] <= q.after) => (\A b \in req'[r].broken : b[2] <= req'[r].after)
      BY <1>2
    <2>. QED  BY <1>2, <2>1, <2>2 DEF Avoids, Recovers
  <1>. QED  BY <1>2, <1>7, <1>8, <1>9 DEF RequestOK

\* add_worker. No reservation has the sequence it gives the URL, because it is larger than
\* any of its key before.
LEMMA RegisterInv ==
    ASSUME RouterInv, NEW u \in Urls, Register(u)
    PROVE  RouterInv'
  <1>1. PICK k, n : k = Owner[u] /\ n = seq_by_key[k] + 1
    OBVIOUS
  <1>2. /\ registered' = registered \cup {u} /\ req' = req /\ options' = options /\ up' = up
        /\ count' = IF u \in registered THEN count ELSE [count EXCEPT ![u] = 0]
        /\ url_of_key' = [url_of_key EXCEPT ![k] = u]
        /\ seq_by_key' = [seq_by_key EXCEPT ![k] = n]
        /\ seq_by_url' = [seq_by_url EXCEPT ![u] = n]
        /\ u \notin registered \/ options.re_register
    BY <1>1 DEF Register
  <1>3. TypeOK /\ RegistryOK /\ CountsExact /\ \A r \in Requests : RequestOK(req[r])
    BY DEF RouterInv
  <1>4. Owner \in [Urls -> Keys] /\ NoUrl \notin Urls /\ k \in Keys
    BY <1>1, UrlsAssumption
  <1>5. /\ seq_by_key \in [Keys -> Nat] /\ seq_by_url \in [Urls -> Nat] /\ registered \subseteq Urls
        /\ count \in [Urls -> Nat] /\ url_of_key \in [Keys -> registered \cup {NoUrl}]
        /\ n \in Nat /\ seq_by_key[k] \in Nat /\ seq_by_key[k] < n /\ 1 <= n
    BY <1>1, <1>3, <1>4 DEF TypeOK
  <1>6. TypeOK'
    BY <1>2, <1>3, <1>4, <1>5 DEF TypeOK
  <1>7. \A i \in Keys : seq_by_key'[i] = IF i = k THEN n ELSE seq_by_key[i]
    BY <1>2, <1>4, <1>5
  <1>8. \A w \in Urls : seq_by_url'[w] = IF w = u THEN n ELSE seq_by_url[w]
    BY <1>2, <1>5
  <1>9. \A i \in Keys : url_of_key'[i] = IF i = k THEN u ELSE url_of_key[i]
    BY <1>2, <1>4, <1>5
  <1>10. RegistryOK'
    <2>1. ASSUME NEW w \in registered'
          PROVE  1 <= seq_by_url'[w] /\ seq_by_url'[w] <= seq_by_key'[Owner[w]]
      <3>1. CASE w = u
        BY <1>1, <1>4, <1>5, <1>7, <1>8, <3>1
      <3>2. CASE w # u
        <4>1. w \in registered /\ w \in Urls /\ Owner[w] \in Keys
          BY <1>2, <1>4, <1>5, <2>1, <3>2
        <4>2. PICK a, b, c : a = seq_by_url[w] /\ b = seq_by_key[Owner[w]] /\ c = seq_by_key'[Owner[w]]
          OBVIOUS
        <4>3. a \in Nat /\ b \in Nat /\ c \in Nat /\ 1 <= a /\ a <= b /\ b <= c
          BY <1>3, <1>5, <1>7, <4>1, <4>2 DEF RegistryOK
        <4>4. a <= c
          BY <4>3
        <4>. QED  BY <1>8, <3>2, <4>1, <4>2, <4>3, <4>4
      <3>. QED  BY <3>1, <3>2
    <2>2. ASSUME NEW i \in Keys, url_of_key'[i] # NoUrl
          PROVE  Owner[url_of_key'[i]] = i /\ seq_by_url'[url_of_key'[i]] = seq_by_key'[i]
      <3>1. CASE i = k
        BY <1>1, <1>7, <1>8, <1>9, <3>1
      <3>2. CASE i # k
        <4>1. url_of_key'[i] = url_of_key[i] /\ Owner[url_of_key[i]] = i /\ url_of_key[i] \in Urls
              /\ seq_by_url[url_of_key[i]] = seq_by_key[i]
          BY <1>3, <1>5, <1>9, <2>2, <3>2 DEF RegistryOK
        <4>2. url_of_key[i] # u
          BY <1>1, <3>2, <4>1
        <4>. QED  BY <1>7, <1>8, <3>2, <4>1, <4>2
      <3>. QED  BY <3>1, <3>2
    <2>. QED  BY <2>1, <2>2 DEF RegistryOK
  <1>11. CountsExact'
    <2>1. ASSUME NEW w \in registered'
          PROVE  (/\ count[w] >= Cardinality(Holders(w))
                  /\ count[w] = Cardinality(Holders(w)) \/ LeavesReservations)'
      <3>1. CASE w = u
        <4>1. \A r \in Requests : req[r].stage \in Holding /\ req[r].url = u => req[r].seq # n
          <5>1. TAKE r \in Requests
          <5>2. HAVE req[r].stage \in Holding /\ req[r].url = u
          <5>3. req[r].seq <= seq_by_key[k] /\ req[r].seq \in Nat
            BY <1>1, <1>3, <5>2 DEF RequestOK, Placed, RequestStates
          <5>. QED  BY <1>5, <5>3
        <4>2. Holders(u)' = {}
          BY <1>2, <1>8, <4>1 DEF Holders
        <4>3. Cardinality(Holders(u)') = 0
          BY <4>2, FS_EmptySet
        <4>4. count'[u] \in Nat /\ (u \in registered \/ count'[u] = 0)
          BY <1>2, <1>5
        <4>5. u \in registered => LeavesReservations'
          BY <1>2 DEF LeavesReservations
        <4>. QED  BY <3>1, <4>3, <4>4, <4>5
      <3>2. CASE w # u
        <4>1. w \in registered /\ w \in Urls
          BY <1>2, <1>5, <2>1, <3>2
        <4>2. count'[w] = count[w] /\ Holders(w)' = Holders(w)
          BY <1>2, <1>5, <1>8, <3>2, <4>1 DEF Holders
        <4>3. LeavesReservations' <=> LeavesReservations
          BY <1>2 DEF LeavesReservations
        <4>. QED  BY <1>3, <4>1, <4>2, <4>3 DEF CountsExact
      <3>. QED  BY <3>1, <3>2
    <2>. QED  BY <2>1 DEF CountsExact
  <1>12. \A r \in Requests : RequestOK(req[r])'
    <2>1. seq_by_key' \in [Keys -> Nat] /\ seq_by_url' \in [Urls -> Nat]
      BY <1>6 DEF TypeOK
    <2>2. \A i \in Keys : seq_by_key[i] <= seq_by_key'[i]
      BY <1>5, <1>7
    <2>3. ASSUME NEW w \in Urls, w \in registered'
          PROVE  \/ w \in registered /\ seq_by_url[w] <= seq_by_url'[w]
                 \/ seq_by_key[Owner[w]] <= seq_by_url'[w]
      <3>1. CASE w = u
        BY <1>1, <1>5, <1>8, <3>1
      <3>2. CASE w # u
        <4>1. w \in registered /\ seq_by_url'[w] = seq_by_url[w] /\ seq_by_url[w] \in Nat
          BY <1>2, <1>5, <1>8, <2>3, <3>2
        <4>. QED  BY <4>1
      <3>. QED  BY <3>1, <3>2
    <2>. QED  BY <1>2, <1>3, <2>1, <2>2, <2>3, RequestsKept
  <1>. QED  BY <1>6, <1>10, <1>11, <1>12 DEF RouterInv

\* remove_worker.
LEMMA UnregisterInv ==
    ASSUME RouterInv, NEW u \in Urls, Unregister(u)
    PROVE  RouterInv'
  <1>1. PICK k : k = Owner[u]
    OBVIOUS
  <1>2. /\ registered' = registered \ {u} /\ req' = req /\ options' = options /\ up' = up
        /\ count' = [count EXCEPT ![u] = 0]
        /\ url_of_key' = [url_of_key EXCEPT ![k] = IF @ = u THEN NoUrl ELSE @]
        /\ seq_by_key' = seq_by_key
        /\ seq_by_url' = [seq_by_url EXCEPT ![u] = 0]
    BY <1>1 DEF Unregister
  <1>3. TypeOK /\ RegistryOK /\ CountsExact /\ \A r \in Requests : RequestOK(req[r])
    BY DEF RouterInv
  <1>4. Owner \in [Urls -> Keys] /\ NoUrl \notin Urls /\ k \in Keys
    BY <1>1, UrlsAssumption
  <1>5. /\ seq_by_key \in [Keys -> Nat] /\ seq_by_url \in [Urls -> Nat] /\ registered \subseteq Urls
        /\ count \in [Urls -> Nat] /\ url_of_key \in [Keys -> registered \cup {NoUrl}]
    BY <1>3 DEF TypeOK
  <1>6. \A w \in Urls : w # u => seq_by_url'[w] = seq_by_url[w] /\ count'[w] = count[w]
    BY <1>2, <1>5
  <1>7. \A i \in Keys : url_of_key'[i] # NoUrl => url_of_key'[i] = url_of_key[i] /\ url_of_key[i] # u
    <2>1. TAKE i \in Keys
    <2>2. HAVE url_of_key'[i] # NoUrl
    <2>3. CASE i = k
      BY <1>2, <1>4, <1>5, <2>2, <2>3
    <2>4. CASE i # k
      <3>1. url_of_key'[i] = url_of_key[i]
        BY <1>2, <1>5, <2>4
      <3>2. Owner[url_of_key[i]] = i
        BY <1>3, <2>2, <3>1 DEF RegistryOK
      <3>. QED  BY <1>1, <2>4, <3>1, <3>2
    <2>. QED  BY <2>3, <2>4
  <1>8. url_of_key' \in [Keys -> registered' \cup {NoUrl}]
    <2>1. url_of_key' \in [Keys -> registered \cup {NoUrl}]
      BY <1>2, <1>4, <1>5
    <2>2. \A i \in Keys : url_of_key'[i] \in registered' \cup {NoUrl}
      BY <1>2, <1>7, <2>1
    <2>. QED  BY <2>1, <2>2
  <1>9. seq_by_url' \in [Urls -> Nat] /\ count' \in [Urls -> Nat] /\ registered' \subseteq Urls
    BY <1>2, <1>5
  <1>10. TypeOK'
    BY <1>2, <1>3, <1>8, <1>9 DEF TypeOK
  <1>11. RegistryOK'
    <2>1. \A w \in registered' : 1 <= seq_by_url'[w] /\ seq_by_url'[w] <= seq_by_key'[Owner[w]]
      BY <1>2, <1>3, <1>5, <1>6 DEF RegistryOK
    <2>2. \A i \in Keys : url_of_key'[i] # NoUrl =>
              Owner[url_of_key'[i]] = i /\ seq_by_url'[url_of_key'[i]] = seq_by_key'[i]
      BY <1>2, <1>3, <1>5, <1>6, <1>7 DEF RegistryOK
    <2>. QED  BY <2>1, <2>2 DEF RegistryOK
  <1>12. CountsExact'
    <2>1. ASSUME NEW w \in registered'
          PROVE  (/\ count[w] >= Cardinality(Holders(w))
                  /\ count[w] = Cardinality(Holders(w)) \/ LeavesReservations)'
      <3>1. w \in registered /\ w \in Urls /\ w # u
        BY <1>2, <1>5, <2>1
      <3>2. count'[w] = count[w] /\ Holders(w)' = Holders(w)
        BY <1>2, <1>6, <3>1 DEF Holders
      <3>3. LeavesReservations' <=> LeavesReservations
        BY <1>2 DEF LeavesReservations
      <3>. QED  BY <1>3, <3>1, <3>2, <3>3 DEF CountsExact
    <2>. QED  BY <2>1 DEF CountsExact
  <1>13. \A r \in Requests : RequestOK(req[r])'
    <2>1. \A i \in Keys : seq_by_key[i] <= seq_by_key'[i]
      BY <1>2, <1>5
    <2>2. \A w \in Urls : w \in registered' => w \in registered /\ seq_by_url[w] <= seq_by_url'[w]
      BY <1>2, <1>5, <1>6
    <2>. QED  BY <1>2, <1>3, <1>5, <1>9, <2>1, <2>2, RequestsKept
  <1>. QED  BY <1>10, <1>11, <1>12, <1>13 DEF RouterInv

\* A process that starts or dies is nothing to the router.
LEMMA ProcessInv ==
    ASSUME RouterInv, up' \subseteq Urls, UNCHANGED <<options, registryVars, req>>
    PROVE  RouterInv'
  <1>. USE DEF registryVars
  <1>1. TypeOK /\ RegistryOK /\ CountsExact /\ \A r \in Requests : RequestOK(req[r])
    BY DEF RouterInv
  <1>2. TypeOK'
    BY <1>1 DEF TypeOK
  <1>3. RegistryOK'
    BY <1>1 DEF RegistryOK
  <1>4. CountsExact'
    BY <1>1 DEF CountsExact, Holders, LeavesReservations
  <1>5. \A r \in Requests : RequestOK(req[r])'
    BY <1>1 DEF RequestOK, Placed, Texted, Avoids, Recovers
  <1>. QED  BY <1>2, <1>3, <1>4, <1>5 DEF RouterInv

\* Whatever an engine does keeps the invariant.
LEMMA EnginesInv ==
    ASSUME RouterInv, NEW u \in Urls, Engines(u)
    PROVE  RouterInv'
  <1>1. up \subseteq Urls
    BY DEF RouterInv, TypeOK
  <1>2. CASE Dies(u) \/ Launch(u)
    <2>1. up' \subseteq Urls /\ UNCHANGED <<options, registryVars, req>>
      BY <1>1, <1>2 DEF Dies, Launch
    <2>. QED  BY <2>1, ProcessInv
  <1>. QED  BY <1>2, RegisterInv, UnregisterInv DEF Engines
-----------------------------------------------------------------------------
(***************************************************************************)
(* Steps of a request.                                                     *)
(***************************************************************************)
\* A step of one request: the counts and that request are all there is to show.
LEMMA OneRequest ==
    ASSUME RouterInv, NEW r \in Requests, NEW q, NEW m, Becomes(r, q, m), RequestOK(q),
           CountsExact', count' \in [Urls -> Nat]
    PROVE  RouterInv'
  <1>1. /\ req' = [req EXCEPT ![r] = q]
        /\ UNCHANGED <<options, up, registered, seq_by_url, url_of_key, seq_by_key>>
    BY DEF Becomes
  <1>2. TypeOK /\ RegistryOK /\ (\A s \in Requests : RequestOK(req[s])) /\ q \in RequestStates
    BY DEF RouterInv, RequestOK
  <1>3. TypeOK'
    BY <1>1, <1>2 DEF TypeOK
  <1>4. RegistryOK'
    BY <1>1, <1>2 DEF RegistryOK
  <1>5. \A s \in Requests : RequestOK(req[s])'
    <2>1. TAKE s \in Requests
    <2>2. PICK p : p = req'[s]
      OBVIOUS
    <2>3. RequestOK(p)
      BY <1>1, <1>2, <2>2 DEF TypeOK
    <2>. QED  BY <1>1, <2>2, <2>3 DEF RequestOK, Placed, Texted, Avoids, Recovers
  <1>. QED  BY <1>3, <1>4, <1>5 DEF RouterInv

\* A request that has ended is correct.
LEMMA EndedOK ==
    ASSUME NEW q \in RequestStates, NEW s \in {"answered", "failed"}, q.kind # "none",
           TextFits(q.text, q.max_new_tokens), s = "answered" => Whole(q.text)
    PROVE  /\ RequestOK(Ended(q, s)) /\ Ended(q, s).stage = s
  <1>1. PICK e : e = Ended(q, s)
    OBVIOUS
  <1>2. /\ e \in RequestStates /\ e.stage = s /\ e.url = NoUrl /\ e.next = NoUrl /\ e.text = q.text
        /\ e.max_new_tokens = q.max_new_tokens /\ e.kind = q.kind
    BY <1>1 DEF Ended, RequestStates, Stages
  <1>3. Placed(e)
    BY <1>2 DEF Placed, Holding
  <1>4. Texted(e)
    BY <1>2 DEF Texted
  <1>5. Avoids(e)
    BY <1>2 DEF Avoids, Holding
  <1>. QED  BY <1>1, <1>2, <1>3, <1>4, <1>5 DEF RequestOK

\* a request that ends gives its reservation back
LEMMA EndsInv ==
    ASSUME RouterInv, NEW r \in Requests, NEW q \in RequestStates, NEW s \in {"answered", "failed"},
           q.kind # "none", TextFits(q.text, q.max_new_tokens), s = "answered" => Whole(q.text),
           NEW n, Excludes(n, r), Becomes(r, Ended(q, s), n)
    PROVE  RouterInv'
  <1>1. PICK e : e = Ended(q, s)
    OBVIOUS
  <1>2. RequestOK(e) /\ e.stage \notin Holding /\ Becomes(r, e, n)
    BY <1>1, EndedOK DEF Holding
  <1>3. TypeOK
    BY DEF RouterInv
  <1>4. CountsExact' /\ count' \in [Urls -> Nat]
    BY <1>2, <1>3, CountsBecome
  <1>. QED  BY <1>2, <1>4, OneRequest

\* the URL an attempt may start at
MayTry(q, u) ==
    /\ u \in registered
    /\ ~options.to_healthy =>
          /\ q.kind = "v1" => q.broken = {}
          /\ q.kind = "proxy" => \A b \in q.broken : b[1] # u
          /\ Recovers(q) => Owner[u] = q.key /\ \A b \in q.broken : b[2] < seq_by_url[u]

\* a request as Try leaves it
Connected(q, i, v, t) ==
    [q EXCEPT !.stage = "connect", !.attempt = i, !.url = v, !.seq = seq_by_url[v],
              !.next = NoUrl, !.after = 0, !.text = Resent(t)]

\* A request is correct when it begins an attempt at a URL it may try.
LEMMA ConnectedOK ==
    ASSUME RouterInv, NEW q \in RequestStates, q.kind # "none", q.key \in Keys, NEW v, MayTry(q, v),
           NEW i \in Nat, NEW t, TextFits(t, q.max_new_tokens),
           NEW e, e = Connected(q, i, v, t)
    PROVE  RequestOK(e) /\ e.stage \in Holding /\ e.url = v /\ e.seq = seq_by_url[v]
  <1>0. q.max_new_tokens \in Nat
    BY DEF RequestStates
  <1>1. PICK x : x = Resent(t)
    OBVIOUS
  <1>2. TextFits(x, q.max_new_tokens) /\ Whole(x) /\ x \in Texts
    BY <1>0, <1>1, ResentFits DEF TextFits
  <1>3. TypeOK /\ RegistryOK
    BY DEF RouterInv
  <1>4. PICK s : s = seq_by_url[v]
    OBVIOUS
  <1>5. v \in Urls /\ v \in registered /\ s \in Nat /\ 1 <= s /\ s <= seq_by_key[Owner[v]]
    BY <1>3, <1>4 DEF MayTry, TypeOK, RegistryOK
  <1>6. /\ e \in RequestStates /\ e.stage = "connect" /\ e.url = v /\ e.seq = s /\ e.next = NoUrl /\ e.text = x
        /\ e.max_new_tokens = q.max_new_tokens /\ e.kind = q.kind /\ e.key = q.key /\ e.broken = q.broken
    BY <1>1, <1>2, <1>4, <1>5 DEF Connected, RequestStates, Stages
  <1>7. Placed(e)
    BY <1>5, <1>6 DEF Placed, Holding
  <1>8. Texted(e)
    BY <1>2, <1>6 DEF Texted
  <1>9. ~options.to_healthy => Avoids(e)
    BY <1>4, <1>6 DEF Avoids, MayTry, Recovers
  <1>. QED  BY <1>4, <1>6, <1>7, <1>8, <1>9 DEF RequestOK, Holding

\* An attempt begins: a nonstream request that moves takes the URL of its key; one that
\* moves at its last attempt leaves a reservation behind.
LEMMA TryInv ==
    ASSUME RouterInv, NEW r \in Requests, NEW q \in RequestStates, q.kind # "none", q.key \in Keys,
           TextFits(q.text, q.max_new_tokens),
           NEW u, MayTry(q, u), NEW i \in Nat, NEW t, TextFits(t, q.max_new_tokens),
           NEW n, Excludes(n, r), Try(r, q, u, i, t, n),
           q.kind = "nonstream" /\ Elsewhere(q.key, u) /\ i >= options.attempts => LeavesReservations
    PROVE  RouterInv'
  <1>1. PICK moves \in BOOLEAN : moves <=> q.kind = "nonstream" /\ Elsewhere(q.key, u)
    OBVIOUS
  <1>2. PICK v : v = IF moves THEN url_of_key[q.key] ELSE u
    OBVIOUS
  <1>3. PICK m : m = [n EXCEPT ![v] = @ + 1]
    OBVIOUS
  <1>4. PICK j : j = IF moves THEN i + 1 ELSE i
    OBVIOUS
  <1>5. TypeOK /\ RegistryOK
    BY DEF RouterInv
  <1>6. j \in Nat
    BY <1>4
  <1>7. MayTry(q, v)
    <2>1. CASE ~moves
      BY <1>2, <2>1
    <2>2. CASE moves
      <3>1. u \in registered /\ q.kind = "nonstream" /\ v = url_of_key[q.key] /\ v # NoUrl
        BY <1>1, <1>2, <2>2 DEF MayTry, Elsewhere
      <3>2. v \in registered /\ Owner[v] = q.key /\ seq_by_url[v] = seq_by_key[q.key]
        BY <1>5, <3>1 DEF TypeOK, RegistryOK
      <3>3. ASSUME ~options.to_healthy, NEW b \in q.broken PROVE b[2] < seq_by_url[v]
        <4>1. b[2] < seq_by_url[u] /\ seq_by_url[u] <= seq_by_key[q.key]
          BY <1>5, <3>1, <3>3 DEF MayTry, Recovers, RegistryOK
        <4>2. b[2] \in Nat /\ seq_by_url[u] \in Nat /\ seq_by_key[q.key] \in Nat
          BY <1>5, <3>1, <3>3 DEF RequestStates, TypeOK
        <4>. QED  BY <3>2, <4>1, <4>2
      <3>. QED  BY <3>1, <3>2, <3>3 DEF MayTry, Recovers
    <2>. QED  BY <2>1, <2>2
  <1>8. CASE moves /\ i >= options.attempts
    <2>1. Becomes(r, Ended(q, "failed"), m)
      BY <1>1, <1>2, <1>3, <1>8 DEF Try
    <2>2. RequestOK(Ended(q, "failed")) /\ Ended(q, "failed").stage = "failed"
      BY EndedOK
    <2>3. LeavesReservations
      BY <1>1, <1>8
    <2>4. CountsExact' /\ count' \in [Urls -> Nat]
      <3>1. PICK e : e = Ended(q, "failed")
        OBVIOUS
      <3>2. e.stage \notin Holding /\ v \in registered
        BY <1>7, <2>2, <3>1 DEF Holding, MayTry
      <3>. QED  BY <1>3, <1>5, <2>1, <2>3, <3>1, <3>2, CountsBecome
    <2>. QED  BY <2>1, <2>2, <2>4, OneRequest
  <1>9. CASE ~(moves /\ i >= options.attempts)
    <2>1. PICK e : e = Connected(q, j, v, t)
      OBVIOUS
    <2>2. Becomes(r, e, m)
      BY <1>1, <1>2, <1>3, <1>4, <1>9, <2>1 DEF Try, Connected
    <2>3. RequestOK(e) /\ e.stage \in Holding /\ e.url = v /\ e.seq = seq_by_url[v]
      BY <1>6, <1>7, <2>1, ConnectedOK
    <2>4. v \in registered
      BY <1>7 DEF MayTry
    <2>5. CountsExact' /\ count' \in [Urls -> Nat]
      BY <1>3, <1>5, <2>2, <2>3, <2>4, CountsBecome
    <2>. QED  BY <2>2, <2>3, <2>5, OneRequest
  <1>. QED  BY <1>8, <1>9

\* The check at the top of the streaming loop.
LEMMA LoopedOK ==
    ASSUME RouterInv, NEW q, RequestOK(q), q.kind = "generate", q.stage \in {"connect", "stream"},
           NEW e, e = Looped(q)
    PROVE  RequestOK(e) /\ e.stage \in Holding /\ e.url = q.url /\ e.seq = q.seq
  <1>1. q \in RequestStates /\ Placed(q) /\ Texted(q) /\ TypeOK /\ RegistryOK
    BY DEF RequestOK, RouterInv
  <1>2. q.stage \in Holding /\ q.url \in Urls /\ q.key \in Keys /\ q.next = NoUrl
    BY <1>1 DEF Holding, Placed
  <1>3. Whole(q.text) /\ TextFits(q.text, q.max_new_tokens)
    BY <1>1 DEF Texted
  <1>4. PICK next : next = url_of_key[q.key]
    OBVIOUS
  <1>5. next \in Urls \cup {NoUrl}
    BY <1>1, <1>2, <1>4 DEF TypeOK
  <1>6. CASE Elsewhere(q.key, q.url)
    <2>1. e = [q EXCEPT !.stage = "reroute", !.next = next]
      BY <1>4, <1>6 DEF Looped
    <2>2. /\ e \in RequestStates /\ e.stage = "reroute" /\ e.next = next /\ e.url = q.url /\ e.seq = q.seq
          /\ e.kind = q.kind /\ e.key = q.key /\ e.broken = q.broken /\ e.text = q.text
          /\ e.max_new_tokens = q.max_new_tokens
      BY <1>1, <1>5, <2>1 DEF RequestStates, Stages
    <2>3. Placed(e)
      BY <1>1, <1>2, <2>2 DEF Placed, Holding
    <2>4. Texted(e)
      BY <1>3, <2>2 DEF Texted
    <2>5. ASSUME ~options.to_healthy PROVE Avoids(e)
      <3>1. Avoids(q)
        BY <2>5 DEF RequestOK
      <3>2. Owner[q.url] = q.key /\ \A b \in q.broken : b[2] < q.seq
        BY <1>2, <3>1 DEF Avoids, Recovers
      <3>3. q.seq <= seq_by_key[q.key]
        BY <1>1, <1>2, <3>2 DEF Placed
      <3>4. ASSUME next # NoUrl PROVE Owner[next] = q.key /\ seq_by_url[next] = seq_by_key[q.key]
        BY <1>1, <1>2, <1>4, <3>4 DEF RegistryOK
      <3>5. ASSUME next # NoUrl, NEW b \in q.broken PROVE b[2] < seq_by_url[next]
        <4>1. PICK x, y, z : x = b[2] /\ y = q.seq /\ z = seq_by_key[q.key]
          OBVIOUS
        <4>2. x \in Nat /\ y \in Nat /\ z \in Nat /\ x < y /\ y <= z
          BY <1>1, <1>2, <3>2, <3>3, <3>5, <4>1 DEF RequestStates, TypeOK
        <4>3. x < z
          BY <4>2
        <4>. QED  BY <3>4, <3>5, <4>1, <4>3
      <3>. QED  BY <2>2, <3>2, <3>4, <3>5, <1>2 DEF Avoids, Recovers
    <2>. QED  BY <2>2, <2>3, <2>4, <2>5 DEF RequestOK, Holding
  <1>7. CASE ~Elsewhere(q.key, q.url)
    <2>1. e = [q EXCEPT !.stage = "stream"]
      BY <1>7 DEF Looped
    <2>2. /\ e \in RequestStates /\ e.stage = "stream" /\ e.next = NoUrl /\ e.url = q.url /\ e.seq = q.seq
          /\ e.kind = q.kind /\ e.key = q.key /\ e.broken = q.broken /\ e.text = q.text
          /\ e.max_new_tokens = q.max_new_tokens
      BY <1>1, <1>2, <2>1 DEF RequestStates, Stages
    <2>3. Placed(e)
      BY <1>1, <1>2, <2>2 DEF Placed, Holding
    <2>4. Texted(e)
      BY <1>3, <2>2 DEF Texted
    <2>5. ASSUME ~options.to_healthy PROVE Avoids(e)
      <3>1. Avoids(q)
        BY <2>5 DEF RequestOK
      <3>. QED  BY <1>2, <2>2, <3>1 DEF Avoids, Recovers
    <2>. QED  BY <2>2, <2>3, <2>4, <2>5 DEF RequestOK, Holding
  <1>. QED  BY <1>6, <1>7

\* a step that keeps the reservation
LEMMA KeptInv ==
    ASSUME RouterInv, NEW r \in Requests, NEW e, RequestOK(e), Becomes(r, e, count),
           req[r].stage \in Holding, e.stage \in Holding, e.url = req[r].url, e.seq = req[r].seq
    PROVE  RouterInv'
  <1>1. TypeOK /\ CountsExact
    BY DEF RouterInv
  <1>2. CountsExact' /\ count' \in [Urls -> Nat]
    BY <1>1, CountsKept
  <1>3. PICK n : n = count
    OBVIOUS
  <1>. QED  BY <1>2, <1>3, OneRequest

\* what RouterInv says of one request
LEMMA RequestFacts ==
    ASSUME RouterInv, NEW r \in Requests, NEW q, q = req[r]
    PROVE  /\ RequestOK(q) /\ q \in RequestStates /\ TextFits(q.text, q.max_new_tokens)
           /\ q.max_new_tokens \in Nat /\ q.attempt \in Nat /\ TypeOK /\ RegistryOK /\ CountsExact
           /\ q.stage \notin {"wait", "failed"} => Whole(q.text)
           /\ q.stage # "new" => q.kind # "none"
           /\ q.stage \in Holding => q.url \in Urls /\ q.key \in Keys
  <1>1. RequestOK(q) /\ TypeOK /\ RegistryOK /\ CountsExact
    BY DEF RouterInv
  <1>2. q \in RequestStates /\ Placed(q) /\ Texted(q)
    BY <1>1 DEF RequestOK
  <1>3. q.max_new_tokens \in Nat /\ q.attempt \in Nat
    BY <1>2 DEF RequestStates
  <1>. QED  BY <1>1, <1>2, <1>3 DEF Placed, Texted

\* _use_url and the first attempt.
LEMMA ArriveInv ==
    ASSUME RouterInv, NEW r \in Requests, Arrive(r)
    PROVE  RouterInv'
  <1>1. PICK q, n : q = req[r] /\ n = count
    OBVIOUS
  <1>2. q.stage = "new" /\ q.kind # "none"
    BY <1>1 DEF Arrive
  <1>3. /\ RequestOK(q) /\ q \in RequestStates /\ TextFits(q.text, q.max_new_tokens)
        /\ q.max_new_tokens \in Nat /\ TypeOK /\ CountsExact
    BY <1>1, RequestFacts
  <1>4. Excludes(n, r)
    BY <1>1, <1>2, <1>3, UnheldCounts DEF Holding
  <1>5. CASE Becomes(r, Ended(q, "failed"), n)
    BY <1>2, <1>3, <1>4, <1>5, EndsInv
  <1>6. ASSUME NEW u \in LeastLoaded({}, count), Try(r, [q EXCEPT !.key = Owner[u]], u, 0, NewText, n)
        PROVE  RouterInv'
    <2>1. PICK e : e = [q EXCEPT !.key = Owner[u]]
      OBVIOUS
    <2>2. u \in registered /\ u \in Urls /\ Owner[u] \in Keys
      BY <1>3, <1>6, UrlsAssumption DEF LeastLoaded, TypeOK
    <2>3. /\ e \in RequestStates /\ e.key = Owner[u] /\ e.kind = q.kind /\ e.text = q.text
          /\ e.max_new_tokens = q.max_new_tokens /\ e.broken = q.broken
      BY <1>3, <2>1, <2>2 DEF RequestStates
    <2>4. ~options.to_healthy => q.broken = {}
      BY <1>2, <1>3 DEF RequestOK, Avoids
    <2>5. MayTry(e, u)
      BY <2>2, <2>3, <2>4 DEF MayTry
    <2>6. 0 >= options.attempts => LeavesReservations
      <3>1. options.attempts \in Nat
        BY <1>3 DEF TypeOK, OptionsSet
      <3>. QED  BY <3>1 DEF LeavesReservations
    <2>7. TextFits(NewText, e.max_new_tokens)
      BY <1>3, <2>3, NewTextFits
    <2>8. PICK t : t = NewText
      OBVIOUS
    <2>9. Try(r, e, u, 0, t, n)
      BY <1>6, <2>1, <2>8
    <2>. QED  BY <1>2, <1>3, <1>4, <2>2, <2>3, <2>5, <2>6, <2>7, <2>8, <2>9, TryInv
  <1>. QED  BY <1>1, <1>5, <1>6 DEF Arrive

\* Connect and Poll: the check is all that happens.
LEMMA LoopInv ==
    ASSUME RouterInv, NEW r \in Requests, Connect(r) \/ Poll(r)
    PROVE  RouterInv'
  <1>1. PICK q, e : q = req[r] /\ e = Looped(q)
    OBVIOUS
  <1>2. q.stage \in {"connect", "stream"} /\ Becomes(r, e, count)
    BY <1>1 DEF Connect, Poll
  <1>3. RequestOK(q)
    BY <1>1, RequestFacts
  <1>4. q.kind = "generate"
    BY <1>1, <1>3 DEF Connect, Poll, RequestOK, Placed
  <1>5. RequestOK(e) /\ e.stage \in Holding /\ e.url = q.url /\ e.seq = q.seq
    BY <1>1, <1>2, <1>3, <1>4, LoopedOK
  <1>6. req[r].stage \in Holding
    BY <1>1, <1>2 DEF Holding
  <1>. QED  BY <1>1, <1>2, <1>5, <1>6, KeptInv

\* A chunk arrives.
LEMMA LineInv ==
    ASSUME RouterInv, NEW r \in Requests, Line(r)
    PROVE  RouterInv'
  <1>1. PICK q : q = req[r]
    OBVIOUS
  <1>2. q.stage = "stream" /\ ~IsOver(q)
    BY <1>1 DEF Line
  <1>3. /\ RequestOK(q) /\ q \in RequestStates /\ TextFits(q.text, q.max_new_tokens)
        /\ q.max_new_tokens \in Nat /\ q.attempt \in Nat /\ Whole(q.text)
    BY <1>1, <1>2, RequestFacts
  <1>4. PICK token \in {q.attempt + 1, EndToken} :
           LET t == [q.text EXCEPT !.got = Append(@, token), !.lines = @ + 1]
           IN  Becomes(r, Looped([q EXCEPT !.text = IF t.lines >= Coalesce THEN Flushed(t) ELSE t]), count)
    BY <1>1 DEF Line
  <1>5. token \in Nat
    BY <1>3 DEF EndToken
  <1>6. PICK t : t = [q.text EXCEPT !.got = Append(@, token), !.lines = @ + 1]
    OBVIOUS
  <1>7. PICK x : x = IF t.lines >= Coalesce THEN Flushed(t) ELSE t
    OBVIOUS
  <1>8. PICK p : p = [q EXCEPT !.text = x]
    OBVIOUS
  <1>9. PICK e : e = Looped(p)
    OBVIOUS
  <1>10. Becomes(r, e, count)
    BY <1>4, <1>6, <1>7, <1>8, <1>9
  <1>11. TextFits(t, q.max_new_tokens) /\ Whole(t)
    <2>1. Len(q.text.sent) + Len(q.text.got) < q.max_new_tokens
      <3>1. PICK a, b, c : a = Len(q.text.sent) /\ b = Len(q.text.got) /\ c = q.max_new_tokens
        OBVIOUS
      <3>2. a \in Nat /\ b \in Nat /\ c \in Nat
        BY <1>3, <3>1, TextFields
      <3>3. ~(a + b >= c)
        BY <1>2, <3>1 DEF IsOver
      <3>4. a + b < c
        BY <3>2, <3>3
      <3>. QED  BY <3>1, <3>4
    <2>. QED  BY <1>3, <1>5, <1>6, <2>1, LineFits
  <1>12. TextFits(x, q.max_new_tokens) /\ Whole(x) /\ x \in Texts
    <2>1. TextFits(x, q.max_new_tokens) /\ Whole(x)
      BY <1>3, <1>7, <1>11, FlushedFits
    <2>. QED  BY <2>1 DEF TextFits
  <1>13. RequestOK(p) /\ p.kind = "generate" /\ p.stage = "stream" /\ p.url = q.url /\ p.seq = q.seq
    <2>1. /\ p \in RequestStates /\ p.text = x /\ p.stage = q.stage /\ p.url = q.url /\ p.seq = q.seq
          /\ p.kind = q.kind /\ p.key = q.key /\ p.next = q.next /\ p.broken = q.broken
          /\ p.max_new_tokens = q.max_new_tokens
      BY <1>3, <1>8, <1>12 DEF RequestStates
    <2>2. Placed(q) /\ (~options.to_healthy => Avoids(q))
      BY <1>3 DEF RequestOK
    <2>3. Placed(p)
      BY <2>1, <2>2 DEF Placed
    <2>4. Texted(p)
      BY <1>12, <2>1 DEF Texted
    <2>5. ~options.to_healthy => Avoids(p)
      BY <1>2, <2>1, <2>2 DEF Avoids, Recovers
    <2>. QED  BY <1>2, <2>1, <2>2, <2>3, <2>4, <2>5 DEF RequestOK, Placed
  <1>14. RequestOK(e) /\ e.stage \in Holding /\ e.url = p.url /\ e.seq = p.seq
    BY <1>9, <1>13, LoopedOK
  <1>15. req[r].stage \in Holding
    BY <1>1, <1>2 DEF Holding
  <1>. QED  BY <1>1, <1>10, <1>13, <1>14, <1>15, KeptInv

\* a request that holds a reservation fails
LEMMA FailInv ==
    ASSUME RouterInv, NEW r \in Requests, req[r].stage \in Holding,
           NEW q \in RequestStates, q.kind # "none", TextFits(q.text, q.max_new_tokens),
           q.url = req[r].url, q.seq = req[r].seq, Fail(r, q)
    PROVE  RouterInv'
  <1>1. PICK n : n = Finished(q)
    OBVIOUS
  <1>2. Excludes(n, r)
    BY <1>1, ReleasedCounts DEF RouterInv
  <1>3. Becomes(r, Ended(q, "failed"), n)
    BY <1>1 DEF Fail
  <1>. QED  BY <1>2, <1>3, EndsInv

\* data: [DONE].
LEMMA DoneInv ==
    ASSUME RouterInv, NEW r \in Requests, Done(r)
    PROVE  RouterInv'
  <1>1. PICK q, n : q = req[r] /\ n = Finished(q)
    OBVIOUS
  <1>2. q.stage = "stream" /\ Becomes(r, Ended([q EXCEPT !.text = Flushed(@)], "answered"), n)
    BY <1>1 DEF Done
  <1>3. /\ q \in RequestStates /\ TextFits(q.text, q.max_new_tokens) /\ Whole(q.text)
        /\ q.max_new_tokens \in Nat /\ q.kind # "none" /\ TypeOK /\ CountsExact
    BY <1>1, <1>2, RequestFacts
  <1>4. PICK x : x = Flushed(q.text)
    OBVIOUS
  <1>5. TextFits(x, q.max_new_tokens) /\ Whole(x) /\ x \in Texts
    <2>1. TextFits(x, q.max_new_tokens) /\ Whole(x)
      BY <1>3, <1>4, FlushedFits
    <2>. QED  BY <2>1 DEF TextFits
  <1>6. PICK p : p = [q EXCEPT !.text = x]
    OBVIOUS
  <1>7. p \in RequestStates /\ p.text = x /\ p.kind = q.kind /\ p.max_new_tokens = q.max_new_tokens
    BY <1>3, <1>5, <1>6 DEF RequestStates
  <1>8. Becomes(r, Ended(p, "answered"), n)
    BY <1>2, <1>4, <1>6
  <1>9. Excludes(n, r)
    BY <1>1, <1>2, <1>3, ReleasedCounts DEF Holding
  <1>. QED  BY <1>3, <1>5, <1>7, <1>8, <1>9, EndsInv

\* The response of the other endpoints.
LEMMA RepliedInv ==
    ASSUME RouterInv, NEW r \in Requests, Replied(r)
    PROVE  RouterInv'
  <1>1. PICK q, n : q = req[r] /\ n = Finished(q)
    OBVIOUS
  <1>2. q.stage = "connect" /\ Becomes(r, Ended(q, "answered"), n)
    BY <1>1 DEF Replied
  <1>3. /\ q \in RequestStates /\ TextFits(q.text, q.max_new_tokens) /\ Whole(q.text)
        /\ q.kind # "none" /\ TypeOK /\ CountsExact
    BY <1>1, <1>2, RequestFacts
  <1>4. Excludes(n, r)
    BY <1>1, <1>2, <1>3, ReleasedCounts DEF Holding
  <1>. QED  BY <1>2, <1>3, <1>4, EndsInv

\* Refused and WaitTimesOut: the request fails.
LEMMA SimpleFailInv ==
    ASSUME RouterInv, NEW r \in Requests, Refused(r) \/ WaitTimesOut(r)
    PROVE  RouterInv'
  <1>1. PICK q : q = req[r]
    OBVIOUS
  <1>2. q.stage \in {"connect", "stream", "wait"} /\ Fail(r, q)
    BY <1>1 DEF Refused, WaitTimesOut
  <1>3. q \in RequestStates /\ TextFits(q.text, q.max_new_tokens) /\ q.kind # "none"
    BY <1>1, <1>2, RequestFacts
  <1>4. req[r].stage \in Holding
    BY <1>1, <1>2 DEF Holding
  <1>. QED  BY <1>1, <1>2, <1>3, <1>4, FailInv

\* _resolve_failed_worker_url: another worker, or a wait for a sequence above all that
\* broke.
LEMMA ResolveInv ==
    ASSUME RouterInv, NEW r \in Requests, req[r].stage \in Holding,
           NEW q \in RequestStates, q.kind \in {"generate", "nonstream"}, q.key \in Keys,
           q.url = req[r].url, q.seq = req[r].seq, TextFits(q.text, q.max_new_tokens),
           ~options.to_healthy => Owner[q.url] = q.key /\ \A b \in q.broken : b[2] <= q.seq,
           NEW t, TextFits(t, q.max_new_tokens), Resolve(r, q, t)
    PROVE  RouterInv'
  <1>1. PICK n : n = Finished(q)
    OBVIOUS
  <1>2. TypeOK /\ CountsExact /\ q.attempt + 1 \in Nat
    BY DEF RouterInv, RequestStates
  <1>3. Excludes(n, r)
    BY <1>1, <1>2, ReleasedCounts
  <1>4. ASSUME options.to_healthy, NEW u \in LeastLoaded({q.url}, count), Try(r, q, u, q.attempt + 1, t, n)
        PROVE  RouterInv'
    <2>1. MayTry(q, u)
      BY <1>4 DEF MayTry, LeastLoaded
    <2>2. LeavesReservations
      BY <1>4 DEF LeavesReservations
    <2>3. PICK i : i = q.attempt + 1
      OBVIOUS
    <2>4. Try(r, q, u, i, t, n) /\ i \in Nat
      BY <1>2, <1>4, <2>3
    <2>. QED  BY <1>3, <2>1, <2>2, <2>4, TryInv
  <1>5. PICK after : after = (CHOOSE s \in {seq_by_key[q.key], seq_by_url[q.url]} :
                                 \A m \in {seq_by_key[q.key], seq_by_url[q.url]} : m <= s)
    OBVIOUS
  <1>6. PICK e : e = [q EXCEPT !.stage = "wait", !.next = NoUrl, !.text = t, !.after = after]
    OBVIOUS
  <1>7. CASE Becomes(r, e, count)
    <2>1. req[r].url \in Urls /\ req[r].key \in Keys /\ Placed(req[r])
      BY DEF RouterInv, RequestOK, Placed
    <2>2. after \in Nat /\ seq_by_key[q.key] <= after
      <3>1. PICK a, b : a = seq_by_key[q.key] /\ b = seq_by_url[q.url]
        OBVIOUS
      <3>2. a \in Nat /\ b \in Nat
        BY <1>2, <2>1, <3>1 DEF TypeOK
      <3>3. \E s \in {a, b} : \A m \in {a, b} : m <= s
        <4>1. CASE a <= b
          BY <3>2, <4>1
        <4>2. CASE ~(a <= b)
          <5>1. b <= a /\ a <= a
            BY <3>2, <4>2
          <5>. QED  BY <5>1
        <4>. QED  BY <4>1, <4>2
      <3>4. after \in {a, b} /\ \A m \in {a, b} : m <= after
        BY <1>5, <3>1, <3>3
      <3>. QED  BY <3>1, <3>2, <3>4
    <2>3. /\ e \in RequestStates /\ e.stage = "wait" /\ e.next = NoUrl /\ e.text = t /\ e.after = after
          /\ e.url = q.url /\ e.seq = q.seq /\ e.kind = q.kind /\ e.key = q.key /\ e.broken = q.broken
          /\ e.max_new_tokens = q.max_new_tokens
      <3>1. t \in Texts
        BY DEF TextFits
      <3>. QED  BY <1>6, <2>2, <3>1 DEF RequestStates, Stages
    <2>4. Placed(e)
      BY <2>1, <2>3 DEF Placed, Holding
    <2>5. Texted(e)
      BY <2>3 DEF Texted
    <2>6. ASSUME ~options.to_healthy PROVE Avoids(e)
      <3>1. ASSUME NEW b \in q.broken PROVE b[2] <= after
        <4>1. PICK x, y, z : x = b[2] /\ y = q.seq /\ z = seq_by_key[q.key]
          OBVIOUS
        <4>2. x <= y
          BY <2>6, <3>1, <4>1
        <4>3. y <= z
          BY <2>1, <2>6, <4>1 DEF Placed
        <4>4. x \in Nat /\ y \in Nat /\ z \in Nat /\ z <= after
          BY <1>2, <2>2, <3>1, <4>1 DEF RequestStates, TypeOK
        <4>5. x <= after
          BY <2>2, <4>2, <4>3, <4>4
        <4>. QED  BY <4>1, <4>5
      <3>. QED  BY <2>3, <2>6, <3>1 DEF Avoids, Recovers
    <2>7. RequestOK(e) /\ e.stage \in Holding
      BY <2>3, <2>4, <2>5, <2>6 DEF RequestOK, Holding
    <2>. QED  BY <1>7, <2>3, <2>7, KeptInv
  <1>8. \/ \E u \in IF options.to_healthy THEN LeastLoaded({q.url}, count) ELSE {} :
               Try(r, q, u, q.attempt + 1, t, n)
        \/ Becomes(r, e, count)
    BY <1>1, <1>5, <1>6 DEF Resolve
  <1>. QED  BY <1>4, <1>7, <1>8

\* A connection breaks.
LEMMA BreaksInv ==
    ASSUME RouterInv, NEW r \in Requests, Breaks(r)
    PROVE  RouterInv'
  <1>1. PICK p : p = req[r]
    OBVIOUS
  <1>2. PICK q : q = [p EXCEPT !.broken = @ \cup {<<p.url, p.seq>>}]
    OBVIOUS
  <1>3. PICK n : n = Finished(q)
    OBVIOUS
  <1>4. /\ RequestOK(p) /\ p \in RequestStates /\ TextFits(p.text, p.max_new_tokens)
        /\ p.max_new_tokens \in Nat /\ p.attempt \in Nat /\ TypeOK /\ RegistryOK /\ CountsExact
    BY <1>1, RequestFacts
  <1>5. q.stage = p.stage /\ p.stage \in {"connect", "stream"}
    <2>1. q.stage = p.stage
      BY <1>2, <1>4 DEF RequestStates
    <2>2. q.stage \in {"connect", "stream"}
      BY <1>1, <1>2 DEF Breaks
    <2>. QED  BY <2>1, <2>2
  <1>6. p.url \in Urls /\ p.key \in Keys /\ p.kind # "none" /\ Whole(p.text) /\ p.stage \in Holding
        /\ p.stage # "wait" /\ p.seq \in Nat
    BY <1>1, <1>4, <1>5, RequestFacts DEF Holding, RequestStates
  <1>7. /\ q \in RequestStates /\ q.url = p.url /\ q.seq = p.seq /\ q.kind = p.kind /\ q.key = p.key
        /\ q.attempt = p.attempt /\ q.text = p.text /\ q.max_new_tokens = p.max_new_tokens
        /\ q.broken = p.broken \cup {<<p.url, p.seq>>}
    <2>1. p.broken \cup {<<p.url, p.seq>>} \in SUBSET (Urls \X Nat)
      BY <1>4, <1>6 DEF RequestStates
    <2>. QED  BY <1>2, <1>4, <2>1 DEF RequestStates
  <1>8. Excludes(n, r)
    BY <1>1, <1>3, <1>4, <1>6, <1>7, ReleasedCounts
  <1>9. CASE q.kind \in {"generate", "nonstream"} /\ Resolve(r, q, Rewound(q.text))
    <2>1. PICK t : t = Rewound(q.text)
      OBVIOUS
    <2>2. TextFits(t, q.max_new_tokens) /\ Resolve(r, q, t)
      BY <1>4, <1>6, <1>7, <1>9, <2>1, RewoundFits
    <2>3. ~options.to_healthy => Owner[q.url] = q.key /\ \A b \in q.broken : b[2] <= q.seq
      <3>. SUFFICES ASSUME ~options.to_healthy
                    PROVE  Owner[q.url] = q.key /\ \A b \in q.broken : b[2] <= q.seq
        OBVIOUS
      <3>1. Owner[p.url] = p.key /\ \A b \in p.broken : b[2] < p.seq
        BY <1>4, <1>6, <1>7, <1>9 DEF RequestOK, Avoids, Recovers
      <3>2. \A b \in p.broken : b[2] \in Nat
        BY <1>4 DEF RequestStates
      <3>3. \A b \in p.broken : b[2] <= p.seq
        BY <1>6, <3>1, <3>2
      <3>4. <<p.url, p.seq>>[2] = p.seq /\ p.seq <= p.seq
        BY <1>6
      <3>. QED  BY <1>7, <3>1, <3>3, <3>4
    <2>. QED  BY <1>1, <1>4, <1>6, <1>7, <1>9, <2>2, <2>3, ResolveInv
  <1>10. ASSUME q.kind = "proxy", NEW u \in LeastLoaded({b[1] : b \in q.broken}, n),
                Try(r, q, u, q.attempt + 1, NewText, n)
         PROVE  RouterInv'
    <2>1. u \in registered /\ \A b \in q.broken : b[1] # u
      BY <1>10 DEF LeastLoaded
    <2>2. MayTry(q, u)
      BY <1>10, <2>1 DEF MayTry, Recovers
    <2>3. PICK i, t : i = q.attempt + 1 /\ t = NewText
      OBVIOUS
    <2>4. TextFits(t, q.max_new_tokens) /\ i \in Nat /\ Try(r, q, u, i, t, n)
      BY <1>4, <1>7, <1>10, <2>3, NewTextFits
    <2>. QED  BY <1>4, <1>6, <1>7, <1>8, <1>10, <2>2, <2>4, TryInv
  <1>11. CASE Fail(r, q)
    BY <1>1, <1>4, <1>6, <1>7, <1>11, FailInv
  <1>12. \/ q.kind \in {"generate", "nonstream"} /\ Resolve(r, q, Rewound(q.text))
         \/ q.kind = "proxy" /\ \E u \in LeastLoaded({b[1] : b \in q.broken}, n) :
                                    Try(r, q, u, q.attempt + 1, NewText, n)
         \/ Fail(r, q)
    BY <1>1, <1>2, <1>3 DEF Breaks
  <1>. QED  BY <1>9, <1>10, <1>11, <1>12

\* A reroute goes on.
LEMMA RerouteInv ==
    ASSUME RouterInv, NEW r \in Requests, Reroute(r)
    PROVE  RouterInv'
  <1>1. PICK q, n : q = req[r] /\ n = Finished(q)
    OBVIOUS
  <1>2. q.stage = "reroute" /\ q.stage \in Holding
    BY <1>1 DEF Reroute, Holding
  <1>3. /\ RequestOK(q) /\ q \in RequestStates /\ TextFits(q.text, q.max_new_tokens) /\ Whole(q.text)
        /\ q.max_new_tokens \in Nat /\ q.attempt \in Nat /\ TypeOK /\ RegistryOK /\ CountsExact
        /\ q.kind # "none" /\ q.url \in Urls /\ q.key \in Keys
    BY <1>1, <1>2, RequestFacts
  <1>4. q.kind = "generate"
    BY <1>2, <1>3 DEF RequestOK, Placed
  <1>5. Excludes(n, r)
    BY <1>1, <1>2, <1>3, ReleasedCounts
  <1>6. PICK t : t = Kept(q.text)
    OBVIOUS
  <1>7. TextFits(t, q.max_new_tokens)
    BY <1>3, <1>6, RewoundFits
  <1>8. CASE Resolve(r, q, t)
    <2>1. ~options.to_healthy => Owner[q.url] = q.key /\ \A b \in q.broken : b[2] <= q.seq
      <3>. SUFFICES ASSUME ~options.to_healthy
                    PROVE  Owner[q.url] = q.key /\ \A b \in q.broken : b[2] <= q.seq
        OBVIOUS
      <3>1. Owner[q.url] = q.key /\ \A b \in q.broken : b[2] < q.seq
        BY <1>2, <1>3, <1>4 DEF RequestOK, Avoids, Recovers
      <3>2. q.seq \in Nat /\ \A b \in q.broken : b[2] \in Nat
        BY <1>3 DEF RequestStates
      <3>. QED  BY <3>1, <3>2
    <2>. QED  BY <1>1, <1>2, <1>3, <1>4, <1>7, <1>8, <2>1, ResolveInv
  <1>9. CASE q.next \in registered /\ Try(r, q, q.next, q.attempt + 1, t, n)
    <2>1. PICK u, i : u = q.next /\ i = q.attempt + 1
      OBVIOUS
    <2>2. u \in registered /\ u # NoUrl /\ i \in Nat /\ Try(r, q, u, i, t, n)
      BY <1>3, <1>9, <2>1, UrlsAssumption DEF TypeOK
    <2>3. MayTry(q, u)
      BY <1>2, <1>3, <1>4, <2>1, <2>2 DEF MayTry, RequestOK, Avoids, Recovers
    <2>. QED  BY <1>3, <1>4, <1>5, <1>7, <2>2, <2>3, TryInv
  <1>10. CASE Fail(r, q)
    BY <1>1, <1>2, <1>3, <1>10, FailInv
  <1>11. \/ Resolve(r, q, t) \/ Fail(r, q)
         \/ q.next \in registered /\ Try(r, q, q.next, q.attempt + 1, t, n)
    BY <1>1, <1>6 DEF Reroute
  <1>. QED  BY <1>8, <1>9, <1>10, <1>11

\* A wait ends: the key has a URL of a later sequence than all that broke.
LEMMA RecoveredInv ==
    ASSUME RouterInv, NEW r \in Requests, Recovered(r)
    PROVE  RouterInv'
  <1>1. PICK q, n, u, i, t : /\ q = req[r] /\ n = Finished(q) /\ u = url_of_key[q.key]
                             /\ i = q.attempt + 1 /\ t = q.text
    OBVIOUS
  <1>2. q.stage = "wait" /\ q.stage \in Holding /\ u # NoUrl /\ seq_by_key[q.key] > q.after
        /\ Try(r, q, u, i, t, n)
    BY <1>1 DEF Recovered, HasRecovered, Holding
  <1>3. /\ RequestOK(q) /\ q \in RequestStates /\ TextFits(q.text, q.max_new_tokens)
        /\ q.max_new_tokens \in Nat /\ q.attempt \in Nat /\ TypeOK /\ RegistryOK /\ CountsExact
        /\ q.kind # "none" /\ q.url \in Urls /\ q.key \in Keys
    BY <1>1, <1>2, RequestFacts
  <1>4. i \in Nat
    BY <1>1, <1>3
  <1>5. Excludes(n, r)
    BY <1>1, <1>2, <1>3, ReleasedCounts
  <1>6. q.kind \in {"generate", "nonstream"}
    BY <1>2, <1>3 DEF RequestOK, Placed
  <1>7. u \in registered /\ Owner[u] = q.key /\ seq_by_url[u] = seq_by_key[q.key]
    BY <1>1, <1>2, <1>3 DEF TypeOK, RegistryOK
  <1>8. ASSUME ~options.to_healthy, NEW b \in q.broken PROVE b[2] < seq_by_url[u]
    <2>1. PICK x, y, z : x = b[2] /\ y = q.after /\ z = seq_by_key[q.key]
      OBVIOUS
    <2>2. x <= y
      BY <1>2, <1>3, <1>6, <1>8, <2>1 DEF RequestOK, Avoids, Recovers
    <2>3. x \in Nat /\ y \in Nat /\ z \in Nat /\ z > y
      BY <1>2, <1>3, <1>8, <2>1 DEF RequestStates, TypeOK
    <2>4. x < z
      BY <2>2, <2>3
    <2>. QED  BY <1>7, <2>1, <2>4
  <1>9. MayTry(q, u)
    BY <1>6, <1>7, <1>8 DEF MayTry
  <1>10. ~Elsewhere(q.key, u)
    BY <1>1, <1>7 DEF Elsewhere
  <1>. QED  BY <1>1, <1>2, <1>3, <1>4, <1>5, <1>9, <1>10, TryInv
-----------------------------------------------------------------------------
(***************************************************************************)
(* The theorems.                                                           *)
(***************************************************************************)
\* In every reachable state the registry is consistent, the counts are right, and every
\* request has a reservation, a text and a next URL that fit (router.py).
THEOREM RouterInvAlways == Spec => []RouterInv
  <1>1. Init => RouterInv
    <2>. SUFFICES ASSUME Init PROVE RouterInv
      OBVIOUS
    <2>1. PICK s \in Setups :
             /\ options = s.options
             /\ req = [r \in Requests |->
                      [stage |-> "new", kind |-> s.requests[r].kind,
                       max_new_tokens |-> s.requests[r].max_new_tokens, key |-> NoKey, attempt |-> 0,
                       url |-> NoUrl, seq |-> 0, next |-> NoUrl, after |-> 0,
                       broken |-> {}, text |-> NewText]]
      BY DEF Init
    <2>2. s.options \in OptionsSet /\ s.requests \in [Requests -> [kind : Kinds, max_new_tokens : Nat]]
      BY <2>1, RequestsAssumption
    <2>3. \A k \in Keys : url_of_key[k] \in First /\ Owner[url_of_key[k]] = k
      BY UrlsAssumption DEF Init
    <2>4. \A r \in Requests : RequestOK(req[r])
      <3>1. TAKE r \in Requests
      <3>2. PICK q : q = req[r]
        OBVIOUS
      <3>3. PICK kind, max : kind = s.requests[r].kind /\ max = s.requests[r].max_new_tokens
        OBVIOUS
      <3>4. kind \in Kinds /\ max \in Nat
        BY <2>2, <3>3
      <3>5. q = [stage |-> "new", kind |-> kind, max_new_tokens |-> max, key |-> NoKey, attempt |-> 0,
                 url |-> NoUrl, seq |-> 0, next |-> NoUrl, after |-> 0, broken |-> {}, text |-> NewText]
        BY <2>1, <3>2, <3>3
      <3>6. NewText \in Texts /\ TextFits(NewText, max) /\ Whole(NewText)
        <4>1. TextFits(NewText, max) /\ Whole(NewText)
          BY <3>4, NewTextFits
        <4>. QED  BY <4>1 DEF TextFits
      <3>7. q \in RequestStates
        BY <3>4, <3>5, <3>6 DEF RequestStates, Stages
      <3>8. Placed(q) /\ Texted(q) /\ Avoids(q)
        BY <3>5, <3>6 DEF Placed, Texted, Avoids, Holding
      <3>. QED  BY <3>2, <3>7, <3>8 DEF RequestOK
    <2>5. TypeOK
      <3>1. options \in OptionsSet
        BY <2>1, <2>2
      <3>2. url_of_key \in [Keys -> registered \cup {NoUrl}]
        BY <2>3 DEF Init
      <3>3. req \in [Requests -> RequestStates]
        BY <2>1, <2>4 DEF RequestOK
      <3>. QED  BY <3>1, <3>2, <3>3, UrlsAssumption DEF Init, TypeOK
    <2>6. RegistryOK
      BY <2>3, UrlsAssumption DEF Init, RegistryOK
    <2>7. CountsExact
      <3>1. \A u \in registered : Holders(u) = {}
        BY <2>1 DEF Holders, Holding
      <3>2. Cardinality({}) = 0
        BY FS_EmptySet
      <3>3. \A u \in registered : count[u] = 0
        BY UrlsAssumption DEF Init
      <3>4. \A u \in registered : count[u] = Cardinality(Holders(u)) /\ count[u] >= Cardinality(Holders(u))
        BY <3>1, <3>2, <3>3
      <3>. QED  BY <3>4 DEF CountsExact
    <2>. QED  BY <2>4, <2>5, <2>6, <2>7 DEF RouterInv
  <1>2. RouterInv /\ [Next]_vars => RouterInv'
    <2>. SUFFICES ASSUME RouterInv, [Next]_vars PROVE RouterInv'
      OBVIOUS
    <2>1. ASSUME NEW r \in Requests, Steps(r) PROVE RouterInv'
      BY <2>1, ArriveInv, LoopInv, LineInv, DoneInv, SimpleFailInv, RepliedInv, BreaksInv,
           RerouteInv,
         RecoveredInv DEF Steps
    <2>2. ASSUME NEW u \in Urls, Engines(u) PROVE RouterInv'
      BY <2>2, EnginesInv
    <2>3. CASE UNCHANGED vars
      <3>1. up \subseteq Urls
        BY DEF RouterInv, TypeOK
      <3>. QED  BY <2>3, <3>1, ProcessInv DEF vars
    <2>. QED  BY <2>1, <2>2, <2>3 DEF Next
  <1>. QED  BY <1>1, <1>2, PTL DEF Spec

\* All variables are typed; no count of a URL falls below zero (_finish_url).
THEOREM TypeCorrect == Spec => []TypeOK
  <1>1. RouterInv => TypeOK
    BY DEF RouterInv
  <1>. QED  BY <1>1, RouterInvAlways, PTL

\* No worker is taken for less loaded than it is, and the load is exact but for the
\* reservations the model says may be left behind (_use_url, _reserve_url, _finish_url,
\* add_worker, remove_worker), in whatever order registrations, failures and releases come.
THEOREM CountsAlwaysExact == Spec => []CountsExact
  <1>1. RouterInv => CountsExact
    BY DEF RouterInv
  <1>. QED  BY <1>1, RouterInvAlways, PTL

\* No request is sent again to an incarnation it saw break, without to_healthy
\* (_wait_for_worker_recovery, proxy), however often engines come back on the same URL.
THEOREM FailedAlwaysAvoided == Spec => []FailedIncarnationAvoided
  <1>1. RouterInv => FailedIncarnationAvoided
    <2>. SUFFICES ASSUME RouterInv, ~options.to_healthy, NEW r \in Requests, req[r].stage = "connect"
                  PROVE  <<req[r].url, req[r].seq>> \notin req[r].broken
      BY DEF FailedIncarnationAvoided
    <2>1. PICK q : q = req[r]
      OBVIOUS
    <2>2. RequestOK(q) /\ Placed(q) /\ Avoids(q) /\ q \in RequestStates /\ q.stage = "connect"
      BY <2>1 DEF RouterInv, RequestOK
    <2>3. q.stage \in Holding /\ q.kind \in {"generate", "nonstream", "proxy", "v1"}
      BY <2>2 DEF Placed, RequestStates, Kinds, Holding
    <2>4. q.seq \in Nat /\ <<q.url, q.seq>>[1] = q.url /\ <<q.url, q.seq>>[2] = q.seq
      BY <2>2 DEF RequestStates
    <2>5. CASE q.kind = "v1"
      BY <2>1, <2>2, <2>3, <2>5 DEF Avoids
    <2>6. CASE q.kind = "proxy"
      BY <2>1, <2>2, <2>3, <2>4, <2>6 DEF Avoids
    <2>7. CASE q.kind \in {"generate", "nonstream"}
      <3>1. \A b \in q.broken : b[2] < q.seq
        BY <2>2, <2>3, <2>7 DEF Avoids, Recovers
      <3>. QED  BY <2>1, <2>4, <3>1
    <2>. QED  BY <2>3, <2>5, <2>6, <2>7
  <1>. QED  BY <1>1, RouterInvAlways, PTL

\* No token is lost, doubled or out of place over any number of attempts
\* (flush_pending_chunk, _build_generate_recovery_payload).
THEOREM TokensAlwaysIntact == Spec => []TokenIntegrity
  <1>1. RouterInv => TokenIntegrity
    <2>. SUFFICES ASSUME RouterInv, NEW r \in Requests
                  PROVE  LET q == req[r] t == q.text IN
                           /\ q.stage \in {"connect", "stream", "reroute", "answered"} =>
                                t.out = t.sent \o SubSeq(t.got, 1, t.taken)
                           /\ Len(t.out) <= q.max_new_tokens
                           /\ Len(t.saved) <= Len(t.out) /\ t.saved = SubSeq(t.out, 1, Len(t.saved))
      BY DEF TokenIntegrity
    <2>1. PICK q : q = req[r]
      OBVIOUS
    <2>2. TextFits(q.text, q.max_new_tokens) /\ (q.stage \notin {"wait", "failed"} => Whole(q.text))
      BY <2>1, RequestFacts
    <2>. QED  BY <2>1, <2>2 DEF TextFits, Whole
  <1>. QED  BY <1>1, RouterInvAlways, PTL

\* A break costs less than one checkpoint interval (flush_pending_chunk).
THEOREM LossAlwaysBounded == Spec => []LossBounded
  <1>1. RouterInv => LossBounded
    <2>. SUFFICES ASSUME RouterInv, NEW r \in Requests
                  PROVE  Len(req[r].text.out) - Len(req[r].text.saved) < CheckpointTokens
      BY DEF LossBounded
    <2>1. PICK q : q = req[r]
      OBVIOUS
    <2>2. PICK a, b, c, m : a = Len(q.text.out) /\ b = Len(q.text.saved) /\ c = CheckpointTokens /\ m = Multiple(b)
      OBVIOUS
    <2>3. a \in Nat /\ b \in Nat /\ a < m
      <3>1. TextFits(q.text, q.max_new_tokens) /\ q.max_new_tokens \in Nat
        BY <2>1, RequestFacts
      <3>. QED  BY <2>2, <3>1, TextFields
    <2>4. c \in Nat /\ m \in Nat /\ m <= b + c
      BY <2>2, <2>3, MultipleBounds, BoundsAssumption
    <2>5. a - b < c
      BY <2>3, <2>4
    <2>. QED  BY <2>1, <2>2, <2>5
  <1>. QED  BY <1>1, RouterInvAlways, PTL
=============================================================================
