------------------------ MODULE ContainerPool_proofs ------------------------
(***************************************************************************)
(* Proofs about ContainerPool: the counts of the warm pool, who has which  *)
(* container, and that the pool implements ContainerSupply.                *)
(***************************************************************************)
EXTENDS ContainerPool, FiniteSetTheorems, SequenceTheorems, WellFoundedInduction, TLAPS

Positions(q, i) == {k \in DOMAIN q : q[k] = i}
WarmIn(idl) == UNION {ToSet(idl[i]) : i \in Images}
PrewarmRecords == [queue : Seq(Images), pending : Nat, by : [Images -> Nat], next : Nat]

\* the pending counts of p are what is queued, and w, which is being made
PendingExact(p, w) ==
    /\ p \in PrewarmRecords
    /\ p.pending = Len(p.queue) + (IF w = NoImage THEN 0 ELSE 1)
    /\ \A i \in Images : p.by[i] = Cardinality(Positions(p.queue, i)) + (IF w = i THEN 1 ELSE 0)

WithinCaps(p, idl) ==
    /\ TotalCap > 0 => Cardinality(WarmIn(idl)) + p.pending <= TotalCap
    /\ \A i \in Images : Len(idl[i]) + p.by[i] <= PerImage

\* the types, the counts, and a container in hand just where a handler has one
Counts ==
    /\ PendingExact(prewarm, worker)
    /\ WithinCaps(prewarm, idle)
    /\ IsFiniteSet(active)

Paired ==
    \A r \in Requests : cont[r] # NoContainer <=> pc[r] \in {"checking", "acquired"} \union Holding

WarmInv == TypeOK /\ Counts /\ Paired
-----------------------------------------------------------------------------
(***************************************************************************)
(* Sets, queues and counts.                                                *)
(***************************************************************************)
\* A set of numbers that is not empty has a least one.
LEMMA LeastNatural ==
    ASSUME NEW S, S \subseteq Nat, S # {}
    PROVE  \E x \in S : \A y \in S : x <= y
  <1>. DEFINE R == OpToRel(<, Nat)
  <1>1. PICK x \in S : \A y \in S : ~ (<<y, x>> \in R)
    <2>1. IsWellFoundedOn(R, Nat)
      BY NatLessThanWellFounded
    <2>. HIDE DEF R
    <2>. QED  BY <2>1, WFMin, Zenon
  <1>2. ASSUME NEW y \in S PROVE ~(y < x)
    <2>1. <<y, x>> \in Nat \X Nat
      OBVIOUS
    <2>. QED  BY <1>1, <2>1 DEF OpToRel
  <1>. HIDE DEF R
  <1>3. \A y \in S : y \in Nat /\ x \in Nat
    OBVIOUS
  <1>. QED  BY <1>2, <1>3

\* A sequence has at most as many members as places.
LEMMA SeqFinite ==
    ASSUME NEW S, NEW s \in Seq(S)
    PROVE  IsFiniteSet(ToSet(s)) /\ Cardinality(ToSet(s)) <= Len(s)
  <1>1. s \in Surjection(1..Len(s), ToSet(s))
    BY DEF Surjection, ToSet
  <1>2. Len(s) \in Nat
    OBVIOUS
  <1>3. IsFiniteSet(1..Len(s)) /\ Cardinality(1..Len(s)) = Len(s)
    BY <1>2, FS_Interval
  <1>. QED  BY <1>1, <1>3, FS_Surjection

\* The warm containers are finitely many, since the images are.
LEMMA WarmFinite ==
    ASSUME NEW idl \in [Images -> Seq(Containers)]
    PROVE  IsFiniteSet(WarmIn(idl))
  <1>. DEFINE f == [i \in Images |-> ToSet(idl[i])]
              T == {ToSet(idl[i]) : i \in Images}
  <1>1. f \in Surjection(Images, T)
    BY DEF Surjection
  <1>2. IsFiniteSet(T)
    BY <1>1, ConfigAssumption, FS_Surjection
  <1>3. \A U \in T : IsFiniteSet(U)
    BY SeqFinite
  <1>. QED  BY <1>2, <1>3, FS_UNION DEF WarmIn

\* An image is queued finitely often.
LEMMA PositionsFinite ==
    ASSUME NEW q \in Seq(Images), NEW i
    PROVE  IsFiniteSet(Positions(q, i)) /\ Cardinality(Positions(q, i)) \in Nat
  <1>1. Positions(q, i) \subseteq 1..Len(q) /\ Len(q) \in Nat
    BY DEF Positions
  <1>2. IsFiniteSet(1..Len(q))
    BY <1>1, FS_Interval
  <1>3. IsFiniteSet(Positions(q, i))
    BY <1>1, <1>2, FS_Subset
  <1>. QED  BY <1>3, FS_CardinalityType

\* Queueing an image adds one place for it and none for others.
LEMMA PositionsAppend ==
    ASSUME NEW q \in Seq(Images), NEW j \in Images, NEW i \in Images
    PROVE  Cardinality(Positions(Append(q, j), i)) = Cardinality(Positions(q, i)) + (IF i = j THEN 1 ELSE 0)
  <1>1. Positions(Append(q, j), i) = IF i = j THEN Positions(q, i) \union {Len(q) + 1} ELSE Positions(q, i)
    BY AppendProperties DEF Positions
  <1>2. Len(q) + 1 \notin Positions(q, i)
    BY DEF Positions
  <1>3. IsFiniteSet(Positions(q, i)) /\ Cardinality(Positions(q, i)) \in Nat
    BY PositionsFinite
  <1>4. Cardinality(Positions(q, i) \union {Len(q) + 1}) = Cardinality(Positions(q, i)) + 1
    BY <1>2, <1>3, FS_AddElement
  <1>. QED  BY <1>1, <1>3, <1>4

\* Taking the first image off the queue removes one place for it and none for others.
LEMMA PositionsTail ==
    ASSUME NEW q \in Seq(Images), q # <<>>, NEW i \in Images
    PROVE  Cardinality(Positions(q, i)) = Cardinality(Positions(Tail(q), i)) + (IF i = Head(q) THEN 1 ELSE 0)
  <1>. DEFINE T == Positions(Tail(q), i)
              S == Positions(q, i) \ {1}
              f == [k \in T |-> k + 1]
  <1>0. Tail(q) \in Seq(Images) /\ Len(q) \in Nat \ {0} /\ Len(Tail(q)) = Len(q) - 1
        /\ \A k \in 1..Len(Tail(q)) : Tail(q)[k] = q[k + 1]
    BY HeadTailProperties
  <1>1. f \in [T -> S]
    BY <1>0 DEF Positions
  <1>2. ASSUME NEW k \in S PROVE \E l \in T : f[l] = k
    <2>1. k - 1 \in T /\ f[k - 1] = k
      BY <1>0 DEF Positions
    <2>. QED  BY <2>1
  <1>3. f \in Injection(T, S)
    BY <1>0, <1>1 DEF Injection, IsInjective, Positions
  <1>4. ExistsBijection(T, S)
    BY <1>1, <1>2, <1>3 DEF ExistsBijection, Bijection, Surjection
  <1>5. IsFiniteSet(T) /\ Cardinality(T) \in Nat /\ IsFiniteSet(Positions(q, i))
    BY <1>0, PositionsFinite
  <1>6. Cardinality(S) = Cardinality(T)
    BY <1>4, <1>5, FS_Bijection
  <1>7. Cardinality(S) = IF 1 \in Positions(q, i) THEN Cardinality(Positions(q, i)) - 1 ELSE Cardinality(Positions(q, i))
    BY <1>5, FS_RemoveElement
  <1>8. 1 \in Positions(q, i) <=> i = Head(q)
    BY <1>0 DEF Positions
  <1>9. Cardinality(Positions(q, i)) \in Nat
    BY PositionsFinite
  <1>. QED  BY <1>5, <1>6, <1>7, <1>8, <1>9

\* _enqueue_prewarm_unlocked adds nothing, or one creation of an image that has room, below
\* the cap on all containers.
LEMMA EnqueueCases ==
    ASSUME NEW p \in PrewarmRecords, NEW idl \in [Images -> Seq(Containers)], NEW act, IsFiniteSet(act),
           NEW preferred
    PROVE  \/ Enqueue(p, idl, act, preferred) = p
           \/ \E i \in Images, n \in Nat :
                 /\ TotalCap > 0 => Cardinality(WarmIn(idl)) + p.pending < TotalCap
                 /\ Len(idl[i]) + p.by[i] < PerImage
                 /\ Enqueue(p, idl, act, preferred) =
                        [queue |-> Append(p.queue, i), pending |-> p.pending + 1,
                         by |-> [p.by EXCEPT ![i] = @ + 1], next |-> n]
  <1>. DEFINE known == Cardinality(UNION {ToSet(idl[i]) : i \in Images}) + p.pending + Cardinality(act)
              fits(i) == Len(idl[i]) + p.by[i] < PerImage
              m == Len(PrewarmImages)
              turn(k) == PrewarmImages[((p.next + k - 1) % m) + 1]
              turns == {k \in 1..m : fits(turn(k))}
              add(i, next) == [queue |-> Append(p.queue, i), pending |-> p.pending + 1,
                               by |-> [p.by EXCEPT ![i] = @ + 1], next |-> next]
  <1>1. p.pending \in Nat /\ p.next \in Nat /\ m \in Nat /\ PrewarmImages \in Seq(Images)
    BY ConfigAssumption DEF PrewarmRecords
  <1>2. Cardinality(WarmIn(idl)) \in Nat /\ Cardinality(act) \in Nat
    BY WarmFinite, FS_CardinalityType
  <1>3. ~(TotalCap > 0 /\ known >= TotalCap) => (TotalCap > 0 => Cardinality(WarmIn(idl)) + p.pending < TotalCap)
    BY <1>1, <1>2, ConfigAssumption DEF WarmIn
  <1>4. ASSUME turns # {}
        PROVE  /\ turn(Min(turns)) \in Images /\ fits(turn(Min(turns)))
               /\ (p.next + Min(turns)) % m \in Nat
    <2>1. turns \subseteq Nat
      OBVIOUS
    <2>2. Min(turns) \in turns
      BY <1>4, <2>1, LeastNatural DEF Min
    <2>3. PICK k \in 1..m : k = Min(turns) /\ fits(turn(k))
      BY <2>2
    <2>4. p.next + k - 1 \in Nat /\ p.next + k \in Nat /\ m \in Nat \ {0}
      BY <1>1
    <2>5. (p.next + k - 1) % m \in 0..(m - 1) /\ (p.next + k) % m \in 0..(m - 1)
      BY <2>4
    <2>6. ((p.next + k - 1) % m) + 1 \in 1..m
      BY <2>4, <2>5
    <2>7. turn(k) \in Images
      BY <1>1, <2>6
    <2>8. (p.next + k) % m \in Nat
      BY <2>5
    <2>. HIDE DEF turns, turn, fits
    <2>. QED  BY <2>3, <2>7, <2>8
  <1>5. preferred \in ToSet(PrewarmImages) => preferred \in Images
    BY <1>1 DEF ToSet
  <1>6. Enqueue(p, idl, act, preferred) =
            IF TotalCap > 0 /\ known >= TotalCap THEN p
            ELSE IF preferred \in ToSet(PrewarmImages) /\ fits(preferred) THEN add(preferred, p.next)
            ELSE IF turns = {} THEN p
            ELSE add(turn(Min(turns)), (p.next + Min(turns)) % m)
    BY DEF Enqueue
  <1>. HIDE DEF known, turns, turn, m
  <1>7. CASE TotalCap > 0 /\ known >= TotalCap
    BY <1>6, <1>7
  <1>8. CASE ~(TotalCap > 0 /\ known >= TotalCap)
    BY <1>1, <1>3, <1>4, <1>5, <1>6, <1>8
  <1>. QED  BY <1>7, <1>8

\* So it keeps the counts right and within the caps.
LEMMA EnqueueKeeps ==
    ASSUME NEW p, NEW w \in Images \union {NoImage}, NEW idl \in [Images -> Seq(Containers)],
           NEW act, IsFiniteSet(act), NEW preferred, PendingExact(p, w), WithinCaps(p, idl)
    PROVE  PendingExact(Enqueue(p, idl, act, preferred), w) /\ WithinCaps(Enqueue(p, idl, act, preferred), idl)
  <1>. DEFINE q == Enqueue(p, idl, act, preferred)
  <1>0. p \in PrewarmRecords /\ Cardinality(WarmIn(idl)) \in Nat
    BY WarmFinite, FS_CardinalityType DEF PendingExact
  <1>1. CASE q = p
    BY <1>1
  <1>2. CASE q # p
    <2>1. PICK i \in Images, n \in Nat :
                 /\ TotalCap > 0 => Cardinality(WarmIn(idl)) + p.pending < TotalCap
                 /\ Len(idl[i]) + p.by[i] < PerImage
                 /\ q = [queue |-> Append(p.queue, i), pending |-> p.pending + 1,
                         by |-> [p.by EXCEPT ![i] = @ + 1], next |-> n]
      BY <1>0, <1>2, EnqueueCases
    <2>. HIDE DEF q
    <2>2. p.queue \in Seq(Images) /\ p.pending \in Nat /\ p.by \in [Images -> Nat]
      BY <1>0 DEF PrewarmRecords
    <2>3. /\ Append(p.queue, i) \in Seq(Images) /\ Len(Append(p.queue, i)) = Len(p.queue) + 1
          /\ Len(p.queue) \in Nat
      BY <2>2, AppendProperties
    <2>4. /\ q.queue = Append(p.queue, i) /\ q.pending = p.pending + 1
          /\ q.by \in [Images -> Nat] /\ q.by[i] = p.by[i] + 1
          /\ \A j \in Images \ {i} : q.by[j] = p.by[j]
          /\ q \in PrewarmRecords
      <3>1. q.queue = Append(p.queue, i) /\ q.pending = p.pending + 1 /\ q.by = [p.by EXCEPT ![i] = @ + 1]
        BY <2>1
      <3>2. [p.by EXCEPT ![i] = @ + 1] \in [Images -> Nat]
        BY <2>2
      <3>3. q \in PrewarmRecords
        BY <2>1, <2>2, <2>3, <3>2 DEF PrewarmRecords
      <3>. QED  BY <2>2, <3>1, <3>2, <3>3
    <2>5. q.pending = Len(q.queue) + (IF w = NoImage THEN 0 ELSE 1)
      <3>. DEFINE d == IF w = NoImage THEN 0 ELSE 1
      <3>1. p.pending = Len(p.queue) + d /\ d \in {0, 1}
        BY DEF PendingExact
      <3>2. Len(q.queue) = Len(p.queue) + 1 /\ q.pending = p.pending + 1
        BY <2>3, <2>4
      <3>. HIDE DEF d
      <3>3. q.pending = Len(q.queue) + d
        BY <2>2, <2>3, <3>1, <3>2
      <3>. QED  BY <3>3 DEF d
    <2>6. ASSUME NEW j \in Images
          PROVE  q.by[j] = Cardinality(Positions(q.queue, j)) + (IF w = j THEN 1 ELSE 0)
      <3>1. Cardinality(Positions(p.queue, j)) \in Nat
        BY <2>2, PositionsFinite
      <3>2. Cardinality(Positions(q.queue, j)) = Cardinality(Positions(p.queue, j)) + (IF j = i THEN 1 ELSE 0)
        BY <2>2, <2>4, PositionsAppend
      <3>3. p.by[j] = Cardinality(Positions(p.queue, j)) + (IF w = j THEN 1 ELSE 0)
        BY DEF PendingExact
      <3>. QED  BY <2>4, <3>1, <3>2, <3>3
    <2>7. WithinCaps(q, idl)
      <3>1. TotalCap > 0 => Cardinality(WarmIn(idl)) + q.pending <= TotalCap
        BY <1>0, <2>1, <2>2, <2>4, ConfigAssumption, SMTT(60)
      <3>2. ASSUME NEW j \in Images PROVE Len(idl[j]) + q.by[j] <= PerImage
        <4>1. CASE j = i
          <5>1. Len(idl[i]) \in Nat /\ p.by[i] \in Nat
            BY <2>2
          <5>. QED  BY <2>1, <2>4, <4>1, <5>1, ConfigAssumption
        <4>2. CASE j # i
          BY <2>4, <4>2 DEF WithinCaps
        <4>. QED  BY <4>1, <4>2
      <3>. QED  BY <3>1, <3>2 DEF WithinCaps
    <2>8. PendingExact(q, w)
      BY <2>4, <2>5, <2>6 DEF PendingExact
    <2>. QED  BY <2>7, <2>8 DEF q
  <1>. QED  BY <1>1, <1>2

\* Fill is a recursive function, which exists: no argument is the least without a value
LEMMA FillUnfolds ==
    ASSUME NEW p, NEW idl, NEW act
    PROVE  LET n == PerImage * Cardinality(Images)
           IN  /\ n \in Nat
               /\ \E f : /\ f = [k \in 0..n |-> IF k = 0 THEN p ELSE Enqueue(f[k - 1], idl, act, NoImage)]
                         /\ Fill(p, idl, act) = f[n]
  <1>. DEFINE Is(f, n) == f = [k \in 0..n |-> IF k = 0 THEN p ELSE Enqueue(f[k - 1], idl, act, NoImage)]
              N == PerImage * Cardinality(Images)
              Bad == {n \in Nat : ~ \E f : Is(f, n)}
  <1>1. N \in Nat
    <2>1. Cardinality(Images) \in Nat
      BY ConfigAssumption, FS_CardinalityType
    <2>. QED  BY <2>1, ConfigAssumption
  <1>2. Bad = {}
    <2>1. SUFFICES ASSUME Bad # {} PROVE FALSE
      OBVIOUS
    <2>2. PICK x \in Bad : \A y \in Bad : x <= y
      <3>1. Bad \subseteq Nat
        OBVIOUS
      <3>. HIDE DEF Bad
      <3>. QED  BY <2>1, <3>1, LeastNatural
    <2>3. CASE x = 0
      <3>1. Is([k \in 0..0 |-> p], 0)
        OBVIOUS
      <3>. QED  BY <2>3, <3>1
    <2>4. CASE x # 0
      <3>1. x - 1 \in Nat /\ x - 1 \notin Bad
        <4>1. x \in Nat
          OBVIOUS
        <4>2. x - 1 \in Nat /\ ~(x <= x - 1)
          BY <2>4, <4>1
        <4>. HIDE DEF Bad
        <4>. QED  BY <2>2, <4>2
      <3>2. PICK f : Is(f, x - 1)
        BY <3>1
      <3>. DEFINE g == [k \in 0..x |-> IF k = x THEN Enqueue(f[x - 1], idl, act, NoImage) ELSE f[k]]
      <3>3. ASSUME NEW k \in 0..x
            PROVE  g[k] = IF k = 0 THEN p ELSE Enqueue(g[k - 1], idl, act, NoImage)
        <4>1. CASE k = x
          <5>1. g[k] = Enqueue(f[x - 1], idl, act, NoImage) /\ g[x - 1] = f[x - 1]
            BY <3>1, <4>1
          <5>. QED  BY <2>4, <4>1, <5>1
        <4>2. CASE k # x
          <5>1. k \in 0..(x - 1) /\ g[k] = f[k] /\ (k # 0 => g[k - 1] = f[k - 1])
            BY <3>1, <4>2
          <5>2. f[k] = IF k = 0 THEN p ELSE Enqueue(f[k - 1], idl, act, NoImage)
            BY <3>2, <5>1
          <5>. QED  BY <5>1, <5>2
        <4>. QED  BY <4>1, <4>2
      <3>4. Is(g, x)
        BY <3>3
      <3>. QED  BY <3>4
    <2>. QED  BY <2>3, <2>4
  <1>3. PICK h : Is(h, N)
    BY <1>1, <1>2
  <1>. DEFINE filled == CHOOSE f : Is(f, N)
  <1>4. Is(filled, N)
    BY <1>3
  <1>5. Fill(p, idl, act) = filled[N]
    BY DEF Fill
  <1>. QED  BY <1>1, <1>4, <1>5

\* Every round of the loop keeps the counts right, so the loop does.
LEMMA FillKeeps ==
    ASSUME NEW p, NEW w \in Images \union {NoImage}, NEW idl \in [Images -> Seq(Containers)],
           NEW act, IsFiniteSet(act), PendingExact(p, w), WithinCaps(p, idl)
    PROVE  PendingExact(Fill(p, idl, act), w) /\ WithinCaps(Fill(p, idl, act), idl)
  <1>. DEFINE n == PerImage * Cardinality(Images)
  <1>1. PICK f : /\ f = [k \in 0..n |-> IF k = 0 THEN p ELSE Enqueue(f[k - 1], idl, act, NoImage)]
                 /\ Fill(p, idl, act) = f[n]
    BY FillUnfolds
  <1>2. n \in Nat
    BY FillUnfolds
  <1>. HIDE DEF n
  <1>. DEFINE Bad == {k \in 0..n : ~(PendingExact(f[k], w) /\ WithinCaps(f[k], idl))}
  <1>3. Bad = {}
    <2>1. SUFFICES ASSUME Bad # {} PROVE FALSE
      OBVIOUS
    <2>2. PICK x \in Bad : \A y \in Bad : x <= y
      <3>1. Bad \subseteq Nat
        OBVIOUS
      <3>. HIDE DEF Bad
      <3>. QED  BY <2>1, <3>1, LeastNatural
    <2>3. x # 0
      BY <1>1, <1>2
    <2>4. x - 1 \in 0..n /\ x - 1 \notin Bad
      BY <1>2, <2>2, <2>3
    <2>5. f[x] = Enqueue(f[x - 1], idl, act, NoImage)
      BY <1>1, <2>3
    <2>6. PendingExact(f[x - 1], w) /\ WithinCaps(f[x - 1], idl)
      BY <2>4
    <2>. QED  BY <2>5, <2>6, EnqueueKeeps
  <1>4. n \in 0..n
    BY <1>2
  <1>5. PendingExact(f[n], w) /\ WithinCaps(f[n], idl)
    BY <1>3, <1>4
  <1>. QED  BY <1>1, <1>5 DEF n
-----------------------------------------------------------------------------
(***************************************************************************)
(* Containers and queues of one image.                                     *)
(***************************************************************************)
\* The identity docker gives is nobody's.
LEMMA FreshIsFree ==
    ASSUME NEW c \in Containers, Fresh(c)
    PROVE  /\ c \in Containers /\ docker[c] = NoImage
           /\ c \notin Warm /\ c \notin active /\ c \notin InHand /\ c \notin inUse
  <1>1. PICK F : F = Free
    OBVIOUS
  <1>2. F \subseteq Nat /\ F # {}
    BY <1>1, ConfigAssumption DEF Free, Fresh
  <1>3. c \in F
    BY <1>1, <1>2, LeastNatural DEF Fresh, Min
  <1>. QED  BY <1>1, <1>3 DEF Free

\* _pop_idle_candidate takes the first container out of a queue.
LEMMA TailIdle ==
    ASSUME NEW s \in Seq(Containers), IsInjective(s), s # <<>>
    PROVE  /\ Tail(s) \in Seq(Containers) /\ IsInjective(Tail(s)) /\ Head(s) \in Containers
           /\ ToSet(Tail(s)) = ToSet(s) \ {Head(s)} /\ Head(s) \in ToSet(s)
           /\ Len(Tail(s)) < Len(s) /\ Len(Tail(s)) \in Nat /\ Len(s) \in Nat
  <1>1. /\ Head(s) \in Containers /\ Tail(s) \in Seq(Containers)
        /\ Len(s) \in Nat \ {0} /\ Len(Tail(s)) = Len(s) - 1
        /\ \A k \in 1..Len(Tail(s)) : Tail(s)[k] = s[k + 1]
        /\ Head(s) = s[1] /\ DOMAIN s = 1..Len(s) /\ DOMAIN Tail(s) = 1..Len(Tail(s))
    BY HeadTailProperties
  <1>2. IsInjective(Tail(s))
    <2>1. ASSUME NEW a \in DOMAIN Tail(s), NEW b \in DOMAIN Tail(s), Tail(s)[a] = Tail(s)[b]
          PROVE  a = b
      <3>1. s[a + 1] = s[b + 1] /\ a + 1 \in DOMAIN s /\ b + 1 \in DOMAIN s /\ a \in Nat /\ b \in Nat
        BY <1>1, <2>1
      <3>2. a + 1 = b + 1
        BY <3>1 DEF IsInjective
      <3>. QED  BY <3>1, <3>2
    <2>. QED  BY <2>1 DEF IsInjective
  <1>3. ToSet(Tail(s)) \subseteq ToSet(s) \ {Head(s)}
    <2>1. ASSUME NEW a \in DOMAIN Tail(s)
          PROVE  Tail(s)[a] \in ToSet(s) /\ Tail(s)[a] # Head(s)
      <3>1. Tail(s)[a] = s[a + 1] /\ a + 1 \in DOMAIN s /\ 1 \in DOMAIN s /\ a + 1 # 1
        BY <1>1
      <3>. QED  BY <1>1, <3>1 DEF IsInjective, ToSet
    <2>. QED  BY <2>1 DEF ToSet
  <1>4. ToSet(s) \ {Head(s)} \subseteq ToSet(Tail(s))
    <2>1. ASSUME NEW a \in DOMAIN s, s[a] # Head(s)
          PROVE  s[a] \in ToSet(Tail(s))
      <3>1. a - 1 \in DOMAIN Tail(s) /\ Tail(s)[a - 1] = s[a]
        BY <1>1, <2>1
      <3>. QED  BY <3>1 DEF ToSet
    <2>. QED  BY <2>1 DEF ToSet
  <1>5. Head(s) \in ToSet(s)
    BY <1>1 DEF ToSet
  <1>. QED  BY <1>1, <1>2, <1>3, <1>4, <1>5

\* A container that is not in a queue may be added to it.
LEMMA AppendIdle ==
    ASSUME NEW s \in Seq(Containers), IsInjective(s), NEW c \in Containers, c \notin ToSet(s)
    PROVE  /\ Append(s, c) \in Seq(Containers) /\ IsInjective(Append(s, c))
           /\ ToSet(Append(s, c)) = ToSet(s) \union {c}
           /\ Len(Append(s, c)) = Len(s) + 1 /\ Len(s) \in Nat
  <1>1. /\ Append(s, c) \in Seq(Containers) /\ Len(Append(s, c)) = Len(s) + 1 /\ Len(s) \in Nat
        /\ \A k \in 1..Len(s) : Append(s, c)[k] = s[k]
        /\ Append(s, c)[Len(s) + 1] = c
        /\ DOMAIN s = 1..Len(s) /\ DOMAIN Append(s, c) = 1..(Len(s) + 1)
    BY AppendProperties
  <1>2. \A k \in DOMAIN s : s[k] # c
    BY DEF ToSet
  <1>3. \A k \in DOMAIN Append(s, c) : k \in DOMAIN s \/ k = Len(s) + 1
    BY <1>1
  <1>4. IsInjective(Append(s, c))
    BY <1>1, <1>2, <1>3 DEF IsInjective
  <1>5. ToSet(Append(s, c)) \subseteq ToSet(s) \union {c}
    BY <1>1, <1>3 DEF ToSet
  <1>6. ToSet(s) \union {c} \subseteq ToSet(Append(s, c))
    <2>1. \A k \in DOMAIN s : k \in DOMAIN Append(s, c)
      BY <1>1
    <2>2. Len(s) + 1 \in DOMAIN Append(s, c)
      BY <1>1
    <2>. QED  BY <1>1, <2>1, <2>2 DEF ToSet
  <1>. QED  BY <1>1, <1>4, <1>5, <1>6
-----------------------------------------------------------------------------
(***************************************************************************)
(* The counts after each kind of step.                                     *)
(***************************************************************************)
\* An empty pool that is filled has its counts right.
LEMMA CountsInit == Init => Counts
  <1>. SUFFICES ASSUME Init PROVE Counts
    OBVIOUS
  <1>. DEFINE none == [i \in Images |-> <<>>]
  <1>0. <<>> \in Seq(Images) /\ <<>> \in Seq(Containers) /\ Len(<<>>) = 0
    OBVIOUS
  <1>1. none \in [Images -> Seq(Containers)] /\ \A i \in Images : Len(none[i]) = 0 /\ ToSet(none[i]) = {}
    BY <1>0 DEF ToSet
  <1>2. PendingExact(NothingPending, NoImage)
    <2>1. NothingPending \in PrewarmRecords
      BY <1>0 DEF NothingPending, PrewarmRecords
    <2>2. \A i \in Images : Cardinality(Positions(<<>>, i)) = 0
      BY FS_EmptySet DEF Positions
    <2>3. \A i \in Images : NoImage # i
      BY ConfigAssumption
    <2>. QED  BY <1>0, <2>1, <2>2, <2>3 DEF PendingExact, NothingPending
  <1>3. WithinCaps(NothingPending, none)
    <2>1. WarmIn(none) = {}
      BY <1>1 DEF WarmIn
    <2>2. Cardinality(WarmIn(none)) = 0
      BY <2>1, FS_EmptySet
    <2>. QED  BY <1>1, <2>2, ConfigAssumption DEF WithinCaps, NothingPending
  <1>4. IsFiniteSet({})
    BY FS_EmptySet
  <1>. HIDE DEF none
  <1>5. PendingExact(Fill(NothingPending, none, {}), NoImage) /\ WithinCaps(Fill(NothingPending, none, {}), none)
    BY <1>1, <1>2, <1>3, <1>4, FillKeeps
  <1>. QED  BY <1>4, <1>5 DEF Init, Counts, none

\* Fewer warm containers are within the caps too.
LEMMA CountsFewer ==
    ASSUME NEW p, NEW w \in Images \union {NoImage}, NEW idl \in [Images -> Seq(Containers)],
           NEW less \in [Images -> Seq(Containers)], PendingExact(p, w), WithinCaps(p, idl),
           WarmIn(less) \subseteq WarmIn(idl), \A i \in Images : Len(less[i]) <= Len(idl[i])
    PROVE  WithinCaps(p, less)
  <1>1. p.pending \in Nat /\ p.by \in [Images -> Nat]
    BY DEF PendingExact, PrewarmRecords
  <1>2. IsFiniteSet(WarmIn(idl)) /\ Cardinality(WarmIn(idl)) \in Nat
    BY WarmFinite, FS_CardinalityType
  <1>3. Cardinality(WarmIn(less)) <= Cardinality(WarmIn(idl)) /\ Cardinality(WarmIn(less)) \in Nat
    BY <1>2, FS_Subset, FS_CardinalityType
  <1>4. TotalCap > 0 => Cardinality(WarmIn(less)) + p.pending <= TotalCap
    BY <1>1, <1>2, <1>3, ConfigAssumption DEF WithinCaps
  <1>5. ASSUME NEW i \in Images PROVE Len(less[i]) + p.by[i] <= PerImage
    <2>1. Len(less[i]) \in Nat /\ Len(idl[i]) \in Nat /\ p.by[i] \in Nat /\ Len(idl[i]) + p.by[i] <= PerImage
          /\ Len(less[i]) <= Len(idl[i])
      BY <1>1 DEF WithinCaps
    <2>. QED  BY <2>1, ConfigAssumption
  <1>. QED  BY <1>4, <1>5 DEF WithinCaps

\* taking the head of the queue moves one pending creation from the queue to the thread
LEMMA CountsTaken ==
    ASSUME NEW p, NEW idl, PendingExact(p, NoImage), WithinCaps(p, idl), p.queue # <<>>
    PROVE  LET taken == [p EXCEPT !.queue = Tail(@)]
           IN  /\ Head(p.queue) \in Images
               /\ PendingExact(taken, Head(p.queue)) /\ WithinCaps(taken, idl)
  <1>. DEFINE taken == [p EXCEPT !.queue = Tail(@)]
  <1>1. p.queue \in Seq(Images) /\ p.pending \in Nat /\ p.by \in [Images -> Nat] /\ p.next \in Nat
        /\ p = [queue |-> p.queue, pending |-> p.pending, by |-> p.by, next |-> p.next]
    BY DEF PendingExact, PrewarmRecords
  <1>2. /\ Head(p.queue) \in Images /\ Tail(p.queue) \in Seq(Images)
        /\ Len(p.queue) \in Nat \ {0} /\ Len(Tail(p.queue)) = Len(p.queue) - 1
    BY <1>1, HeadTailProperties
  <1>3. taken = [p EXCEPT !.queue = Tail(p.queue)]
    BY <1>1
  <1>4. taken \in PrewarmRecords /\ taken.queue = Tail(p.queue) /\ taken.pending = p.pending /\ taken.by = p.by
    <2>1. \A t \in Seq(Images) :
              /\ [p EXCEPT !.queue = t] \in PrewarmRecords /\ [p EXCEPT !.queue = t].queue = t
              /\ [p EXCEPT !.queue = t].pending = p.pending /\ [p EXCEPT !.queue = t].by = p.by
      BY DEF PendingExact, PrewarmRecords
    <2>. QED  BY <1>2, <1>3, <2>1
  <1>. HIDE DEF taken
  <1>5. Head(p.queue) # NoImage
    BY <1>2, ConfigAssumption
  <1>6. taken.pending = Len(taken.queue) + 1
    BY <1>1, <1>2, <1>4 DEF PendingExact
  <1>7. ASSUME NEW i \in Images
        PROVE  taken.by[i] = Cardinality(Positions(taken.queue, i)) + (IF Head(p.queue) = i THEN 1 ELSE 0)
    <2>1. p.by[i] = Cardinality(Positions(p.queue, i)) + (IF NoImage = i THEN 1 ELSE 0)
      BY DEF PendingExact
    <2>2. NoImage # i
      BY ConfigAssumption
    <2>3. Cardinality(Positions(p.queue, i)) = Cardinality(Positions(Tail(p.queue), i)) + (IF i = Head(p.queue) THEN 1 ELSE 0)
      BY <1>1, PositionsTail
    <2>4. Cardinality(Positions(p.queue, i)) \in Nat
      BY <1>1, PositionsFinite
    <2>5. p.by[i] = Cardinality(Positions(p.queue, i))
      BY <2>1, <2>2, <2>4
    <2>. QED  BY <1>4, <2>3, <2>5
  <1>8. WithinCaps(taken, idl)
    BY <1>4 DEF WithinCaps
  <1>9. PendingExact(taken, Head(p.queue))
    BY <1>4, <1>5, <1>6, <1>7 DEF PendingExact
  <1>. QED  BY <1>2, <1>8, <1>9 DEF taken

\* when a creation has ended, one less is pending, and the container it made may be warm
LEMMA CountsResolved ==
    ASSUME NEW p, NEW w \in Images, NEW idl \in [Images -> Seq(Containers)],
           PendingExact(p, w), WithinCaps(p, idl)
    PROVE  LET ended == [p EXCEPT !.pending = IF @ > 0 THEN @ - 1 ELSE 0,
                                  !.by[w] = IF @ > 0 THEN @ - 1 ELSE 0]
           IN  /\ PendingExact(ended, NoImage)
               /\ ended.pending + 1 = p.pending /\ ended.pending \in Nat
               /\ ended.by[w] + 1 = p.by[w] /\ ended.by \in [Images -> Nat]
               /\ \A i \in Images \ {w} : ended.by[i] = p.by[i]
  <1>. DEFINE ended == [p EXCEPT !.pending = IF @ > 0 THEN @ - 1 ELSE 0,
                                 !.by[w] = IF @ > 0 THEN @ - 1 ELSE 0]
              b == [p.by EXCEPT ![w] = IF @ > 0 THEN @ - 1 ELSE 0]
  <1>1. p.queue \in Seq(Images) /\ p.pending \in Nat /\ p.by \in [Images -> Nat] /\ p.next \in Nat
        /\ p = [queue |-> p.queue, pending |-> p.pending, by |-> p.by, next |-> p.next]
    BY DEF PendingExact, PrewarmRecords
  <1>2. w # NoImage
    BY ConfigAssumption
  <1>3. p.pending = Len(p.queue) + 1 /\ Len(p.queue) \in Nat
    BY <1>1, <1>2 DEF PendingExact
  <1>4. p.by[w] = Cardinality(Positions(p.queue, w)) + 1 /\ Cardinality(Positions(p.queue, w)) \in Nat
    BY <1>1, PositionsFinite DEF PendingExact
  <1>5. b \in [Images -> Nat] /\ b[w] = Cardinality(Positions(p.queue, w)) /\ b[w] + 1 = p.by[w]
        /\ \A i \in Images \ {w} : b[i] = p.by[i]
    BY <1>1, <1>4
  <1>6. ended = [p EXCEPT !.pending = p.pending - 1, !.by = b]
    <2>1. \A n \in Nat, y \in Nat :
              [p EXCEPT !.pending = n, !.by[w] = y] = [p EXCEPT !.pending = n, !.by = [p.by EXCEPT ![w] = y]]
      BY DEF PendingExact, PrewarmRecords
    <2>2. p.pending - 1 \in Nat /\ p.by[w] - 1 \in Nat /\ p.pending > 0 /\ p.by[w] > 0
      BY <1>3, <1>4
    <2>3. ended = [p EXCEPT !.pending = p.pending - 1, !.by[w] = p.by[w] - 1]
      BY <2>2
    <2>4. b = [p.by EXCEPT ![w] = p.by[w] - 1]
      BY <2>2
    <2>. QED  BY <2>1, <2>2, <2>3, <2>4
  <1>7. /\ ended.queue = p.queue /\ ended.pending = Len(p.queue) /\ ended.by = b
        /\ ended \in PrewarmRecords
    <2>1. \A n \in Nat, f \in [Images -> Nat] :
              LET e == [p EXCEPT !.pending = n, !.by = f]
              IN  e \in PrewarmRecords /\ e.pending = n /\ e.by = f /\ e.queue = p.queue
      BY DEF PendingExact, PrewarmRecords
    <2>2. p.pending - 1 = Len(p.queue)
      BY <1>3
    <2>. HIDE DEF b, ended
    <2>. QED  BY <1>3, <1>5, <1>6, <2>1, <2>2, ZenonT(90)
  <1>. HIDE DEF b, ended
  <1>9. ASSUME NEW i \in Images
        PROVE  ended.by[i] = Cardinality(Positions(ended.queue, i)) + (IF NoImage = i THEN 1 ELSE 0)
    <2>1. Cardinality(Positions(p.queue, i)) \in Nat /\ NoImage # i
      BY <1>1, PositionsFinite, ConfigAssumption
    <2>2. CASE i = w
      BY <1>5, <1>7, <2>1, <2>2
    <2>3. CASE i # w
      <3>1. p.by[i] = Cardinality(Positions(p.queue, i)) + (IF w = i THEN 1 ELSE 0)
        BY DEF PendingExact
      <3>. QED  BY <1>5, <1>7, <2>1, <2>3, <3>1
    <2>. QED  BY <2>2, <2>3
  <1>10. ended.pending = Len(ended.queue) + (IF NoImage = NoImage THEN 0 ELSE 1)
    BY <1>3, <1>7
  <1>11. PendingExact(ended, NoImage)
    BY <1>7, <1>9, <1>10 DEF PendingExact
  <1>12. ended.pending + 1 = p.pending /\ ended.pending \in Nat
    BY <1>3, <1>7
  <1>. QED  BY <1>5, <1>7, <1>11, <1>12 DEF ended

\* An attempt to queue one more creation, or to fill, keeps the counts.
LEMMA RefillKeeps ==
    ASSUME WarmInv,
           \/ \E i : prewarm' = Enqueue(prewarm, idle, active, i)
           \/ prewarm' = Fill(prewarm, idle, active),
           UNCHANGED <<worker, idle, active>>
    PROVE  Counts'
  <1>1. worker \in Images \union {NoImage} /\ idle \in [Images -> Seq(Containers)] /\ IsFiniteSet(active)
        /\ PendingExact(prewarm, worker) /\ WithinCaps(prewarm, idle)
    BY DEF WarmInv, TypeOK, Counts
  <1>2. PendingExact(prewarm', worker) /\ WithinCaps(prewarm', idle)
    <2>1. CASE prewarm' = Fill(prewarm, idle, active)
      BY <1>1, <2>1, FillKeeps
    <2>2. CASE \E i : prewarm' = Enqueue(prewarm, idle, active, i)
      <3>1. PICK i : prewarm' = Enqueue(prewarm, idle, active, i)
        BY <2>2
      <3>2. PendingExact(Enqueue(prewarm, idle, active, i), worker)
            /\ WithinCaps(Enqueue(prewarm, idle, active, i), idle)
        BY <1>1, EnqueueKeeps
      <3>. QED  BY <3>1, <3>2
    <2>. QED  BY <2>1, <2>2
  <1>. QED  BY <1>1, <1>2 DEF Counts

\* So does a step that leaves the queue, the thread and the warm containers alone.
LEMMA QuietKeeps ==
    ASSUME WarmInv, UNCHANGED <<prewarm, worker, idle>>, IsFiniteSet(active')
    PROVE  Counts'
  BY DEF WarmInv, Counts

\* the thread has ended a creation, with a warm container more or without
LEMMA EndingKeeps ==
    ASSUME WarmInv, worker # NoImage, worker' = NoImage, active' = active,
           \/ idle' = idle
           \/ \E c \in Containers : c \notin Warm /\ idle' = [idle EXCEPT ![worker] = Append(@, c)],
           prewarm' = Fill(Resolved(worker), idle', active)
    PROVE  Counts' /\ idle' \in [Images -> Seq(Containers)] /\ \A i \in Images : IsInjective(idle'[i])
  <1>1. /\ worker \in Images /\ idle \in [Images -> Seq(Containers)] /\ IsFiniteSet(active)
        /\ \A i \in Images : IsInjective(idle[i])
        /\ PendingExact(prewarm, worker) /\ WithinCaps(prewarm, idle)
        /\ \A i \in Images : Len(idle[i]) \in Nat
    BY DEF WarmInv, TypeOK, Counts
  <1>2. PICK e : e = Resolved(worker)
    OBVIOUS
  <1>3. /\ PendingExact(e, NoImage)
        /\ e.pending + 1 = prewarm.pending /\ e.pending \in Nat
        /\ e.by[worker] + 1 = prewarm.by[worker] /\ e.by \in [Images -> Nat]
        /\ \A i \in Images \ {worker} : e.by[i] = prewarm.by[i]
    <2>. DEFINE ended == [prewarm EXCEPT !.pending = IF @ > 0 THEN @ - 1 ELSE 0,
                                         !.by[worker] = IF @ > 0 THEN @ - 1 ELSE 0]
    <2>1. /\ PendingExact(ended, NoImage)
          /\ ended.pending + 1 = prewarm.pending /\ ended.pending \in Nat
          /\ ended.by[worker] + 1 = prewarm.by[worker] /\ ended.by \in [Images -> Nat]
          /\ \A i \in Images \ {worker} : ended.by[i] = prewarm.by[i]
      <3>. HIDE DEF ended
      <3>. QED  BY <1>1, CountsResolved DEF ended
    <2>2. e = ended
      BY <1>2 DEF Resolved
    <2>. HIDE DEF ended
    <2>. QED  BY <2>1, <2>2
  <1>4. Cardinality(WarmIn(idle)) \in Nat /\ IsFiniteSet(WarmIn(idle))
    BY <1>1, WarmFinite, FS_CardinalityType
  <1>5. idle' \in [Images -> Seq(Containers)] /\ (\A i \in Images : IsInjective(idle'[i])) /\ WithinCaps(e, idle')
    <2>1. CASE idle' = idle
      <3>1. ASSUME NEW i \in Images PROVE Len(idle[i]) + e.by[i] <= PerImage
        <4>1. Len(idle[i]) + prewarm.by[i] <= PerImage /\ Len(idle[i]) \in Nat /\ e.by[i] \in Nat
          BY <1>1, <1>3 DEF WithinCaps
        <4>2. CASE i = worker
          BY <1>3, <4>1, <4>2, ConfigAssumption
        <4>3. CASE i # worker
          BY <1>3, <4>1, <4>3
        <4>. QED  BY <4>2, <4>3
      <3>2. TotalCap > 0 => Cardinality(WarmIn(idle)) + prewarm.pending <= TotalCap
        BY <1>1 DEF WithinCaps
      <3>3. TotalCap > 0 => Cardinality(WarmIn(idle)) + e.pending <= TotalCap
        BY <1>3, <1>4, <3>2, ConfigAssumption
      <3>. QED  BY <1>1, <2>1, <3>1, <3>3 DEF WithinCaps
    <2>2. CASE \E c \in Containers : c \notin Warm /\ idle' = [idle EXCEPT ![worker] = Append(@, c)]
      <3>1. PICK c \in Containers : c \notin WarmIn(idle) /\ idle' = [idle EXCEPT ![worker] = Append(@, c)]
        BY <2>2 DEF Warm, WarmIn
      <3>2. c \notin ToSet(idle[worker])
        BY <1>1, <3>1 DEF WarmIn
      <3>3. /\ Append(idle[worker], c) \in Seq(Containers) /\ IsInjective(Append(idle[worker], c))
            /\ ToSet(Append(idle[worker], c)) = ToSet(idle[worker]) \union {c}
            /\ Len(Append(idle[worker], c)) = Len(idle[worker]) + 1 /\ Len(idle[worker]) \in Nat
        BY <1>1, <3>1, <3>2, AppendIdle
      <3>4. /\ idle' \in [Images -> Seq(Containers)] /\ idle'[worker] = Append(idle[worker], c)
            /\ \A i \in Images \ {worker} : idle'[i] = idle[i]
        BY <1>1, <3>1, <3>3
      <3>5. \A i \in Images : IsInjective(idle'[i])
        BY <1>1, <3>3, <3>4
      <3>6. WarmIn(idle') = WarmIn(idle) \union {c}
        <4>1. WarmIn(idle') \subseteq WarmIn(idle) \union {c}
          <5>1. ASSUME NEW i \in Images, NEW x \in ToSet(idle'[i]) PROVE x \in WarmIn(idle) \union {c}
            <6>1. x \in ToSet(idle[i]) \union {c}
              BY <3>3, <3>4
            <6>. QED  BY <6>1 DEF WarmIn
          <5>. QED  BY <5>1 DEF WarmIn
        <4>2. WarmIn(idle) \union {c} \subseteq WarmIn(idle')
          <5>1. ASSUME NEW i \in Images, NEW x \in ToSet(idle[i]) PROVE x \in ToSet(idle'[i])
            BY <3>3, <3>4
          <5>2. c \in ToSet(idle'[worker])
            BY <3>3, <3>4
          <5>. QED  BY <1>1, <5>1, <5>2 DEF WarmIn
        <4>. QED  BY <4>1, <4>2
      <3>7. Cardinality(WarmIn(idle')) = Cardinality(WarmIn(idle)) + 1
        BY <1>4, <3>1, <3>6, FS_AddElement
      <3>8. TotalCap > 0 => Cardinality(WarmIn(idle')) + e.pending <= TotalCap
        <4>1. TotalCap > 0 => Cardinality(WarmIn(idle)) + prewarm.pending <= TotalCap
          BY <1>1 DEF WithinCaps
        <4>. QED  BY <1>3, <1>4, <3>7, <4>1, ConfigAssumption
      <3>9. ASSUME NEW i \in Images PROVE Len(idle'[i]) + e.by[i] <= PerImage
        <4>1. Len(idle[i]) + prewarm.by[i] <= PerImage
          BY <1>1 DEF WithinCaps
        <4>2. CASE i = worker
          <5>1. e.by[i] \in Nat /\ e.by[i] + 1 = prewarm.by[i] /\ Len(idle[i]) \in Nat
                /\ Len(idle'[i]) = Len(idle[i]) + 1
            BY <1>1, <1>3, <3>3, <3>4, <4>2
          <5>. QED  BY <4>1, <5>1, ConfigAssumption, SMTT(60)
        <4>3. CASE i # worker
          BY <1>3, <3>4, <4>1, <4>3
        <4>. QED  BY <4>2, <4>3
      <3>. QED  BY <3>4, <3>5, <3>8, <3>9 DEF WithinCaps
    <2>. QED  BY <2>1, <2>2
  <1>6. PendingExact(Fill(e, idle', active), NoImage) /\ WithinCaps(Fill(e, idle', active), idle')
    BY <1>1, <1>3, <1>5, FillKeeps
  <1>7. PendingExact(prewarm', NoImage) /\ WithinCaps(prewarm', idle')
    BY <1>2, <1>6
  <1>. QED  BY <1>1, <1>5, <1>7 DEF Counts

\* What is adopted after a restart is within the caps, and the queue starts again.
LEMMA RestartKeeps ==
    ASSUME WarmInv, Restart
    PROVE  Counts' /\ idle' \in [Images -> Seq(Containers)] /\ \A i \in Images : IsInjective(idle'[i])
  <1>1. ASSUME NEW i \in Images
        PROVE  idle'[i] \in Seq(Containers) /\ Len(idle'[i]) <= PerImage /\ IsInjective(idle'[i])
    <2>1. idle'[i] \in BoundedSeq(Adoptable, PerImage) /\ IsInjective(idle'[i])
      BY DEF Restart
    <2>2. PICK m \in 0..PerImage : idle'[i] \in [1..m -> Adoptable]
      BY <2>1 DEF BoundedSeq, SeqOf
    <2>3. Adoptable \subseteq Containers
      BY DEF Adoptable, Running
    <2>4. m \in Nat /\ m <= PerImage
      BY <2>2, ConfigAssumption
    <2>5. idle'[i] \in Seq(Containers) /\ Len(idle'[i]) = m
      <3>1. idle'[i] \in [1..m -> Containers]
        BY <2>2, <2>3
      <3>. QED  BY <2>4, <3>1
    <2>. QED  BY <2>1, <2>4, <2>5
  <1>2. idle' \in [Images -> Seq(Containers)]
    BY <1>1 DEF Restart
  <1>3. PendingExact(NothingPending, NoImage)
    <2>1. NothingPending \in PrewarmRecords
      BY DEF NothingPending, PrewarmRecords
    <2>2. \A i \in Images : Cardinality(Positions(<<>>, i)) = 0
      BY FS_EmptySet DEF Positions
    <2>3. \A i \in Images : NoImage # i
      BY ConfigAssumption
    <2>. QED  BY <2>1, <2>2, <2>3 DEF PendingExact, NothingPending
  <1>4. WithinCaps(NothingPending, idle')
    <2>1. TotalCap > 0 => Cardinality(WarmIn(idle')) <= TotalCap
      BY DEF Restart, Warm, WarmIn
    <2>2. Cardinality(WarmIn(idle')) \in Nat
      BY <1>2, WarmFinite, FS_CardinalityType
    <2>3. \A i \in Images : Len(idle'[i]) \in Nat
      BY <1>2
    <2>. QED  BY <1>1, <2>1, <2>2, <2>3, ConfigAssumption DEF WithinCaps, NothingPending
  <1>5. IsFiniteSet({})
    BY FS_EmptySet
  <1>6. PendingExact(Fill(NothingPending, idle', {}), NoImage) /\ WithinCaps(Fill(NothingPending, idle', {}), idle')
    BY <1>2, <1>3, <1>4, <1>5, FillKeeps
  <1>. QED  BY <1>1, <1>2, <1>5, <1>6 DEF Restart, Counts

IdleTyped == idle \in [Images -> Seq(Containers)] /\ \A i \in Images : IsInjective(idle[i])

\* The same for a handler that refills.
LEMMA FillStep ==
    ASSUME WarmInv,
           \/ \E i : prewarm' = Enqueue(prewarm, idle, active, i)
           \/ prewarm' = Fill(prewarm, idle, active),
           UNCHANGED <<worker, idle, active>>
    PROVE  Counts' /\ IdleTyped'
  <1>1. Counts'
    BY RefillKeeps
  <1>2. IdleTyped'
    BY DEF WarmInv, TypeOK, IdleTyped
  <1>. QED  BY <1>1, <1>2

\* The same for a handler that does not.
LEMMA QuietStep ==
    ASSUME WarmInv, UNCHANGED <<prewarm, worker, idle>>, IsFiniteSet(active')
    PROVE  Counts' /\ IdleTyped'
  <1>1. Counts'
    BY QuietKeeps
  <1>2. IdleTyped'
    BY DEF WarmInv, TypeOK, IdleTyped
  <1>. QED  BY <1>1, <1>2

\* Every step keeps the counts right.
LEMMA CountsStep ==
    ASSUME WarmInv, [Next]_vars
    PROVE  Counts' /\ IdleTyped'
  <1>0. IsFiniteSet(active) /\ worker \in Images \union {NoImage}
    BY DEF WarmInv, Counts, TypeOK
  <1>1. ASSUME NEW r \in Requests, Create(r) PROVE Counts' /\ IdleTyped'
    <2>1. CASE Ask(r) \/ Unhealthy(r) \/ CheckHangs(r) \/ Make(r) \/ MakeFails(r) \/ MakeHangs(r)
      <3>1. UNCHANGED <<prewarm, worker, idle, active>>
        BY <2>1 DEF Ask, Unhealthy, CheckHangs, Make, MakeFails, MakeHangs
      <3>. QED  BY <1>0, <3>1, QuietStep
    <2>2. CASE PopIdle(r)
      <3>0. PICK w \in Images : w = Wanted[r]
        BY ConfigAssumption
      <3>1. /\ idle[w] # <<>> /\ idle' = [idle EXCEPT ![w] = Tail(@)]
            /\ UNCHANGED <<prewarm, worker, active>>
        BY <2>2, <3>0 DEF PopIdle
      <3>2. idle \in [Images -> Seq(Containers)] /\ \A i \in Images : IsInjective(idle[i]) /\ Len(idle[i]) \in Nat
        BY DEF WarmInv, TypeOK
      <3>3. /\ Tail(idle[w]) \in Seq(Containers) /\ IsInjective(Tail(idle[w]))
            /\ ToSet(Tail(idle[w])) \subseteq ToSet(idle[w])
            /\ Len(Tail(idle[w])) < Len(idle[w]) /\ Len(Tail(idle[w])) \in Nat
        BY <3>1, <3>2, TailIdle
      <3>4. idle' \in [Images -> Seq(Containers)] /\ idle'[w] = Tail(idle[w]) /\ \A i \in Images \ {w} : idle'[i] = idle[i]
        BY <3>1, <3>2, <3>3
      <3>5. \A i \in Images : /\ IsInjective(idle'[i]) /\ ToSet(idle'[i]) \subseteq ToSet(idle[i])
                              /\ Len(idle'[i]) <= Len(idle[i])
        <4>1. ASSUME NEW i \in Images
              PROVE  IsInjective(idle'[i]) /\ ToSet(idle'[i]) \subseteq ToSet(idle[i]) /\ Len(idle'[i]) <= Len(idle[i])
          <5>1. CASE i = w
            <6>1. Len(Tail(idle[w])) <= Len(idle[w])
              BY <3>2, <3>3
            <6>. QED  BY <3>3, <3>4, <5>1, <6>1
          <5>2. CASE i # w
            BY <3>2, <3>4, <5>2
          <5>. QED  BY <5>1, <5>2
        <4>. QED  BY <4>1
      <3>6. WarmIn(idle') \subseteq WarmIn(idle)
        BY <3>5 DEF WarmIn
      <3>7. PendingExact(prewarm, worker) /\ WithinCaps(prewarm, idle)
        BY DEF WarmInv, Counts
      <3>8. WithinCaps(prewarm, idle')
        BY <1>0, <3>2, <3>4, <3>5, <3>6, <3>7, CountsFewer
      <3>9. Counts'
        BY <1>0, <3>1, <3>7, <3>8 DEF Counts
      <3>10. IdleTyped'
        BY <3>4, <3>5 DEF IdleTyped
      <3>. QED  BY <3>9, <3>10
    <2>3. CASE Miss(r) \/ Healthy(r)
      <3>1. prewarm' = Enqueue(prewarm, idle, active, Wanted[r]) /\ UNCHANGED <<worker, idle, active>>
        BY <2>3 DEF Miss, Healthy
      <3>. QED  BY <3>1, FillStep
    <2>4. CASE Track(r)
      <3>1. IsFiniteSet(active')
        <4>1. active' = active \union {cont[r]}
          BY <2>4 DEF Track
        <4>. QED  BY <1>0, <4>1, FS_AddElement
      <3>2. UNCHANGED <<prewarm, worker, idle>>
        BY <2>4 DEF Track
      <3>. QED  BY <3>1, <3>2, QuietStep
    <2>. QED  BY <1>1, <2>1, <2>2, <2>3, <2>4 DEF Create
  <1>2. ASSUME NEW r \in Requests, Destroy(r) PROVE Counts' /\ IdleTyped'
    <2>1. CASE Release(r)
      <3>1. prewarm' = Enqueue(prewarm, idle, active, Wanted[r]) /\ UNCHANGED <<worker, idle, active>>
        BY <2>1 DEF Release
      <3>. QED  BY <3>1, FillStep
    <2>2. CASE Untrack(r) \/ FaultUntracks(r) \/ RemoveUnknown(r)
      <3>1. active' \subseteq active /\ UNCHANGED <<prewarm, worker, idle>>
        BY <2>2 DEF Untrack, FaultUntracks, RemoveUnknown
      <3>2. IsFiniteSet(active')
        BY <1>0, <3>1, FS_Subset
      <3>. QED  BY <3>1, <3>2, QuietStep
    <2>3. CASE FaultKills(r)
      <3>1. UNCHANGED <<worker, idle, active>>
            /\ (prewarm' = Enqueue(prewarm, idle, active, Wanted[r]) \/ UNCHANGED prewarm)
        BY <2>3 DEF FaultKills
      <3>2. CASE prewarm' = Enqueue(prewarm, idle, active, Wanted[r])
        BY <3>1, <3>2, FillStep
      <3>3. CASE UNCHANGED prewarm
        BY <1>0, <3>1, <3>3, QuietStep
      <3>. QED  BY <3>1, <3>2, <3>3
    <2>. QED  BY <1>2, <2>1, <2>2, <2>3 DEF Destroy
  <1>3. CASE TakeNext
    <2>0. PendingExact(prewarm, NoImage) /\ WithinCaps(prewarm, idle) /\ prewarm.queue # <<>>
      BY <1>3 DEF WarmInv, Counts, TakeNext
    <2>1. /\ PendingExact(prewarm', worker') /\ WithinCaps(prewarm', idle)
      <3>. DEFINE taken == [prewarm EXCEPT !.queue = Tail(@)]
      <3>1. PendingExact(taken, Head(prewarm.queue)) /\ WithinCaps(taken, idle)
        <4>. HIDE DEF taken
        <4>. QED  BY <2>0, CountsTaken DEF taken
      <3>2. prewarm' = taken /\ worker' = Head(prewarm.queue)
        BY <1>3 DEF TakeNext
      <3>. HIDE DEF taken
      <3>. QED  BY <3>1, <3>2
    <2>2. UNCHANGED <<idle, active>>
      BY <1>3 DEF TakeNext
    <2>3. Counts'
      BY <1>0, <2>1, <2>2 DEF Counts
    <2>4. IdleTyped'
      BY <2>2 DEF WarmInv, TypeOK, IdleTyped
    <2>. QED  BY <2>3, <2>4
  <1>4. CASE WakeUp
    <2>1. prewarm' = Fill(prewarm, idle, active) /\ UNCHANGED <<worker, idle, active>>
      BY <1>4 DEF WakeUp
    <2>. QED  BY <2>1, FillStep
  <1>5. CASE PrewarmMade \/ PrewarmFails \/ PrewarmHangs
    <2>1. /\ worker # NoImage /\ worker' = NoImage /\ active' = active
          /\ prewarm' = Fill(Resolved(worker), idle', active)
      <3>1. CASE PrewarmMade
        BY <3>1 DEF PrewarmMade
      <3>2. CASE PrewarmFails
        BY <3>2 DEF PrewarmFails
      <3>3. CASE PrewarmHangs
        BY <3>3 DEF PrewarmHangs
      <3>. QED  BY <1>5, <3>1, <3>2, <3>3
    <2>2. \/ idle' = idle
          \/ \E c \in Containers : c \notin Warm /\ idle' = [idle EXCEPT ![worker] = Append(@, c)]
      <3>1. CASE PrewarmMade
        <4>1. PICK c \in Containers : Fresh(c) /\ idle' = [idle EXCEPT ![worker] = Append(@, c)]
          BY <3>1 DEF PrewarmMade
        <4>2. c \notin Warm
          BY <4>1, FreshIsFree
        <4>. QED  BY <4>1, <4>2
      <3>2. CASE PrewarmFails \/ PrewarmHangs
        BY <3>2 DEF PrewarmFails, PrewarmHangs
      <3>. QED  BY <1>5, <3>1, <3>2
    <2>3. Counts' /\ idle' \in [Images -> Seq(Containers)] /\ \A i \in Images : IsInjective(idle'[i])
      BY <2>1, <2>2, EndingKeeps
    <2>. QED  BY <2>3 DEF IdleTyped
  <1>6. ASSUME NEW c \in Containers, Dies(c) PROVE Counts' /\ IdleTyped'
    <2>1. UNCHANGED <<prewarm, worker, idle, active>>
      BY <1>6 DEF Dies
    <2>. QED  BY <1>0, <2>1, QuietStep
  <1>7. CASE Restart
    BY <1>7, RestartKeeps DEF IdleTyped
  <1>8. CASE UNCHANGED vars
    BY <1>0, <1>8, QuietStep DEF vars
  <1>. QED  BY <1>1, <1>2, <1>3, <1>4, <1>5, <1>6, <1>7, <1>8 DEF Next, PrewarmLoop
-----------------------------------------------------------------------------
(***************************************************************************)
(* The handlers and what docker knows.                                     *)
(***************************************************************************)
States == {"new", "refused", "gone"} \union Creating \union Holding
Keeping == {"checking", "acquired"} \union Holding

HandsTyped ==
    /\ pc \in [Requests -> States]
    /\ cont \in [Requests -> Containers \union {NoContainer}]

\* A handler that moves has a container just where it must.
LEMMA GoesKeeps ==
    ASSUME HandsTyped, Paired, NEW r \in Requests, NEW state \in States,
           NEW c \in Containers \union {NoContainer}, Goes(r, state, c), c # NoContainer <=> state \in Keeping
    PROVE  HandsTyped' /\ Paired'
  <1>1. pc' = [pc EXCEPT ![r] = state] /\ cont' = [cont EXCEPT ![r] = c]
    BY DEF Goes
  <1>2. HandsTyped'
    BY <1>1 DEF HandsTyped
  <1>3. ASSUME NEW q \in Requests PROVE cont'[q] # NoContainer <=> pc'[q] \in Keeping
    <2>1. CASE q = r
      BY <1>1, <2>1 DEF HandsTyped
    <2>2. CASE q # r
      BY <1>1, <2>2 DEF HandsTyped, Paired, Keeping
    <2>. QED  BY <2>1, <2>2
  <1>4. Paired'
    BY <1>3 DEF Paired, Keeping
  <1>. QED  BY <1>2, <1>4

\* Every step keeps the handlers typed and their containers where they belong.
LEMMA HandsStep ==
    ASSUME WarmInv, [Next]_vars
    PROVE  HandsTyped' /\ Paired'
  <1>0. HandsTyped /\ Paired
    BY DEF WarmInv, TypeOK, HandsTyped, States
  <1>1. ASSUME NEW r \in Requests, Create(r) PROVE HandsTyped' /\ Paired'
    <2>0. pc[r] \in Keeping => cont[r] \in Containers /\ cont[r] # NoContainer
      BY <1>0, ConfigAssumption DEF HandsTyped, Paired, Keeping
    <2>1. CASE Ask(r)
      BY <1>0, <2>1, GoesKeeps DEF Ask, States, Keeping, Creating, Holding
    <2>2. CASE PopIdle(r)
      <3>1. Head(idle[Wanted[r]]) \in Containers
        <4>1. idle[Wanted[r]] \in Seq(Containers) /\ idle[Wanted[r]] # <<>>
          BY <2>2, ConfigAssumption DEF WarmInv, TypeOK, PopIdle
        <4>. QED  BY <4>1, HeadTailProperties
      <3>2. PICK c \in Containers : c = Head(idle[Wanted[r]])
        BY <3>1
      <3>3. Goes(r, "checking", c) /\ c # NoContainer
        BY <2>2, <3>2, ConfigAssumption DEF PopIdle
      <3>. QED  BY <1>0, <3>3, GoesKeeps DEF States, Keeping, Creating, Holding
    <2>3. CASE Miss(r)
      BY <1>0, <2>3, GoesKeeps DEF Miss, States, Keeping, Creating, Holding
    <2>4. CASE Healthy(r)
      <3>1. PICK c \in Containers : c = cont[r] /\ c # NoContainer
        BY <2>0, <2>4 DEF Healthy, Keeping
      <3>2. Goes(r, "acquired", c)
        BY <2>4, <3>1 DEF Healthy
      <3>. QED  BY <1>0, <3>1, <3>2, GoesKeeps DEF States, Keeping, Creating, Holding
    <2>5. CASE Unhealthy(r)
      BY <1>0, <2>5, GoesKeeps DEF Unhealthy, States, Keeping, Creating, Holding
    <2>6. CASE CheckHangs(r)
      BY <1>0, <2>6, GoesKeeps DEF CheckHangs, States, Keeping, Creating, Holding
    <2>7. CASE Make(r)
      <3>1. PICK c \in Containers : Goes(r, "acquired", c)
        BY <2>7 DEF Make
      <3>2. c # NoContainer
        BY ConfigAssumption
      <3>. QED  BY <1>0, <3>1, <3>2, GoesKeeps DEF States, Keeping, Creating, Holding
    <2>8. CASE MakeFails(r)
      BY <1>0, <2>8, GoesKeeps DEF MakeFails, States, Keeping, Creating, Holding
    <2>9. CASE MakeHangs(r)
      BY <1>0, <2>9, GoesKeeps DEF MakeHangs, States, Keeping, Creating, Holding
    <2>10. CASE Track(r)
      <3>1. PICK c \in Containers : c = cont[r] /\ c # NoContainer
        BY <2>0, <2>10 DEF Track, Keeping
      <3>2. Goes(r, "given", c)
        BY <2>10, <3>1 DEF Track
      <3>. QED  BY <1>0, <3>1, <3>2, GoesKeeps DEF States, Keeping, Creating, Holding
    <2>. QED  BY <1>1, <2>1, <2>2, <2>3, <2>4, <2>5, <2>6, <2>7, <2>8, <2>9, <2>10 DEF Create
  <1>2. ASSUME NEW r \in Requests, Destroy(r) PROVE HandsTyped' /\ Paired'
    <2>0. pc[r] \in Keeping => cont[r] \in Containers /\ cont[r] # NoContainer
      BY <1>0, ConfigAssumption DEF HandsTyped, Paired, Keeping
    <2>1. CASE Untrack(r) \/ RemoveUnknown(r)
      <3>1. Goes(r, "gone", NoContainer)
        BY <2>1 DEF Untrack, RemoveUnknown
      <3>. QED  BY <1>0, <3>1, GoesKeeps DEF States, Keeping, Creating, Holding
    <2>2. CASE Release(r) \/ FaultKills(r) \/ FaultUntracks(r)
      <3>1. PICK c \in Containers : c = cont[r] /\ c # NoContainer
        BY <2>0, <2>2 DEF Release, FaultKills, FaultUntracks, Keeping, Holding
      <3>2. PICK s \in Holding : Goes(r, s, c)
        BY <2>2, <3>1 DEF Release, FaultKills, FaultUntracks, Holding
      <3>. QED  BY <1>0, <3>1, <3>2, GoesKeeps DEF States, Keeping
    <2>. QED  BY <1>2, <2>1, <2>2 DEF Destroy
  <1>3. ASSUME UNCHANGED <<pc, cont>> PROVE HandsTyped' /\ Paired'
    BY <1>0, <1>3 DEF HandsTyped, Paired
  <1>4. CASE PrewarmLoop
    BY <1>3, <1>4 DEF PrewarmLoop, TakeNext, WakeUp, PrewarmMade, PrewarmFails, PrewarmHangs
  <1>5. ASSUME NEW c \in Containers, Dies(c) PROVE HandsTyped' /\ Paired'
    BY <1>3, <1>5 DEF Dies
  <1>6. CASE Restart
    <2>1. /\ pc' = [r \in Requests |-> CASE pc[r] \in Creating -> "refused"
                                         [] pc[r] \in Holding -> "given"
                                         [] OTHER -> pc[r]]
          /\ cont' = [r \in Requests |-> IF pc[r] \in Creating THEN NoContainer ELSE cont[r]]
      BY <1>6 DEF Restart
    <2>2. ASSUME NEW r \in Requests
          PROVE  /\ pc'[r] \in States /\ cont'[r] \in Containers \union {NoContainer}
                 /\ cont'[r] # NoContainer <=> pc'[r] \in Keeping
      <3>0. pc[r] \in States /\ cont[r] \in Containers \union {NoContainer}
            /\ (cont[r] # NoContainer <=> pc[r] \in Keeping)
        BY <1>0 DEF HandsTyped, Paired, Keeping
      <3>1. CASE pc[r] \in Creating
        BY <2>1, <3>0, <3>1 DEF States, Keeping, Creating, Holding
      <3>2. CASE pc[r] \in Holding
        BY <2>1, <3>0, <3>2 DEF States, Keeping, Creating, Holding
      <3>3. CASE pc[r] \notin Creating /\ pc[r] \notin Holding
        BY <2>1, <3>0, <3>3 DEF States, Keeping, Creating, Holding
      <3>. QED  BY <3>1, <3>2, <3>3
    <2>3. HandsTyped'
      BY <2>1, <2>2 DEF HandsTyped
    <2>4. Paired'
      BY <2>2 DEF Paired, Keeping
    <2>. QED  BY <2>3, <2>4
  <1>7. CASE UNCHANGED vars
    BY <1>3, <1>7 DEF vars
  <1>. QED  BY <1>1, <1>2, <1>4, <1>5, <1>6, <1>7 DEF Next

DockerTyped ==
    /\ docker \in [Containers -> Images \union {NoImage}]
    /\ abandoned \subseteq Running
    /\ active \subseteq Containers
    /\ inUse \subseteq Containers
    /\ worker \in Images \union {NoImage}
    /\ restarts \in 0..MaxRestarts
    /\ faults \in 0..MaxFaults

\* A container that is removed is not among the abandoned ones.
LEMMA RemovedKeeps ==
    ASSUME DockerTyped, NEW c \in Containers, Gone(c)
    PROVE  docker' \in [Containers -> Images \union {NoImage}] /\ abandoned' \subseteq Running'
  <1>1. docker' = [docker EXCEPT ![c] = NoImage] /\ abandoned' = abandoned \ {c}
    BY DEF Gone
  <1>. QED  BY <1>1 DEF DockerTyped, Running

\* a container is made, and may be nobody's
LEMMA StartedKeeps ==
    ASSUME DockerTyped, NEW c \in Containers, NEW i \in Images, docker' = [docker EXCEPT ![c] = i],
           abandoned' \subseteq abandoned \union {c}
    PROVE  docker' \in [Containers -> Images \union {NoImage}] /\ abandoned' \subseteq Running'
  BY ConfigAssumption DEF DockerTyped, Running

\* Faults stay below their bound.
LEMMA FaultCounted == ASSUME DockerTyped, Fault PROVE faults' \in 0..MaxFaults /\ restarts' = restarts
  BY ConfigAssumption DEF DockerTyped, Fault

\* Every step keeps the types of what docker and the node know.
LEMMA DockerStep ==
    ASSUME WarmInv, [Next]_vars
    PROVE  DockerTyped'
  <1>0. DockerTyped /\ HandsTyped /\ Paired
    BY DEF WarmInv, TypeOK, DockerTyped, HandsTyped, States
  <1>1. ASSUME UNCHANGED <<docker, abandoned, active, inUse, worker, bounds>> PROVE DockerTyped'
    BY <1>0, <1>1 DEF DockerTyped, Running, bounds
  <1>2. ASSUME NEW r \in Requests, Create(r) PROVE DockerTyped'
    <2>0. pc[r] \in Keeping => cont[r] \in Containers
      BY <1>0, ConfigAssumption DEF HandsTyped, Paired, Keeping
    <2>00. Wanted[r] \in Images
      BY ConfigAssumption
    <2>1. CASE Ask(r) \/ PopIdle(r) \/ Miss(r) \/ Healthy(r) \/ MakeFails(r)
      BY <1>1, <2>1 DEF Ask, PopIdle, Miss, Healthy, MakeFails
    <2>2. CASE Unhealthy(r)
      <3>1. PICK c \in Containers : c = cont[r] /\ Gone(c)
        BY <2>0, <2>2 DEF Unhealthy, Keeping
      <3>2. docker' \in [Containers -> Images \union {NoImage}] /\ abandoned' \subseteq Running'
        BY <1>0, <3>1, RemovedKeeps
      <3>3. UNCHANGED <<active, inUse, worker, bounds>>
        BY <2>2 DEF Unhealthy
      <3>. QED  BY <1>0, <3>2, <3>3 DEF DockerTyped, bounds
    <2>3. CASE CheckHangs(r)
      <3>1. Fault /\ abandoned' = abandoned \union ({cont[r]} \intersect Running)
            /\ UNCHANGED <<docker, active, inUse, worker>>
        BY <2>3 DEF CheckHangs
      <3>2. faults' \in 0..MaxFaults /\ restarts' = restarts
        BY <1>0, <3>1, FaultCounted
      <3>. QED  BY <1>0, <3>1, <3>2 DEF DockerTyped, Running
    <2>4. CASE Make(r)
      <3>1. PICK c \in Containers : docker' = [docker EXCEPT ![c] = Wanted[r]]
        BY <2>4 DEF Make
      <3>2. UNCHANGED <<active, abandoned, inUse, worker, bounds>>
        BY <2>4 DEF Make
      <3>3. docker' \in [Containers -> Images \union {NoImage}] /\ abandoned' \subseteq Running'
        BY <1>0, <2>00, <3>1, <3>2, StartedKeeps
      <3>. QED  BY <1>0, <3>2, <3>3 DEF DockerTyped, bounds
    <2>5. CASE MakeHangs(r)
      <3>1. PICK c \in Containers : docker' = [docker EXCEPT ![c] = Wanted[r]] /\ abandoned' = abandoned \union {c}
        BY <2>5 DEF MakeHangs
      <3>2. UNCHANGED <<active, inUse, worker>> /\ Fault
        BY <2>5 DEF MakeHangs
      <3>3. docker' \in [Containers -> Images \union {NoImage}] /\ abandoned' \subseteq Running'
        BY <1>0, <2>00, <3>1, StartedKeeps
      <3>4. faults' \in 0..MaxFaults /\ restarts' = restarts
        BY <1>0, <3>2, FaultCounted
      <3>. QED  BY <1>0, <3>2, <3>3, <3>4 DEF DockerTyped
    <2>6. CASE Track(r)
      <3>1. cont[r] \in Containers
        BY <2>0, <2>6 DEF Track, Keeping
      <3>. QED  BY <1>0, <2>6, <3>1 DEF Track, DockerTyped, Running, bounds
    <2>. QED  BY <1>2, <2>1, <2>2, <2>3, <2>4, <2>5, <2>6 DEF Create
  <1>3. ASSUME NEW r \in Requests, Destroy(r) PROVE DockerTyped'
    <2>0. pc[r] \in Keeping => cont[r] \in Containers
      BY <1>0, ConfigAssumption DEF HandsTyped, Paired, Keeping
    <2>1. CASE Untrack(r) \/ FaultUntracks(r)
      BY <1>0, <2>1 DEF Untrack, FaultUntracks, DockerTyped, Running, bounds
    <2>2. CASE Release(r) \/ RemoveUnknown(r) \/ FaultKills(r)
      <3>1. PICK c \in Containers : c = cont[r]
        BY <2>0, <2>2 DEF Release, RemoveUnknown, FaultKills, Keeping, Holding
      <3>2. (Gone(c) /\ UNCHANGED bounds) \/ (UNCHANGED <<docker, abandoned>> /\ Fault)
        BY <2>2, <3>1 DEF Release, RemoveUnknown, FaultKills
      <3>3. UNCHANGED <<active, worker>> /\ inUse' \subseteq inUse
        BY <2>2 DEF Release, RemoveUnknown, FaultKills
      <3>4. CASE Gone(c) /\ UNCHANGED bounds
        <4>1. docker' \in [Containers -> Images \union {NoImage}] /\ abandoned' \subseteq Running'
          BY <1>0, <3>4, RemovedKeeps
        <4>. QED  BY <1>0, <3>3, <3>4, <4>1 DEF DockerTyped, bounds
      <3>5. CASE UNCHANGED <<docker, abandoned>> /\ Fault
        <4>1. faults' \in 0..MaxFaults /\ restarts' = restarts
          BY <1>0, <3>5, FaultCounted
        <4>. QED  BY <1>0, <3>3, <3>5, <4>1 DEF DockerTyped, Running
      <3>. QED  BY <3>2, <3>4, <3>5
    <2>. QED  BY <1>3, <2>1, <2>2 DEF Destroy
  <1>4. CASE TakeNext
    <2>1. worker' \in Images
      <3>1. prewarm.queue \in Seq(Images) /\ prewarm.queue # <<>>
        BY <1>4 DEF WarmInv, TypeOK, TakeNext
      <3>. QED  BY <1>4, <3>1, HeadTailProperties DEF TakeNext
    <2>2. UNCHANGED <<docker, abandoned, active, inUse, bounds>>
      BY <1>4 DEF TakeNext
    <2>. QED  BY <1>0, <2>1, <2>2 DEF DockerTyped, Running, bounds
  <1>5. CASE WakeUp
    BY <1>1, <1>5 DEF WakeUp
  <1>6. CASE PrewarmMade \/ PrewarmHangs
    <2>1. PICK c \in Containers : docker' = [docker EXCEPT ![c] = worker] /\ abandoned' \subseteq abandoned \union {c}
      BY <1>6 DEF PrewarmMade, PrewarmHangs
    <2>2. worker \in Images
      BY <1>0, <1>6 DEF DockerTyped, PrewarmMade, PrewarmHangs
    <2>3. docker' \in [Containers -> Images \union {NoImage}] /\ abandoned' \subseteq Running'
      BY <1>0, <2>1, <2>2, StartedKeeps
    <2>4. UNCHANGED <<active, inUse>> /\ worker' = NoImage /\ (UNCHANGED bounds \/ Fault)
      BY <1>6 DEF PrewarmMade, PrewarmHangs
    <2>5. faults' \in 0..MaxFaults /\ restarts' = restarts
      BY <1>0, <2>4, FaultCounted DEF DockerTyped, bounds
    <2>. QED  BY <1>0, <2>3, <2>4, <2>5 DEF DockerTyped
  <1>7. CASE PrewarmFails
    BY <1>0, <1>7 DEF PrewarmFails, DockerTyped, Running, bounds
  <1>8. ASSUME NEW c \in Containers, Dies(c) PROVE DockerTyped'
    <2>1. Gone(c) /\ Fault /\ UNCHANGED <<active, inUse, worker>>
      BY <1>8 DEF Dies
    <2>2. docker' \in [Containers -> Images \union {NoImage}] /\ abandoned' \subseteq Running'
      BY <1>0, <2>1, RemovedKeeps
    <2>3. faults' \in 0..MaxFaults /\ restarts' = restarts
      BY <1>0, <2>1, FaultCounted
    <2>. QED  BY <1>0, <2>1, <2>2, <2>3 DEF DockerTyped
  <1>9. CASE Restart
    <2>1. /\ restarts < MaxRestarts /\ restarts' = restarts + 1 /\ faults' = faults
          /\ docker' = docker /\ abandoned' \subseteq Running /\ worker' = NoImage
          /\ active' = {} /\ inUse' = {}
      BY <1>9 DEF Restart
    <2>2. restarts' \in 0..MaxRestarts
      BY <1>0, <2>1, ConfigAssumption DEF DockerTyped
    <2>. QED  BY <1>0, <2>1, <2>2 DEF DockerTyped, Running
  <1>10. CASE UNCHANGED vars
    BY <1>1, <1>10 DEF vars
  <1>. QED  BY <1>2, <1>3, <1>4, <1>5, <1>6, <1>7, <1>8, <1>9, <1>10 DEF Next, PrewarmLoop
-----------------------------------------------------------------------------
(***************************************************************************)
(* WarmCounted.                                                            *)
(***************************************************************************)
\* The pool starts with all this.
LEMMA WarmInit == Init => WarmInv
  <1>. SUFFICES ASSUME Init PROVE WarmInv
    OBVIOUS
  <1>1. Counts
    BY CountsInit
  <1>2. Paired
    BY DEF Init, Paired, Holding
  <1>3. prewarm \in [queue : Seq(Images), pending : Nat, by : [Images -> Nat], next : Nat]
    BY <1>1 DEF Counts, PendingExact, PrewarmRecords
  <1>4. idle \in [Images -> Seq(Containers)] /\ \A i \in Images : IsInjective(idle[i])
    BY DEF Init, IsInjective
  <1>5. restarts \in 0..MaxRestarts /\ faults \in 0..MaxFaults
    BY ConfigAssumption DEF Init
  <1>6. docker \in [Containers -> Images \union {NoImage}] /\ abandoned \subseteq Running
    BY DEF Init
  <1>7. TypeOK
    BY <1>3, <1>4, <1>5, <1>6 DEF Init, TypeOK
  <1>. QED  BY <1>1, <1>2, <1>7 DEF WarmInv

\* Every step keeps it.
LEMMA WarmStep == WarmInv /\ [Next]_vars => WarmInv'
  <1>. SUFFICES ASSUME WarmInv, [Next]_vars PROVE WarmInv'
    OBVIOUS
  <1>1. Counts' /\ IdleTyped' /\ HandsTyped' /\ Paired' /\ DockerTyped'
    BY CountsStep, HandsStep, DockerStep
  <1>2. prewarm' \in [queue : Seq(Images), pending : Nat, by : [Images -> Nat], next : Nat]
    BY <1>1 DEF Counts, PendingExact, PrewarmRecords
  <1>3. TypeOK'
    BY <1>1, <1>2 DEF TypeOK, IdleTyped, HandsTyped, DockerTyped, States
  <1>. QED  BY <1>1, <1>3 DEF WarmInv

\* In every reachable state the pool is typed and its counts are right (ContainerPool of
\* swe_exec_server.py).
THEOREM WarmInvAlways == Spec => []WarmInv
  <1>1. Init => WarmInv
    BY WarmInit
  <1>2. WarmInv /\ [Next]_vars => WarmInv'
    BY WarmStep
  <1>. QED  BY <1>1, <1>2, PTL DEF Spec

\* The pending counts are exact, and warm and pending containers stay within both caps
\* (_enqueue_prewarm_unlocked, _prewarm_loop and _sync_existing_prewarmed_containers).
THEOREM WarmAlwaysCounted == Spec => []WarmCounted
  <1>1. WarmInv => WarmCounted
    <2>. SUFFICES ASSUME WarmInv PROVE WarmCounted
      OBVIOUS
    <2>1. TypeOK /\ PendingExact(prewarm, worker) /\ WithinCaps(prewarm, idle)
      BY DEF WarmInv, Counts
    <2>2. \A i \in Images : Positions(prewarm.queue, i) = {k \in DOMAIN prewarm.queue : prewarm.queue[k] = i}
      BY DEF Positions
    <2>. QED  BY <2>1, <2>2 DEF PendingExact, WithinCaps, WarmCounted, Warm, WarmIn
  <1>. QED  BY <1>1, WarmInvAlways, PTL
-----------------------------------------------------------------------------
(***************************************************************************)
(* ContainersKnown.                                                        *)
(***************************************************************************)
Released == \A r \in Requests : pc[r] = "released" => docker[cont[r]] = NoImage

KnownInv == WarmInv /\ ContainersKnown /\ Released

\* What one handler does leaves the hands of the others alone.
LEMMA HandsMove ==
    ASSUME HandsTyped, NEW r \in Requests, NEW state, NEW c, Goes(r, state, c)
    PROVE  /\ cont'[r] = c /\ pc'[r] = state
           /\ \A q \in Requests \ {r} : cont'[q] = cont[q] /\ pc'[q] = pc[q]
           /\ InHand \ {cont[r]} \subseteq InHand'
           /\ c # NoContainer => c \in InHand'
           /\ InHand' \subseteq InHand \union {c}
  <1>1. pc' = [pc EXCEPT ![r] = state] /\ cont' = [cont EXCEPT ![r] = c]
    BY DEF Goes
  <1>2. cont'[r] = c /\ pc'[r] = state /\ \A q \in Requests \ {r} : cont'[q] = cont[q] /\ pc'[q] = pc[q]
    BY <1>1 DEF HandsTyped
  <1>3. ASSUME NEW x \in InHand, x # cont[r] PROVE x \in InHand'
    <2>1. PICK q \in Requests : x = cont[q] /\ x # NoContainer
      BY <1>3 DEF InHand
    <2>2. q # r
      BY <1>3, <2>1
    <2>3. x = cont'[q] /\ x # NoContainer
      BY <1>2, <2>1, <2>2
    <2>. QED  BY <2>3 DEF InHand
  <1>4. c # NoContainer => c \in InHand'
    BY <1>2 DEF InHand
  <1>5. ASSUME NEW x \in InHand' PROVE x \in InHand \union {c}
    <2>1. PICK q \in Requests : x = cont'[q] /\ x # NoContainer
      BY <1>5 DEF InHand
    <2>. QED  BY <1>2, <2>1 DEF InHand
  <1>. QED  BY <1>2, <1>3, <1>4, <1>5

\* _pop_idle_candidate takes one warm container, of the image that is wanted.
LEMMA WarmTaken ==
    ASSUME WarmInv, NEW r \in Requests, PopIdle(r)
    PROVE  /\ Head(idle[Wanted[r]]) \in Warm
           /\ Warm \subseteq Warm' \union {Head(idle[Wanted[r]])} /\ Warm' \subseteq Warm
           /\ \A i \in Images : ToSet(idle'[i]) \subseteq ToSet(idle[i])
           /\ Head(idle[Wanted[r]]) \notin ToSet(idle'[Wanted[r]])
  <1>1. PICK w \in Images : w = Wanted[r]
    BY ConfigAssumption
  <1>2. idle \in [Images -> Seq(Containers)] /\ IsInjective(idle[w]) /\ idle[w] # <<>>
        /\ idle' = [idle EXCEPT ![w] = Tail(@)]
    BY <1>1 DEF WarmInv, TypeOK, PopIdle
  <1>3. ToSet(Tail(idle[w])) = ToSet(idle[w]) \ {Head(idle[w])} /\ Head(idle[w]) \in ToSet(idle[w])
    BY <1>2, TailIdle
  <1>4. idle'[w] = Tail(idle[w]) /\ \A i \in Images \ {w} : idle'[i] = idle[i]
    BY <1>2
  <1>5. \A i \in Images : /\ ToSet(idle'[i]) \subseteq ToSet(idle[i])
                          /\ ToSet(idle[i]) \subseteq ToSet(idle'[i]) \union {Head(idle[w])}
    BY <1>3, <1>4
  <1>6. Head(idle[w]) \notin ToSet(idle'[w])
    BY <1>3, <1>4
  <1>7. Head(idle[w]) \in Warm
    BY <1>1, <1>3 DEF Warm
  <1>8. Warm \subseteq Warm' \union {Head(idle[w])} /\ Warm' \subseteq Warm
    BY <1>5 DEF Warm
  <1>. QED  BY <1>1, <1>5, <1>6, <1>7, <1>8

\* The prewarm thread adds one.
LEMMA WarmAdded ==
    ASSUME WarmInv, NEW c \in Containers, c \notin Warm, worker \in Images, idle' = [idle EXCEPT ![worker] = Append(@, c)]
    PROVE  /\ Warm' = Warm \union {c}
           /\ ToSet(idle'[worker]) = ToSet(idle[worker]) \union {c}
           /\ \A i \in Images \ {worker} : idle'[i] = idle[i]
  <1>1. idle \in [Images -> Seq(Containers)] /\ IsInjective(idle[worker]) /\ c \notin ToSet(idle[worker])
    BY DEF WarmInv, TypeOK, Warm
  <1>2. ToSet(Append(idle[worker], c)) = ToSet(idle[worker]) \union {c}
    BY <1>1, AppendIdle
  <1>3. idle'[worker] = Append(idle[worker], c) /\ \A i \in Images \ {worker} : idle'[i] = idle[i]
    BY <1>1
  <1>4. \A i \in Images : ToSet(idle'[i]) \subseteq ToSet(idle[i]) \union {c} /\ ToSet(idle[i]) \subseteq ToSet(idle'[i])
    BY <1>2, <1>3
  <1>5. c \in ToSet(idle'[worker])
    BY <1>2, <1>3
  <1>6. Warm' \subseteq Warm \union {c} /\ Warm \subseteq Warm' /\ c \in Warm'
    BY <1>4, <1>5 DEF Warm
  <1>. QED  BY <1>2, <1>3, <1>6

\* Every step leaves every running container with somebody.
LEMMA KnownStep ==
    ASSUME KnownInv, [Next]_vars
    PROVE  ContainersKnown'
  <1>0. HandsTyped /\ Paired /\ DockerTyped /\ WarmInv
    BY DEF KnownInv, WarmInv, TypeOK, DockerTyped, HandsTyped, States
  <1>1. SUFFICES ASSUME NEW x \in Running', x \notin abandoned' PROVE x \in Warm' \union active' \union InHand'
    BY DEF ContainersKnown
  <1>2. x \in Containers /\ docker'[x] # NoImage
    BY <1>1 DEF Running
  <1>3. docker[x] # NoImage => x \in Warm \union active \union InHand \union abandoned
    BY <1>2 DEF KnownInv, ContainersKnown, Running
  <1>4. \A c \in Containers : Gone(c) => x # c /\ docker[x] # NoImage /\ x \notin abandoned
    BY <1>0, <1>1, <1>2 DEF Gone, DockerTyped
  <1>5. \A c \in Containers, i \in Images : docker' = [docker EXCEPT ![c] = i] => x = c \/ docker[x] # NoImage
    BY <1>0, <1>2 DEF DockerTyped
  <1>6. ASSUME NEW r \in Requests, Create(r) PROVE x \in Warm' \union active' \union InHand'
    <2>0. /\ pc[r] \in Keeping => cont[r] \in Containers
          /\ pc[r] \notin Keeping => cont[r] = NoContainer
          /\ NoContainer \notin InHand /\ Wanted[r] \in Images
      BY <1>0, ConfigAssumption DEF HandsTyped, Paired, Keeping, InHand
    <2>1. CASE Ask(r) \/ MakeFails(r) \/ Miss(r)
      <3>1. Goes(r, pc'[r], NoContainer) /\ pc[r] \notin Keeping
            /\ UNCHANGED <<docker, idle, active, abandoned>>
        BY <1>0, <2>1 DEF Ask, MakeFails, Miss, Goes, HandsTyped, Keeping, Holding
      <3>2. InHand \ {cont[r]} \subseteq InHand'
        BY <1>0, <3>1, HandsMove
      <3>. QED  BY <1>1, <1>2, <1>3, <2>0, <3>1, <3>2 DEF Warm
    <2>2. CASE PopIdle(r)
      <3>1. PICK c : c = Head(idle[Wanted[r]])
        OBVIOUS
      <3>2. Goes(r, "checking", c) /\ pc[r] \notin Keeping /\ UNCHANGED <<docker, active, abandoned>>
        BY <2>2, <3>1 DEF PopIdle, Keeping, Holding
      <3>3. Warm \subseteq Warm' \union {c} /\ c \in Warm
        BY <1>0, <2>2, <3>1, WarmTaken
      <3>4. c # NoContainer
        BY <1>0, <3>3, ConfigAssumption DEF WarmInv, TypeOK, Warm, ToSet
      <3>5. InHand \ {cont[r]} \subseteq InHand' /\ c \in InHand'
        BY <1>0, <3>2, <3>4, HandsMove
      <3>. QED  BY <1>1, <1>2, <1>3, <2>0, <3>2, <3>3, <3>5
    <2>3. CASE Healthy(r) \/ Track(r)
      <3>1. PICK s, c : Goes(r, s, c) /\ c = cont[r] /\ c # NoContainer /\ c \in Containers
        <4>1. pc[r] \in Keeping
          BY <2>3 DEF Healthy, Track, Keeping
        <4>2. cont[r] \in Containers /\ cont[r] # NoContainer
          BY <2>0, <4>1, ConfigAssumption
        <4>. QED  BY <2>3, <4>2 DEF Healthy, Track
      <3>2. InHand \ {cont[r]} \subseteq InHand' /\ c \in InHand'
        BY <1>0, <3>1, HandsMove
      <3>3. UNCHANGED <<docker, idle, abandoned>> /\ active \subseteq active'
        BY <2>3 DEF Healthy, Track
      <3>. QED  BY <1>1, <1>2, <1>3, <3>1, <3>2, <3>3 DEF Warm
    <2>4. CASE Unhealthy(r)
      <3>1. Goes(r, "popping", NoContainer) /\ Gone(cont[r]) /\ UNCHANGED <<idle, active>> /\ cont[r] \in Containers
        BY <2>0, <2>4 DEF Unhealthy, Keeping
      <3>2. InHand \ {cont[r]} \subseteq InHand'
        BY <1>0, <3>1, HandsMove
      <3>. QED  BY <1>3, <1>4, <3>1, <3>2 DEF Warm
    <2>5. CASE CheckHangs(r)
      <3>1. Goes(r, "refused", NoContainer) /\ UNCHANGED <<docker, idle, active>>
            /\ abandoned' = abandoned \union ({cont[r]} \intersect Running)
        BY <2>5 DEF CheckHangs
      <3>2. InHand \ {cont[r]} \subseteq InHand'
        BY <1>0, <3>1, HandsMove
      <3>. QED  BY <1>1, <1>2, <1>3, <3>1, <3>2 DEF Warm, Running
    <2>6. CASE Make(r)
      <3>1. PICK c \in Containers : docker' = [docker EXCEPT ![c] = Wanted[r]] /\ Goes(r, "acquired", c)
        BY <2>6 DEF Make
      <3>2. c # NoContainer /\ pc[r] \notin Keeping
        BY <2>6, ConfigAssumption DEF Make, Keeping, Holding
      <3>3. InHand \ {cont[r]} \subseteq InHand' /\ c \in InHand'
        BY <1>0, <3>1, <3>2, HandsMove
      <3>4. UNCHANGED <<idle, active, abandoned>>
        BY <2>6 DEF Make
      <3>. QED  BY <1>1, <1>3, <1>5, <2>0, <3>1, <3>2, <3>3, <3>4 DEF Warm
    <2>7. CASE MakeHangs(r)
      <3>1. PICK c \in Containers : docker' = [docker EXCEPT ![c] = Wanted[r]] /\ abandoned' = abandoned \union {c}
        BY <2>7 DEF MakeHangs
      <3>2. pc[r] \notin Keeping /\ Goes(r, "refused", NoContainer) /\ UNCHANGED <<idle, active>>
        BY <2>7 DEF MakeHangs, Keeping, Holding
      <3>3. InHand \ {cont[r]} \subseteq InHand'
        BY <1>0, <3>2, HandsMove
      <3>. QED  BY <1>1, <1>3, <1>5, <2>0, <3>1, <3>2, <3>3 DEF Warm
    <2>. QED  BY <1>6, <2>1, <2>2, <2>3, <2>4, <2>5, <2>6, <2>7 DEF Create
  <1>7. ASSUME NEW r \in Requests, Destroy(r) PROVE x \in Warm' \union active' \union InHand'
    <2>0. /\ pc[r] \in Keeping => cont[r] \in Containers /\ cont[r] # NoContainer
          /\ NoContainer \notin InHand
      BY <1>0, ConfigAssumption DEF HandsTyped, Paired, Keeping, InHand
    <2>1. pc[r] \in Keeping
      BY <1>7 DEF Destroy, Release, Untrack, RemoveUnknown, FaultKills, FaultUntracks, Keeping,
           Holding
    <2>2. CASE Release(r) \/ FaultKills(r)
      <3>1. PICK s, c : Goes(r, s, c) /\ c = cont[r] /\ c \in Containers /\ c # NoContainer
        BY <2>0, <2>1, <2>2 DEF Release, FaultKills
      <3>2. InHand \ {cont[r]} \subseteq InHand' /\ c \in InHand'
        BY <1>0, <3>1, HandsMove
      <3>3. UNCHANGED <<idle, active>> /\ (Gone(c) \/ UNCHANGED <<docker, abandoned>>)
        BY <2>2, <3>1 DEF Release, FaultKills
      <3>. QED  BY <1>1, <1>2, <1>3, <1>4, <3>1, <3>2, <3>3 DEF Warm
    <2>3. CASE Untrack(r)
      <3>1. docker[cont[r]] = NoImage /\ Goes(r, "gone", NoContainer) /\ active' = active \ {cont[r]}
            /\ UNCHANGED <<docker, idle, abandoned>>
        BY <2>3 DEF Untrack, KnownInv, Released
      <3>2. InHand \ {cont[r]} \subseteq InHand' /\ x # cont[r]
        BY <1>0, <1>2, <3>1, HandsMove
      <3>. QED  BY <1>1, <1>2, <1>3, <3>1, <3>2 DEF Warm
    <2>4. CASE RemoveUnknown(r)
      <3>1. Goes(r, "gone", NoContainer) /\ Gone(cont[r]) /\ UNCHANGED <<idle, active>>
        BY <2>4 DEF RemoveUnknown
      <3>2. InHand \ {cont[r]} \subseteq InHand'
        BY <1>0, <3>1, HandsMove
      <3>. QED  BY <1>3, <1>4, <2>0, <2>1, <3>1, <3>2 DEF Warm
    <2>5. CASE FaultUntracks(r)
      <3>1. PICK c : c = cont[r] /\ c # NoContainer /\ Goes(r, "given", c)
        BY <2>0, <2>1, <2>5 DEF FaultUntracks
      <3>2. InHand \ {cont[r]} \subseteq InHand' /\ c \in InHand'
        BY <1>0, <3>1, HandsMove
      <3>3. active' = active \ {cont[r]} /\ UNCHANGED <<docker, idle, abandoned>>
        BY <2>5 DEF FaultUntracks
      <3>. QED  BY <1>1, <1>2, <1>3, <3>1, <3>2, <3>3 DEF Warm
    <2>. QED  BY <1>7, <2>2, <2>3, <2>4, <2>5 DEF Destroy
  <1>8. ASSUME UNCHANGED <<docker, idle, active, cont, abandoned>> PROVE x \in Warm' \union active' \union InHand'
    BY <1>1, <1>2, <1>3, <1>8 DEF Warm, InHand
  <1>9. CASE TakeNext \/ WakeUp \/ PrewarmFails
    BY <1>8, <1>9 DEF TakeNext, WakeUp, PrewarmFails
  <1>10. CASE PrewarmMade
    <2>1. PICK c \in Containers : /\ Fresh(c) /\ docker' = [docker EXCEPT ![c] = worker]
                                  /\ idle' = [idle EXCEPT ![worker] = Append(@, c)]
      BY <1>10 DEF PrewarmMade
    <2>2. worker \in Images /\ UNCHANGED <<cont, active, abandoned>>
      BY <1>0, <1>10 DEF DockerTyped, PrewarmMade
    <2>3. Warm' = Warm \union {c}
      BY <1>0, <2>1, <2>2, FreshIsFree, WarmAdded
    <2>. QED  BY <1>1, <1>3, <1>5, <2>1, <2>2, <2>3 DEF InHand
  <1>11. CASE PrewarmHangs
    <2>1. PICK c \in Containers : docker' = [docker EXCEPT ![c] = worker] /\ abandoned' = abandoned \union {c}
      BY <1>11 DEF PrewarmHangs
    <2>2. worker \in Images /\ UNCHANGED <<cont, idle, active>>
      BY <1>0, <1>11 DEF DockerTyped, PrewarmHangs
    <2>. QED  BY <1>1, <1>3, <1>5, <2>1, <2>2 DEF InHand, Warm
  <1>12. ASSUME NEW c \in Containers, Dies(c) PROVE x \in Warm' \union active' \union InHand'
    <2>1. Gone(c) /\ UNCHANGED <<cont, idle, active>>
      BY <1>12 DEF Dies
    <2>. QED  BY <1>3, <1>4, <2>1 DEF InHand, Warm
  <1>13. CASE Restart
    <2>1. /\ docker' = docker
          /\ abandoned' = Running \ (Warm' \union {cont[r] : r \in {q \in Requests : pc[q] \in Holding}})
          /\ cont' = [r \in Requests |-> IF pc[r] \in Creating THEN NoContainer ELSE cont[r]]
      BY <1>13 DEF Restart
    <2>2. x \in Warm' \/ \E r \in Requests : pc[r] \in Holding /\ x = cont[r]
      BY <1>1, <1>2, <2>1 DEF Running
    <2>3. ASSUME NEW r \in Requests, pc[r] \in Holding, x = cont[r] PROVE x \in InHand'
      <3>1. cont'[r] = x /\ x # NoContainer
        BY <1>2, <2>1, <2>3, ConfigAssumption DEF Holding, Creating
      <3>. QED  BY <3>1 DEF InHand
    <2>. QED  BY <2>2, <2>3
  <1>14. CASE UNCHANGED vars
    BY <1>8, <1>14 DEF vars
  <1>. QED  BY <1>6, <1>7, <1>9, <1>10, <1>11, <1>12, <1>13, <1>14 DEF Next, PrewarmLoop

\* A container that was removed is not made again while its handler has it in hand.
LEMMA ReleasedStep ==
    ASSUME KnownInv, [Next]_vars
    PROVE  Released'
  <1>0. HandsTyped /\ Paired /\ DockerTyped /\ WarmInv /\ Released
    BY DEF KnownInv, WarmInv, TypeOK, DockerTyped, HandsTyped, States
  <1>1. SUFFICES ASSUME NEW q \in Requests, pc'[q] = "released" PROVE docker'[cont'[q]] = NoImage
    BY DEF Released
  <1>2. pc[q] = "released" => cont[q] \in Containers /\ cont[q] \in InHand /\ docker[cont[q]] = NoImage
    BY <1>0, ConfigAssumption DEF HandsTyped, Paired, Released, Holding, InHand
  \* a container that is made is not one in hand
  <1>3. ASSUME NEW c \in Containers, NEW i, c \notin InHand \/ i = NoImage, docker' = [docker EXCEPT ![c] = i],
               pc[q] = "released", cont'[q] = cont[q]
        PROVE  docker'[cont'[q]] = NoImage
    BY <1>0, <1>2, <1>3 DEF DockerTyped
  <1>4. ASSUME NEW r \in Requests, NEW s, NEW c, Goes(r, s, c), s # "released"
        PROVE  q # r /\ pc[q] = "released" /\ cont'[q] = cont[q]
    BY <1>0, <1>1, <1>4, HandsMove
  <1>5. ASSUME NEW r \in Requests, NEW s, NEW c, Goes(r, s, c), s # "released", UNCHANGED docker
        PROVE  docker'[cont'[q]] = NoImage
    BY <1>2, <1>4, <1>5
  <1>6. ASSUME NEW r \in Requests, Create(r) PROVE docker'[cont'[q]] = NoImage
    <2>1. CASE Ask(r)
      BY <1>5, <2>1 DEF Ask
    <2>2. CASE PopIdle(r)
      BY <1>5, <2>2 DEF PopIdle
    <2>3. CASE Miss(r)
      BY <1>5, <2>3 DEF Miss
    <2>4. CASE Healthy(r)
      BY <1>5, <2>4 DEF Healthy
    <2>5. CASE Unhealthy(r)
      <3>1. cont[r] \in Containers
        BY <1>0, <2>5, ConfigAssumption DEF Unhealthy, HandsTyped, Paired
      <3>2. docker' = [docker EXCEPT ![cont[r]] = NoImage] /\ Goes(r, "popping", NoContainer)
        BY <2>5 DEF Unhealthy, Gone
      <3>. QED  BY <1>3, <1>4, <3>1, <3>2
    <2>6. CASE CheckHangs(r)
      BY <1>5, <2>6 DEF CheckHangs
    <2>7. CASE Make(r)
      <3>1. PICK c \in Containers : Fresh(c) /\ docker' = [docker EXCEPT ![c] = Wanted[r]] /\ Goes(r, "acquired", c)
        BY <2>7 DEF Make
      <3>2. c \notin InHand
        BY <3>1, FreshIsFree
      <3>. QED  BY <1>3, <1>4, <3>1, <3>2
    <2>8. CASE MakeFails(r)
      BY <1>5, <2>8 DEF MakeFails
    <2>9. CASE MakeHangs(r)
      <3>1. PICK c \in Containers : Fresh(c) /\ docker' = [docker EXCEPT ![c] = Wanted[r]]
        BY <2>9 DEF MakeHangs
      <3>2. c \notin InHand /\ Goes(r, "refused", NoContainer)
        BY <2>9, <3>1, FreshIsFree DEF MakeHangs
      <3>. QED  BY <1>3, <1>4, <3>1, <3>2
    <2>10. CASE Track(r)
      BY <1>5, <2>10 DEF Track
    <2>. QED  BY <1>6, <2>1, <2>2, <2>3, <2>4, <2>5, <2>6, <2>7, <2>8, <2>9, <2>10 DEF Create
  <1>7. ASSUME NEW r \in Requests, Destroy(r) PROVE docker'[cont'[q]] = NoImage
    <2>0. cont[r] \in Containers
      BY <1>0, <1>7, ConfigAssumption
      DEF Destroy, Release, Untrack, RemoveUnknown, FaultKills, FaultUntracks, HandsTyped,
           Paired, Holding
    <2>1. CASE Release(r)
      <3>1. Goes(r, "released", cont[r]) /\ docker' = [docker EXCEPT ![cont[r]] = NoImage]
        BY <2>1 DEF Release, Gone
      <3>2. CASE q = r
        <4>1. cont'[q] = cont[r]
          BY <1>0, <3>1, <3>2, HandsMove
        <4>. QED  BY <1>0, <2>0, <3>1, <4>1 DEF DockerTyped
      <3>3. CASE q # r
        <4>1. pc[q] = "released" /\ cont'[q] = cont[q]
          BY <1>0, <1>1, <3>1, <3>3, HandsMove
        <4>. QED  BY <1>3, <2>0, <3>1, <4>1
      <3>. QED  BY <3>2, <3>3
    <2>2. CASE Untrack(r)
      BY <1>5, <2>2 DEF Untrack
    <2>3. CASE RemoveUnknown(r)
      BY <1>3, <1>4, <2>0, <2>3 DEF RemoveUnknown, Gone
    <2>4. CASE FaultKills(r)
      <3>1. Goes(r, "faulting", cont[r])
            /\ (docker' = [docker EXCEPT ![cont[r]] = NoImage] \/ UNCHANGED docker)
        BY <2>4 DEF FaultKills, Gone
      <3>2. pc[q] = "released" /\ cont'[q] = cont[q]
        BY <1>4, <3>1
      <3>. QED  BY <1>2, <1>3, <2>0, <3>1, <3>2
    <2>5. CASE FaultUntracks(r)
      BY <1>5, <2>5 DEF FaultUntracks
    <2>. QED  BY <1>7, <2>1, <2>2, <2>3, <2>4, <2>5 DEF Destroy
  <1>8. ASSUME UNCHANGED <<pc, cont, docker>> PROVE docker'[cont'[q]] = NoImage
    BY <1>1, <1>2, <1>8
  <1>9. CASE TakeNext \/ WakeUp \/ PrewarmFails
    BY <1>8, <1>9 DEF TakeNext, WakeUp, PrewarmFails
  <1>10. CASE PrewarmMade \/ PrewarmHangs
    <2>1. PICK c \in Containers : Fresh(c) /\ docker' = [docker EXCEPT ![c] = worker]
      BY <1>10 DEF PrewarmMade, PrewarmHangs
    <2>2. c \notin InHand /\ UNCHANGED <<pc, cont>>
      BY <1>10, <2>1, FreshIsFree DEF PrewarmMade, PrewarmHangs
    <2>. QED  BY <1>1, <1>3, <2>1, <2>2
  <1>11. ASSUME NEW c \in Containers, Dies(c) PROVE docker'[cont'[q]] = NoImage
    BY <1>1, <1>3, <1>11 DEF Dies, Gone
  <1>12. CASE Restart
    <2>1. pc' = [r \in Requests |-> CASE pc[r] \in Creating -> "refused"
                                      [] pc[r] \in Holding -> "given"
                                      [] OTHER -> pc[r]]
      BY <1>12 DEF Restart
    <2>2. pc[q] \in States
      BY <1>0 DEF HandsTyped
    <2>3. CASE pc[q] \in Creating
      BY <1>1, <2>1, <2>3 DEF Creating, Holding
    <2>4. CASE pc[q] \in Holding
      BY <1>1, <2>1, <2>4 DEF Creating, Holding
    <2>5. CASE pc[q] \notin Creating /\ pc[q] \notin Holding
      BY <1>1, <2>1, <2>2, <2>5 DEF Creating, Holding, States
    <2>. QED  BY <2>3, <2>4, <2>5
  <1>13. CASE UNCHANGED vars
    BY <1>8, <1>13 DEF vars
  <1>. QED  BY <1>6, <1>7, <1>9, <1>10, <1>11, <1>12, <1>13 DEF Next, PrewarmLoop

\* Nothing runs at first.
LEMMA KnownInit == Init => KnownInv
  <1>. SUFFICES ASSUME Init PROVE KnownInv
    OBVIOUS
  <1>1. WarmInv
    BY WarmInit
  <1>2. ContainersKnown
    BY DEF Init, ContainersKnown, Running
  <1>3. Released
    BY DEF Init, Released
  <1>. QED  BY <1>1, <1>2, <1>3 DEF KnownInv

\* The invariant of the next theorem: what release has removed is gone when the node forgets
\* it (release, container_destroy).
THEOREM KnownInvAlways == Spec => []KnownInv
  <1>1. Init => KnownInv
    BY KnownInit
  <1>2. KnownInv /\ [Next]_vars => KnownInv'
    <2>. SUFFICES ASSUME KnownInv, [Next]_vars PROVE KnownInv'
      OBVIOUS
    <2>1. WarmInv'
      BY WarmStep DEF KnownInv
    <2>2. ContainersKnown' /\ Released'
      BY KnownStep, ReleasedStep
    <2>. QED  BY <2>1, <2>2 DEF KnownInv
  <1>. QED  BY <1>1, <1>2, PTL DEF Spec

\* Every container that runs is warm, active, in somebody's hands, or one a docker command was
\* given up on or a restart did not adopt (acquire, release, _prewarm_loop).
THEOREM ContainersAlwaysKnown == Spec => []ContainersKnown
  <1>1. KnownInv => ContainersKnown
    BY DEF KnownInv
  <1>. QED  BY <1>1, KnownInvAlways, PTL
-----------------------------------------------------------------------------
(***************************************************************************)
(* Who has which container.                                                *)
(***************************************************************************)
Acquiring == {r \in Requests : pc[r] \in {"checking", "acquired"}}

Apart ==
    /\ \A i, j \in Images : i # j => ToSet(idle[i]) \intersect ToSet(idle[j]) = {}
    /\ Warm \intersect (active \union inUse) = {}
    /\ \A r \in Acquiring : cont[r] \notin Warm \union active \union inUse
    /\ \A r, s \in Acquiring : cont[r] = cont[s] => r = s

Unshared == restarts = 0 => UsedAtMostOnce /\ Warm \intersect InHand = {}

SharedInv == WarmInv /\ Apart /\ Unshared

\* nothing becomes warm, tracked or acquired
LEMMA LeavingKeeps ==
    ASSUME SharedInv,
           \A i \in Images : ToSet(idle'[i]) \subseteq ToSet(idle[i]),
           active' \subseteq active, inUse' \subseteq inUse, restarts' = restarts,
           \A q \in Requests : /\ cont'[q] \in {cont[q], NoContainer}
                               /\ q \in Acquiring' => q \in Acquiring /\ cont'[q] = cont[q]
    PROVE  Apart' /\ Unshared'
  <1>1. Warm' \subseteq Warm
    BY DEF Warm
  <1>2. Acquiring' \subseteq Requests
    BY DEF Acquiring
  <1>3. (\A i, j \in Images : i # j => ToSet(idle[i]) \intersect ToSet(idle[j]) = {})'
    BY DEF SharedInv, Apart
  <1>4. Warm' \intersect (active' \union inUse') = {}
    BY <1>1 DEF SharedInv, Apart
  <1>5. \A r \in Acquiring' : cont'[r] \notin Warm' \union active' \union inUse'
    BY <1>1, <1>2 DEF SharedInv, Apart
  <1>6. \A r, s \in Acquiring' : cont'[r] = cont'[s] => r = s
    BY <1>2 DEF SharedInv, Apart
  <1>7. Apart'
    BY <1>3, <1>4, <1>5, <1>6 DEF Apart
  <1>8. InHand' \subseteq InHand
    BY DEF InHand
  <1>9. restarts = 0 => UsedAtMostOnce'
    BY DEF SharedInv, Unshared, UsedAtMostOnce
  <1>10. restarts = 0 => Warm' \intersect InHand' = {}
    BY <1>1, <1>8 DEF SharedInv, Unshared
  <1>11. Unshared'
    BY <1>9, <1>10 DEF Unshared
  <1>. QED  BY <1>7, <1>11

\* r has a container that was nobody's but, at most, a warm one
LEMMA EnteringKeeps ==
    ASSUME SharedInv, HandsTyped, NEW r \in Requests, NEW c \in Containers, c # NoContainer,
           NEW s \in {"checking", "acquired"}, Goes(r, s, c),
           c \notin Warm' \union active \union inUse,
           \A q \in Acquiring : cont[q] # c,
           restarts = 0 => c \notin InHand,
           \A i \in Images : ToSet(idle'[i]) \subseteq ToSet(idle[i]),
           UNCHANGED <<active, inUse, restarts>>
    PROVE  Apart' /\ Unshared'
  <1>1. Warm' \subseteq Warm
    BY DEF Warm
  <1>2. /\ cont'[r] = c /\ pc'[r] = s
        /\ \A q \in Requests \ {r} : cont'[q] = cont[q] /\ pc'[q] = pc[q]
        /\ InHand' \subseteq InHand \union {c}
    BY HandsMove
  <1>3. \A q \in Acquiring' : q = r \/ (q \in Acquiring /\ cont'[q] = cont[q] /\ cont[q] # c)
    BY <1>2 DEF Acquiring
  <1>4. (\A i, j \in Images : i # j => ToSet(idle[i]) \intersect ToSet(idle[j]) = {})'
    BY DEF SharedInv, Apart
  <1>5. Warm' \intersect (active' \union inUse') = {}
    BY <1>1 DEF SharedInv, Apart
  <1>6. \A q \in Acquiring' : cont'[q] \notin Warm' \union active' \union inUse'
    BY <1>1, <1>2, <1>3 DEF SharedInv, Apart
  <1>7. ASSUME NEW q \in Acquiring', NEW t \in Acquiring', cont'[q] = cont'[t] PROVE q = t
    BY <1>2, <1>3, <1>7 DEF SharedInv, Apart
  <1>8. Apart'
    BY <1>4, <1>5, <1>6, <1>7 DEF Apart
  <1>9. ASSUME restarts = 0, NEW q \in Requests, NEW t \in Requests, cont'[q] = cont'[t], cont'[q] # NoContainer
        PROVE  q = t
    <2>1. \A u \in Requests \ {r} : cont'[u] = cont[u] /\ cont[u] # c
      BY <1>2, <1>9 DEF InHand
    <2>2. CASE q = r \/ t = r
      BY <1>2, <1>9, <2>1, <2>2
    <2>3. CASE q # r /\ t # r
      BY <1>9, <2>1, <2>3 DEF SharedInv, Unshared, UsedAtMostOnce
    <2>. QED  BY <2>2, <2>3
  <1>10. restarts = 0 => Warm' \intersect InHand' = {}
    BY <1>1, <1>2 DEF SharedInv, Unshared
  <1>11. Unshared'
    BY <1>9, <1>10 DEF Unshared, UsedAtMostOnce
  <1>. QED  BY <1>8, <1>11

\* Every step keeps the containers apart.
LEMMA SharedStep ==
    ASSUME SharedInv, [Next]_vars
    PROVE  Apart' /\ Unshared'
  <1>0. HandsTyped /\ Paired /\ DockerTyped /\ WarmInv /\ Apart /\ Unshared
    BY DEF SharedInv, WarmInv, TypeOK, DockerTyped, HandsTyped, States
  \* an environment's handler goes on without a new container
  <1>1. ASSUME NEW r \in Requests, NEW s, NEW c, Goes(r, s, c), c \in {cont[r], NoContainer},
               s \in {"checking", "acquired"} => r \in Acquiring /\ c = cont[r],
               idle' = idle, active' \subseteq active, inUse' \subseteq inUse, restarts' = restarts
        PROVE  Apart' /\ Unshared'
    <2>1. /\ cont'[r] = c /\ pc'[r] = s
          /\ \A q \in Requests \ {r} : cont'[q] = cont[q] /\ pc'[q] = pc[q]
      BY <1>0, <1>1, HandsMove
    <2>2. ASSUME NEW q \in Requests
          PROVE  /\ cont'[q] \in {cont[q], NoContainer}
                 /\ q \in Acquiring' => q \in Acquiring /\ cont'[q] = cont[q]
      BY <1>1, <2>1 DEF Acquiring
    <2>3. \A i \in Images : ToSet(idle'[i]) \subseteq ToSet(idle[i])
      BY <1>1
    <2>. QED  BY <1>1, <2>2, <2>3, LeavingKeeps
  <1>2. ASSUME NEW r \in Requests, Create(r) PROVE Apart' /\ Unshared'
    <2>1. CASE Ask(r)
      BY <1>1, <2>1 DEF Ask, bounds
    <2>2. CASE PopIdle(r)
      <3>1. PICK c : c = Head(idle[Wanted[r]])
        OBVIOUS
      <3>2. /\ c \in Warm /\ Warm' \subseteq Warm
            /\ \A i \in Images : ToSet(idle'[i]) \subseteq ToSet(idle[i])
            /\ c \notin ToSet(idle'[Wanted[r]])
        BY <1>0, <2>2, <3>1, WarmTaken
      <3>3. c \in Containers
        BY <1>0, <3>2 DEF WarmInv, TypeOK, Warm, ToSet
      <3>4. c \notin Warm'
        <4>1. c \in ToSet(idle[Wanted[r]]) /\ Wanted[r] \in Images
          <5>1. Wanted[r] \in Images
            BY ConfigAssumption
          <5>2. idle[Wanted[r]] \in Seq(Containers) /\ idle[Wanted[r]] # <<>> /\ IsInjective(idle[Wanted[r]])
            BY <1>0, <2>2, <5>1 DEF WarmInv, TypeOK, PopIdle
          <5>. QED  BY <3>1, <5>1, <5>2, TailIdle
        <4>2. \A i \in Images : c \notin ToSet(idle'[i])
          BY <1>0, <3>2, <4>1 DEF Apart
        <4>. QED  BY <4>2 DEF Warm
      <3>5. c \notin active \union inUse /\ (\A q \in Acquiring : cont[q] # c) /\ (restarts = 0 => c \notin InHand)
        BY <1>0, <3>2 DEF Apart, Unshared
      <3>6. Goes(r, "checking", c) /\ UNCHANGED <<active, inUse, restarts>>
        BY <2>2, <3>1 DEF PopIdle, bounds
      <3>7. c # NoContainer
        BY <3>3, ConfigAssumption
      <3>. QED  BY <1>0, <3>2, <3>3, <3>4, <3>5, <3>6, <3>7, EnteringKeeps
    <2>3. CASE Miss(r)
      BY <1>1, <2>3 DEF Miss, bounds
    <2>4. CASE Healthy(r)
      BY <1>1, <2>4 DEF Healthy, bounds, Acquiring
    <2>5. CASE Unhealthy(r)
      BY <1>1, <2>5 DEF Unhealthy, bounds
    <2>6. CASE CheckHangs(r)
      BY <1>1, <2>6 DEF CheckHangs, Fault
    <2>7. CASE Make(r)
      <3>1. PICK c \in Containers : Fresh(c) /\ Goes(r, "acquired", c)
        BY <2>7 DEF Make
      <3>2. c \notin Warm /\ c \notin active /\ c \notin InHand /\ c \notin inUse /\ c # NoContainer
        BY <3>1, FreshIsFree, ConfigAssumption
      <3>3. UNCHANGED <<idle, active, inUse, restarts>>
        BY <2>7 DEF Make, bounds
      <3>4. Warm' = Warm
        BY <3>3 DEF Warm
      <3>5. \A q \in Acquiring : cont[q] # c
        BY <3>2 DEF Acquiring, InHand
      <3>. QED  BY <1>0, <3>1, <3>2, <3>3, <3>4, <3>5, EnteringKeeps
    <2>8. CASE MakeFails(r)
      BY <1>1, <2>8 DEF MakeFails, bounds
    <2>9. CASE MakeHangs(r)
      BY <1>1, <2>9 DEF MakeHangs, Fault
    <2>10. CASE Track(r)
      <3>1. PICK c : c = cont[r] /\ Goes(r, "given", c) /\ r \in Acquiring
        BY <2>10 DEF Track, Acquiring
      <3>2. /\ active' = active \union {c} /\ inUse' = inUse \union {c}
            /\ UNCHANGED <<idle, restarts>>
        BY <2>10, <3>1 DEF Track, bounds
      <3>3. /\ cont'[r] = c /\ pc'[r] = "given"
            /\ \A q \in Requests \ {r} : cont'[q] = cont[q] /\ pc'[q] = pc[q]
        BY <1>0, <3>1, HandsMove
      <3>4. \A q \in Acquiring' : q \in Acquiring /\ cont'[q] = cont[q] /\ cont[q] # c
        BY <1>0, <3>1, <3>3 DEF Acquiring, Apart
      <3>5. Warm' = Warm /\ c \notin Warm
        BY <1>0, <3>1, <3>2 DEF Warm, Apart
      <3>6. (\A i, j \in Images : i # j => ToSet(idle[i]) \intersect ToSet(idle[j]) = {})'
        BY <1>0, <3>2 DEF Apart
      <3>7. Warm' \intersect (active' \union inUse') = {}
        BY <1>0, <3>2, <3>5 DEF Apart
      <3>8. \A q \in Acquiring' : cont'[q] \notin Warm' \union active' \union inUse'
        BY <1>0, <3>2, <3>4, <3>5 DEF Apart
      <3>9. \A q, t \in Acquiring' : cont'[q] = cont'[t] => q = t
        BY <1>0, <3>4 DEF Apart
      <3>10. Apart'
        BY <3>6, <3>7, <3>8, <3>9 DEF Apart
      <3>11. \A q \in Requests : cont'[q] = cont[q]
        BY <3>1, <3>3
      <3>12. Unshared'
        BY <1>0, <3>2, <3>5, <3>11 DEF Unshared, UsedAtMostOnce, InHand
      <3>. QED  BY <3>10, <3>12
    <2>. QED  BY <1>2, <2>1, <2>2, <2>3, <2>4, <2>5, <2>6, <2>7, <2>8, <2>9, <2>10 DEF Create
  <1>3. ASSUME NEW r \in Requests, Destroy(r) PROVE Apart' /\ Unshared'
    <2>1. CASE Release(r)
      BY <1>1, <2>1 DEF Release, bounds
    <2>2. CASE Untrack(r)
      BY <1>1, <2>2 DEF Untrack, bounds
    <2>3. CASE RemoveUnknown(r)
      BY <1>1, <2>3 DEF RemoveUnknown, bounds
    <2>4. CASE FaultKills(r)
      BY <1>1, <2>4 DEF FaultKills, Fault, bounds
    <2>5. CASE FaultUntracks(r)
      BY <1>1, <2>5 DEF FaultUntracks, bounds
    <2>. QED  BY <1>3, <2>1, <2>2, <2>3, <2>4, <2>5 DEF Destroy
  <1>4. ASSUME UNCHANGED <<pc, cont, idle, active, inUse, restarts>> PROVE Apart' /\ Unshared'
    <2>1. Acquiring' = Acquiring
      BY <1>4 DEF Acquiring
    <2>. QED  BY <1>4, <2>1, LeavingKeeps
  <1>5. CASE TakeNext \/ WakeUp \/ PrewarmFails
    BY <1>4, <1>5 DEF TakeNext, WakeUp, PrewarmFails, bounds
  <1>6. CASE PrewarmHangs
    BY <1>4, <1>6 DEF PrewarmHangs, Fault
  <1>7. ASSUME NEW c \in Containers, Dies(c) PROVE Apart' /\ Unshared'
    BY <1>4, <1>7 DEF Dies, Fault
  <1>8. CASE PrewarmMade
    <2>1. PICK c \in Containers : Fresh(c) /\ idle' = [idle EXCEPT ![worker] = Append(@, c)]
      BY <1>8 DEF PrewarmMade
    <2>2. worker \in Images /\ UNCHANGED <<pc, cont, active, inUse, restarts>>
      BY <1>0, <1>8 DEF DockerTyped, PrewarmMade, bounds
    <2>3. c \notin Warm /\ c \notin active /\ c \notin InHand /\ c \notin inUse /\ c # NoContainer
      BY <2>1, FreshIsFree, ConfigAssumption
    <2>4. /\ Warm' = Warm \union {c}
          /\ ToSet(idle'[worker]) = ToSet(idle[worker]) \union {c}
          /\ \A i \in Images \ {worker} : idle'[i] = idle[i]
      BY <1>0, <2>1, <2>2, <2>3, WarmAdded
    <2>5. \A i \in Images : c \notin ToSet(idle[i])
      BY <2>3 DEF Warm
    <2>6. ASSUME NEW i \in Images, NEW j \in Images, i # j PROVE ToSet(idle'[i]) \intersect ToSet(idle'[j]) = {}
      <3>1. ToSet(idle[i]) \intersect ToSet(idle[j]) = {}
        BY <1>0, <2>6 DEF Apart
      <3>. QED  BY <2>2, <2>4, <2>5, <2>6, <3>1
    <2>7. Acquiring' = Acquiring /\ InHand' = InHand /\ \A q \in Acquiring : cont[q] # c
      BY <2>2, <2>3 DEF Acquiring, InHand
    <2>8. Warm' \intersect (active' \union inUse') = {}
      BY <1>0, <2>2, <2>3, <2>4 DEF Apart
    <2>9. \A q \in Acquiring' : cont'[q] \notin Warm' \union active' \union inUse'
      BY <1>0, <2>2, <2>4, <2>7 DEF Apart
    <2>10. \A q, t \in Acquiring' : cont'[q] = cont'[t] => q = t
      BY <1>0, <2>2, <2>7 DEF Apart
    <2>11. Apart'
      BY <2>6, <2>8, <2>9, <2>10 DEF Apart
    <2>12. Unshared'
      BY <1>0, <2>2, <2>3, <2>4, <2>7 DEF Unshared, UsedAtMostOnce
    <2>. QED  BY <2>11, <2>12
  <1>9. CASE Restart
    <2>1. /\ \A i \in Images : \A c \in ToSet(idle'[i]) : docker[c] = i
          /\ active' = {} /\ inUse' = {} /\ restarts' = restarts + 1
          /\ pc' = [r \in Requests |-> CASE pc[r] \in Creating -> "refused"
                                         [] pc[r] \in Holding -> "given"
                                         [] OTHER -> pc[r]]
      BY <1>9 DEF Restart
    <2>2. Acquiring' = {}
      <3>1. ASSUME NEW r \in Requests PROVE pc'[r] \notin {"checking", "acquired"}
        <4>1. pc[r] \in States
          BY <1>0 DEF HandsTyped
        <4>2. CASE pc[r] \in Creating
          BY <2>1, <4>2 DEF Creating, Holding
        <4>3. CASE pc[r] \in Holding
          BY <2>1, <4>3 DEF Creating, Holding
        <4>4. CASE pc[r] \notin Creating /\ pc[r] \notin Holding
          BY <2>1, <4>1, <4>4 DEF Creating, Holding, States
        <4>. QED  BY <4>2, <4>3, <4>4
      <3>. QED  BY <3>1 DEF Acquiring
    <2>3. \A i, j \in Images : i # j => ToSet(idle'[i]) \intersect ToSet(idle'[j]) = {}
      BY <2>1
    <2>4. Apart'
      BY <2>1, <2>2, <2>3 DEF Apart
    <2>5. restarts' # 0
      BY <1>0, <2>1, ConfigAssumption DEF DockerTyped
    <2>. QED  BY <2>4, <2>5 DEF Unshared
  <1>10. CASE UNCHANGED vars
    BY <1>4, <1>10 DEF vars, bounds
  <1>. QED  BY <1>2, <1>3, <1>5, <1>6, <1>7, <1>8, <1>9, <1>10 DEF Next, PrewarmLoop

\* At first nobody has one.
LEMMA SharedInit == Init => SharedInv
  <1>. SUFFICES ASSUME Init PROVE SharedInv
    OBVIOUS
  <1>1. WarmInv
    BY WarmInit
  <1>2. \A i \in Images : ToSet(idle[i]) = {}
    BY DEF Init, ToSet
  <1>3. Warm = {}
    BY <1>2 DEF Warm
  <1>4. Acquiring = {}
    BY DEF Init, Acquiring
  <1>5. Apart
    BY <1>2, <1>3, <1>4 DEF Apart
  <1>6. Unshared
    BY <1>3 DEF Init, Unshared, UsedAtMostOnce
  <1>. QED  BY <1>1, <1>5, <1>6 DEF SharedInv

\* A container that is popped or made for a request is no other request's and neither warm nor
\* in use; without a restart this is so until it is given back (_pop_idle_candidate, acquire).
THEOREM SharedInvAlways == Spec => []SharedInv
  <1>1. Init => SharedInv
    BY SharedInit
  <1>2. SharedInv /\ [Next]_vars => SharedInv'
    <2>. SUFFICES ASSUME SharedInv, [Next]_vars PROVE SharedInv'
      OBVIOUS
    <2>1. WarmInv'
      BY WarmStep DEF SharedInv
    <2>2. Apart' /\ Unshared'
      BY SharedStep
    <2>. QED  BY <2>1, <2>2 DEF SharedInv
  <1>. QED  BY <1>1, <1>2, PTL DEF Spec

\* "each warmed container is used at most once" (docs/en/container_pool.md): while the exec
\* server runs, no two environments have the same container.
THEOREM UsedOnceUntilRestart == Spec => [](restarts = 0 => UsedAtMostOnce)
  <1>1. SharedInv => (restarts = 0 => UsedAtMostOnce)
    BY DEF SharedInv, Unshared
  <1>. QED  BY <1>1, SharedInvAlways, PTL
-----------------------------------------------------------------------------
(***************************************************************************)
(* ContainerPool implements the safety part of ContainerSupply.            *)
(***************************************************************************)
Told(state) ==
    CASE state = "new" -> "none"
      [] state \in Creating -> "asked"
      [] state = "refused" -> "refused"
      [] state = "gone" -> "closed"
      [] OTHER -> "given"

answers == [r \in Requests |-> Answer(r)]
holds == [r \in Requests |-> IF pc[r] \in Holding THEN cont[r] ELSE NoContainer]

\* What each place of a handler looks like from outside.
LEMMA ToldBy ==
    /\ Told("new") = "none" /\ Told("refused") = "refused" /\ Told("gone") = "closed"
    /\ \A s \in Creating : Told(s) = "asked"
    /\ \A s \in Holding : Told(s) = "given"
  BY DEF Told, Creating, Holding

\* A step of one handler changes one answer.
LEMMA AnswersMove ==
    ASSUME HandsTyped, NEW r \in Requests, NEW s, NEW c, Goes(r, s, c)
    PROVE  /\ answers \in [Requests -> {Told(t) : t \in States}]
           /\ answers' = [answers EXCEPT ![r] = Told(s)]
           /\ answers[r] = Told(pc[r])
           /\ holds' = [holds EXCEPT ![r] = IF s \in Holding THEN c ELSE NoContainer]
           /\ holds[r] = IF pc[r] \in Holding THEN cont[r] ELSE NoContainer
  <1>1. /\ cont'[r] = c /\ pc'[r] = s
        /\ \A q \in Requests \ {r} : cont'[q] = cont[q] /\ pc'[q] = pc[q]
    BY HandsMove
  <1>2. answers = [q \in Requests |-> Told(pc[q])]
    BY DEF answers, Answer, Told
  <1>3. answers' = [q \in Requests |-> Told(pc'[q])]
    BY DEF answers, Answer, Told
  <1>4. answers' = [answers EXCEPT ![r] = Told(s)]
    BY <1>1, <1>2, <1>3
  <1>5. holds' = [holds EXCEPT ![r] = IF s \in Holding THEN c ELSE NoContainer]
    BY <1>1 DEF holds
  <1>6. answers \in [Requests -> {Told(t) : t \in States}]
    BY <1>2 DEF HandsTyped
  <1>. QED  BY <1>2, <1>4, <1>5, <1>6 DEF holds

\* The variables of ContainerSupply, as seen here.
LEMMA SupplyVars == Supply!vars = <<answers, holds, inUse>>
  BY DEF Supply!vars, answers, holds

\* A step inside acquire or release shows nothing outside.
LEMMA StutterMove ==
    ASSUME HandsTyped, NEW r \in Requests, NEW s, Goes(r, s, IF s \in Holding THEN cont[r] ELSE cont'[r]),
           Told(s) = Told(pc[r]), s \in Holding <=> pc[r] \in Holding, UNCHANGED inUse
    PROVE  UNCHANGED Supply!vars
  <1>1. PICK c : c = IF s \in Holding THEN cont[r] ELSE cont'[r]
    OBVIOUS
  <1>2. /\ answers' = [answers EXCEPT ![r] = Told(s)] /\ answers[r] = Told(pc[r])
        /\ holds' = [holds EXCEPT ![r] = IF s \in Holding THEN c ELSE NoContainer]
        /\ holds[r] = IF pc[r] \in Holding THEN cont[r] ELSE NoContainer
    BY <1>1, AnswersMove
  <1>3. answers' = answers
    BY <1>2 DEF answers
  <1>4. holds' = holds
    BY <1>1, <1>2 DEF holds
  <1>. QED  BY <1>3, <1>4 DEF Supply!vars, answers, holds

\* The pool starts as ContainerSupply does.
LEMMA SupplyInit == Init => Supply!Init
  <1>. SUFFICES ASSUME Init PROVE Supply!Init
    OBVIOUS
  <1>1. \A r \in Requests : pc[r] = "new" /\ pc[r] \notin Holding
    BY DEF Init, Holding
  <1>2. answers = [r \in Requests |-> "none"]
    BY <1>1 DEF answers, Answer, Creating
  <1>3. holds = [r \in Requests |-> NoContainer]
    BY <1>1 DEF holds
  <1>4. inUse = {}
    BY DEF Init
  <1>. QED  BY <1>2, <1>3, <1>4 DEF Supply!Init, answers, holds

\* Every step of the pool is one of ContainerSupply, or shows nothing.
LEMMA SupplyStep ==
    ASSUME SharedInv, [Next]_vars
    PROVE  Supply!Next \/ UNCHANGED Supply!vars
  <1>0. HandsTyped /\ Paired /\ DockerTyped /\ WarmInv /\ Apart
    BY DEF SharedInv, WarmInv, TypeOK, DockerTyped, HandsTyped, States
  <1>1. ASSUME NEW r \in Requests, Create(r) PROVE Supply!Next \/ UNCHANGED Supply!vars
    <2>1. CASE Ask(r)
      <3>1. answers' = [answers EXCEPT ![r] = "asked"] /\ answers[r] = "none"
        BY <1>0, <2>1, AnswersMove, ToldBy DEF Ask, Creating
      <3>2. holds' = [holds EXCEPT ![r] = NoContainer] /\ holds[r] = NoContainer
        BY <1>0, <2>1, AnswersMove DEF Ask, Holding
      <3>3. UNCHANGED <<holds, inUse>>
        BY <2>1, <3>2 DEF Ask, holds
      <3>4. Supply!Ask(r)
        BY <3>1, <3>3 DEF Supply!Ask, answers, holds
      <3>. QED  BY <3>4 DEF Supply!Next
    <2>2. CASE PopIdle(r) \/ Miss(r) \/ Healthy(r) \/ Unhealthy(r) \/ Make(r)
      <3>1. PICK s, c : s \in Creating /\ Goes(r, s, c) /\ pc[r] \in Creating /\ UNCHANGED inUse
        BY <2>2 DEF PopIdle, Miss, Healthy, Unhealthy, Make, Creating
      <3>2. c = cont'[r] /\ Told(s) = Told(pc[r]) /\ s \notin Holding /\ pc[r] \notin Holding
        BY <1>0, <3>1, HandsMove, ToldBy DEF Creating, Holding
      <3>. QED  BY <1>0, <3>1, <3>2, StutterMove
    <2>3. CASE CheckHangs(r) \/ MakeFails(r) \/ MakeHangs(r)
      <3>1. Goes(r, "refused", NoContainer) /\ pc[r] \in Creating /\ pc[r] \notin Holding /\ UNCHANGED inUse
        BY <2>3 DEF CheckHangs, MakeFails, MakeHangs, Creating, Holding
      <3>2. answers' = [answers EXCEPT ![r] = "refused"] /\ answers[r] = "asked"
        BY <1>0, <3>1, AnswersMove, ToldBy
      <3>3. holds' = [holds EXCEPT ![r] = NoContainer] /\ holds[r] = NoContainer
        BY <1>0, <3>1, AnswersMove DEF Holding
      <3>4. UNCHANGED holds
        BY <3>3 DEF holds
      <3>5. Supply!Refuse(r)
        BY <3>1, <3>2, <3>4 DEF Supply!Refuse, answers, holds
      <3>. QED  BY <3>5 DEF Supply!Next
    <2>4. CASE Track(r)
      <3>1. PICK c \in Containers : c = cont[r] /\ Goes(r, "given", c) /\ pc[r] \in Creating /\ r \in Acquiring
        <4>1. pc[r] = "acquired" /\ Goes(r, "given", cont[r])
          BY <2>4 DEF Track
        <4>2. cont[r] \in Containers
          BY <1>0, <4>1 DEF HandsTyped, Paired
        <4>. QED  BY <4>1, <4>2 DEF Creating, Acquiring
      <3>2. answers' = [answers EXCEPT ![r] = "given"] /\ answers[r] = "asked"
        BY <1>0, <3>1, AnswersMove, ToldBy DEF Holding
      <3>3. holds' = [holds EXCEPT ![r] = c]
        BY <1>0, <3>1, AnswersMove DEF Holding
      <3>4. c \notin inUse /\ inUse' = inUse \union {c}
        BY <1>0, <2>4, <3>1 DEF Track, Apart
      <3>5. Supply!Give(r, c)
        BY <3>2, <3>3, <3>4 DEF Supply!Give, answers, holds
      <3>. QED  BY <3>5 DEF Supply!Next
    <2>. QED  BY <1>1, <2>1, <2>2, <2>3, <2>4 DEF Create
  <1>2. ASSUME NEW r \in Requests, Destroy(r) PROVE Supply!Next \/ UNCHANGED Supply!vars
    <2>1. CASE Release(r) \/ FaultKills(r) \/ FaultUntracks(r)
      <3>1. PICK s \in Holding : Goes(r, s, cont[r]) /\ pc[r] \in Holding /\ UNCHANGED inUse
        BY <2>1 DEF Release, FaultKills, FaultUntracks, Holding
      <3>2. Told(s) = Told(pc[r])
        BY <3>1, ToldBy
      <3>. QED  BY <1>0, <3>1, <3>2, StutterMove
    <2>2. CASE Untrack(r) \/ RemoveUnknown(r)
      <3>1. Goes(r, "gone", NoContainer) /\ pc[r] \in Holding /\ inUse' = inUse \ {cont[r]}
        BY <2>2 DEF Untrack, RemoveUnknown, Holding
      <3>2. answers' = [answers EXCEPT ![r] = "closed"] /\ answers[r] = "given"
        BY <1>0, <3>1, AnswersMove, ToldBy
      <3>3. holds' = [holds EXCEPT ![r] = NoContainer] /\ holds[r] = cont[r]
        BY <1>0, <3>1, AnswersMove DEF Holding
      <3>4. Supply!Close(r)
        BY <3>1, <3>2, <3>3 DEF Supply!Close, answers, holds
      <3>. QED  BY <3>4 DEF Supply!Next
    <2>. QED  BY <1>2, <2>1, <2>2 DEF Destroy
  <1>3. ASSUME UNCHANGED <<pc, cont, inUse>> PROVE UNCHANGED Supply!vars
    BY <1>3 DEF Supply!vars, Answer
  <1>4. CASE PrewarmLoop
    BY <1>3, <1>4 DEF PrewarmLoop, TakeNext, WakeUp, PrewarmMade, PrewarmFails, PrewarmHangs
  <1>5. ASSUME NEW c \in Containers, Dies(c) PROVE UNCHANGED Supply!vars
    BY <1>3, <1>5 DEF Dies
  <1>6. CASE Restart
    <2>1. /\ pc' = [r \in Requests |-> CASE pc[r] \in Creating -> "refused"
                                         [] pc[r] \in Holding -> "given"
                                         [] OTHER -> pc[r]]
          /\ cont' = [r \in Requests |-> IF pc[r] \in Creating THEN NoContainer ELSE cont[r]]
          /\ inUse' = {}
      BY <1>6 DEF Restart
    <2>2. ASSUME NEW r \in Requests
          PROVE  /\ answers'[r] = IF answers[r] = "asked" THEN "refused" ELSE answers[r]
                 /\ holds'[r] = holds[r]
      <3>0. pc[r] \in States /\ answers[r] = Told(pc[r]) /\ answers'[r] = Told(pc'[r])
        BY <1>0 DEF HandsTyped, answers, Answer, Told
      <3>1. CASE pc[r] \in Creating
        <4>1. pc'[r] = "refused" /\ pc[r] \notin Holding /\ pc'[r] \notin Holding
          BY <2>1, <3>1 DEF Creating, Holding
        <4>. QED  BY <3>0, <3>1, <4>1, ToldBy DEF holds
      <3>2. CASE pc[r] \in Holding
        <4>1. pc'[r] = "given" /\ pc'[r] \in Holding /\ cont'[r] = cont[r]
          BY <2>1, <3>2 DEF Creating, Holding
        <4>. QED  BY <3>0, <3>2, <4>1, ToldBy DEF holds
      <3>3. CASE pc[r] \notin Creating /\ pc[r] \notin Holding
        <4>1. pc'[r] = pc[r] /\ cont'[r] = cont[r] /\ pc[r] \in {"new", "refused", "gone"}
          BY <2>1, <3>0, <3>3 DEF States
        <4>2. answers'[r] = answers[r] /\ answers[r] # "asked"
          BY <3>0, <4>1, ToldBy
        <4>. QED  BY <4>1, <4>2 DEF holds
      <3>. QED  BY <3>0, <3>1, <3>2, <3>3 DEF States
    <2>3. answers' = [r \in Requests |-> IF answers[r] = "asked" THEN "refused" ELSE answers[r]]
      BY <2>2 DEF answers
    <2>4. UNCHANGED holds
      BY <2>2 DEF holds
    <2>5. Supply!Restart
      BY <2>1, <2>3, <2>4 DEF Supply!Restart, answers, holds
    <2>. QED  BY <2>5 DEF Supply!Next
  <1>7. CASE UNCHANGED vars
    BY <1>3, <1>7 DEF vars
  <1>. QED  BY <1>1, <1>2, <1>4, <1>5, <1>6, <1>7 DEF Next

\* The safety part of ImplementsSupply: /container/create and /container/destroy do only what
\* ContainerSupply allows, and give nobody a container that is in use.
THEOREM KeepsSupply == Spec => Supply!Init /\ [][Supply!Next]_(Supply!vars)
  <1>1. Init => Supply!Init
    BY SupplyInit
  <1>2. SharedInv /\ [Next]_vars => [Supply!Next]_(Supply!vars)
    BY SupplyStep
  <1>. QED  BY <1>1, <1>2, SharedInvAlways, PTL DEF Spec
=============================================================================
