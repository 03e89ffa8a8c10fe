-------------------------- MODULE EnvPool_proofs ---------------------------
(***************************************************************************)
(* Proofs about EnvPool for every set of rollouts, nodes and containers,   *)
(* every finite set of threads, and all limits.                            *)
(***************************************************************************)
EXTENDS EnvPool, FiniteSetTheorems, WellFoundedInduction, TLAPS

(***************************************************************************)
(* The inductive invariant, in parts.                                      *)
(***************************************************************************)
AllocateStages == {"queued", "entered", "ok", "failed"} \union SlotStages
CloseStages == {"asked", "found", "destroying", "destroyed", "popped", "ok", "failed"}
BlockStages == SlotStages \union {"entered"}

\* the thread has made a container whose number only it knows
Knows(t) == thread[t].op = "allocate" /\ thread[t].stage \in {"creating", "leased", "ok"}
Destroys(t) == thread[t].stage \in {"destroying", "destroyed"}

\* what the stage of a call says about the number it works on
Staged ==
    \A t \in Threads :
        /\ At(t, "idle") => thread[t] = Idle
        /\ thread[t].op = "none" => At(t, "idle")
        /\ thread[t].op = "allocate" => thread[t].stage \in AllocateStages
        /\ thread[t].op = "close" => thread[t].stage \in CloseStages
        /\ thread[t].op = "allocate" /\ ~Knows(t) => thread[t].id = 0
        /\ At(t, "creating") => /\ thread[t].id \in Ids \ Leases
                                /\ thread[t].node \in Nodes
        /\ Knows(t) /\ ~At(t, "creating") => /\ thread[t].id \in Leases
                                             /\ box[thread[t].id] = "up"
        /\ Destroys(t) => thread[t].id \in Leases
        /\ At(t, "destroyed") => box[thread[t].id] = "none"
        /\ At(t, "popped") => thread[t].node \in Nodes
        /\ thread[t].op = "close" /\ thread[t].stage \in {"popped", "ok"}
              => thread[t].id \notin Leases

\* numbers are secret until they are heard, and destroyed by one thread only
Secret ==
    \A t \in Threads :
        /\ Knows(t) => /\ \A s \in Threads \ {t} : thread[s].id # thread[t].id
                       /\ \A r \in Rollouts : thread[t].id \notin Held(r) \union {rollout[r].mine}
        /\ Destroys(t) => \A s \in Threads \ {t} : Destroys(s) => thread[s].id # thread[t].id

\* a rollout waits for one call, the one its place calls for; the last attempt
\* is not followed by another
Awaited ==
    \A r \in Rollouts :
        /\ \A t \in Threads : Waits(r, t) =>
              /\ rollout[r].at \in Allocating \union Closing
              /\ thread[t].op = IF rollout[r].at \in Allocating THEN "allocate" ELSE "close"
              /\ thread[t].op = "close" => thread[t].id = ToClose(r)
              /\ \A s \in Threads : Waits(r, s) => s = t
        /\ rollout[r].tries = Tries => \E t \in Threads : Waits(r, t)

\* a rollout that works or closes has the number of a container
Named ==
    \A r \in Rollouts :
        /\ rollout[r].at \in {"working", "closingOld", "replacing", "closing", "lastClosing"}
              => rollout[r].agent # 0
        /\ rollout[r].at \in {"evaluating", "evalClosing"} => rollout[r].eval # 0

LeasesAt(n) == {i \in Leases : lease[i] = n}
InSlots == {t \in Threads : thread[t].stage \in SlotStages}
InBlock == {t \in Threads : thread[t].stage \in BlockStages}
\* allocations whose lease is not there yet
Coming == {t \in Threads : thread[t].stage \in {"reserved", "creating"}}

Counted ==
    /\ IsFiniteSet(Leases)
    /\ \A n \in Nodes :
        active[n] = Cardinality(LeasesAt(n)) + Cardinality(AtNode(n, {"creating", "popped"}))
    /\ MaxTotal > 0 => pending = Cardinality(InSlots)
    /\ MaxAllocates - permits = Cardinality(InBlock)

Bounded ==
    /\ MaxTotal > 0 => Cardinality(Leases) + Cardinality(Coming) <= MaxTotal
    /\ NodeCap > 0 => \A n \in Nodes : active[n] <= NodeCap

PoolInv == TypeOK /\ Staged /\ Secret /\ Awaited /\ Named /\ Counted
-----------------------------------------------------------------------------
(***************************************************************************)
(* The operators the model is built from.                                  *)
(***************************************************************************)
\* a set of numbers that is not empty has a least one
LEMMA LeastNatural ==
    ASSUME NEW S, S \subseteq Nat, S # {}
    PROVE  \E x \in S : \A y \in S : x <= y
  <1>. DEFINE R == OpToRel(<, Nat)
  <1>1. PICK x \in S : \A y \in S : ~ (<<y, x>> \in R)
    <2>1. IsWellFoundedOn(R, Nat)
      BY NatLessThanWellFounded
    <2>. HIDE DEF R
    <2>. QED  BY <2>1, WFMin, Zenon
  <1>2. ASSUME NEW y \in S PROVE ~(y < x)
    <2>1. <<y, x>> \in Nat \X Nat
      OBVIOUS
    <2>. QED  BY <1>1, <2>1 DEF OpToRel
  <1>. HIDE DEF R
  <1>3. \A y \in S : y \in Nat /\ x \in Nat
    OBVIOUS
  <1>4. \A y \in S : x <= y
    BY <1>2, <1>3
  <1>. QED  BY <1>4

\* Min gives it
LEMMA MinIsLeast ==
    ASSUME NEW S, S \subseteq Nat, S # {}
    PROVE  Min(S) \in S /\ \A y \in S : Min(S) <= y
  BY LeastNatural DEF Min

\* the node and the number that _pick_and_reserve_node picks are there to be picked
LEMMA Picks ==
    ASSUME TypeOK, Candidates # {}, Free # {}
    PROVE  Min(LeastLoaded) \in Candidates /\ Min(Free) \in Free
  <1>1. Min(Free) \in Free
    BY MinIsLeast, BoundsAssumption DEF Free
  <1>2. PICK m \in {active[n] : n \in Candidates} : \A k \in {active[n] : n \in Candidates} : m <= k
    <2>1. {active[n] : n \in Candidates} \subseteq Nat /\ {active[n] : n \in Candidates} # {}
      BY DEF TypeOK, Candidates
    <2>. QED  BY <2>1, LeastNatural
  <1>3. LeastLoaded # {}
    BY <1>2 DEF LeastLoaded
  <1>4. Min(LeastLoaded) \in LeastLoaded
    BY <1>3, MinIsLeast, BoundsAssumption DEF LeastLoaded, Candidates, TypeOK
  <1>. QED  BY <1>1, <1>4 DEF LeastLoaded

\* the call of a thread after it changed
LEMMA ThreadChanged ==
    ASSUME NEW x \in ThreadRecords, NEW s \in Stages, NEW i \in Ids \union {0}, NEW n \in Nodes \union {0}
    PROVE  /\ [x EXCEPT !.stage = s, !.node = n] \in ThreadRecords
           /\ [x EXCEPT !.stage = s, !.id = i, !.node = n] \in ThreadRecords
  BY DEF ThreadRecords

(***************************************************************************)
(* A set gains or loses x, or stays, and has d elements more.              *)
(***************************************************************************)
ByOne(x, S, T, d) ==
    \/ d = 0 /\ T = S
    \/ d = 1 /\ x \notin S /\ T = S \union {x}
    \/ d = -1 /\ x \in S /\ T = S \ {x}

\* the count follows the set
LEMMA ByOneCounted ==
    ASSUME NEW x, NEW S, NEW T, NEW d, IsFiniteSet(S), ByOne(x, S, T, d)
    PROVE  /\ IsFiniteSet(T)
           /\ Cardinality(S) \in Nat /\ Cardinality(T) \in Nat
           /\ Cardinality(T) = Cardinality(S) + d
  <1>0. Cardinality(S) \in Nat
    BY FS_CardinalityType
  <1>1. CASE d = 0 /\ T = S
    BY <1>0, <1>1
  <1>2. CASE d = 1 /\ x \notin S /\ T = S \union {x}
    BY <1>0, <1>2, FS_AddElement
  <1>3. CASE d = -1 /\ x \in S /\ T = S \ {x}
    <2>1. IsFiniteSet(T) /\ Cardinality(T) = Cardinality(S) - 1
      BY <1>3, FS_RemoveElement
    <2>2. Cardinality(T) \in Nat
      BY <2>1, FS_CardinalityType
    <2>. QED  BY <1>0, <1>3, <2>1, <2>2
  <1>. QED  BY <1>1, <1>2, <1>3 DEF ByOne

\* all that is counted is finite
LEMMA SetsFinite ==
    ASSUME Counted
    PROVE  /\ IsFiniteSet(InSlots) /\ IsFiniteSet(InBlock) /\ IsFiniteSet(Coming)
           /\ \A n : IsFiniteSet(LeasesAt(n)) /\ \A stages : IsFiniteSet(AtNode(n, stages))
  <1>1. \A n : LeasesAt(n) \subseteq Leases /\ \A stages : AtNode(n, stages) \subseteq Threads
    BY DEF LeasesAt, AtNode
  <1>2. InSlots \subseteq Threads /\ InBlock \subseteq Threads /\ Coming \subseteq Threads
    BY DEF InSlots, InBlock, Coming
  <1>. QED  BY <1>1, <1>2, BoundsAssumption, FS_Subset DEF Counted

AtWork(n) == AtNode(n, {"creating", "popped"})

\* the leases of n and the work at it change by e and f, and its counter by both
NodeMoves(i, t, n, e, f) ==
    /\ ByOne(i, LeasesAt(n), LeasesAt(n)', e)
    /\ ByOne(t, AtWork(n), AtWork(n)', f)
    /\ active'[n] = active[n] + e + f

\* the counters go along with the sets: of the leases, of the allocations that hold a
\* slot, of those in the block of the semaphore, and for one node of its leases and work
LEMMA CountedByMoves ==
    ASSUME TypeOK, Counted, NEW i, NEW t, NEW dl, NEW ds, NEW db,
           NEW k, NEW e, NEW f,
           ByOne(i, Leases, Leases', dl),
           ByOne(t, InSlots, InSlots', ds), MaxTotal > 0 => pending' = pending + ds,
           ByOne(t, InBlock, InBlock', db), permits' = permits - db,
           \A n \in Nodes \ {k} : NodeMoves(i, t, n, 0, 0),
           k \in Nodes => NodeMoves(i, t, k, e, f)
    PROVE  Counted'
  <1>. USE BoundsAssumption DEF TypeOK, Counted, AtWork
  <1>1. IsFiniteSet(Leases')
    BY ByOneCounted
  <1>2. ASSUME NEW n \in Nodes, NEW c, NEW d, NodeMoves(i, t, n, c, d)
        PROVE  active'[n] = Cardinality(LeasesAt(n)') + Cardinality(AtWork(n)')
    <2>1. /\ Cardinality(LeasesAt(n)) \in Nat
          /\ Cardinality(LeasesAt(n)') = Cardinality(LeasesAt(n)) + c
      BY <1>2, SetsFinite, ByOneCounted DEF NodeMoves
    <2>2. /\ Cardinality(AtWork(n)) \in Nat
          /\ Cardinality(AtWork(n)') = Cardinality(AtWork(n)) + d
      BY <1>2, SetsFinite, ByOneCounted DEF NodeMoves
    <2>3. c \in {-1, 0, 1} /\ d \in {-1, 0, 1}
      BY <1>2 DEF NodeMoves, ByOne
    <2>. QED  BY <1>2, <2>1, <2>2, <2>3 DEF NodeMoves
  <1>3. Cardinality(InSlots) \in Nat /\ Cardinality(InSlots') = Cardinality(InSlots) + ds
    BY SetsFinite, ByOneCounted
  <1>4. MaxTotal > 0 => pending' = Cardinality(InSlots')
    BY <1>3
  <1>5. Cardinality(InBlock) \in Nat /\ Cardinality(InBlock') = Cardinality(InBlock) + db
    BY SetsFinite, ByOneCounted
  <1>6. MaxAllocates - permits' = Cardinality(InBlock')
    <2>1. db \in {-1, 0, 1}
      BY DEF ByOne
    <2>. QED  BY <1>5, <2>1
  <1>. QED  BY <1>1, <1>2, <1>4, <1>6
-----------------------------------------------------------------------------
(***************************************************************************)
(* One step of a thread that serves a call.                                *)
(***************************************************************************)
LEMMA CounterSeesThread ==
    ASSUME TypeOK, Counted, NEW t \in Threads, NEW n \in Nodes, t \in AtWork(n)
    PROVE  active[n] > 0
  <1>1. Cardinality(AtWork(n)) \in Nat \ {0} /\ Cardinality(LeasesAt(n)) \in Nat
    BY SetsFinite, FS_CardinalityType, FS_EmptySet DEF AtWork
  <1>. QED  BY <1>1 DEF Counted, AtWork

\* the end of a block has a slot to give back
LEMMA SlotSeesThread ==
    ASSUME Counted, NEW t \in InSlots, MaxTotal > 0
    PROVE  pending \in Nat \ {0}
  BY SetsFinite, FS_CardinalityType, FS_EmptySet DEF Counted

\* a step that leaves the sets alone leaves the counters right
LEMMA CountedSame ==
    ASSUME Counted, UNCHANGED poolVars, InSlots' = InSlots, InBlock' = InBlock,
           \A n \in Nodes : AtWork(n)' = AtWork(n)
    PROVE  Counted'
  BY DEF Counted, poolVars, Leases, LeasesAt, AtWork

\* every step of a handler moves the counters as it moves the sets
LEMMA CountedThread ==
    ASSUME PoolInv, NEW t \in Threads, Allocate(t) \/ Close(t)
    PROVE  Counted'
  <1>. USE BoundsAssumption
       DEF PoolInv, TypeOK, ThreadRecords, SlotStages, BlockStages, At, Goes,
           Leases, LeasesAt, InSlots, InBlock, AtWork, AtNode, poolVars
  <1>0. PICK i : i = thread[t].id
    OBVIOUS
  <1>1. CASE Enter(t)
    <2>2. ByOne(i, Leases, Leases', 0)
      BY <1>0, <1>1 DEF Enter, ByOne
    <2>3. ByOne(t, InSlots, InSlots', 0)
      BY <1>0, <1>1 DEF Enter, ByOne
    <2>4. MaxTotal > 0 => pending' = pending + 0
      BY <1>0, <1>1 DEF Enter
    <2>5. ByOne(t, InBlock, InBlock', 1) /\ permits' = permits - 1
      BY <1>0, <1>1 DEF Enter, ByOne
    <2>6. ASSUME NEW n \in Nodes
          PROVE  NodeMoves(i, t, n, 0, 0)
      BY <1>0, <1>1 DEF Enter, NodeMoves, ByOne
    <2>. QED  BY <2>2, <2>3, <2>4, <2>5, <2>6, CountedByMoves
  <1>2. CASE ReserveSlot(t)
    <2>2. ByOne(i, Leases, Leases', 0)
      BY <1>0, <1>2 DEF ReserveSlot, ByOne
    <2>3. ByOne(t, InSlots, InSlots', 1)
      BY <1>0, <1>2 DEF ReserveSlot, ByOne
    <2>4. MaxTotal > 0 => pending' = pending + 1
      BY <1>0, <1>2 DEF ReserveSlot
    <2>5. ByOne(t, InBlock, InBlock', 0) /\ permits' = permits - 0
      BY <1>0, <1>2 DEF ReserveSlot, ByOne
    <2>6. ASSUME NEW n \in Nodes
          PROVE  NodeMoves(i, t, n, 0, 0)
      BY <1>0, <1>2 DEF ReserveSlot, NodeMoves, ByOne
    <2>. QED  BY <2>2, <2>3, <2>4, <2>5, <2>6, CountedByMoves
  <1>3. CASE LimitReached(t)
    <2>2. ByOne(i, Leases, Leases', 0)
      BY <1>0, <1>3 DEF LimitReached, Answers, Idle, ByOne
    <2>3. ByOne(t, InSlots, InSlots', 0)
      BY <1>0, <1>3 DEF LimitReached, Answers, Idle, ByOne
    <2>4. MaxTotal > 0 => pending' = pending + 0
      BY <1>0, <1>3 DEF LimitReached, Answers, Idle
    <2>5. ByOne(t, InBlock, InBlock', -1) /\ permits' = permits - -1
      BY <1>0, <1>3 DEF LimitReached, Answers, Idle, ByOne
    <2>6. ASSUME NEW n \in Nodes
          PROVE  NodeMoves(i, t, n, 0, 0)
      BY <1>0, <1>3 DEF LimitReached, Answers, Idle, NodeMoves, ByOne
    <2>. QED  BY <2>2, <2>3, <2>4, <2>5, <2>6, CountedByMoves
  <1>4. CASE PickNode(t)
    <2>1. PICK k \in Nodes : k = Min(LeastLoaded)
      BY <1>4, Picks DEF PickNode, Candidates
    <2>2. ByOne(i, Leases, Leases', 0)
      BY <1>0, <1>4, <2>1 DEF PickNode, ByOne
    <2>3. ByOne(t, InSlots, InSlots', 0)
      BY <1>0, <1>4, <2>1 DEF PickNode, ByOne
    <2>4. MaxTotal > 0 => pending' = pending + 0
      BY <1>0, <1>4, <2>1 DEF PickNode
    <2>5. ByOne(t, InBlock, InBlock', 0) /\ permits' = permits - 0
      BY <1>0, <1>4, <2>1 DEF PickNode, ByOne
    <2>6. ASSUME NEW n \in Nodes \ {k}
          PROVE  NodeMoves(i, t, n, 0, 0)
      BY <1>0, <1>4, <2>1 DEF PickNode, NodeMoves, ByOne
    <2>7. NodeMoves(i, t, k, 0, 1)
      <3>1. ByOne(i, LeasesAt(k), LeasesAt(k)', 0)
        BY <1>0, <1>4, <2>1 DEF PickNode, ByOne
      <3>2. ByOne(t, AtWork(k), AtWork(k)', 1)
        BY <1>0, <1>4, <2>1 DEF PickNode, ByOne
      <3>3. active'[k] = active[k] + 0 + 1
        BY <1>0, <1>4, <2>1 DEF PickNode
      <3>. QED  BY <2>1, <3>1, <3>2, <3>3 DEF NodeMoves
    <2>. QED  BY <2>2, <2>3, <2>4, <2>5, <2>6, <2>7, CountedByMoves
  <1>5. CASE NoNode(t)
    <2>1. UNCHANGED poolVars /\ InSlots' = InSlots /\ InBlock' = InBlock
      BY <1>5 DEF NoNode
    <2>2. ASSUME NEW n \in Nodes PROVE AtWork(n)' = AtWork(n)
      BY <1>5 DEF NoNode
    <2>. QED  BY <2>1, <2>2, CountedSame
  <1>6. CASE InsertLease(t)
    <2>1. i \in Ids \ Leases /\ \E k \in Nodes : k = thread[t].node
      BY <1>0, <1>6 DEF InsertLease, Staged
    <2>k. PICK k \in Nodes : k = thread[t].node
      BY <2>1
    <2>2. ByOne(i, Leases, Leases', 1)
      BY <1>0, <1>6, <2>1, <2>k DEF InsertLease, ByOne
    <2>3. ByOne(t, InSlots, InSlots', 0)
      BY <1>0, <1>6, <2>1, <2>k DEF InsertLease, ByOne
    <2>4. MaxTotal > 0 => pending' = pending + 0
      BY <1>0, <1>6, <2>1, <2>k DEF InsertLease
    <2>5. ByOne(t, InBlock, InBlock', 0) /\ permits' = permits - 0
      BY <1>0, <1>6, <2>1, <2>k DEF InsertLease, ByOne
    <2>6. ASSUME NEW n \in Nodes \ {k}
          PROVE  NodeMoves(i, t, n, 0, 0)
      BY <1>0, <1>6, <2>1, <2>k DEF InsertLease, NodeMoves, ByOne
    <2>7. NodeMoves(i, t, k, 1, -1)
      BY <1>0, <1>6, <2>1, <2>k DEF InsertLease, NodeMoves, ByOne
    <2>. QED  BY <2>2, <2>3, <2>4, <2>5, <2>6, <2>7, CountedByMoves
  <1>7. CASE CreateFails(t)
    <2>1. i \in Ids \ Leases /\ \E k \in Nodes : k = thread[t].node
      BY <1>0, <1>7 DEF CreateFails, Staged
    <2>k. PICK k \in Nodes : k = thread[t].node
      BY <2>1
    <2>2. ByOne(i, Leases, Leases', 0)
      BY <1>0, <1>7, <2>1, <2>k DEF CreateFails, Event, ByOne
    <2>3. ByOne(t, InSlots, InSlots', 0)
      BY <1>0, <1>7, <2>1, <2>k DEF CreateFails, Event, ByOne
    <2>4. MaxTotal > 0 => pending' = pending + 0
      BY <1>0, <1>7, <2>1, <2>k DEF CreateFails, Event
    <2>5. ByOne(t, InBlock, InBlock', 0) /\ permits' = permits - 0
      BY <1>0, <1>7, <2>1, <2>k DEF CreateFails, Event, ByOne
    <2>6. ASSUME NEW n \in Nodes \ {k}
          PROVE  NodeMoves(i, t, n, 0, 0)
      BY <1>0, <1>7, <2>1, <2>k DEF CreateFails, Event, NodeMoves, ByOne
    <2>7. NodeMoves(i, t, k, 0, -1)
      <3>1. t \in AtWork(k)
        BY <1>0, <1>7, <2>1, <2>k DEF CreateFails
      <3>2. active[k] > 0
        BY <3>1, CounterSeesThread
      <3>. QED  BY <3>2, <1>0, <1>7, <2>1, <2>k DEF CreateFails, Event, Fewer, NodeMoves, ByOne
    <2>. QED  BY <2>2, <2>3, <2>4, <2>5, <2>6, <2>7, CountedByMoves
  <1>8. CASE ReleaseSlot(t)
    <2>2. ByOne(i, Leases, Leases', 0)
      BY <1>0, <1>8 DEF ReleaseSlot, Answers, Idle, ByOne
    <2>3. ByOne(t, InSlots, InSlots', -1)
      BY <1>0, <1>8 DEF ReleaseSlot, Answers, Idle, ByOne
    <2>4. MaxTotal > 0 => pending' = pending + -1
      <3>1. t \in InSlots
        BY <1>8 DEF ReleaseSlot
      <3>2. MaxTotal > 0 => pending \in Nat \ {0}
        BY <3>1, SlotSeesThread
      <3>. QED  BY <1>8, <3>2 DEF ReleaseSlot
    <2>5. ByOne(t, InBlock, InBlock', -1) /\ permits' = permits - -1
      BY <1>0, <1>8 DEF ReleaseSlot, Answers, Idle, ByOne
    <2>6. ASSUME NEW n \in Nodes
          PROVE  NodeMoves(i, t, n, 0, 0)
      BY <1>0, <1>8 DEF ReleaseSlot, Answers, Idle, NodeMoves, ByOne
    <2>. QED  BY <2>2, <2>3, <2>4, <2>5, <2>6, CountedByMoves
  <1>9. CASE LookUp(t)
    <2>1. UNCHANGED poolVars /\ InSlots' = InSlots /\ InBlock' = InBlock
      BY <1>9 DEF LookUp, Answers, Idle
    <2>2. ASSUME NEW n \in Nodes PROVE AtWork(n)' = AtWork(n)
      BY <1>9 DEF LookUp, Answers, Idle
    <2>. QED  BY <2>1, <2>2, CountedSame
  <1>10. CASE TakeLock(t)
    <2>1. UNCHANGED poolVars /\ InSlots' = InSlots /\ InBlock' = InBlock
      BY <1>10 DEF TakeLock, Answers, Idle
    <2>2. ASSUME NEW n \in Nodes PROVE AtWork(n)' = AtWork(n)
      BY <1>10 DEF TakeLock, Answers, Idle
    <2>. QED  BY <2>1, <2>2, CountedSame
  <1>11. CASE Destroy(t)
    <2>1. UNCHANGED poolVars /\ InSlots' = InSlots /\ InBlock' = InBlock
      BY <1>11 DEF Destroy
    <2>2. ASSUME NEW n \in Nodes PROVE AtWork(n)' = AtWork(n)
      BY <1>11 DEF Destroy
    <2>. QED  BY <2>1, <2>2, CountedSame
  <1>12. CASE DestroyFails(t)
    <2>1. UNCHANGED poolVars /\ InSlots' = InSlots /\ InBlock' = InBlock
      BY <1>12 DEF DestroyFails, Answers, Idle, Event
    <2>2. ASSUME NEW n \in Nodes PROVE AtWork(n)' = AtWork(n)
      BY <1>12 DEF DestroyFails, Answers, Idle, Event
    <2>. QED  BY <2>1, <2>2, CountedSame
  <1>13. CASE Pop(t)
    <2>1. i \in Leases /\ lease[i] \in Nodes
      BY <1>0, <1>13 DEF Pop, Staged, Destroys
    <2>k. PICK k \in Nodes : k = lease[i]
      BY <2>1
    <2>2. ByOne(i, Leases, Leases', -1)
      BY <1>0, <1>13, <2>1, <2>k DEF Pop, ByOne
    <2>3. ByOne(t, InSlots, InSlots', 0)
      BY <1>0, <1>13, <2>1, <2>k DEF Pop, ByOne
    <2>4. MaxTotal > 0 => pending' = pending + 0
      BY <1>0, <1>13, <2>1, <2>k DEF Pop
    <2>5. ByOne(t, InBlock, InBlock', 0) /\ permits' = permits - 0
      BY <1>0, <1>13, <2>1, <2>k DEF Pop, ByOne
    <2>6. ASSUME NEW n \in Nodes \ {k}
          PROVE  NodeMoves(i, t, n, 0, 0)
      BY <1>0, <1>13, <2>1, <2>k DEF Pop, NodeMoves, ByOne
    <2>7. NodeMoves(i, t, k, -1, 1)
      <3>1. ByOne(i, LeasesAt(k), LeasesAt(k)', -1)
        BY <1>0, <1>13, <2>1, <2>k DEF Pop, ByOne
      <3>2. ByOne(t, AtWork(k), AtWork(k)', 1)
        BY <1>0, <1>13, <2>1, <2>k DEF Pop, ByOne
      <3>3. active'[k] = active[k] + -1 + 1
        BY <1>0, <1>13, <2>1, <2>k DEF Pop
      <3>. QED  BY <2>1, <3>1, <3>2, <3>3 DEF NodeMoves
    <2>. QED  BY <2>2, <2>3, <2>4, <2>5, <2>6, <2>7, CountedByMoves
  <1>14. CASE Unreserve(t)
    <2>1. PICK k \in Nodes : k = thread[t].node
      BY <1>14 DEF Unreserve, Staged
    <2>2. ByOne(i, Leases, Leases', 0)
      BY <1>0, <1>14, <2>1 DEF Unreserve, Answers, Idle, ByOne
    <2>3. ByOne(t, InSlots, InSlots', 0)
      BY <1>0, <1>14, <2>1 DEF Unreserve, Answers, Idle, ByOne
    <2>4. MaxTotal > 0 => pending' = pending + 0
      BY <1>0, <1>14, <2>1 DEF Unreserve, Answers, Idle
    <2>5. ByOne(t, InBlock, InBlock', 0) /\ permits' = permits - 0
      BY <1>0, <1>14, <2>1 DEF Unreserve, Answers, Idle, ByOne
    <2>6. ASSUME NEW n \in Nodes \ {k}
          PROVE  NodeMoves(i, t, n, 0, 0)
      BY <1>0, <1>14, <2>1 DEF Unreserve, Answers, Idle, NodeMoves, ByOne
    <2>7. NodeMoves(i, t, k, 0, -1)
      <3>1. t \in AtWork(k)
        BY <1>0, <1>14, <2>1 DEF Unreserve
      <3>2. active[k] > 0
        BY <3>1, CounterSeesThread
      <3>3. ByOne(i, LeasesAt(k), LeasesAt(k)', 0)
        BY <1>0, <1>14, <2>1 DEF Unreserve, Answers, Idle, ByOne
      <3>4. ByOne(t, AtWork(k), AtWork(k)', -1)
        BY <1>0, <1>14, <2>1 DEF Unreserve, Answers, Idle, ByOne
      <3>5. active'[k] = active[k] + 0 + -1
        BY <1>0, <1>14, <2>1, <3>2 DEF Unreserve, Answers, Idle, Fewer
      <3>. QED  BY <2>1, <3>3, <3>4, <3>5 DEF NodeMoves
    <2>. QED  BY <2>2, <2>3, <2>4, <2>5, <2>6, <2>7, CountedByMoves
  <1>. QED
    BY <1>1, <1>2, <1>3, <1>4, <1>5, <1>6, <1>7, <1>8, <1>9, <1>10, <1>11, <1>12, <1>13,
         <1>14 DEF Allocate, Close

\* a new container has a number that nobody has
LEMMA FreeIsNew ==
    ASSUME NEW i \in Free
    PROVE  /\ i \in Ids \ Leases /\ box[i] = "none"
           /\ \A s \in Threads : thread[s].id # i
           /\ \A r \in Rollouts : i \notin Held(r) \union {rollout[r].mine}
  <1>1. \A s \in Threads : thread[s].id # i
    BY DEF Free, Served
  <1>2. ASSUME NEW r \in Rollouts
        PROVE  i \notin Held(r) \union {rollout[r].mine}
    BY DEF Free
  <1>. QED  BY <1>1, <1>2 DEF Free

\* the calls of all threads after one of them changed
LEMMA ThreadsChanged ==
    ASSUME thread \in [Threads -> ThreadRecords], NEW t \in Threads,
           NEW s \in Stages, NEW i \in Ids \union {0}, NEW n \in Nodes \union {0}
    PROVE  /\ [thread EXCEPT ![t].stage = s, ![t].node = n] \in [Threads -> ThreadRecords]
           /\ [thread EXCEPT ![t].stage = s, ![t].id = i, ![t].node = n] \in [Threads -> ThreadRecords]
  BY ThreadChanged

\* a counter is not negative
LEMMA FewerType ==
    ASSUME TypeOK, NEW n \in Nodes
    PROVE  Fewer(n) \in Nat
  BY DEF TypeOK, Fewer

\* the permits are as many as the semaphore has, since the threads in its block are counted
LEMMA PermitsBounded ==
    ASSUME Counted', permits' \in Nat
    PROVE  permits' \in 0..MaxAllocates
  <1>1. InBlock' \subseteq Threads
    BY DEF InBlock
  <1>2. Cardinality(InBlock') \in Nat
    BY <1>1, BoundsAssumption, FS_Subset, FS_CardinalityType
  <1>. QED  BY <1>2, BoundsAssumption DEF Counted

\* a step of a handler keeps the types
LEMMA TypeThread ==
    ASSUME PoolInv, NEW t \in Threads, Allocate(t) \/ Close(t)
    PROVE  TypeOK'
  <1>. USE BoundsAssumption
       DEF PoolInv, TypeOK, ThreadRecords, Stages, SlotStages, At, Goes, poolVars, healthVars, nodeVars
  <1>1. CASE Enter(t)
    <2>1. permits' \in 0..MaxAllocates
      BY <1>1, PermitsBounded, CountedThread DEF Enter
    <2>. QED  BY <1>1, <2>1 DEF Enter
  <1>2. CASE ReserveSlot(t)
    BY <1>2 DEF ReserveSlot
  <1>3. CASE LimitReached(t)
    <2>1. permits' \in 0..MaxAllocates
      BY <1>3, PermitsBounded, CountedThread DEF LimitReached
    <2>. QED  BY <1>3, <2>1 DEF LimitReached, Answers, Idle
  <1>4. CASE PickNode(t)
    <2>1. Min(LeastLoaded) \in Nodes /\ Min(Free) \in Ids
      BY <1>4, Picks DEF PickNode, Free, Candidates
    <2>2. thread' \in [Threads -> ThreadRecords]
      BY <1>4, <2>1, ThreadsChanged DEF PickNode
    <2>3. active' \in [Nodes -> Nat] /\ box' \in [Ids -> {"none", "making", "up"}]
      BY <1>4, <2>1 DEF PickNode
    <2>. QED  BY <1>4, <2>2, <2>3 DEF PickNode
  <1>5. CASE NoNode(t)
    BY <1>5 DEF NoNode
  <1>6. CASE InsertLease(t)
    <2>1. thread[t].id \in Ids /\ thread[t].node \in Nodes
      BY <1>6 DEF InsertLease, Staged
    <2>. QED  BY <1>6, <2>1 DEF InsertLease
  <1>7. CASE CreateFails(t)
    BY <1>7 DEF CreateFails, Event, Fewer, Staged
  <1>8. CASE ReleaseSlot(t)
    <2>1. permits' \in 0..MaxAllocates
      BY <1>8, PermitsBounded, CountedThread DEF ReleaseSlot
    <2>2. At(t, "leased") => thread[t].id \in Ids
      BY <1>8 DEF ReleaseSlot, Staged, Knows, AllocateStages, CloseStages, Leases
    <2>3. thread' \in [Threads -> ThreadRecords]
      BY <1>8 DEF ReleaseSlot, Answers, Idle
    <2>4. orphaned' \subseteq Ids
      BY <1>8, <2>2 DEF ReleaseSlot
    <2>. QED  BY <1>8, <2>1, <2>3, <2>4 DEF ReleaseSlot
  <1>9. CASE LookUp(t)
    BY <1>9 DEF LookUp, Answers, Idle
  <1>10. CASE TakeLock(t)
    BY <1>10 DEF TakeLock, Answers, Idle
  <1>11. CASE Destroy(t)
    <2>1. box' \in [Ids -> {"none", "making", "up"}]
      BY <1>11 DEF Destroy
    <2>2. thread' \in [Threads -> ThreadRecords]
      BY <1>11 DEF Destroy
    <2>. QED  BY <1>11, <2>1, <2>2 DEF Destroy
  <1>12. CASE DestroyFails(t)
    BY <1>12 DEF DestroyFails, Answers, Idle, Event
  <1>13. CASE Pop(t)
    <2>1. thread[t].id \in Ids
      BY <1>13 DEF Pop, Staged, Destroys, Leases
    <2>2. lease[thread[t].id] \in Nodes \union {0} /\ lease' \in [Ids -> Nodes \union {0}]
      BY <1>13, <2>1 DEF Pop
    <2>3. thread' \in [Threads -> ThreadRecords]
      BY <1>13, <2>2, ThreadsChanged, ZenonT(90) DEF Pop
    <2>. QED  BY <1>13, <2>2, <2>3 DEF Pop
  <1>14. CASE Unreserve(t)
    <2>1. thread[t].node \in Nodes
      BY <1>14 DEF Unreserve, Staged
    <2>2. active' \in [Nodes -> Nat]
      <3>1. Fewer(thread[t].node) \in Nat
        BY <2>1, FewerType
      <3>. QED  BY <1>14, <3>1 DEF Unreserve
    <2>3. thread' \in [Threads -> ThreadRecords]
      BY <1>14 DEF Unreserve, Answers, Idle
    <2>. QED  BY <1>14, <2>2, <2>3 DEF Unreserve
  <1>. QED
    BY <1>1, <1>2, <1>3, <1>4, <1>5, <1>6, <1>7, <1>8, <1>9, <1>10, <1>11, <1>12, <1>13,
         <1>14 DEF Allocate, Close

\* what the thread knows of the numbers that others work on
LEMMA StagedThread ==
    ASSUME PoolInv, NEW t \in Threads, Allocate(t) \/ Close(t)
    PROVE  Staged' /\ Secret'
  <1>. USE BoundsAssumption
       DEF PoolInv, TypeOK, ThreadRecords, Staged, Secret, Knows, Destroys, At, Goes, Leases, Held,
           AllocateStages, CloseStages, SlotStages, poolVars, healthVars, nodeVars
  <1>1. CASE Enter(t)
    <2>1. Staged'
      BY <1>1 DEF Enter
    <2>2. Secret'
      BY <1>1 DEF Enter
    <2>. QED  BY <2>1, <2>2
  <1>2. CASE ReserveSlot(t)
    <2>1. Staged'
      BY <1>2 DEF ReserveSlot
    <2>2. Secret'
      BY <1>2 DEF ReserveSlot
    <2>. QED  BY <2>1, <2>2
  <1>3. CASE LimitReached(t)
    <2>1. Staged'
      BY <1>3 DEF LimitReached, Answers, Idle
    <2>2. Secret'
      BY <1>3 DEF LimitReached, Answers, Idle
    <2>. QED  BY <2>1, <2>2
  <1>4. CASE PickNode(t)
    <2>1. PICK n \in Nodes, i \in Free : n = Min(LeastLoaded) /\ i = Min(Free)
      BY <1>4, Picks DEF PickNode, Candidates
    <2>2. /\ thread' = [thread EXCEPT ![t].stage = "creating", ![t].id = i, ![t].node = n]
          /\ box' = [box EXCEPT ![i] = "making"]
          /\ At(t, "reserved") /\ UNCHANGED <<lease, rollout>>
      BY <1>4, <2>1 DEF PickNode
    <2>3. /\ i \in Ids \ Leases
          /\ \A s \in Threads : thread[s].id # i
          /\ \A r \in Rollouts : i \notin Held(r) \union {rollout[r].mine}
      BY FreeIsNew
    <2>4. Staged'
      BY <2>2, <2>3, SMTT(30)
    <2>5. Secret'
      BY <2>2, <2>3
    <2>. QED  BY <2>4, <2>5
  <1>5. CASE NoNode(t)
    <2>1. Staged'
      BY <1>5 DEF NoNode
    <2>2. Secret'
      BY <1>5 DEF NoNode
    <2>. QED  BY <2>1, <2>2
  <1>6. CASE InsertLease(t)
    <2>1. Staged'
      BY <1>6, SMTT(60) DEF InsertLease
    <2>2. Secret'
      BY <1>6 DEF InsertLease
    <2>. QED  BY <2>1, <2>2
  <1>7. CASE CreateFails(t)
    <2>1. Staged'
      BY <1>7, SMTT(30) DEF CreateFails, Event
    <2>2. Secret'
      BY <1>7 DEF CreateFails, Event
    <2>. QED  BY <2>1, <2>2
  <1>8. CASE ReleaseSlot(t)
    <2>1. Staged'
      BY <1>8 DEF ReleaseSlot, Answers, Idle
    <2>2. Secret'
      BY <1>8 DEF ReleaseSlot, Answers, Idle
    <2>. QED  BY <2>1, <2>2
  <1>9. CASE LookUp(t)
    <2>1. Staged'
      BY <1>9 DEF LookUp, Answers, Idle
    <2>2. Secret'
      BY <1>9, SMTT(60) DEF LookUp, Answers, Idle
    <2>. QED  BY <2>1, <2>2
  <1>10. CASE TakeLock(t)
    <2>1. Staged'
      BY <1>10 DEF TakeLock, Answers, Idle
    <2>2. CASE thread[t].id \in Leases
      <3>1. \A s \in Threads \ {t} : Destroys(s) => thread[s].id # thread[t].id
        BY <1>10 DEF TakeLock, Locked
      <3>2. Secret'
        BY <1>10, <2>2, <3>1, SMTT(60) DEF TakeLock
      <3>. QED  BY <2>1, <3>2
    <2>3. CASE thread[t].id \notin Leases
      BY <1>10, <2>1, <2>3 DEF TakeLock, Answers, Idle
    <2>. QED  BY <2>1, <2>2, <2>3
  <1>11. CASE Destroy(t)
    <2>1. Staged'
      BY <1>11 DEF Destroy
    <2>2. Secret'
      BY <1>11 DEF Destroy
    <2>. QED  BY <2>1, <2>2
  <1>12. CASE DestroyFails(t)
    <2>1. Staged'
      BY <1>12 DEF DestroyFails, Answers, Idle, Event
    <2>2. Secret'
      BY <1>12 DEF DestroyFails, Answers, Idle, Event
    <2>. QED  BY <2>1, <2>2
  <1>13. CASE Pop(t)
    <2>1. Staged'
      BY <1>13 DEF Pop
    <2>2. Secret'
      BY <1>13 DEF Pop
    <2>. QED  BY <2>1, <2>2
  <1>14. CASE Unreserve(t)
    <2>1. Staged'
      BY <1>14 DEF Unreserve, Answers, Idle
    <2>2. Secret'
      BY <1>14 DEF Unreserve, Answers, Idle
    <2>. QED  BY <2>1, <2>2
  <1>. QED
    BY <1>1, <1>2, <1>3, <1>4, <1>5, <1>6, <1>7, <1>8, <1>9, <1>10, <1>11, <1>12, <1>13,
         <1>14 DEF Allocate, Close

\* a step of a handler does not change what its caller waits for
LEMMA AwaitedThread ==
    ASSUME PoolInv, NEW t \in Threads, Allocate(t) \/ Close(t)
    PROVE  Awaited'
  <1>. USE BoundsAssumption
       DEF PoolInv, TypeOK, ThreadRecords, Staged, Awaited, Waits, Knows, At, Goes, ToClose, 
           AllocateStages, CloseStages, SlotStages, poolVars, healthVars, nodeVars
  <1>1. CASE Enter(t)
    BY <1>1 DEF Enter
  <1>2. CASE ReserveSlot(t)
    BY <1>2 DEF ReserveSlot
  <1>3. CASE LimitReached(t)
    BY <1>3 DEF LimitReached, Answers, Idle
  <1>4. CASE PickNode(t)
    BY <1>4 DEF PickNode
  <1>5. CASE NoNode(t)
    BY <1>5 DEF NoNode
  <1>6. CASE InsertLease(t)
    BY <1>6 DEF InsertLease
  <1>7. CASE CreateFails(t)
    BY <1>7 DEF CreateFails, Event
  <1>8. CASE ReleaseSlot(t)
    BY <1>8 DEF ReleaseSlot, Answers, Idle
  <1>9. CASE LookUp(t)
    BY <1>9, SMTT(30) DEF LookUp, Answers, Idle
  <1>10. CASE TakeLock(t)
    BY <1>10, SMTT(60) DEF TakeLock, Answers, Idle
  <1>11. CASE Destroy(t)
    BY <1>11 DEF Destroy
  <1>12. CASE DestroyFails(t)
    BY <1>12 DEF DestroyFails, Answers, Idle, Event
  <1>13. CASE Pop(t)
    <2>1. \A s \in Threads : /\ thread'[s].op = thread[s].op /\ thread'[s].by = thread[s].by
                            /\ thread'[s].id = thread[s].id
      BY <1>13 DEF Pop
    <2>. QED  BY <1>13, <2>1 DEF Pop
  <1>14. CASE Unreserve(t)
    BY <1>14 DEF Unreserve, Answers, Idle
  <1>. QED
    BY <1>1, <1>2, <1>3, <1>4, <1>5, <1>6, <1>7, <1>8, <1>9, <1>10, <1>11, <1>12, <1>13,
         <1>14 DEF Allocate, Close
-----------------------------------------------------------------------------
(***************************************************************************)
(* One step of a node, or of the thread that probes it.                    *)
(***************************************************************************)
LEMMA NodeStep ==
    ASSUME PoolInv,
           \/ \E i \in Ids : NodeAnswers(i)
           \/ \E n \in Nodes : ProbeSucceeds(n) \/ ProbeFails(n)
    PROVE  PoolInv'
  <1>. USE BoundsAssumption DEF PoolInv, poolVars, healthVars, nodeVars
  <1>1. ASSUME NEW i \in Ids, NodeAnswers(i) PROVE PoolInv'
    <2>0. /\ UNCHANGED <<thread, poolVars, rollout>>
          /\ box[i] = "making"
          /\ \A j \in Ids \ {i} : box'[j] = box[j]
      BY <1>1 DEF NodeAnswers, TypeOK
    <2>1. TypeOK'
      BY <1>1 DEF NodeAnswers, TypeOK
    <2>2. Staged'
      BY <2>0 DEF Staged, Knows, Destroys, At, Leases
    <2>3. Secret' /\ Awaited' /\ Named' /\ Counted'
      BY <2>0 DEF Secret, Knows, Destroys, Held, Awaited, Waits, ToClose, Named, Counted,
           Leases, LeasesAt,
             InSlots, InBlock, AtNode
    <2>. QED  BY <2>1, <2>2, <2>3
  <1>2. ASSUME NEW n \in Nodes, ProbeSucceeds(n) \/ ProbeFails(n) PROVE PoolInv'
    <2>1. misses' \in [Nodes -> 0..Threshold] /\ healthy' \subseteq Nodes /\ events' \in 0..MaxEvents
      <3>1. CASE ProbeSucceeds(n)
        BY <3>1, BoundsAssumption DEF ProbeSucceeds, TypeOK
      <3>2. CASE ProbeFails(n)
        <4>1. misses' \in [Nodes -> 0..Threshold]
          BY <3>2, BoundsAssumption DEF ProbeFails, TypeOK
        <4>2. healthy' \subseteq Nodes /\ events' \in 0..MaxEvents
          BY <3>2, BoundsAssumption DEF ProbeFails, Event, TypeOK
        <4>. QED  BY <4>1, <4>2
      <3>. QED  BY <1>2, <3>1, <3>2
    <2>2. UNCHANGED <<thread, poolVars, nodeVars, orphaned, rollout>>
      BY <1>2 DEF ProbeSucceeds, ProbeFails
    <2>3. TypeOK'
      BY <2>1, <2>2 DEF TypeOK
    <2>4. Staged' /\ Secret' /\ Awaited' /\ Named' /\ Counted'
      BY <2>2 DEF Staged, Secret, Knows, Destroys, At, Held, Awaited, Waits, ToClose, Named,
           Counted, Leases, LeasesAt,
             InSlots, InBlock, AtNode
    <2>. QED  BY <2>3, <2>4
  <1>. QED  BY <1>1, <1>2
-----------------------------------------------------------------------------
(***************************************************************************)
(* A rollout, between its calls and at their ends.                         *)
(***************************************************************************)
Numbers(o) == {o.agent, o.mine, o.eval}

\* what a rollout remembers after a call is what it remembered and what it heard
LEMMA RolloutTypes ==
    ASSUME NEW o \in RolloutRecords, NEW i \in Ids \union {0}
    PROVE  /\ Failed(o) \in RolloutRecords
           /\ Fresh(Succeeded(o, i)) \in RolloutRecords /\ Fresh(Failed(o)) \in RolloutRecords
           /\ Fresh(Succeeded(o, i)).tries = 0 /\ Fresh(Failed(o)).tries = 0
           /\ Numbers(Fresh(Succeeded(o, i))) \subseteq Numbers(o) \union {i, 0}
           /\ o.at \in Closing => Numbers(Fresh(Succeeded(o, i))) \subseteq Numbers(o) \union {0}
           /\ Numbers(Fresh(Failed(o))) \subseteq Numbers(o) \union {0}
  <1>. USE BoundsAssumption DEF RolloutRecords, Places, Allocating, Closing, Numbers, Fresh, Ended
  <1>0. /\ \A x \in RolloutRecords : Ended(x) \in RolloutRecords /\ Fresh(x) \in RolloutRecords
        /\ [o EXCEPT !.eval = 0] \in RolloutRecords
    OBVIOUS
  <1>1. /\ Failed(o) \in RolloutRecords
        /\ Fresh(Failed(o)) \in RolloutRecords /\ Fresh(Failed(o)).tries = 0
        /\ Numbers(Fresh(Failed(o))) \subseteq Numbers(o) \union {0}
    <2>1. Failed(o) \in RolloutRecords
      <3>1. /\ [o EXCEPT !.at = "working"] \in RolloutRecords
            /\ [o EXCEPT !.at = "evalWaiting"] \in RolloutRecords
            /\ [o EXCEPT !.at = "done", !.agent = 0] \in RolloutRecords
        OBVIOUS
      <3>. HIDE DEF RolloutRecords, Ended, Fresh
      <3>. QED  BY <1>0, <3>1 DEF Failed
    <2>2. Fresh(Failed(o)).tries = 0
      BY <2>1
    <2>3. Numbers(Fresh(Failed(o))) \subseteq Numbers(o) \union {0}
      BY DEF Failed
    <2>. QED  BY <1>0, <2>1, <2>2, <2>3
  <1>2. Fresh(Succeeded(o, i)) \in RolloutRecords
    <2>1. /\ [o EXCEPT !.at = "working", !.agent = i, !.mine = i] \in RolloutRecords
          /\ [o EXCEPT !.at = "replacing"] \in RolloutRecords
          /\ [o EXCEPT !.at = "working", !.mine = i, !.again = TRUE] \in RolloutRecords
          /\ [o EXCEPT !.at = "evalWaiting", !.agent = 0] \in RolloutRecords
          /\ [o EXCEPT !.at = "evaluating", !.eval = i] \in RolloutRecords
          /\ [o EXCEPT !.at = "done", !.agent = 0] \in RolloutRecords
      OBVIOUS
    <2>. HIDE DEF RolloutRecords, Ended, Fresh
    <2>2. Succeeded(o, i) \in RolloutRecords
      BY <1>0, <2>1 DEF Succeeded
    <2>. QED  BY <1>0, <2>2
  <1>3. Fresh(Succeeded(o, i)).tries = 0
    BY DEF Succeeded
  <1>4. /\ Numbers(Fresh(Succeeded(o, i))) \subseteq Numbers(o) \union {i, 0}
        /\ o.at \in Closing => Numbers(Fresh(Succeeded(o, i))) \subseteq Numbers(o) \union {0}
    BY DEF Succeeded
  <1>. QED  BY <1>1, <1>2, <1>3, <1>4

\* the caller of t does not wait for it any longer
Released(t) ==
    /\ thread' \in [Threads -> ThreadRecords]
    /\ \A s \in Threads \ {t} : thread'[s] = thread[s]
    /\ \/ thread[t].stage \in {"ok", "failed"} /\ thread'[t] = Idle
       \/ thread[t].stage \notin {"ok", "failed"} /\ thread'[t] = [thread[t] EXCEPT !.by = Nobody]

\* a call that its client gave up is released
LEMMA AbandonedReleases ==
    ASSUME TypeOK, NEW t \in Threads, Abandoned(t)
    PROVE  Released(t)
  BY DEF TypeOK, ThreadRecords, Stages, SlotStages, Abandoned, Released, Idle, At

\* a call that is released goes on as before, with no more numbers than it had
LEMMA ReleasedKeeps ==
    ASSUME PoolInv, NEW t \in Threads, Released(t), UNCHANGED <<poolVars, nodeVars>>
    PROVE  /\ Staged' /\ Counted'
           /\ \A s \in Threads : /\ Knows(s)' => Knows(s) /\ thread'[s].id = thread[s].id
                                 /\ Destroys(s)' => Destroys(s) /\ thread'[s].id = thread[s].id
                                 /\ thread'[s].id \in {0, thread[s].id}
                                 /\ thread'[s].by # Nobody => s # t /\ thread'[s] = thread[s]
  <1>0. ASSUME NEW s \in Threads
        PROVE  \/ thread'[s].stage = thread[s].stage
               \/ thread[s].stage \in {"ok", "failed"} /\ thread'[s].stage = "idle"
    <2>1. CASE s = t
      BY <2>1 DEF Released, Idle, PoolInv, TypeOK, ThreadRecords
    <2>2. CASE s # t
      BY <2>2 DEF Released
    <2>. QED  BY <2>1, <2>2
  <1>. USE BoundsAssumption
       DEF PoolInv, TypeOK, ThreadRecords, Stages, SlotStages, Released, Idle, At, poolVars, nodeVars
  <1>1. Staged'
    BY DEF Staged, Knows, Destroys, Leases, AllocateStages, CloseStages
  <1>2. UNCHANGED poolVars /\ InSlots' = InSlots /\ InBlock' = InBlock
    <2>2. InSlots' = InSlots
      BY <1>0 DEF InSlots
    <2>3. InBlock' = InBlock
      BY <1>0 DEF InBlock, BlockStages
    <2>. QED  BY <2>2, <2>3
  <1>3. \A n \in Nodes : AtWork(n)' = AtWork(n)
    BY DEF AtWork, AtNode
  <1>4. Counted'
    BY <1>2, <1>3, CountedSame
  <1>5. ASSUME NEW s \in Threads
        PROVE  /\ Knows(s)' => Knows(s) /\ thread'[s].id = thread[s].id
               /\ Destroys(s)' => Destroys(s) /\ thread'[s].id = thread[s].id
               /\ thread'[s].id \in {0, thread[s].id}
               /\ thread'[s].by # Nobody => s # t /\ thread'[s] = thread[s]
    BY DEF Knows, Destroys
  <1>. QED  BY <1>1, <1>4, <1>5

\* secrets that nobody hears stay secrets
LEMMA SecretKept ==
    ASSUME TypeOK, Staged, Secret,
           \A s \in Threads : /\ Knows(s)' => Knows(s) /\ thread'[s].id = thread[s].id
                              /\ Destroys(s)' => Destroys(s) /\ thread'[s].id = thread[s].id
                              /\ thread'[s].id \in {0, thread[s].id},
           \A r \in Rollouts, s \in Threads :
               Knows(s)' => thread[s].id = 0 \/ thread[s].id \notin Numbers(rollout'[r])
    PROVE  Secret'
  <1>1. ASSUME NEW a \in Threads, Knows(a)'
        PROVE  /\ \A s \in Threads \ {a} : thread'[s].id # thread'[a].id
               /\ \A r \in Rollouts : thread'[a].id \notin Held(r)' \union {rollout'[r].mine}
    <2>1. Knows(a) /\ thread'[a].id = thread[a].id /\ thread[a].id # 0
      BY <1>1, BoundsAssumption DEF Staged, Knows, At, Leases
    <2>2. \A s \in Threads \ {a} : thread[s].id # thread[a].id
      BY <2>1 DEF Secret
    <2>. QED  BY <1>1, <2>1, <2>2 DEF Held, Numbers
  <1>2. ASSUME NEW a \in Threads, Destroys(a)', NEW s \in Threads \ {a}, Destroys(s)'
        PROVE  thread'[s].id # thread'[a].id
    BY <1>2 DEF Secret
  <1>. QED  BY <1>1, <1>2 DEF Secret

\* rollout r goes on by itself
GoesOn(r) ==
    /\ rollout' \in [Rollouts -> RolloutRecords]
    /\ \A q \in Rollouts \ {r} : rollout'[q] = rollout[q]
    /\ rollout'[r].tries # Tries
    /\ UNCHANGED <<poolVars, nodeVars>>

\* the caller of t goes on, with the number it has heard from t if t has answered
LEMMA ReleasedInv ==
    ASSUME PoolInv, NEW r \in Rollouts, GoesOn(r), NEW t \in Threads, Waits(r, t), Released(t),
           \A i \in Numbers(rollout'[r]) :
               i \in Numbers(rollout[r]) \union {0} \/ (i = thread[t].id /\ thread'[t] = Idle)
    PROVE  Staged' /\ Secret' /\ Awaited' /\ Counted'
  <1>1. Staged' /\ Counted'
    BY ReleasedKeeps DEF GoesOn
  <1>2. Secret'
    <2>1. ASSUME NEW q \in Rollouts, NEW s \in Threads, Knows(s)'
          PROVE  thread[s].id = 0 \/ thread[s].id \notin Numbers(rollout'[q])
      <3>1. Knows(s) /\ (s = t => thread'[t] # Idle)
        BY <2>1, ReleasedKeeps DEF GoesOn, Knows, Idle
      <3>2. \A p \in Rollouts : thread[s].id \notin Numbers(rollout[p])
        BY <3>1 DEF PoolInv, Secret, Held, Numbers
      <3>3. s # t => thread[s].id # thread[t].id
        BY <3>1 DEF PoolInv, Secret
      <3>. QED  BY <3>1, <3>2, <3>3 DEF GoesOn
    <2>. QED  BY <2>1, ReleasedKeeps, SecretKept DEF PoolInv, GoesOn
  <1>3. Awaited'
    <2>1. ASSUME NEW q \in Rollouts, NEW s \in Threads, Waits(q, s)'
          PROVE  q # r /\ Waits(q, s) /\ s # t /\ thread'[s] = thread[s]
      <3>1. thread'[s].by # Nobody
        BY <2>1, BoundsAssumption DEF Waits
      <3>2. s # t /\ thread'[s] = thread[s]
        BY <3>1, ReleasedKeeps DEF GoesOn
      <3>. QED  BY <2>1, <3>2 DEF Waits, PoolInv, Awaited
    <2>2. ASSUME NEW q \in Rollouts, rollout'[q].tries = Tries
          PROVE  \E s \in Threads : Waits(q, s)'
      <3>1. q # r /\ rollout'[q] = rollout[q]
        BY <2>2 DEF GoesOn
      <3>2. PICK s \in Threads : Waits(q, s)
        BY <2>2, <3>1 DEF PoolInv, Awaited
      <3>3. s # t
        BY <3>1, <3>2 DEF Waits
      <3>. QED  BY <3>2, <3>3 DEF Waits, Released
    <2>. QED  BY <2>1, <2>2 DEF PoolInv, Awaited, GoesOn, ToClose
  <1>. QED  BY <1>1, <1>2, <1>3

\* a rollout without a call goes on
LEMMA QuietInv ==
    ASSUME PoolInv, NEW r \in Rollouts, GoesOn(r), UNCHANGED thread,
           \A t \in Threads : ~Waits(r, t),
           Numbers(rollout'[r]) \subseteq Numbers(rollout[r]) \union {0}
    PROVE  Staged' /\ Secret' /\ Awaited' /\ Counted'
  <1>1. Staged' /\ Counted'
    BY DEF PoolInv, GoesOn, Staged, Knows, Destroys, At, Leases, Counted, LeasesAt, InSlots,
         InBlock, AtNode,
           poolVars, nodeVars
  <1>2. \A s \in Threads : Knows(s) => \A q \in Rollouts : thread[s].id \notin Numbers(rollout[q])
    BY DEF PoolInv, Secret, Held, Numbers
  <1>3. Secret'
    <2>1. \A s \in Threads : (Knows(s)' <=> Knows(s)) /\ (Destroys(s)' <=> Destroys(s))
      BY DEF Knows, Destroys
    <2>2. ASSUME NEW q \in Rollouts, NEW s \in Threads, Knows(s)'
          PROVE  thread[s].id = 0 \/ thread[s].id \notin Numbers(rollout'[q])
      BY <1>2, <2>1, <2>2 DEF GoesOn
    <2>. QED  BY <2>1, <2>2, SecretKept DEF PoolInv
  <1>4. Awaited'
    BY DEF PoolInv, Awaited, GoesOn, Waits, ToClose
  <1>. QED  BY <1>1, <1>3, <1>4

\* a rollout moves to where it makes its next call
LEMMA MovesInv ==
    ASSUME PoolInv, NEW r \in Rollouts, NEW from \in Places \ (Allocating \union Closing), NEW to \in Places,
           Moves(r, from, to), UNCHANGED <<thread, poolVars, nodeVars>>
    PROVE  /\ rollout' \in [Rollouts -> RolloutRecords]
           /\ Staged' /\ Secret' /\ Awaited' /\ Counted'
  <1>1. rollout' \in [Rollouts -> RolloutRecords] /\ Numbers(rollout'[r]) = Numbers(rollout[r])
    BY DEF PoolInv, TypeOK, RolloutRecords, Moves, Numbers
  <1>2. \A t \in Threads : ~Waits(r, t)
    BY DEF PoolInv, Awaited, Moves
  <1>3. GoesOn(r)
    BY <1>1, <1>2 DEF PoolInv, TypeOK, RolloutRecords, Awaited, Moves, GoesOn
  <1>. QED  BY <1>1, <1>2, <1>3, QuietInv

\* a step of a rollout that makes no call keeps the invariant
LEMMA RolloutStepInv ==
    ASSUME PoolInv, NEW r \in Rollouts, Starts(r) \/ RolloutStep(r)
    PROVE  PoolInv'
  <1>1. CASE Starts(r)
    <2>1. Moves(r, "start", "allocating") /\ UNCHANGED <<thread, poolVars, healthVars, nodeVars, orphaned>>
      BY <1>1 DEF Starts
    <2>2. /\ rollout' \in [Rollouts -> RolloutRecords]
          /\ Staged' /\ Secret' /\ Awaited' /\ Counted'
      <3>1. "start" \in Places \ (Allocating \union Closing) /\ "allocating" \in Places
        BY DEF Places, Allocating, Closing
      <3>. QED  BY <2>1, <3>1, MovesInv
    <2>3. events' \in 0..MaxEvents
      BY <1>1, BoundsAssumption DEF Starts, Event, PoolInv, TypeOK
    <2>4. TypeOK'
      BY <2>1, <2>2, <2>3 DEF PoolInv, TypeOK, poolVars, healthVars, nodeVars
    <2>5. Named'
      BY <2>1 DEF PoolInv, TypeOK, RolloutRecords, Named, Moves
    <2>. QED  BY <2>2, <2>4, <2>5 DEF PoolInv
  <1>2. CASE RolloutStep(r)
    <2>1. /\ UNCHANGED <<thread, poolVars, healthVars, nodeVars, orphaned, events>>
          /\ \/ Moves(r, "working", "closingOld") \/ Moves(r, "working", "closing")
             \/ Moves(r, "working", "lastClosing") \/ Moves(r, "evalWaiting", "evalAllocating")
             \/ Moves(r, "evaluating", "evalClosing")
      BY <1>2 DEF RolloutStep, RestartFromBase, AgentEnds, TakeEvalSlot
    <2>2. PICK from \in Places \ (Allocating \union Closing), to \in Places : Moves(r, from, to)
      BY <2>1 DEF Places, Allocating, Closing
    <2>3. /\ rollout' \in [Rollouts -> RolloutRecords]
          /\ Staged' /\ Secret' /\ Awaited' /\ Counted'
      BY <2>1, <2>2, MovesInv
    <2>4. TypeOK'
      BY <2>1, <2>3 DEF PoolInv, TypeOK, poolVars, healthVars, nodeVars
    <2>5. Named'
      BY <2>1 DEF PoolInv, TypeOK, RolloutRecords, Named, Moves
    <2>. QED  BY <2>3, <2>4, <2>5 DEF PoolInv
  <1>. QED  BY <1>1, <1>2

\* after an attempt that failed
LEMMA AttemptFailsGoesOn ==
    ASSUME PoolInv, NEW r \in Rollouts, AttemptFails(r), UNCHANGED <<poolVars, nodeVars>>
    PROVE  GoesOn(r) /\ Numbers(rollout'[r]) \subseteq Numbers(rollout[r]) \union {0}
  <1>1. rollout[r] \in RolloutRecords
    BY DEF PoolInv, TypeOK
  <1>2. \/ rollout'[r] = rollout[r] /\ rollout[r].tries # Tries
        \/ rollout'[r] = Fresh(Failed(rollout[r]))
    BY BoundsAssumption, <1>1 DEF AttemptFails, PoolInv, TypeOK, RolloutRecords
  <1>3. rollout'[r] \in RolloutRecords /\ rollout'[r].tries # Tries
    BY <1>1, <1>2, RolloutTypes, BoundsAssumption
  <1>4. Numbers(rollout'[r]) \subseteq Numbers(rollout[r]) \union {0}
    BY <1>1, <1>2, RolloutTypes
  <1>. QED  BY <1>3, <1>4 DEF GoesOn, AttemptFails, PoolInv, TypeOK

\* what becomes of the numbers of a call and of a rollout that ends
LEMMA OrphansTyped ==
    ASSUME PoolInv, NEW r \in Rollouts, NEW t \in Threads, Waits(r, t)
    PROVE  GivenUp(r) \subseteq Ids /\ AnswerLost(t) \subseteq Ids
  <1>1. GivenUp(r) \subseteq Ids
    BY DEF PoolInv, TypeOK, RolloutRecords, Named, GivenUp, ToClose
  <1>2. AnswerLost(t) \subseteq Ids
    BY DEF PoolInv, TypeOK, ThreadRecords, Staged, Knows, At, Leases, AnswerLost
  <1>. QED  BY <1>1, <1>2

\* a rollout goes on after a failure with the numbers its place needs
LEMMA AttemptFailsNamed ==
    ASSUME PoolInv, NEW r \in Rollouts, AttemptFails(r), rollout[r].at \in Allocating \union Closing
    PROVE  Named'
  <1>1. rollout[r] \in RolloutRecords
    BY DEF PoolInv, TypeOK
  <1>2. /\ rollout'[r] = rollout[r] \/ rollout'[r] = Fresh(Failed(rollout[r]))
        /\ \A q \in Rollouts \ {r} : rollout'[q] = rollout[q]
    BY DEF AttemptFails, PoolInv, TypeOK
  <1>3. CASE rollout'[r] = Fresh(Failed(rollout[r]))
    <2>1. /\ Failed(rollout[r]).at \in {"working", "closingOld", "replacing", "closing", "lastClosing"}
                => Failed(rollout[r]).agent # 0
          /\ Failed(rollout[r]).at \notin {"evaluating", "evalClosing"}
      BY <1>1 DEF PoolInv, RolloutRecords, Named, Failed, Ended, Allocating, Closing
    <2>2. Failed(rollout[r]) \in RolloutRecords
      BY <1>1, RolloutTypes
    <2>3. /\ rollout'[r].at = Failed(rollout[r]).at /\ rollout'[r].agent = Failed(rollout[r]).agent
      BY <1>3, <2>2 DEF Fresh, RolloutRecords
    <2>. QED  BY <1>2, <2>1, <2>3 DEF Named, PoolInv
  <1>. QED  BY <1>2, <1>3 DEF PoolInv, Named

\* an answer that is heard keeps the invariant
LEMMA HearsInv ==
    ASSUME PoolInv, NEW r \in Rollouts, NEW t \in Threads, Hears(r, t)
    PROVE  PoolInv'
  <1>0. /\ Waits(r, t) /\ thread[t].stage \in {"ok", "failed"}
        /\ thread' = [thread EXCEPT ![t] = Idle]
        /\ UNCHANGED <<poolVars, healthVars, nodeVars, events>>
    BY DEF Hears
  <1>1. Released(t) /\ thread'[t] = Idle
    BY <1>0 DEF PoolInv, TypeOK, ThreadRecords, Stages, SlotStages, Released, Idle
  <1>2. rollout[r] \in RolloutRecords /\ thread[t].id \in Ids \union {0}
    BY DEF PoolInv, TypeOK, ThreadRecords
  <1>3. CASE At(t, "ok")
    <2>1. /\ rollout' = [rollout EXCEPT ![r] = Fresh(Succeeded(rollout[r], thread[t].id))]
          /\ UNCHANGED orphaned
      BY <1>3 DEF Hears
    <2>2. /\ GoesOn(r)
          /\ Numbers(rollout'[r]) \subseteq Numbers(rollout[r]) \union {thread[t].id, 0}
      <3>1. /\ rollout'[r] = Fresh(Succeeded(rollout[r], thread[t].id))
            /\ \A q \in Rollouts \ {r} : rollout'[q] = rollout[q]
        BY <2>1 DEF PoolInv, TypeOK
      <3>2. /\ rollout'[r] \in RolloutRecords /\ rollout'[r].tries = 0
            /\ Numbers(rollout'[r]) \subseteq Numbers(rollout[r]) \union {thread[t].id, 0}
        <4>1. /\ Fresh(Succeeded(rollout[r], thread[t].id)) \in RolloutRecords
              /\ Fresh(Succeeded(rollout[r], thread[t].id)).tries = 0
              /\ Numbers(Fresh(Succeeded(rollout[r], thread[t].id)))
                    \subseteq Numbers(rollout[r]) \union {thread[t].id, 0}
          BY <1>2, RolloutTypes
        <4>. QED  BY <3>1, <4>1
      <3>3. rollout' \in [Rollouts -> RolloutRecords]
        BY <2>1, <3>1, <3>2 DEF PoolInv, TypeOK
      <3>. QED  BY <1>0, <3>1, <3>2, <3>3, BoundsAssumption DEF GoesOn
    <2>3. Staged' /\ Secret' /\ Awaited' /\ Counted'
      BY <1>0, <1>1, <2>2, ReleasedInv
    <2>4. TypeOK'
      BY <1>0, <1>1, <2>1, <2>2 DEF PoolInv, TypeOK, Released, GoesOn, poolVars, healthVars,
           nodeVars
    <2>5. Named'
      <3>1. rollout[r].at \in Allocating => thread[t].id # 0
        BY <1>0, <1>3, BoundsAssumption DEF PoolInv, Awaited, Staged, Knows, At, Leases
      <3>2. rollout[r].at \in Allocating \union Closing
        BY <1>0 DEF PoolInv, Awaited
      <3>3. LET o == Succeeded(rollout[r], thread[t].id) IN
            /\ o.at \in {"working", "closingOld", "replacing", "closing", "lastClosing"} => o.agent # 0
            /\ o.at \in {"evaluating", "evalClosing"} => o.eval # 0
        BY <1>2, <3>1, <3>2 DEF PoolInv, RolloutRecords, Named, Succeeded, Ended, Allocating,
             Closing
      <3>. QED
        BY <1>2, <2>1, <3>3 DEF Fresh, Named, PoolInv, TypeOK
    <2>. QED  BY <2>3, <2>4, <2>5 DEF PoolInv
  <1>4. CASE ~At(t, "ok")
    <2>1. AttemptFails(r) /\ orphaned' = orphaned \union GivenUp(r)
      BY <1>4 DEF Hears
    <2>2. GoesOn(r) /\ Numbers(rollout'[r]) \subseteq Numbers(rollout[r]) \union {0}
      BY <1>0, <2>1, AttemptFailsGoesOn
    <2>3. Staged' /\ Secret' /\ Awaited' /\ Counted'
      BY <1>0, <1>1, <2>2, ReleasedInv
    <2>4. TypeOK'
      BY <1>0, <1>1, <2>1, <2>2, OrphansTyped
         DEF PoolInv, TypeOK, Released, GoesOn, poolVars, healthVars, nodeVars
    <2>5. Named'
      BY <1>0, <2>1, AttemptFailsNamed DEF PoolInv, Awaited
    <2>. QED  BY <2>3, <2>4, <2>5 DEF PoolInv
  <1>. QED  BY <1>3, <1>4

\* a call that is not answered keeps the invariant
LEMMA UnansweredInv ==
    ASSUME PoolInv, NEW r \in Rollouts, NEW t \in Threads, Unanswered(r, t)
    PROVE  PoolInv'
  <1>0. /\ Waits(r, t) /\ Event /\ Abandoned(t) /\ AttemptFails(r)
        /\ orphaned' = orphaned \union GivenUp(r) \union AnswerLost(t)
        /\ UNCHANGED <<poolVars, healthVars, nodeVars>>
    BY DEF Unanswered
  <1>1. Released(t)
    BY <1>0, AbandonedReleases DEF PoolInv
  <1>2. GoesOn(r) /\ Numbers(rollout'[r]) \subseteq Numbers(rollout[r]) \union {0}
    BY <1>0, AttemptFailsGoesOn
  <1>3. Staged' /\ Secret' /\ Awaited' /\ Counted'
    <2>1. \A i \in Numbers(rollout'[r]) :
              i \in Numbers(rollout[r]) \union {0} \/ (i = thread[t].id /\ thread'[t] = Idle)
      BY <1>2
    <2>. QED  BY <1>0, <1>1, <1>2, <2>1, ReleasedInv
  <1>4. events' \in 0..MaxEvents
    BY <1>0, BoundsAssumption DEF Event, PoolInv, TypeOK
  <1>5. TypeOK'
    BY <1>0, <1>1, <1>2, <1>4, OrphansTyped
       DEF PoolInv, TypeOK, Released, GoesOn, poolVars, healthVars, nodeVars
  <1>6. Named'
    BY <1>0, AttemptFailsNamed DEF PoolInv, Awaited
  <1>. QED  BY <1>3, <1>5, <1>6 DEF PoolInv

\* the end of the agent's time keeps the invariant
LEMMA CutShortInv ==
    ASSUME PoolInv, NEW r \in Rollouts, CutShort(r)
    PROVE  PoolInv'
  <1>0. /\ rollout[r].at \in {"closingOld", "replacing"} /\ Event
        /\ rollout' = [rollout EXCEPT ![r].at = "lastClosing", ![r].tries = 0]
        /\ UNCHANGED <<poolVars, healthVars, nodeVars>>
    BY DEF CutShort
  <1>1. GoesOn(r) /\ Numbers(rollout'[r]) \subseteq Numbers(rollout[r]) \union {0}
    <2>1. rollout'[r] = [rollout[r] EXCEPT !.at = "lastClosing", !.tries = 0]
      BY <1>0 DEF PoolInv, TypeOK
    <2>2. rollout[r] \in RolloutRecords
      BY DEF PoolInv, TypeOK
    <2>3. rollout'[r] \in RolloutRecords /\ rollout'[r].tries # Tries
      <3>1. "lastClosing" \in Places
        BY DEF Places, Closing
      <3>2. [rollout[r] EXCEPT !.at = "lastClosing", !.tries = 0] \in RolloutRecords
        <4>1. [rollout[r] EXCEPT !.at = "lastClosing"] \in RolloutRecords
          BY <2>2, <3>1 DEF RolloutRecords
        <4>2. 0 \in 0..Tries
          BY BoundsAssumption
        <4>. QED  BY <2>2, <4>1, <4>2 DEF RolloutRecords
      <3>3. rollout'[r].tries = 0
        BY <2>1, <2>2 DEF RolloutRecords
      <3>. QED  BY <2>1, <3>2, <3>3, BoundsAssumption
    <2>4. Numbers(rollout'[r]) = Numbers(rollout[r])
      BY <2>1, <2>2 DEF Numbers, RolloutRecords
    <2>. QED  BY <1>0, <2>3, <2>4 DEF GoesOn, PoolInv, TypeOK
  <1>2. events' \in 0..MaxEvents
    BY <1>0, BoundsAssumption DEF Event, PoolInv, TypeOK
  <1>3. Named'
    BY <1>0 DEF PoolInv, TypeOK, RolloutRecords, Named
  <1>4. CASE \E t \in Threads : Waits(r, t)
    <2>1. PICK t \in Threads : Waits(r, t) /\ Abandoned(t) /\ orphaned' = orphaned \union AnswerLost(t)
      BY <1>4 DEF CutShort
    <2>2. Released(t)
      BY <2>1, AbandonedReleases DEF PoolInv
    <2>3. Staged' /\ Secret' /\ Awaited' /\ Counted'
      <3>1. \A i \in Numbers(rollout'[r]) :
              i \in Numbers(rollout[r]) \union {0} \/ (i = thread[t].id /\ thread'[t] = Idle)
        BY <1>1
      <3>. QED  BY <1>1, <2>1, <2>2, <3>1, ReleasedInv
    <2>4. TypeOK'
      BY <1>0, <1>1, <1>2, <2>1, <2>2, OrphansTyped
         DEF PoolInv, TypeOK, Released, GoesOn, poolVars, healthVars, nodeVars
    <2>. QED  BY <1>3, <2>3, <2>4 DEF PoolInv
  <1>5. CASE ~ \E t \in Threads : Waits(r, t)
    <2>1. UNCHANGED <<thread, orphaned>>
      BY <1>5 DEF CutShort
    <2>2. Staged' /\ Secret' /\ Awaited' /\ Counted'
      BY <1>1, <1>5, <2>1, QuietInv
    <2>3. TypeOK'
      BY <1>0, <1>1, <1>2, <2>1 DEF PoolInv, TypeOK, GoesOn, poolVars, healthVars, nodeVars
    <2>. QED  BY <1>3, <2>2, <2>3 DEF PoolInv
  <1>. QED  BY <1>4, <1>5

\* a call that is sent keeps the invariant
LEMMA SendInv ==
    ASSUME PoolInv, NEW r \in Rollouts, Send(r)
    PROVE  PoolInv'
  <1>. DEFINE call == IF rollout[r].at \in Allocating
                      THEN [Idle EXCEPT !.op = "allocate", !.stage = "queued", !.by = r]
                      ELSE [Idle EXCEPT !.op = "close", !.stage = "asked", !.by = r, !.id = ToClose(r)]
  <1>1. PICK t \in Threads : At(t, "idle") /\ thread' = [thread EXCEPT ![t] = call]
    BY DEF Send
  <1>2. /\ rollout[r].at \in Allocating \union Closing
        /\ \A s \in Threads : ~Waits(r, s)
        /\ rollout' = [rollout EXCEPT ![r].tries = @ + 1]
        /\ UNCHANGED <<poolVars, healthVars, nodeVars, orphaned, events>>
    BY DEF Send
  <1>3. thread[t] = Idle /\ rollout[r] \in RolloutRecords
    BY <1>1 DEF PoolInv, Staged, TypeOK
  <1>4. /\ call \in ThreadRecords
        /\ call.by = r /\ call.id \in Numbers(rollout[r]) \union {0}
        /\ call.op = IF rollout[r].at \in Allocating THEN "allocate" ELSE "close"
        /\ call.op = "allocate" => call.stage = "queued" /\ call.id = 0
        /\ call.op = "close" => call.stage = "asked" /\ call.id = ToClose(r)
    BY <1>3 DEF Idle, ThreadRecords, RolloutRecords, Stages, SlotStages, ToClose, Numbers
  <1>5. rollout[r].tries + 1 \in 0..Tries
    BY <1>2, <1>3, BoundsAssumption DEF PoolInv, Awaited, RolloutRecords
  <1>. HIDE DEF call
  <1>6. /\ thread'[t] = call /\ \A s \in Threads \ {t} : thread'[s] = thread[s]
        /\ thread' \in [Threads -> ThreadRecords]
    BY <1>1, <1>4 DEF PoolInv, TypeOK
  <1>7. /\ rollout' \in [Rollouts -> RolloutRecords]
        /\ \A q \in Rollouts : /\ Numbers(rollout'[q]) = Numbers(rollout[q])
                               /\ rollout'[q].agent = rollout[q].agent /\ rollout'[q].eval = rollout[q].eval
                               /\ rollout'[q].at = rollout[q].at
                               /\ q # r => rollout'[q] = rollout[q]
        /\ \A q \in Rollouts : ToClose(q)' = ToClose(q)
    <2>1. [rollout[r] EXCEPT !.tries = @ + 1] \in RolloutRecords
      BY <1>3, <1>5 DEF RolloutRecords
    <2>2. rollout' \in [Rollouts -> RolloutRecords]
      BY <1>2, <2>1 DEF PoolInv, TypeOK
    <2>3. ASSUME NEW q \in Rollouts
          PROVE  /\ rollout'[q].at = rollout[q].at /\ rollout'[q].agent = rollout[q].agent
                 /\ rollout'[q].mine = rollout[q].mine /\ rollout'[q].eval = rollout[q].eval
                 /\ q # r => rollout'[q] = rollout[q]
      BY <1>2 DEF PoolInv, TypeOK, RolloutRecords
    <2>. QED  BY <2>2, <2>3 DEF Numbers, ToClose
  <1>8. TypeOK'
    BY <1>2, <1>6, <1>7 DEF PoolInv, TypeOK, poolVars, healthVars, nodeVars
  <1>9. ~Knows(t)' /\ ~Destroys(t)'
    BY <1>4, <1>6 DEF Knows, Destroys
  <1>10. Staged'
    <2>1. call.stage # "idle" /\ call.op # "none"
      BY <1>4
    <2>2. \A s \in Threads \ {t} : (Knows(s)' <=> Knows(s)) /\ (Destroys(s)' <=> Destroys(s))
      BY <1>6 DEF Knows, Destroys
    <2>3. Leases' = Leases /\ UNCHANGED box
      BY <1>2 DEF Leases, poolVars, nodeVars
    <2>. QED
      BY <1>4, <1>6, <1>9, <2>1, <2>2, <2>3 DEF PoolInv, Staged, At, AllocateStages, CloseStages
  <1>11. Secret'
    <2>1. ASSUME NEW a \in Threads, Knows(a)'
          PROVE  /\ \A s \in Threads \ {a} : thread'[s].id # thread'[a].id
                 /\ \A q \in Rollouts : thread'[a].id \notin Held(q)' \union {rollout'[q].mine}
      <3>1. a # t /\ Knows(a) /\ thread'[a] = thread[a]
        BY <1>6, <1>9, <2>1 DEF Knows
      <3>2. thread[a].id # 0 /\ \A q \in Rollouts : thread[a].id \notin Numbers(rollout[q])
        BY <3>1, BoundsAssumption DEF PoolInv, Staged, Secret, Knows, At, Leases, Held, Numbers
      <3>3. \A s \in Threads \ {a} : thread'[s].id # thread[a].id
        BY <1>4, <1>6, <3>1, <3>2 DEF PoolInv, Secret
      <3>4. \A q \in Rollouts : thread[a].id \notin Numbers(rollout'[q])
        BY <1>7, <3>2
      <3>. QED  BY <3>1, <3>3, <3>4 DEF Held, Numbers
    <2>2. ASSUME NEW a \in Threads, Destroys(a)', NEW s \in Threads \ {a}, Destroys(s)'
          PROVE  thread'[s].id # thread'[a].id
      BY <1>6, <1>9, <2>2 DEF PoolInv, Secret, Destroys
    <2>. QED  BY <2>1, <2>2 DEF Secret
  <1>12. Awaited'
    <2>1. ASSUME NEW q \in Rollouts, NEW s \in Threads, Waits(q, s)'
          PROVE  \/ q = r /\ s = t
                 \/ q # r /\ s # t /\ Waits(q, s) /\ thread'[s] = thread[s]
      BY <1>2, <1>4, <1>6, <2>1 DEF Waits
    <2>2. ASSUME NEW q \in Rollouts, rollout'[q].tries = Tries
          PROVE  \E s \in Threads : Waits(q, s)'
      <3>1. CASE q = r
        BY <1>4, <1>6, <3>1 DEF Waits
      <3>2. CASE q # r
        <4>1. PICK s \in Threads : Waits(q, s)
          BY <1>7, <2>2, <3>2 DEF PoolInv, Awaited
        <4>2. s # t
          BY <1>3, <4>1, BoundsAssumption DEF Waits, Idle
        <4>. QED  BY <1>6, <4>1, <4>2 DEF Waits
      <3>. QED  BY <3>1, <3>2
    <2>3. ASSUME NEW q \in Rollouts, NEW s \in Threads, Waits(q, s)'
          PROVE  /\ rollout'[q].at \in Allocating \union Closing
                 /\ thread'[s].op = IF rollout'[q].at \in Allocating THEN "allocate" ELSE "close"
                 /\ thread'[s].op = "close" => thread'[s].id = ToClose(q)'
                 /\ \A u \in Threads : Waits(q, u)' => u = s
      <3>1. CASE q = r /\ s = t
        BY <1>2, <1>4, <1>6, <1>7, <2>1, <3>1
      <3>2. CASE q # r /\ s # t /\ Waits(q, s) /\ thread'[s] = thread[s]
        BY <1>7, <2>1, <3>2 DEF PoolInv, Awaited
      <3>. QED  BY <2>1, <2>3, <3>1, <3>2
    <2>. QED  BY <2>2, <2>3 DEF Awaited
  <1>13. Counted'
    <2>1. UNCHANGED poolVars /\ InSlots' = InSlots /\ InBlock' = InBlock
      BY <1>2, <1>3, <1>4, <1>6 DEF Idle, InSlots, InBlock, BlockStages, SlotStages
    <2>2. \A n \in Nodes : AtWork(n)' = AtWork(n)
      BY <1>3, <1>4, <1>6 DEF Idle, AtWork, AtNode
    <2>. QED  BY <2>1, <2>2, CountedSame DEF PoolInv
  <1>14. Named'
    BY <1>7 DEF PoolInv, Named
  <1>. QED  BY <1>8, <1>10, <1>11, <1>12, <1>13, <1>14 DEF PoolInv
-----------------------------------------------------------------------------
\* Whatever the handlers, nodes and clients do, and in whatever order, every stage of a call
\* stands for what the counters, leases and containers are then (the handlers of /allocate and
\* /close, swe_env_pool_server.py).
THEOREM PoolInvAlways == Spec => []PoolInv
  <1>1. Init => PoolInv
    <2>. SUFFICES ASSUME Init PROVE PoolInv
      OBVIOUS
    <2>1. TypeOK
      BY BoundsAssumption DEF Init, TypeOK, Idle, ThreadRecords, Stages, RolloutRecords, Places
    <2>2. Staged /\ Secret /\ Awaited /\ Named
      BY BoundsAssumption
         DEF Init, Idle, Staged, Secret, Awaited, Named, Knows, Destroys, At, Waits
    <2>3. Counted
      <3>1. Leases = {} /\ InSlots = {} /\ InBlock = {}
        BY DEF Init, Idle, Leases, InSlots, InBlock, SlotStages, BlockStages
      <3>2. \A n \in Nodes : LeasesAt(n) = {} /\ AtNode(n, {"creating", "popped"}) = {}
        BY <3>1 DEF Init, Idle, LeasesAt, AtNode
      <3>3. IsFiniteSet({}) /\ Cardinality({}) = 0
        BY FS_EmptySet
      <3>4. /\ MaxTotal > 0 => pending = Cardinality(InSlots)
            /\ MaxAllocates - permits = Cardinality(InBlock)
        BY <3>1, <3>3, BoundsAssumption DEF Init
      <3>5. \A n \in Nodes :
               active[n] = Cardinality(LeasesAt(n)) + Cardinality(AtNode(n, {"creating", "popped"}))
        BY <3>2, <3>3, SMTT(60) DEF Init
      <3>. QED  BY <3>1, <3>3, <3>4, <3>5 DEF Counted
    <2>. QED  BY <2>1, <2>2, <2>3 DEF PoolInv
  <1>2. PoolInv /\ [Next]_vars => PoolInv'
    <2>. SUFFICES ASSUME PoolInv, [Next]_vars PROVE PoolInv'
      OBVIOUS
    <2>1. ASSUME NEW t \in Threads, Allocate(t) \/ Close(t) PROVE PoolInv'
      <3>1. Named'
        BY <2>1 DEF PoolInv, Named, Allocate, Close, Enter, ReserveSlot, LimitReached, PickNode,
             NoNode,
               InsertLease, CreateFails, ReleaseSlot, LookUp, TakeLock, Destroy, DestroyFails, Pop, Unreserve
      <3>. QED  BY <2>1, <3>1, TypeThread, StagedThread, AwaitedThread, CountedThread DEF PoolInv
    <2>2. CASE \/ \E i \in Ids : NodeAnswers(i)
               \/ \E n \in Nodes : ProbeSucceeds(n) \/ ProbeFails(n)
      BY <2>2, NodeStep
    <2>3. ASSUME NEW r \in Rollouts, Starts(r) \/ Send(r) \/ RolloutStep(r) \/ CutShort(r) PROVE PoolInv'
      BY <2>3, RolloutStepInv, SendInv, CutShortInv
    <2>4. ASSUME NEW r \in Rollouts, NEW t \in Threads, Hears(r, t) \/ Unanswered(r, t) PROVE PoolInv'
      BY <2>4, HearsInv, UnansweredInv
    <2>5. CASE AllEnded \/ UNCHANGED vars
      <3>1. UNCHANGED <<thread, lease, active, pending, permits, misses, healthy, box, late, orphaned, rollout,
                        events>>
        BY <2>5 DEF AllEnded, vars, poolVars, healthVars, nodeVars
      <3>2. TypeOK'
        BY <3>1 DEF PoolInv, TypeOK
      <3>3. Staged' /\ Secret' /\ Awaited' /\ Named'
        BY <3>1 DEF PoolInv, Staged, Secret, Awaited, Named, Knows, Destroys, At, Waits, Held,
             ToClose, Leases
      <3>4. Counted'
        BY <3>1 DEF PoolInv, Counted, Leases, LeasesAt, InSlots, InBlock, AtNode
      <3>. QED  BY <3>2, <3>3, <3>4 DEF PoolInv
    <2>. QED  BY <2>1, <2>2, <2>3, <2>4, <2>5 DEF Next
  <1>. QED  BY <1>1, <1>2, PTL DEF Spec

\* Whatever fails, and however often a call is repeated, the counters are what
\* is there (swe_env_pool_server.py: _pick_and_reserve_node, _unreserve_node,
\* _reserve_total_slot, _release_total_slot).
THEOREM CapacityIsExact == Spec => []CapacityExact
  <1>1. PoolInv => CapacityExact
    BY DEF PoolInv, Counted, CapacityExact, LeasesAt, InSlots, InBlock, BlockStages
  <1>. QED  BY <1>1, PoolInvAlways, PTL
-----------------------------------------------------------------------------
(***************************************************************************)
(* The limits: an allocation that has its slot has room for its lease.     *)
(***************************************************************************)
LEMMA BoundedByMoves ==
    ASSUME PoolInv, Bounded, NEW i, NEW t, NEW dl, NEW dc,
           ByOne(i, Leases, Leases', dl), ByOne(t, Coming, Coming', dc),
           dl + dc <= 1, MaxTotal > 0 /\ dl + dc = 1 => Cardinality(Leases) + Cardinality(Coming) < MaxTotal,
           \A n \in Nodes : active'[n] <= active[n] \/ NodeCap = 0 \/ active'[n] <= NodeCap,
           active' \in [Nodes -> Nat]
    PROVE  Bounded'
  <1>1. /\ Cardinality(Leases) \in Nat /\ Cardinality(Leases') = Cardinality(Leases) + dl
        /\ Cardinality(Coming) \in Nat /\ Cardinality(Coming') = Cardinality(Coming) + dc
    BY SetsFinite, ByOneCounted DEF PoolInv, Counted
  <1>2. dl \in {-1, 0, 1} /\ dc \in {-1, 0, 1}
    BY DEF ByOne
  <1>3. MaxTotal > 0 => Cardinality(Leases') + Cardinality(Coming') <= MaxTotal
    <2>1. CASE dl + dc = 1
      BY <1>1, <1>2, <2>1, BoundsAssumption DEF Bounded
    <2>2. CASE dl + dc <= 0
      BY <1>1, <1>2, <2>2, BoundsAssumption DEF Bounded
    <2>. QED  BY <1>2, <2>1, <2>2
  <1>4. NodeCap > 0 => \A n \in Nodes : active'[n] <= NodeCap
    BY BoundsAssumption DEF Bounded, PoolInv, TypeOK
  <1>. QED  BY <1>3, <1>4 DEF Bounded

\* leases and allocations that become no more stay below the limits
LEMMA BoundedByFewer ==
    ASSUME PoolInv, Bounded, NEW i, NEW t, NEW dl, NEW dc,
           ByOne(i, Leases, Leases', dl), ByOne(t, Coming, Coming', dc),
           dl + dc <= 0,
           \A n \in Nodes : active'[n] <= active[n] \/ NodeCap = 0 \/ active'[n] <= NodeCap,
           active' \in [Nodes -> Nat]
    PROVE  Bounded'
  <1>1. dl \in {-1, 0, 1} /\ dc \in {-1, 0, 1}
    BY DEF ByOne
  <1>2. dl + dc <= 1 /\ ~(dl + dc = 1)
    BY <1>1
  <1>. QED  BY <1>2, BoundedByMoves

\* a step that leaves the leases and the counters alone leaves them below the limits
LEMMA BoundedSame ==
    ASSUME PoolInv, Bounded, UNCHANGED poolVars, Coming' = Coming
    PROVE  Bounded'
  BY DEF Bounded, poolVars, Leases

\* _reserve_total_slot: where the total is not used up there is room for one more lease
LEMMA RoomLeft ==
    ASSUME PoolInv, ~UsedUp, MaxTotal > 0
    PROVE  Cardinality(Leases) + Cardinality(Coming) < MaxTotal
  <1>1. Coming \subseteq InSlots
    BY DEF Coming, InSlots, SlotStages
  <1>2. Cardinality(Coming) <= Cardinality(InSlots) /\ Cardinality(InSlots) \in Nat /\ Cardinality(Coming) \in Nat
    BY <1>1, SetsFinite, FS_Subset, FS_CardinalityType DEF PoolInv
  <1>3. Cardinality(Leases) \in Nat
    BY FS_CardinalityType DEF PoolInv, Counted
  <1>. QED  BY <1>2, <1>3, BoundsAssumption DEF UsedUp, PoolInv, Counted

\* a handler keeps the limits: only one that found room takes a slot, only one that
\* found a node below its cap counts up its counter
LEMMA BoundedThread ==
    ASSUME PoolInv, PoolInv', Bounded, NEW t \in Threads, Allocate(t) \/ Close(t)
    PROVE  Bounded'
  <1>0. PICK i : i = thread[t].id
    OBVIOUS
  <1>. USE BoundsAssumption DEF TypeOK, ThreadRecords, At, Goes, Leases, Coming, poolVars
  <1>a. active' \in [Nodes -> Nat] /\ TypeOK
    BY DEF PoolInv
  <1>1. CASE Enter(t)
    <2>1. Leases' = Leases /\ Coming' = Coming /\ active' = active
      BY <1>a, <1>1 DEF Enter
    <2>. HIDE DEF Leases, Coming
    <2>. QED  BY <2>1 DEF Bounded
  <1>2. CASE ReserveSlot(t)
    <2>1. ByOne(i, Leases, Leases', 0) /\ ByOne(t, Coming, Coming', 1)
      BY <1>0, <1>a, <1>2 DEF ReserveSlot, ByOne
    <2>2. MaxTotal > 0 => Cardinality(Leases) + Cardinality(Coming) < MaxTotal
      BY <1>2, RoomLeft DEF ReserveSlot
    <2>4. \A n \in Nodes : active'[n] <= active[n] \/ NodeCap = 0 \/ active'[n] <= NodeCap
      BY <1>a, <1>2 DEF ReserveSlot
    <2>. HIDE DEF Leases, Coming, TypeOK, At, Goes, ThreadRecords, poolVars
    <2>. QED  BY <1>a, <2>1, <2>2, <2>4, BoundedByMoves
  <1>3. CASE LimitReached(t)
    <2>1. Leases' = Leases /\ Coming' = Coming /\ active' = active
      BY <1>a, <1>3 DEF LimitReached, Answers, Idle
    <2>. HIDE DEF Leases, Coming
    <2>. QED  BY <2>1 DEF Bounded
  <1>4. CASE PickNode(t)
    <2>1. ByOne(i, Leases, Leases', 0) /\ ByOne(t, Coming, Coming', 0)
      BY <1>0, <1>a, <1>4 DEF PickNode, ByOne
    <2>3. PICK k \in Candidates : active' = [active EXCEPT ![k] = @ + 1]
      BY <1>4, Picks, <1>a DEF PickNode
    <2>4. \A n \in Nodes : active'[n] <= active[n] \/ NodeCap = 0 \/ active'[n] <= NodeCap
      BY <1>a, <2>3 DEF Candidates
    <2>5. 0 + 0 <= 0
      OBVIOUS
    <2>. HIDE DEF Leases, Coming, TypeOK, At, Goes, ThreadRecords, poolVars
    <2>. QED  BY <1>a, <2>1, <2>5, <2>4, BoundedByFewer
  <1>5. CASE NoNode(t)
    <2>1. ByOne(i, Leases, Leases', 0) /\ ByOne(t, Coming, Coming', -1)
      BY <1>0, <1>a, <1>5 DEF NoNode, ByOne
    <2>4. \A n \in Nodes : active'[n] <= active[n] \/ NodeCap = 0 \/ active'[n] <= NodeCap
      BY <1>a, <1>5 DEF NoNode
    <2>5. 0 + -1 <= 0
      OBVIOUS
    <2>. HIDE DEF Leases, Coming, TypeOK, At, Goes, ThreadRecords, poolVars
    <2>. QED  BY <1>a, <2>1, <2>5, <2>4, BoundedByFewer
  <1>6. CASE InsertLease(t)
    <2>0. i \in Ids \ Leases
      BY <1>0, <1>6 DEF InsertLease, PoolInv, Staged
    <2>1. ByOne(i, Leases, Leases', 1) /\ ByOne(t, Coming, Coming', -1)
      <3>1. lease' = [lease EXCEPT ![i] = thread[t].node] /\ thread[t].node # 0
        BY <1>0, <1>6 DEF InsertLease, PoolInv, Staged
      <3>2. ByOne(i, Leases, Leases', 1)
        BY <1>a, <2>0, <3>1 DEF ByOne
      <3>3. ByOne(t, Coming, Coming', -1)
        BY <1>a, <1>6 DEF InsertLease, ByOne
      <3>. QED  BY <3>2, <3>3
    <2>4. \A n \in Nodes : active'[n] <= active[n] \/ NodeCap = 0 \/ active'[n] <= NodeCap
      BY <1>a, <1>6 DEF InsertLease
    <2>5. 1 + -1 <= 0
      OBVIOUS
    <2>. HIDE DEF Leases, Coming, TypeOK, At, Goes, ThreadRecords, poolVars
    <2>. QED  BY <1>a, <2>1, <2>5, <2>4, BoundedByFewer
  <1>7. CASE CreateFails(t)
    <2>1. ByOne(i, Leases, Leases', 0) /\ ByOne(t, Coming, Coming', -1)
      BY <1>0, <1>a, <1>7 DEF CreateFails, Event, ByOne
    <2>4. \A n \in Nodes : active'[n] <= active[n] \/ NodeCap = 0 \/ active'[n] <= NodeCap
      BY <1>a, <1>7 DEF CreateFails, Fewer
    <2>5. 0 + -1 <= 0
      OBVIOUS
    <2>. HIDE DEF Leases, Coming, TypeOK, At, Goes, ThreadRecords, poolVars
    <2>. QED  BY <1>a, <2>1, <2>5, <2>4, BoundedByFewer
  <1>8. CASE ReleaseSlot(t)
    <2>1. ByOne(i, Leases, Leases', 0) /\ ByOne(t, Coming, Coming', 0)
      BY <1>0, <1>a, <1>8 DEF ReleaseSlot, Answers, Idle, ByOne
    <2>4. \A n \in Nodes : active'[n] <= active[n] \/ NodeCap = 0 \/ active'[n] <= NodeCap
      BY <1>a, <1>8 DEF ReleaseSlot
    <2>5. 0 + 0 <= 0
      OBVIOUS
    <2>. HIDE DEF Leases, Coming, TypeOK, At, Goes, ThreadRecords, poolVars
    <2>. QED  BY <1>a, <2>1, <2>5, <2>4, BoundedByFewer
  <1>9. CASE LookUp(t)
    <2>1. UNCHANGED poolVars /\ Coming' = Coming
      BY <1>a, <1>9 DEF LookUp, Answers, Idle
    <2>. HIDE DEF Coming
    <2>. QED  BY <2>1, BoundedSame
  <1>10. CASE TakeLock(t)
    <2>1. UNCHANGED poolVars /\ Coming' = Coming
      BY <1>a, <1>10 DEF TakeLock, Answers, Idle
    <2>. HIDE DEF Coming
    <2>. QED  BY <2>1, BoundedSame
  <1>11. CASE Destroy(t)
    <2>1. UNCHANGED poolVars /\ Coming' = Coming
      BY <1>a, <1>11 DEF Destroy
    <2>. HIDE DEF Coming
    <2>. QED  BY <2>1, BoundedSame
  <1>12. CASE DestroyFails(t)
    <2>1. UNCHANGED poolVars /\ Coming' = Coming
      BY <1>a, <1>12 DEF DestroyFails, Answers, Idle, Event
    <2>. HIDE DEF Coming
    <2>. QED  BY <2>1, BoundedSame
  <1>13. CASE Pop(t)
    <2>0. i \in Leases
      BY <1>0, <1>13 DEF Pop, PoolInv, Staged, Destroys
    <2>1. ByOne(i, Leases, Leases', -1) /\ ByOne(t, Coming, Coming', 0)
      BY <1>0, <1>a, <1>13, <2>0 DEF Pop, ByOne
    <2>4. \A n \in Nodes : active'[n] <= active[n] \/ NodeCap = 0 \/ active'[n] <= NodeCap
      BY <1>a, <1>13 DEF Pop
    <2>5. -1 + 0 <= 0
      OBVIOUS
    <2>. HIDE DEF Leases, Coming, TypeOK, At, Goes, ThreadRecords, poolVars
    <2>. QED  BY <1>a, <2>1, <2>5, <2>4, BoundedByFewer
  <1>14. CASE Unreserve(t)
    <2>1. ByOne(i, Leases, Leases', 0) /\ ByOne(t, Coming, Coming', 0)
      BY <1>0, <1>a, <1>14 DEF Unreserve, Answers, Idle, ByOne
    <2>4. \A n \in Nodes : active'[n] <= active[n] \/ NodeCap = 0 \/ active'[n] <= NodeCap
      BY <1>a, <1>14 DEF Unreserve, Fewer
    <2>5. 0 + 0 <= 0
      OBVIOUS
    <2>. HIDE DEF Leases, Coming, TypeOK, At, Goes, ThreadRecords, poolVars
    <2>. QED  BY <1>a, <2>1, <2>5, <2>4, BoundedByFewer
  <1>. QED
    BY <1>1, <1>2, <1>3, <1>4, <1>5, <1>6, <1>7, <1>8, <1>9, <1>10, <1>11, <1>12, <1>13,
         <1>14 DEF Allocate, Close

\* no other step reserves a slot or moves a counter
LEMMA BoundedOther ==
    ASSUME PoolInv, Bounded,
           \/ \E i \in Ids : NodeAnswers(i)
           \/ \E n \in Nodes : ProbeSucceeds(n) \/ ProbeFails(n)
           \/ \E r \in Rollouts : Starts(r) \/ Send(r) \/ RolloutStep(r) \/ CutShort(r)
           \/ \E r \in Rollouts, t \in Threads : Hears(r, t) \/ Unanswered(r, t)
           \/ UNCHANGED vars
    PROVE  Bounded'
  <1>1. UNCHANGED poolVars
    BY DEF NodeAnswers, ProbeSucceeds, ProbeFails, Starts, Send, RolloutStep, CutShort, Hears,
         Unanswered, vars
  <1>2. ASSUME NEW s \in Threads
        PROVE  \/ thread'[s].stage = thread[s].stage
               \/ /\ thread[s].stage \notin {"reserved", "creating"}
                  /\ thread'[s].stage \notin {"reserved", "creating"}
    <2>. USE DEF PoolInv, TypeOK, ThreadRecords, At
    <2>1. CASE UNCHANGED thread
      BY <2>1
    <2>2. ASSUME NEW r \in Rollouts, Send(r)
          PROVE  \/ thread'[s].stage = thread[s].stage
                 \/ /\ thread[s].stage \notin {"reserved", "creating"}
                    /\ thread'[s].stage \notin {"reserved", "creating"}
      BY <2>2, ZenonT(90) DEF Send, Idle
    <2>3. ASSUME NEW t \in Threads, Released(t)
          PROVE  \/ thread'[s].stage = thread[s].stage
                 \/ /\ thread[s].stage \notin {"reserved", "creating"}
                    /\ thread'[s].stage \notin {"reserved", "creating"}
      BY <2>3 DEF Released, Idle
    <2>4. ASSUME NEW r \in Rollouts, NEW t \in Threads, Hears(r, t) \/ Unanswered(r, t)
          PROVE  Released(t)
      <3>1. CASE Hears(r, t)
        BY <3>1 DEF Hears, Released, Idle, Stages, SlotStages
      <3>2. CASE Unanswered(r, t)
        BY <3>2, AbandonedReleases DEF Unanswered
      <3>. QED  BY <2>4, <3>1, <3>2
    <2>5. ASSUME NEW r \in Rollouts, CutShort(r)
          PROVE  UNCHANGED thread \/ \E t \in Threads : Released(t)
      <3>1. CASE \E t \in Threads : Waits(r, t)
        <4>1. PICK t \in Threads : Abandoned(t)
          BY <2>5, <3>1 DEF CutShort
        <4>. QED  BY <4>1, AbandonedReleases
      <3>2. CASE ~ \E t \in Threads : Waits(r, t)
        BY <2>5, <3>2 DEF CutShort
      <3>. QED  BY <3>1, <3>2
    <2>6. ASSUME \/ \E i \in Ids : NodeAnswers(i)
                 \/ \E n \in Nodes : ProbeSucceeds(n) \/ ProbeFails(n)
                 \/ \E r \in Rollouts : Starts(r) \/ RolloutStep(r)
                 \/ UNCHANGED vars
          PROVE  UNCHANGED thread
      BY <2>6 DEF NodeAnswers, ProbeSucceeds, ProbeFails, Starts, RolloutStep, vars
    <2>. HIDE DEF PoolInv, TypeOK, ThreadRecords, At
    <2>. QED  BY <2>1, <2>2, <2>3, <2>4, <2>5, <2>6
  <1>3. Coming' = Coming
    BY <1>2 DEF Coming
  <1>. QED  BY <1>1, <1>3, BoundedSame

\* The strengthened limits: the leases with the allocations under way (_reserve_total_slot)
\* never pass max_total_leases, nor a node's counter max_containers_per_node.
THEOREM BoundedAlways == Spec => []Bounded
  <1>1. Init => Bounded
    <2>. SUFFICES ASSUME Init PROVE Bounded
      OBVIOUS
    <2>1. Leases = {} /\ Coming = {}
      BY DEF Init, Idle, Leases, Coming
    <2>2. Cardinality({}) = 0
      BY FS_EmptySet
    <2>3. NodeCap > 0 => \A n \in Nodes : active[n] <= NodeCap
      BY BoundsAssumption DEF Init
    <2>4. MaxTotal > 0 => Cardinality(Leases) + Cardinality(Coming) <= MaxTotal
      BY <2>1, <2>2, BoundsAssumption
    <2>. QED  BY <2>3, <2>4 DEF Bounded
  <1>2. PoolInv /\ PoolInv' /\ Bounded /\ [Next]_vars => Bounded'
    <2>. SUFFICES ASSUME PoolInv, PoolInv', Bounded, [Next]_vars PROVE Bounded'
      OBVIOUS
    <2>1. ASSUME NEW t \in Threads, Allocate(t) \/ Close(t) PROVE Bounded'
      BY <2>1, BoundedThread
    <2>2. AllEnded => UNCHANGED vars
      BY DEF AllEnded
    <2>. QED  BY <2>1, <2>2, BoundedOther DEF Next
  <1>. QED  BY <1>1, <1>2, PoolInvAlways, PTL DEF Spec

\* "global lease cap enforced at pool server" (swe-rl/README.md): with the check
\* and the reservation under one lock, allocations beside each other stay below it.
THEOREM LimitsAlwaysHold == Spec => []LimitsHold
  <1>1. PoolInv /\ Bounded => LimitsHold
    <2>. SUFFICES ASSUME PoolInv, Bounded PROVE LimitsHold
      OBVIOUS
    <2>1. Cardinality(Leases) \in Nat /\ Cardinality(Coming) \in Nat
      <3>1. IsFiniteSet(Coming)
        BY SetsFinite DEF PoolInv
      <3>2. IsFiniteSet(Leases)
        BY DEF PoolInv, Counted
      <3>. QED  BY <3>1, <3>2, FS_CardinalityType
    <2>2. Cardinality(Leases) <= Cardinality(Leases) + Cardinality(Coming)
      BY <2>1
    <2>3. MaxTotal > 0 => Cardinality(Leases) <= MaxTotal
      BY <2>1, <2>2, BoundsAssumption DEF Bounded
    <2>. QED  BY <2>3 DEF Bounded, LimitsHold
  <1>. QED  BY <1>1, PoolInvAlways, BoundedAlways, PTL
-----------------------------------------------------------------------------
(***************************************************************************)
(* To whom containers and leases belong: the inductive invariant, in       *)
(* parts; it holds together with PoolInv.                                  *)
(***************************************************************************)
\* containers and leases without the calls that only close them
Accounted ==
    /\ \A i \in Ids : box[i] # "none" =>
           \/ i \in Leases \union late
           \/ \E t \in Threads : At(t, "creating") /\ thread[t].id = i
    /\ \A i \in Leases :
           \/ i \in orphaned \union Replacements
           \/ \E r \in Rollouts : i \in Held(r)
           \/ \E t \in Threads : Knows(t) /\ thread[t].id = i

\* the number of the container a rollout evaluates in is known to nobody else
EvaluatesAlone ==
    \A r \in Rollouts : rollout[r].at = "evaluating" =>
        /\ rollout[r].eval \in Leases /\ box[rollout[r].eval] = "up"
        /\ \A t \in Threads : thread[t].id # rollout[r].eval
        /\ \A q \in Rollouts : /\ rollout[r].eval \notin {rollout[q].agent, rollout[q].mine}
                               /\ q # r => rollout[q].eval # rollout[r].eval

\* what a rollout holds at each place
Fits(o) ==
    /\ o.at \in {"start", "allocating"} => o.agent = 0 /\ o.mine = 0
    /\ o.eval # 0 => o.at \in {"evaluating", "evalClosing"}
    /\ o.at \in {"start", "allocating", "closingOld", "replacing"} => ~o.again

Holds == \A r \in Rollouts : Fits(rollout[r])

OwnInv == Accounted /\ EvaluatesAlone /\ Holds
-----------------------------------------------------------------------------
(***************************************************************************)
(* Who has the number of what.                                             *)
(***************************************************************************)
LEMMA HoldsSame ==
    ASSUME Holds, UNCHANGED rollout
    PROVE  Holds'
  BY DEF Holds

\* the container of a rollout that evaluates is out of the reach of every call
LEMMA EvaluatesKept ==
    ASSUME PoolInv, EvaluatesAlone, NEW t \in Threads, UNCHANGED rollout,
           \A s \in Threads \ {t} : thread'[s] = thread[s],
           thread'[t].id \in {0, thread[t].id} \union Free,
           \A i \in Leases : i # thread[t].id => i \in Leases' /\ box'[i] = box[i]
    PROVE  EvaluatesAlone'
  <1>1. ASSUME NEW r \in Rollouts, rollout[r].at = "evaluating", NEW s \in Threads
        PROVE  thread'[s].id # rollout[r].eval
    <2>1. rollout[r].eval \in Leases /\ thread[t].id # rollout[r].eval /\ thread[s].id # rollout[r].eval
      BY <1>1 DEF EvaluatesAlone
    <2>2. rollout[r].eval # 0
      BY <2>1, BoundsAssumption DEF Leases
    <2>3. rollout[r].eval \notin Free
      BY <2>1, FreeIsNew
    <2>. QED  BY <2>1, <2>2, <2>3
  <1>. QED  BY <1>1 DEF EvaluatesAlone

\* no handler touches the container a rollout evaluates in
LEMMA EvaluatesThread ==
    ASSUME PoolInv, EvaluatesAlone, NEW t \in Threads, Allocate(t) \/ Close(t)
    PROVE  EvaluatesAlone'
  <1>1. /\ UNCHANGED rollout
        /\ \A s \in Threads \ {t} : thread'[s] = thread[s]
        /\ thread'[t].id \in {0, thread[t].id} \union Free
        /\ \A i \in Leases : i # thread[t].id => i \in Leases' /\ box'[i] = box[i]
    <2>. USE BoundsAssumption DEF PoolInv, TypeOK, ThreadRecords, At, Goes, poolVars, nodeVars, Leases
    <2>1. CASE Enter(t)
      BY <2>1 DEF Enter
    <2>2. CASE ReserveSlot(t)
      BY <2>2 DEF ReserveSlot
    <2>3. CASE LimitReached(t)
      BY <2>3 DEF LimitReached, Answers, Idle
    <2>4. CASE PickNode(t)
      <3>1. Min(Free) \in Free /\ box' = [box EXCEPT ![Min(Free)] = "making"] /\ UNCHANGED <<lease, rollout>>
            /\ thread' = [thread EXCEPT ![t].stage = "creating", ![t].id = Min(Free), ![t].node = Min(LeastLoaded)]
        BY <2>4, Picks DEF PickNode
      <3>2. \A i \in Leases : i # Min(Free)
        BY <3>1, FreeIsNew
      <3>. QED  BY <3>1, <3>2
    <2>5. CASE NoNode(t)
      BY <2>5 DEF NoNode
    <2>6. CASE InsertLease(t)
      BY <2>6 DEF InsertLease, Staged
    <2>7. CASE CreateFails(t)
      BY <2>7 DEF CreateFails, Event
    <2>8. CASE ReleaseSlot(t)
      BY <2>8 DEF ReleaseSlot, Answers, Idle
    <2>9. CASE LookUp(t)
      BY <2>9 DEF LookUp, Answers, Idle
    <2>10. CASE TakeLock(t)
      BY <2>10 DEF TakeLock, Answers, Idle
    <2>11. CASE Destroy(t)
      BY <2>11 DEF Destroy
    <2>12. CASE DestroyFails(t)
      BY <2>12 DEF DestroyFails, Answers, Idle, Event
    <2>13. CASE Pop(t)
      BY <2>13 DEF Pop
    <2>14. CASE Unreserve(t)
      BY <2>14 DEF Unreserve, Answers, Idle
    <2>. QED
      BY <2>1, <2>2, <2>3, <2>4, <2>5, <2>6, <2>7, <2>8, <2>9, <2>10, <2>11, <2>12, <2>13,
           <2>14 DEF Allocate, Close
  <1>. QED  BY <1>1, EvaluatesKept

\* a handler loses no container and no lease, except to the history variables
LEMMA AccountedThread ==
    ASSUME PoolInv, Accounted, NEW t \in Threads, Allocate(t) \/ Close(t)
    PROVE  Accounted'
  <1>. DEFINE Making(i) == \E s \in Threads : At(s, "creating") /\ thread[s].id = i
              Known(i) == \E s \in Threads : Knows(s) /\ thread[s].id = i
  <1>1. UNCHANGED rollout /\ \A s \in Threads \ {t} : thread'[s] = thread[s]
    BY DEF Allocate, Close, Enter, ReserveSlot, LimitReached, PickNode, NoNode, InsertLease,
         CreateFails,
           ReleaseSlot, LookUp, TakeLock, Destroy, DestroyFails, Pop, Unreserve, Goes, Answers, PoolInv, TypeOK
  <1>2. ASSUME \A i \in Ids : box'[i] # "none" =>
                   \/ i \in Leases' \union late' \/ Making(i)'
                   \/ box[i] # "none" /\ i \notin Leases \union late /\ (At(t, "creating") => thread[t].id # i),
               \A i \in Leases' : Known(i)' \/ i \in orphaned' \/ (i \in Leases /\ (Knows(t) => thread[t].id # i)),
               orphaned \subseteq orphaned'
        PROVE  Accounted'
    <2>1. ASSUME NEW i \in Ids, box'[i] # "none"
          PROVE  i \in Leases' \union late' \/ Making(i)'
      <3>1. CASE box[i] # "none" /\ i \notin Leases \union late /\ (At(t, "creating") => thread[t].id # i)
        <4>1. PICK s \in Threads : At(s, "creating") /\ thread[s].id = i
          BY <3>1 DEF Accounted
        <4>2. thread'[s] = thread[s]
          BY <1>1, <3>1, <4>1
        <4>. QED  BY <4>1, <4>2 DEF At
      <3>. QED  BY <1>2, <2>1, <3>1
    <2>2. ASSUME NEW i \in Leases'
          PROVE  i \in orphaned' \union Replacements' \/ (\E r \in Rollouts : i \in Held(r)') \/ Known(i)'
      <3>1. CASE i \in Leases /\ (Knows(t) => thread[t].id # i)
        <4>1. ASSUME NEW s \in Threads, Knows(s), thread[s].id = i
              PROVE  Known(i)'
          <5>1. thread'[s] = thread[s]
            BY <1>1, <3>1, <4>1
          <5>. QED  BY <4>1, <5>1 DEF Knows
        <4>2. Replacements' = Replacements /\ \A r \in Rollouts : Held(r)' = Held(r)
          BY <1>1 DEF Replacements, Held
        <4>. QED  BY <1>2, <3>1, <4>1, <4>2 DEF Accounted
      <3>. QED  BY <1>2, <2>2, <3>1
    <2>. HIDE DEF Making, Known
    <2>3. \A i \in Ids : box'[i] # "none" => i \in Leases' \union late' \/ Making(i)'
      BY <2>1
    <2>4. \A i \in Leases' :
             i \in orphaned' \union Replacements' \/ (\E r \in Rollouts : i \in Held(r)') \/ Known(i)'
      BY <2>2
    <2>. QED  BY <2>3, <2>4 DEF Accounted, Making, Known
  <1>. USE BoundsAssumption DEF PoolInv, TypeOK, ThreadRecords, At, Goes, poolVars, nodeVars, Leases
  <1>. HIDE DEF Making, Known
  <1>3. /\ \A i \in Ids : box'[i] # "none" =>
               \/ i \in Leases' \union late' \/ Making(i)'
               \/ box[i] # "none" /\ i \notin Leases \union late /\ (At(t, "creating") => thread[t].id # i)
        /\ \A i \in Leases' : Known(i)' \/ i \in orphaned' \/ (i \in Leases /\ (Knows(t) => thread[t].id # i))
        /\ orphaned \subseteq orphaned'
    <2>1. CASE Enter(t)
      BY <2>1 DEF Enter, Knows
    <2>2. CASE ReserveSlot(t)
      BY <2>2 DEF ReserveSlot, Knows
    <2>3. CASE LimitReached(t)
      BY <2>3 DEF LimitReached, Answers, Idle, Knows
    <2>4. CASE PickNode(t)
      <3>1. PICK i \in Free, n \in Nodes :
                /\ box' = [box EXCEPT ![i] = "making"] /\ UNCHANGED <<lease, late, orphaned>>
                /\ thread' = [thread EXCEPT ![t].stage = "creating", ![t].id = i, ![t].node = n]
                /\ At(t, "reserved")
        BY <2>4, Picks DEF PickNode, Candidates
      <3>2. i \in Ids /\ Making(i)'
        BY <3>1, FreeIsNew DEF Making
      <3>3. ~Knows(t)
        BY <3>1 DEF Knows
      <3>. QED  BY <3>1, <3>2, <3>3
    <2>5. CASE NoNode(t)
      BY <2>5 DEF NoNode, Knows
    <2>6. CASE InsertLease(t)
      <3>1. /\ At(t, "creating") /\ thread[t].node \in Nodes /\ thread[t].id \in Ids
            /\ thread[t].op = "allocate"
        BY <2>6 DEF InsertLease, Staged, CloseStages
      <3>2. \A i : thread[t].id = i => Known(i)'
        BY <2>6, <3>1 DEF InsertLease, Known, Knows
      <3>. QED  BY <2>6, <3>1, <3>2 DEF InsertLease
    <2>7. CASE CreateFails(t)
      <3>1. thread[t].id \in Ids \ Leases
        BY <2>7 DEF CreateFails, Staged
      <3>. QED  BY <2>7, <3>1 DEF CreateFails
    <2>8. CASE ReleaseSlot(t)
      <3>1. CASE At(t, "leased") /\ thread[t].by # Nobody
        <4>1. thread[t].op = "allocate"
          BY <3>1 DEF Staged, CloseStages
        <4>2. thread' = [thread EXCEPT ![t].stage = "ok"] /\ UNCHANGED <<lease, box, late, orphaned>>
          BY <2>8, <3>1 DEF ReleaseSlot, Answers
        <4>3. \A i : thread[t].id = i => Known(i)'
          BY <4>1, <4>2 DEF Known, Knows
        <4>. QED  BY <3>1, <4>2, <4>3
      <3>2. CASE At(t, "leased") /\ thread[t].by = Nobody
        BY <2>8, <3>2 DEF ReleaseSlot
      <3>3. CASE At(t, "givingUp")
        BY <2>8, <3>3 DEF ReleaseSlot, Knows
      <3>. QED  BY <2>8, <3>1, <3>2, <3>3 DEF ReleaseSlot
    <2>9. CASE LookUp(t)
      BY <2>9 DEF LookUp, Answers, Idle, Knows
    <2>10. CASE TakeLock(t)
      BY <2>10 DEF TakeLock, Answers, Idle, Knows
    <2>11. CASE Destroy(t)
      BY <2>11 DEF Destroy, Knows
    <2>12. CASE DestroyFails(t)
      BY <2>12 DEF DestroyFails, Answers, Idle, Event, Knows
    <2>13. CASE Pop(t)
      <3>1. box[thread[t].id] = "none" /\ ~Knows(t)
        BY <2>13 DEF Pop, Staged, Knows
      <3>. QED  BY <2>13, <3>1 DEF Pop
    <2>14. CASE Unreserve(t)
      BY <2>14 DEF Unreserve, Answers, Idle, Knows
    <2>. QED
      BY <2>1, <2>2, <2>3, <2>4, <2>5, <2>6, <2>7, <2>8, <2>9, <2>10, <2>11, <2>12, <2>13,
           <2>14 DEF Allocate, Close
  <1>. QED  BY <1>2, <1>3
-----------------------------------------------------------------------------
\* the numbers a rollout answers for
KeptOf(o) == {o.agent, o.eval} \union (IF o.again THEN {o.mine} ELSE {})

\* a rollout that hears of success answers for what it answered for, and for what it was
\* given, but no more for what was closed
LEMMA SucceededKeeps ==
    ASSUME NEW r \in Rollouts, rollout[r] \in RolloutRecords, NEW i \in Ids \union {0}, Fits(rollout[r]),
           rollout[r].at \in Allocating \union Closing
    PROVE  LET o == rollout[r]
               p == Fresh(Succeeded(o, i))
           IN  /\ Fits(p)
               /\ o.at \in Allocating => KeptOf(o) \union {i} \subseteq KeptOf(p) \union {0}
               /\ o.at \in Closing => KeptOf(o) \subseteq KeptOf(p) \union {0, ToClose(r)}
               /\ p.at = "evaluating" => o.at = "evalAllocating" /\ p.eval = i /\ p.agent = o.agent /\ p.mine = o.mine
  <1>. USE DEF RolloutRecords, Fits, KeptOf, Fresh, Allocating, Closing, Ended
  <1>1. CASE rollout[r].at = "allocating"
    BY <1>1, ZenonT(90) DEF Succeeded
  <1>2. CASE rollout[r].at = "closingOld"
    BY <1>2 DEF Succeeded, ToClose
  <1>3. CASE rollout[r].at = "replacing"
    BY <1>3 DEF Succeeded
  <1>4. CASE rollout[r].at = "closing"
    BY <1>4 DEF Succeeded, ToClose
  <1>5. CASE rollout[r].at = "evalAllocating"
    BY <1>5, ZenonT(90) DEF Succeeded
  <1>6. CASE rollout[r].at = "evalClosing"
    BY <1>6 DEF Succeeded, ToClose
  <1>7. CASE rollout[r].at = "lastClosing"
    BY <1>7 DEF Succeeded, ToClose
  <1>. QED  BY <1>1, <1>2, <1>3, <1>4, <1>5, <1>6, <1>7

\* a rollout that gives up an operation answers for what it answered for, except for what
\* it gave up closing in its last place
LEMMA FailedKeeps ==
    ASSUME NEW r \in Rollouts, rollout[r] \in RolloutRecords, Fits(rollout[r]),
           rollout[r].at \in Allocating \union Closing
    PROVE  LET o == rollout[r]
               p == Fresh(Failed(o))
           IN  /\ Fits(p)
               /\ KeptOf(o) \subseteq KeptOf(p) \union {0}
                                      \union (IF o.at \in {"evalClosing", "lastClosing"} THEN {ToClose(r)} ELSE {})
               /\ p.at # "evaluating"
  <1>. USE DEF RolloutRecords, Fits, KeptOf, Fresh, Allocating, Closing, Ended
  <1>1. CASE rollout[r].at = "allocating"
    BY <1>1 DEF Failed
  <1>2. CASE rollout[r].at = "closingOld"
    BY <1>2 DEF Failed
  <1>3. CASE rollout[r].at = "replacing"
    BY <1>3 DEF Failed
  <1>4. CASE rollout[r].at = "closing"
    BY <1>4 DEF Failed
  <1>5. CASE rollout[r].at = "evalAllocating"
    BY <1>5 DEF Failed
  <1>6. CASE rollout[r].at = "evalClosing"
    BY <1>6 DEF Failed, ToClose
  <1>7. CASE rollout[r].at = "lastClosing"
    BY <1>7 DEF Failed, ToClose
  <1>. QED  BY <1>1, <1>2, <1>3, <1>4, <1>5, <1>6, <1>7

\* r goes on and answers for what it answered for, or nobody needs to
LEMMA OwnKept ==
    ASSUME PoolInv, OwnInv, NEW r \in Rollouts, UNCHANGED <<lease, box, late>>, orphaned \subseteq orphaned',
           \A q \in Rollouts \ {r} : rollout'[q] = rollout[q],
           Fits(rollout'[r]),
           KeptOf(rollout[r]) \cap Leases \subseteq KeptOf(rollout'[r]) \union orphaned',
           \A i \in Numbers(rollout'[r]) :
               i \in Numbers(rollout[r]) \union {0} \/ \E s \in Threads : thread[s].id = i,
           \A s \in Threads : At(s, "creating") => At(s, "creating")' /\ thread'[s].id = thread[s].id,
           \A s \in Threads : Knows(s) => \/ Knows(s)' /\ thread'[s].id = thread[s].id
                                          \/ thread[s].id \in KeptOf(rollout'[r]) \union orphaned',
           \A s \in Threads : thread'[s].id \in {0, thread[s].id} \union Numbers(rollout[r]),
           rollout[r].at # "evaluating",
           \/ rollout'[r].at # "evaluating"
           \/ \E t \in Threads : /\ At(t, "ok") /\ Knows(t) /\ rollout'[r].eval = thread[t].id
                                 /\ thread'[t].id = 0
                                 /\ rollout'[r].agent = rollout[r].agent /\ rollout'[r].mine = rollout[r].mine
    PROVE  OwnInv'
  <1>1. Holds'
    BY DEF OwnInv, Holds
  <1>2. Leases' = Leases
    BY DEF Leases
  <1>3. ASSUME NEW i \in Leases
        PROVE  \/ i \in orphaned' \union Replacements'
               \/ \E q \in Rollouts : i \in Held(q)'
               \/ \E s \in Threads : Knows(s)' /\ thread'[s].id = i
    <2>1. \A q \in Rollouts : i \in KeptOf(rollout'[q]) => i \in Replacements' \/ i \in Held(q)'
      BY DEF KeptOf, Replacements, Held
    <2>2. CASE i \in orphaned
      BY <2>2
    <2>3. CASE \E q \in Rollouts : i \in KeptOf(rollout[q])
      BY <2>1, <2>3
    <2>4. CASE \E s \in Threads : Knows(s) /\ thread[s].id = i
      BY <2>1, <2>4
    <2>. QED  BY <2>2, <2>3, <2>4 DEF OwnInv, Accounted, KeptOf, Replacements, Held
  <1>4. Accounted'
    <2>1. ASSUME NEW i \in Ids, box'[i] # "none"
          PROVE  i \in Leases' \union late' \/ \E s \in Threads : At(s, "creating")' /\ thread'[s].id = i
      BY <1>2, <2>1 DEF OwnInv, Accounted
    <2>. QED  BY <1>2, <1>3, <2>1 DEF Accounted
  <1>5. ASSUME NEW q \in Rollouts, rollout'[q].at = "evaluating"
        PROVE  /\ rollout'[q].eval \in Leases' /\ box'[rollout'[q].eval] = "up"
               /\ \A s \in Threads : thread'[s].id # rollout'[q].eval
               /\ \A p \in Rollouts : /\ rollout'[q].eval \notin {rollout'[p].agent, rollout'[p].mine}
                                      /\ p # q => rollout'[p].eval # rollout'[q].eval
    <2>0. 0 \notin Leases
      BY BoundsAssumption DEF Leases
    <2>1. CASE q # r
      <3>1. /\ rollout'[q] = rollout[q] /\ rollout[q].eval \in Leases /\ box[rollout[q].eval] = "up"
            /\ \A s \in Threads : thread[s].id # rollout[q].eval
            /\ rollout[q].eval # 0
        BY <1>5, <2>0, <2>1 DEF OwnInv, EvaluatesAlone
      <3>2. rollout[q].eval \notin Numbers(rollout[r])
        BY <1>5, <2>1, <3>1 DEF OwnInv, EvaluatesAlone, Numbers
      <3>3. rollout[q].eval \notin Numbers(rollout'[r])
        BY <3>1, <3>2
      <3>4. \A p \in Rollouts : /\ rollout'[q].eval \notin {rollout'[p].agent, rollout'[p].mine}
                                /\ p # q => rollout'[p].eval # rollout'[q].eval
        BY <1>5, <3>1, <3>3, SMTT(30) DEF OwnInv, EvaluatesAlone, Numbers
      <3>5. \A s \in Threads : thread'[s].id # rollout'[q].eval
        BY <3>1, <3>2
      <3>. QED  BY <1>2, <3>1, <3>4, <3>5
    <2>2. CASE q = r
      <3>1. PICK t \in Threads : /\ At(t, "ok") /\ Knows(t) /\ rollout'[r].eval = thread[t].id
                                 /\ thread'[t].id = 0
                                 /\ rollout'[r].agent = rollout[r].agent /\ rollout'[r].mine = rollout[r].mine
        BY <1>5, <2>2
      <3>2. thread[t].id \in Leases /\ box[thread[t].id] = "up" /\ thread[t].id # 0
        BY <2>0, <3>1 DEF PoolInv, Staged, At
      <3>3. /\ \A s \in Threads \ {t} : thread[s].id # thread[t].id
            /\ \A p \in Rollouts : thread[t].id \notin Numbers(rollout[p])
        BY <3>1, SMTT(30) DEF PoolInv, Secret, Held, Numbers
      <3>4. \A s \in Threads : thread'[s].id # thread[t].id
        BY <3>1, <3>2, <3>3
      <3>5. \A p \in Rollouts : /\ thread[t].id \notin {rollout'[p].agent, rollout'[p].mine}
                                /\ p # r => rollout'[p].eval # thread[t].id
        BY <3>1, <3>3, SMTT(30) DEF Numbers
      <3>. QED  BY <1>2, <2>2, <3>1, <3>2, <3>4, <3>5
    <2>. QED  BY <2>1, <2>2
  <1>6. EvaluatesAlone'
    BY <1>5 DEF EvaluatesAlone
  <1>. QED  BY <1>1, <1>4, <1>6 DEF OwnInv
-----------------------------------------------------------------------------
\* a node, and the thread that probes it, take nobody's container away
LEMMA NodeOwn ==
    ASSUME PoolInv, OwnInv,
           \/ \E i \in Ids : NodeAnswers(i)
           \/ \E n \in Nodes : ProbeSucceeds(n) \/ ProbeFails(n)
           \/ UNCHANGED vars
    PROVE  OwnInv'
  <1>. USE DEF OwnInv, Holds, Accounted, EvaluatesAlone, At, Knows, Held, Replacements, Leases,
               poolVars, nodeVars, healthVars, vars
  <1>1. ASSUME NEW i \in Ids, NodeAnswers(i) PROVE OwnInv'
    <2>1. /\ UNCHANGED <<thread, lease, orphaned, rollout>>
          /\ box[i] = "making" /\ \A j \in Ids \ {i} : box'[j] = box[j]
          /\ late \ {i} \subseteq late' /\ (box'[i] = "none" \/ late' = late)
      BY <1>1 DEF NodeAnswers, PoolInv, TypeOK
    <2>2. Accounted' /\ Holds'
      BY <2>1
    <2>3. EvaluatesAlone'
      BY <2>1
    <2>. QED  BY <2>2, <2>3
  <1>2. ASSUME UNCHANGED <<thread, lease, nodeVars, orphaned, rollout>> PROVE OwnInv'
    BY <1>2
  <1>. QED  BY <1>1, <1>2 DEF ProbeSucceeds, ProbeFails

\* a step of a rollout that makes no call keeps what it answers for
LEMMA RolloutStepOwn ==
    ASSUME PoolInv, OwnInv, NEW r \in Rollouts, Starts(r) \/ RolloutStep(r)
    PROVE  OwnInv'
  <1>1. /\ UNCHANGED <<thread, poolVars, nodeVars, orphaned>>
        /\ \/ Moves(r, "start", "allocating")
           \/ Moves(r, "working", "closingOld") /\ ~rollout[r].again
           \/ Moves(r, "working", "closing") \/ Moves(r, "working", "lastClosing")
           \/ Moves(r, "evalWaiting", "evalAllocating") \/ Moves(r, "evaluating", "evalClosing")
    BY DEF Starts, RolloutStep, RestartFromBase, AgentEnds, TakeEvalSlot
  <1>2. /\ rollout[r] \in RolloutRecords
        /\ \A q \in Rollouts \ {r} : rollout'[q] = rollout[q]
        /\ \E a \in Places : rollout'[r] = [rollout[r] EXCEPT !.at = a]
    BY <1>1 DEF Moves, PoolInv, TypeOK, Places, Allocating, Closing
  <1>3. Fits(rollout'[r])
    BY <1>1, <1>2 DEF OwnInv, Holds, Fits, Moves, RolloutRecords, PoolInv, TypeOK
  <1>4. KeptOf(rollout'[r]) = KeptOf(rollout[r]) /\ Numbers(rollout'[r]) = Numbers(rollout[r])
    BY <1>2 DEF KeptOf, Numbers, RolloutRecords
  <1>5. rollout'[r].at # "evaluating"
    BY <1>1 DEF Moves, PoolInv, TypeOK, RolloutRecords
  <1>6. CASE rollout[r].at # "evaluating"
    <2>1. \A s \in Threads : (At(s, "creating")' <=> At(s, "creating")) /\ (Knows(s)' <=> Knows(s))
      BY <1>1 DEF At, Knows
    <2>2. UNCHANGED <<thread, lease, box, late, orphaned>>
      BY <1>1 DEF poolVars, nodeVars
    <2>. QED  BY <1>2, <1>3, <1>4, <1>5, <1>6, <2>1, <2>2, OwnKept
  <1>7. CASE rollout[r].at = "evaluating"
    <2>1. /\ UNCHANGED <<thread, lease, box, late, orphaned>>
          /\ \A q \in Rollouts : /\ rollout'[q].agent = rollout[q].agent /\ rollout'[q].mine = rollout[q].mine
                                 /\ rollout'[q].eval = rollout[q].eval /\ rollout'[q].again = rollout[q].again
                                 /\ rollout'[q].at = "evaluating" => rollout[q].at = "evaluating"
      BY <1>1, <1>2, <1>5 DEF RolloutRecords, poolVars, nodeVars
    <2>2. Accounted'
      <3>1. Replacements' = Replacements
        BY <2>1 DEF Replacements
      <3>. QED  BY <2>1, <3>1 DEF OwnInv, Accounted, At, Knows, Held, Leases
    <2>3. EvaluatesAlone'
      BY <2>1 DEF OwnInv, EvaluatesAlone, Leases
    <2>4. Holds'
      BY <1>2, <1>3 DEF OwnInv, Holds
    <2>. QED  BY <2>2, <2>3, <2>4 DEF OwnInv
  <1>. QED  BY <1>6, <1>7

\* so does a call it sends
LEMMA SendOwn ==
    ASSUME PoolInv, OwnInv, NEW r \in Rollouts, Send(r)
    PROVE  OwnInv'
  <1>1. /\ rollout[r].at \in Allocating \union Closing
        /\ rollout' = [rollout EXCEPT ![r].tries = @ + 1]
        /\ UNCHANGED <<lease, box, late, orphaned>>
    BY DEF Send, poolVars, nodeVars
  <1>2. PICK t \in Threads : /\ At(t, "idle")
                             /\ \A s \in Threads \ {t} : thread'[s] = thread[s]
                             /\ thread'[t].stage \in {"queued", "asked"}
                             /\ thread'[t].id \in {0, ToClose(r)}
    BY DEF Send, PoolInv, TypeOK, Idle
  <1>3. /\ \A q \in Rollouts \ {r} : rollout'[q] = rollout[q]
        /\ rollout'[r].at = rollout[r].at /\ rollout'[r].agent = rollout[r].agent
        /\ rollout'[r].mine = rollout[r].mine /\ rollout'[r].eval = rollout[r].eval
        /\ rollout'[r].again = rollout[r].again
    BY <1>1 DEF PoolInv, TypeOK, RolloutRecords
  <1>4. Fits(rollout'[r]) /\ KeptOf(rollout'[r]) = KeptOf(rollout[r]) /\ Numbers(rollout'[r]) = Numbers(rollout[r])
    BY <1>3 DEF OwnInv, Holds, Fits, KeptOf, Numbers
  <1>5. \A s \in Threads : /\ At(s, "creating") => At(s, "creating")' /\ thread'[s].id = thread[s].id
                           /\ Knows(s) => Knows(s)' /\ thread'[s].id = thread[s].id
    BY <1>2 DEF At, Knows
  <1>6. \A s \in Threads : thread'[s].id \in {0, thread[s].id} \union Numbers(rollout[r])
    BY <1>2 DEF ToClose, Numbers
  <1>7. rollout[r].at # "evaluating" /\ rollout'[r].at # "evaluating"
    BY <1>1, <1>3 DEF Allocating, Closing
  <1>. QED  BY <1>1, <1>3, <1>4, <1>5, <1>6, <1>7, OwnKept

\* the caller of t hears nothing, and goes on as if it had heard of a failure
LEMMA ReleasedOwn ==
    ASSUME PoolInv, OwnInv, NEW r \in Rollouts, NEW t \in Threads, Released(t),
           rollout[r].at \in Allocating \union Closing,
           UNCHANGED <<lease, box, late>>, orphaned \union AnswerLost(t) \subseteq orphaned',
           \A q \in Rollouts \ {r} : rollout'[q] = rollout[q],
           Fits(rollout'[r]), rollout'[r].at # "evaluating",
           Numbers(rollout'[r]) \subseteq Numbers(rollout[r]) \union {0},
           KeptOf(rollout[r]) \cap Leases \subseteq KeptOf(rollout'[r]) \union orphaned'
    PROVE  OwnInv'
  <1>1. ASSUME NEW s \in Threads
        PROVE  /\ At(s, "creating") => At(s, "creating")' /\ thread'[s].id = thread[s].id
               /\ Knows(s) => (Knows(s)' /\ thread'[s].id = thread[s].id) \/ thread[s].id \in orphaned'
               /\ thread'[s].id \in {0, thread[s].id}
    <2>1. CASE s = t
      BY <2>1 DEF Released, PoolInv, TypeOK, ThreadRecords, At, Knows, Idle, AnswerLost
    <2>2. CASE s # t
      BY <2>2 DEF Released, At, Knows
    <2>. QED  BY <2>1, <2>2
  <1>2. rollout[r].at # "evaluating"
    BY DEF Allocating, Closing
  <1>. QED  BY <1>1, <1>2, OwnKept

\* so does an attempt that failed, up to what is given up
LEMMA AttemptFailsKeeps ==
    ASSUME PoolInv, OwnInv, NEW r \in Rollouts, AttemptFails(r), rollout[r].at \in Allocating \union Closing
    PROVE  /\ \A q \in Rollouts \ {r} : rollout'[q] = rollout[q]
           /\ Fits(rollout'[r]) /\ rollout'[r].at # "evaluating"
           /\ KeptOf(rollout[r]) \cap Leases \subseteq KeptOf(rollout'[r]) \union GivenUp(r)
  <1>1. rollout[r] \in RolloutRecords /\ Fits(rollout[r]) /\ 0 \notin Leases
    BY BoundsAssumption DEF PoolInv, OwnInv, Holds, TypeOK, Leases
  <1>2. \A q \in Rollouts \ {r} : rollout'[q] = rollout[q]
    BY DEF AttemptFails, PoolInv, TypeOK
  <1>3. CASE rollout[r].tries < Tries
    BY <1>1, <1>2, <1>3 DEF AttemptFails, PoolInv, TypeOK, Allocating, Closing
  <1>4. CASE ~(rollout[r].tries < Tries)
    <2>1. rollout'[r] = Fresh(Failed(rollout[r])) /\ rollout[r].tries = Tries
      <3>1. rollout[r].tries \in 0..Tries
        BY <1>1 DEF RolloutRecords
      <3>2. rollout[r].tries = Tries
        BY <1>4, <3>1, BoundsAssumption
      <3>3. rollout'[r] = Fresh(Failed(rollout[r]))
        BY <1>4 DEF AttemptFails, PoolInv, TypeOK
      <3>. QED  BY <3>2, <3>3
    <2>. QED  BY <1>1, <1>2, <2>1, FailedKeeps DEF GivenUp
  <1>. QED  BY <1>3, <1>4

\* so does an answer that is heard: the number changes hands
LEMMA HearsOwn ==
    ASSUME PoolInv, OwnInv, NEW r \in Rollouts, NEW t \in Threads, Hears(r, t)
    PROVE  OwnInv'
  <1>0. /\ Waits(r, t) /\ thread[t].stage \in {"ok", "failed"}
        /\ thread' = [thread EXCEPT ![t] = Idle]
        /\ UNCHANGED <<lease, active, pending, permits, box, late>>
    BY DEF Hears, poolVars, nodeVars
  <1>1. /\ rollout[r].at \in Allocating \union Closing
        /\ thread[t].op = IF rollout[r].at \in Allocating THEN "allocate" ELSE "close"
        /\ rollout[r].at \in Closing => thread[t].op = "close" /\ thread[t].id = ToClose(r)
    BY <1>0 DEF PoolInv, Awaited, Allocating, Closing
  <1>2. Released(t) /\ thread'[t] = Idle
    BY <1>0 DEF PoolInv, TypeOK, ThreadRecords, Stages, SlotStages, Released, Idle
  <1>3. CASE At(t, "ok")
    <2>1. PICK i \in Ids \union {0} : i = thread[t].id
      BY DEF PoolInv, TypeOK, ThreadRecords
    <2>2. /\ rollout'[r] = Fresh(Succeeded(rollout[r], i)) /\ orphaned' = orphaned
          /\ \A q \in Rollouts \ {r} : rollout'[q] = rollout[q]
      BY <1>3, <2>1 DEF Hears, PoolInv, TypeOK
    <2>3. rollout[r] \in RolloutRecords /\ Fits(rollout[r]) /\ 0 \notin Leases
      BY BoundsAssumption DEF PoolInv, OwnInv, Holds, TypeOK, Leases
    <2>4. /\ Fits(rollout'[r])
          /\ rollout[r].at \in Allocating => KeptOf(rollout[r]) \union {i} \subseteq KeptOf(rollout'[r]) \union {0}
          /\ rollout[r].at \in Closing => KeptOf(rollout[r]) \subseteq KeptOf(rollout'[r]) \union {0, ToClose(r)}
          /\ rollout'[r].at = "evaluating" =>
                /\ rollout[r].at = "evalAllocating" /\ rollout'[r].eval = i
                /\ rollout'[r].agent = rollout[r].agent /\ rollout'[r].mine = rollout[r].mine
      BY <1>1, <2>2, <2>3, SucceededKeeps
    <2>5. rollout[r].at \in Closing => ToClose(r) \notin Leases
      BY <1>1, <1>3 DEF PoolInv, Staged, At
    <2>6. thread[t].op = "allocate" => Knows(t) /\ i \in Leases
      BY <1>3, <2>1 DEF PoolInv, Staged, At, Knows
    <2>7. KeptOf(rollout[r]) \cap Leases \subseteq KeptOf(rollout'[r]) \union orphaned'
      BY <1>1, <2>3, <2>4, <2>5
    <2>8. ASSUME NEW s \in Threads
          PROVE  /\ At(s, "creating") => At(s, "creating")' /\ thread'[s].id = thread[s].id
                 /\ Knows(s) => \/ Knows(s)' /\ thread'[s].id = thread[s].id
                                \/ thread[s].id \in KeptOf(rollout'[r]) \union orphaned'
                 /\ thread'[s].id \in {0, thread[s].id} \union Numbers(rollout[r])
      <3>1. CASE s = t
        <4>1. Knows(t) => rollout[r].at \in Allocating
          BY <1>1 DEF Knows
        <4>2. Knows(t) => i \in KeptOf(rollout'[r])
          BY <2>3, <2>4, <2>6, <4>1 DEF Knows
        <4>. QED  BY <1>2, <1>3, <2>1, <3>1, <4>2 DEF At, Idle
      <3>2. CASE s # t
        BY <1>2, <3>2 DEF Released, At, Knows
      <3>. QED  BY <3>1, <3>2
    <2>9. \A j \in Numbers(rollout'[r]) : j \in Numbers(rollout[r]) \union {0} \/ \E s \in Threads : thread[s].id = j
      <3>1. Numbers(Fresh(Succeeded(rollout[r], i))) \subseteq Numbers(rollout[r]) \union {i, 0}
        BY <2>3, RolloutTypes
      <3>. QED  BY <2>1, <2>2, <3>1
    <2>10. \/ rollout'[r].at # "evaluating"
           \/ \E s \in Threads : /\ At(s, "ok") /\ Knows(s) /\ rollout'[r].eval = thread[s].id
                                 /\ thread'[s].id = 0
                                 /\ rollout'[r].agent = rollout[r].agent /\ rollout'[r].mine = rollout[r].mine
      <3>1. CASE rollout'[r].at = "evaluating"
        <4>1. Knows(t)
          BY <1>1, <2>4, <2>6, <3>1 DEF Allocating
        <4>2. thread'[t].id = 0
          BY <1>2 DEF Idle
        <4>. QED  BY <1>3, <2>1, <2>4, <3>1, <4>1, <4>2
      <3>. QED  BY <3>1
    <2>11. rollout[r].at # "evaluating"
      BY <1>1 DEF Allocating, Closing
    <2>12. UNCHANGED <<lease, box, late>> /\ orphaned \subseteq orphaned'
      BY <1>0, <2>2
    <2>. QED  BY <2>2, <2>4, <2>7, <2>8, <2>9, <2>10, <2>11, <2>12, OwnKept
  <1>4. CASE ~At(t, "ok")
    <2>1. AttemptFails(r) /\ orphaned' = orphaned \union GivenUp(r) /\ UNCHANGED <<poolVars, nodeVars>>
      BY <1>4 DEF Hears
    <2>2. Numbers(rollout'[r]) \subseteq Numbers(rollout[r]) \union {0}
      BY <2>1, AttemptFailsGoesOn
    <2>3. AnswerLost(t) = {}
      BY <1>4 DEF AnswerLost
    <2>4. UNCHANGED <<lease, box, late>>
      BY <1>0
    <2>. QED  BY <1>1, <1>2, <2>1, <2>2, <2>3, <2>4, AttemptFailsKeeps, ReleasedOwn
  <1>. QED  BY <1>3, <1>4

\* so does a call without an answer: the number of a lease is lost only with the answer
LEMMA UnansweredOwn ==
    ASSUME PoolInv, OwnInv, NEW r \in Rollouts, NEW t \in Threads, Unanswered(r, t)
    PROVE  OwnInv'
  <1>1. /\ Waits(r, t) /\ Abandoned(t) /\ AttemptFails(r)
        /\ orphaned' = orphaned \union GivenUp(r) \union AnswerLost(t)
        /\ UNCHANGED <<poolVars, nodeVars>>
    BY DEF Unanswered
  <1>2. Released(t) /\ rollout[r].at \in Allocating \union Closing
    BY <1>1, AbandonedReleases DEF PoolInv, Awaited
  <1>3. Numbers(rollout'[r]) \subseteq Numbers(rollout[r]) \union {0}
    BY <1>1, AttemptFailsGoesOn
  <1>4. UNCHANGED <<lease, box, late>>
    BY <1>1 DEF poolVars, nodeVars
  <1>. QED  BY <1>1, <1>2, <1>3, <1>4, AttemptFailsKeeps, ReleasedOwn

\* so does the end of the agent's time
LEMMA CutShortOwn ==
    ASSUME PoolInv, OwnInv, NEW r \in Rollouts, CutShort(r)
    PROVE  OwnInv'
  <1>1. /\ rollout[r].at \in {"closingOld", "replacing"}
        /\ rollout' = [rollout EXCEPT ![r].at = "lastClosing", ![r].tries = 0]
        /\ UNCHANGED <<lease, box, late>>
    BY DEF CutShort, poolVars, nodeVars
  <1>2. /\ \A q \in Rollouts \ {r} : rollout'[q] = rollout[q]
        /\ rollout'[r].at = "lastClosing" /\ rollout'[r].agent = rollout[r].agent
        /\ rollout'[r].mine = rollout[r].mine /\ rollout'[r].eval = rollout[r].eval
        /\ rollout'[r].again = rollout[r].again
    BY <1>1 DEF PoolInv, TypeOK, RolloutRecords
  <1>3. /\ Fits(rollout'[r]) /\ KeptOf(rollout'[r]) = KeptOf(rollout[r])
        /\ Numbers(rollout'[r]) = Numbers(rollout[r]) /\ rollout'[r].at # "evaluating"
    BY <1>1, <1>2 DEF OwnInv, Holds, Fits, KeptOf, Numbers
  <1>4. rollout[r].at \in Allocating \union Closing
    BY <1>1 DEF Allocating, Closing
  <1>5. CASE \E t \in Threads : Waits(r, t)
    <2>1. PICK t \in Threads : Waits(r, t) /\ Abandoned(t) /\ orphaned' = orphaned \union AnswerLost(t)
      BY <1>5 DEF CutShort
    <2>2. Released(t)
      BY <2>1, AbandonedReleases DEF PoolInv
    <2>. QED  BY <1>1, <1>2, <1>3, <1>4, <2>1, <2>2, ReleasedOwn
  <1>6. CASE ~ \E t \in Threads : Waits(r, t)
    <2>1. UNCHANGED <<thread, orphaned>>
      BY <1>6 DEF CutShort
    <2>2. \A s \in Threads : (At(s, "creating")' <=> At(s, "creating")) /\ (Knows(s)' <=> Knows(s))
      BY <2>1 DEF At, Knows
    <2>3. rollout[r].at # "evaluating"
      BY <1>1
    <2>. QED  BY <1>1, <1>2, <1>3, <2>1, <2>2, <2>3, OwnKept
  <1>. QED  BY <1>5, <1>6

\* Every container that is being made or up is somebody's: a lease's, a creation's under way,
\* or one the pool has given up (create_container and close of the pool, and their callers in
\* generate_with_swe_remote.py); the one a rollout evaluates in is its alone.
THEOREM OwnInvAlways == Spec => []OwnInv
  <1>1. Init => OwnInv
    BY BoundsAssumption DEF Init, OwnInv, Accounted, EvaluatesAlone, Holds, Fits, Leases
  <1>2. PoolInv /\ OwnInv /\ [Next]_vars => OwnInv'
    <2>. SUFFICES ASSUME PoolInv, OwnInv, [Next]_vars PROVE OwnInv'
      OBVIOUS
    <2>1. ASSUME NEW t \in Threads, Allocate(t) \/ Close(t) PROVE OwnInv'
      <3>1. UNCHANGED rollout
        BY <2>1 DEF Allocate, Close, Enter, ReserveSlot, LimitReached, PickNode, NoNode,
             InsertLease, CreateFails,
             ReleaseSlot, LookUp, TakeLock, Destroy, DestroyFails, Pop, Unreserve
      <3>. QED  BY <2>1, <3>1, AccountedThread, EvaluatesThread, HoldsSame DEF OwnInv
    <2>2. ASSUME NEW r \in Rollouts, Starts(r) \/ Send(r) \/ RolloutStep(r) \/ CutShort(r) PROVE OwnInv'
      BY <2>2, RolloutStepOwn, SendOwn, CutShortOwn
    <2>3. ASSUME NEW r \in Rollouts, NEW t \in Threads, Hears(r, t) \/ Unanswered(r, t) PROVE OwnInv'
      BY <2>3, HearsOwn, UnansweredOwn
    <2>4. AllEnded => UNCHANGED vars
      BY DEF AllEnded
    <2>. QED  BY <2>1, <2>2, <2>3, <2>4, NodeOwn DEF Next
  <1>. QED  BY <1>1, <1>2, PoolInvAlways, PTL DEF Spec

\* No container is up without a lease, except one whose creation the pool gave up; nobody
\* destroys the one that is evaluated in (_close_lease, _destroy under the lease's lock).
THEOREM ContainersAlwaysLeased == Spec => []ContainersLeased
  <1>1. OwnInv => ContainersLeased
    BY DEF OwnInv, Accounted, EvaluatesAlone, ContainersLeased, Served
  <1>. QED  BY <1>1, OwnInvAlways, PTL

\* No lease is forgotten, except one whose number was lost with an answer or whose closing
\* was given up in the finally block, or one that replaced the first (rollout_leases).
THEOREM LeasesAlwaysOwned == Spec => []LeasesOwned
  <1>1. OwnInv => LeasesOwned
    BY DEF OwnInv, Accounted, LeasesOwned, Served
  <1>. QED  BY <1>1, OwnInvAlways, PTL
=============================================================================
