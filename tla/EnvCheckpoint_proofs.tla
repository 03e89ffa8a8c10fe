------------------------ MODULE EnvCheckpoint_proofs ------------------------
(***************************************************************************)
(* Theorems about EnvCheckpoint: its types, the checkpoint that a rollout  *)
(* would rerun from and the parents of what is in use are never collected, *)
(* no rollout loses its container without hearing of it, and no container  *)
(* is left behind where nothing is late and nobody crashes.                *)
(*                                                                         *)
(* The proofs rest on one order: ids, generations and steps of the records *)
(* of a lease grow together.  A rollout only ever parents on the newest    *)
(* checkpoint that it has heard is ready, so the plan of a collection, which*)
(* protects the newest ready record, the pending ones and their ancestors, *)
(* protects what the rollout knows as well: it is the newest ready record, *)
(* or the parent of every younger one.                                     *)
(***************************************************************************)
EXTENDS EnvCheckpoint, FiniteSetTheorems, WellFoundedInduction, TLAPS
-----------------------------------------------------------------------------
(***************************************************************************)
(* The invariants.                                                         *)
(***************************************************************************)
\* The records of a lease, also the deleted ones.
Known(l) == {i \in Ids : record[i].status # "none" /\ record[i].lease = l}

\* Ids, generations and steps of a lease's records grow together, up to where the
\* lease and its rollout are; a parent is older.
Earlier(r, s) ==
    \/ r.generation < s.generation
    \/ r.generation = s.generation /\ r.step < s.step

NotAhead(i) ==
    LET r == record[i] IN
    \/ r.generation < lease[r.lease].generation
    \/ r.generation = lease[r.lease].generation /\ r.step <= client[r.lease].step

Ordered ==
    /\ \A i \in Ids : record[i].status = "none" <=> i > created
    /\ \A i \in Ids : record[i].parent < i
    /\ \A l \in Leases : \A i, j \in Known(l) : i < j => Earlier(record[i], record[j])
    /\ \A l \in Leases : \A i \in Known(l) : NotAhead(i)

\* Stages of the handlers, and those in which a rerun has a new container in hand.
CreateStages == {"queued", "committed", "ready", "failed"}
Replacing == {"restored", "destroyed", "swapped", "done"}

\* What a handler of a checkpoint, or of a rerun, has in hand.
Creates(j) ==
    /\ j.stage \in CreateStages /\ j.new = NoContainer
    /\ j.id \in Known(j.lease)
    /\ j.stage \in {"queued", "committed"} => record[j.id].status = "pending"
    /\ j.waited /\ j.stage # "failed" => \A i \in Known(j.lease) : i <= j.id

Reruns(j) ==
    /\ j.stage \in {"restoring", "failed"} \union Replacing
    /\ j.container = lease[j.lease].container
    /\ j.stage = "restoring" => j.new = NoContainer
    /\ j.stage \in Replacing => j.new \in running
    /\ j.stage \in {"destroyed", "swapped", "done"} => j.container \notin running
    /\ j.stage \in {"restored", "destroyed"} => j.new \notin tracked
    /\ IF j.waited THEN /\ client[j.lease].latest = j.id
                        /\ lease[j.lease].generation < MaxReruns
       ELSE client[j.lease].restart

HandlerOK(j) ==
    /\ j.container \in used /\ j.new \in used \union {NoContainer}
    /\ j.waited => IsOpen(j.lease)
    /\ j.kind = "create" => Creates(j)
    /\ j.kind = "rerun" => Reruns(j)

HandlersOK == \A j \in jobs : HandlerOK(j)

\* Handlers do not get in each other's way: a lifecycle lock has one holder, a lease one
\* rerun, and a new container is nobody else's.
Apart ==
    /\ \A j, k \in jobs : j.lease = k.lease /\ j.waited /\ k.waited => j = k
    /\ \A j, k \in jobs : j.lease = k.lease /\ j.kind = "rerun" /\ k.kind = "rerun" => j = k
    /\ \A j, k \in jobs : j.kind = "create" /\ k.kind = "create" /\ j.id = k.id => j = k
    /\ \A j \in jobs : j.stage \in Replacing =>
           /\ \A k \in jobs : j.new # k.container /\ (k # j => j.new # k.new)
           /\ \A l \in Leases : j.new # lease[l].container

\* An open lease has a container that no other lease has, or ever had.
LeasesOK ==
    /\ \A l \in Leases : IF lease[l].status = "none" THEN lease[l].container = NoContainer
                         ELSE lease[l].container \in used
    /\ \A l, m \in Leases : l # m /\ lease[l].status # "none" =>
           lease[l].container # lease[m].container

\* Only what is ready or failed is ever on its way to be deleted.
Doomed(i) == record[i].status \in {"ready", "failed", "deleted"}

DeletionsOK ==
    /\ \A t \in tasks : \A i \in t.todo : Doomed(i)
    /\ \A c \in calls : c.stage \in {"checked", "wiped"} => c.id \in Ids /\ Doomed(c.id)

HandlerInv == TypeOK /\ Ordered /\ LeasesOK /\ HandlersOK /\ Apart /\ DeletionsOK

\* A rollout whose container is gone knows, or waits for a rerun.
LossInv ==
    setup.legacy =>
        \A l \in Leases : Working(l) =>
            \/ lease[l].container \in running
            \/ \E j \in jobs : j.lease = l /\ j.kind = "rerun" /\ j.waited

\* What a rollout would rerun from is there, is the parent of all that is younger, and
\* no collection is after it.
Latest(l) == client[l].latest
LatestKept ==
    \A l \in Leases : Latest(l) # 0 =>
        /\ record[Latest(l)].lease = l /\ Restorable(Latest(l))
        /\ \A i \in Known(l) : i > Latest(l) => record[i].parent = Latest(l)
        /\ \A t \in tasks : Latest(l) \notin t.todo

\* So it is with the checkpoint that an answer on its way names.
AnswerKept ==
    \A j \in jobs : j.kind = "create" /\ j.waited =>
        /\ j.stage = "committed" => j.id \in artifact
        /\ j.stage = "ready" => Restorable(j.id) /\ \A t \in tasks : j.id \notin t.todo

\* Parents of what is in use are there, and a collection takes their children with them.
InUse(i) == record[i].status \in {"ready", "pending"}
ParentsKept == \A i \in Ids : InUse(i) /\ record[i].parent # 0 => Restorable(record[i].parent)

ParentsOfLease ==
    \A i \in Ids : record[i].status # "none" /\ record[i].parent # 0 =>
        record[record[i].parent].lease = record[i].lease

ChildrenGo ==
    \A t \in tasks : \A c \in Ids : InUse(c) /\ record[c].parent \in t.todo => c \in t.todo

\* No call deletes a single checkpoint.
Refreshing == \A c \in calls : c.stage \in {"refresh", "listed"}

Kept == LatestKept /\ AnswerKept /\ ParentsKept /\ ParentsOfLease /\ ChildrenGo /\ Refreshing

KeptInv == Careful => Kept

\* Nothing is late and nobody crashes: a container belongs to a lease or is a rerun's new one.
AccountInv ==
    /\ \A j \in jobs : j.waited
    /\ \A c \in running : \/ \E l \in Leases : IsOpen(l) /\ lease[l].container = c
                          \/ \E j \in jobs : j.stage \in Replacing /\ c = j.new
    /\ \A c \in tracked \ running : \E j \in jobs : j.container = c /\ j.stage = "destroyed"

\* The pool waits for every handler, and the server does not crash.
Punctual == ~MayTimeOut /\ ~MayCrash

AccountedInv == Punctual /\ setup.legacy /\ Careful => AccountInv
-----------------------------------------------------------------------------
(***************************************************************************)
(* Numbers, fields and the order of a lease's records.                     *)
(***************************************************************************)
\* A set of numbers that is not empty has a least one.
LEMMA LeastNatural ==
    ASSUME NEW S, S \subseteq Nat, S # {}
    PROVE  \E x \in S : \A y \in S : x <= y
  <1>. DEFINE R == OpToRel(<, Nat)
  <1>1. PICK x \in S : \A y \in S : ~ (<<y, x>> \in R)
    <2>1. IsWellFoundedOn(R, Nat)
      BY NatLessThanWellFounded
    <2>. HIDE DEF R
    <2>. QED  BY <2>1, WFMin, Zenon
  <1>2. ASSUME NEW y \in S PROVE ~(y < x)
    <2>1. <<y, x>> \in Nat \X Nat
      OBVIOUS
    <2>. QED  BY <1>1, <2>1 DEF OpToRel
  <1>. HIDE DEF R
  <1>3. \A y \in S : y \in Nat /\ x \in Nat
    OBVIOUS
  <1>. QED  BY <1>2, <1>3

\* A set of checkpoint ids that is not empty has a greatest one.
LEMMA GreatestId ==
    ASSUME NEW S, S \subseteq Ids, S # {}
    PROVE  \E x \in S : \A y \in S : y <= x
  <1>. DEFINE T == {MaxCheckpoints - x : x \in S}
  <1>1. MaxCheckpoints \in Nat
    BY BoundsAssumption
  <1>2. T \subseteq Nat /\ T # {}
    <2>1. ASSUME NEW x \in S PROVE MaxCheckpoints - x \in Nat
      <3>1. x \in 1..MaxCheckpoints
        BY DEF Ids
      <3>. QED  BY <1>1, <3>1
    <2>. QED  BY <2>1
  <1>3. PICK y \in T : \A z \in T : y <= z
    <2>. HIDE DEF T
    <2>. QED  BY <1>2, LeastNatural
  <1>4. PICK x \in S : y = MaxCheckpoints - x
    OBVIOUS
  <1>5. ASSUME NEW z \in S PROVE z <= x
    <2>1. MaxCheckpoints - z \in T
      OBVIOUS
    <2>2. y <= MaxCheckpoints - z
      BY <1>3, <2>1
    <2>3. x \in Nat /\ z \in Nat
      BY <1>1 DEF Ids
    <2>. QED  BY <1>1, <1>4, <2>2, <2>3
  <1>. QED  BY <1>5

\* The fields of a record.
LEMMA RecordFields ==
    ASSUME TypeOK, NEW i \in Ids
    PROVE  /\ record[i].status \in Statuses /\ record[i].lease \in Leases
           /\ record[i].generation \in Nat /\ record[i].step \in 0..MaxSteps
           /\ record[i].step \in Nat
           /\ record[i].parent \in MaybeId /\ record[i].parent \in Nat /\ i \in Nat
           /\ record[i] \in Records
  <1>1. record[i] \in Records
    BY DEF TypeOK
  <1>2. MaxReruns \in Nat /\ MaxSteps \in Nat /\ MaxCheckpoints \in Nat
    BY BoundsAssumption
  <1>3. (\A x \in MaybeId : x \in Nat) /\ (\A x \in Ids : x \in Nat)
    BY <1>2 DEF MaybeId, Ids
  <1>. QED  BY <1>1, <1>2, <1>3 DEF Records

\* The fields of a lease and of its rollout.
LEMMA LeaseFields ==
    ASSUME TypeOK, NEW l \in Leases
    PROVE  /\ lease[l] \in LeaseRecords /\ client[l] \in Clients
           /\ lease[l].generation \in Nat /\ lease[l].generation <= MaxReruns
           /\ client[l].step \in Nat /\ client[l].step <= MaxSteps
           /\ lease[l].container \in Containers \union {NoContainer}
           /\ lease[l].status \in {"none", "open", "closed"}
           /\ client[l].latest \in MaybeId /\ client[l].faulted \in BOOLEAN /\ client[l].restart \in BOOLEAN
  <1>1. lease[l] \in LeaseRecords /\ client[l] \in Clients
    BY DEF TypeOK
  <1>2. MaxReruns \in Nat /\ MaxSteps \in Nat
    BY BoundsAssumption
  <1>. QED  BY <1>1, <1>2 DEF LeaseRecords, Clients

\* The fields of a handler.
LEMMA JobFields ==
    ASSUME TypeOK, NEW j \in jobs
    PROVE  /\ j \in Jobs /\ j.kind \in {"create", "rerun"} /\ j.id \in Ids /\ j.lease \in Leases
           /\ j.container \in Containers /\ j.new \in Containers \union {NoContainer}
           /\ j.stage \in {"queued", "committed", "ready", "failed",
                  "restoring", "restored", "destroyed", "swapped", "done"}
           /\ j.waited \in BOOLEAN
  BY DEF TypeOK, Jobs

\* What is sorted before by lease is what has the smaller id.
LEMMA SortedById ==
    ASSUME TypeOK, Ordered, NEW l \in Leases, NEW i \in Known(l), NEW j \in Known(l)
    PROVE  SortsBefore(i, j) <=> i < j
  <1>1. i \in Ids /\ j \in Ids
    BY DEF Known
  <1>2. /\ record[i].generation \in Nat /\ record[i].step \in Nat /\ i \in Nat
        /\ record[j].generation \in Nat /\ record[j].step \in Nat /\ j \in Nat
    BY <1>1, RecordFields
  <1>3. CASE i < j
    <2>1. Earlier(record[i], record[j])
      BY <1>3 DEF Ordered
    <2>. QED  BY <1>3, <2>1 DEF SortsBefore, Earlier
  <1>4. CASE j < i
    <2>1. Earlier(record[j], record[i])
      BY <1>4 DEF Ordered
    <2>. QED  BY <1>2, <1>4, <2>1 DEF SortsBefore, Earlier
  <1>5. CASE i = j
    BY <1>2, <1>5 DEF SortsBefore
  <1>. QED  BY <1>2, <1>3, <1>4, <1>5

\* Ready records of a lease are records of it.
LEMMA ReadyKnown ==
    ASSUME NEW l
    PROVE  ReadyOf(l) \subseteq Known(l) /\ Known(l) \subseteq Ids /\ ReadyOf(l) \subseteq Ids
  BY DEF ReadyOf, Known

\* The newest ready record, that a refresh lists, is an id or 0: there is a greatest
\* one, and it sorts after all others.
LEMMA NewestTyped ==
    ASSUME TypeOK, Ordered, NEW l \in Leases
    PROVE  NewestReady(l) \in MaybeId
  <1>1. MaxCheckpoints \in Nat
    BY BoundsAssumption
  <1>2. CASE ReadyOf(l) = {}
    BY <1>1, <1>2 DEF NewestReady, MaybeId
  <1>3. CASE ReadyOf(l) # {}
    <2>1. PICK x \in ReadyOf(l) : \A y \in ReadyOf(l) : y <= x
      BY <1>3, GreatestId, ReadyKnown
    <2>2. ASSUME NEW y \in ReadyOf(l) \ {x} PROVE SortsBefore(y, x)
      <3>1. y <= x /\ y # x /\ x \in Nat /\ y \in Nat
        BY <1>1, <2>1, ReadyKnown DEF Ids
      <3>2. x \in Known(l) /\ y \in Known(l)
        BY ReadyKnown
      <3>. QED  BY <3>1, <3>2, SortedById
    <2>3. (CHOOSE i \in ReadyOf(l) : \A j \in ReadyOf(l) \ {i} : SortsBefore(j, i)) \in ReadyOf(l)
      BY <2>2
    <2>. QED  BY <1>1, <1>3, <2>3, ReadyKnown DEF NewestReady, MaybeId, Ids
  <1>. QED  BY <1>2, <1>3
-----------------------------------------------------------------------------
(***************************************************************************)
(* Types.                                                                  *)
(***************************************************************************)
\* The stages of a job.
Stages == {"queued", "committed", "ready", "failed",
           "restoring", "restored", "destroyed", "swapped", "done"}

\* A handler that goes on is a handler.
LEMMA MovedJob ==
    ASSUME TypeOK, NEW j \in jobs, NEW s \in Stages
    PROVE  /\ [j EXCEPT !.stage = s] \in Jobs
           /\ \A w \in BOOLEAN : [j EXCEPT !.waited = w] \in Jobs
           /\ \A c \in Containers : [j EXCEPT !.stage = s, !.new = c] \in Jobs
  BY JobFields DEF Jobs, Stages

\* So are all handlers after one has gone on.
LEMMA AdvanceTyped ==
    ASSUME TypeOK, NEW j \in jobs, NEW s \in Stages, Advance(j, s)
    PROVE  jobs' \subseteq Jobs
  <1>1. [j EXCEPT !.stage = s] \in Jobs
    BY MovedJob
  <1>. QED  BY <1>1 DEF Advance, TypeOK

\* A record whose status changes is a record.
LEMMA StatusTyped ==
    ASSUME TypeOK, NEW i \in Ids, NEW s \in Statuses
    PROVE  [record EXCEPT ![i].status = s] \in [Ids -> Records]
  <1>1. [record[i] EXCEPT !.status = s] \in Records
    BY RecordFields DEF Records
  <1>. QED  BY <1>1 DEF TypeOK

\* The rollouts' state after each of the assignments that the actions make.
LEMMA ClientTyped ==
    ASSUME TypeOK, NEW l \in Leases, NEW b \in BOOLEAN, NEW i \in MaybeId
    PROVE  /\ [client EXCEPT ![l].restart = b] \in [Leases -> Clients]
           /\ [client EXCEPT ![l].faulted = b] \in [Leases -> Clients]
           /\ [client EXCEPT ![l].latest = i] \in [Leases -> Clients]
           /\ \A s \in 0..MaxSteps : [client EXCEPT ![l].latest = i, ![l].step = s, ![l].faulted = b]
                   \in [Leases -> Clients]
           /\ \A s \in 0..MaxSteps : [client EXCEPT ![l].step = s] \in [Leases -> Clients]
  <1>1. /\ [client[l] EXCEPT !.restart = b] \in Clients
        /\ [client[l] EXCEPT !.faulted = b] \in Clients
        /\ [client[l] EXCEPT !.latest = i] \in Clients
        /\ \A s \in 0..MaxSteps : [client[l] EXCEPT !.latest = i, !.step = s, !.faulted = b] \in Clients
        /\ \A s \in 0..MaxSteps : [client[l] EXCEPT !.step = s] \in Clients
    BY LeaseFields DEF Clients
  <1>. QED  BY <1>1 DEF TypeOK

\* The leases after each of the assignments that the actions make.
LEMMA LeaseTyped ==
    ASSUME TypeOK, NEW l \in Leases, NEW st \in {"none", "open", "closed"},
           NEW c \in Containers \union {NoContainer}, NEW g \in 0..MaxReruns, NEW i \in MaybeId
    PROVE  /\ [lease EXCEPT ![l].status = st] \in [Leases -> LeaseRecords]
           /\ [lease EXCEPT ![l].status = st, ![l].container = c] \in [Leases -> LeaseRecords]
           /\ [lease EXCEPT ![l].latest = i] \in [Leases -> LeaseRecords]
           /\ [lease EXCEPT ![l].container = c, ![l].generation = g] \in [Leases -> LeaseRecords]
  <1>1. /\ [lease[l] EXCEPT !.status = st] \in LeaseRecords
        /\ [lease[l] EXCEPT !.status = st, !.container = c] \in LeaseRecords
        /\ [lease[l] EXCEPT !.latest = i] \in LeaseRecords
        /\ [lease[l] EXCEPT !.container = c, !.generation = g] \in LeaseRecords
    BY LeaseFields DEF LeaseRecords
  <1>. QED  BY <1>1 DEF TypeOK

\* The container of an open lease is one docker has given out.
LEMMA OpenContainer ==
    ASSUME TypeOK, LeasesOK, NEW l \in Leases, IsOpen(l)
    PROVE  lease[l].container \in used /\ lease[l].container \in Containers
  BY DEF TypeOK, LeasesOK, IsOpen

\* Types after the steps of a lease and of its rollout.
LEMMA LeaseStepsTyped ==
    ASSUME TypeOK, LeasesOK, NEW l \in Leases, NEW c \in Containers,
           Allocate(l, c) \/ Close(l) \/ FaultKill(l) \/ BeginRerun(l) \/ RerunRefused(l)
    PROVE  TypeOK'
  <1>0. 0 \in MaybeId /\ 0 \in 0..MaxReruns
    BY BoundsAssumption DEF MaybeId
  <1>1. CASE Allocate(l, c)
    <2>1. lease' \in [Leases -> LeaseRecords]
      BY <1>0, <1>1, LeaseTyped DEF Allocate
    <2>. QED  BY <1>1, <2>1 DEF Allocate, storeVars, TypeOK
  <1>2. CASE Close(l)
    <2>1. lease' \in [Leases -> LeaseRecords]
      BY <1>0, <1>2, LeaseTyped DEF Close
    <2>. QED  BY <1>2, <2>1 DEF Close, storeVars, TypeOK
  <1>3. CASE FaultKill(l)
    <2>1. client' \in [Leases -> Clients]
      BY <1>0, <1>3, ClientTyped DEF FaultKill
    <2>. QED  BY <1>3, <2>1 DEF FaultKill, storeVars, TypeOK
  <1>4. CASE BeginRerun(l)
    <2>1. /\ client[l].latest \in Ids /\ lease[l].container \in Containers
      BY <1>4, OpenContainer, ReadyKnown DEF BeginRerun
    <2>2. [kind |-> "rerun", id |-> client[l].latest, lease |-> l,
           container |-> lease[l].container, new |-> NoContainer,
           stage |-> "restoring", waited |-> TRUE] \in Jobs
      BY <2>1 DEF Jobs
    <2>3. jobs' \subseteq Jobs
      BY <1>4, <2>2 DEF BeginRerun, TypeOK
    <2>. QED  BY <1>4, <2>3 DEF BeginRerun, storeVars, dockerVars, TypeOK
  <1>5. CASE RerunRefused(l)
    <2>1. client' \in [Leases -> Clients]
      BY <1>0, <1>5, ClientTyped DEF RerunRefused
    <2>. QED  BY <1>5, <2>1 DEF RerunRefused, storeVars, dockerVars, TypeOK
  <1>. QED  BY <1>1, <1>2, <1>3, <1>4, <1>5

\* A new checkpoint has an id that was not used, and a step within the bound.
LEMMA NewId ==
    ASSUME TypeOK, NEW l \in Leases, BeginCreate(l)
    PROVE  /\ created \in Nat /\ created + 1 \in Ids /\ created + 1 \in MaybeId
           /\ client[l].step \in Nat /\ client[l].step + 1 \in 0..MaxSteps
           /\ client[l].latest \in MaybeId /\ IsOpen(l)
  <1>1. /\ setup.checkpoints \in 0..MaxCheckpoints /\ setup.steps \in 0..MaxSteps
        /\ MaxCheckpoints \in Nat /\ MaxSteps \in Nat
    BY BoundsAssumption DEF TypeOK
  <1>2. created \in 0..MaxCheckpoints /\ created < setup.checkpoints
    BY DEF TypeOK, MaybeId, BeginCreate
  <1>3. client[l].step \in Nat /\ client[l].step < setup.steps
    BY LeaseFields DEF BeginCreate
  <1>4. created \in Nat /\ created + 1 \in Ids /\ created + 1 \in MaybeId
    BY <1>1, <1>2 DEF Ids, MaybeId
  <1>5. client[l].step + 1 \in 0..MaxSteps
    BY <1>1, <1>3
  <1>6. client[l].latest \in MaybeId /\ IsOpen(l)
    BY LeaseFields DEF BeginCreate, Working
  <1>. QED  BY <1>3, <1>4, <1>5, <1>6

\* Types after a checkpoint was asked for.
LEMMA BeginCreateTyped ==
    ASSUME TypeOK, LeasesOK, NEW l \in Leases, BeginCreate(l)
    PROVE  TypeOK'
  <1>1. /\ created + 1 \in Ids /\ created + 1 \in MaybeId
        /\ client[l].step + 1 \in 0..MaxSteps /\ client[l].latest \in MaybeId
        /\ lease[l].container \in Containers
    BY NewId, OpenContainer
  <1>2. lease[l].generation \in 0..MaxReruns
    BY LeaseFields DEF LeaseRecords
  <1>3. [status |-> "pending", lease |-> l, generation |-> lease[l].generation,
         step |-> client[l].step + 1, parent |-> client[l].latest] \in Records
    BY <1>1, <1>2 DEF Records, Statuses
  <1>4. record' \in [Ids -> Records]
    BY <1>1, <1>3 DEF BeginCreate, TypeOK
  <1>5. [kind |-> "create", id |-> created + 1, lease |-> l,
         container |-> lease[l].container, new |-> NoContainer,
         stage |-> "queued", waited |-> TRUE] \in Jobs
    BY <1>1 DEF Jobs
  <1>6. jobs' \subseteq Jobs
    BY <1>5 DEF BeginCreate, TypeOK
  <1>7. client' \in [Leases -> Clients]
    <2>1. client' = [client EXCEPT ![l].step = client[l].step + 1]
      BY DEF BeginCreate
    <2>2. 0 \in MaybeId
      BY BoundsAssumption DEF MaybeId
    <2>. QED  BY <1>1, <2>1, <2>2, ClientTyped
  <1>. QED  BY <1>1, <1>4, <1>6, <1>7 DEF BeginCreate, dockerVars, TypeOK

\* A stopped checkpoint leaves no container running that did not run.
LEMMA LeftTyped ==
    ASSUME NEW sources, NEW r \in LeftRunning(sources)
    PROVE  r \subseteq running
  BY DEF LeftRunning

\* Types after the steps of a checkpoint handler.
LEMMA CreateStepsTyped ==
    ASSUME TypeOK, NEW j \in jobs,
           CommitSource(j) \/ CreateFails(j) \/ CreateReady(j) \/ CreateAnswered(j)
    PROVE  TypeOK'
  <1>0. j.id \in Ids /\ j.id \in MaybeId /\ j.lease \in Leases
    BY JobFields, BoundsAssumption DEF Ids, MaybeId
  <1>1. CASE CommitSource(j)
    <2>1. jobs' \subseteq Jobs
      BY <1>1, AdvanceTyped DEF CommitSource, Stages
    <2>. QED  BY <1>0, <1>1, <2>1 DEF CommitSource, dockerVars, TypeOK
  <1>2. CASE CreateFails(j)
    <2>1. jobs' \subseteq Jobs
      BY <1>2, AdvanceTyped DEF CreateFails, Stages
    <2>2. record' \in [Ids -> Records]
      BY <1>0, <1>2, StatusTyped DEF CreateFails, Statuses
    <2>3. running' \subseteq running
      BY <1>2, LeftTyped DEF CreateFails
    <2>. QED  BY <1>0, <1>2, <2>1, <2>2, <2>3 DEF CreateFails, TypeOK
  <1>3. CASE CreateReady(j)
    <2>1. jobs' \subseteq Jobs
      BY <1>3, AdvanceTyped DEF CreateReady, Stages
    <2>2. record' \in [Ids -> Records]
      BY <1>0, <1>3, StatusTyped DEF CreateReady, Statuses
    <2>. QED  BY <1>0, <1>3, <2>1, <2>2 DEF CreateReady, dockerVars, TypeOK
  <1>4. CASE CreateAnswered(j)
    <2>1. client' \in [Leases -> Clients]
      <3>1. CASE client' = [client EXCEPT ![j.lease].latest = j.id]
        BY <1>0, <3>1, ClientTyped
      <3>2. CASE client' = client
        BY <3>2 DEF TypeOK
      <3>. QED  BY <1>4, <3>1, <3>2 DEF CreateAnswered
    <2>2. lease' \in [Leases -> LeaseRecords]
      <3>1. lease[j.lease].latest \in MaybeId /\ NoContainer \in Containers \union {NoContainer}
        BY <1>0, LeaseFields DEF LeaseRecords
      <3>2. PICK i \in MaybeId : lease' = [lease EXCEPT ![j.lease].latest = i]
        BY <1>0, <1>4, <3>1 DEF CreateAnswered
      <3>3. 0 \in 0..MaxReruns
        BY BoundsAssumption
      <3>. QED  BY <1>0, <3>1, <3>2, <3>3, LeaseTyped
    <2>. QED  BY <1>4, <2>1, <2>2 DEF CreateAnswered, Forget, storeVars, dockerVars, TypeOK
  <1>. QED  BY <1>1, <1>2, <1>3, <1>4

\* Types after the steps of a rerun handler.
LEMMA RerunStepsTyped ==
    ASSUME HandlerInv, NEW j \in jobs, NEW c \in Containers,
           RestoreTarget(j, c) \/ DestroyOld(j) \/ SwapTracked(j) \/ MarkUsed(j) \/ RerunFails(j)
    PROVE  TypeOK'
  <1>0. TypeOK /\ j.id \in Ids /\ j.id \in MaybeId /\ j.lease \in Leases
    BY JobFields, BoundsAssumption DEF Ids, MaybeId, HandlerInv
  <1>1. CASE RestoreTarget(j, c)
    <2>1. jobs' \subseteq Jobs
      <3>1. [j EXCEPT !.stage = "restored", !.new = c] \in Jobs
        BY <1>0, MovedJob DEF Stages
      <3>. QED  BY <1>0, <1>1, <3>1 DEF RestoreTarget, TypeOK
    <2>. QED  BY <1>0, <1>1, <2>1 DEF RestoreTarget, storeVars, TypeOK
  <1>2. CASE DestroyOld(j)
    <2>1. jobs' \subseteq Jobs
      BY <1>0, <1>2, AdvanceTyped DEF DestroyOld, Stages
    <2>. QED  BY <1>0, <1>2, <2>1 DEF DestroyOld, storeVars, TypeOK
  <1>3. CASE SwapTracked(j)
    <2>1. jobs' \subseteq Jobs
      BY <1>0, <1>3, AdvanceTyped DEF SwapTracked, Stages
    <2>2. j.kind = "rerun" /\ j.new \in running
      BY <1>0, <1>3, JobFields DEF HandlerInv, HandlersOK, HandlerOK, Creates, Reruns,
           SwapTracked,
         CreateStages, Replacing
    <2>3. 0 \in MaybeId /\ running \subseteq used /\ used \subseteq Containers
      BY <1>0, BoundsAssumption DEF TypeOK, MaybeId
    <2>4. image' \in [Containers -> MaybeId]
      BY <1>0, <1>3, <2>2, <2>3 DEF SwapTracked, TypeOK
    <2>. QED  BY <1>0, <1>3, <2>1, <2>2, <2>3, <2>4 DEF SwapTracked, storeVars, TypeOK
  <1>4. CASE MarkUsed(j)
    <2>1. jobs' \subseteq Jobs
      BY <1>0, <1>4, AdvanceTyped DEF MarkUsed, Stages
    <2>. QED  BY <1>0, <1>4, <2>1 DEF MarkUsed, storeVars, dockerVars, TypeOK
  <1>5. CASE RerunFails(j)
    <2>1. jobs' \subseteq Jobs
      BY <1>0, <1>5, AdvanceTyped DEF RerunFails, Stages
    <2>. QED  BY <1>0, <1>5, <2>1 DEF RerunFails, storeVars, TypeOK
  <1>. QED  BY <1>1, <1>2, <1>3, <1>4, <1>5

\* Types after the answers of handlers, and their absence.
LEMMA AnswersTyped ==
    ASSUME HandlerInv, NEW j \in jobs,
           RerunAnswered(j) \/ FailureAnswered(j) \/ PoolTimesOut(j) \/ AnswerDropped(j)
    PROVE  TypeOK'
  <1>0. /\ TypeOK /\ j.id \in Ids /\ j.id \in MaybeId /\ j.lease \in Leases /\ 0 \in MaybeId
        /\ j.kind \in {"create", "rerun"}
    BY JobFields, BoundsAssumption DEF Ids, MaybeId, HandlerInv
  <1>1. CASE RerunAnswered(j)
    <2>1. lease[j.lease].generation < MaxReruns
      BY <1>0, <1>1, JobFields DEF HandlerInv, HandlersOK, HandlerOK, Creates, Reruns,
           RerunAnswered,
         CreateStages, Replacing
    <2>2. lease[j.lease].generation + 1 \in 0..MaxReruns
      BY <1>0, <2>1, LeaseFields, BoundsAssumption
    <2>3. j.new \in Containers \union {NoContainer} /\ record[j.id].step \in 0..MaxSteps
      BY <1>0, JobFields, RecordFields
    <2>4. lease' \in [Leases -> LeaseRecords]
      <3>1. lease' = [lease EXCEPT ![j.lease].container = j.new,
                                   ![j.lease].generation = lease[j.lease].generation + 1]
        BY <1>0, <1>1 DEF RerunAnswered
      <3>. QED  BY <1>0, <2>2, <2>3, <3>1, LeaseTyped
    <2>5. client' \in [Leases -> Clients]
      BY <1>0, <1>1, <2>3, ClientTyped DEF RerunAnswered
    <2>. QED  BY <1>0, <1>1, <2>4, <2>5 DEF RerunAnswered, Forget, storeVars, dockerVars, TypeOK
  <1>2. CASE FailureAnswered(j)
    <2>1. PICK b \in BOOLEAN : client' = [client EXCEPT ![j.lease].restart = b]
      <3>1. (client[j.lease].restart \/ j.kind = "rerun") \in BOOLEAN
        BY <1>0
      <3>. QED  BY <1>2, <3>1 DEF FailureAnswered
    <2>2. client' \in [Leases -> Clients]
      BY <1>0, <2>1, ClientTyped
    <2>. QED  BY <1>0, <1>2, <2>2 DEF FailureAnswered, Forget, storeVars, dockerVars, TypeOK
  <1>3. CASE PoolTimesOut(j)
    <2>1. PICK b \in BOOLEAN : client' = [client EXCEPT ![j.lease].restart = b]
      <3>1. (client[j.lease].restart \/ j.kind = "rerun") \in BOOLEAN
        BY <1>0
      <3>. QED  BY <1>3, <3>1 DEF PoolTimesOut
    <2>2. client' \in [Leases -> Clients]
      BY <1>0, <2>1, ClientTyped
    <2>3. [j EXCEPT !.waited = FALSE] \in Jobs
      BY <1>0, MovedJob DEF Stages
    <2>4. jobs' \subseteq Jobs
      BY <1>0, <1>3, <2>3 DEF PoolTimesOut, TypeOK
    <2>. QED  BY <1>0, <1>3, <2>2, <2>4 DEF PoolTimesOut, storeVars, dockerVars, TypeOK
  <1>4. CASE AnswerDropped(j)
    BY <1>0, <1>4 DEF AnswerDropped, Forget, storeVars, dockerVars, TypeOK
  <1>. QED  BY <1>1, <1>2, <1>3, <1>4
-----------------------------------------------------------------------------
(***************************************************************************)
(* What collections, deletions and a restart do.                           *)
(***************************************************************************)
\* A plan names records of the node that are ready or failed.
LEMMA PlanDoomed ==
    ASSUME NEW l, NEW k, NEW i \in Deletable(l, k)
    PROVE  i \in Ids /\ Doomed(i) /\ record[i].lease = l /\ record[i].status \in {"ready", "failed"}
  BY DEF Deletable, ReadyOf, Doomed

\* A queued collection is one, and all it is to delete is ready or failed.
LEMMA EnqueuedPlan ==
    ASSUME TypeOK, DeletionsOK, NEW scope \in SUBSET Leases, NEW plan \in SUBSET Ids,
           Enqueued(scope, plan), \A i \in plan : Doomed(i)
    PROVE  tasks' \subseteq Tasks /\ \A t \in tasks' : \A i \in t.todo : Doomed(i)
  <1>. DEFINE n == [scope |-> scope, plan |-> plan, todo |-> plan, collecting |-> FALSE, wiped |-> FALSE]
  <1>1. n \in Tasks
    BY DEF Tasks
  <1>2. tasks' \subseteq tasks \union {n}
    BY DEF Enqueued
  <1>3. n.todo = plan
    OBVIOUS
  <1>. HIDE DEF n
  <1>. QED  BY <1>1, <1>2, <1>3 DEF TypeOK, DeletionsOK

\* Types, and what is doomed, after a collection was asked for.
LEMMA CollectSteps ==
    ASSUME TypeOK, DeletionsOK, NEW k, NEW l \in Leases, CollectLease(l, k) \/ CollectNode(k)
    PROVE  TypeOK' /\ DeletionsOK'
  <1>0. record' = record /\ UNCHANGED <<storeVars, dockerVars, lease, client, jobs>>
    BY DEF CollectLease, CollectNode, storeVars
  <1>1. tasks' \subseteq Tasks /\ \A t \in tasks' : \A i \in t.todo : Doomed(i)
    <2>1. CASE CollectLease(l, k)
      <3>1. /\ {l} \in SUBSET Leases /\ Deletable(l, k) \in SUBSET Ids
            /\ \A i \in Deletable(l, k) : Doomed(i)
        BY PlanDoomed
      <3>2. Enqueued({l}, Deletable(l, k))
        BY <2>1 DEF CollectLease
      <3>. QED  BY <3>1, <3>2, EnqueuedPlan
    <2>2. CASE CollectNode(k)
      <3>. DEFINE plan == UNION {Deletable(m, k) : m \in Leases}
      <3>1. /\ Leases \in SUBSET Leases /\ plan \in SUBSET Ids /\ \A i \in plan : Doomed(i)
        BY PlanDoomed
      <3>2. Enqueued(Leases, plan)
        BY <2>2 DEF CollectNode
      <3>. HIDE DEF plan
      <3>. QED  BY <3>1, <3>2, EnqueuedPlan
    <2>. QED  BY <2>1, <2>2
  <1>2. calls' \subseteq Calls /\ \A c \in calls' : c \in calls \/ c.stage = "refresh"
    <2>1. 0 \in MaybeId
      BY BoundsAssumption DEF MaybeId
    <2>2. [stage |-> "refresh", lease |-> l, id |-> 0] \in Calls
      BY <2>1 DEF Calls
    <2>3. calls' \subseteq calls \union {[stage |-> "refresh", lease |-> l, id |-> 0]}
      BY DEF CollectLease, CollectNode
    <2>. QED  BY <2>2, <2>3 DEF TypeOK
  <1>3. TypeOK'
    BY <1>0, <1>1, <1>2 DEF TypeOK, storeVars, dockerVars
  <1>4. \A i : Doomed(i)' <=> Doomed(i)
    BY <1>0 DEF Doomed
  <1>5. DeletionsOK'
    BY <1>1, <1>2, <1>4 DEF DeletionsOK
  <1>. QED  BY <1>3, <1>5

\* The fields of a queued collection.
LEMMA TaskFields ==
    ASSUME TypeOK, NEW t \in tasks
    PROVE  /\ t \in Tasks /\ t.todo \subseteq Ids /\ t.collecting \in BOOLEAN /\ t.wiped \in BOOLEAN
           /\ [t EXCEPT !.collecting = TRUE] \in Tasks
           /\ [t EXCEPT !.wiped = TRUE] \in Tasks
           /\ \A S \in SUBSET Ids : [t EXCEPT !.todo = S, !.wiped = FALSE] \in Tasks
  BY DEF TypeOK, Tasks

\* What the step of a collection does: it forgets i, or wipes its artifact.
LEMMA TaskStepDoes ==
    ASSUME TypeOK, DeletionsOK, NEW t \in tasks, TaskStep(t)
    PROVE  /\ \/ record' = record
              \/ /\ ForgetNext(t)
                 /\ \E i \in t.todo : /\ NextToDelete(t, i) /\ Doomed(i)
                                      /\ record' = [record EXCEPT ![i].status = "deleted"]
           /\ TypeOK' /\ DeletionsOK'
           /\ UNCHANGED <<setup, created, dockerVars, lease, client, jobs, calls>>
  <1>1. CASE StartCollecting(t)
    <2>1. tasks' = (tasks \ {t}) \cup {[t EXCEPT !.collecting = TRUE]}
      BY <1>1 DEF StartCollecting
    <2>2. [t EXCEPT !.collecting = TRUE].todo = t.todo
      BY TaskFields DEF Tasks
    <2>. QED  BY <1>1, <2>1, <2>2, TaskFields
           DEF StartCollecting, TypeOK, DeletionsOK, storeVars, dockerVars, Doomed
  <1>2. CASE WipeNext(t)
    <2>1. tasks' = (tasks \ {t}) \cup {[t EXCEPT !.wiped = TRUE]}
      BY <1>2 DEF WipeNext
    <2>2. [t EXCEPT !.wiped = TRUE].todo = t.todo
      BY TaskFields DEF Tasks
    <2>3. artifact' \subseteq artifact
      BY <1>2 DEF WipeNext
    <2>. QED  BY <1>2, <2>1, <2>2, <2>3, TaskFields
           DEF WipeNext, TypeOK, DeletionsOK, dockerVars, Doomed
  <1>3. CASE ForgetNext(t)
    <2>1. PICK i \in t.todo :
            /\ NextToDelete(t, i)
            /\ record' = [record EXCEPT ![i].status = "deleted"]
            /\ tasks' = (tasks \ {t}) \cup
                (IF t.todo = {i} THEN {} ELSE {[t EXCEPT !.todo = t.todo \ {i}, !.wiped = FALSE]})
      BY <1>3 DEF ForgetNext
    <2>2. i \in Ids /\ t.todo \ {i} \in SUBSET Ids
      BY TaskFields
    <2>3. record' \in [Ids -> Records]
      BY <2>1, <2>2, StatusTyped DEF Statuses
    <2>4. \A n \in Ids : Doomed(n) => Doomed(n)'
      BY <2>1, <2>2 DEF Doomed, TypeOK
    <2>. DEFINE u == [t EXCEPT !.todo = t.todo \ {i}, !.wiped = FALSE]
    <2>5. u \in Tasks /\ u.todo \subseteq t.todo
      BY <2>2, TaskFields DEF Tasks
    <2>6. tasks' \subseteq (tasks \ {t}) \union {u}
      BY <2>1
    <2>. HIDE DEF u
    <2>7. DeletionsOK'
      <3>1. calls' = calls
        BY <1>3 DEF ForgetNext
      <3>2. ASSUME NEW v \in tasks', NEW n \in v.todo PROVE Doomed(n)'
        <4>1. CASE v \in tasks
          BY <2>4, <4>1, TaskFields DEF DeletionsOK
        <4>2. CASE v = u
          BY <2>4, <2>5, <4>2, TaskFields DEF DeletionsOK
        <4>. QED  BY <2>6, <4>1, <4>2
      <3>. QED  BY <2>4, <3>1, <3>2 DEF DeletionsOK
    <2>8. Doomed(i)
      BY DEF DeletionsOK
    <2>9. TypeOK'
      BY <1>3, <2>3, <2>5, <2>6 DEF ForgetNext, TypeOK, dockerVars
    <2>. QED  BY <1>3, <2>1, <2>7, <2>8, <2>9 DEF ForgetNext, dockerVars
  <1>4. CASE CollectingFails(t)
    BY <1>4 DEF CollectingFails, TypeOK, DeletionsOK, storeVars, dockerVars, Doomed
  <1>. QED  BY <1>1, <1>2, <1>3, <1>4 DEF TaskStep

\* The fields of a GC or delete call.
LEMMA CallFields ==
    ASSUME TypeOK, NEW c \in calls
    PROVE  /\ c \in Calls /\ c.lease \in Leases /\ c.id \in MaybeId
           /\ c.stage \in {"checked", "wiped", "refresh", "listed"}
           /\ [c EXCEPT !.stage = "wiped"] \in Calls
           /\ [c EXCEPT !.stage = "refresh"] \in Calls
           /\ \A n \in MaybeId : [c EXCEPT !.stage = "listed", !.id = n] \in Calls
           /\ \A n : [c EXCEPT !.stage = "listed", !.id = n].stage = "listed"
  <1>1. c \in Calls
    BY DEF TypeOK
  <1>2. \A n \in MaybeId : [c EXCEPT !.stage = "listed", !.id = n] \in Calls
    BY <1>1 DEF Calls
  <1>3. \A n : [c EXCEPT !.stage = "listed", !.id = n].stage = "listed"
    BY <1>1 DEF Calls
  <1>. QED  BY <1>1, <1>2, <1>3 DEF Calls

\* What the step of a deletion or a refresh does.
LEMMA CallStepDoes ==
    ASSUME TypeOK, Ordered, DeletionsOK, NEW c \in calls, CallStep(c)
    PROVE  /\ \/ record' = record
              \/ \E i \in Ids : /\ DeleteRecord(c) /\ Doomed(i)
                                /\ record' = [record EXCEPT ![i].status = "deleted"]
           /\ TypeOK' /\ DeletionsOK'
           /\ UNCHANGED <<setup, created, dockerVars, client, jobs, tasks>>
           /\ \A l \in Leases : /\ lease'[l].status = lease[l].status
                                /\ lease'[l].container = lease[l].container
                                /\ lease'[l].generation = lease[l].generation
           /\ c.stage \notin {"checked", "wiped"} => record' = record /\ artifact' = artifact
  <1>1. CASE DeleteArtifact(c)
    <2>1. calls' = (calls \ {c}) \cup {[c EXCEPT !.stage = "wiped"]} /\ c.stage = "checked"
      BY <1>1 DEF DeleteArtifact, Replace
    <2>2. [c EXCEPT !.stage = "wiped"].id = c.id
      BY CallFields DEF Calls
    <2>. QED  BY <1>1, <2>1, <2>2, CallFields DEF DeleteArtifact, TypeOK, DeletionsOK,
         dockerVars, Doomed
  <1>2. CASE DeleteRecord(c)
    <2>1. /\ calls' = (calls \ {c}) \cup {[c EXCEPT !.stage = "refresh"]}
          /\ record' = [record EXCEPT ![c.id].status = "deleted"]
          /\ c.stage = "wiped"
      BY <1>2 DEF DeleteRecord, Replace
    <2>2. c.id \in Ids /\ Doomed(c.id)
      BY <2>1 DEF DeletionsOK
    <2>3. record' \in [Ids -> Records]
      BY <2>1, <2>2, StatusTyped DEF Statuses
    <2>4. \A n \in Ids : Doomed(n) => Doomed(n)'
      BY <2>1, <2>2 DEF Doomed, TypeOK
    <2>5. [c EXCEPT !.stage = "refresh"].stage = "refresh"
      BY CallFields DEF Calls
    <2>6. TypeOK'
      BY <1>2, <2>1, <2>3, CallFields DEF DeleteRecord, TypeOK, dockerVars
    <2>7. DeletionsOK'
      <3>1. tasks' = tasks
        BY <1>2 DEF DeleteRecord
      <3>2. \A t \in tasks : t.todo \subseteq Ids
        BY TaskFields
      <3>. QED  BY <2>1, <2>4, <2>5, <3>1, <3>2 DEF DeletionsOK
    <2>. QED  BY <1>2, <2>1, <2>2, <2>6, <2>7 DEF DeleteRecord, dockerVars
  <1>3. CASE RefreshLists(c)
    <2>1. NewestReady(c.lease) \in MaybeId
      BY NewestTyped, CallFields
    <2>. DEFINE d == [c EXCEPT !.stage = "listed", !.id = NewestReady(c.lease)]
    <2>2. d \in Calls /\ d.stage = "listed"
      BY <2>1, CallFields
    <2>3. calls' = (calls \ {c}) \cup {d}
      BY <1>3 DEF RefreshLists, Replace
    <2>. HIDE DEF d
    <2>. QED  BY <1>3, <2>2, <2>3 DEF RefreshLists, TypeOK, DeletionsOK, storeVars, dockerVars,
         Doomed
  <1>4. CASE RefreshSets(c)
    <2>1. lease' = [lease EXCEPT ![c.lease].latest = c.id] /\ c.lease \in Leases
      BY <1>4, CallFields DEF RefreshSets
    <2>2. lease' \in [Leases -> LeaseRecords]
      <3>1. 0 \in 0..MaxReruns
        BY BoundsAssumption
      <3>2. c.id \in MaybeId
        BY CallFields
      <3>. QED  BY <2>1, <3>1, <3>2, LeaseTyped
    <2>3. \A l \in Leases : /\ lease'[l].status = lease[l].status
                            /\ lease'[l].container = lease[l].container
                            /\ lease'[l].generation = lease[l].generation
      BY <2>1, LeaseFields DEF LeaseRecords, TypeOK
    <2>. QED  BY <1>4, <2>2, <2>3 DEF RefreshSets, TypeOK, DeletionsOK, storeVars, dockerVars,
         Doomed
  <1>. QED  BY <1>1, <1>2, <1>3, <1>4 DEF CallStep

\* A delete call begins with a record that is ready or failed.
LEMMA BeginDeleteDoes ==
    ASSUME TypeOK, DeletionsOK, NEW l \in Leases, NEW i \in Ids, BeginDelete(l, i)
    PROVE  TypeOK' /\ DeletionsOK' /\ UNCHANGED <<storeVars, dockerVars, lease, client, jobs, tasks>>
  <1>. DEFINE n == [stage |-> "checked", lease |-> l, id |-> i]
  <1>1. n \in Calls /\ n.id = i
    BY BoundsAssumption DEF Calls, Ids, MaybeId
  <1>2. calls' = calls \cup {n} /\ Doomed(i)
    BY DEF BeginDelete, Doomed
  <1>3. UNCHANGED <<storeVars, dockerVars, lease, client, jobs, tasks>>
    BY DEF BeginDelete
  <1>. HIDE DEF n
  <1>. QED  BY <1>1, <1>2, <1>3 DEF TypeOK, DeletionsOK, storeVars, dockerVars, Doomed

\* What a restart leaves: records, leases and artifacts as they are, nobody who handles,
\* collects or deletes.
LEMMA RestartDoes ==
    ASSUME TypeOK, DeletionsOK, Restart
    PROVE  /\ TypeOK' /\ DeletionsOK'
           /\ jobs' = {} /\ tasks' = {} /\ tracked' = {} /\ running' \subseteq running
           /\ UNCHANGED <<storeVars, used, image, lease>>
           /\ \A l \in Leases : /\ client'[l].latest = client[l].latest
                                /\ client'[l].step = client[l].step
                                /\ client'[l].faulted = client[l].faulted
                                /\ client[l].restart => client'[l].restart
                                /\ (\E j \in jobs : j.lease = l /\ j.kind = "rerun" /\ j.waited)
                                      => client'[l].restart
           /\ setup.legacy => running' = running
           /\ \A c \in calls' : c.stage \in {"refresh", "listed"}
  <1>1. /\ jobs' = {} /\ tasks' = {} /\ tracked' = {}
        /\ UNCHANGED <<storeVars, used, image, lease>>
    BY DEF Restart
  <1>2. running' \subseteq running /\ (setup.legacy => running' = running)
    BY DEF Restart, LeftRunning
  <1>3. calls' \subseteq calls /\ \A c \in calls' : c.stage \in {"refresh", "listed"}
    BY DEF Restart
  <1>. DEFINE Gone(l) == \E j \in jobs : j.lease = l /\ j.kind = "rerun" /\ j.waited
  <1>4. client' = [l \in Leases |-> [client[l] EXCEPT !.restart = client[l].restart \/ Gone(l)]]
    BY DEF Restart
  <1>5. ASSUME NEW l \in Leases
        PROVE  /\ client'[l] \in Clients
               /\ client'[l].latest = client[l].latest
               /\ client'[l].step = client[l].step
               /\ client'[l].faulted = client[l].faulted
               /\ client[l].restart => client'[l].restart
               /\ Gone(l) => client'[l].restart
    <2>1. (client[l].restart \/ Gone(l)) \in BOOLEAN
      BY LeaseFields
    <2>. HIDE DEF Gone
    <2>. QED  BY <1>4, <2>1, LeaseFields DEF Clients
  <1>6. client' \in [Leases -> Clients]
    BY <1>4, <1>5
  <1>7. TypeOK'
    BY <1>1, <1>2, <1>3, <1>6 DEF TypeOK, storeVars
  <1>8. DeletionsOK'
    BY <1>1, <1>3 DEF DeletionsOK
  <1>. QED  BY <1>1, <1>2, <1>3, <1>5, <1>7, <1>8
-----------------------------------------------------------------------------
(***************************************************************************)
(* Records stay ordered.                                                   *)
(***************************************************************************)
\* r1 is r0 but for status.
SameButStatus(r1, r0) ==
    /\ r1.lease = r0.lease /\ r1.generation = r0.generation
    /\ r1.step = r0.step /\ r1.parent = r0.parent
    /\ r1.status = "none" <=> r0.status = "none"

\* Nothing of a record changes but its status, and none comes or goes.
RecordsMove == created' = created /\ \A i \in Ids : SameButStatus(record'[i], record[i])

\* The lease and its rollout have not gone back.
Forward(l) ==
    \/ lease'[l].generation = lease[l].generation /\ client'[l].step = client[l].step
    \/ lease'[l].generation = lease[l].generation + 1

\* A lease has the same records when only statuses change.
LEMMA KnownSame ==
    ASSUME RecordsMove, NEW l
    PROVE  Known(l)' = Known(l)
  BY DEF RecordsMove, SameButStatus, Known

\* The order of the records stays when only statuses change and leases do not go back.
LEMMA OrderedKept ==
    ASSUME TypeOK, Ordered, RecordsMove, \A l \in Leases : Forward(l)
    PROVE  Ordered'
  <1>1. \A i \in Ids : record'[i].status = "none" <=> i > created'
    BY DEF Ordered, RecordsMove, SameButStatus
  <1>2. \A i \in Ids : record'[i].parent < i
    BY DEF Ordered, RecordsMove, SameButStatus
  <1>3. ASSUME NEW l \in Leases, NEW i \in Known(l)', NEW j \in Known(l)', i < j
        PROVE  Earlier(record'[i], record'[j])
    <2>1. i \in Known(l) /\ j \in Known(l)
      BY KnownSame
    <2>2. Earlier(record[i], record[j])
      BY <1>3, <2>1 DEF Ordered
    <2>. QED  BY <2>1, <2>2 DEF Known, RecordsMove, SameButStatus, Earlier
  <1>4. ASSUME NEW l \in Leases, NEW i \in Known(l)'
        PROVE  NotAhead(i)'
    <2>1. i \in Known(l) /\ i \in Ids
      BY KnownSame DEF Known
    <2>2. NotAhead(i) /\ record[i].lease = l
      BY <2>1 DEF Ordered, Known
    <2>3. /\ record'[i].lease = l /\ record'[i].generation = record[i].generation
          /\ record'[i].step = record[i].step
      BY <2>1, <2>2 DEF RecordsMove, SameButStatus
    <2>4. /\ record[i].generation \in Nat /\ record[i].step \in Nat
          /\ lease[l].generation \in Nat /\ client[l].step \in Nat
      BY <2>1, RecordFields, LeaseFields
    <2>5. \/ lease'[l].generation = lease[l].generation /\ client'[l].step = client[l].step
          \/ lease'[l].generation = lease[l].generation + 1
      BY DEF Forward
    <2>. QED  BY <2>2, <2>3, <2>4, <2>5 DEF NotAhead
  <1>. QED  BY <1>1, <1>2, <1>3, <1>4 DEF Ordered

\* A change of status is one.
LEMMA StatusMoves ==
    ASSUME TypeOK, NEW i \in Ids, NEW s, s # "none", record[i].status # "none",
           record' = [record EXCEPT ![i].status = s], created' = created
    PROVE  RecordsMove
  <1>1. ASSUME NEW n \in Ids PROVE SameButStatus(record'[n], record[n])
    BY RecordFields DEF SameButStatus, TypeOK, Records
  <1>. QED  BY <1>1 DEF RecordsMove

\* So is no change.
LEMMA RecordsStay ==
    ASSUME UNCHANGED storeVars
    PROVE  RecordsMove
  BY DEF storeVars, RecordsMove, SameButStatus

\* A new record is the last of its lease.
LEMMA BeginCreateOrdered ==
    ASSUME TypeOK, Ordered, NEW l \in Leases, BeginCreate(l), MayParent(l, client[l].latest)
    PROVE  Ordered'
  <1>. DEFINE n == created + 1
              r == [status |-> "pending", lease |-> l, generation |-> lease[l].generation,
                    step |-> client[l].step + 1, parent |-> client[l].latest]
  <1>1. /\ n \in Ids /\ created \in Nat /\ created' = n /\ client[l].step \in Nat
        /\ lease[l].generation \in Nat
    BY NewId, LeaseFields DEF BeginCreate
  <1>2. record' = [record EXCEPT ![n] = r] /\ lease' = lease
    BY DEF BeginCreate
  <1>3. /\ client'[l].step = client[l].step + 1
        /\ \A m \in Leases : m # l => client'[m].step = client[m].step
    <2>1. client' = [client EXCEPT ![l].step = client[l].step + 1]
      BY DEF BeginCreate
    <2>. QED  BY <2>1, LeaseFields DEF TypeOK, Clients
  <1>4. record'[n] = r /\ \A i \in Ids : i # n => record'[i] = record[i]
    BY <1>1, <1>2 DEF TypeOK
  <1>5. \A i \in Ids : i \in Nat
    BY BoundsAssumption DEF Ids
  <1>6. \A i \in Ids : record'[i].status = "none" <=> i > created'
    <2>1. ASSUME NEW i \in Ids PROVE record'[i].status = "none" <=> i > created'
      <3>1. CASE i = n
        BY <1>1, <1>4, <3>1
      <3>2. CASE i # n
        BY <1>1, <1>4, <1>5, <3>2 DEF Ordered
      <3>. QED  BY <3>1, <3>2
    <2>. QED  BY <2>1
  <1>7. \A i \in Ids : record'[i].parent < i
    <2>1. client[l].latest < n
      <3>1. CASE client[l].latest = 0
        BY <1>1, <3>1
      <3>2. CASE client[l].latest \in ReadyOf(l)
        <4>1. client[l].latest \in Ids /\ record[client[l].latest].status # "none"
          BY <3>2 DEF ReadyOf
        <4>. QED  BY <1>1, <1>5, <4>1 DEF Ordered
      <3>. QED  BY <3>1, <3>2 DEF MayParent
    <2>2. r.parent = client[l].latest
      OBVIOUS
    <2>. HIDE DEF r
    <2>. QED  BY <1>4, <2>1, <2>2 DEF Ordered
  <1>8. ASSUME NEW m \in Leases, NEW i \in Known(m)' PROVE i = n \/ i \in Known(m)
    BY <1>4 DEF Known
  <1>9. ASSUME NEW m \in Leases, NEW i \in Known(m) PROVE i <= created /\ i \in Ids /\ record'[i] = record[i]
    <2>1. i \in Ids /\ i <= created
      BY <1>1, <1>5 DEF Known, Ordered
    <2>. QED  BY <1>1, <1>4, <1>5, <2>1
  <1>10. ASSUME NEW m \in Leases, n \in Known(m)' PROVE m = l
    BY <1>4, <1>10 DEF Known
  <1>11. ASSUME NEW m \in Leases, NEW i \in Known(m)', NEW j \in Known(m)', i < j
         PROVE  Earlier(record'[i], record'[j])
    <2>1. CASE i = n
      <3>1. j \in Known(m) /\ j <= created /\ j \in Nat
        BY <1>1, <1>5, <1>8, <1>9, <1>11, <2>1
      <3>. QED  BY <1>1, <1>11, <2>1, <3>1
    <2>2. CASE i # n /\ j # n
      BY <1>8, <1>9, <1>11, <2>2 DEF Ordered
    <2>3. CASE i # n /\ j = n
      <3>1. m = l /\ i \in Known(l)
        BY <1>8, <1>10, <2>3
      <3>2. NotAhead(i) /\ record'[i] = record[i] /\ record[i].lease = l /\ i \in Ids
        BY <1>9, <3>1 DEF Ordered, Known
      <3>3. record[i].generation \in Nat /\ record[i].step \in Nat
        BY <3>2, RecordFields
      <3>4. record'[j].generation = lease[l].generation /\ record'[j].step = client[l].step + 1
        BY <1>4, <2>3
      <3>. QED  BY <1>1, <3>2, <3>3, <3>4 DEF NotAhead, Earlier
    <2>. QED  BY <2>1, <2>2, <2>3
  <1>12. ASSUME NEW m \in Leases, NEW i \in Known(m)' PROVE NotAhead(i)'
    <2>1. CASE i = n
      <3>1. /\ record'[i].generation = lease[l].generation /\ record'[i].step = client[l].step + 1
            /\ record'[i].lease = l
        BY <1>4, <2>1
      <3>. QED  BY <1>1, <1>2, <1>3, <3>1 DEF NotAhead
    <2>2. CASE i # n
      <3>1. i \in Known(m) /\ record'[i] = record[i] /\ NotAhead(i) /\ i \in Ids /\ record[i].lease = m
        BY <1>8, <1>9, <2>2 DEF Ordered, Known
      <3>2. record[i].step \in Nat /\ client[m].step \in Nat
        BY <3>1, RecordFields, LeaseFields
      <3>. QED  BY <1>1, <1>2, <1>3, <3>1, <3>2 DEF NotAhead
    <2>. QED  BY <2>1, <2>2
  <1>. QED  BY <1>6, <1>7, <1>11, <1>12 DEF Ordered
-----------------------------------------------------------------------------
(***************************************************************************)
(* Handlers do not get in each other's way.                                *)
(***************************************************************************)
\* What handlers need.
HoldInv == LeasesOK /\ HandlersOK /\ Apart

\* What a handler relies on is left alone.
LeavesAlone(k) ==
    /\ used \subseteq used'
    /\ k.waited => lease'[k.lease].status = lease[k.lease].status
    /\ k.kind = "rerun" => /\ lease'[k.lease].container = lease[k.lease].container
                           /\ lease'[k.lease].generation = lease[k.lease].generation
                           /\ k.waited => client'[k.lease].latest = client[k.lease].latest
                           /\ client[k.lease].restart => client'[k.lease].restart
    /\ k.kind = "create" =>
          /\ k.id \in Known(k.lease) => k.id \in Known(k.lease)'
          /\ k.stage \in {"queued", "committed"} /\ record[k.id].status = "pending"
                => record'[k.id].status = "pending"
          /\ k.waited => Known(k.lease)' \subseteq Known(k.lease)
    /\ k.kind = "rerun" /\ k.stage \in Replacing => k.new \in running'
    /\ k.kind = "rerun" /\ k.stage \in {"destroyed", "swapped", "done"} /\ k.container \notin running
          => k.container \notin running'
    /\ k.kind = "rerun" /\ k.stage \in {"restored", "destroyed"} /\ k.new \notin tracked
          => k.new \notin tracked'

\* A handler is as before when what it relies on is left alone.
LEMMA HandlerFrame ==
    ASSUME NEW k, HandlerOK(k), LeavesAlone(k)
    PROVE  HandlerOK(k)'
  <1>1. k.container \in used' /\ k.new \in used' \union {NoContainer}
    BY DEF HandlerOK, LeavesAlone
  <1>2. k.waited => IsOpen(k.lease)'
    BY DEF HandlerOK, LeavesAlone, IsOpen
  <1>3. k.kind = "create" => Creates(k)'
    BY DEF HandlerOK, LeavesAlone, Creates
  <1>4. k.kind = "rerun" => Reruns(k)'
    BY DEF HandlerOK, LeavesAlone, Reruns
  <1>. QED  BY <1>1, <1>2, <1>3, <1>4 DEF HandlerOK

\* A rerun's new container runs, and is known to docker.
LEMMA ReplacingIs ==
    ASSUME TypeOK, HandlersOK, NEW k \in jobs, k.stage \in Replacing
    PROVE  k.kind = "rerun" /\ k.new \in running /\ k.new \in used /\ k.new \in Containers /\ k.new # NoContainer
  <1>1. k.kind = "rerun" /\ k.new \in running
    BY JobFields DEF HandlersOK, HandlerOK, Creates, Reruns, CreateStages, Replacing
  <1>. QED  BY <1>1, ContainersAssumption DEF TypeOK

\* A handler that restores or replaces is a rerun.
LEMMA RerunStages ==
    ASSUME TypeOK, HandlersOK, NEW k \in jobs
    PROVE  /\ k.stage \in {"restoring"} \union Replacing => k.kind = "rerun"
           /\ k.stage \in {"queued", "committed", "ready"} => k.kind = "create"
  BY JobFields DEF HandlersOK, HandlerOK, Creates, Reruns, CreateStages, Replacing

\* A handler moves on without a new container.
LEMMA ApartMoves ==
    ASSUME TypeOK, HandlersOK, Apart, NEW j \in jobs, NEW j2,
           j2.kind = j.kind, j2.id = j.id, j2.lease = j.lease, j2.container = j.container, j2.new = j.new,
           j2.waited => j.waited, j2.stage \in Replacing => j.stage \in Replacing,
           \A l \in Leases : lease'[l].container = lease[l].container,
           jobs' = (jobs \ {j}) \union {j2}
    PROVE  Apart'
  <1>. DEFINE Was(k) == IF k = j2 THEN j ELSE k
  <1>1. ASSUME NEW k \in jobs'
        PROVE  /\ Was(k) \in jobs /\ Was(k).kind = k.kind /\ Was(k).id = k.id /\ Was(k).lease = k.lease
               /\ Was(k).container = k.container /\ Was(k).new = k.new
               /\ (k.waited => Was(k).waited) /\ (k.stage \in Replacing => Was(k).stage \in Replacing)
    OBVIOUS
  <1>2. \A k1, k2 \in jobs' : Was(k1) = Was(k2) => k1 = k2
    OBVIOUS
  <1>. HIDE DEF Was
  <1>3. \A k1, k2 \in jobs' : k1.lease = k2.lease /\ k1.waited /\ k2.waited => k1 = k2
    BY <1>1, <1>2 DEF Apart
  <1>4. \A k1, k2 \in jobs' : k1.lease = k2.lease /\ k1.kind = "rerun" /\ k2.kind = "rerun" => k1 = k2
    BY <1>1, <1>2 DEF Apart
  <1>5. \A k1, k2 \in jobs' : k1.kind = "create" /\ k2.kind = "create" /\ k1.id = k2.id => k1 = k2
    BY <1>1, <1>2 DEF Apart
  <1>6. ASSUME NEW k1 \in jobs', k1.stage \in Replacing
        PROVE  /\ \A k \in jobs' : k1.new # k.container /\ (k # k1 => k1.new # k.new)
               /\ \A l \in Leases : k1.new # lease'[l].container
    <2>1. Was(k1).stage \in Replacing /\ Was(k1) \in jobs /\ Was(k1).new = k1.new
      BY <1>1, <1>6
    <2>2. ASSUME NEW k \in jobs' PROVE k1.new # k.container /\ (k # k1 => k1.new # k.new)
      BY <1>1, <1>2, <2>1 DEF Apart
    <2>3. \A l \in Leases : k1.new # lease'[l].container
      BY <2>1 DEF Apart
    <2>. QED  BY <2>2, <2>3
  <1>. QED  BY <1>3, <1>4, <1>5, <1>6 DEF Apart

\* Handlers stay apart when some leave.
LEMMA ApartFewer ==
    ASSUME Apart, jobs' \subseteq jobs, \A l \in Leases : lease'[l].container = lease[l].container
    PROVE  Apart'
  BY DEF Apart

\* The containers of leases stay apart when leases keep theirs.
LEMMA LeasesStay ==
    ASSUME LeasesOK, used \subseteq used',
           \A l \in Leases : /\ lease'[l].container = lease[l].container
                             /\ lease'[l].status = "none" <=> lease[l].status = "none"
    PROVE  LeasesOK'
  BY DEF LeasesOK

\* Steps that only a collection, a deletion or a refresh takes.
LEMMA QuietHolds ==
    ASSUME TypeOK, HoldInv, RecordsMove, UNCHANGED <<dockerVars, client, jobs>>,
           \A i \in Ids : record[i].status = "pending" => record'[i].status = "pending",
           \A l \in Leases : /\ lease'[l].status = lease[l].status
                             /\ lease'[l].container = lease[l].container
                             /\ lease'[l].generation = lease[l].generation
    PROVE  HoldInv'
  <1>1. LeasesOK' /\ Apart'
    BY LeasesStay, ApartFewer DEF HoldInv, dockerVars
  <1>2. ASSUME NEW k \in jobs' PROVE HandlerOK(k)'
    <2>1. k \in jobs /\ k.lease \in Leases /\ k.id \in Ids
      BY <1>2, JobFields
    <2>2. Known(k.lease)' = Known(k.lease)
      BY KnownSame
    <2>3. HandlerOK(k) /\ (k.stage \in Replacing => k.new \in running)
      BY <2>1, ReplacingIs DEF HoldInv, HandlersOK
    <2>4. LeavesAlone(k)
      BY <2>1, <2>2, <2>3 DEF LeavesAlone, dockerVars
    <2>. QED  BY <2>3, <2>4, HandlerFrame
  <1>. QED  BY <1>1, <1>2 DEF HoldInv, HandlersOK

\* A new lease has a new container, which no handler has in hand.
LEMMA AllocateHolds ==
    ASSUME HandlerInv, NEW l \in Leases, NEW c \in Containers, Allocate(l, c)
    PROVE  HoldInv'
  <1>0. /\ TypeOK /\ LeasesOK /\ HandlersOK /\ Apart /\ NoContainer \notin Containers
        /\ used \subseteq Containers /\ running \subseteq used /\ tracked \subseteq used
    BY ContainersAssumption DEF HandlerInv, TypeOK
  <1>1. /\ lease[l].status = "none" /\ c \notin used /\ jobs' = jobs /\ client' = client
        /\ used' = used \cup {c} /\ running' = running \cup {c} /\ tracked' = tracked \cup {c}
        /\ UNCHANGED storeVars
    BY DEF Allocate
  <1>2. /\ \A m \in Leases \ {l} : lease'[m] = lease[m]
        /\ lease'[l].container = c /\ lease'[l].status = "open"
        /\ lease'[l].generation = lease[l].generation
    BY <1>0, LeaseFields DEF Allocate, TypeOK, LeaseRecords
  <1>3. LeasesOK'
    BY <1>0, <1>1, <1>2, LeaseFields DEF LeasesOK
  <1>4. ASSUME NEW k \in jobs' PROVE HandlerOK(k)'
    <2>1. k \in jobs /\ k.lease \in Leases /\ HandlerOK(k)
      BY <1>0, <1>1, JobFields DEF HandlersOK
    <2>2. k.waited \/ k.kind = "rerun" => k.lease # l
      BY <1>0, <1>1, <2>1 DEF HandlerOK, Reruns, IsOpen, LeasesOK
    <2>3. k.stage \in Replacing => k.new \in running
      BY <1>0, <2>1, ReplacingIs
    <2>4. Known(k.lease)' = Known(k.lease) /\ record' = record
      BY <1>1 DEF storeVars, Known
    <2>5. k.container # c /\ k.container \in used /\ (k.new \in running => k.new # c)
      BY <1>0, <1>1, <2>1 DEF HandlerOK
    <2>6. LeavesAlone(k)
      BY <1>1, <1>2, <2>1, <2>2, <2>3, <2>4, <2>5 DEF LeavesAlone, Replacing
    <2>. QED  BY <2>1, <2>6, HandlerFrame
  <1>5. Apart'
    <2>1. ASSUME NEW k \in jobs, k.stage \in Replacing, NEW m \in Leases PROVE k.new # lease'[m].container
      <3>1. k.new \in used /\ k.new # lease[m].container
        BY <1>0, <2>1, ReplacingIs DEF Apart
      <3>. QED  BY <1>1, <1>2, <3>1
    <2>. QED  BY <1>0, <1>1, <2>1 DEF Apart
  <1>. QED  BY <1>3, <1>4, <1>5 DEF HoldInv, HandlersOK

\* A lease that is closed has no handler that is waited for, and keeps its container's name.
LEMMA CloseHolds ==
    ASSUME HandlerInv, NEW l \in Leases, Close(l) \/ FaultKill(l) \/ RerunRefused(l)
    PROVE  HoldInv'
  <1>0. TypeOK /\ LeasesOK /\ HandlersOK /\ Apart
    BY DEF HandlerInv
  <1>1. /\ jobs' = jobs /\ used' = used /\ UNCHANGED storeVars
        /\ running \ {lease[l].container} \subseteq running' /\ running' \subseteq running
        /\ tracked' \subseteq tracked
    BY DEF Close, FaultKill, RerunRefused, dockerVars
  <1>2. ASSUME NEW m \in Leases
        PROVE  /\ lease'[m].container = lease[m].container /\ lease'[m].generation = lease[m].generation
               /\ m # l \/ Locked(l) => lease'[m].status = lease[m].status
               /\ lease'[m].status = "none" <=> lease[m].status = "none"
               /\ client'[m].latest = client[m].latest
               /\ client[m].restart => client'[m].restart
    <2>1. CASE Close(l)
      BY <1>0, <2>1, LeaseFields DEF Close, IsOpen, TypeOK, LeaseRecords
    <2>2. CASE FaultKill(l)
      BY <1>0, <2>2, LeaseFields DEF FaultKill, TypeOK, Clients
    <2>3. CASE RerunRefused(l)
      BY <1>0, <2>3, LeaseFields DEF RerunRefused, TypeOK, Clients
    <2>. QED  BY <2>1, <2>2, <2>3
  <1>3. LeasesOK' /\ Apart'
    BY <1>0, <1>1, <1>2, LeasesStay, ApartFewer
  <1>4. ASSUME NEW k \in jobs' PROVE HandlerOK(k)'
    <2>1. k \in jobs /\ k.lease \in Leases /\ HandlerOK(k)
      BY <1>0, <1>1, JobFields DEF HandlersOK
    <2>2. k.waited => lease'[k.lease].status = lease[k.lease].status
      BY <1>1, <1>2, <2>1 DEF Locked
    <2>3. k.stage \in Replacing => k.new \in running /\ k.new # lease[l].container
      BY <1>0, <2>1, ReplacingIs DEF Apart
    <2>4. Known(k.lease)' = Known(k.lease) /\ record' = record
      BY <1>1 DEF storeVars, Known
    <2>5. LeavesAlone(k)
      BY <1>1, <1>2, <2>1, <2>2, <2>3, <2>4 DEF LeavesAlone, Replacing
    <2>. QED  BY <2>1, <2>5, HandlerFrame
  <1>. QED  BY <1>3, <1>4 DEF HoldInv, HandlersOK

\* A new call of a lease is the only one that is waited for, and finds no rerun under way.
LEMMA BeginApart ==
    ASSUME HandlerInv, NEW l \in Leases, ~Locked(l), IsOpen(l), NEW n \in Jobs,
           n.lease = l, n.new = NoContainer, n.container = lease[l].container, n.stage \notin Replacing,
           n.kind = "rerun" => ~client[l].restart,
           n.kind = "create" => \A k \in jobs : k.kind = "create" => k.id # n.id,
           lease' = lease, jobs' = jobs \union {n}
    PROVE  Apart'
  <1>0. TypeOK /\ LeasesOK /\ HandlersOK /\ Apart
    BY DEF HandlerInv
  <1>1. \A k \in jobs : k.lease = l => ~k.waited
    BY DEF Locked
  <1>2. ASSUME n.kind = "rerun", NEW k \in jobs, k.lease = l PROVE k.kind # "rerun"
    BY <1>0, <1>1, <1>2 DEF HandlersOK, HandlerOK, Reruns
  <1>3. \A k1, k2 \in jobs' : k1.lease = k2.lease /\ k1.waited /\ k2.waited => k1 = k2
    BY <1>0, <1>1 DEF Apart
  <1>4. \A k1, k2 \in jobs' : k1.lease = k2.lease /\ k1.kind = "rerun" /\ k2.kind = "rerun" => k1 = k2
    BY <1>0, <1>2 DEF Apart
  <1>5. \A k1, k2 \in jobs' : k1.kind = "create" /\ k2.kind = "create" /\ k1.id = k2.id => k1 = k2
    BY <1>0 DEF Apart
  <1>6. ASSUME NEW k1 \in jobs', k1.stage \in Replacing
        PROVE  /\ \A k \in jobs' : k1.new # k.container /\ (k # k1 => k1.new # k.new)
               /\ \A m \in Leases : k1.new # lease'[m].container
    <2>1. k1 \in jobs /\ k1.new # NoContainer
      BY <1>0, <1>6, ReplacingIs
    <2>. QED  BY <1>0, <1>6, <2>1 DEF Apart
  <1>. QED  BY <1>3, <1>4, <1>5, <1>6 DEF Apart

\* A rerun begins under the lifecycle lock, so that there is none other of the lease.  A rerun
\* nobody waits for any more has sent the rollout back to the base image.
LEMMA BeginRerunHolds ==
    ASSUME HandlerInv, NEW l \in Leases, BeginRerun(l)
    PROVE  HoldInv'
  <1>0. TypeOK /\ LeasesOK /\ HandlersOK /\ Apart
    BY DEF HandlerInv
  <1>1. /\ UNCHANGED <<storeVars, dockerVars, lease, client>>
        /\ IsOpen(l) /\ ~Locked(l) /\ ~client[l].restart /\ lease[l].generation < MaxReruns
        /\ client[l].latest \in Ids
    BY ReadyKnown DEF BeginRerun
  <1>2. PICK n \in Jobs :
          /\ jobs' = jobs \union {n}
          /\ n.kind = "rerun" /\ n.id = client[l].latest /\ n.lease = l /\ n.container = lease[l].container
          /\ n.new = NoContainer /\ n.stage = "restoring" /\ n.waited
    <2>. DEFINE m == [kind |-> "rerun", id |-> client[l].latest, lease |-> l,
                      container |-> lease[l].container, new |-> NoContainer,
                      stage |-> "restoring", waited |-> TRUE]
    <2>1. m \in Jobs
      BY <1>0, <1>1, OpenContainer DEF Jobs
    <2>2. jobs' = jobs \union {m}
      BY DEF BeginRerun
    <2>. QED  BY <2>1, <2>2
  <1>4. Apart'
    BY <1>1, <1>2, BeginApart DEF Replacing
  <1>5. HandlerOK(n)'
    <2>1. lease[l].container \in used
      BY <1>0, <1>1, OpenContainer
    <2>2. /\ lease' = lease /\ client' = client /\ used' = used /\ IsOpen(l)'
      BY <1>1 DEF dockerVars, IsOpen
    <2>3. Reruns(n)'
      BY <1>1, <1>2, <2>2 DEF Reruns, Replacing
    <2>. QED  BY <1>2, <2>1, <2>2, <2>3 DEF HandlerOK
  <1>6. \A k \in jobs : HandlerOK(k)'
    <2>1. ASSUME NEW k \in jobs PROVE HandlerOK(k)'
      <3>1. HandlerOK(k) /\ (k.stage \in Replacing => k.new \in running)
        BY <1>0, ReplacingIs DEF HandlersOK
      <3>2. Known(k.lease)' = Known(k.lease)
        BY <1>1 DEF storeVars, Known
      <3>3. LeavesAlone(k)
        BY <1>1, <3>1, <3>2 DEF LeavesAlone, storeVars, dockerVars
      <3>. QED  BY <3>1, <3>3, HandlerFrame
    <2>. QED  BY <2>1
  <1>7. LeasesOK'
    BY <1>0, <1>1, LeasesStay DEF dockerVars
  <1>. QED  BY <1>2, <1>4, <1>5, <1>6, <1>7 DEF HoldInv, HandlersOK

\* A checkpoint begins under the lifecycle lock, with an id that is the greatest of its lease.
LEMMA BeginCreateHolds ==
    ASSUME HandlerInv, NEW l \in Leases, BeginCreate(l)
    PROVE  HoldInv'
  <1>0. TypeOK /\ LeasesOK /\ HandlersOK /\ Apart /\ Ordered
    BY DEF HandlerInv
  <1>1. /\ UNCHANGED <<dockerVars, lease>> /\ IsOpen(l) /\ ~Locked(l) /\ created \in Nat
        /\ lease[l].container \in Containers
    BY <1>0, NewId, OpenContainer DEF BeginCreate
  <1>2. \A m \in Leases : client'[m].latest = client[m].latest /\ client'[m].restart = client[m].restart
    <2>1. client' = [client EXCEPT ![l].step = client[l].step + 1]
      BY DEF BeginCreate
    <2>. QED  BY <1>0, <2>1, LeaseFields DEF TypeOK, Clients
  <1>3. PICK i \in Ids :
          /\ i = created + 1 /\ record'[i].status = "pending" /\ record'[i].lease = l
          /\ \A k \in Ids : k # i => record'[k] = record[k]
    BY <1>0, NewId DEF BeginCreate, TypeOK
  <1>4. PICK n \in Jobs :
          /\ jobs' = jobs \union {n}
          /\ n.kind = "create" /\ n.id = i /\ n.lease = l /\ n.container = lease[l].container
          /\ n.new = NoContainer /\ n.stage = "queued" /\ n.waited
    <2>. DEFINE m == [kind |-> "create", id |-> i, lease |-> l,
                      container |-> lease[l].container, new |-> NoContainer,
                      stage |-> "queued", waited |-> TRUE]
    <2>1. m \in Jobs
      BY <1>1 DEF Jobs
    <2>2. jobs' = jobs \union {m}
      BY <1>3 DEF BeginCreate
    <2>. QED  BY <2>1, <2>2
  <1>6. \A k \in Ids : k \in Nat
    BY BoundsAssumption DEF Ids
  <1>7. ASSUME NEW m \in Leases, NEW k \in Known(m) PROVE k \in Ids /\ k <= created /\ k # i
    <2>1. k \in Ids /\ record[k].status # "none"
      BY DEF Known
    <2>2. ~(k > created)
      BY <1>0, <2>1 DEF Ordered
    <2>3. k \in Nat /\ created \in Nat /\ i = created + 1
      BY <1>1, <1>3, <1>6, <2>1
    <2>. QED  BY <2>1, <2>2, <2>3
  <1>8. /\ \A m \in Leases \ {l} : Known(m)' = Known(m)
        /\ Known(l)' = Known(l) \union {i}
    <2>1. \A m \in Leases, k \in Ids : k # i => (k \in Known(m)' <=> k \in Known(m))
      BY <1>3 DEF Known
    <2>2. i \in Known(l)' /\ \A m \in Leases \ {l} : i \notin Known(m)'
      BY <1>1, <1>3 DEF Known
    <2>3. \A m \in Leases : Known(m) \subseteq Ids /\ Known(m)' \subseteq Ids
      BY DEF Known
    <2>4. \A m \in Leases : i \notin Known(m)
      BY <1>7
    <2>. QED  BY <1>1, <2>1, <2>2, <2>3, <2>4
  <1>9. \A k \in jobs : k.kind = "create" => k.id # i /\ k.id \in Ids
    <2>1. ASSUME NEW k \in jobs, k.kind = "create" PROVE k.id # i /\ k.id \in Ids
      <3>1. k.lease \in Leases /\ k.id \in Known(k.lease)
        BY <1>0, <2>1, JobFields DEF HandlersOK, HandlerOK, Creates
      <3>. QED  BY <1>7, <3>1
    <2>. QED  BY <2>1
  <1>10. Apart'
    BY <1>1, <1>4, <1>9, BeginApart DEF Replacing
  <1>11. HandlerOK(n)'
    <2>1. lease[l].container \in used /\ used' = used /\ IsOpen(l)'
      BY <1>0, <1>1, OpenContainer DEF dockerVars, IsOpen
    <2>2. \A k \in Known(l)' : k <= i
      <3>1. ASSUME NEW k \in Known(l)' PROVE k <= i
        <4>1. k = i \/ k \in Known(l)
          BY <1>8
        <4>2. k \in Known(l) => k \in Nat /\ k <= created
          BY <1>6, <1>7
        <4>. QED  BY <1>1, <1>3, <1>6, <4>1, <4>2
      <3>. QED  BY <3>1
    <2>3. Creates(n)'
      BY <1>3, <1>4, <1>8, <2>2 DEF Creates, CreateStages
    <2>. QED  BY <1>4, <2>1, <2>3 DEF HandlerOK
  <1>12. \A k \in jobs : HandlerOK(k)'
    <2>1. ASSUME NEW k \in jobs PROVE HandlerOK(k)'
      <3>1. HandlerOK(k) /\ (k.stage \in Replacing => k.new \in running) /\ k.lease \in Leases
        BY <1>0, ReplacingIs, JobFields DEF HandlersOK
      <3>2. k.waited => k.lease # l
        BY <1>1 DEF Locked
      <3>3. k.kind = "create" => record'[k.id] = record[k.id]
        BY <1>3, <1>9
      <3>4. Known(k.lease) \subseteq Known(k.lease)' /\ (k.waited => Known(k.lease)' = Known(k.lease))
        BY <1>8, <3>1, <3>2
      <3>5. LeavesAlone(k)
        BY <1>1, <1>2, <3>1, <3>3, <3>4 DEF LeavesAlone, dockerVars
      <3>. QED  BY <3>1, <3>5, HandlerFrame
    <2>. QED  BY <2>1
  <1>13. LeasesOK'
    BY <1>0, <1>1, LeasesStay DEF dockerVars
  <1>. QED  BY <1>4, <1>10, <1>11, <1>12, <1>13 DEF HoldInv, HandlersOK

\* A handler that has moved on, with the fields it keeps.
LEMMA Moved ==
    ASSUME TypeOK, NEW j \in jobs, NEW s, Advance(j, s)
    PROVE  \E j2 : /\ jobs' = (jobs \ {j}) \union {j2} /\ j2.stage = s
                   /\ j2.kind = j.kind /\ j2.id = j.id /\ j2.lease = j.lease
                   /\ j2.container = j.container /\ j2.new = j.new /\ j2.waited = j.waited
  <1>. DEFINE m == [j EXCEPT !.stage = s]
  <1>1. /\ m.stage = s /\ m.kind = j.kind /\ m.id = j.id /\ m.lease = j.lease
        /\ m.container = j.container /\ m.new = j.new /\ m.waited = j.waited
    BY JobFields DEF Jobs
  <1>2. jobs' = (jobs \ {j}) \union {m}
    BY DEF Advance
  <1>. HIDE DEF m
  <1>. QED  BY <1>1, <1>2

\* The others are left alone, and the one that moves keeps its promises.
LEMMA MovesHold ==
    ASSUME HoldInv, TypeOK, LeasesOK', Apart', NEW j \in jobs, NEW j2,
           jobs' = (jobs \ {j}) \union {j2},
           \A k \in jobs \ {j} : LeavesAlone(k), HandlerOK(j2)'
    PROVE  HoldInv'
  <1>1. \A k \in jobs \ {j} : HandlerOK(k)'
    BY HandlerFrame DEF HoldInv, HandlersOK
  <1>. QED  BY <1>1 DEF HoldInv, HandlersOK

\* The artifact is written while the record is pending.
LEMMA CommitHolds ==
    ASSUME HandlerInv, NEW j \in jobs, CommitSource(j)
    PROVE  HoldInv' /\ RecordsMove
  <1>0. TypeOK /\ HoldInv /\ HandlersOK /\ LeasesOK /\ Apart
    BY DEF HandlerInv, HoldInv
  <1>1. UNCHANGED <<setup, record, created, dockerVars, lease, client>> /\ j.stage = "queued" /\ j.kind = "create"
    BY DEF CommitSource
  <1>2. PICK j2 : /\ jobs' = (jobs \ {j}) \union {j2} /\ j2.stage = "committed"
                  /\ j2.kind = j.kind /\ j2.id = j.id /\ j2.lease = j.lease
                  /\ j2.container = j.container /\ j2.new = j.new /\ j2.waited = j.waited
    BY <1>0, Moved DEF CommitSource
  <1>3. Apart'
    BY <1>0, <1>1, <1>2, ApartMoves DEF Replacing
  <1>4. LeasesOK'
    BY <1>0, <1>1, LeasesStay DEF dockerVars
  <1>5. ASSUME NEW k \in jobs PROVE LeavesAlone(k)
    <2>1. k.stage \in Replacing => k.new \in running
      BY <1>0, ReplacingIs
    <2>2. Known(k.lease)' = Known(k.lease)
      BY <1>1 DEF Known
    <2>. QED  BY <1>1, <2>1, <2>2 DEF LeavesAlone, dockerVars
  <1>6. HandlerOK(j2)'
    <2>1. HandlerOK(j) /\ HandlerOK(j)'
      BY <1>0, <1>5, HandlerFrame DEF HandlersOK
    <2>. QED  BY <1>1, <1>2, <2>1 DEF HandlerOK, Creates, CreateStages, IsOpen
  <1>7. HoldInv'
    BY <1>0, <1>2, <1>3, <1>4, <1>5, <1>6, MovesHold
  <1>8. RecordsMove
    BY <1>1 DEF RecordsMove, SameButStatus
  <1>. QED  BY <1>7, <1>8

\* A checkpoint that ends, ready or failed, changes its own record and no other handler's.
LEMMA CreateEndsHolds ==
    ASSUME HandlerInv, NEW j \in jobs, CreateFails(j) \/ CreateReady(j)
    PROVE  HoldInv' /\ RecordsMove
  <1>0. TypeOK /\ HoldInv /\ HandlersOK /\ LeasesOK /\ Apart
    BY DEF HandlerInv, HoldInv
  <1>1. /\ UNCHANGED <<setup, created, used, tracked, image, lease, client>>
        /\ j.stage \in {"queued", "committed"} /\ j.kind = "create" /\ j.id \in Ids /\ j.lease \in Leases
        /\ running' \subseteq running /\ running \ {j.container} \subseteq running'
    BY <1>0, JobFields DEF CreateFails, CreateReady, LeftRunning, dockerVars
  <1>2. PICK s \in {"ready", "failed"} :
          Advance(j, s) /\ record' = [record EXCEPT ![j.id].status = s]
    BY DEF CreateFails, CreateReady
  <1>3. PICK j2 : /\ jobs' = (jobs \ {j}) \union {j2} /\ j2.stage = s
                  /\ j2.kind = j.kind /\ j2.id = j.id /\ j2.lease = j.lease
                  /\ j2.container = j.container /\ j2.new = j.new /\ j2.waited = j.waited
    BY <1>0, <1>2, Moved
  <1>4. HandlerOK(j) /\ record[j.id].status = "pending" /\ j.id \in Known(j.lease)
    BY <1>0, <1>1 DEF HandlersOK, HandlerOK, Creates
  <1>5. RecordsMove
    BY <1>0, <1>1, <1>2, <1>4, StatusMoves
  <1>6. Apart'
    BY <1>0, <1>1, <1>3, ApartMoves DEF Replacing
  <1>7. LeasesOK'
    BY <1>0, <1>1, LeasesStay
  <1>8. ASSUME NEW k \in jobs \ {j} PROVE LeavesAlone(k)
    <2>1. k.stage \in Replacing => k.new \in running /\ k.new # j.container
      BY <1>0, ReplacingIs DEF Apart
    <2>2. Known(k.lease)' = Known(k.lease)
      BY <1>5, KnownSame
    <2>3. k.kind = "create" => k.id # j.id
      BY <1>0, <1>1 DEF Apart
    <2>4. k.kind = "create" => record'[k.id] = record[k.id]
      BY <1>0, <1>1, <1>2, <2>3, JobFields DEF TypeOK
    <2>. QED  BY <1>1, <2>1, <2>2, <2>4 DEF LeavesAlone
  <1>9. HandlerOK(j2)'
    <2>1. Known(j.lease)' = Known(j.lease)
      BY <1>5, KnownSame
    <2>2. Creates(j2)'
      BY <1>1, <1>3, <1>4, <2>1 DEF HandlerOK, Creates, CreateStages
    <2>. QED  BY <1>1, <1>3, <1>4, <2>2 DEF HandlerOK, IsOpen
  <1>10. HoldInv'
    BY <1>0, <1>3, <1>6, <1>7, <1>8, <1>9, MovesHold
  <1>. QED  BY <1>5, <1>10

\* The answer of a checkpoint changes what the rollout would rerun from, but no rerun of it
\* is waited for: the lifecycle lock is the checkpoint's.
LEMMA CreateAnsweredHolds ==
    ASSUME HandlerInv, NEW j \in jobs, CreateAnswered(j)
    PROVE  HoldInv'
  <1>0. TypeOK /\ HoldInv /\ HandlersOK /\ LeasesOK /\ Apart
    BY DEF HandlerInv, HoldInv
  <1>1. /\ UNCHANGED <<storeVars, dockerVars>> /\ jobs' = jobs \ {j}
        /\ j.waited /\ j.stage = "ready" /\ j.lease \in Leases
    BY <1>0, JobFields DEF CreateAnswered, Forget
  <1>2. ASSUME NEW m \in Leases
        PROVE  /\ lease'[m].container = lease[m].container /\ lease'[m].generation = lease[m].generation
               /\ lease'[m].status = lease[m].status
               /\ m # j.lease => client'[m].latest = client[m].latest
               /\ client'[m].restart = client[m].restart
    BY <1>0, <1>1, LeaseFields DEF CreateAnswered, TypeOK, LeaseRecords, Clients
  <1>3. Apart' /\ LeasesOK'
    BY <1>0, <1>1, <1>2, ApartFewer, LeasesStay DEF dockerVars
  <1>4. ASSUME NEW k \in jobs' PROVE HandlerOK(k)'
    <2>1. k \in jobs /\ k # j /\ HandlerOK(k) /\ k.lease \in Leases
      BY <1>0, <1>1, JobFields DEF HandlersOK
    <2>2. k.waited => k.lease # j.lease
      BY <1>0, <1>1, <2>1 DEF Apart
    <2>3. k.stage \in Replacing => k.new \in running
      BY <1>0, <2>1, ReplacingIs
    <2>4. Known(k.lease)' = Known(k.lease) /\ record' = record
      BY <1>1 DEF Known, storeVars
    <2>5. LeavesAlone(k)
      BY <1>1, <1>2, <2>1, <2>2, <2>3, <2>4 DEF LeavesAlone, dockerVars
    <2>. QED  BY <2>1, <2>5, HandlerFrame
  <1>. QED  BY <1>3, <1>4 DEF HoldInv, HandlersOK

\* The new container of a rerun was never used, so nobody else has it.
LEMMA RestoreHolds ==
    ASSUME HandlerInv, NEW j \in jobs, NEW c \in Containers, RestoreTarget(j, c)
    PROVE  HoldInv'
  <1>0. /\ TypeOK /\ HoldInv /\ HandlersOK /\ LeasesOK /\ Apart /\ NoContainer \notin Containers
        /\ used \subseteq Containers /\ running \subseteq used /\ tracked \subseteq used
    BY ContainersAssumption DEF HandlerInv, HoldInv, TypeOK
  <1>1. /\ UNCHANGED <<storeVars, tracked, image, lease, client>>
        /\ used' = used \union {c} /\ running' = running \union {c} /\ c \notin used
        /\ j.stage = "restoring" /\ j.kind = "rerun"
    BY <1>0, RerunStages DEF RestoreTarget
  <1>2. PICK j2 : /\ jobs' = (jobs \ {j}) \union {j2} /\ j2.stage = "restored"
                  /\ j2.kind = j.kind /\ j2.id = j.id /\ j2.lease = j.lease
                  /\ j2.container = j.container /\ j2.new = c /\ j2.waited = j.waited
    <2>. DEFINE m == [j EXCEPT !.stage = "restored", !.new = c]
    <2>1. /\ m.stage = "restored" /\ m.kind = j.kind /\ m.id = j.id /\ m.lease = j.lease
          /\ m.container = j.container /\ m.new = c /\ m.waited = j.waited
      BY <1>0, JobFields DEF Jobs
    <2>2. jobs' = (jobs \ {j}) \union {m}
      BY DEF RestoreTarget
    <2>. HIDE DEF m
    <2>. QED  BY <2>1, <2>2
  <1>3. \A k \in jobs : HandlerOK(k) /\ k.container \in used /\ k.new \in used \union {NoContainer}
    BY <1>0 DEF HandlersOK, HandlerOK
  <1>4. LeasesOK'
    BY <1>0, <1>1, LeasesStay
  <1>5. Apart'
    <2>1. \A k1, k2 \in jobs' : k1.lease = k2.lease /\ k1.waited /\ k2.waited => k1 = k2
      BY <1>0, <1>2 DEF Apart
    <2>2. \A k1, k2 \in jobs' : k1.lease = k2.lease /\ k1.kind = "rerun" /\ k2.kind = "rerun" => k1 = k2
      BY <1>0, <1>2 DEF Apart
    <2>3. \A k1, k2 \in jobs' : k1.kind = "create" /\ k2.kind = "create" /\ k1.id = k2.id => k1 = k2
      BY <1>0, <1>2 DEF Apart
    <2>4. ASSUME NEW k1 \in jobs', k1.stage \in Replacing
          PROVE  /\ \A k \in jobs' : k1.new # k.container /\ (k # k1 => k1.new # k.new)
                 /\ \A m \in Leases : k1.new # lease'[m].container
      <3>1. CASE k1 = j2
        <4>1. \A k \in jobs : c # k.container /\ c # k.new
          BY <1>0, <1>1, <1>3
        <4>2. \A m \in Leases : c # lease[m].container
          BY <1>0, <1>1, ContainersAssumption DEF LeasesOK
        <4>. QED  BY <1>1, <1>2, <3>1, <4>1, <4>2
      <3>2. CASE k1 \in jobs
        <4>1. k1.new \in used
          BY <1>0, <2>4, <3>2, ReplacingIs
        <4>. QED  BY <1>0, <1>1, <1>2, <2>4, <3>2, <4>1 DEF Apart
      <3>. QED  BY <1>2, <3>1, <3>2
    <2>. QED  BY <2>1, <2>2, <2>3, <2>4 DEF Apart
  <1>6. ASSUME NEW k \in jobs PROVE LeavesAlone(k)
    <2>1. k.stage \in Replacing => k.new \in running
      BY <1>0, ReplacingIs
    <2>2. Known(k.lease)' = Known(k.lease) /\ record' = record
      BY <1>1 DEF Known, storeVars
    <2>3. k.container # c
      BY <1>1, <1>3
    <2>. QED  BY <1>1, <2>1, <2>2, <2>3 DEF LeavesAlone
  <1>7. HandlerOK(j2)'
    <2>1. HandlerOK(j) /\ HandlerOK(j)'
      BY <1>0, <1>6, HandlerFrame DEF HandlersOK
    <2>2. c \notin tracked' /\ c \in running' /\ c \in used'
      BY <1>0, <1>1
    <2>3. Reruns(j2)'
      BY <1>1, <1>2, <2>1, <2>2 DEF HandlerOK, Reruns, Replacing
    <2>. QED  BY <1>1, <1>2, <2>1, <2>2, <2>3 DEF HandlerOK, IsOpen
  <1>. QED  BY <1>0, <1>2, <1>4, <1>5, <1>6, <1>7, MovesHold

\* The steps of a rerun after its restore touch the two containers that it has in hand.
LEMMA RerunMovesHold ==
    ASSUME HandlerInv, NEW j \in jobs,
           DestroyOld(j) \/ SwapTracked(j) \/ MarkUsed(j) \/ RerunFails(j)
    PROVE  HoldInv'
  <1>0. /\ TypeOK /\ HoldInv /\ HandlersOK /\ LeasesOK /\ Apart /\ NoContainer \notin Containers
        /\ used \subseteq Containers /\ running \subseteq used /\ tracked \subseteq used
    BY ContainersAssumption DEF HandlerInv, HoldInv, TypeOK
  <1>1. /\ UNCHANGED <<storeVars, used, lease, client>>
        /\ j.kind = "rerun" /\ HandlerOK(j) /\ Reruns(j)
        /\ j.stage \in Replacing => j.new \in running /\ j.new \in used /\ j.new # j.container
        /\ j.stage \notin Replacing => j.stage = "restoring" /\ j.new = NoContainer
    <2>1. j.stage \in {"restoring"} \union Replacing
      BY DEF DestroyOld, SwapTracked, MarkUsed, RerunFails, Replacing
    <2>2. j.kind = "rerun"
      BY <1>0, <2>1, RerunStages
    <2>3. UNCHANGED <<storeVars, used, lease, client>>
      BY DEF DestroyOld, SwapTracked, MarkUsed, RerunFails, dockerVars
    <2>4. HandlerOK(j) /\ Reruns(j)
      BY <1>0, <2>2 DEF HandlersOK, HandlerOK
    <2>5. j.stage \in Replacing => j.new \in running /\ j.new \in used /\ j.new # j.container
      BY <1>0, ReplacingIs DEF Apart
    <2>6. j.stage \notin Replacing => j.stage = "restoring" /\ j.new = NoContainer
      BY <2>1, <2>4 DEF Reruns
    <2>. QED  BY <2>2, <2>3, <2>4, <2>5, <2>6
  <1>2. \E s \in {"destroyed", "swapped", "done", "failed"} : Advance(j, s)
    BY DEF DestroyOld, SwapTracked, MarkUsed, RerunFails
  <1>3. PICK s \in {"destroyed", "swapped", "done", "failed"} : Advance(j, s)
    BY <1>2
  <1>4. PICK j2 : /\ jobs' = (jobs \ {j}) \union {j2} /\ j2.stage = s
                  /\ j2.kind = j.kind /\ j2.id = j.id /\ j2.lease = j.lease
                  /\ j2.container = j.container /\ j2.new = j.new /\ j2.waited = j.waited
    BY <1>0, <1>3, Moved
  <1>5. LeasesOK'
    BY <1>0, <1>1, LeasesStay
  <1>6. ASSUME NEW k \in jobs, k # j
        PROVE  /\ k.new # j.container \/ k.stage \notin Replacing
               /\ k.new # j.new \/ k.stage \notin Replacing
               /\ k.stage \in Replacing => k.new \in running
    BY <1>0, <1>6, ReplacingIs DEF Apart
  <1>7. ASSUME NEW k \in jobs \ {j},
               running \ {j.container, j.new} \subseteq running',
               running' \subseteq running,
               tracked' \subseteq tracked \union {j.new}
        PROVE  LeavesAlone(k)
    <2>1. Known(k.lease)' = Known(k.lease) /\ record' = record
      BY <1>1 DEF Known, storeVars
    <2>2. k.stage \in Replacing => k.new \in running'
      BY <1>6, <1>7
    <2>3. k.stage \in {"restored", "destroyed"} /\ k.new \notin tracked => k.new \notin tracked'
      BY <1>6, <1>7 DEF Replacing
    <2>. QED  BY <1>1, <1>7, <2>1, <2>2, <2>3 DEF LeavesAlone
  <1>8. CASE DestroyOld(j)
    <2>1. running' = running \ {j.container} /\ tracked' = tracked /\ j.stage = "restored" /\ Advance(j, "destroyed")
      BY <1>8 DEF DestroyOld
    <2>2. PICK j3 : /\ jobs' = (jobs \ {j}) \union {j3} /\ j3.stage = "destroyed"
                  /\ j3.kind = j.kind /\ j3.id = j.id /\ j3.lease = j.lease
                  /\ j3.container = j.container /\ j3.new = j.new /\ j3.waited = j.waited
      BY <1>0, <2>1, Moved
    <2>3. Apart'
      BY <1>0, <1>1, <2>1, <2>2, ApartMoves DEF Replacing
    <2>4. HandlerOK(j3)'
      BY <1>1, <2>1, <2>2 DEF HandlerOK, Reruns, Replacing, IsOpen
    <2>5. \A k \in jobs \ {j} : LeavesAlone(k)
      BY <1>7, <2>1
    <2>. QED  BY <1>0, <1>5, <2>2, <2>3, <2>4, <2>5, MovesHold
  <1>9. CASE SwapTracked(j)
    <2>1. running' = running /\ tracked' = (tracked \ {j.container}) \cup {j.new} /\ j.stage = "destroyed"
          /\ Advance(j, "swapped")
      BY <1>9 DEF SwapTracked
    <2>2. PICK j3 : /\ jobs' = (jobs \ {j}) \union {j3} /\ j3.stage = "swapped"
                  /\ j3.kind = j.kind /\ j3.id = j.id /\ j3.lease = j.lease
                  /\ j3.container = j.container /\ j3.new = j.new /\ j3.waited = j.waited
      BY <1>0, <2>1, Moved
    <2>3. Apart'
      BY <1>0, <1>1, <2>1, <2>2, ApartMoves DEF Replacing
    <2>4. HandlerOK(j3)'
      BY <1>1, <2>1, <2>2 DEF HandlerOK, Reruns, Replacing, IsOpen
    <2>5. \A k \in jobs \ {j} : LeavesAlone(k)
      BY <1>7, <2>1
    <2>. QED  BY <1>0, <1>5, <2>2, <2>3, <2>4, <2>5, MovesHold
  <1>10. CASE MarkUsed(j)
    <2>1. running' = running /\ tracked' = tracked /\ j.stage = "swapped" /\ Advance(j, "done")
      BY <1>10 DEF MarkUsed, dockerVars
    <2>2. PICK j3 : /\ jobs' = (jobs \ {j}) \union {j3} /\ j3.stage = "done"
                  /\ j3.kind = j.kind /\ j3.id = j.id /\ j3.lease = j.lease
                  /\ j3.container = j.container /\ j3.new = j.new /\ j3.waited = j.waited
      BY <1>0, <2>1, Moved
    <2>3. Apart'
      BY <1>0, <1>1, <2>1, <2>2, ApartMoves DEF Replacing
    <2>4. HandlerOK(j3)'
      BY <1>1, <2>1, <2>2 DEF HandlerOK, Reruns, Replacing, IsOpen
    <2>5. \A k \in jobs \ {j} : LeavesAlone(k)
      BY <1>7, <2>1
    <2>. QED  BY <1>0, <1>5, <2>2, <2>3, <2>4, <2>5, MovesHold
  <1>11. CASE RerunFails(j)
    <2>1. /\ running' \in {running, running \ {j.new}}
          /\ tracked' = tracked /\ Advance(j, "failed")
      BY <1>11 DEF RerunFails
    <2>2. PICK j3 : /\ jobs' = (jobs \ {j}) \union {j3} /\ j3.stage = "failed"
                  /\ j3.kind = j.kind /\ j3.id = j.id /\ j3.lease = j.lease
                  /\ j3.container = j.container /\ j3.new = j.new /\ j3.waited = j.waited
      BY <1>0, <2>1, Moved
    <2>3. Apart'
      BY <1>0, <1>1, <2>1, <2>2, ApartMoves DEF Replacing
    <2>4. HandlerOK(j3)'
      BY <1>1, <2>1, <2>2 DEF HandlerOK, Reruns, Replacing, IsOpen
    <2>5. \A k \in jobs \ {j} : LeavesAlone(k)
      BY <1>7, <2>1
    <2>. QED  BY <1>0, <1>5, <2>2, <2>3, <2>4, <2>5, MovesHold
  <1>. QED  BY <1>8, <1>9, <1>10, <1>11

\* The answers of reruns and of failures: the new container goes to the lease, whose old one
\* no handler has.
LEMMA AnswersHold ==
    ASSUME HandlerInv, NEW j \in jobs, RerunAnswered(j) \/ FailureAnswered(j) \/ AnswerDropped(j)
    PROVE  HoldInv' /\ \A l \in Leases : Forward(l)
  <1>0. TypeOK /\ HoldInv /\ HandlersOK /\ LeasesOK /\ Apart
    BY DEF HandlerInv, HoldInv
  <1>1. UNCHANGED <<storeVars, dockerVars>> /\ jobs' = jobs \ {j} /\ j.lease \in Leases
    BY <1>0, JobFields DEF RerunAnswered, FailureAnswered, AnswerDropped, Forget
  <1>2. ASSUME NEW k \in jobs \ {j}, LeavesAlone(k) PROVE HandlerOK(k)'
    BY <1>0, <1>2, HandlerFrame DEF HandlersOK
  <1>3. ASSUME NEW k \in jobs \ {j}
        PROVE  /\ Known(k.lease)' = Known(k.lease) /\ record' = record /\ k.lease \in Leases
               /\ k.stage \in Replacing => k.new \in running
    BY <1>0, <1>1, JobFields, ReplacingIs DEF Known, storeVars
  <1>4. CASE RerunAnswered(j)
    <2>1. /\ j.waited /\ j.stage = "done"
          /\ lease' = [lease EXCEPT ![j.lease].container = j.new,
                                    ![j.lease].generation = lease[j.lease].generation + 1]
      BY <1>4 DEF RerunAnswered
    <2>2. /\ j.kind = "rerun" /\ j.new \in used /\ IsOpen(j.lease)
      BY <1>0, <2>1, RerunStages, ReplacingIs DEF HandlersOK, HandlerOK, Replacing
    <2>3. /\ \A m \in Leases \ {j.lease} : lease'[m] = lease[m] /\ client'[m] = client[m]
          /\ lease'[j.lease].container = j.new
          /\ lease'[j.lease].generation = lease[j.lease].generation + 1
          /\ lease'[j.lease].status = lease[j.lease].status
      BY <1>0, <1>1, <1>4, <2>1, LeaseFields, SMTT(30) DEF RerunAnswered, TypeOK, LeaseRecords
    <2>4. LeasesOK'
      <3>1. \A m \in Leases : lease[m].container # j.new
        BY <1>0, <2>1 DEF Apart, Replacing
      <3>. QED  BY <1>0, <1>1, <2>2, <2>3, <3>1 DEF LeasesOK, IsOpen, dockerVars
    <2>5. Apart'
      <3>1. ASSUME NEW k \in jobs', k.stage \in Replacing, NEW m \in Leases PROVE k.new # lease'[m].container
        BY <1>0, <1>1, <2>3, <3>1 DEF Apart
      <3>. QED  BY <1>0, <1>1, <3>1 DEF Apart
    <2>6. ASSUME NEW k \in jobs \ {j} PROVE LeavesAlone(k)
      <3>1. k.waited \/ k.kind = "rerun" => k.lease # j.lease
        BY <1>0, <2>1, <2>2 DEF Apart
      <3>. QED  BY <1>1, <1>3, <2>3, <3>1 DEF LeavesAlone, dockerVars
    <2>7. \A l \in Leases : Forward(l)
      BY <2>3 DEF Forward
    <2>. QED  BY <1>1, <1>2, <2>4, <2>5, <2>6, <2>7 DEF HoldInv, HandlersOK
  <1>5. CASE FailureAnswered(j) \/ AnswerDropped(j)
    <2>1. lease' = lease
      BY <1>5 DEF FailureAnswered, AnswerDropped
    <2>2. \A m \in Leases : /\ client'[m].latest = client[m].latest /\ client'[m].step = client[m].step
                            /\ client[m].restart => client'[m].restart
      BY <1>0, <1>1, <1>5, LeaseFields DEF FailureAnswered, AnswerDropped, TypeOK, Clients
    <2>3. LeasesOK' /\ Apart'
      BY <1>0, <1>1, <2>1, LeasesStay, ApartFewer DEF dockerVars
    <2>4. ASSUME NEW k \in jobs \ {j} PROVE LeavesAlone(k)
      BY <1>1, <1>3, <2>1, <2>2 DEF LeavesAlone, dockerVars
    <2>5. \A l \in Leases : Forward(l)
      BY <2>1, <2>2 DEF Forward
    <2>. QED  BY <1>1, <1>2, <2>3, <2>4, <2>5 DEF HoldInv, HandlersOK
  <1>. QED  BY <1>4, <1>5

\* A rerun that is not waited for any more sends its rollout back to the base image.
LEMMA TimesOutHolds ==
    ASSUME HandlerInv, NEW j \in jobs, PoolTimesOut(j)
    PROVE  HoldInv' /\ \A l \in Leases : Forward(l)
  <1>0. TypeOK /\ HoldInv /\ HandlersOK /\ LeasesOK /\ Apart
    BY DEF HandlerInv, HoldInv
  <1>1. UNCHANGED <<storeVars, dockerVars, lease>> /\ j.lease \in Leases /\ j.waited /\ j.kind \in {"create", "rerun"}
        /\ j.stage \notin {"ready", "failed", "done"}
    BY <1>0, JobFields DEF PoolTimesOut
  <1>2. PICK j2 : /\ jobs' = (jobs \ {j}) \union {j2} /\ j2.stage = j.stage /\ ~j2.waited
                  /\ j2.kind = j.kind /\ j2.id = j.id /\ j2.lease = j.lease
                  /\ j2.container = j.container /\ j2.new = j.new
    <2>. DEFINE m == [j EXCEPT !.waited = FALSE]
    <2>1. /\ m.stage = j.stage /\ ~m.waited /\ m.kind = j.kind /\ m.id = j.id /\ m.lease = j.lease
          /\ m.container = j.container /\ m.new = j.new
      BY <1>0, JobFields DEF Jobs
    <2>2. jobs' = (jobs \ {j}) \union {m}
      BY DEF PoolTimesOut
    <2>. HIDE DEF m
    <2>. QED  BY <2>1, <2>2
  <1>3. /\ \A m \in Leases : /\ client'[m].latest = client[m].latest /\ client'[m].step = client[m].step
                             /\ client[m].restart => client'[m].restart
        /\ j.kind = "rerun" => client'[j.lease].restart
    BY <1>0, <1>1, LeaseFields DEF PoolTimesOut, TypeOK, Clients
  <1>4. Apart'
    BY <1>0, <1>1, <1>2, ApartMoves
  <1>5. LeasesOK'
    BY <1>0, <1>1, LeasesStay DEF dockerVars
  <1>6. ASSUME NEW k \in jobs PROVE LeavesAlone(k)
    <2>1. /\ Known(k.lease)' = Known(k.lease) /\ record' = record /\ k.lease \in Leases
          /\ k.stage \in Replacing => k.new \in running
      BY <1>0, <1>1, JobFields, ReplacingIs DEF Known, storeVars
    <2>. QED  BY <1>1, <1>3, <2>1 DEF LeavesAlone, dockerVars
  <1>7. HandlerOK(j2)'
    <2>1. HandlerOK(j)'
      BY <1>0, <1>6, HandlerFrame DEF HandlersOK
    <2>. QED  BY <1>1, <1>2, <1>3, <2>1 DEF HandlerOK, Creates, Reruns
  <1>8. \A l \in Leases : Forward(l)
    BY <1>1, <1>3 DEF Forward
  <1>. QED  BY <1>0, <1>2, <1>4, <1>5, <1>6, <1>7, <1>8, MovesHold
-----------------------------------------------------------------------------
(***************************************************************************)
(* The invariant of the handlers.                                          *)
(***************************************************************************)
\* What is doomed stays doomed when records that are ready, failed or deleted stay so.
LEMMA DeletionsKept ==
    ASSUME TypeOK, DeletionsOK, UNCHANGED <<calls, tasks>>, \A i \in Ids : Doomed(i) => Doomed(i)'
    PROVE  DeletionsOK'
  BY TaskFields DEF DeletionsOK

\* The invariant of the handlers holds at first.
LEMMA InitHandler == Init => HandlerInv
  <1>. SUFFICES ASSUME Init PROVE HandlerInv
    OBVIOUS
  <1>0. /\ 0 \in MaybeId /\ 0 \in 0..MaxReruns /\ 0 \in 0..MaxSteps /\ MaxCheckpoints \in Nat
        /\ \A i \in Ids : i \in Nat /\ i > 0
    BY BoundsAssumption DEF MaybeId, Ids
  <1>1. PICK l0 \in Leases :
          record = [i \in Ids |-> [status |-> "none", lease |-> l0, generation |-> 0, step |-> 0, parent |-> 0]]
    <2>1. (CHOOSE l \in Leases : TRUE) \in Leases
      BY LeasesAssumption
    <2>. QED  BY <2>1 DEF Init
  <1>2. record \in [Ids -> Records]
    BY <1>0, <1>1 DEF Records, Statuses
  <1>3. lease \in [Leases -> LeaseRecords] /\ client \in [Leases -> Clients]
    BY <1>0 DEF Init, LeaseRecords, Clients, NoLease, NewClient
  <1>4. TypeOK
    BY <1>0, <1>2, <1>3 DEF Init, TypeOK
  <1>5. \A i \in Ids : record[i].status = "none" /\ record[i].parent = 0
    BY <1>1
  <1>6. \A l : Known(l) = {}
    BY <1>5 DEF Known
  <1>7. Ordered
    BY <1>0, <1>5, <1>6 DEF Ordered, Init
  <1>8. LeasesOK
    BY DEF LeasesOK, Init, NoLease
  <1>9. HandlersOK /\ Apart /\ DeletionsOK
    BY DEF HandlersOK, Apart, DeletionsOK, Init
  <1>. QED  BY <1>4, <1>7, <1>8, <1>9 DEF HandlerInv

\* It is preserved by the steps of a lease and of its rollout,
LEMMA LeaseStepsHandler ==
    ASSUME HandlerInv, NEW l \in Leases,
           \/ \E c \in Containers : Allocate(l, c)
           \/ Close(l) \/ FaultKill(l) \/ BeginCreate(l) \/ BeginRerun(l) \/ RerunRefused(l)
    PROVE  HandlerInv'
  <1>0. TypeOK /\ LeasesOK /\ Ordered /\ DeletionsOK
    BY DEF HandlerInv
  <1>1. CASE BeginCreate(l)
    <2>1. TypeOK' /\ HoldInv'
      BY <1>0, <1>1, BeginCreateTyped, BeginCreateHolds
    <2>2. Ordered'
      <3>1. MayParent(l, client[l].latest)
        BY <1>1 DEF BeginCreate
      <3>. QED  BY <1>0, <1>1, <3>1, BeginCreateOrdered
    <2>3. UNCHANGED <<calls, tasks>>
      BY <1>1 DEF BeginCreate
    <2>4. \A i \in Ids : Doomed(i) => Doomed(i)'
      <3>1. /\ created + 1 \in Ids /\ created \in Nat
            /\ record[created + 1].status = "none"
        BY <1>0, <1>1, NewId DEF Ordered
      <3>2. \A i \in Ids : i # created + 1 => record'[i] = record[i]
        BY <1>0, <1>1, <3>1 DEF BeginCreate, TypeOK
      <3>. QED  BY <3>1, <3>2 DEF Doomed
    <2>. QED  BY <1>0, <2>1, <2>2, <2>3, <2>4, DeletionsKept DEF HandlerInv, HoldInv
  <1>2. CASE \/ \E c \in Containers : Allocate(l, c)
             \/ Close(l) \/ FaultKill(l) \/ BeginRerun(l) \/ RerunRefused(l)
    <2>1. TypeOK'
      <3>1. CASE \E c \in Containers : Allocate(l, c)
        BY <1>0, <3>1, LeaseStepsTyped
      <3>2. CASE Close(l) \/ FaultKill(l) \/ BeginRerun(l) \/ RerunRefused(l)
        <4>1. lease[l].container \in Containers
          BY <1>0, <3>2, OpenContainer DEF Close, FaultKill, BeginRerun, RerunRefused, Working
        <4>. QED  BY <1>0, <3>2, <4>1, LeaseStepsTyped
      <3>. QED  BY <1>2, <3>1, <3>2
    <2>2. HoldInv'
      BY <1>2, AllocateHolds, CloseHolds, BeginRerunHolds
    <2>3. UNCHANGED <<storeVars, calls, tasks>>
      BY <1>2 DEF Allocate, Close, FaultKill, BeginRerun, RerunRefused
    <2>4. \A m \in Leases : Forward(m)
      <3>1. ASSUME NEW m \in Leases PROVE lease'[m].generation = lease[m].generation
        <4>1. CASE \E c \in Containers : Allocate(l, c)
          <5>1. PICK c : lease' = [lease EXCEPT ![l].status = "open", ![l].container = c]
            BY <4>1 DEF Allocate
          <5>. QED  BY <1>0, <5>1, LeaseFields DEF TypeOK, LeaseRecords
        <4>2. CASE Close(l)
          BY <1>0, <4>2, LeaseFields DEF Close, TypeOK, LeaseRecords
        <4>3. CASE FaultKill(l) \/ BeginRerun(l) \/ RerunRefused(l)
          BY <4>3 DEF FaultKill, BeginRerun, RerunRefused
        <4>. QED  BY <1>2, <4>1, <4>2, <4>3
      <3>2. ASSUME NEW m \in Leases PROVE client'[m].step = client[m].step
        <4>1. CASE FaultKill(l) \/ RerunRefused(l)
          BY <1>0, <4>1, LeaseFields DEF FaultKill, RerunRefused, TypeOK, Clients
        <4>2. CASE \/ \E c \in Containers : Allocate(l, c)
                   \/ Close(l) \/ BeginRerun(l)
          BY <4>2 DEF Allocate, Close, BeginRerun
        <4>. QED  BY <1>2, <4>1, <4>2
      <3>. QED  BY <3>1, <3>2 DEF Forward
    <2>5. Ordered'
      BY <1>0, <2>3, <2>4, RecordsStay, OrderedKept
    <2>6. DeletionsOK'
      BY <1>0, <2>3, DeletionsKept DEF Doomed, storeVars
    <2>. QED  BY <2>1, <2>2, <2>5, <2>6 DEF HandlerInv, HoldInv
  <1>. QED  BY <1>1, <1>2

\* by the steps of handlers,
LEMMA JobStepsHandler ==
    ASSUME HandlerInv, NEW j \in jobs, JobStep(j) \/ PoolTimesOut(j)
    PROVE  HandlerInv'
  <1>0. TypeOK /\ LeasesOK /\ Ordered /\ DeletionsOK
    BY DEF HandlerInv
  <1>1. CASE CommitSource(j) \/ CreateFails(j) \/ CreateReady(j)
    <2>1. TypeOK' /\ HoldInv' /\ RecordsMove
      BY <1>0, <1>1, CreateStepsTyped, CommitHolds, CreateEndsHolds
    <2>2. UNCHANGED <<lease, client, calls, tasks>>
      BY <1>1 DEF CommitSource, CreateFails, CreateReady
    <2>3. Ordered'
      BY <1>0, <2>1, <2>2, OrderedKept DEF Forward
    <2>4. \A i \in Ids : Doomed(i) => Doomed(i)'
      <3>1. j.id \in Ids
        BY <1>0, JobFields
      <3>2. \/ record' = record
            \/ \E s \in {"ready", "failed"} : record' = [record EXCEPT ![j.id].status = s]
        BY <1>1 DEF CommitSource, CreateFails, CreateReady
      <3>3. ASSUME NEW i \in Ids, Doomed(i) PROVE Doomed(i)'
        <4>1. CASE record' = record
          BY <3>3, <4>1 DEF Doomed
        <4>2. CASE \E s \in {"ready", "failed"} : record' = [record EXCEPT ![j.id].status = s]
          <5>1. PICK s \in {"ready", "failed"} : record' = [record EXCEPT ![j.id].status = s]
            BY <4>2
          <5>2. CASE i = j.id
            <6>1. record'[i].status = s
              BY <1>0, <3>1, <5>1, <5>2, RecordFields DEF TypeOK, Records
            <6>. QED  BY <6>1 DEF Doomed
          <5>3. CASE i # j.id
            <6>1. record'[i] = record[i]
              BY <1>0, <3>1, <5>1, <5>3 DEF TypeOK
            <6>. QED  BY <3>3, <6>1 DEF Doomed
          <5>. QED  BY <5>2, <5>3
        <4>. QED  BY <3>2, <4>1, <4>2
      <3>. QED  BY <3>3
    <2>. QED  BY <1>0, <2>1, <2>2, <2>3, <2>4, DeletionsKept DEF HandlerInv, HoldInv
  <1>2. CASE CreateAnswered(j)
    <2>1. TypeOK' /\ HoldInv'
      BY <1>0, <1>2, CreateStepsTyped, CreateAnsweredHolds
    <2>2. UNCHANGED <<storeVars, calls, tasks>> /\ j.lease \in Leases
      BY <1>0, <1>2, JobFields DEF CreateAnswered
    <2>3. \A m \in Leases : Forward(m)
      <3>1. ASSUME NEW m \in Leases PROVE lease'[m].generation = lease[m].generation
        <4>1. PICK p : lease' = [lease EXCEPT ![j.lease].latest = p]
          BY <1>2 DEF CreateAnswered
        <4>. QED  BY <1>0, <2>2, <4>1, LeaseFields DEF TypeOK, LeaseRecords
      <3>2. ASSUME NEW m \in Leases PROVE client'[m].step = client[m].step
        <4>1. CASE client' = [client EXCEPT ![j.lease].latest = j.id]
          BY <1>0, <2>2, <4>1, LeaseFields DEF TypeOK, Clients
        <4>2. CASE client' = client
          BY <4>2
        <4>. QED  BY <1>2, <4>1, <4>2 DEF CreateAnswered
      <3>. QED  BY <3>1, <3>2 DEF Forward
    <2>4. Ordered'
      BY <1>0, <2>2, <2>3, RecordsStay, OrderedKept
    <2>5. DeletionsOK'
      BY <1>0, <2>2, DeletionsKept DEF Doomed, storeVars
    <2>. QED  BY <2>1, <2>4, <2>5 DEF HandlerInv, HoldInv
  <1>3. CASE \/ \E c \in Containers : RestoreTarget(j, c)
             \/ DestroyOld(j) \/ SwapTracked(j) \/ MarkUsed(j) \/ RerunFails(j)
    <2>1. TypeOK'
      <3>1. j.container \in Containers
        BY <1>0, JobFields
      <3>. QED  BY <1>3, <3>1, RerunStepsTyped
    <2>2. HoldInv'
      BY <1>3, RestoreHolds, RerunMovesHold
    <2>3. UNCHANGED <<storeVars, lease, client, calls, tasks>>
      BY <1>3 DEF RestoreTarget, DestroyOld, SwapTracked, MarkUsed, RerunFails
    <2>4. Ordered'
      BY <1>0, <2>3, RecordsStay, OrderedKept DEF Forward
    <2>5. DeletionsOK'
      BY <1>0, <2>3, DeletionsKept DEF Doomed, storeVars
    <2>. QED  BY <2>1, <2>2, <2>4, <2>5 DEF HandlerInv, HoldInv
  <1>4. CASE RerunAnswered(j) \/ FailureAnswered(j) \/ AnswerDropped(j) \/ PoolTimesOut(j)
    <2>1. TypeOK' /\ HoldInv' /\ \A l \in Leases : Forward(l)
      BY <1>4, AnswersTyped, AnswersHold, TimesOutHolds
    <2>2. UNCHANGED <<storeVars, calls, tasks>>
      BY <1>4 DEF RerunAnswered, FailureAnswered, AnswerDropped, PoolTimesOut
    <2>3. Ordered'
      BY <1>0, <2>1, <2>2, RecordsStay, OrderedKept
    <2>4. DeletionsOK'
      BY <1>0, <2>2, DeletionsKept DEF Doomed, storeVars
    <2>. QED  BY <2>1, <2>3, <2>4 DEF HandlerInv, HoldInv
  <1>. QED  BY <1>1, <1>2, <1>3, <1>4 DEF JobStep

\* (what collections and delete calls leave alone)
LEMMA QuietSteps ==
    ASSUME HandlerInv,
           \/ \E k \in setup.keep : CollectNode(k) \/ \E l \in Leases : CollectLease(l, k)
           \/ \E l \in Leases, i \in Ids : BeginDelete(l, i)
           \/ \E t \in tasks : TaskStep(t)
           \/ \E c \in calls : CallStep(c)
    PROVE  /\ TypeOK' /\ DeletionsOK' /\ UNCHANGED <<setup, created, dockerVars, client, jobs>>
           /\ \A l \in Leases : /\ lease'[l].status = lease[l].status
                                /\ lease'[l].container = lease[l].container
                                /\ lease'[l].generation = lease[l].generation
           /\ \/ record' = record
              \/ \E i \in Ids : Doomed(i) /\ record' = [record EXCEPT ![i].status = "deleted"]
  <1>0. TypeOK /\ HoldInv /\ Ordered /\ DeletionsOK
    BY DEF HandlerInv, HoldInv
  <1>1. CASE \E k \in setup.keep : CollectNode(k) \/ \E l \in Leases : CollectLease(l, k)
    <2>1. PICK k \in setup.keep, l \in Leases : CollectNode(k) \/ CollectLease(l, k)
      BY <1>1, LeasesAssumption
    <2>2. TypeOK' /\ DeletionsOK'
      BY <1>0, <2>1, CollectSteps
    <2>3. UNCHANGED <<storeVars, dockerVars, lease, client, jobs>>
      BY <2>1 DEF CollectNode, CollectLease
    <2>. QED  BY <2>2, <2>3 DEF storeVars
  <1>2. CASE \E l \in Leases, i \in Ids : BeginDelete(l, i)
    <2>1. TypeOK' /\ DeletionsOK' /\ UNCHANGED <<storeVars, dockerVars, lease, client, jobs>>
      BY <1>0, <1>2, BeginDeleteDoes
    <2>. QED  BY <2>1 DEF storeVars
  <1>3. CASE \E t \in tasks : TaskStep(t)
    <2>1. PICK t \in tasks : TaskStep(t)
      BY <1>3
    <2>2. /\ TypeOK' /\ DeletionsOK' /\ UNCHANGED <<setup, created, dockerVars, lease, client, jobs>>
          /\ \/ record' = record
             \/ \E i \in t.todo : Doomed(i) /\ record' = [record EXCEPT ![i].status = "deleted"]
      BY <1>0, <2>1, TaskStepDoes
    <2>3. t.todo \subseteq Ids
      BY <1>0, TaskFields
    <2>. QED  BY <2>2, <2>3
  <1>4. CASE \E c \in calls : CallStep(c)
    BY <1>0, <1>4, CallStepDoes
  <1>. QED  BY <1>1, <1>2, <1>3, <1>4

\* by the steps of collections and delete calls,
LEMMA CollectingStepsHandler ==
    ASSUME HandlerInv,
           \/ \E k \in setup.keep : CollectNode(k) \/ \E l \in Leases : CollectLease(l, k)
           \/ \E l \in Leases, i \in Ids : BeginDelete(l, i)
           \/ \E t \in tasks : TaskStep(t)
           \/ \E c \in calls : CallStep(c)
    PROVE  HandlerInv'
  <1>0. TypeOK /\ HoldInv /\ Ordered /\ DeletionsOK
    BY DEF HandlerInv, HoldInv
  <1>1. /\ TypeOK' /\ DeletionsOK' /\ UNCHANGED <<setup, created, dockerVars, client, jobs>>
        /\ \A l \in Leases : /\ lease'[l].status = lease[l].status
                             /\ lease'[l].container = lease[l].container
                             /\ lease'[l].generation = lease[l].generation
        /\ \/ record' = record
           \/ \E i \in Ids : Doomed(i) /\ record' = [record EXCEPT ![i].status = "deleted"]
    BY QuietSteps
  <1>2. RecordsMove
    <2>1. CASE record' = record
      BY <1>1, <2>1 DEF RecordsMove, SameButStatus
    <2>2. CASE \E i \in Ids : Doomed(i) /\ record' = [record EXCEPT ![i].status = "deleted"]
      <3>1. PICK i \in Ids : Doomed(i) /\ record' = [record EXCEPT ![i].status = "deleted"]
        BY <2>2
      <3>2. record[i].status # "none"
        BY <3>1 DEF Doomed
      <3>. QED  BY <1>0, <1>1, <3>1, <3>2, StatusMoves
    <2>. QED  BY <1>1, <2>1, <2>2
  <1>3. Ordered'
    BY <1>0, <1>1, <1>2, OrderedKept DEF Forward
  <1>4. \A i \in Ids : record[i].status = "pending" => record'[i].status = "pending"
    BY <1>0, <1>1 DEF Doomed, TypeOK
  <1>5. HoldInv'
    BY <1>0, <1>1, <1>2, <1>4, QuietHolds
  <1>. QED  BY <1>1, <1>3, <1>5 DEF HandlerInv, HoldInv

\* by a restart,
LEMMA RestartHandler ==
    ASSUME HandlerInv, Restart
    PROVE  HandlerInv'
  <1>0. TypeOK /\ LeasesOK /\ Ordered /\ DeletionsOK
    BY DEF HandlerInv
  <1>1. /\ TypeOK' /\ DeletionsOK' /\ jobs' = {} /\ UNCHANGED <<storeVars, used, lease>>
        /\ \A l \in Leases : client'[l].step = client[l].step
    BY <1>0, RestartDoes
  <1>2. Ordered'
    BY <1>0, <1>1, RecordsStay, OrderedKept DEF Forward
  <1>3. LeasesOK'
    BY <1>0, <1>1, LeasesStay
  <1>4. HandlersOK' /\ Apart'
    BY <1>1 DEF HandlersOK, Apart
  <1>. QED  BY <1>1, <1>2, <1>3, <1>4 DEF HandlerInv

\* and so by every step.
LEMMA HandlerStep == HandlerInv /\ [Next]_vars => HandlerInv'
  <1>. SUFFICES ASSUME HandlerInv, [Next]_vars PROVE HandlerInv'
    OBVIOUS
  <1>1. CASE UNCHANGED vars
    BY <1>1, SMTT(30) DEF vars, storeVars, dockerVars, HandlerInv, TypeOK, Ordered, LeasesOK, HandlersOK,
         HandlerOK,
       Creates, Reruns, Apart, DeletionsOK, Known, NotAhead, Doomed, IsOpen
  <1>2. CASE Next
    BY <1>2, LeaseStepsHandler, JobStepsHandler, CollectingStepsHandler, RestartHandler DEF Next
  <1>. QED  BY <1>1, <1>2

\* The invariant of the handlers: the records of a lease are ordered, every lifecycle lock
\* has one holder and every lease one rerun, a new container is in the hands of one handler
\* only, and what is on its way to be deleted is ready or failed.  It is about the node's
\* handlers going on after the pool stopped waiting for them, and about the collections that
\* run between their docker steps.
THEOREM HandlerInvAlways == Spec => []HandlerInv
  BY InitHandler, HandlerStep, PTL DEF Spec

\* All variables have their types.
THEOREM TypeCorrect == Spec => []TypeOK
  <1>1. HandlerInv => TypeOK
    BY DEF HandlerInv
  <1>. QED  BY <1>1, HandlerInvAlways, PTL
-----------------------------------------------------------------------------
(***************************************************************************)
(* No loss unnoticed.                                                      *)
(***************************************************************************)
\* A rerun is under way that the rollout waits for.
Recovering(l) == \E j \in jobs : j.lease = l /\ j.kind = "rerun" /\ j.waited

\* What a rollout can count on is not taken away.
LossKept(l) ==
    Working(l)' =>
        \/ lease'[l].container \in running' \/ Recovering(l)'
        \/ /\ Working(l)
           /\ lease[l].container \in running => lease'[l].container \in running'
           /\ Recovering(l) => Recovering(l)'

\* What a step must leave for losses to stay known.
LEMMA LossFrame ==
    ASSUME LossInv, setup' = setup, setup.legacy => \A l \in Leases : LossKept(l)
    PROVE  LossInv'
  BY DEF LossInv, LossKept, Recovering

\* An open lease has a container, and no other lease has it.
LEMMA LeaseContainer ==
    ASSUME TypeOK, LeasesOK, NEW l \in Leases, IsOpen(l)
    PROVE  /\ lease[l].container # NoContainer
           /\ \A m \in Leases \ {l} : lease[m].container # lease[l].container
  <1>1. lease[l].container \in Containers /\ lease[l].container # NoContainer
    BY OpenContainer, ContainersAssumption
  <1>. QED  BY <1>1 DEF LeasesOK, IsOpen

\* No loss goes unnoticed in the steps of a lease and of its rollout,
LEMMA LeaseStepsLoss ==
    ASSUME HandlerInv, LossInv, NEW l \in Leases,
           \/ \E c \in Containers : Allocate(l, c)
           \/ Close(l) \/ FaultKill(l) \/ BeginCreate(l) \/ BeginRerun(l) \/ RerunRefused(l)
    PROVE  LossInv'
  <1>0. TypeOK /\ LeasesOK
    BY DEF HandlerInv
  <1>1. setup' = setup
    BY DEF Allocate, Close, FaultKill, BeginCreate, BeginRerun, RerunRefused, storeVars
  <1>2. ASSUME NEW m \in Leases PROVE LossKept(m)
    <2>1. CASE \E c \in Containers : Allocate(l, c)
      <3>1. PICK c \in Containers : Allocate(l, c)
        BY <2>1
      <3>2. CASE m = l
        <4>1. lease'[l].container = c /\ c \in running'
          BY <1>0, <3>1, LeaseFields DEF Allocate, TypeOK, LeaseRecords
        <4>. QED  BY <3>2, <4>1 DEF LossKept
      <3>3. CASE m # l
        <4>1. lease'[m] = lease[m] /\ running \subseteq running' /\ UNCHANGED <<client, jobs>>
          BY <1>0, <3>1, <3>3 DEF Allocate, TypeOK
        <4>. QED  BY <4>1 DEF LossKept, Working, IsOpen, Recovering
      <3>. QED  BY <3>2, <3>3
    <2>2. CASE Close(l)
      <3>1. IsOpen(l) /\ running' = running \ {lease[l].container} /\ UNCHANGED <<client, jobs>>
        BY <2>2 DEF Close
      <3>2. CASE m = l
        <4>1. lease'[l].status = "closed"
          BY <1>0, <2>2, LeaseFields DEF Close, TypeOK, LeaseRecords
        <4>. QED  BY <3>2, <4>1 DEF LossKept, Working, IsOpen
      <3>3. CASE m # l
        <4>1. lease'[m] = lease[m]
          BY <1>0, <2>2, <3>3 DEF Close, TypeOK
        <4>2. lease[m].container # lease[l].container
          BY <1>0, <3>1, <3>3, LeaseContainer
        <4>. QED  BY <3>1, <4>1, <4>2 DEF LossKept, Working, IsOpen, Recovering
      <3>. QED  BY <3>2, <3>3
    <2>3. CASE FaultKill(l)
      <3>1. IsOpen(l) /\ running' = running \ {lease[l].container} /\ UNCHANGED <<lease, jobs>>
        BY <2>3 DEF FaultKill, Working
      <3>2. CASE m = l
        <4>1. client'[l].faulted
          BY <1>0, <2>3, LeaseFields DEF FaultKill, TypeOK, Clients
        <4>. QED  BY <3>2, <4>1 DEF LossKept, Working
      <3>3. CASE m # l
        <4>1. client'[m] = client[m]
          BY <1>0, <2>3, <3>3 DEF FaultKill, TypeOK
        <4>2. lease[m].container # lease[l].container
          BY <1>0, <3>1, <3>3, LeaseContainer
        <4>. QED  BY <3>1, <4>1, <4>2 DEF LossKept, Working, IsOpen, Recovering
      <3>. QED  BY <3>2, <3>3
    <2>4. CASE BeginCreate(l)
      <3>1. UNCHANGED <<lease, dockerVars>> /\ jobs \subseteq jobs'
        BY <2>4 DEF BeginCreate
      <3>2. client' = [client EXCEPT ![l].step = client[l].step + 1]
        BY <2>4 DEF BeginCreate
      <3>3. client'[m].faulted = client[m].faulted /\ client'[m].restart = client[m].restart
        BY <1>0, <3>2, LeaseFields DEF TypeOK, Clients
      <3>. QED  BY <3>1, <3>3 DEF LossKept, Working, IsOpen, Recovering, dockerVars
    <2>5. CASE BeginRerun(l)
      <3>1. UNCHANGED <<lease, client, dockerVars>> /\ jobs \subseteq jobs'
        BY <2>5 DEF BeginRerun
      <3>. QED  BY <3>1 DEF LossKept, Working, IsOpen, Recovering, dockerVars
    <2>6. CASE RerunRefused(l)
      <3>1. UNCHANGED <<lease, jobs, dockerVars>>
        BY <2>6 DEF RerunRefused
      <3>2. client'[m].faulted = client[m].faulted /\ (client[m].restart => client'[m].restart)
        BY <1>0, <2>6, LeaseFields DEF RerunRefused, TypeOK, Clients
      <3>. QED  BY <3>1, <3>2 DEF LossKept, Working, IsOpen, Recovering, dockerVars
    <2>. QED  BY <2>1, <2>2, <2>3, <2>4, <2>5, <2>6
  <1>. QED  BY <1>1, <1>2, LossFrame

\* in the steps of a checkpoint handler, where the backend does not stop the source,
LEMMA CreateStepsLoss ==
    ASSUME HandlerInv, LossInv, NEW j \in jobs,
           CommitSource(j) \/ CreateFails(j) \/ CreateReady(j) \/ CreateAnswered(j)
    PROVE  LossInv'
  <1>0. TypeOK /\ HandlersOK
    BY DEF HandlerInv
  <1>1. setup' = setup /\ j.kind = "create" /\ j.lease \in Leases
    BY <1>0, RerunStages, JobFields DEF CommitSource, CreateFails, CreateReady, CreateAnswered,
         storeVars
  <1>2. setup.legacy => running' = running
    BY DEF CommitSource, CreateFails, CreateReady, CreateAnswered, LeftRunning, dockerVars
  <1>3. jobs \ {j} \subseteq jobs'
    BY DEF CommitSource, CreateFails, CreateReady, CreateAnswered, Advance, Forget
  <1>4. ASSUME NEW m \in Leases
        PROVE  /\ lease'[m].status = lease[m].status /\ lease'[m].container = lease[m].container
               /\ client'[m].faulted = client[m].faulted /\ client'[m].restart = client[m].restart
    <2>1. CASE CommitSource(j) \/ CreateFails(j) \/ CreateReady(j)
      BY <2>1 DEF CommitSource, CreateFails, CreateReady
    <2>2. CASE CreateAnswered(j)
      BY <1>0, <1>1, <2>2, LeaseFields DEF CreateAnswered, TypeOK, LeaseRecords, Clients
    <2>. QED  BY <2>1, <2>2
  <1>5. ASSUME NEW m \in Leases, setup.legacy PROVE LossKept(m)
    BY <1>1, <1>2, <1>3, <1>4, <1>5 DEF LossKept, Working, IsOpen, Recovering
  <1>. QED  BY <1>1, <1>5, LossFrame

\* in the steps of a rerun,
LEMMA RerunStepsLoss ==
    ASSUME HandlerInv, LossInv, NEW j \in jobs,
           \/ \E c \in Containers : RestoreTarget(j, c)
           \/ DestroyOld(j) \/ SwapTracked(j) \/ MarkUsed(j) \/ RerunFails(j)
    PROVE  LossInv'
  <1>0. TypeOK /\ HandlersOK /\ LeasesOK /\ Apart
    BY DEF HandlerInv
  <1>1. UNCHANGED <<storeVars, lease, client>> /\ j.lease \in Leases
    BY <1>0, JobFields DEF RestoreTarget, DestroyOld, SwapTracked, MarkUsed, RerunFails
  <1>2. j.kind = "rerun" /\ Reruns(j)
    <2>1. j.stage \in {"restoring"} \union Replacing
      BY DEF RestoreTarget, DestroyOld, SwapTracked, MarkUsed, RerunFails, Replacing
    <2>. QED  BY <1>0, <2>1, RerunStages DEF HandlersOK, HandlerOK
  <1>3. PICK j2 : /\ jobs' = (jobs \ {j}) \union {j2}
                  /\ j2.kind = j.kind /\ j2.lease = j.lease /\ j2.waited = j.waited
    <2>1. CASE \E c \in Containers : RestoreTarget(j, c)
      <3>1. PICK c \in Containers : RestoreTarget(j, c)
        BY <2>1
      <3>. DEFINE m == [j EXCEPT !.stage = "restored", !.new = c]
      <3>2. m.kind = j.kind /\ m.lease = j.lease /\ m.waited = j.waited
        BY <1>0, JobFields DEF Jobs
      <3>3. jobs' = (jobs \ {j}) \union {m}
        BY <3>1 DEF RestoreTarget
      <3>. HIDE DEF m
      <3>. QED  BY <3>2, <3>3
    <2>2. CASE DestroyOld(j) \/ SwapTracked(j) \/ MarkUsed(j) \/ RerunFails(j)
      <3>1. PICK s : Advance(j, s)
        BY <2>2 DEF DestroyOld, SwapTracked, MarkUsed, RerunFails
      <3>. QED  BY <1>0, <3>1, Moved
    <2>. QED  BY <2>1, <2>2
  <1>4. running \ {j.container, j.new} \subseteq running'
    BY DEF RestoreTarget, DestroyOld, SwapTracked, MarkUsed, RerunFails, dockerVars
  <1>5. \A m \in Leases : Recovering(m) => Recovering(m)'
    BY <1>3 DEF Recovering
  <1>6. ASSUME NEW m \in Leases PROVE LossKept(m)
    <2>1. CASE m = j.lease /\ j.waited
      BY <1>2, <1>3, <2>1 DEF LossKept, Recovering
    <2>2. CASE m = j.lease /\ ~j.waited
      BY <1>1, <1>2, <2>2 DEF LossKept, Working, Reruns
    <2>3. CASE m # j.lease
      <3>1. lease[j.lease].status # "none"
        BY <1>0, <1>1, <1>2, ContainersAssumption, JobFields DEF LeasesOK, Reruns
      <3>2. j.container # lease[m].container
        BY <1>0, <1>1, <1>2, <2>3, <3>1 DEF LeasesOK, Reruns
      <3>3. IsOpen(m) => j.new # lease[m].container
        <4>1. CASE j.stage \in Replacing
          BY <1>0, <4>1 DEF Apart
        <4>2. CASE j.stage \notin Replacing
          <5>1. j.stage = "restoring"
            BY <4>2 DEF RestoreTarget, DestroyOld, SwapTracked, MarkUsed, RerunFails, Replacing
          <5>. QED  BY <1>0, <1>2, <5>1, LeaseContainer DEF Reruns
        <4>. QED  BY <4>1, <4>2
      <3>. QED  BY <1>1, <1>4, <1>5, <3>2, <3>3 DEF LossKept, Working, IsOpen
    <2>. QED  BY <2>1, <2>2, <2>3
  <1>. QED  BY <1>1, <1>6, LossFrame DEF storeVars

\* in the answers, where a rerun ends with a new container, or tells the rollout to restart,
LEMMA AnswersLoss ==
    ASSUME HandlerInv, LossInv, NEW j \in jobs,
           RerunAnswered(j) \/ FailureAnswered(j) \/ AnswerDropped(j) \/ PoolTimesOut(j)
    PROVE  LossInv'
  <1>0. TypeOK /\ HandlersOK /\ LeasesOK /\ Apart
    BY DEF HandlerInv
  <1>1. UNCHANGED <<storeVars, dockerVars>> /\ j.lease \in Leases /\ jobs \ {j} \subseteq jobs'
        /\ j.kind \in {"create", "rerun"}
    BY <1>0, JobFields DEF RerunAnswered, FailureAnswered, AnswerDropped, PoolTimesOut, Forget
  <1>2. \A m \in Leases \ {j.lease} : lease'[m] = lease[m] /\ client'[m] = client[m]
    BY <1>0, <1>1 DEF RerunAnswered, FailureAnswered, AnswerDropped, PoolTimesOut, TypeOK
  <1>3. ASSUME NEW m \in Leases, m # j.lease PROVE LossKept(m)
    BY <1>1, <1>2, <1>3 DEF LossKept, Working, IsOpen, Recovering, dockerVars
  <1>4. LossKept(j.lease)
    <2>1. CASE RerunAnswered(j)
      <3>1. j.stage = "done" /\ j.new \in running
        BY <1>0, <2>1, ReplacingIs DEF RerunAnswered, Replacing
      <3>2. lease'[j.lease].container = j.new
        BY <1>0, <1>1, <2>1, LeaseFields DEF RerunAnswered, TypeOK, LeaseRecords
      <3>. QED  BY <1>1, <3>1, <3>2 DEF LossKept, dockerVars
    <2>2. CASE (FailureAnswered(j) \/ PoolTimesOut(j)) /\ j.kind = "rerun"
      <3>1. client'[j.lease].restart
        <4>1. PICK b \in BOOLEAN : b /\ client' = [client EXCEPT ![j.lease].restart = b]
          <5>1. (client[j.lease].restart \/ j.kind = "rerun") \in BOOLEAN
            BY <2>2
          <5>. QED  BY <2>2, <5>1 DEF FailureAnswered, PoolTimesOut
        <4>. QED  BY <1>0, <1>1, <4>1, LeaseFields DEF TypeOK, Clients
      <3>. QED  BY <3>1 DEF LossKept, Working
    <2>3. CASE AnswerDropped(j) \/ (j.kind = "create" /\ (FailureAnswered(j) \/ PoolTimesOut(j)))
      <3>1. /\ lease' = lease /\ client'[j.lease].faulted = client[j.lease].faulted
            /\ client[j.lease].restart => client'[j.lease].restart
        BY <1>0, <1>1, <2>3, LeaseFields DEF AnswerDropped, FailureAnswered, PoolTimesOut,
             TypeOK, Clients
      <3>2. Recovering(j.lease) => Recovering(j.lease)'
        BY <1>1, <2>3 DEF AnswerDropped, Recovering
      <3>3. running' = running
        BY <1>1 DEF dockerVars
      <3>4. Working(j.lease)' => Working(j.lease)
        BY <3>1 DEF Working, IsOpen
      <3>. QED  BY <3>1, <3>2, <3>3, <3>4 DEF LossKept, Recovering, Working, IsOpen
    <2>. QED  BY <1>1, <2>1, <2>2, <2>3
  <1>. QED  BY <1>1, <1>3, <1>4, LossFrame DEF storeVars

\* and in any step.
LEMMA LossStep == HandlerInv /\ LossInv /\ [Next]_vars => LossInv'
  <1>. SUFFICES ASSUME HandlerInv, LossInv, [Next]_vars PROVE LossInv'
    OBVIOUS
  <1>1. CASE UNCHANGED vars
    BY <1>1 DEF vars, storeVars, dockerVars, LossInv, Working, IsOpen
  <1>2. CASE Next
    <2>1. CASE \E l \in Leases : \/ \E c \in Containers : Allocate(l, c)
                                 \/ Close(l) \/ FaultKill(l) \/ BeginCreate(l) \/ BeginRerun(l)
                                 \/ RerunRefused(l)
      BY <2>1, LeaseStepsLoss
    <2>2. CASE \E j \in jobs : JobStep(j) \/ PoolTimesOut(j)
      BY <2>2, CreateStepsLoss, RerunStepsLoss, AnswersLoss DEF JobStep
    <2>3. CASE \/ \E k \in setup.keep : CollectNode(k) \/ \E l \in Leases : CollectLease(l, k)
               \/ \E l \in Leases, i \in Ids : BeginDelete(l, i)
               \/ \E t \in tasks : TaskStep(t)
               \/ \E c \in calls : CallStep(c)
      <3>1. /\ UNCHANGED <<setup, dockerVars, client, jobs>>
            /\ \A l \in Leases : /\ lease'[l].status = lease[l].status
                                 /\ lease'[l].container = lease[l].container
        BY <2>3, QuietSteps
      <3>2. \A l \in Leases : LossKept(l)
        BY <3>1 DEF LossKept, Working, IsOpen, Recovering, dockerVars
      <3>. QED  BY <3>1, <3>2, LossFrame
    <2>4. CASE Restart
      <3>1. TypeOK /\ DeletionsOK
        BY DEF HandlerInv
      <3>2. /\ UNCHANGED <<storeVars, lease>> /\ (setup.legacy => running' = running)
            /\ \A l \in Leases : /\ client'[l].faulted = client[l].faulted
                                 /\ client[l].restart => client'[l].restart
                                 /\ Recovering(l) => client'[l].restart
        BY <2>4, <3>1, RestartDoes DEF Recovering
      <3>3. ASSUME NEW l \in Leases, setup.legacy PROVE LossKept(l)
        BY <3>2, <3>3 DEF LossKept, Working, IsOpen
      <3>. QED  BY <3>2, <3>3, LossFrame DEF storeVars
    <2>. QED  BY <1>2, <2>1, <2>2, <2>3, <2>4 DEF Next
  <1>. QED  BY <1>1, <1>2

\* A rollout that does not know of a fault and has not given its lease up still has its
\* container, whatever was lost, late or deleted, and a rerun under way has destroyed the old
\* container only when the new one runs (_recover_from_injected_fault and the rerun handler),
\* with timeouts of the pool, crashes of the node and deletions of single checkpoints.
THEOREM LossAlwaysKnown == Spec => []LossKnown
  <1>1. Init => LossInv
    BY DEF Init, LossInv, Working, IsOpen, NoLease
  <1>2. HandlerInv /\ LossInv => LossKnown
    <2>. SUFFICES ASSUME HandlerInv, LossInv PROVE LossKnown
      OBVIOUS
    <2>1. \A j \in jobs : j.stage \in {"destroyed", "swapped"} => j.new \in running
      BY ReplacingIs DEF HandlerInv, Replacing
    <2>. QED  BY <2>1 DEF LossKnown, LossInv, Locked
  <1>. QED  BY <1>1, <1>2, InitHandler, HandlerStep, LossStep, PTL DEF Spec
-----------------------------------------------------------------------------
(***************************************************************************)
(* What the plan of a collection protects.                                 *)
(***************************************************************************)
\* The recursion of AncestorsIn, and what it computes.
Lineage(l, f, n) ==
    f = [i \in 0..n |-> IF i = 0 \/ ~Exists(i) \/ record[i].lease # l THEN {}
                        ELSE {i} \union f[record[i].parent]]

\* The recursion of AncestorsIn has a solution, since a parent is older than its child.
LEMMA LineageExists ==
    ASSUME TypeOK, Ordered, NEW l
    PROVE  \E f : Lineage(l, f, MaxCheckpoints)
  <1>. DEFINE Bad == {n \in MaybeId : ~ \E f : Lineage(l, f, n)}
  <1>1. MaxCheckpoints \in Nat /\ MaybeId = 0..MaxCheckpoints
    BY BoundsAssumption DEF MaybeId
  <1>2. Bad = {}
    <2>1. SUFFICES ASSUME Bad # {} PROVE FALSE
      OBVIOUS
    <2>2. PICK x \in Bad : \A y \in Bad : x <= y
      <3>1. Bad \subseteq Nat
        BY <1>1
      <3>. HIDE DEF Bad
      <3>. QED  BY <2>1, <3>1, LeastNatural
    <2>3. x \in 0..MaxCheckpoints /\ x \in Nat
      BY <1>1
    <2>4. CASE x = 0
      <3>1. Lineage(l, [i \in 0..0 |-> {}], 0)
        <4>1. \A i \in 0..0 : i = 0
          OBVIOUS
        <4>. QED  BY <4>1 DEF Lineage
      <3>. QED  BY <2>4, <3>1
    <2>5. CASE x # 0
      <3>1. x - 1 \in MaybeId /\ x - 1 \notin Bad
        <4>1. x - 1 \in MaybeId /\ ~(x <= x - 1)
          BY <1>1, <2>3, <2>5
        <4>. HIDE DEF Bad
        <4>. QED  BY <2>2, <4>1
      <3>2. PICK f : Lineage(l, f, x - 1)
        BY <3>1
      <3>3. x \in Ids
        BY <1>1, <2>3, <2>5 DEF Ids
      <3>. DEFINE Up(i, g) == IF i = 0 \/ ~Exists(i) \/ record[i].lease # l THEN {}
                              ELSE {i} \union g[record[i].parent]
                  h == [i \in 0..x |-> IF i = x THEN Up(x, f) ELSE f[i]]
      <3>4. ASSUME NEW i \in 0..x PROVE h[i] = Up(i, h)
        <4>1. CASE i = x
          <5>1. record[x].parent \in 0..(x - 1)
            <6>1. record[x].parent \in Nat /\ record[x].parent < x
              BY <3>3, RecordFields DEF Ordered
            <6>. QED  BY <2>3, <6>1
          <5>2. record[x].parent \in 0..x /\ record[x].parent # x
            BY <2>3, <5>1
          <5>3. h[record[x].parent] = f[record[x].parent] /\ h[x] = Up(x, f)
            BY <2>3, <5>2
          <5>. HIDE DEF h
          <5>. QED  BY <4>1, <5>3
        <4>2. CASE i # x
          <5>1. i \in 0..(x - 1) /\ h[i] = f[i]
            BY <2>3, <4>2
          <5>2. f[i] = Up(i, f)
            BY <3>2, <5>1 DEF Lineage
          <5>3. CASE i = 0
            BY <5>1, <5>2, <5>3
          <5>4. CASE i # 0
            <6>1. i \in Ids /\ i \in Nat /\ i < x
              BY <1>1, <2>3, <4>2, <5>1, <5>4 DEF Ids
            <6>2. record[i].parent \in Nat /\ record[i].parent < i
              BY <6>1, RecordFields DEF Ordered
            <6>3. record[i].parent \in 0..x /\ record[i].parent # x
              BY <2>3, <6>1, <6>2
            <6>4. h[record[i].parent] = f[record[i].parent]
              BY <6>3
            <6>. HIDE DEF h
            <6>. QED  BY <5>1, <5>2, <6>4
          <5>. QED  BY <5>3, <5>4
        <4>. QED  BY <4>1, <4>2
      <3>5. h = [i \in 0..x |-> Up(i, h)]
        BY <3>4
      <3>6. Lineage(l, h, x)
        <4>. HIDE DEF h
        <4>. QED  BY <3>5 DEF Lineage
      <3>. QED  BY <3>6
    <2>. QED  BY <2>4, <2>5
  <1>. QED  BY <1>1, <1>2

\* Roots are their own ancestors, and an ancestor's parent is one, as long as they are
\* records of the lease.
LEMMA AncestorsClosed ==
    ASSUME TypeOK, Ordered, NEW l, NEW roots, roots \subseteq MaybeId
    PROVE  /\ \A i \in roots : i # 0 /\ Exists(i) /\ record[i].lease = l => i \in AncestorsIn(l, roots)
           /\ \A i \in AncestorsIn(l, roots) :
                 record[i].parent # 0 /\ Exists(record[i].parent) /\ record[record[i].parent].lease = l
                    => record[i].parent \in AncestorsIn(l, roots)
  <1>1. MaxCheckpoints \in Nat /\ MaybeId = 0..MaxCheckpoints
    BY BoundsAssumption DEF MaybeId
  <1>. DEFINE a == CHOOSE f : Lineage(l, f, MaxCheckpoints)
  <1>2. Lineage(l, a, MaxCheckpoints)
    BY LineageExists
  <1>3. AncestorsIn(l, roots) = UNION {a[i] : i \in roots}
    BY <1>1 DEF AncestorsIn, Lineage
  <1>. HIDE DEF a
  <1>4. \A i \in MaybeId : a[i] = IF i = 0 \/ ~Exists(i) \/ record[i].lease # l THEN {}
                                  ELSE {i} \union a[record[i].parent]
    BY <1>1, <1>2 DEF Lineage
  <1>. DEFINE Closed(S) == \A i \in S :
                  record[i].parent # 0 /\ Exists(record[i].parent) /\ record[record[i].parent].lease = l
                    => record[i].parent \in S
              Bad == {x \in MaybeId : ~Closed(a[x])}
  <1>5. Bad = {}
    <2>1. SUFFICES ASSUME Bad # {} PROVE FALSE
      OBVIOUS
    <2>2. PICK x \in Bad : \A y \in Bad : x <= y
      <3>1. Bad \subseteq Nat
        BY <1>1
      <3>. HIDE DEF Bad
      <3>. QED  BY <2>1, <3>1, LeastNatural
    <2>3. x \in MaybeId /\ ~Closed(a[x])
      OBVIOUS
    <2>4. x # 0 /\ a[x] = {x} \union a[record[x].parent]
      BY <1>4, <2>3
    <2>5. x \in Ids /\ x \in Nat
      BY <1>1, <2>3, <2>4 DEF Ids
    <2>6. record[x].parent \in MaybeId /\ record[x].parent \in Nat /\ record[x].parent < x
      BY <2>5, RecordFields DEF Ordered
    <2>7. Closed(a[record[x].parent])
      <3>1. record[x].parent \notin Bad
        <4>. HIDE DEF Bad
        <4>. QED  BY <2>2, <2>5, <2>6
      <3>. QED  BY <2>6, <3>1
    <2>8. ASSUME record[x].parent # 0, Exists(record[x].parent), record[record[x].parent].lease = l
          PROVE  record[x].parent \in a[record[x].parent]
      BY <1>4, <2>6, <2>8
    <2>. QED  BY <2>3, <2>4, <2>7, <2>8
  <1>6. \A i \in roots : Closed(a[i])
    BY <1>5
  <1>7. \A i \in roots : i # 0 /\ Exists(i) /\ record[i].lease = l => i \in a[i]
    BY <1>4
  <1>. QED  BY <1>3, <1>6, <1>7

\* What a plan protects, when it keeps at least one checkpoint.
LEMMA ProtectedClosed ==
    ASSUME TypeOK, Ordered, NEW l \in Leases, NEW k \in Nat, k # 0
    PROVE  /\ \A i \in Pending(l) : i \in Protected(l, k)
           /\ \A i \in ReadyOf(l) : (\A j \in ReadyOf(l) : j <= i) => i \in Protected(l, k)
           /\ \A i \in Protected(l, k) : record[i].parent \in ReadyOf(l) => record[i].parent \in Protected(l, k)
  <1>. DEFINE roots == LatestReady(l, k) \cup Pending(l) \cup ImagesInUse
  <1>0. MaxCheckpoints \in Nat /\ \A i \in Ids : i \in MaybeId /\ i # 0 /\ i \in Nat
    BY BoundsAssumption DEF MaybeId, Ids
  <1>1. roots \subseteq MaybeId
    <2>1. LatestReady(l, k) \subseteq MaybeId /\ Pending(l) \subseteq MaybeId
      BY <1>0 DEF LatestReady, Pending, ReadyOf
    <2>2. ImagesInUse \subseteq MaybeId
      BY DEF ImagesInUse, TypeOK
    <2>. QED  BY <2>1, <2>2
  <1>2. Protected(l, k) = AncestorsIn(l, roots)
    BY DEF Protected
  <1>3. /\ \A i \in roots : i # 0 /\ Exists(i) /\ record[i].lease = l => i \in Protected(l, k)
        /\ \A i \in Protected(l, k) :
                 record[i].parent # 0 /\ Exists(record[i].parent) /\ record[record[i].parent].lease = l
                    => record[i].parent \in Protected(l, k)
    <2>. HIDE DEF roots
    <2>. QED  BY <1>1, <1>2, AncestorsClosed
  <1>4. \A i \in Pending(l) : i \in Protected(l, k)
    <2>1. \A i \in Pending(l) : i \in roots /\ i # 0 /\ Exists(i) /\ record[i].lease = l
      BY <1>0 DEF Pending, Exists
    <2>. HIDE DEF roots
    <2>. QED  BY <1>3, <2>1
  <1>5. ASSUME NEW i \in ReadyOf(l), \A j \in ReadyOf(l) : j <= i PROVE i \in Protected(l, k)
    <2>1. {j \in ReadyOf(l) : SortsBefore(i, j)} = {}
      <3>1. SUFFICES ASSUME NEW j \in ReadyOf(l), SortsBefore(i, j) PROVE FALSE
        OBVIOUS
      <3>2. i \in Known(l) /\ j \in Known(l) /\ i \in Ids /\ j \in Ids
        BY ReadyKnown
      <3>3. i < j
        BY <3>1, <3>2, SortedById
      <3>4. j <= i /\ i \in Nat /\ j \in Nat
        BY <1>0, <1>5, <3>2
      <3>. QED  BY <3>3, <3>4
    <2>2. i \in LatestReady(l, k)
      BY <2>1, FS_EmptySet DEF LatestReady
    <2>3. i \in roots /\ i # 0 /\ Exists(i) /\ record[i].lease = l
      BY <1>0, <2>2 DEF ReadyOf, Exists
    <2>. HIDE DEF roots
    <2>. QED  BY <1>3, <2>3
  <1>6. \A i \in ReadyOf(l) : i # 0 /\ Exists(i) /\ record[i].lease = l
    BY <1>0 DEF ReadyOf, Exists
  <1>. QED  BY <1>3, <1>4, <1>5, <1>6
-----------------------------------------------------------------------------
(***************************************************************************)
(* What a rollout would rerun from, and the parents, are kept.             *)
(***************************************************************************)
\* Nothing new is to be deleted.
TasksStay == \A u \in tasks' : \E t \in tasks : u.todo = t.todo

\* What a step must leave for checkpoints to be kept, if it deletes nothing.
LEMMA KeptFrame ==
    ASSUME TypeOK, Kept, record' = record, artifact \subseteq artifact', TasksStay, AnswerKept',
           \A l \in Leases : client'[l].latest = client[l].latest,
           \A c \in calls' : c.stage \in {"refresh", "listed"}
    PROVE  Kept'
  <1>1. LatestKept'
    <2>1. ASSUME NEW l \in Leases, client'[l].latest # 0
          PROVE  /\ record'[client'[l].latest].lease = l
                 /\ record'[client'[l].latest].status = "ready" /\ client'[l].latest \in artifact'
                 /\ \A i \in Known(l)' : i > client'[l].latest => record'[i].parent = client'[l].latest
                 /\ \A t \in tasks' : client'[l].latest \notin t.todo
      <3>1. client'[l].latest = client[l].latest /\ client[l].latest # 0
        BY <2>1
      <3>2. /\ record[client[l].latest].lease = l /\ Restorable(client[l].latest)
            /\ \A i \in Known(l) : i > client[l].latest => record[i].parent = client[l].latest
            /\ \A t \in tasks : client[l].latest \notin t.todo
        BY <3>1 DEF Kept, LatestKept, Latest, Restorable
      <3>. QED  BY <3>1, <3>2 DEF Restorable, Known, TasksStay
    <2>. QED  BY <2>1 DEF LatestKept, Latest, Restorable
  <1>2. ParentsKept' /\ ParentsOfLease'
    BY DEF Kept, ParentsKept, ParentsOfLease, InUse, Restorable
  <1>3. ChildrenGo'
    BY DEF Kept, ChildrenGo, InUse, TasksStay
  <1>. QED  BY <1>1, <1>2, <1>3 DEF Kept, Refreshing

\* An answer on its way stays what it was when records and artifacts do.
LEMMA AnswersStay ==
    ASSUME AnswerKept, record' = record, artifact \subseteq artifact', TasksStay,
           \A k \in jobs' : k.kind = "create" /\ k.waited => k \in jobs
    PROVE  AnswerKept'
  BY DEF AnswerKept, Restorable, TasksStay

\* Steps that touch neither what is stored nor what a rollout remembers.
LEMMA OtherStepsKept ==
    ASSUME TypeOK, Kept, UNCHANGED <<record, artifact, tasks>>,
           \A k \in jobs' : k.kind = "create" /\ k.waited => k \in jobs,
           \A l \in Leases : client'[l].latest = client[l].latest,
           \A c \in calls' : c.stage \in {"refresh", "listed"}
    PROVE  Kept'
  <1>1. TasksStay
    BY DEF TasksStay
  <1>2. AnswerKept'
    BY <1>1, AnswersStay DEF Kept
  <1>. QED  BY <1>1, <1>2, KeptFrame

\* A new checkpoint is younger than what the rollout knows, and its child.
LEMMA BeginCreateKept ==
    ASSUME HandlerInv, Kept, NEW l \in Leases, BeginCreate(l)
    PROVE  Kept'
  <1>. DEFINE n == created + 1
              p == client[l].latest
  <1>0. /\ TypeOK /\ Ordered /\ DeletionsOK /\ n \in Ids /\ created \in Nat
        /\ UNCHANGED <<artifact, calls, tasks>>
    BY NewId DEF HandlerInv, BeginCreate
  <1>1. /\ record'[n].status = "pending" /\ record'[n].lease = l /\ record'[n].parent = p
        /\ \A i \in Ids : i # n => record'[i] = record[i]
    BY <1>0 DEF BeginCreate, TypeOK
  <1>2. record[n].status = "none" /\ \A i \in Ids : i \in Nat
    BY <1>0, BoundsAssumption DEF Ordered, Ids
  <1>3. p = 0 \/ p \in ReadyOf(l)
    BY DEF BeginCreate, MayParent
  <1>4. \A m \in Leases : client'[m].latest = client[m].latest
    <2>1. client' = [client EXCEPT ![l].step = client[l].step + 1]
      BY DEF BeginCreate
    <2>. QED  BY <1>0, <2>1, LeaseFields DEF TypeOK, Clients
  <1>5. n \notin ReadyOf(l) /\ \A t \in tasks : n \notin t.todo
    BY <1>0, <1>2 DEF ReadyOf, DeletionsOK, Doomed
  <1>6. ASSUME NEW m \in Leases, NEW i \in Known(m)' PROVE i \in Known(m) \/ (m = l /\ i = n)
    BY <1>1 DEF Known
  <1>7. ASSUME NEW i \in Ids, Restorable(i)
        PROVE  record'[i] = record[i] /\ record'[i].status = "ready" /\ i \in artifact'
    BY <1>0, <1>1, <1>2, <1>7 DEF Restorable
  <1>. HIDE DEF n, p
  <1>8. LatestKept'
    <2>1. ASSUME NEW m \in Leases, client[m].latest # 0
          PROVE  /\ record'[client[m].latest].lease = m
                 /\ record'[client[m].latest].status = "ready" /\ client[m].latest \in artifact'
                 /\ \A i \in Known(m)' : i > client[m].latest => record'[i].parent = client[m].latest
                 /\ \A t \in tasks' : client[m].latest \notin t.todo
      <3>1. client[m].latest \in Ids
        <4>1. client[m].latest \in MaybeId
          BY <1>0, LeaseFields
        <4>. QED  BY <2>1, <4>1, BoundsAssumption DEF MaybeId, Ids
      <3>2. /\ record[client[m].latest].lease = m /\ Restorable(client[m].latest)
            /\ \A i \in Known(m) : i > client[m].latest => record[i].parent = client[m].latest
            /\ \A t \in tasks : client[m].latest \notin t.todo
        BY <2>1 DEF Kept, LatestKept, Latest, Restorable
      <3>3. ASSUME NEW i \in Known(m)', i > client[m].latest PROVE record'[i].parent = client[m].latest
        <4>1. CASE i = n /\ m = l
          BY <1>1, <4>1 DEF p
        <4>2. CASE i # n /\ i \in Known(m)
          BY <1>1, <3>2, <3>3, <4>2 DEF Known
        <4>3. n \notin Known(m)
          BY <1>2 DEF Known
        <4>. QED  BY <1>6, <4>1, <4>2, <4>3
      <3>. QED  BY <1>0, <1>7, <3>1, <3>2, <3>3
    <2>. QED  BY <1>4, <2>1 DEF LatestKept, Latest, Restorable
  <1>9. AnswerKept'
    <2>1. ASSUME NEW k \in jobs', k.kind = "create", k.waited
          PROVE  /\ k.stage = "committed" => k.id \in artifact'
                 /\ k.stage = "ready" => /\ record'[k.id].status = "ready" /\ k.id \in artifact'
                                         /\ \A t \in tasks' : k.id \notin t.todo
      <3>1. k \in jobs \/ k.stage = "queued"
        BY DEF BeginCreate
      <3>2. k \in jobs => k.id \in Ids
        BY <1>0, JobFields
      <3>. QED  BY <1>0, <1>7, <2>1, <3>1, <3>2 DEF Kept, AnswerKept, Restorable
    <2>. QED  BY <2>1 DEF AnswerKept, Restorable
  <1>10. p # 0 => p \in Ids /\ record[p].lease = l /\ Restorable(p) /\ \A t \in tasks : p \notin t.todo
    BY <1>3 DEF Kept, LatestKept, Latest, p, ReadyOf, Restorable
  <1>11. ParentsKept'
    <2>1. ASSUME NEW i \in Ids, InUse(i)', record'[i].parent # 0
          PROVE  record'[record'[i].parent].status = "ready" /\ record'[i].parent \in artifact'
      <3>1. CASE i = n
        BY <1>1, <1>7, <1>10, <2>1, <3>1
      <3>2. CASE i # n
        <4>1. InUse(i) /\ record'[i] = record[i]
          BY <1>1, <2>1, <3>2 DEF InUse
        <4>2. record[i].parent \in Ids
          <5>1. record[i].parent \in MaybeId
            BY <1>0, RecordFields
          <5>. QED  BY <2>1, <4>1, <5>1, BoundsAssumption DEF MaybeId, Ids
        <4>3. Restorable(record[i].parent)
          BY <2>1, <4>1 DEF Kept, ParentsKept, Restorable
        <4>. QED  BY <1>7, <4>1, <4>2, <4>3
      <3>. QED  BY <3>1, <3>2
    <2>. QED  BY <2>1 DEF ParentsKept, Restorable
  <1>12. ParentsOfLease'
    <2>1. ASSUME NEW i \in Ids, record'[i].status # "none", record'[i].parent # 0
          PROVE  record'[record'[i].parent].lease = record'[i].lease
      <3>1. CASE i = n
        BY <1>1, <1>7, <1>10, <2>1, <3>1
      <3>2. CASE i # n
        <4>1. record'[i] = record[i] /\ record[i].status # "none"
          BY <1>1, <2>1, <3>2
        <4>2. record[i].parent \in MaybeId /\ record[i].parent < i /\ i <= created
          BY <1>0, <1>2, <4>1, RecordFields DEF Ordered
        <4>3. record[i].parent \in Ids /\ record[i].parent # n
          BY <1>0, <1>2, <2>1, <4>1, <4>2, BoundsAssumption DEF MaybeId, Ids, n
        <4>. QED  BY <1>1, <2>1, <4>1, <4>3 DEF Kept, ParentsOfLease
      <3>. QED  BY <3>1, <3>2
    <2>. QED  BY <2>1 DEF ParentsOfLease
  <1>13. ChildrenGo'
    <2>1. ASSUME NEW t \in tasks, NEW c \in Ids, InUse(c)', record'[c].parent \in t.todo PROVE c \in t.todo
      <3>1. t.todo \subseteq Ids
        BY <1>0, TaskFields
      <3>2. CASE c = n
        <4>1. p \in Ids
          BY <1>1, <2>1, <3>1, <3>2
        <4>. QED  BY <1>1, <1>2, <1>10, <2>1, <3>2, <4>1, BoundsAssumption DEF Ids
      <3>3. CASE c # n
        BY <1>1, <2>1, <3>3 DEF Kept, ChildrenGo, InUse
      <3>. QED  BY <3>2, <3>3
    <2>. QED  BY <1>0, <2>1 DEF ChildrenGo
  <1>. QED  BY <1>0, <1>8, <1>9, <1>11, <1>12, <1>13 DEF Kept, Refreshing

\* A checkpoint that is not there yet is nobody's parent and in no collection.
LEMMA CreateMovesKept ==
    ASSUME HandlerInv, Kept, NEW j \in jobs, CommitSource(j) \/ CreateFails(j) \/ CreateReady(j)
    PROVE  Kept'
  <1>0. TypeOK /\ Ordered /\ HandlersOK /\ DeletionsOK /\ j.id \in Ids /\ j.lease \in Leases
    BY JobFields DEF HandlerInv
  <1>1. /\ UNCHANGED <<client, calls, tasks>> /\ artifact \subseteq artifact'
        /\ j.kind = "create" /\ j.stage \in {"queued", "committed"}
    BY DEF CommitSource, CreateFails, CreateReady
  <1>2. record[j.id].status = "pending" /\ j.id \in Known(j.lease)
    BY <1>0, <1>1 DEF HandlersOK, HandlerOK, Creates
  <1>3. PICK s \in {"committed", "failed", "ready"} :
          /\ Advance(j, s)
          /\ s = "committed" => CommitSource(j)
          /\ s = "ready" => CreateReady(j)
    BY DEF CommitSource, CreateFails, CreateReady
  <1>4. PICK j2 : /\ jobs' = (jobs \ {j}) \union {j2} /\ j2.stage = s
                  /\ j2.kind = j.kind /\ j2.id = j.id /\ j2.lease = j.lease
                  /\ j2.container = j.container /\ j2.new = j.new /\ j2.waited = j.waited
    BY <1>0, <1>3, Moved
  <1>5. RecordsMove
    BY CommitHolds, CreateEndsHolds
  <1>6. \A i \in Ids : i # j.id => record'[i] = record[i]
    BY <1>0 DEF CommitSource, CreateFails, CreateReady, TypeOK
  <1>7. \A i \in Ids : /\ record'[i].parent = record[i].parent /\ record'[i].lease = record[i].lease
                       /\ record'[i].status = "none" <=> record[i].status = "none"
    BY <1>5 DEF RecordsMove, SameButStatus
  <1>8. ASSUME NEW i \in Ids, Restorable(i)
        PROVE  record'[i].status = "ready" /\ i \in artifact' /\ record'[i].lease = record[i].lease
    BY <1>1, <1>2, <1>6, <1>8 DEF Restorable
  <1>9. \A i \in Ids : i \in MaybeId /\ i \in Nat
    BY BoundsAssumption DEF Ids, MaybeId
  <1>10. \A i \in MaybeId : i # 0 => i \in Ids
    BY BoundsAssumption DEF Ids, MaybeId
  <1>11. \A t \in tasks : j.id \notin t.todo
    BY <1>2 DEF HandlerInv, DeletionsOK, Doomed
  <1>12. LatestKept'
    <2>1. ASSUME NEW m \in Leases, client[m].latest # 0
          PROVE  /\ record'[client[m].latest].lease = m
                 /\ record'[client[m].latest].status = "ready" /\ client[m].latest \in artifact'
                 /\ \A i \in Known(m) : i > client[m].latest => record'[i].parent = client[m].latest
                 /\ \A t \in tasks : client[m].latest \notin t.todo
      <3>1. client[m].latest \in Ids
        BY <1>0, <1>10, <2>1, LeaseFields
      <3>2. /\ record[client[m].latest].lease = m /\ Restorable(client[m].latest)
            /\ \A i \in Known(m) : i > client[m].latest => record[i].parent = client[m].latest
            /\ \A t \in tasks : client[m].latest \notin t.todo
        BY <2>1 DEF Kept, LatestKept, Latest, Restorable
      <3>. QED  BY <1>7, <1>8, <3>1, <3>2 DEF Known
    <2>2. \A m \in Leases : Known(m)' = Known(m)
      BY <1>5, KnownSame
    <2>. QED  BY <1>1, <2>1, <2>2 DEF LatestKept, Latest, Restorable
  <1>13. AnswerKept'
    <2>1. ASSUME NEW k \in jobs', k.kind = "create", k.waited
          PROVE  /\ k.stage = "committed" => k.id \in artifact'
                 /\ k.stage = "ready" => /\ record'[k.id].status = "ready" /\ k.id \in artifact'
                                         /\ \A t \in tasks' : k.id \notin t.todo
      <3>1. CASE k \in jobs
        <4>1. k.id \in Ids
          BY <1>0, <3>1, JobFields
        <4>2. /\ k.stage = "committed" => k.id \in artifact
              /\ k.stage = "ready" => Restorable(k.id) /\ \A t \in tasks : k.id \notin t.todo
          BY <2>1, <3>1 DEF Kept, AnswerKept
        <4>. QED  BY <1>1, <1>8, <4>1, <4>2
      <3>2. CASE k = j2
        <4>1. s = "committed" => j.id \in artifact'
          BY <1>3 DEF CommitSource
        <4>2. CASE s = "ready"
          <5>1. record'[j.id].status = "ready" /\ j.stage = "committed" /\ artifact' = artifact
            BY <1>0, <1>3, <4>2, RecordFields DEF CreateReady, TypeOK, Records
          <5>2. j.id \in artifact
            BY <1>1, <1>4, <2>1, <3>2, <5>1 DEF Kept, AnswerKept
          <5>. QED  BY <1>1, <1>4, <1>11, <3>2, <4>2, <5>1, <5>2
        <4>. QED  BY <1>4, <3>2, <4>1, <4>2
      <3>. QED  BY <1>4, <3>1, <3>2
    <2>. QED  BY <2>1 DEF AnswerKept, Restorable
  <1>14. \A i \in Ids : InUse(i)' => InUse(i)
    BY <1>2, <1>6 DEF InUse
  <1>15. ParentsKept'
    <2>1. ASSUME NEW i \in Ids, InUse(i), record[i].parent # 0
          PROVE  record'[record[i].parent].status = "ready" /\ record[i].parent \in artifact'
      <3>1. record[i].parent \in Ids
        BY <1>0, <1>10, <2>1, RecordFields
      <3>2. Restorable(record[i].parent)
        BY <2>1 DEF Kept, ParentsKept, Restorable
      <3>. QED  BY <1>8, <3>1, <3>2
    <2>. QED  BY <1>7, <1>14, <2>1 DEF ParentsKept, Restorable
  <1>16. ParentsOfLease'
    <2>1. ASSUME NEW i \in Ids, record[i].status # "none", record[i].parent # 0
          PROVE  record'[record[i].parent].lease = record[i].lease
      <3>1. record[i].parent \in Ids
        BY <1>0, <1>10, <2>1, RecordFields
      <3>. QED  BY <1>7, <2>1, <3>1 DEF Kept, ParentsOfLease
    <2>. QED  BY <1>7, <2>1 DEF ParentsOfLease
  <1>17. ChildrenGo'
    BY <1>1, <1>7, <1>14 DEF Kept, ChildrenGo
  <1>. QED  BY <1>1, <1>12, <1>13, <1>15, <1>16, <1>17 DEF Kept, Refreshing

\* The rollout hears of the newest checkpoint of its lease.
LEMMA CreateAnsweredKept ==
    ASSUME HandlerInv, Kept, NEW j \in jobs, CreateAnswered(j)
    PROVE  Kept'
  <1>0. TypeOK /\ Ordered /\ HandlersOK /\ j.id \in Ids /\ j.lease \in Leases
    BY JobFields DEF HandlerInv
  <1>1. UNCHANGED <<storeVars, calls, tasks>> /\ jobs' \subseteq jobs /\ j.stage = "ready" /\ j.waited
    BY DEF CreateAnswered, Forget
  <1>2. record' = record /\ artifact' = artifact
    BY <1>1 DEF storeVars
  <1>3. j.kind = "create"
    BY <1>0, <1>1, RerunStages
  <1>4. j.id \in Known(j.lease) /\ \A i \in Known(j.lease) : i <= j.id
    BY <1>0, <1>1, <1>3 DEF HandlersOK, HandlerOK, Creates
  <1>5. Restorable(j.id) /\ \A t \in tasks : j.id \notin t.todo
    BY <1>1, <1>3 DEF Kept, AnswerKept, Restorable
  <1>6. \A i \in Ids : i \in Nat
    BY BoundsAssumption DEF Ids
  <1>7. ASSUME NEW m \in Leases
        PROVE  client'[m].latest = client[m].latest \/ (m = j.lease /\ client'[m].latest = j.id)
    <2>1. CASE client' = [client EXCEPT ![j.lease].latest = j.id]
      BY <1>0, <2>1, LeaseFields DEF TypeOK, Clients
    <2>2. CASE client' = client
      BY <2>2
    <2>. QED  BY <2>1, <2>2 DEF CreateAnswered
  <1>8. ASSUME NEW m \in Leases, NEW p, p # 0, p = client[m].latest \/ (m = j.lease /\ p = j.id)
        PROVE  /\ record[p].lease = m /\ record[p].status = "ready" /\ p \in artifact
               /\ \A i \in Known(m) : i > p => record[i].parent = p
               /\ \A t \in tasks : p \notin t.todo
    <2>1. CASE p = client[m].latest
      BY <1>8, <2>1 DEF Kept, LatestKept, Latest, Restorable
    <2>2. CASE m = j.lease /\ p = j.id
      <3>1. \A i \in Known(m) : ~(i > p)
        BY <1>4, <1>6, <2>2 DEF Known
      <3>2. record[p].lease = m
        BY <1>4, <2>2 DEF Known
      <3>. QED  BY <1>5, <2>2, <3>1, <3>2 DEF Restorable
    <2>. QED  BY <1>8, <2>1, <2>2
  <1>9. LatestKept'
    <2>1. \A m \in Leases : Known(m)' = Known(m)
      BY <1>2 DEF Known
    <2>2. ASSUME NEW m \in Leases, client'[m].latest # 0
          PROVE  /\ record'[client'[m].latest].lease = m
                 /\ record'[client'[m].latest].status = "ready" /\ client'[m].latest \in artifact'
                 /\ \A i \in Known(m)' : i > client'[m].latest => record'[i].parent = client'[m].latest
                 /\ \A t \in tasks' : client'[m].latest \notin t.todo
      <3>1. PICK p : p = client'[m].latest
        OBVIOUS
      <3>2. /\ record[p].lease = m /\ record[p].status = "ready" /\ p \in artifact
            /\ \A i \in Known(m) : i > p => record[i].parent = p
            /\ \A t \in tasks : p \notin t.todo
        BY <1>7, <1>8, <2>2, <3>1
      <3>. QED  BY <1>1, <1>2, <2>1, <3>1, <3>2
    <2>. QED  BY <2>2 DEF LatestKept, Latest, Restorable
  <1>10. AnswerKept'
    <2>1. TasksStay
      BY <1>1 DEF TasksStay
    <2>. QED  BY <1>1, <1>2, <2>1, AnswersStay DEF Kept
  <1>11. ParentsKept' /\ ParentsOfLease' /\ ChildrenGo' /\ Refreshing'
    BY <1>1, <1>2 DEF Kept, ParentsKept, ParentsOfLease, ChildrenGo, Refreshing, InUse, Restorable
  <1>. QED  BY <1>9, <1>10, <1>11 DEF Kept

\* A collection deletes children before their parents.
LEMMA NoChildLeft ==
    ASSUME HandlerInv, Kept, NEW t \in tasks, NEW i \in t.todo, NextToDelete(t, i),
           NEW c \in Ids, InUse(c), record[c].parent = i
    PROVE  c = i
  <1>0. TypeOK /\ Ordered /\ DeletionsOK /\ i \in Ids
    BY TaskFields DEF HandlerInv
  <1>1. c \in t.todo
    BY DEF Kept, ChildrenGo
  <1>2. record[c].status = "ready"
    BY <1>0, <1>1 DEF DeletionsOK, Doomed, InUse
  <1>3. i \in Nat /\ c \in Nat /\ i # 0 /\ i < c
    BY <1>0, RecordFields, BoundsAssumption DEF Ordered, Ids
  <1>4. Restorable(i) /\ record[i].lease = record[c].lease
    <2>1. record[c].parent # 0 /\ record[c].status # "none"
      BY <1>2, <1>3
    <2>. QED  BY <2>1 DEF Kept, ParentsKept, ParentsOfLease, Restorable
  <1>5. record[i].status = "ready"
    BY <1>4 DEF Restorable
  <1>6. SUFFICES ASSUME c # i PROVE FALSE
    OBVIOUS
  <1>7. SortsBefore(c, i)
    BY <1>1, <1>2, <1>5, <1>6 DEF NextToDelete, GoesFirst
  <1>8. record[c].lease \in Leases /\ c \in Known(record[c].lease) /\ i \in Known(record[c].lease)
    BY <1>0, <1>2, <1>4, <1>5, RecordFields DEF Known
  <1>9. c < i
    BY <1>0, <1>7, <1>8, SortedById
  <1>. QED  BY <1>3, <1>9

\* A collection wipes and forgets what no rollout knows, and children before parents.
LEMMA DeletionStepsKept ==
    ASSUME HandlerInv, Kept, NEW t \in tasks, WipeNext(t) \/ ForgetNext(t)
    PROVE  Kept'
  <1>0. TypeOK /\ Ordered /\ DeletionsOK /\ HandlersOK
    BY DEF HandlerInv
  <1>1. PICK i \in t.todo :
          /\ NextToDelete(t, i)
          /\ \/ record' = record /\ artifact' = artifact \ {i}
                /\ tasks' = (tasks \ {t}) \cup {[t EXCEPT !.wiped = TRUE]}
             \/ record' = [record EXCEPT ![i].status = "deleted"] /\ artifact' = artifact
                /\ tasks' = (tasks \ {t}) \cup
                       (IF t.todo = {i} THEN {} ELSE {[t EXCEPT !.todo = t.todo \ {i}, !.wiped = FALSE]})
    <2>1. CASE WipeNext(t)
      BY <2>1 DEF WipeNext
    <2>2. CASE ForgetNext(t)
      BY <2>2 DEF ForgetNext
    <2>. QED  BY <2>1, <2>2
  <1>2. UNCHANGED <<created, client, jobs, calls>>
    BY DEF WipeNext, ForgetNext
  <1>3. i \in Ids /\ t.todo \subseteq Ids
    BY <1>0, TaskFields
  <1>4. ASSUME NEW u \in tasks'
        PROVE  \E v \in tasks : u.todo = v.todo \/ (v = t /\ u.todo = t.todo \ {i} /\ record'[i].status = "deleted")
    <2>1. CASE record' = record /\ artifact' = artifact \ {i}
                /\ tasks' = (tasks \ {t}) \cup {[t EXCEPT !.wiped = TRUE]}
      <3>1. [t EXCEPT !.wiped = TRUE].todo = t.todo
        BY <1>0, TaskFields DEF Tasks
      <3>. QED  BY <2>1, <3>1
    <2>2. CASE record' = [record EXCEPT ![i].status = "deleted"] /\ artifact' = artifact
                /\ tasks' = (tasks \ {t}) \cup
                       (IF t.todo = {i} THEN {} ELSE {[t EXCEPT !.todo = t.todo \ {i}, !.wiped = FALSE]})
      <3>1. [t EXCEPT !.todo = t.todo \ {i}, !.wiped = FALSE].todo = t.todo \ {i}
        BY <1>0, TaskFields DEF Tasks
      <3>2. record'[i].status = "deleted"
        BY <1>0, <1>3, <2>2, RecordFields DEF TypeOK, Records
      <3>. QED  BY <2>2, <3>1, <3>2
    <2>. QED  BY <1>1, <2>1, <2>2
  <1>5. ASSUME NEW n \in Ids
        PROVE  /\ record'[n].parent = record[n].parent /\ record'[n].lease = record[n].lease
               /\ record'[n].status = "none" <=> record[n].status = "none"
               /\ n # i => record'[n] = record[n]
               /\ InUse(n)' => InUse(n)
    <2>1. CASE record' = record
      BY <2>1 DEF InUse
    <2>2. CASE record' = [record EXCEPT ![i].status = "deleted"]
      <3>1. record[i].status # "none"
        BY <1>0 DEF DeletionsOK, Doomed
      <3>. QED  BY <1>0, <1>3, <2>2, <3>1, RecordFields DEF TypeOK, Records, InUse
    <2>. QED  BY <1>1, <2>1, <2>2
  <1>6. ASSUME NEW n \in Ids, n # i, record[n].status = "ready", n \in artifact
        PROVE  record'[n].status = "ready" /\ n \in artifact'
    BY <1>1, <1>5, <1>6
  <1>7. \A n \in MaybeId : n # 0 => n \in Ids
    BY BoundsAssumption DEF Ids, MaybeId
  <1>8. \A n : (\A v \in tasks : n \notin v.todo) => n # i /\ \A u \in tasks' : n \notin u.todo
    BY <1>4
  <1>9. LatestKept'
    <2>1. ASSUME NEW m \in Leases, client[m].latest # 0
          PROVE  /\ record'[client[m].latest].lease = m
                 /\ record'[client[m].latest].status = "ready" /\ client[m].latest \in artifact'
                 /\ \A n \in Known(m) : n > client[m].latest => record'[n].parent = client[m].latest
                 /\ \A u \in tasks' : client[m].latest \notin u.todo
      <3>1. client[m].latest \in Ids
        BY <1>0, <1>7, <2>1, LeaseFields
      <3>2. /\ record[client[m].latest].lease = m
            /\ record[client[m].latest].status = "ready" /\ client[m].latest \in artifact
            /\ \A n \in Known(m) : n > client[m].latest => record[n].parent = client[m].latest
            /\ \A v \in tasks : client[m].latest \notin v.todo
        BY <2>1 DEF Kept, LatestKept, Latest, Restorable
      <3>. QED  BY <1>5, <1>6, <1>8, <3>1, <3>2 DEF Known
    <2>2. \A m \in Leases : Known(m)' = Known(m)
      BY <1>5 DEF Known
    <2>. QED  BY <1>2, <2>1, <2>2 DEF LatestKept, Latest, Restorable
  <1>10. AnswerKept'
    <2>1. ASSUME NEW k \in jobs, k.kind = "create", k.waited
          PROVE  /\ k.stage = "committed" => k.id \in artifact'
                 /\ k.stage = "ready" => /\ record'[k.id].status = "ready" /\ k.id \in artifact'
                                         /\ \A u \in tasks' : k.id \notin u.todo
      <3>1. k.id \in Ids
        BY <1>0, JobFields
      <3>2. CASE k.stage = "committed"
        <4>1. record[k.id].status = "pending"
          BY <1>0, <2>1, <3>2 DEF HandlersOK, HandlerOK, Creates
        <4>2. k.id # i
          BY <1>0, <4>1 DEF DeletionsOK, Doomed
        <4>3. k.id \in artifact
          BY <2>1, <3>2 DEF Kept, AnswerKept
        <4>. QED  BY <1>1, <3>2, <4>2, <4>3
      <3>3. CASE k.stage = "ready"
        <4>1. /\ record[k.id].status = "ready" /\ k.id \in artifact
              /\ \A v \in tasks : k.id \notin v.todo
          BY <2>1, <3>3 DEF Kept, AnswerKept, Restorable
        <4>. QED  BY <1>6, <1>8, <3>1, <3>3, <4>1
      <3>. QED  BY <3>2, <3>3
    <2>. QED  BY <1>2, <2>1 DEF AnswerKept, Restorable
  <1>11. ParentsKept'
    <2>1. ASSUME NEW n \in Ids, InUse(n), InUse(n)', record[n].parent # 0
          PROVE  record'[record[n].parent].status = "ready" /\ record[n].parent \in artifact'
      <3>1. record[n].parent \in Ids
        BY <1>0, <1>7, <2>1, RecordFields
      <3>2. record[record[n].parent].status = "ready" /\ record[n].parent \in artifact
        BY <2>1 DEF Kept, ParentsKept, Restorable
      <3>3. record[n].parent # i
        <4>1. ASSUME record[n].parent = i PROVE FALSE
          <5>1. n = i
            BY <1>1, <2>1, <4>1, NoChildLeft
          <5>. QED  BY <1>0, <1>3, <4>1, <5>1, RecordFields DEF Ordered
        <4>. QED  BY <4>1
      <3>. QED  BY <1>6, <3>1, <3>2, <3>3
    <2>2. ASSUME NEW n \in Ids, InUse(n)', record'[n].parent # 0
          PROVE  record'[record'[n].parent].status = "ready" /\ record'[n].parent \in artifact'
      BY <1>5, <2>1, <2>2
    <2>. QED  BY <2>2 DEF ParentsKept, Restorable
  <1>12. ParentsOfLease'
    <2>1. ASSUME NEW n \in Ids, record[n].status # "none", record[n].parent # 0
          PROVE  record'[record[n].parent].lease = record[n].lease
      <3>1. record[n].parent \in Ids
        BY <1>0, <1>7, <2>1, RecordFields
      <3>. QED  BY <1>5, <2>1, <3>1 DEF Kept, ParentsOfLease
    <2>. QED  BY <1>5, <2>1 DEF ParentsOfLease
  <1>13. ChildrenGo'
    <2>1. ASSUME NEW u \in tasks', NEW c \in Ids, InUse(c)', record[c].parent \in u.todo
          PROVE  c \in u.todo
      <3>1. PICK v \in tasks : u.todo = v.todo \/ (v = t /\ u.todo = t.todo \ {i} /\ record'[i].status = "deleted")
        BY <1>4
      <3>2. c \in v.todo
        BY <1>5, <2>1, <3>1 DEF Kept, ChildrenGo
      <3>. QED  BY <2>1, <3>1, <3>2 DEF InUse
    <2>. QED  BY <1>5, <2>1 DEF ChildrenGo
  <1>. QED  BY <1>2, <1>9, <1>10, <1>11, <1>12, <1>13 DEF Kept, Refreshing

\* A plan that keeps at least one checkpoint of a lease keeps what its rollout would rerun
\* from, and takes no parent without its children.
LEMMA PlanSpares ==
    ASSUME HandlerInv, Kept, NEW l \in Leases, NEW k \in Nat, k # 0, NEW i \in Deletable(l, k)
    PROVE  /\ \A m \in Leases : client[m].latest # i
           /\ \A j \in jobs : j.kind = "create" /\ j.waited /\ j.stage = "ready" => j.id # i
           /\ \A c \in Ids : InUse(c) /\ record[c].parent = i => c \in Deletable(l, k)
  <1>0. TypeOK /\ Ordered /\ HandlersOK
    BY DEF HandlerInv
  <1>1. i \in Ids /\ record[i].lease = l /\ record[i].status \in {"ready", "failed"} /\ i # 0 /\ i \in Nat
    BY PlanDoomed, BoundsAssumption DEF Ids
  <1>2. i \in ReadyOf(l) => i \notin Protected(l, k)
    BY DEF Deletable, ReadyOf
  <1>3. \A m \in Leases : client[m].latest # i
    <2>1. SUFFICES ASSUME NEW m \in Leases, client[m].latest = i PROVE FALSE
      OBVIOUS
    <2>2. /\ record[i].lease = m /\ record[i].status = "ready"
          /\ \A n \in Known(m) : n > i => record[n].parent = i
      BY <1>1, <2>1 DEF Kept, LatestKept, Latest, Restorable
    <2>3. i \in ReadyOf(l) /\ m = l
      BY <1>1, <2>2 DEF ReadyOf
    <2>4. PICK n \in ReadyOf(l) : \A y \in ReadyOf(l) : y <= n
      BY <2>3, ReadyKnown, GreatestId
    <2>5. n \in Protected(l, k)
      BY <1>0, <2>4, ProtectedClosed
    <2>6. n \in Known(l) /\ n \in Nat /\ i <= n
      BY <2>3, <2>4, ReadyKnown, BoundsAssumption DEF Ids
    <2>7. CASE n = i
      BY <1>2, <2>3, <2>5, <2>7
    <2>8. CASE n # i
      <3>1. record[n].parent = i
        BY <1>1, <2>2, <2>3, <2>6, <2>8
      <3>2. i \in Protected(l, k)
        BY <1>0, <2>3, <2>5, <3>1, ProtectedClosed
      <3>. QED  BY <1>2, <2>3, <3>2
    <2>. QED  BY <2>7, <2>8
  <1>4. \A j \in jobs : j.kind = "create" /\ j.waited /\ j.stage = "ready" => j.id # i
    <2>1. SUFFICES ASSUME NEW j \in jobs, j.kind = "create", j.waited, j.stage = "ready", j.id = i PROVE FALSE
      OBVIOUS
    <2>2. i \in Known(j.lease) /\ \A n \in Known(j.lease) : n <= i
      BY <1>0, <2>1 DEF HandlersOK, HandlerOK, Creates
    <2>3. record[i].status = "ready"
      BY <2>1 DEF Kept, AnswerKept, Restorable
    <2>4. j.lease = l /\ i \in ReadyOf(l)
      BY <1>1, <2>2, <2>3 DEF Known, ReadyOf
    <2>5. \A n \in ReadyOf(l) : n <= i
      BY <2>2, <2>4, ReadyKnown
    <2>. QED  BY <1>0, <1>2, <2>4, <2>5, ProtectedClosed
  <1>5. ASSUME NEW c \in Ids, InUse(c), record[c].parent = i PROVE c \in Deletable(l, k)
    <2>1. record[c].status # "none" /\ record[c].parent # 0
      BY <1>1, <1>5 DEF InUse
    <2>2. record[c].lease = l
      BY <1>1, <1>5, <2>1 DEF Kept, ParentsOfLease
    <2>3. i \in ReadyOf(l)
      BY <1>1, <1>5, <2>1 DEF Kept, ParentsKept, Restorable, ReadyOf
    <2>4. c \notin Protected(l, k)
      BY <1>0, <1>2, <1>5, <2>3, ProtectedClosed
    <2>5. c \notin Pending(l)
      BY <1>0, <2>4, ProtectedClosed
    <2>. QED  BY <1>5, <2>2, <2>4, <2>5 DEF Deletable, Pending, ReadyOf, InUse
  <1>. QED  BY <1>3, <1>4, <1>5

\* A plan spares what rollouts and answers know, and takes children with their parents.
LEMMA CollectKept ==
    ASSUME HandlerInv, Kept, Careful, NEW k \in setup.keep, NEW l \in Leases,
           CollectLease(l, k) \/ CollectNode(k)
    PROVE  Kept'
  <1>0. TypeOK /\ UNCHANGED <<storeVars, client, jobs>>
    BY DEF HandlerInv, CollectLease, CollectNode
  <1>1. k \in Nat /\ k # 0
    <2>1. setup \in Setups
      BY <1>0 DEF TypeOK
    <2>. QED  BY <2>1, BoundsAssumption DEF Careful
  <1>. DEFINE Good(plan) ==
         /\ \A i \in plan : /\ \A m \in Leases : client[m].latest # i
                            /\ \A j \in jobs : j.kind = "create" /\ j.waited /\ j.stage = "ready" => j.id # i
         /\ \A c \in Ids : InUse(c) /\ record[c].parent \in plan => c \in plan
  <1>2. \A m \in Leases : Good(Deletable(m, k))
    BY <1>1, PlanSpares
  <1>3. PICK plan : /\ Good(plan)
                    /\ \A u \in tasks' : u \in tasks \/ u.todo = plan
                    /\ \A c \in calls' : c \in calls \/ c.stage = "refresh"
    <2>1. CASE CollectLease(l, k)
      <3>1. \A u \in tasks' : u \in tasks \/ u.todo = Deletable(l, k)
        BY <2>1 DEF CollectLease, Enqueued
      <3>2. \A c \in calls' : c \in calls \/ c.stage = "refresh"
        BY <2>1 DEF CollectLease
      <3>. HIDE DEF Good
      <3>. QED  BY <1>2, <3>1, <3>2
    <2>2. CASE CollectNode(k)
      <3>. DEFINE all == UNION {Deletable(m, k) : m \in Leases}
      <3>1. Good(all)
        <4>1. ASSUME NEW i \in all
              PROVE  /\ \A m \in Leases : client[m].latest # i
                     /\ \A j \in jobs : j.kind = "create" /\ j.waited /\ j.stage = "ready" => j.id # i
          BY <1>2
        <4>2. ASSUME NEW c \in Ids, InUse(c), record[c].parent \in all PROVE c \in all
          <5>1. PICK m \in Leases : record[c].parent \in Deletable(m, k)
            BY <4>2
          <5>2. c \in Deletable(m, k)
            BY <1>2, <4>2, <5>1
          <5>. QED  BY <5>2
        <4>. QED  BY <4>1, <4>2
      <3>2. \A u \in tasks' : u \in tasks \/ u.todo = all
        BY <2>2 DEF CollectNode, Enqueued
      <3>3. calls' = calls
        BY <2>2 DEF CollectNode
      <3>. HIDE DEF Good, all
      <3>. QED  BY <3>1, <3>2, <3>3
    <2>. QED  BY <2>1, <2>2
  <1>4. UNCHANGED <<record, artifact, client, jobs>>
    BY <1>0 DEF storeVars
  <1>5. LatestKept'
    <2>1. ASSUME NEW m \in Leases, client[m].latest # 0
          PROVE  /\ record[client[m].latest].lease = m
                 /\ record[client[m].latest].status = "ready" /\ client[m].latest \in artifact
                 /\ \A i \in Known(m) : i > client[m].latest => record[i].parent = client[m].latest
                 /\ \A u \in tasks' : client[m].latest \notin u.todo
      BY <1>3, <2>1 DEF Kept, LatestKept, Latest, Restorable
    <2>2. \A m \in Leases : Known(m)' = Known(m)
      BY <1>4 DEF Known
    <2>. QED  BY <1>4, <2>1, <2>2 DEF LatestKept, Latest, Restorable
  <1>6. AnswerKept'
    BY <1>3, <1>4 DEF Kept, AnswerKept, Restorable
  <1>7. ParentsKept' /\ ParentsOfLease'
    BY <1>4 DEF Kept, ParentsKept, ParentsOfLease, Restorable, InUse
  <1>8. ChildrenGo'
    BY <1>3, <1>4 DEF Kept, ChildrenGo, InUse
  <1>9. Refreshing'
    BY <1>3 DEF Kept, Refreshing
  <1>. QED  BY <1>5, <1>6, <1>7, <1>8, <1>9 DEF Kept

\* Checkpoints are kept in the steps of a lease and of its rollout,
LEMMA LeaseStepsKept ==
    ASSUME HandlerInv, Kept, NEW l \in Leases,
           \/ \E c \in Containers : Allocate(l, c)
           \/ Close(l) \/ FaultKill(l) \/ BeginRerun(l) \/ RerunRefused(l)
    PROVE  Kept'
  <1>0. TypeOK
    BY DEF HandlerInv
  <1>1. UNCHANGED <<record, artifact, tasks, calls>>
    BY DEF Allocate, Close, FaultKill, BeginRerun, RerunRefused, storeVars
  <1>2. \A k \in jobs' : k.kind = "create" /\ k.waited => k \in jobs
    BY DEF Allocate, Close, FaultKill, BeginRerun, RerunRefused
  <1>3. ASSUME NEW m \in Leases PROVE client'[m].latest = client[m].latest
    <2>1. CASE FaultKill(l) \/ RerunRefused(l)
      <3>1. \/ client' = [client EXCEPT ![l].faulted = TRUE]
            \/ client' = [client EXCEPT ![l].restart = TRUE]
        BY <2>1 DEF FaultKill, RerunRefused
      <3>2. client \in [Leases -> Clients] /\ client[l] \in Clients
        BY <1>0 DEF TypeOK
      <3>3. /\ [client[l] EXCEPT !.faulted = TRUE].latest = client[l].latest
            /\ [client[l] EXCEPT !.restart = TRUE].latest = client[l].latest
        BY <3>2 DEF Clients
      <3>. QED  BY <3>1, <3>2, <3>3
    <2>2. CASE \/ \E c \in Containers : Allocate(l, c)
               \/ Close(l) \/ BeginRerun(l)
      BY <2>2 DEF Allocate, Close, BeginRerun
    <2>. QED  BY <2>1, <2>2
  <1>4. \A c \in calls' : c.stage \in {"refresh", "listed"}
    BY <1>1 DEF Kept, Refreshing
  <1>. QED  BY <1>0, <1>1, <1>2, <1>3, <1>4, OtherStepsKept

\* in the steps of handlers,
LEMMA JobStepsKept ==
    ASSUME HandlerInv, Kept, NEW j \in jobs, JobStep(j) \/ PoolTimesOut(j)
    PROVE  Kept'
  <1>0. TypeOK /\ HandlersOK /\ j.lease \in Leases
    BY JobFields DEF HandlerInv
  <1>1. CASE CommitSource(j) \/ CreateFails(j) \/ CreateReady(j)
    BY <1>1, CreateMovesKept
  <1>2. CASE CreateAnswered(j)
    BY <1>2, CreateAnsweredKept
  <1>3. CASE \/ \E c \in Containers : RestoreTarget(j, c)
             \/ DestroyOld(j) \/ SwapTracked(j) \/ MarkUsed(j) \/ RerunFails(j)
    <2>1. UNCHANGED <<record, artifact, tasks, calls, client>>
      BY <1>3 DEF RestoreTarget, DestroyOld, SwapTracked, MarkUsed, RerunFails, storeVars
    <2>2. j.kind = "rerun"
      <3>1. j.stage \in {"restoring"} \union Replacing
        BY <1>3 DEF RestoreTarget, DestroyOld, SwapTracked, MarkUsed, RerunFails, Replacing
      <3>. QED  BY <1>0, <3>1, RerunStages
    <2>3. \A k \in jobs' : k.kind = "create" /\ k.waited => k \in jobs
      <3>1. CASE \E c \in Containers : RestoreTarget(j, c)
        <4>1. PICK c \in Containers : jobs' = (jobs \ {j}) \cup {[j EXCEPT !.stage = "restored", !.new = c]}
          BY <3>1 DEF RestoreTarget
        <4>2. [j EXCEPT !.stage = "restored", !.new = c].kind = j.kind
          BY <1>0, JobFields DEF Jobs
        <4>. QED  BY <2>2, <4>1, <4>2
      <3>2. CASE DestroyOld(j) \/ SwapTracked(j) \/ MarkUsed(j) \/ RerunFails(j)
        <4>1. PICK s : Advance(j, s)
          BY <3>2 DEF DestroyOld, SwapTracked, MarkUsed, RerunFails
        <4>. QED  BY <1>0, <2>2, <4>1, Moved
      <3>. QED  BY <1>3, <3>1, <3>2
    <2>4. \A c \in calls' : c.stage \in {"refresh", "listed"}
      BY <2>1 DEF Kept, Refreshing
    <2>. QED  BY <1>0, <2>1, <2>3, <2>4, OtherStepsKept
  <1>4. CASE RerunAnswered(j) \/ FailureAnswered(j) \/ AnswerDropped(j) \/ PoolTimesOut(j)
    <2>1. UNCHANGED <<record, artifact, tasks, calls>>
      BY <1>4 DEF RerunAnswered, FailureAnswered, AnswerDropped, PoolTimesOut, storeVars
    <2>2. \A k \in jobs' : k.kind = "create" /\ k.waited => k \in jobs
      <3>1. CASE PoolTimesOut(j)
        <4>1. jobs' = (jobs \ {j}) \cup {[j EXCEPT !.waited = FALSE]}
          BY <3>1 DEF PoolTimesOut
        <4>2. ~[j EXCEPT !.waited = FALSE].waited
          BY <1>0, JobFields DEF Jobs
        <4>. QED  BY <4>1, <4>2
      <3>2. CASE RerunAnswered(j) \/ FailureAnswered(j) \/ AnswerDropped(j)
        BY <3>2 DEF RerunAnswered, FailureAnswered, AnswerDropped, Forget
      <3>. QED  BY <1>4, <3>1, <3>2
    <2>3. \A m \in Leases : client'[m].latest = client[m].latest
      <3>1. CASE RerunAnswered(j)
        <4>1. j.kind = "rerun" /\ j.waited
          BY <1>0, <3>1, RerunStages DEF RerunAnswered, Replacing
        <4>2. client[j.lease].latest = j.id
          BY <1>0, <4>1 DEF HandlersOK, HandlerOK, Reruns
        <4>. QED  BY <1>0, <3>1, <4>2, LeaseFields DEF RerunAnswered, TypeOK, Clients
      <3>2. CASE FailureAnswered(j) \/ AnswerDropped(j) \/ PoolTimesOut(j)
        BY <1>0, <3>2, LeaseFields DEF FailureAnswered, AnswerDropped, PoolTimesOut, TypeOK,
             Clients
      <3>. QED  BY <1>4, <3>1, <3>2
    <2>4. \A c \in calls' : c.stage \in {"refresh", "listed"}
      BY <2>1 DEF Kept, Refreshing
    <2>. QED  BY <1>0, <2>1, <2>2, <2>3, <2>4, OtherStepsKept
  <1>. QED  BY <1>1, <1>2, <1>3, <1>4 DEF JobStep

\* in those steps of collections and calls that delete nothing,
LEMMA OtherCollectingKept ==
    ASSUME HandlerInv, Kept, Careful,
           \/ \E l \in Leases, i \in Ids : BeginDelete(l, i)
           \/ \E t \in tasks : TaskStep(t)
           \/ \E c \in calls : CallStep(c)
    PROVE  Kept'
  <1>0. TypeOK
    BY DEF HandlerInv
  <1>1. CASE \E l \in Leases, i \in Ids : BeginDelete(l, i)
    BY <1>1 DEF Careful, BeginDelete
  <1>2. CASE \E t \in tasks : TaskStep(t)
    <2>1. PICK t \in tasks : TaskStep(t)
      BY <1>2
    <2>2. CASE WipeNext(t) \/ ForgetNext(t)
      BY <2>2, DeletionStepsKept
    <2>3. CASE StartCollecting(t) \/ CollectingFails(t)
      <3>1. UNCHANGED <<record, artifact, client, jobs, calls>>
        BY <2>3 DEF StartCollecting, CollectingFails, storeVars
      <3>2. TasksStay
        <4>1. CASE StartCollecting(t)
          <5>1. tasks' = (tasks \ {t}) \cup {[t EXCEPT !.collecting = TRUE]}
            BY <4>1 DEF StartCollecting
          <5>2. [t EXCEPT !.collecting = TRUE].todo = t.todo
            BY <1>0, TaskFields DEF Tasks
          <5>. QED  BY <5>1, <5>2 DEF TasksStay
        <4>2. CASE CollectingFails(t)
          BY <4>2 DEF CollectingFails, TasksStay
        <4>. QED  BY <2>3, <4>1, <4>2
      <3>3. AnswerKept'
        BY <3>1, <3>2, AnswersStay DEF Kept
      <3>4. \A c \in calls' : c.stage \in {"refresh", "listed"}
        BY <3>1 DEF Kept, Refreshing
      <3>. QED  BY <1>0, <3>1, <3>2, <3>3, <3>4, KeptFrame
    <2>. QED  BY <2>1, <2>2, <2>3 DEF TaskStep
  <1>3. CASE \E c \in calls : CallStep(c)
    <2>1. PICK c \in calls : CallStep(c)
      BY <1>3
    <2>2. c.stage \in {"refresh", "listed"}
      BY DEF Kept, Refreshing
    <2>3. CASE RefreshLists(c)
      <3>1. /\ UNCHANGED <<storeVars, client, jobs, tasks>>
            /\ calls' = (calls \ {c}) \cup {[c EXCEPT !.stage = "listed", !.id = NewestReady(c.lease)]}
        BY <2>3 DEF RefreshLists, Replace
      <3>2. [c EXCEPT !.stage = "listed", !.id = NewestReady(c.lease)].stage = "listed"
        BY <1>0, CallFields
      <3>3. \A d \in calls' : d.stage \in {"refresh", "listed"}
        BY <3>1, <3>2 DEF Kept, Refreshing
      <3>. QED  BY <1>0, <3>1, <3>3, OtherStepsKept DEF storeVars
    <2>4. CASE RefreshSets(c)
      <3>1. UNCHANGED <<storeVars, client, jobs, tasks>> /\ calls' \subseteq calls
        BY <2>4 DEF RefreshSets
      <3>2. \A d \in calls' : d.stage \in {"refresh", "listed"}
        BY <3>1 DEF Kept, Refreshing
      <3>. QED  BY <1>0, <3>1, <3>2, OtherStepsKept DEF storeVars
    <2>. QED  BY <2>1, <2>2, <2>3, <2>4 DEF CallStep, DeleteArtifact, DeleteRecord
  <1>. QED  BY <1>1, <1>2, <1>3

\* (settings and habits do not change)
LEMMA SetupStays ==
    ASSUME [Next]_vars
    PROVE  setup' = setup
  <1>1. ASSUME NEW j \in jobs, JobStep(j) \/ PoolTimesOut(j) PROVE setup' = setup
    BY <1>1 DEF JobStep, CommitSource, CreateFails, CreateReady, CreateAnswered, RestoreTarget,
         DestroyOld,
       SwapTracked, MarkUsed, RerunFails, RerunAnswered, FailureAnswered, AnswerDropped, PoolTimesOut, storeVars
  <1>2. ASSUME NEW l \in Leases,
               \/ \E c \in Containers : Allocate(l, c)
               \/ Close(l) \/ FaultKill(l) \/ BeginCreate(l) \/ BeginRerun(l) \/ RerunRefused(l)
        PROVE  setup' = setup
    BY <1>2 DEF Allocate, Close, FaultKill, BeginCreate, BeginRerun, RerunRefused, storeVars
  <1>3. CASE \/ \E k \in setup.keep : CollectNode(k) \/ \E l \in Leases : CollectLease(l, k)
             \/ \E l \in Leases, i \in Ids : BeginDelete(l, i)
             \/ \E t \in tasks : TaskStep(t)
             \/ \E c \in calls : CallStep(c)
             \/ Restart
    BY <1>3 DEF CollectNode, CollectLease, BeginDelete, TaskStep, StartCollecting, WipeNext,
         ForgetNext,
       CollectingFails, CallStep, DeleteArtifact, DeleteRecord, RefreshLists, RefreshSets, Restart, storeVars
  <1>. QED  BY <1>1, <1>2, <1>3 DEF Next, vars, storeVars

\* and in any step.
LEMMA KeptStep == HandlerInv /\ KeptInv /\ [Next]_vars => KeptInv'
  <1>. SUFFICES ASSUME HandlerInv, KeptInv, [Next]_vars, Careful' PROVE Kept'
    BY DEF KeptInv
  <1>0. Careful /\ Kept /\ TypeOK /\ DeletionsOK
    BY SetupStays DEF Careful, KeptInv, HandlerInv
  <1>1. CASE UNCHANGED vars
    BY <1>0, <1>1, OtherStepsKept DEF vars, storeVars, Kept, Refreshing
  <1>2. CASE Next
    <2>1. CASE \E l \in Leases : BeginCreate(l)
      BY <1>0, <2>1, BeginCreateKept
    <2>2. CASE \E l \in Leases : \/ \E c \in Containers : Allocate(l, c)
                                 \/ Close(l) \/ FaultKill(l) \/ BeginRerun(l) \/ RerunRefused(l)
      BY <1>0, <2>2, LeaseStepsKept
    <2>3. CASE \E j \in jobs : JobStep(j) \/ PoolTimesOut(j)
      BY <1>0, <2>3, JobStepsKept
    <2>4. CASE \E k \in setup.keep : CollectNode(k) \/ \E l \in Leases : CollectLease(l, k)
      BY <1>0, <2>4, CollectKept, LeasesAssumption
    <2>5. CASE \/ \E l \in Leases, i \in Ids : BeginDelete(l, i)
               \/ \E t \in tasks : TaskStep(t)
               \/ \E c \in calls : CallStep(c)
      BY <1>0, <2>5, OtherCollectingKept
    <2>6. CASE Restart
      <3>1. /\ UNCHANGED <<record, artifact>> /\ jobs' = {} /\ tasks' = {}
            /\ \A l \in Leases : client'[l].latest = client[l].latest
            /\ \A c \in calls' : c.stage \in {"refresh", "listed"}
        BY <1>0, <2>6, RestartDoes DEF storeVars
      <3>2. TasksStay /\ AnswerKept'
        BY <3>1 DEF TasksStay, AnswerKept
      <3>. QED  BY <1>0, <3>1, <3>2, KeptFrame
    <2>. QED  BY <1>2, <2>1, <2>2, <2>3, <2>4, <2>5, <2>6 DEF Next
  <1>. QED  BY <1>1, <1>2

\* At first there is nothing to keep.
LEMMA InitKept == Init => KeptInv
  <1>. SUFFICES ASSUME Init PROVE Kept
    BY DEF KeptInv
  <1>1. \A i \in Ids : record[i].status = "none" /\ record[i].parent = 0
    BY DEF Init
  <1>2. \A l \in Leases : client[l].latest = 0
    BY DEF Init, NewClient
  <1>. QED  BY <1>1, <1>2 DEF Init, Kept, LatestKept, Latest, AnswerKept, ParentsKept,
       ParentsOfLease,
       ChildrenGo, Refreshing, InUse

\* With callers that delete no single checkpoint and let collections keep one: what a rollout
\* would rerun from is restorable, parent of all that is younger, and in no plan that is
\* queued; and so it is with the checkpoint an answer on its way names (_checkpoint_gc_plan
\* runs without the lease's lifecycle lock, and its deletions later).
THEOREM KeptAlways == Spec => []KeptInv
  BY InitKept, InitHandler, HandlerStep, KeptStep, PTL DEF Spec

\* The checkpoint a rollout would rerun from is never collected, although the node does not
\* know what the rollout has heard (README_EN.md 3.4 step 1).
THEOREM CheckpointOfRolloutKept == Spec => []ClientCheckpointKept
  <1>1. KeptInv => ClientCheckpointKept
    BY DEF KeptInv, Kept, LatestKept, Latest, ClientCheckpointKept, Restorable
  <1>. QED  BY <1>1, KeptAlways, PTL

\* Every checkpoint in use keeps its parent, also between two deletions of a collection and
\* after a crash in the middle of one (README_EN.md 3.4).
THEOREM LineageAlwaysKept == Spec => []LineageKept
  <1>1. KeptInv => LineageKept
    BY DEF KeptInv, Kept, ParentsKept, InUse, LineageKept, Restorable
  <1>. QED  BY <1>1, KeptAlways, PTL
-----------------------------------------------------------------------------
(***************************************************************************)
(* Containers are accounted for.                                           *)
(***************************************************************************)
\* A container is accounted for by an open lease, or by the rerun that made it; a
\* tracked one that does not run, by the rerun that destroyed it.
Held(c) == \/ \E l \in Leases : IsOpen(l) /\ lease[l].container = c
           \/ \E j \in jobs : j.stage \in Replacing /\ c = j.new

Forgotten(c) == \E j \in jobs : j.container = c /\ j.stage = "destroyed"

\* The same in terms of the two.
LEMMA AccountIs ==
    AccountInv <=> /\ \A j \in jobs : j.waited
                   /\ \A c \in running : Held(c)
                   /\ \A c \in tracked \ running : Forgotten(c)
  BY DEF AccountInv, Held, Forgotten

\* Containers stay accounted for when none comes or goes and no rerun at work ends.
LEMMA AccountFrame ==
    ASSUME AccountInv, \A j \in jobs' : j.waited, UNCHANGED <<running, tracked>>,
           \A l \in Leases : lease'[l].status = lease[l].status /\ lease'[l].container = lease[l].container,
           \A j \in jobs : j.stage \in Replacing => j \in jobs'
    PROVE  AccountInv'
  BY DEF AccountInv, IsOpen, Replacing

\* Containers are accounted for in the steps of a lease and of its rollout,
LEMMA LeaseStepsAccount ==
    ASSUME HandlerInv, AccountInv, NEW l \in Leases,
           \/ \E c \in Containers : Allocate(l, c)
           \/ Close(l) \/ FaultKill(l) \/ BeginCreate(l) \/ BeginRerun(l) \/ RerunRefused(l)
    PROVE  AccountInv'
  <1>0. TypeOK /\ LeasesOK
    BY DEF HandlerInv
  <1>1. CASE \E c \in Containers : Allocate(l, c)
    <2>1. PICK c \in Containers : Allocate(l, c)
      BY <1>1
    <2>2. /\ jobs' = jobs /\ running' = running \union {c} /\ tracked' = tracked \union {c}
          /\ lease[l].status = "none"
      BY <2>1 DEF Allocate
    <2>3. /\ lease'[l].status = "open" /\ lease'[l].container = c
          /\ \A m \in Leases : m # l => lease'[m] = lease[m]
      BY <1>0, <2>1, LeaseFields DEF Allocate, TypeOK, LeaseRecords
    <2>4. Held(c)'
      BY <2>3 DEF Held, IsOpen
    <2>5. \A d : Held(d) => Held(d)'
      BY <2>2, <2>3 DEF Held, IsOpen
    <2>6. \A d : Forgotten(d) => Forgotten(d)'
      BY <2>2 DEF Forgotten
    <2>7. \A d \in running' : Held(d)'
      BY <2>2, <2>4, <2>5, AccountIs
    <2>8. \A d \in tracked' \ running' : Forgotten(d)'
      BY <2>2, <2>6, AccountIs
    <2>9. \A j \in jobs' : j.waited
      BY <2>2, AccountIs
    <2>. QED  BY <2>7, <2>8, <2>9 DEF AccountInv, Held, Forgotten
  <1>2. CASE Close(l) \/ FaultKill(l)
    <2>1. /\ jobs' = jobs /\ running' = running \ {lease[l].container}
          /\ tracked' = tracked \ {lease[l].container}
      BY <1>2 DEF Close, FaultKill
    <2>2. \A m \in Leases : /\ lease'[m].container = lease[m].container
                            /\ m # l => lease'[m] = lease[m]
      BY <1>0, <1>2, LeaseFields DEF Close, FaultKill, TypeOK, LeaseRecords
    <2>3. \A d \in running' : Held(d) => Held(d)'
      BY <2>1, <2>2 DEF Held, IsOpen
    <2>4. \A d : Forgotten(d) => Forgotten(d)'
      BY <2>1 DEF Forgotten
    <2>5. \A d \in running' : Held(d)'
      BY <2>1, <2>3, AccountIs
    <2>6. \A d \in tracked' \ running' : Forgotten(d)'
      BY <2>1, <2>4, AccountIs
    <2>7. \A j \in jobs' : j.waited
      BY <2>1, AccountIs
    <2>. QED  BY <2>5, <2>6, <2>7 DEF AccountInv, Held, Forgotten
  <1>3. CASE BeginCreate(l) \/ BeginRerun(l) \/ RerunRefused(l)
    <2>1. UNCHANGED <<running, tracked, lease>> /\ jobs \subseteq jobs' /\ \A j \in jobs' : j \in jobs \/ j.waited
      BY <1>3 DEF BeginCreate, BeginRerun, RerunRefused, dockerVars
    <2>. QED  BY <2>1, AccountFrame DEF AccountInv
  <1>. QED  BY <1>1, <1>2, <1>3

\* in the steps of a checkpoint handler,
LEMMA CreateStepsAccount ==
    ASSUME HandlerInv, AccountInv, setup.legacy, NEW j \in jobs,
           CommitSource(j) \/ CreateFails(j) \/ CreateReady(j) \/ CreateAnswered(j)
    PROVE  AccountInv'
  <1>0. TypeOK /\ HandlersOK /\ j.lease \in Leases
    BY JobFields DEF HandlerInv
  <1>1. UNCHANGED <<running, tracked>>
    BY DEF CommitSource, CreateFails, CreateReady, CreateAnswered, LeftRunning, dockerVars
  <1>2. j.stage \notin Replacing
    BY DEF CommitSource, CreateFails, CreateReady, CreateAnswered, Replacing
  <1>3. \A m \in Leases : lease'[m].status = lease[m].status /\ lease'[m].container = lease[m].container
    <2>1. CASE CommitSource(j) \/ CreateFails(j) \/ CreateReady(j)
      BY <2>1 DEF CommitSource, CreateFails, CreateReady
    <2>2. CASE CreateAnswered(j)
      BY <1>0, <2>2, LeaseFields DEF CreateAnswered, TypeOK, LeaseRecords
    <2>. QED  BY <2>1, <2>2
  <1>4. jobs \ {j} \subseteq jobs' /\ \A k \in jobs' : k \in jobs \/ k.waited
    <2>1. CASE CommitSource(j) \/ CreateFails(j) \/ CreateReady(j)
      <3>1. PICK s : Advance(j, s)
        BY <2>1 DEF CommitSource, CreateFails, CreateReady
      <3>2. PICK j2 : jobs' = (jobs \ {j}) \union {j2} /\ j2.waited = j.waited
        BY <1>0, <3>1, Moved
      <3>. QED  BY <3>2 DEF AccountInv
    <2>2. CASE CreateAnswered(j)
      BY <2>2 DEF CreateAnswered, Forget
    <2>. QED  BY <2>1, <2>2
  <1>. QED  BY <1>1, <1>2, <1>3, <1>4, AccountFrame DEF AccountInv

\* What a rerun that is waited for is made from is there when it is marked as used.
LEMMA RerunSourceExists ==
    ASSUME HandlerInv, Kept, NEW j \in jobs, j.kind = "rerun", j.waited
    PROVE  Exists(j.id)
  <1>1. j.lease \in Leases /\ j.id \in Ids
    BY JobFields DEF HandlerInv
  <1>2. client[j.lease].latest = j.id
    BY DEF HandlerInv, HandlersOK, HandlerOK, Reruns
  <1>3. j.id # 0
    BY <1>1, BoundsAssumption DEF Ids
  <1>4. record[j.id].status = "ready"
    BY <1>1, <1>2, <1>3 DEF Kept, LatestKept, Latest, Restorable
  <1>. QED  BY <1>3, <1>4 DEF Exists

\* in the steps of a rerun,
LEMMA RerunStepsAccount ==
    ASSUME HandlerInv, Kept, AccountInv, ~MayTimeOut, NEW j \in jobs,
           \/ \E c \in Containers : RestoreTarget(j, c)
           \/ DestroyOld(j) \/ SwapTracked(j) \/ MarkUsed(j) \/ RerunFails(j)
    PROVE  AccountInv'
  <1>0. /\ TypeOK /\ HandlersOK /\ Apart /\ NoContainer \notin Containers
        /\ used \subseteq Containers /\ running \subseteq used
    BY ContainersAssumption DEF HandlerInv, TypeOK
  <1>1. lease' = lease /\ j.waited
    BY DEF RestoreTarget, DestroyOld, SwapTracked, MarkUsed, RerunFails, AccountInv
  <1>2. j.kind = "rerun" /\ Reruns(j)
    <2>1. j.stage \in {"restoring"} \union Replacing
      BY DEF RestoreTarget, DestroyOld, SwapTracked, MarkUsed, RerunFails, Replacing
    <2>. QED  BY <1>0, <2>1, RerunStages DEF HandlersOK, HandlerOK
  <1>3. /\ \A k \in jobs : k.waited
        /\ \A c \in running : Held(c)
        /\ \A c \in tracked \ running : Forgotten(c)
    BY AccountIs
  <1>4. CASE \E c \in Containers : RestoreTarget(j, c)
    <2>1. PICK c \in Containers : RestoreTarget(j, c)
      BY <1>4
    <2>2. PICK j2 : /\ jobs' = (jobs \ {j}) \union {j2} /\ j2.stage = "restored"
                    /\ j2.new = c /\ j2.waited = j.waited
      <3>. DEFINE m == [j EXCEPT !.stage = "restored", !.new = c]
      <3>1. m.stage = "restored" /\ m.new = c /\ m.waited = j.waited
        BY <1>0, JobFields DEF Jobs
      <3>2. jobs' = (jobs \ {j}) \union {m}
        BY <2>1 DEF RestoreTarget
      <3>. HIDE DEF m
      <3>. QED  BY <3>1, <3>2
    <2>3. running' = running \union {c} /\ tracked' = tracked /\ j.stage = "restoring"
      BY <2>1 DEF RestoreTarget
    <2>4. Held(c)' /\ \A d : Held(d) => Held(d)'
      BY <1>1, <2>2, <2>3 DEF Held, IsOpen, Replacing
    <2>5. \A d : Forgotten(d) => Forgotten(d)'
      BY <2>2, <2>3 DEF Forgotten
    <2>6. \A d \in running' : Held(d)'
      BY <1>3, <2>3, <2>4
    <2>7. \A d \in tracked' \ running' : Forgotten(d)'
      BY <1>3, <2>3, <2>5
    <2>8. \A k \in jobs' : k.waited
      BY <1>1, <1>3, <2>2
    <2>. QED  BY <2>6, <2>7, <2>8 DEF AccountInv, Held, Forgotten
  <1>5. CASE DestroyOld(j)
    <2>1. running' = running \ {j.container} /\ tracked' = tracked /\ j.stage = "restored" /\ Advance(j, "destroyed")
      BY <1>5 DEF DestroyOld
    <2>2. PICK j2 : /\ jobs' = (jobs \ {j}) \union {j2} /\ j2.stage = "destroyed"
                    /\ j2.container = j.container /\ j2.new = j.new /\ j2.waited = j.waited
      BY <1>0, <2>1, Moved
    <2>3. \A d : Held(d) => Held(d)'
      BY <1>1, <2>2 DEF Held, IsOpen, Replacing
    <2>4. Forgotten(j.container)' /\ \A d : Forgotten(d) => Forgotten(d)'
      BY <2>1, <2>2 DEF Forgotten
    <2>5. \A d \in running' : Held(d)'
      BY <1>3, <2>1, <2>3
    <2>6. \A d \in tracked' \ running' : Forgotten(d)'
      BY <1>3, <2>1, <2>4
    <2>7. \A k \in jobs' : k.waited
      BY <1>1, <1>3, <2>2
    <2>. QED  BY <2>5, <2>6, <2>7 DEF AccountInv, Held, Forgotten
  <1>6. CASE SwapTracked(j)
    <2>1. /\ running' = running /\ tracked' = (tracked \ {j.container}) \union {j.new}
          /\ j.stage = "destroyed" /\ Advance(j, "swapped")
      BY <1>6 DEF SwapTracked
    <2>2. PICK j2 : /\ jobs' = (jobs \ {j}) \union {j2} /\ j2.stage = "swapped"
                    /\ j2.new = j.new /\ j2.waited = j.waited
      BY <1>0, <2>1, Moved
    <2>3. j.new \in running
      BY <1>0, <2>1, ReplacingIs DEF Replacing
    <2>4. \A d : Held(d) => Held(d)'
      BY <1>1, <2>2 DEF Held, IsOpen, Replacing
    <2>5. \A d : Forgotten(d) /\ d # j.container => Forgotten(d)'
      BY <2>2 DEF Forgotten
    <2>6. \A d \in running' : Held(d)'
      BY <1>3, <2>1, <2>4
    <2>7. \A d \in tracked' \ running' : Forgotten(d)'
      BY <1>3, <2>1, <2>3, <2>5
    <2>8. \A k \in jobs' : k.waited
      BY <1>1, <1>3, <2>2
    <2>. QED  BY <2>6, <2>7, <2>8 DEF AccountInv, Held, Forgotten
  <1>7. CASE MarkUsed(j)
    <2>1. running' = running /\ tracked' = tracked /\ j.stage = "swapped" /\ Advance(j, "done")
      BY <1>7 DEF MarkUsed, dockerVars
    <2>2. PICK j2 : /\ jobs' = (jobs \ {j}) \union {j2} /\ j2.stage = "done"
                    /\ j2.new = j.new /\ j2.waited = j.waited
      BY <1>0, <2>1, Moved
    <2>3. \A d : Held(d) => Held(d)'
      BY <1>1, <2>2 DEF Held, IsOpen, Replacing
    <2>4. \A d : Forgotten(d) => Forgotten(d)'
      BY <2>1, <2>2 DEF Forgotten
    <2>5. \A d \in running' : Held(d)'
      BY <1>3, <2>1, <2>3
    <2>6. \A d \in tracked' \ running' : Forgotten(d)'
      BY <1>3, <2>1, <2>4
    <2>7. \A k \in jobs' : k.waited
      BY <1>1, <1>3, <2>2
    <2>. QED  BY <2>5, <2>6, <2>7 DEF AccountInv, Held, Forgotten
  <1>8. CASE RerunFails(j)
    <2>1. running' = running \ {j.new} /\ tracked' = tracked /\ Advance(j, "failed")
      BY <1>8 DEF RerunFails
    <2>2. j.stage \in {"restoring", "restored"}
      BY <1>1, <1>2, <1>8, RerunSourceExists DEF RerunFails
    <2>3. PICK j2 : jobs' = (jobs \ {j}) \union {j2} /\ j2.waited = j.waited
      BY <1>0, <2>1, Moved
    <2>4. \A d : Held(d) /\ d # j.new => Held(d)'
      BY <1>1, <2>3 DEF Held, IsOpen
    <2>5. \A d : Forgotten(d) => Forgotten(d)'
      BY <2>2, <2>3 DEF Forgotten
    <2>6. j.new \notin tracked
      BY <1>0, <1>2, <2>2 DEF Reruns, TypeOK
    <2>7. \A d \in running' : Held(d)'
      BY <1>3, <2>1, <2>4
    <2>8. \A d \in tracked' \ running' : Forgotten(d)'
      BY <1>3, <2>1, <2>5, <2>6
    <2>9. \A k \in jobs' : k.waited
      BY <1>1, <1>3, <2>3
    <2>. QED  BY <2>7, <2>8, <2>9 DEF AccountInv, Held, Forgotten
  <1>. QED  BY <1>4, <1>5, <1>6, <1>7, <1>8

\* in the answers,
LEMMA AnswersAccount ==
    ASSUME HandlerInv, AccountInv, NEW j \in jobs,
           RerunAnswered(j) \/ FailureAnswered(j) \/ AnswerDropped(j)
    PROVE  AccountInv'
  <1>0. TypeOK /\ HandlersOK /\ j.lease \in Leases /\ j.waited
    BY JobFields DEF HandlerInv, AccountInv
  <1>1. UNCHANGED <<running, tracked>> /\ jobs' = jobs \ {j}
    BY DEF RerunAnswered, FailureAnswered, AnswerDropped, Forget, dockerVars
  <1>2. CASE RerunAnswered(j)
    <2>1. j.stage = "done" /\ j.kind = "rerun"
      BY <1>0, <1>2, RerunStages DEF RerunAnswered, Replacing
    <2>2. /\ IsOpen(j.lease) /\ lease[j.lease].container \notin running
      BY <1>0, <2>1 DEF HandlersOK, HandlerOK, Reruns
    <2>3. /\ lease'[j.lease].container = j.new /\ lease'[j.lease].status = lease[j.lease].status
          /\ \A m \in Leases : m # j.lease => lease'[m] = lease[m]
      BY <1>0, <1>2, LeaseFields DEF RerunAnswered, TypeOK, LeaseRecords
    <2>4. \A d \in running : Held(d) => Held(d)'
      BY <1>0, <1>1, <2>2, <2>3 DEF Held, IsOpen
    <2>5. \A d : Forgotten(d) => Forgotten(d)'
      BY <1>1, <2>1 DEF Forgotten
    <2>6. \A d \in running' : Held(d)'
      BY <1>1, <2>4, AccountIs
    <2>7. \A d \in tracked' \ running' : Forgotten(d)'
      BY <1>1, <2>5, AccountIs
    <2>8. \A k \in jobs' : k.waited
      BY <1>1, AccountIs
    <2>. QED  BY <2>6, <2>7, <2>8 DEF AccountInv, Held, Forgotten
  <1>3. CASE FailureAnswered(j)
    <2>1. lease' = lease /\ j.stage \notin Replacing
      BY <1>3 DEF FailureAnswered, Replacing
    <2>. QED  BY <1>1, <2>1, AccountFrame DEF AccountInv
  <1>4. CASE AnswerDropped(j)
    BY <1>0, <1>4 DEF AnswerDropped
  <1>. QED  BY <1>2, <1>3, <1>4

\* and in any step.
LEMMA AccountStep == HandlerInv /\ KeptInv /\ AccountedInv /\ [Next]_vars => AccountedInv'
  <1>. SUFFICES ASSUME HandlerInv, KeptInv, AccountedInv, [Next]_vars, Punctual, setup'.legacy, Careful'
                PROVE  AccountInv'
    BY DEF AccountedInv, Punctual
  <1>0. setup.legacy /\ Kept /\ AccountInv
    BY SetupStays DEF Careful, KeptInv, AccountedInv
  <1>1. CASE UNCHANGED vars
    BY <1>0, <1>1, AccountFrame DEF vars, dockerVars, AccountInv
  <1>2. CASE Next
    <2>1. CASE \E l \in Leases : \/ \E c \in Containers : Allocate(l, c)
                                 \/ Close(l) \/ FaultKill(l) \/ BeginCreate(l) \/ BeginRerun(l)
                                 \/ RerunRefused(l)
      BY <1>0, <2>1, LeaseStepsAccount
    <2>2. CASE \E j \in jobs : JobStep(j) \/ PoolTimesOut(j)
      <3>1. PICK j \in jobs : JobStep(j)
        BY <2>2 DEF PoolTimesOut, Punctual
      <3>. QED  BY <1>0, <3>1, CreateStepsAccount, RerunStepsAccount, AnswersAccount
               DEF JobStep, Punctual
    <2>3. CASE \/ \E k \in setup.keep : CollectNode(k) \/ \E l \in Leases : CollectLease(l, k)
               \/ \E l \in Leases, i \in Ids : BeginDelete(l, i)
               \/ \E t \in tasks : TaskStep(t)
               \/ \E c \in calls : CallStep(c)
      <3>1. /\ UNCHANGED <<running, tracked, jobs>>
            /\ \A l \in Leases : lease'[l].status = lease[l].status /\ lease'[l].container = lease[l].container
        BY <2>3, QuietSteps DEF dockerVars
      <3>. QED  BY <1>0, <3>1, AccountFrame DEF AccountInv
    <2>4. CASE Restart
      BY <2>4 DEF Restart, Punctual
    <2>. QED  BY <1>2, <2>1, <2>2, <2>3, <2>4 DEF Next
  <1>. QED  BY <1>1, <1>2

\* Where the pool waits for the node and the node does not crash, with docker images, and
\* callers that delete no single checkpoint and let collections keep one: a container runs
\* only as that of an open lease or in the hands of a handler, and what the node lists as
\* active runs, or is about to be replaced by the rerun handler (README_EN.md 3.4 step 4).
THEOREM ContainersAlwaysAccounted ==
    Punctual => (Spec => [](setup.legacy /\ Careful => ContainersAccounted))
  <1>1. Init => AccountedInv
    BY DEF Init, AccountedInv, AccountInv
  <1>2. Punctual /\ AccountedInv => (setup.legacy /\ Careful => ContainersAccounted)
    BY DEF AccountedInv, AccountInv, ContainersAccounted
  <1>3. Init => KeptInv
    BY InitKept
  <1>4. Spec => []AccountedInv
    BY <1>1, <1>3, InitHandler, HandlerStep, KeptStep, AccountStep, PTL DEF Spec
  <1>5. SUFFICES ASSUME Punctual PROVE Spec => [](setup.legacy /\ Careful => ContainersAccounted)
    OBVIOUS
  <1>6. AccountedInv => (setup.legacy /\ Careful => ContainersAccounted)
    BY <1>2, <1>5
  <1>. QED  BY <1>4, <1>6, PTL
=============================================================================
