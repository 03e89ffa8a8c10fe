----------------------- MODULE PromptScheduler_proofs -----------------------
(***************************************************************************)
(* Theorems about PromptScheduler: the caps hold and order is kept for any *)
(* demands; the amount reserved is the demand of the active prompts, and   *)
(* within the budget, while that demand is below the amount from which on  *)
(* floats are rounded.                                                     *)
(***************************************************************************)
EXTENDS PromptScheduler, FiniteSetTheorems, SequenceTheorems, NaturalsInduction, TLAPS
-----------------------------------------------------------------------------
(***************************************************************************)
(* The invariant.                                                          *)
(***************************************************************************)
\* A prompt is in the queue once, and not while it is active.
QueueInv ==
    /\ \A i, j \in 1..Len(pending) : pending[i] = pending[j] => i = j
    /\ Queued \cap active = {}

\* Whoever has not queued yet is unknown to the scheduler; who holds a ticket is active.
TicketInv ==
    \A p \in Prompts :
        /\ state[p] = "new" => p \notin Queued \cup active
        /\ state[p] \in {"admitted", "running"} => p \in active

\* The caps on active prompts and on those without history.
CapInv ==
    /\ ActiveCap > 0 => Cardinality(active) <= ActiveCap
    /\ UnknownCap > 0 => Cardinality(Unknown(active)) <= UnknownCap

IInv == TypeOK /\ QueueInv /\ TicketInv /\ CapInv

\* Even the demand of all prompts together is below what floats have to round.
NoRounding == \A d \in Resources : Demand(Prompts)[d] < Digits
-----------------------------------------------------------------------------
(***************************************************************************)
(* The floats.                                                             *)
(***************************************************************************)
\* A set of naturals that is not empty has a least element.
LEMMA LeastNatural ==
    ASSUME NEW S, S \subseteq Nat, S # {}
    PROVE  \E x \in S : \A y \in S : x <= y
  <1>. DEFINE R == OpToRel(<, Nat)
  <1>1. PICK x \in S : \A y \in S : ~ (<<y, x>> \in R)
    <2>1. IsWellFoundedOn(R, Nat)
      BY NatLessThanWellFounded
    <2>. HIDE DEF R
    <2>. QED  BY <2>1, WFMin, Zenon
  <1>2. ASSUME NEW y \in S PROVE ~(y < x)
    <2>1. <<y, x>> \in Nat \X Nat
      OBVIOUS
    <2>. QED  BY <1>1, <2>1 DEF OpToRel
  <1>. HIDE DEF R
  <1>3. \A y \in S : y \in Nat /\ x \in Nat
    OBVIOUS
  <1>. QED  BY <1>2, <1>3

\* Unit up to m.
UnitUpTo(f, m) ==
    /\ f \in [0..m -> Nat \ {0}]
    /\ \A n \in 0..m : f[n] = IF n < Digits THEN 1 ELSE 2 * f[n \div 2]

LEMMA HalfIsLess ==
    ASSUME NEW n \in Nat, ~(n < Digits)
    PROVE  n \div 2 \in Nat /\ n \div 2 < n
  BY CapsAssumption

LEMMA UnitUpToUnique ==
    ASSUME NEW k \in Nat, NEW m \in Nat, NEW f, NEW g, UnitUpTo(f, k), UnitUpTo(g, m)
    PROVE  \A n \in 0..k : n <= m => f[n] = g[n]
  <1>. DEFINE Bad == {n \in 0..k : n <= m /\ f[n] # g[n]}
  <1>1. SUFFICES ASSUME Bad # {} PROVE FALSE
    OBVIOUS
  <1>2. PICK n \in Bad : \A x \in Bad : n <= x
    <2>1. Bad \subseteq Nat
      OBVIOUS
    <2>. HIDE DEF Bad
    <2>. QED  BY <1>1, <2>1, LeastNatural
  <1>3. n \in Nat /\ n <= k /\ n <= m /\ f[n] # g[n]
    OBVIOUS
  <1>4. CASE n < Digits
    BY <1>3, <1>4 DEF UnitUpTo
  <1>5. CASE ~(n < Digits)
    <2>1. n \div 2 \in Nat /\ n \div 2 < n
      BY <1>3, <1>5, HalfIsLess
    <2>2. n \div 2 \in 0..k /\ n \div 2 \in 0..m /\ n \in 0..k /\ n \in 0..m
      BY <1>3, <2>1
    <2>3. f[n] = 2 * f[n \div 2] /\ g[n] = 2 * g[n \div 2]
      BY <1>5, <2>2 DEF UnitUpTo
    <2>4. f[n \div 2] = g[n \div 2]
      <3>1. n \div 2 \notin Bad
        BY <1>2, <1>3, <2>1
      <3>. QED  BY <2>1, <2>2, <1>3, <3>1
    <2>. QED  BY <1>3, <2>3, <2>4
  <1>. QED  BY <1>4, <1>5

LEMMA UnitUpToExists == \A m \in Nat : \E f : UnitUpTo(f, m)
  <1>. DEFINE Bad == {m \in Nat : ~\E f : UnitUpTo(f, m)}
  <1>1. SUFFICES ASSUME Bad # {} PROVE FALSE
    OBVIOUS
  <1>2. PICK m \in Bad : \A x \in Bad : m <= x
    <2>1. Bad \subseteq Nat
      OBVIOUS
    <2>. HIDE DEF Bad
    <2>. QED  BY <1>1, <2>1, LeastNatural
  <1>3. m \in Nat /\ ~\E f : UnitUpTo(f, m)
    OBVIOUS
  <1>4. CASE m < Digits
    <2>. DEFINE g == [n \in 0..m |-> 1]
    <2>1. UnitUpTo(g, m)
      BY <1>3, <1>4, CapsAssumption DEF UnitUpTo
    <2>. QED  BY <1>3, <2>1
  <1>5. CASE ~(m < Digits)
    <2>1. m - 1 \in Nat /\ m \div 2 \in Nat /\ m \div 2 < m
      BY <1>3, <1>5, HalfIsLess, CapsAssumption
    <2>2. PICK f : UnitUpTo(f, m - 1)
      <3>1. m - 1 \notin Bad
        BY <1>2, <1>3, <2>1
      <3>. QED  BY <2>1, <3>1
    <2>. DEFINE g == [n \in 0..m |-> IF n < m THEN f[n] ELSE 2 * f[m \div 2]]
    <2>3. \A n \in 0..(m - 1) : f[n] \in Nat \ {0}
      BY <2>2 DEF UnitUpTo
    <2>4. \A n \in 0..m : g[n] \in Nat \ {0}
      <3>1. m \div 2 \in 0..(m - 1)
        BY <1>3, <2>1
      <3>. QED  BY <1>3, <2>1, <2>3, <3>1
    <2>5. ASSUME NEW n \in 0..m PROVE g[n] = IF n < Digits THEN 1 ELSE 2 * g[n \div 2]
      <3>1. CASE n < m
        <4>1. n \in 0..(m - 1) /\ g[n] = f[n]
          BY <1>3, <3>1
        <4>2. CASE n < Digits
          BY <4>1, <4>2, <2>2 DEF UnitUpTo
        <4>3. CASE ~(n < Digits)
          <5>1. n \div 2 \in Nat /\ n \div 2 < n
            BY <1>3, <4>3, HalfIsLess
          <5>2. g[n \div 2] = f[n \div 2]
            BY <1>3, <3>1, <5>1
          <5>3. f[n] = 2 * f[n \div 2]
            BY <4>1, <4>3, <2>2 DEF UnitUpTo
          <5>. HIDE DEF g
          <5>. QED  BY <4>1, <4>3, <5>2, <5>3
        <4>. QED  BY <4>2, <4>3
      <3>2. CASE n = m
        <4>1. g[m \div 2] = f[m \div 2]
          BY <1>3, <2>1
        <4>2. g[m] = 2 * f[m \div 2]
          BY <1>3
        <4>. HIDE DEF g
        <4>. QED  BY <1>5, <3>2, <4>1, <4>2
      <3>. QED  BY <1>3, <3>1, <3>2
    <2>6. UnitUpTo(g, m)
      <3>1. g \in [0..m -> Nat \ {0}]
        BY <2>4
      <3>. HIDE DEF g
      <3>. QED  BY <2>5, <3>1 DEF UnitUpTo
    <2>. HIDE DEF g
    <2>. QED  BY <1>3, <2>6
  <1>. QED  BY <1>4, <1>5

\* The distance of the floats around n is positive, and 1 as long as they have every integer.
LEMMA UnitFacts == \A n \in Nat : Unit[n] \in Nat \ {0} /\ (n < Digits => Unit[n] = 1)
  <1>. DEFINE A(m) == CHOOSE f : UnitUpTo(f, m)
              w == [n \in Nat |-> A(n)[n]]
              Eq(f) == f = [n \in Nat |-> IF n < Digits THEN 1 ELSE 2 * f[n \div 2]]
  <1>1. \A m \in Nat : UnitUpTo(A(m), m)
    BY UnitUpToExists
  <1>. HIDE DEF A
  <1>2. ASSUME NEW n \in Nat PROVE w[n] = IF n < Digits THEN 1 ELSE 2 * w[n \div 2]
    <2>1. UnitUpTo(A(n), n) /\ n \in 0..n
      BY <1>1
    <2>2. CASE n < Digits
      BY <2>1, <2>2 DEF UnitUpTo
    <2>3. CASE ~(n < Digits)
      <3>1. n \div 2 \in Nat /\ n \div 2 < n
        BY <2>3, HalfIsLess
      <3>2. UnitUpTo(A(n \div 2), n \div 2)
        BY <1>1, <3>1
      <3>3. A(n)[n \div 2] = A(n \div 2)[n \div 2]
        <4>. DEFINE h == n \div 2
        <4>1. h \in Nat /\ h <= n /\ h \in 0..n /\ UnitUpTo(A(h), h)
          BY <3>1, <3>2
        <4>. HIDE DEF h
        <4>2. A(n)[h] = A(h)[h]
          BY <2>1, <4>1, UnitUpToUnique
        <4>. QED  BY <4>2 DEF h
      <3>4. A(n)[n] = 2 * A(n)[n \div 2]
        BY <2>1, <2>3 DEF UnitUpTo
      <3>. QED  BY <2>3, <3>1, <3>3, <3>4
    <2>. QED  BY <2>2, <2>3
  <1>3. Eq(w)
    <2>1. w = [n \in Nat |-> w[n]]
      OBVIOUS
    <2>. HIDE DEF w
    <2>. QED  BY <1>2, <2>1
  <1>4. Unit = CHOOSE f : Eq(f)
    BY DEF Unit
  <1>5. Eq(Unit)
    <2>. HIDE DEF Eq, w
    <2>. QED  BY <1>3, <1>4
  <1>6. \A n \in Nat : Unit[n] = IF n < Digits THEN 1 ELSE 2 * Unit[n \div 2]
    <2>. DEFINE u == Unit
    <2>1. Eq(u)
      BY <1>5
    <2>. HIDE DEF u
    <2>2. \A n \in Nat : u[n] = IF n < Digits THEN 1 ELSE 2 * u[n \div 2]
      BY <2>1
    <2>. QED  BY <2>2 DEF u
  <1>7. ASSUME NEW n \in Nat PROVE Unit[n] \in Nat \ {0}
    <2>. DEFINE u == Unit
                Bad == {x \in Nat : u[x] \notin Nat \ {0}}
    <2>1. \A x \in Nat : u[x] = IF x < Digits THEN 1 ELSE 2 * u[x \div 2]
      BY <1>6
    <2>. HIDE DEF u
    <2>2. SUFFICES ASSUME Bad # {} PROVE FALSE
      BY DEF u
    <2>3. PICK x \in Bad : \A y \in Bad : x <= y
      <3>1. Bad \subseteq Nat
        OBVIOUS
      <3>. HIDE DEF Bad
      <3>. QED  BY <2>2, <3>1, LeastNatural
    <2>4. x \in Nat /\ u[x] \notin Nat \ {0}
      OBVIOUS
    <2>5. ~(x < Digits)
      BY <2>1, <2>4
    <2>6. x \div 2 \in Nat /\ x \div 2 < x
      BY <2>4, <2>5, HalfIsLess
    <2>7. x \div 2 \notin Bad
      BY <2>3, <2>4, <2>6
    <2>8. u[x \div 2] \in Nat \ {0} /\ u[x] = 2 * u[x \div 2]
      BY <2>1, <2>4, <2>5, <2>6, <2>7
    <2>. QED  BY <2>4, <2>8
  <1>. QED  BY <1>6, <1>7

\* Rounding returns an amount, and an integer that floats have unchanged.
LEMMA RoundedFacts == \A n \in Nat : Rounded(n) \in Nat /\ (n < Digits => Rounded(n) = n)
  <1>. SUFFICES ASSUME NEW n \in Nat PROVE Rounded(n) \in Nat /\ (n < Digits => Rounded(n) = n)
    OBVIOUS
  <1>1. PICK u \in Nat \ {0} : u = Unit[n] /\ (n < Digits => u = 1)
    BY UnitFacts
  <1>. DEFINE down == n \div u
              rest == 2 * (n % u)
              k == IF rest > u \/ (rest = u /\ down % 2 = 1) THEN down + 1 ELSE down
  <1>2. Rounded(n) = u * k
    BY <1>1 DEF Rounded
  <1>3. down \in Nat
    OBVIOUS
  <1>4. k \in Nat
    <2>. HIDE DEF down, rest
    <2>. QED  BY <1>3
  <1>5. u = 1 => k = n
    OBVIOUS
  <1>. HIDE DEF k
  <1>. QED  BY <1>1, <1>2, <1>4, <1>5
-----------------------------------------------------------------------------
(***************************************************************************)
(* The demand of a set of prompts.                                         *)
(***************************************************************************)
\* G sums v over the subsets of T.
Totals(T, v, G) ==
    /\ G \in [SUBSET T -> Nat]
    /\ G[{}] = 0
    /\ \A S \in SUBSET T : \A p \in S : G[S] = v[p] + G[S \ {p}]
    /\ \A S \in SUBSET T : G[S] <= G[T]

\* One more element to sum over.
LEMMA OneMore ==
    ASSUME NEW T, NEW x \in T, NEW v \in [T -> Nat], NEW F, Totals(T \ {x}, v, F)
    PROVE  \E G : Totals(T, v, G)
  <1>. DEFINE U == T \ {x}
              G == [S \in SUBSET T |-> IF x \in S THEN v[x] + F[S \ {x}] ELSE F[S]]
  <1>1. /\ \A S \in SUBSET U : F[S] \in Nat /\ F[S] <= F[U]
        /\ \A S \in SUBSET U : \A p \in S : F[S] = v[p] + F[S \ {p}]
        /\ F[{}] = 0
    BY DEF Totals
  <1>2. \A S \in SUBSET T : S \ {x} \in SUBSET U /\ (x \notin S => S \in SUBSET U)
    OBVIOUS
  <1>3. v[x] \in Nat
    OBVIOUS
  <1>4. /\ \A S \in SUBSET T : x \in S => G[S] = v[x] + F[S \ {x}]
        /\ \A S \in SUBSET T : x \notin S => G[S] = F[S]
    OBVIOUS
  <1>5. G \in [SUBSET T -> Nat]
    <2>1. \A S \in SUBSET T : (IF x \in S THEN v[x] + F[S \ {x}] ELSE F[S]) \in Nat
      <3>. HIDE DEF U
      <3>. QED  BY <1>1, <1>2, <1>3
    <2>. QED  BY <2>1
  <1>6. G[{}] = 0
    BY <1>1, <1>4
  <1>. HIDE DEF G
  <1>7. ASSUME NEW S \in SUBSET T, NEW p \in S PROVE G[S] = v[p] + G[S \ {p}]
    <2>1. S \ {p} \in SUBSET T /\ v[p] \in Nat
      OBVIOUS
    <2>2. CASE p = x
      BY <1>4, <2>1, <2>2
    <2>3. CASE p # x /\ x \in S
      <3>1. G[S] = v[x] + F[S \ {x}]
        BY <1>4, <2>3
      <3>2. F[S \ {x}] = v[p] + F[(S \ {x}) \ {p}]
        BY <1>1, <1>2, <2>3
      <3>3. G[S \ {p}] = v[x] + F[(S \ {p}) \ {x}]
        BY <1>4, <2>1, <2>3
      <3>4. (S \ {x}) \ {p} = (S \ {p}) \ {x} /\ (S \ {x}) \ {p} \in SUBSET U
        OBVIOUS
      <3>5. F[(S \ {x}) \ {p}] \in Nat
        BY <1>1, <3>4
      <3>6. F[(S \ {p}) \ {x}] = F[(S \ {x}) \ {p}]
        BY <3>4, Zenon
      <3>. QED  BY <1>3, <2>1, <3>1, <3>2, <3>3, <3>5, <3>6
    <2>4. CASE p # x /\ x \notin S
      <3>1. G[S] = F[S] /\ G[S \ {p}] = F[S \ {p}]
        BY <1>4, <2>1, <2>4
      <3>. QED  BY <1>1, <1>2, <2>4, <3>1
    <2>. QED  BY <2>2, <2>3, <2>4
  <1>8. ASSUME NEW S \in SUBSET T PROVE G[S] <= G[T]
    <2>1. G[T] = v[x] + F[U] /\ F[U] \in Nat
      BY <1>1, <1>4
    <2>2. CASE x \in S
      <3>1. G[S] = v[x] + F[S \ {x}] /\ F[S \ {x}] \in Nat /\ F[S \ {x}] <= F[U]
        BY <1>1, <1>2, <1>4, <2>2
      <3>. QED  BY <1>3, <2>1, <3>1
    <2>3. CASE x \notin S
      <3>1. G[S] = F[S] /\ F[S] \in Nat /\ F[S] <= F[U]
        BY <1>1, <1>2, <1>4, <2>3
      <3>. QED  BY <1>3, <2>1, <3>1
    <2>. QED  BY <2>2, <2>3
  <1>. QED  BY <1>5, <1>6, <1>7, <1>8 DEF Totals

\* A finite set can be summed over.
LEMMA TotalsExist ==
    ASSUME NEW P, IsFiniteSet(P), NEW v \in [P -> Nat]
    PROVE  \E G : Totals(P, v, G)
  <1>. DEFINE Short(n) == \E T \in SUBSET P : Cardinality(T) = n /\ ~\E G : Totals(T, v, G)
              Bad == {n \in Nat : Short(n)}
  <1>1. \A T \in SUBSET P : IsFiniteSet(T) /\ Cardinality(T) \in Nat
    BY FS_Subset, FS_CardinalityType
  <1>2. SUFFICES ASSUME Bad # {} PROVE FALSE
    BY <1>1
  <1>3. PICK n \in Bad : \A y \in Bad : n <= y
    <2>1. Bad \subseteq Nat
      OBVIOUS
    <2>. HIDE DEF Bad
    <2>. QED  BY <1>2, <2>1, LeastNatural
  <1>4. n \in Nat /\ Short(n)
    OBVIOUS
  <1>5. PICK T \in SUBSET P : Cardinality(T) = n /\ ~\E G : Totals(T, v, G)
    BY <1>4
  <1>6. CASE T = {}
    <2>. DEFINE G == [S \in SUBSET T |-> 0]
    <2>1. Totals(T, v, G)
      BY <1>6 DEF Totals
    <2>. QED  BY <1>5, <2>1
  <1>7. CASE T # {}
    <2>1. PICK x \in T : TRUE
      BY <1>7
    <2>2. T \ {x} \in SUBSET P /\ Cardinality(T \ {x}) = n - 1 /\ n - 1 \in Nat
      <3>1. Cardinality(T \ {x}) = n - 1
        BY <1>1, <1>5, FS_RemoveElement
      <3>2. T \ {x} \in SUBSET P
        OBVIOUS
      <3>. QED  BY <1>1, <3>1, <3>2
    <2>3. n - 1 \notin Bad
      BY <1>3, <1>4, <2>2
    <2>4. PICK F : Totals(T \ {x}, v, F)
      <3>1. ~Short(n - 1)
        BY <2>2, <2>3
      <3>. QED  BY <2>2, <3>1
    <2>. DEFINE u == [p \in T |-> v[p]]
    <2>5. Totals(T \ {x}, u, F)
      <3>1. u \in [T -> Nat] /\ \A p \in T : u[p] = v[p]
        OBVIOUS
      <3>. HIDE DEF u
      <3>. QED  BY <2>4, <3>1 DEF Totals
    <2>6. PICK G : Totals(T, u, G)
      <3>1. u \in [T -> Nat]
        OBVIOUS
      <3>. HIDE DEF u
      <3>. QED  BY <2>5, <3>1, OneMore
    <2>7. Totals(T, v, G)
      <3>1. \A p \in T : u[p] = v[p]
        OBVIOUS
      <3>. HIDE DEF u
      <3>. QED  BY <2>6, <3>1 DEF Totals
    <2>. QED  BY <1>5, <2>7
  <1>. QED  BY <1>6, <1>7

\* The sum of the library is that one, in whatever order it takes the elements.
LEMMA DemandIsTotal ==
    ASSUME NEW d \in Resources
    PROVE  \E G : /\ Totals(Prompts, [p \in Prompts |-> Predicted[p][d]], G)
                  /\ \A S \in SUBSET Prompts : Demand(S)[d] = G[S]
  <1>. DEFINE v == [p \in Prompts |-> Predicted[p][d]]
              Eq(S, f) == f = [s \in SUBSET S |->
                                 IF s = {} THEN 0
                                 ELSE Predicted[CHOOSE x \in s : TRUE][d] + f[s \ {CHOOSE x \in s : TRUE}]]
  <1>1. v \in [Prompts -> Nat] /\ \A p \in Prompts : v[p] = Predicted[p][d]
    BY DemandAssumption DEF Amounts
  <1>2. PICK G : Totals(Prompts, v, G)
    <2>. HIDE DEF v
    <2>. QED  BY <1>1, TotalsExist, PromptsAssumption
  <1>. HIDE DEF v
  <1>3. ASSUME NEW S \in SUBSET Prompts PROVE Demand(S)[d] = G[S]
    <2>. DEFINE g == [s \in SUBSET S |-> G[s]]
                Step(f, s) == IF s = {} THEN 0
                              ELSE Predicted[CHOOSE x \in s : TRUE][d] + f[s \ {CHOOSE x \in s : TRUE}]
    <2>1. Demand(S)[d] = (CHOOSE f : Eq(S, f))[S]
      BY DEF Demand, MapThenSumSet, MapThenFoldSet
    <2>2. ASSUME NEW s \in SUBSET S PROVE g[s] = Step(g, s)
      <3>1. CASE s = {}
        BY <1>2, <3>1 DEF Totals
      <3>2. CASE s # {}
        <4>. DEFINE x == CHOOSE x \in s : TRUE
        <4>1. x \in s
          BY <3>2
        <4>. HIDE DEF x
        <4>2. G[s] = v[x] + G[s \ {x}]
          BY <1>2, <4>1 DEF Totals
        <4>3. g[s] = G[s] /\ g[s \ {x}] = G[s \ {x}] /\ v[x] = Predicted[x][d]
          BY <1>1, <4>1
        <4>. HIDE DEF g
        <4>. QED  BY <3>2, <4>2, <4>3 DEF x
      <3>. QED  BY <3>1, <3>2
    <2>3. Eq(S, g)
      <3>1. g = [s \in SUBSET S |-> g[s]]
        OBVIOUS
      <3>. HIDE DEF g
      <3>. QED  BY <2>2, <3>1
    <2>4. ASSUME NEW f, Eq(S, f) PROVE f[S] = g[S]
      <3>. DEFINE Wrong(n) == \E s \in SUBSET S : Cardinality(s) = n /\ f[s] # g[s]
                  Bad == {n \in Nat : Wrong(n)}
      <3>1. \A s \in SUBSET S : IsFiniteSet(s) /\ Cardinality(s) \in Nat
        BY PromptsAssumption, FS_Subset, FS_CardinalityType
      <3>2. SUFFICES ASSUME Bad # {} PROVE FALSE
        <4>1. S \in SUBSET S
          OBVIOUS
        <4>. HIDE DEF g, Eq
        <4>. QED  BY <3>1, <4>1
      <3>3. PICK n \in Bad : \A y \in Bad : n <= y
        <4>1. Bad \subseteq Nat
          OBVIOUS
        <4>. HIDE DEF Bad
        <4>. QED  BY <3>2, <4>1, LeastNatural
      <3>4. n \in Nat /\ Wrong(n)
        OBVIOUS
      <3>. HIDE DEF g
      <3>5. PICK s \in SUBSET S : Cardinality(s) = n /\ f[s] # g[s]
        BY <3>4
      <3>6. f[s] = Step(f, s)
        BY <2>4, <3>5
      <3>7. s # {}
        BY <2>2, <3>5, <3>6
      <3>. DEFINE x == CHOOSE x \in s : TRUE
      <3>8. x \in s
        BY <3>7
      <3>. HIDE DEF x
      <3>9. s \ {x} \in SUBSET S /\ Cardinality(s \ {x}) = n - 1 /\ n - 1 \in Nat
        <4>1. Cardinality(s \ {x}) = n - 1
          BY <3>1, <3>5, <3>8, FS_RemoveElement
        <4>2. s \ {x} \in SUBSET S
          OBVIOUS
        <4>. QED  BY <3>1, <4>1, <4>2
      <3>10. f[s \ {x}] = g[s \ {x}]
        <4>1. n - 1 \notin Bad
          BY <3>3, <3>4, <3>9
        <4>2. ~Wrong(n - 1)
          BY <3>9, <4>1
        <4>. HIDE DEF Eq
        <4>. QED  BY <3>9, <4>2
      <3>11. f[s] = Predicted[x][d] + f[s \ {x}]
        BY <3>6, <3>7 DEF x
      <3>12. g[s] = Predicted[x][d] + g[s \ {x}]
        BY <2>2, <3>7 DEF x
      <3>. HIDE DEF Eq
      <3>. QED  BY <3>5, <3>10, <3>11, <3>12
    <2>5. Eq(S, CHOOSE f : Eq(S, f))
      <3>. HIDE DEF Eq, g
      <3>. QED  BY <2>3
    <2>6. g[S] = G[S]
      OBVIOUS
    <2>. HIDE DEF Eq, g
    <2>. QED  BY <2>1, <2>4, <2>5, <2>6
  <1>. QED  BY <1>2, <1>3 DEF v

\* What the demand of a set of prompts is made of.
LEMMA DemandFacts ==
    /\ \A d \in Resources : Demand({})[d] = 0
    /\ \A S \in SUBSET Prompts : Demand(S) \in Amounts
    /\ \A S \in SUBSET Prompts : \A p \in S : \A d \in Resources :
           Demand(S)[d] = Predicted[p][d] + Demand(S \ {p})[d]
    /\ \A S \in SUBSET Prompts : \A d \in Resources : Demand(S)[d] <= Demand(Prompts)[d]
  <1>1. \A d \in Resources :
            /\ Demand({})[d] = 0
            /\ \A S \in SUBSET Prompts :
                /\ Demand(S)[d] \in Nat
                /\ \A p \in S : Demand(S)[d] = Predicted[p][d] + Demand(S \ {p})[d]
                /\ Demand(S)[d] <= Demand(Prompts)[d]
    <2>. SUFFICES ASSUME NEW d \in Resources
                  PROVE  /\ Demand({})[d] = 0
                         /\ \A S \in SUBSET Prompts :
                             /\ Demand(S)[d] \in Nat
                             /\ \A p \in S : Demand(S)[d] = Predicted[p][d] + Demand(S \ {p})[d]
                             /\ Demand(S)[d] <= Demand(Prompts)[d]
      OBVIOUS
    <2>. DEFINE v == [p \in Prompts |-> Predicted[p][d]]
    <2>1. PICK G : Totals(Prompts, v, G) /\ \A S \in SUBSET Prompts : Demand(S)[d] = G[S]
      BY DemandIsTotal
    <2>2. \A p \in Prompts : v[p] = Predicted[p][d]
      OBVIOUS
    <2>. HIDE DEF v
    <2>. QED  BY <2>1, <2>2 DEF Totals
  <1>2. ASSUME NEW S \in SUBSET Prompts PROVE Demand(S) \in Amounts
    <2>1. Demand(S) = [d \in Resources |-> Demand(S)[d]]
      BY DEF Demand
    <2>. QED  BY <1>1, <2>1 DEF Amounts
  <1>. QED  BY <1>1, <1>2
-----------------------------------------------------------------------------
(***************************************************************************)
(* The queue.                                                              *)
(***************************************************************************)
\* t holds elements of the queue s, each at most once.
Thinned(t, s) ==
    /\ t \in Seq(Prompts)
    /\ \A i \in 1..Len(t) : \E j \in 1..Len(s) : t[i] = s[j]
    /\ \A i, j \in 1..Len(t) : t[i] = t[j] => i = j

\* Two sequences after each other.
LEMMA Joined ==
    ASSUME NEW s \in Seq(Prompts), NEW t \in Seq(Prompts),
           NEW a \in Nat, a = Len(s), NEW n \in Nat, n = Len(s) + Len(t),
           NEW J, J = s \o t
    PROVE  /\ J \in Seq(Prompts) /\ Len(J) = n
           /\ \A i \in 1..n : J[i] = IF i <= a THEN s[i] ELSE t[i - a]
  OBVIOUS

\* A prompt leaves the queue, the others keep their places.
LEMMA WithoutFacts ==
    ASSUME TypeOK, QueueInv, NEW k \in 1..Len(pending)
    PROVE  LET W == Without(pending[k]) IN
           /\ W \in Seq(Prompts) /\ Len(W) = Len(pending) - 1
           /\ \A i \in 1..(Len(pending) - 1) : W[i] = pending[IF i < k THEN i ELSE i + 1]
  <1>. DEFINE p == pending[k]
              at == CHOOSE i \in 1..Len(pending) : pending[i] = p
              head == SubSeq(pending, 1, at - 1)
              tail == SubSeq(pending, at + 1, Len(pending))
  <1>1. pending \in Seq(Prompts) /\ Len(pending) \in Nat /\ k \in Nat
    BY DEF TypeOK
  <1>2. at = k
    <2>1. at \in 1..Len(pending) /\ pending[at] = p
      OBVIOUS
    <2>. HIDE DEF at
    <2>. QED  BY <2>1 DEF QueueInv
  <1>. HIDE DEF at
  <1>3. head \in Seq(Prompts) /\ Len(head) = k - 1 /\ \A i \in 1..(k - 1) : head[i] = pending[i]
    BY <1>1, <1>2
  <1>4. /\ tail \in Seq(Prompts) /\ Len(tail) = Len(pending) - k
        /\ \A i \in 1..(Len(pending) - k) : tail[i] = pending[i + k]
    BY <1>1, <1>2
  <1>5. Without(p) = head \o tail
    BY DEF Without, at
  <1>. HIDE DEF head, tail
  <1>6. /\ head \o tail \in Seq(Prompts)
        /\ Len(head \o tail) = Len(pending) - 1
        /\ \A i \in 1..(Len(pending) - 1) :
               (head \o tail)[i] = IF i <= k - 1 THEN head[i] ELSE tail[i - (k - 1)]
    <2>1. Len(head) + Len(tail) = Len(pending) - 1
      BY <1>1, <1>3, <1>4
    <2>2. /\ k - 1 \in Nat /\ k - 1 = Len(head)
          /\ Len(pending) - 1 \in Nat /\ Len(pending) - 1 = Len(head) + Len(tail)
      BY <1>1, <1>3, <2>1
    <2>. DEFINE J == head \o tail
    <2>3. J = head \o tail
      OBVIOUS
    <2>. HIDE DEF J
    <2>4. /\ J \in Seq(Prompts) /\ Len(J) = Len(pending) - 1
          /\ \A i \in 1..(Len(pending) - 1) :
                 J[i] = IF i <= k - 1 THEN head[i] ELSE tail[i - (k - 1)]
      BY <1>3, <1>4, <2>2, <2>3, Joined
    <2>. QED  BY <2>4 DEF J
  <1>7. ASSUME NEW i \in 1..(Len(pending) - 1)
        PROVE  (head \o tail)[i] = pending[IF i < k THEN i ELSE i + 1]
    <2>1. CASE i < k
      <3>1. i <= k - 1 /\ i \in 1..(k - 1)
        BY <1>1, <2>1
      <3>. QED  BY <1>3, <1>6, <2>1, <3>1
    <2>2. CASE ~(i < k)
      <3>1. ~(i <= k - 1) /\ i - (k - 1) \in 1..(Len(pending) - k) /\ i - (k - 1) + k = i + 1
        BY <1>1, <2>2
      <3>. QED  BY <1>4, <1>6, <2>2, <3>1
    <2>. QED  BY <2>1, <2>2
  <1>. QED  BY <1>5, <1>6, <1>7

LEMMA WithoutThins ==
    ASSUME TypeOK, QueueInv, NEW p \in Queued
    PROVE  Thinned(Without(p), pending) /\ \A i \in 1..Len(Without(p)) : Without(p)[i] # p
  <1>1. PICK k \in 1..Len(pending) : p = pending[k]
    BY DEF Queued
  <1>. DEFINE W == Without(p)
  <1>2. /\ W \in Seq(Prompts) /\ Len(W) = Len(pending) - 1
        /\ \A i \in 1..(Len(pending) - 1) : W[i] = pending[IF i < k THEN i ELSE i + 1]
    BY <1>1, WithoutFacts
  <1>. HIDE DEF W
  <1>. DEFINE at(i) == IF i < k THEN i ELSE i + 1
  <1>3. Len(pending) \in Nat /\ k \in Nat
    BY DEF TypeOK
  <1>4. \A i \in 1..(Len(pending) - 1) : at(i) \in 1..Len(pending) /\ at(i) # k
    BY <1>3
  <1>5. \A i, j \in 1..(Len(pending) - 1) : at(i) = at(j) => i = j
    BY <1>3
  <1>6. \A i \in 1..(Len(pending) - 1) : W[i] = pending[at(i)]
    BY <1>2
  <1>. HIDE DEF at
  <1>7. \A i, j \in 1..Len(pending) : pending[i] = pending[j] => i = j
    BY DEF QueueInv
  <1>8. Thinned(W, pending)
    <2>1. \A i \in 1..Len(W) : \E j \in 1..Len(pending) : W[i] = pending[j]
      BY <1>2, <1>4, <1>6
    <2>2. \A i, j \in 1..Len(W) : W[i] = W[j] => i = j
      BY <1>2, <1>4, <1>5, <1>6, <1>7, SMTT(30)
    <2>. QED  BY <1>2, <2>1, <2>2 DEF Thinned
  <1>9. \A i \in 1..Len(W) : W[i] # p
    BY <1>1, <1>2, <1>4, <1>6, <1>7
  <1>. QED  BY <1>8, <1>9 DEF W

\* The head is put back behind RequeueOffset others: still the same prompts.
LEMMA RequeuedThins ==
    ASSUME TypeOK, QueueInv, pending # <<>>
    PROVE  Thinned(Requeued, pending)
  <1>. DEFINE L == Len(pending)
              rest == Tail(pending)
              at == IF RequeueOffset < Len(rest) THEN RequeueOffset ELSE Len(rest)
              front == SubSeq(rest, 1, at)
              mid == <<Head(pending)>>
              back == SubSeq(rest, at + 1, Len(rest))
              place(i) == IF i <= at THEN i + 1 ELSE IF i = at + 1 THEN 1 ELSE i
  <1>1. pending \in Seq(Prompts) /\ L \in Nat /\ L > 0
    BY DEF TypeOK
  <1>2. rest \in Seq(Prompts) /\ Len(rest) = L - 1 /\ \A i \in 1..(L - 1) : rest[i] = pending[i + 1]
    BY <1>1
  <1>3. at \in Nat /\ at <= L - 1
    BY <1>1, <1>2, CapsAssumption
  <1>4. mid \in Seq(Prompts) /\ Len(mid) = 1 /\ mid[1] = pending[1]
    BY <1>1
  <1>. HIDE DEF rest, at, mid
  <1>5. front \in Seq(Prompts) /\ Len(front) = at /\ \A i \in 1..at : front[i] = pending[i + 1]
    BY <1>1, <1>2, <1>3
  <1>6. /\ back \in Seq(Prompts) /\ Len(back) = L - 1 - at
        /\ \A i \in 1..(L - 1 - at) : back[i] = pending[at + i + 1]
    BY <1>1, <1>2, <1>3
  <1>7. Requeued = (front \o mid) \o back
    BY DEF Requeued, rest, at, mid
  <1>. HIDE DEF front, back
  <1>8. /\ front \o mid \in Seq(Prompts) /\ Len(front \o mid) = at + 1
        /\ \A i \in 1..(at + 1) : (front \o mid)[i] = pending[place(i)]
    <2>1. /\ front \o mid \in Seq(Prompts) /\ Len(front \o mid) = at + 1
          /\ \A i \in 1..(at + 1) : (front \o mid)[i] = IF i <= at THEN front[i] ELSE mid[i - at]
      <3>1. at \in Nat /\ at = Len(front) /\ at + 1 \in Nat /\ at + 1 = Len(front) + Len(mid)
        BY <1>3, <1>4, <1>5
      <3>. DEFINE J == front \o mid
      <3>2. J = front \o mid
        OBVIOUS
      <3>. HIDE DEF J
      <3>3. /\ J \in Seq(Prompts) /\ Len(J) = at + 1
            /\ \A i \in 1..(at + 1) : J[i] = IF i <= at THEN front[i] ELSE mid[i - at]
        <4>1. front \in Seq(Prompts) /\ mid \in Seq(Prompts)
          BY <1>4, <1>5
        <4>. DEFINE n == at + 1
        <4>2. at \in Nat /\ at = Len(front) /\ n \in Nat /\ n = Len(front) + Len(mid)
          BY <3>1
        <4>. HIDE DEF n
        <4>3. /\ J \in Seq(Prompts) /\ Len(J) = n
              /\ \A i \in 1..n : J[i] = IF i <= at THEN front[i] ELSE mid[i - at]
          BY <3>2, <4>1, <4>2, Joined
        <4>. QED  BY <4>3 DEF n
      <3>. QED  BY <3>3 DEF J
    <2>2. ASSUME NEW i \in 1..(at + 1) PROVE (front \o mid)[i] = pending[place(i)]
      <3>1. CASE i <= at
        <4>1. i \in 1..at
          BY <1>3, <3>1
        <4>. QED  BY <1>5, <2>1, <3>1, <4>1
      <3>2. CASE ~(i <= at)
        <4>1. i = at + 1 /\ i - at = 1
          BY <1>3, <3>2
        <4>. QED  BY <1>4, <2>1, <3>2, <4>1
      <3>. QED  BY <3>1, <3>2
    <2>. QED  BY <2>1, <2>2
  <1>9. /\ Requeued \in Seq(Prompts) /\ Len(Requeued) = L
        /\ \A i \in 1..L : Requeued[i] = pending[place(i)]
    <2>. DEFINE fm == front \o mid
    <2>0. fm \in Seq(Prompts) /\ Len(fm) = at + 1 /\ \A i \in 1..(at + 1) : fm[i] = pending[place(i)]
      BY <1>8
    <2>00. Requeued = fm \o back
      BY <1>7
    <2>. HIDE DEF fm
    <2>1. /\ fm \o back \in Seq(Prompts) /\ Len(fm \o back) = L
          /\ \A i \in 1..L : (fm \o back)[i] = IF i <= at + 1 THEN fm[i] ELSE back[i - (at + 1)]
      <3>1. at + 1 \in Nat /\ at + 1 = Len(fm) /\ L \in Nat /\ L = Len(fm) + Len(back)
        BY <1>1, <1>3, <1>6, <2>0
      <3>. DEFINE J == fm \o back
      <3>2. J = fm \o back
        OBVIOUS
      <3>. HIDE DEF J
      <3>3. /\ J \in Seq(Prompts) /\ Len(J) = L
            /\ \A i \in 1..L : J[i] = IF i <= at + 1 THEN fm[i] ELSE back[i - (at + 1)]
        BY <1>6, <2>0, <3>1, <3>2, Joined
      <3>. QED  BY <3>3 DEF J
    <2>2. ASSUME NEW i \in 1..L PROVE (fm \o back)[i] = pending[place(i)]
      <3>1. CASE i <= at + 1
        <4>1. i \in 1..(at + 1)
          BY <1>3, <3>1
        <4>. HIDE DEF place
        <4>. QED  BY <2>0, <2>1, <3>1, <4>1
      <3>2. CASE ~(i <= at + 1)
        <4>1. /\ i - (at + 1) \in 1..(L - 1 - at) /\ at + (i - (at + 1)) + 1 = i
              /\ place(i) = i
          BY <1>1, <1>3, <3>2
        <4>. HIDE DEF place
        <4>. QED  BY <1>6, <2>1, <3>2, <4>1
      <3>. QED  BY <3>1, <3>2
    <2>. QED  BY <2>00, <2>1, <2>2
  <1>10. \A i \in 1..L : place(i) \in 1..L
    BY <1>1, <1>3
  <1>11. \A i, j \in 1..L : place(i) = place(j) => i = j
    BY <1>1, <1>3
  <1>12. \A i, j \in 1..L : pending[i] = pending[j] => i = j
    BY DEF QueueInv
  <1>. HIDE DEF place
  <1>. QED  BY <1>9, <1>10, <1>11, <1>12 DEF Thinned

\* The oldest of a set of queued prompts is one of them.
LEMMA OldestFacts ==
    ASSUME TypeOK, NEW S \in SUBSET Queued, S # {}
    PROVE  Oldest(S) \in S
  <1>. DEFINE At == {i \in 1..Len(pending) : pending[i] \in S}
  <1>1. Len(pending) \in Nat
    BY DEF TypeOK
  <1>2. At # {} /\ At \subseteq Nat
    BY DEF Queued
  <1>3. PICK i \in At : \A j \in At : i <= j
    <2>. HIDE DEF At
    <2>. QED  BY <1>2, LeastNatural
  <1>4. i \in 1..Len(pending) /\ pending[i] \in S
    OBVIOUS
  <1>5. \A j \in 1..(i - 1) : pending[j] \notin S
    <2>. SUFFICES ASSUME NEW j \in 1..(i - 1), pending[j] \in S PROVE FALSE
      OBVIOUS
    <2>1. j \in 1..Len(pending) /\ ~(i <= j)
      BY <1>1, <1>4
    <2>. QED  BY <1>3, <2>1
  <1>6. \E p \in S : \E x \in 1..Len(pending) :
            pending[x] = p /\ \A j \in 1..(x - 1) : pending[j] \notin S
    BY <1>4, <1>5
  <1>. QED  BY <1>6 DEF Oldest

\* Whom the unordered search may choose.
LEMMA ChoiceFacts ==
    ASSUME TypeOK, NEW q \in UnorderedChoice
    PROVE  q \in Queued /\ UnknownCapAllows(q) /\ (Fits(q) \/ Forced(q))
  <1>. DEFINE eligible == {p \in Queued : UnknownCapAllows(p)}
              candidates == {p \in eligible : Fits(p)}
              oversized == {p \in eligible : Forced(p)}
  <1>1. q \in candidates \/ (oversized # {} /\ q = Oldest(oversized))
    BY DEF UnorderedChoice
  <1>2. oversized \in SUBSET Queued
    OBVIOUS
  <1>3. oversized # {} => Oldest(oversized) \in oversized
    <2>. HIDE DEF oversized
    <2>. QED  BY <1>2, OldestFacts
  <1>4. q \in candidates \/ q \in oversized
    <2>. HIDE DEF oversized, candidates
    <2>. QED  BY <1>1, <1>3
  <1>. QED  BY <1>4
-----------------------------------------------------------------------------
(***************************************************************************)
(* A poll.                                                                 *)
(***************************************************************************)
\* q is admitted.
Admits(q) ==
    /\ q \in Queued
    /\ CapsAllow /\ UnknownCapAllows(q)
    /\ Fits(q) \/ Forced(q)
    /\ order.preserve => pending # <<>> /\ q = Head(pending)
    /\ MarkAdmitted(q)

\* The head has been put back.
Requeues ==
    /\ pending # <<>> /\ order.threshold > 0
    /\ pending' = Requeued
    /\ UNCHANGED <<state, active, active_predicted, admitted_since>>

LEMMA HeadIsQueued ==
    ASSUME TypeOK, pending # <<>>
    PROVE  Head(pending) \in Queued /\ Head(pending) = pending[1] /\ Queued \subseteq Prompts
  <1>1. pending \in Seq(Prompts) /\ Len(pending) \in Nat /\ Len(pending) > 0
    BY DEF TypeOK
  <1>2. 1 \in 1..Len(pending) /\ Head(pending) = pending[1]
    BY <1>1
  <1>3. \A i \in 1..Len(pending) : pending[i] \in Prompts
    BY <1>1
  <1>. QED  BY <1>2, <1>3 DEF Queued

\* What a poll may do.
LEMMA PollCases ==
    ASSUME TypeOK, NEW p \in Prompts, Poll(p)
    PROVE  /\ \/ (\E q \in Queued : Admits(q)) /\ PollEnds(p)
              \/ AdmitsNothing /\ PollEnds(p)
              \/ Requeues
           /\ state[p] = "waiting"
           /\ head_block' \in [Prompts -> Nat]
           /\ poller' \in Prompts \cup {NoPrompt}
           /\ UNCHANGED serverVars
  <1>. DEFINE Goal == /\ \/ (\E q \in Queued : Admits(q)) /\ PollEnds(p)
                         \/ AdmitsNothing /\ PollEnds(p)
                         \/ Requeues
                      /\ head_block' \in [Prompts -> Nat]
                      /\ poller' \in Prompts \cup {NoPrompt}
  <1>1. head_block \in [Prompts -> Nat] /\ order \in [preserve : BOOLEAN, threshold : Nat]
    BY CapsAssumption DEF TypeOK
  <1>2. PollEnds(p) => poller' \in Prompts \cup {NoPrompt}
    BY DEF PollEnds
  <1>3. ASSUME order.preserve, PollHeadOfLine(p) PROVE Goal
    <2>1. CASE HeadAdmitted(p)
      <3>. DEFINE q == Head(pending)
      <3>1. /\ CapsAllow /\ UnknownCapAllows(q) /\ (Fits(q) \/ Forced(q)) /\ MarkAdmitted(q)
            /\ pending # <<>> /\ head_block' = [head_block EXCEPT ![q] = 0] /\ PollEnds(p)
        BY <2>1 DEF HeadAdmitted, HeadMaySearch
      <3>2. q \in Queued
        BY <3>1, HeadIsQueued
      <3>. HIDE DEF q
      <3>3. head_block' \in [Prompts -> Nat]
        BY <1>1, <3>1
      <3>4. Admits(q)
        BY <3>1, <3>2 DEF Admits, q
      <3>. QED  BY <1>2, <3>1, <3>2, <3>3, <3>4
    <2>2. CASE HeadRequeued(p)
      <3>. DEFINE q == Head(pending)
      <3>1. /\ pending # <<>> /\ order.threshold > 0 /\ pending' = Requeued
            /\ UNCHANGED <<state, active, active_predicted, admitted_since>>
            /\ head_block' = [head_block EXCEPT ![q] = 0] /\ poller' = p
        BY <2>2 DEF HeadRequeued, HeadMaySearch, BlockedTooOften
      <3>. HIDE DEF q
      <3>2. head_block' \in [Prompts -> Nat]
        BY <1>1, <3>1
      <3>. QED  BY <3>1, <3>2 DEF Requeues
    <2>3. CASE HeadBlocked(p)
      <3>. DEFINE q == Head(pending)
      <3>1. /\ head_block' = [head_block EXCEPT ![q] = IF @ < order.threshold THEN @ + 1 ELSE @]
            /\ AdmitsNothing /\ PollEnds(p) /\ pending # <<>>
        BY <2>3 DEF HeadBlocked, HeadMaySearch
      <3>2. q \in Prompts
        BY <3>1, HeadIsQueued
      <3>. HIDE DEF q
      <3>3. head_block' \in [Prompts -> Nat]
        BY <1>1, <3>1, <3>2
      <3>. QED  BY <1>2, <3>1, <3>3
    <2>4. CASE HeadMayNotSearch(p)
      BY <1>1, <1>2, <2>4 DEF HeadMayNotSearch
    <2>. QED  BY <1>3, <2>1, <2>2, <2>3, <2>4 DEF PollHeadOfLine
  <1>4. ASSUME ~order.preserve, PollUnordered(p) PROVE Goal
    <2>1. CASE CapsAllow /\ \E q \in UnorderedChoice : MarkAdmitted(q)
      <3>1. PICK q \in UnorderedChoice : MarkAdmitted(q)
        BY <2>1
      <3>2. q \in Queued /\ UnknownCapAllows(q) /\ (Fits(q) \/ Forced(q))
        BY ChoiceFacts
      <3>3. Admits(q)
        BY <1>4, <2>1, <3>1, <3>2 DEF Admits
      <3>. QED  BY <1>1, <1>2, <1>4, <3>2, <3>3 DEF PollUnordered
    <2>2. CASE AdmitsNothing
      BY <1>1, <1>2, <1>4, <2>2 DEF PollUnordered
    <2>. QED  BY <1>4, <2>1, <2>2 DEF PollUnordered
  <1>5. /\ state[p] = "waiting" /\ UNCHANGED serverVars
        /\ ((order.preserve /\ PollHeadOfLine(p)) \/ (~order.preserve /\ PollUnordered(p)))
    BY DEF Poll
  <1>6. Goal
    <2>. HIDE DEF Goal
    <2>. QED  BY <1>3, <1>4, <1>5
  <1>. QED  BY <1>5, <1>6

\* A part of a set of prompts, and of those without history in it.
LEMMA PartFacts ==
    ASSUME NEW S \in SUBSET Prompts, NEW T \in SUBSET S
    PROVE  /\ Cardinality(S) \in Nat /\ Cardinality(Unknown(S)) \in Nat
           /\ Cardinality(T) \in Nat /\ Cardinality(T) <= Cardinality(S)
           /\ Cardinality(Unknown(T)) \in Nat
           /\ Cardinality(Unknown(T)) <= Cardinality(Unknown(S))
  <1>1. \A X \in SUBSET Prompts : IsFiniteSet(X) /\ Cardinality(X) \in Nat
    BY PromptsAssumption, FS_Subset, FS_CardinalityType
  <1>2. /\ T \in SUBSET Prompts /\ Unknown(T) \in SUBSET Unknown(S)
        /\ Unknown(S) \in SUBSET Prompts /\ Unknown(T) \in SUBSET Prompts
    BY DEF Unknown
  <1>3. Cardinality(T) <= Cardinality(S)
    BY <1>1, FS_Subset
  <1>4. Cardinality(Unknown(T)) <= Cardinality(Unknown(S))
    BY <1>1, <1>2, FS_Subset
  <1>. QED  BY <1>1, <1>2, <1>3, <1>4

\* One prompt more.
LEMMA MoreFacts ==
    ASSUME NEW S \in SUBSET Prompts, NEW q \in Prompts, q \notin S
    PROVE  /\ Cardinality(S \cup {q}) = Cardinality(S) + 1
           /\ HasHistory[q] => Unknown(S \cup {q}) = Unknown(S)
           /\ ~HasHistory[q] =>
                  Cardinality(Unknown(S \cup {q})) = Cardinality(Unknown(S)) + 1
  <1>1. \A X \in SUBSET Prompts : IsFiniteSet(X) /\ Cardinality(X) \in Nat
    BY PromptsAssumption, FS_Subset, FS_CardinalityType
  <1>2. Unknown(S) \in SUBSET Prompts
    BY DEF Unknown
  <1>3. Cardinality(S \cup {q}) = Cardinality(S) + 1
    BY <1>1, FS_AddElement
  <1>4. HasHistory[q] => Unknown(S \cup {q}) = Unknown(S)
    BY DEF Unknown
  <1>5. ASSUME ~HasHistory[q]
        PROVE  Cardinality(Unknown(S \cup {q})) = Cardinality(Unknown(S)) + 1
    <2>1. Unknown(S \cup {q}) = Unknown(S) \cup {q} /\ q \notin Unknown(S)
      BY <1>5 DEF Unknown
    <2>. QED  BY <1>1, <1>2, <2>1, FS_AddElement
  <1>. QED  BY <1>3, <1>4, <1>5

\* An admission keeps the caps.
LEMMA AdmitsKeepsCaps ==
    ASSUME TypeOK, QueueInv, CapInv, NEW q \in Queued, Admits(q)
    PROVE  CapInv' /\ active' = active \cup {q} /\ q \notin active /\ q \in Prompts
  <1>1. /\ active' = active \cup {q} /\ q \notin active /\ q \in Prompts
        /\ active \in SUBSET Prompts
    <2>1. pending \in Seq(Prompts) /\ Len(pending) \in Nat
      BY DEF TypeOK
    <2>2. q \in Prompts
      BY <2>1 DEF Queued
    <2>. QED  BY <2>2 DEF Admits, MarkAdmitted, QueueInv, TypeOK
  <1>2. /\ ActiveCap \in Nat /\ UnknownCap \in Nat
        /\ ActiveCap = 0 \/ Cardinality(active) < ActiveCap
        /\ HasHistory[q] \/ UnknownCap = 0 \/ Cardinality(Unknown(active)) < UnknownCap
    BY CapsAssumption DEF Admits, CapsAllow, UnknownCapAllows, Below
  <1>3. /\ Cardinality(active) \in Nat
        /\ Cardinality(active \cup {q}) = Cardinality(active) + 1
        /\ Cardinality(Unknown(active)) \in Nat
        /\ HasHistory[q] => Unknown(active \cup {q}) = Unknown(active)
        /\ ~HasHistory[q] =>
               Cardinality(Unknown(active \cup {q})) = Cardinality(Unknown(active)) + 1
    BY <1>1, PartFacts, MoreFacts
  <1>4. ActiveCap > 0 => Cardinality(active') <= ActiveCap
    BY <1>1, <1>2, <1>3
  <1>5. UnknownCap > 0 => Cardinality(Unknown(active')) <= UnknownCap
    <2>1. Unknown(active') = Unknown(active \cup {q})
      BY <1>1
    <2>2. CASE HasHistory[q]
      BY <1>3, <2>1, <2>2 DEF CapInv
    <2>3. CASE ~HasHistory[q]
      BY <1>2, <1>3, <2>1, <2>3
    <2>. QED  BY <2>2, <2>3
  <1>. QED  BY <1>1, <1>4, <1>5 DEF CapInv, Unknown
-----------------------------------------------------------------------------
(***************************************************************************)
(* The invariant is inductive.                                             *)
(***************************************************************************)
\* Amounts stay amounts.
LEMMA AmountFacts ==
    ASSUME NEW a \in Amounts, NEW p \in Prompts
    PROVE  Plus(a, Predicted[p]) \in Amounts /\ Minus(a, Predicted[p]) \in Amounts
  <1>1. \A d \in Resources : a[d] \in Nat /\ Predicted[p][d] \in Nat
    BY DemandAssumption DEF Amounts
  <1>2. \A d \in Resources : a[d] + Predicted[p][d] \in Nat
    BY <1>1
  <1>3. \A d \in Resources : a[d] > Predicted[p][d] => a[d] - Predicted[p][d] \in Nat
    BY <1>1
  <1>4. \A d \in Resources : Rounded(a[d] + Predicted[p][d]) \in Nat
    BY <1>2, RoundedFacts
  <1>5. \A d \in Resources :
            (IF a[d] > Predicted[p][d] THEN Rounded(a[d] - Predicted[p][d]) ELSE 0) \in Nat
    BY <1>3, RoundedFacts
  <1>. QED  BY <1>4, <1>5 DEF Plus, Minus, Amounts

\* A queue that has been thinned out holds nobody new.
LEMMA ThinnedQueue ==
    ASSUME Thinned(pending', pending)
    PROVE  Queued' \subseteq Queued
  BY DEF Thinned, Queued

\* The queue and the tickets after a prompt has queued.
LEMMA EnqueueKeeps ==
    ASSUME IInv, NEW p \in Prompts, Enqueue(p)
    PROVE  IInv'
  <1>1. /\ pending \in Seq(Prompts) /\ Len(pending) \in Nat
        /\ pending' = Append(pending, p) /\ state[p] = "new"
        /\ state' = [state EXCEPT ![p] = "waiting"] /\ state \in [Prompts -> States]
        /\ UNCHANGED <<active, active_predicted, admitted_since, head_block, order, budget,
                       window_due, starting, poller>>
    BY DEF IInv, TypeOK, Enqueue, serverVars
  <1>2. p \notin Queued /\ p \notin active
    BY <1>1 DEF IInv, TicketInv
  <1>3. /\ pending' \in Seq(Prompts) /\ Len(pending') = Len(pending) + 1
        /\ pending'[Len(pending) + 1] = p
        /\ \A i \in 1..Len(pending) : pending'[i] = pending[i]
    BY <1>1
  <1>4. \A i \in 1..Len(pending') : i \in 1..Len(pending) \/ i = Len(pending) + 1
    BY <1>1, <1>3
  <1>5. \A i \in 1..Len(pending) : pending[i] # p
    BY <1>2 DEF Queued
  <1>6. Queued' \subseteq Queued \cup {p}
    BY <1>3, <1>4 DEF Queued
  <1>7. QueueInv'
    <2>1. \A i, j \in 1..Len(pending) : pending[i] = pending[j] => i = j
      BY DEF IInv, QueueInv
    <2>2. \A i, j \in 1..Len(pending') : pending'[i] = pending'[j] => i = j
      BY <1>3, <1>4, <1>5, <2>1
    <2>3. Queued' \cap active' = {}
      BY <1>1, <1>2, <1>6 DEF IInv, QueueInv
    <2>. QED  BY <2>2, <2>3 DEF QueueInv
  <1>8. state' \in [Prompts -> States]
    BY <1>1 DEF States
  <1>9. TicketInv'
    <2>. SUFFICES ASSUME NEW r \in Prompts
                  PROVE  /\ state'[r] = "new" => r \notin Queued' \cup active'
                         /\ state'[r] \in {"admitted", "running"} => r \in active'
      BY DEF TicketInv
    <2>1. state'[r] = IF r = p THEN "waiting" ELSE state[r]
      BY <1>1
    <2>. QED  BY <1>1, <1>6, <2>1 DEF IInv, TicketInv
  <1>10. CapInv'
    BY <1>1 DEF IInv, CapInv, Unknown
  <1>11. TypeOK'
    BY <1>1, <1>3, <1>8 DEF IInv, TypeOK
  <1>. QED  BY <1>7, <1>9, <1>10, <1>11 DEF IInv

\* The invariant after a poll.
LEMMA PollKeeps ==
    ASSUME IInv, NEW p \in Prompts, Poll(p)
    PROVE  IInv'
  <1>1. /\ \/ (\E q \in Queued : Admits(q)) /\ PollEnds(p)
           \/ AdmitsNothing /\ PollEnds(p)
           \/ Requeues
        /\ state[p] = "waiting"
        /\ head_block' \in [Prompts -> Nat]
        /\ poller' \in Prompts \cup {NoPrompt}
        /\ UNCHANGED <<order, budget, window_due, starting>>
    BY PollCases DEF IInv, serverVars
  <1>2. TypeOK /\ QueueInv /\ CapInv /\ TicketInv
    BY DEF IInv
  <1>. DEFINE Kept == /\ Thinned(pending', pending)
                      /\ active \subseteq active' /\ active' \subseteq active \cup Queued
                      /\ active' \subseteq Prompts
                      /\ Queued' \cap active' = {}
                      /\ active_predicted' \in Amounts /\ admitted_since' \in Nat
                      /\ CapInv'
  <1>3. ASSUME NEW q \in Queued, Admits(q) PROVE Kept
    <2>1. CapInv' /\ active' = active \cup {q} /\ q \notin active /\ q \in Prompts
      BY <1>2, <1>3, AdmitsKeepsCaps
    <2>2. /\ pending' = Without(q) /\ admitted_since' = admitted_since + 1
          /\ active_predicted' = Plus(active_predicted, Predicted[q])
      BY <1>3 DEF Admits, MarkAdmitted
    <2>3. Thinned(pending', pending) /\ \A i \in 1..Len(pending') : pending'[i] # q
      <3>1. Thinned(Without(q), pending) /\ \A i \in 1..Len(Without(q)) : Without(q)[i] # q
        BY <1>2, WithoutThins
      <3>. QED  BY <2>2, <3>1
    <2>4. Queued' \subseteq Queued /\ q \notin Queued'
      BY <2>3, ThinnedQueue DEF Queued
    <2>5. active_predicted' \in Amounts
      <3>1. active_predicted \in Amounts
        BY <1>2 DEF TypeOK
      <3>. QED  BY <2>1, <2>2, <3>1, AmountFacts
    <2>6. admitted_since' \in Nat /\ active \subseteq Prompts
      BY <1>2, <2>2 DEF TypeOK
    <2>7. Queued \cap active = {}
      BY <1>2 DEF QueueInv
    <2>. QED  BY <2>1, <2>3, <2>4, <2>5, <2>6, <2>7
  <1>4. ASSUME AdmitsNothing PROVE Kept
    <2>1. UNCHANGED <<pending, active, active_predicted, admitted_since>>
      BY <1>4 DEF AdmitsNothing
    <2>2. Thinned(pending', pending)
      BY <1>2, <2>1 DEF Thinned, TypeOK, QueueInv
    <2>3. Queued' = Queued
      BY <2>1 DEF Queued
    <2>4. CapInv'
      BY <1>2, <2>1 DEF CapInv, Unknown
    <2>. QED  BY <1>2, <2>1, <2>2, <2>3, <2>4 DEF TypeOK, QueueInv
  <1>5. ASSUME Requeues PROVE Kept
    <2>1. /\ UNCHANGED <<state, active, active_predicted, admitted_since>>
          /\ pending' = Requeued /\ pending # <<>>
      BY <1>5 DEF Requeues
    <2>2. Thinned(pending', pending)
      <3>1. Thinned(Requeued, pending)
        BY <1>2, <2>1, RequeuedThins
      <3>. QED  BY <2>1, <3>1
    <2>3. Queued' \subseteq Queued
      BY <2>2, ThinnedQueue
    <2>4. CapInv'
      BY <1>2, <2>1 DEF CapInv, Unknown
    <2>. QED  BY <1>2, <2>1, <2>2, <2>3, <2>4 DEF TypeOK, QueueInv
  <1>6. Kept
    <2>. HIDE DEF Kept
    <2>. QED  BY <1>1, <1>3, <1>4, <1>5
  <1>7. /\ state' \in [Prompts -> States]
        /\ \A r \in Prompts : \/ state'[r] = state[r]
                              \/ state'[r] = "admitted" /\ r \in active'
    <2>1. state \in [Prompts -> States]
      BY <1>2 DEF TypeOK
    <2>2. CASE PollEnds(p)
      BY <2>1, <2>2 DEF PollEnds, States
    <2>3. CASE Requeues
      BY <2>1, <2>3 DEF Requeues
    <2>. QED  BY <1>1, <2>2, <2>3
  <1>8. Queued' \subseteq Queued
    BY <1>6, ThinnedQueue
  <1>9. QueueInv'
    BY <1>6 DEF QueueInv, Thinned
  <1>10. TicketInv'
    <2>. SUFFICES ASSUME NEW r \in Prompts
                  PROVE  /\ state'[r] = "new" => r \notin Queued' \cup active'
                         /\ state'[r] \in {"admitted", "running"} => r \in active'
      BY DEF TicketInv
    <2>1. /\ state[r] = "new" => r \notin Queued \cup active
          /\ state[r] \in {"admitted", "running"} => r \in active
      BY <1>2 DEF TicketInv
    <2>2. /\ active \subseteq active' /\ active' \subseteq active \cup Queued
      BY <1>6
    <2>3. state'[r] = state[r] \/ (state'[r] = "admitted" /\ r \in active')
      BY <1>7
    <2>. QED  BY <1>8, <2>1, <2>2, <2>3
  <1>11. TypeOK'
    BY <1>1, <1>2, <1>6, <1>7 DEF TypeOK, Thinned
  <1>. QED  BY <1>6, <1>9, <1>10, <1>11 DEF IInv

\* The steps that leave the queue alone.
LEMMA OthersKeep ==
    ASSUME IInv, NEW p,
           \/ p \in Prompts /\ (Start(p) \/ FinishPrompt(p) \/ Cancel(p))
           \/ Refresh \/ ResetWindow \/ StartupEnds \/ UNCHANGED vars
    PROVE  IInv'
  <1>1. TypeOK /\ QueueInv /\ CapInv /\ TicketInv
    BY DEF IInv
  <1>2. pending' = pending
    BY DEF Start, FinishPrompt, Cancel, Refresh, ResetWindow, StartupEnds, vars, queueVars
  <1>3. Queued' = Queued
    BY <1>2 DEF Queued
  <1>4. TypeOK'
    <2>1. CASE p \in Prompts /\ Start(p)
      BY <1>1, <2>1 DEF TypeOK, Start, queueVars, serverVars, States
    <2>2. CASE p \in Prompts /\ FinishPrompt(p)
      <3>1. /\ state' = [state EXCEPT ![p] = "finished"] /\ active' = active \ {p}
            /\ active_predicted' = Minus(active_predicted, Predicted[p])
            /\ admitted_since' = 0
            /\ UNCHANGED <<pending, head_block, order, budget, window_due, starting, poller>>
        BY <2>2 DEF FinishPrompt, serverVars
      <3>2. active_predicted' \in Amounts
        <4>1. active_predicted \in Amounts
          BY <1>1 DEF TypeOK
        <4>. QED  BY <2>2, <3>1, <4>1, AmountFacts
      <3>3. state' \in [Prompts -> States]
        BY <1>1, <3>1 DEF TypeOK, States
      <3>. QED  BY <1>1, <3>1, <3>2, <3>3 DEF TypeOK
    <2>3. CASE p \in Prompts /\ Cancel(p)
      BY <1>1, <2>3 DEF TypeOK, Cancel, queueVars, serverVars, States
    <2>4. CASE Refresh
      BY <1>1, <2>4, BudgetsAssumption DEF TypeOK, Refresh, queueVars
    <2>5. CASE ResetWindow
      BY <1>1, <2>5 DEF TypeOK, ResetWindow
    <2>6. CASE StartupEnds
      BY <1>1, <2>6 DEF TypeOK, StartupEnds, queueVars
    <2>7. CASE UNCHANGED vars
      BY <1>1, <2>7 DEF TypeOK, vars, queueVars, serverVars
    <2>. QED  BY <2>1, <2>2, <2>3, <2>4, <2>5, <2>6, <2>7
  <1>5. active' = active \/ active' = active \ {p}
    BY DEF Start, FinishPrompt, Cancel, Refresh, ResetWindow, StartupEnds, vars, queueVars
  <1>6. QueueInv'
    BY <1>1, <1>2, <1>3, <1>5 DEF QueueInv
  <1>7. CapInv'
    <2>1. active \in SUBSET Prompts /\ active' \in SUBSET active
      BY <1>1, <1>5 DEF TypeOK
    <2>2. /\ Cardinality(active') \in Nat /\ Cardinality(active') <= Cardinality(active)
          /\ Cardinality(Unknown(active')) \in Nat
          /\ Cardinality(Unknown(active')) <= Cardinality(Unknown(active))
          /\ Cardinality(active) \in Nat /\ Cardinality(Unknown(active)) \in Nat
      BY <2>1, PartFacts
    <2>3. ActiveCap \in Nat /\ UnknownCap \in Nat
      BY CapsAssumption
    <2>. QED  BY <1>1, <2>2, <2>3 DEF CapInv, Unknown
  <1>8. TicketInv'
    <2>. SUFFICES ASSUME NEW r \in Prompts
                  PROVE  /\ state'[r] = "new" => r \notin Queued' \cup active'
                         /\ state'[r] \in {"admitted", "running"} => r \in active'
      BY DEF TicketInv
    <2>1. /\ state[r] = "new" => r \notin Queued \cup active
          /\ state[r] \in {"admitted", "running"} => r \in active
      BY <1>1 DEF TicketInv
    <2>2. state \in [Prompts -> States]
      BY <1>1 DEF TypeOK
    <2>3. CASE active' = active /\ state' = state
      BY <1>3, <2>1, <2>3
    <2>4. CASE p \in Prompts /\ Start(p)
      <3>1. /\ state' = [state EXCEPT ![p] = "running"] /\ state[p] = "admitted"
            /\ active' = active
        BY <2>4 DEF Start, queueVars
      <3>2. p \in active
        BY <1>1, <2>4, <3>1 DEF TicketInv
      <3>3. state'[r] = IF r = p THEN "running" ELSE state[r]
        BY <2>2, <3>1
      <3>. QED  BY <1>3, <2>1, <3>1, <3>2, <3>3
    <2>5. CASE p \in Prompts /\ FinishPrompt(p)
      <3>1. state' = [state EXCEPT ![p] = "finished"] /\ active' = active \ {p}
        BY <2>5 DEF FinishPrompt
      <3>2. state'[r] = IF r = p THEN "finished" ELSE state[r]
        BY <2>2, <3>1
      <3>. QED  BY <1>3, <2>1, <3>1, <3>2
    <2>6. CASE p \in Prompts /\ Cancel(p)
      <3>1. active' = active
        BY <2>6 DEF Cancel, queueVars
      <3>2. state'[r] = state[r] \/ state'[r] \in {"cancelled", "abandoned"}
        BY <2>2, <2>6 DEF Cancel
      <3>. QED  BY <1>3, <2>1, <3>1, <3>2
    <2>7. CASE Refresh \/ ResetWindow \/ StartupEnds \/ UNCHANGED vars
      BY <2>3, <2>7 DEF Refresh, ResetWindow, StartupEnds, vars, queueVars
    <2>. QED  BY <2>4, <2>5, <2>6, <2>7
  <1>. QED  BY <1>4, <1>6, <1>7, <1>8 DEF IInv

LEMMA InitHolds == Init => IInv
  <1>. SUFFICES ASSUME Init PROVE IInv
    OBVIOUS
  <1>1. Queued = {} /\ pending = <<>> /\ active = {}
    BY DEF Init, Queued
  <1>2. TypeOK
    <2>1. <<>> \in Seq(Prompts)
      OBVIOUS
    <2>2. [d \in Resources |-> 0] \in Amounts
      BY DEF Amounts
    <2>. QED  BY <2>1, <2>2 DEF Init, TypeOK, States
  <1>3. QueueInv
    BY <1>1 DEF QueueInv
  <1>4. TicketInv
    BY <1>1 DEF Init, TicketInv
  <1>5. CapInv
    <2>1. Unknown({}) = {} /\ Cardinality({}) = 0
      BY FS_EmptySet DEF Unknown
    <2>2. Cardinality(active) = 0 /\ Cardinality(Unknown(active)) = 0
      BY <1>1, <2>1
    <2>. QED  BY <2>2, CapsAssumption DEF CapInv
  <1>. QED  BY <1>2, <1>3, <1>4, <1>5 DEF IInv

\* A step is one of a coroutine, of the refresh task or of the clock.
LEMMA StepKeeps == IInv /\ [Next]_vars => IInv'
  <1>. SUFFICES ASSUME IInv, [Next]_vars PROVE IInv'
    OBVIOUS
  <1>1. CASE \E p \in Prompts : Enqueue(p) \/ Poll(p) \/ Start(p) \/ FinishPrompt(p) \/ Cancel(p)
    BY <1>1, EnqueueKeeps, PollKeeps, OthersKeep
  <1>2. CASE Refresh \/ ResetWindow \/ StartupEnds \/ UNCHANGED vars
    BY <1>2, OthersKeep
  <1>. QED  BY <1>1, <1>2 DEF Next

\* In every reachable state the invariant holds: the queue and the active prompts stay apart.
THEOREM InvariantHolds == Spec => []IInv
  <1>. QED  BY InitHolds, StepKeeps, PTL DEF Spec

\* The variables keep their types.
THEOREM SchedulerTypes == Spec => []TypeOK
  <1>1. IInv => TypeOK
    BY DEF IInv
  <1>. QED  BY <1>1, InvariantHolds, PTL

\* Never more active prompts than max_active_prompts, nor more without history
\* than max_unknown_repo_concurrency, whatever is cancelled or rounded.
THEOREM CapsHold == Spec => []CapInv
  <1>1. IInv => CapInv
    BY DEF IInv
  <1>. QED  BY <1>1, InvariantHolds, PTL
-----------------------------------------------------------------------------
(***************************************************************************)
(* The order of admission.                                                 *)
(***************************************************************************)
\* What a step does to the queue when order is preserved and nobody is requeued.
LEMMA InOrderStep ==
    ASSUME IInv, [Next]_vars, order.preserve, order.threshold = 0
    PROVE  \/ active' \subseteq active
              /\ \A i \in 1..Len(pending) : i \in 1..Len(pending') /\ pending'[i] = pending[i]
           \/ /\ pending # <<>>
              /\ active' = active \cup {Head(pending)}
              /\ \A i \in 1..Len(pending) :
                     i # 1 => i - 1 \in 1..Len(pending') /\ pending'[i - 1] = pending[i]
  <1>1. TypeOK /\ QueueInv /\ CapInv /\ pending \in Seq(Prompts) /\ Len(pending) \in Nat
    BY DEF IInv, TypeOK
  <1>2. CASE \E p \in Prompts : Poll(p)
    <2>1. PICK p \in Prompts : Poll(p)
      BY <1>2
    <2>2. \/ \E q \in Queued : Admits(q)
          \/ AdmitsNothing
          \/ Requeues
      BY <1>1, <2>1, PollCases
    <2>3. ~Requeues
      BY DEF Requeues
    <2>4. CASE AdmitsNothing
      BY <2>4 DEF AdmitsNothing
    <2>5. ASSUME NEW q \in Queued, Admits(q)
          PROVE  /\ pending # <<>>
                 /\ active' = active \cup {Head(pending)}
                 /\ \A i \in 1..Len(pending) :
                        i # 1 => i - 1 \in 1..Len(pending') /\ pending'[i - 1] = pending[i]
      <3>1. /\ pending # <<>> /\ q = Head(pending) /\ pending' = Without(q)
            /\ active' = active \cup {q}
        BY <2>5 DEF Admits, MarkAdmitted
      <3>2. q = pending[1] /\ 1 \in 1..Len(pending)
        BY <1>1, <3>1
      <3>3. /\ Len(pending') = Len(pending) - 1
            /\ \A i \in 1..(Len(pending) - 1) : pending'[i] = pending[IF i < 1 THEN i ELSE i + 1]
        <4>1. /\ Len(Without(pending[1])) = Len(pending) - 1
              /\ \A i \in 1..(Len(pending) - 1) :
                     Without(pending[1])[i] = pending[IF i < 1 THEN i ELSE i + 1]
          BY <1>1, <3>2, WithoutFacts
        <4>. QED  BY <3>1, <3>2, <4>1
      <3>4. ASSUME NEW i \in 1..Len(pending), i # 1
            PROVE  i - 1 \in 1..Len(pending') /\ pending'[i - 1] = pending[i]
        <4>1. i - 1 \in 1..(Len(pending) - 1) /\ ~(i - 1 < 1) /\ (i - 1) + 1 = i
          BY <1>1, <3>4
        <4>. QED  BY <3>3, <4>1
      <3>. QED  BY <3>1, <3>4
    <2>. QED  BY <2>2, <2>3, <2>4, <2>5
  <1>3. CASE \E p \in Prompts : Enqueue(p)
    <2>1. PICK p \in Prompts : pending' = Append(pending, p) /\ active' = active
      BY <1>3 DEF Enqueue
    <2>2. \A i \in 1..Len(pending) : i \in 1..Len(pending') /\ pending'[i] = pending[i]
      BY <1>1, <2>1
    <2>. QED  BY <2>1, <2>2
  <1>4. CASE \/ \E p \in Prompts : Start(p) \/ FinishPrompt(p) \/ Cancel(p)
             \/ Refresh \/ ResetWindow \/ StartupEnds \/ UNCHANGED vars
    <2>1. pending' = pending /\ active' \subseteq active
      BY <1>4 DEF Start, FinishPrompt, Cancel, Refresh, ResetWindow, StartupEnds, vars, queueVars
    <2>. QED  BY <2>1
  <1>. QED  BY <1>2, <1>3, <1>4 DEF Next

\* Who queued earlier is admitted earlier, when order is preserved and requeueing is off.
THEOREM InOrder == Spec => AdmittedInOrder
  <1>1. IInv /\ [Next]_vars =>
            (order.preserve /\ order.threshold = 0 => \A p, q \in Queued : Before(pending, p, q) =>
                /\ q \in active' => p \in active'
                /\ Before(pending', p, q) \/ {p, q} \cap active' # {})
    <2>. SUFFICES ASSUME IInv, [Next]_vars, order.preserve, order.threshold = 0,
                         NEW p \in Queued, NEW q \in Queued, Before(pending, p, q)
                  PROVE  /\ q \in active' => p \in active'
                         /\ Before(pending', p, q) \/ {p, q} \cap active' # {}
      OBVIOUS
    <2>1. PICK i, j \in 1..Len(pending) : pending[i] = p /\ pending[j] = q /\ i < j
      BY DEF Before
    <2>2. QueueInv /\ pending \in Seq(Prompts) /\ Len(pending) \in Nat
      BY DEF IInv, TypeOK
    <2>3. p \notin active /\ q \notin active
      BY <2>2 DEF QueueInv
    <2>4. CASE /\ active' \subseteq active
               /\ \A x \in 1..Len(pending) : x \in 1..Len(pending') /\ pending'[x] = pending[x]
      <3>1. Before(pending', p, q)
        BY <2>1, <2>4 DEF Before
      <3>. QED  BY <2>3, <2>4, <3>1
    <2>5. CASE /\ pending # <<>>
               /\ active' = active \cup {Head(pending)}
               /\ \A x \in 1..Len(pending) :
                      x # 1 => x - 1 \in 1..Len(pending') /\ pending'[x - 1] = pending[x]
      <3>1. Head(pending) = pending[1] /\ 1 \in 1..Len(pending) /\ j # 1 /\ i \in Nat /\ j \in Nat
        BY <2>1, <2>2, <2>5
      <3>2. q # Head(pending)
        BY <2>1, <2>2, <3>1 DEF QueueInv
      <3>3. q \notin active'
        BY <2>3, <2>5, <3>2
      <3>4. CASE i = 1
        BY <2>1, <2>5, <3>1, <3>3, <3>4
      <3>5. CASE i # 1
        <4>1. /\ i - 1 \in 1..Len(pending') /\ pending'[i - 1] = p
              /\ j - 1 \in 1..Len(pending') /\ pending'[j - 1] = q
          BY <2>1, <2>5, <3>1, <3>5
        <4>2. i - 1 < j - 1
          BY <2>1, <3>1
        <4>3. Before(pending', p, q)
          BY <4>1, <4>2 DEF Before
        <4>. QED  BY <3>3, <4>3
      <3>. QED  BY <3>4, <3>5
    <2>. QED  BY <2>4, <2>5, InOrderStep
  <1>. QED  BY <1>1, InvariantHolds, PTL DEF Spec, AdmittedInOrder
-----------------------------------------------------------------------------
(***************************************************************************)
(* The reservations.                                                       *)
(***************************************************************************)
\* Without rounding, what an admission adds and a finish takes away is the demand of the prompt.
LEMMA ExactAmounts ==
    ASSUME NoRounding, NEW S \in SUBSET Prompts, NEW p \in Prompts
    PROVE  /\ p \notin S => Plus(Demand(S), Predicted[p]) = Demand(S \cup {p})
           /\ p \in S => Minus(Demand(S), Predicted[p]) = Demand(S \ {p})
           /\ \A d \in Resources : p \notin S =>
                  Rounded(Demand(S)[d] + Predicted[p][d]) = Demand(S \cup {p})[d]
  <1>1. \A T \in SUBSET Prompts : \A d \in Resources :
            Demand(T)[d] \in Nat /\ Demand(T)[d] < Digits
    <2>1. \A T \in SUBSET Prompts : Demand(T) \in Amounts
      BY DemandFacts
    <2>2. \A T \in SUBSET Prompts : \A d \in Resources : Demand(T)[d] \in Nat
      BY <2>1 DEF Amounts
    <2>3. \A T \in SUBSET Prompts : \A d \in Resources : Demand(T)[d] <= Demand(Prompts)[d]
      BY DemandFacts
    <2>. QED  BY <2>2, <2>3, CapsAssumption DEF NoRounding
  <1>2. \A d \in Resources : Predicted[p][d] \in Nat
    BY DemandAssumption DEF Amounts
  <1>3. \A T \in SUBSET Prompts : Demand(T) = [d \in Resources |-> Demand(T)[d]]
    BY DEF Demand
  <1>4. ASSUME p \notin S, NEW d \in Resources
        PROVE  Rounded(Demand(S)[d] + Predicted[p][d]) = Demand(S \cup {p})[d]
    <2>1. S \cup {p} \in SUBSET Prompts /\ (S \cup {p}) \ {p} = S /\ p \in S \cup {p}
      BY <1>4
    <2>2. Demand(S \cup {p})[d] = Predicted[p][d] + Demand(S)[d]
      <3>1. Demand(S \cup {p})[d] = Predicted[p][d] + Demand((S \cup {p}) \ {p})[d]
        BY <2>1, DemandFacts
      <3>. QED  BY <2>1, <3>1, Zenon
    <2>3. Demand(S \cup {p})[d] = Demand(S)[d] + Predicted[p][d]
      <3>1. Demand(S)[d] \in Nat /\ Predicted[p][d] \in Nat
        BY <1>1, <1>2
      <3>. QED  BY <2>2, <3>1
    <2>4. Demand(S \cup {p})[d] \in Nat /\ Demand(S \cup {p})[d] < Digits
      BY <1>1, <2>1
    <2>. QED  BY <2>3, <2>4, RoundedFacts
  <1>5. ASSUME p \notin S PROVE Plus(Demand(S), Predicted[p]) = Demand(S \cup {p})
    <2>1. S \cup {p} \in SUBSET Prompts
      OBVIOUS
    <2>2. Demand(S \cup {p}) = [d \in Resources |-> Demand(S \cup {p})[d]]
      BY <1>3, <2>1
    <2>. QED  BY <1>4, <1>5, <2>2 DEF Plus
  <1>6. ASSUME p \in S PROVE Minus(Demand(S), Predicted[p]) = Demand(S \ {p})
    <2>1. S \ {p} \in SUBSET Prompts
      OBVIOUS
    <2>2. ASSUME NEW d \in Resources
          PROVE  (IF Demand(S)[d] > Predicted[p][d]
                    THEN Rounded(Demand(S)[d] - Predicted[p][d]) ELSE 0) = Demand(S \ {p})[d]
      <3>1. Demand(S)[d] = Predicted[p][d] + Demand(S \ {p})[d]
        BY <1>6, DemandFacts
      <3>2. /\ Demand(S \ {p})[d] \in Nat /\ Demand(S \ {p})[d] < Digits
            /\ Predicted[p][d] \in Nat
        BY <1>1, <1>2, <2>1
      <3>3. Demand(S)[d] - Predicted[p][d] = Demand(S \ {p})[d]
        BY <3>1, <3>2
      <3>4. Rounded(Demand(S)[d] - Predicted[p][d]) = Demand(S \ {p})[d]
        BY <3>2, <3>3, RoundedFacts
      <3>. QED  BY <3>1, <3>2, <3>4
    <2>3. Demand(S \ {p}) = [d \in Resources |-> Demand(S \ {p})[d]]
      BY <1>3, <2>1
    <2>. QED  BY <2>2, <2>3 DEF Minus
  <1>. QED  BY <1>4, <1>5, <1>6

LEMMA ExactStep ==
    ASSUME NoRounding, IInv, ReservationsExact, [Next]_vars
    PROVE  ReservationsExact'
  <1>1. TypeOK /\ QueueInv /\ CapInv /\ TicketInv /\ active \in SUBSET Prompts
    BY DEF IInv, TypeOK
  <1>2. CASE UNCHANGED <<active, active_predicted>>
    BY <1>2 DEF ReservationsExact
  <1>3. CASE \E q \in Queued : Admits(q)
    <2>1. PICK q \in Queued : Admits(q)
      BY <1>3
    <2>2. active' = active \cup {q} /\ q \notin active /\ q \in Prompts
      BY <1>1, <2>1, AdmitsKeepsCaps
    <2>3. active_predicted' = Plus(active_predicted, Predicted[q])
      BY <2>1 DEF Admits, MarkAdmitted
    <2>4. Plus(Demand(active), Predicted[q]) = Demand(active \cup {q})
      BY <1>1, <2>2, ExactAmounts
    <2>. QED  BY <2>2, <2>3, <2>4 DEF ReservationsExact
  <1>4. CASE \E p \in Prompts : FinishPrompt(p)
    <2>1. PICK p \in Prompts : FinishPrompt(p)
      BY <1>4
    <2>2. /\ state[p] = "running" /\ active' = active \ {p}
          /\ active_predicted' = Minus(active_predicted, Predicted[p])
      BY <2>1 DEF FinishPrompt
    <2>3. p \in active
      BY <1>1, <2>2 DEF TicketInv
    <2>4. Minus(Demand(active), Predicted[p]) = Demand(active \ {p})
      BY <1>1, <2>3, ExactAmounts
    <2>. QED  BY <2>2, <2>4 DEF ReservationsExact
  <1>5. ASSUME NEW p \in Prompts, Poll(p)
        PROVE  UNCHANGED <<active, active_predicted>> \/ \E q \in Queued : Admits(q)
    BY <1>1, <1>5, PollCases DEF AdmitsNothing, Requeues
  <1>6. CASE \/ \E p \in Prompts : Enqueue(p) \/ Start(p) \/ Cancel(p)
             \/ Refresh \/ ResetWindow \/ StartupEnds \/ UNCHANGED vars
    BY <1>2, <1>6 DEF Enqueue, Start, Cancel, Refresh, ResetWindow, StartupEnds, vars, queueVars
  <1>. QED  BY <1>2, <1>3, <1>4, <1>5, <1>6 DEF Next

\* Nothing leaks from the reservations and nothing is given back twice, as long as no
\* amount reaches what floats round: a cancelled prompt that keeps its reservation stays active.
THEOREM ReservationsHold == NoRounding /\ Spec => []ReservationsExact
  <1>1. Init => ReservationsExact
    <2>1. \A d \in Resources : Demand({})[d] = 0
      BY DemandFacts
    <2>2. Demand({}) = [d \in Resources |-> Demand({})[d]]
      BY DEF Demand
    <2>3. Demand({}) = [d \in Resources |-> 0]
      BY <2>1, <2>2
    <2>. QED  BY <2>3 DEF Init, ReservationsExact
  <1>2. NoRounding /\ IInv /\ ReservationsExact /\ [Next]_vars => ReservationsExact'
    BY ExactStep
  <1>. SUFFICES ASSUME NoRounding PROVE Spec => []ReservationsExact
    OBVIOUS
  <1>3. IInv /\ ReservationsExact /\ [Next]_vars => ReservationsExact'
    BY <1>2
  <1>. QED  BY <1>1, <1>3, InvariantHolds, PTL DEF Spec

\* Each admission fits into the budget of that moment together with all that is active, or
\* it is the forced one of a prompt that no server can hold, and that one runs alone.
LEMMA AdmissionStep ==
    ASSUME NoRounding, IInv, ReservationsExact, [Next]_vars, ~(active' \subseteq active)
    PROVE  /\ ActiveCap > 0 => Cardinality(active') <= ActiveCap
           /\ UnknownCap > 0 => Cardinality(Unknown(active')) <= UnknownCap
           /\ \/ Cardinality(active') = 1
              \/ \A d \in Resources : Demand(active')[d] <= budget[d]
  <1>1. TypeOK /\ QueueInv /\ CapInv /\ TicketInv /\ active \in SUBSET Prompts
    BY DEF IInv, TypeOK
  <1>2. PICK p \in Prompts : Poll(p)
    BY DEF Next, Enqueue, Start, FinishPrompt, Cancel, Refresh, ResetWindow, StartupEnds, vars,
           queueVars
  <1>3. PICK q \in Queued : Admits(q)
    BY <1>1, <1>2, PollCases DEF AdmitsNothing, Requeues
  <1>4. CapInv' /\ active' = active \cup {q} /\ q \notin active /\ q \in Prompts
    BY <1>1, <1>3, AdmitsKeepsCaps
  <1>5. /\ ActiveCap > 0 => Cardinality(active') <= ActiveCap
        /\ UnknownCap > 0 => Cardinality(Unknown(active')) <= UnknownCap
    BY <1>4 DEF CapInv, Unknown
  <1>6. CASE Fits(q)
    <2>1. ASSUME NEW d \in Resources PROVE Demand(active')[d] <= budget[d]
      <3>1. Rounded(active_predicted[d] + Predicted[q][d]) <= budget[d]
        BY <1>6 DEF Fits
      <3>2. Rounded(Demand(active)[d] + Predicted[q][d]) = Demand(active \cup {q})[d]
        BY <1>1, <1>4, ExactAmounts
      <3>3. active_predicted[d] = Demand(active)[d] /\ Demand(active')[d] = Demand(active \cup {q})[d]
        BY <1>4 DEF ReservationsExact
      <3>. QED  BY <3>1, <3>2, <3>3
    <2>. QED  BY <1>5, <2>1
  <1>7. CASE Forced(q)
    <2>1. \A d \in Resources : Demand(active)[d] = 0
      BY <1>7 DEF Forced, IsZero, ReservationsExact
    <2>2. active = {}
      <3>. SUFFICES ASSUME NEW r \in active PROVE FALSE
        OBVIOUS
      <3>1. PICK d \in Resources : Predicted[r][d] > 0
        BY <1>1, DemandAssumption
      <3>2. Demand(active)[d] = Predicted[r][d] + Demand(active \ {r})[d]
        BY <1>1, DemandFacts
      <3>3. Predicted[r][d] \in Nat /\ Demand(active \ {r})[d] \in Nat
        <4>1. active \ {r} \in SUBSET Prompts /\ r \in Prompts
          BY <1>1
        <4>2. Demand(active \ {r}) \in Amounts
          BY <4>1, DemandFacts
        <4>. QED  BY <4>1, <4>2, DemandAssumption DEF Amounts
      <3>. QED  BY <2>1, <3>1, <3>2, <3>3
    <2>3. active' = {q}
      BY <1>4, <2>2
    <2>4. Cardinality(active') = 1
      BY <2>3, FS_Singleton
    <2>. QED  BY <1>5, <2>4
  <1>. QED  BY <1>3, <1>6, <1>7 DEF Admits

\* The limits of an admission, for any demands, budgets, caps and order of events.
THEOREM AdmissionsKeepLimits == NoRounding /\ Spec => AdmissionWithinLimits
  <1>. SUFFICES ASSUME NoRounding PROVE Spec => AdmissionWithinLimits
    OBVIOUS
  <1>1. IInv /\ ReservationsExact /\ [Next]_vars =>
            active' \subseteq active \/
              /\ ActiveCap > 0 => Cardinality(active') <= ActiveCap
              /\ UnknownCap > 0 => Cardinality(Unknown(active')) <= UnknownCap
              /\ \/ Cardinality(active') = 1
                 \/ \A d \in Resources : Demand(active')[d] <= budget[d]
    BY AdmissionStep
  <1>2. Spec => []ReservationsExact
    BY ReservationsHold
  <1>. QED  BY <1>1, <1>2, InvariantHolds, PTL DEF Spec, AdmissionWithinLimits
=============================================================================
