------------------------- MODULE TenantLimitProofs -------------------------
(***************************************************************************)
(* Proofs about TenantLimit, and about the API's processes that use it     *)
(* (ApiRequests), for every finite number of workers, every window and     *)
(* every maximum.                                                          *)
(***************************************************************************)
EXTENDS ApiRequests, FiniteSetTheorems, WellFoundedInduction, TLAPS

(* Workers whose transaction will not set a time to live.                  *)
Trusting == {w \in Worker : pc[w] = "execute" /\ ~ expire[w]}

(* While a counter has no time to live, the requests it counts and those   *)
(* that can still be counted without giving it one are of different        *)
(* workers.                                                                *)
UnexpiringOK ==
  count > 0 /\ ttl = 0 => count + Cardinality(Trusting) <= Cardinality(Worker)

IInv == TypeOK /\ UnexpiringOK

LEMMA TrustingFinite ==
  /\ Trusting \in SUBSET Worker
  /\ IsFiniteSet(Trusting)
  /\ Cardinality(Trusting) \in Nat
  /\ Cardinality(Worker) \in Nat
<1>1. Trusting \in SUBSET Worker /\ IsFiniteSet(Worker)
  BY TenantConstants DEF Trusting
<1>2. IsFiniteSet(Trusting)
  BY <1>1, FS_Subset
<1>. QED
  BY <1>1, <1>2, FS_CardinalityType

LEMMA TypeNext == TypeOK /\ [Next]_vars => TypeOK'
<1>. SUFFICES ASSUME TypeOK, [Next]_vars PROVE TypeOK'
  OBVIOUS
<1>0. Ceiling \in Nat \ {0} /\ Cardinality(Worker) \in Nat
  BY TrustingFinite, TenantConstants DEF Ceiling
<1>. USE <1>0, TenantConstants DEF TypeOK, redisVars, workerVars, Idle
<1>1. ASSUME NEW w \in Worker, Arrive(w) PROVE TypeOK'
  BY <1>1 DEF Arrive, NoTtl
<1>2. ASSUME NEW w \in Worker, Execute(w) PROVE TypeOK'
  <2>1. count' \in 1..Ceiling /\ ttl' \in 0..Window
    BY <1>2 DEF Execute, Increment, Span
  <2>2. pc' \in [Worker -> {"idle", "execute"}] /\ expire' \in [Worker -> BOOLEAN]
    BY <1>2 DEF Execute
  <2>3. allowed' \in [0..Window - 1 -> Nat]
    BY <1>2 DEF Execute
  <2>. QED
    BY <2>1, <2>2, <2>3
<1>3. ASSUME NEW w \in Worker, LoseAnswer(w) PROVE TypeOK'
  <2>1. count' \in 1..Ceiling /\ ttl' \in 0..Window
    BY <1>3 DEF LoseAnswer, Increment, Span
  <2>. QED
    BY <1>3, <2>1 DEF LoseAnswer
<1>4. ASSUME NEW w \in Worker, Fail(w) PROVE TypeOK'
  BY <1>4 DEF Fail
<1>5. ASSUME Tick PROVE TypeOK'
  <2>1. count' \in 0..Ceiling /\ ttl' \in 0..Window /\ (count' = 0 => ttl' = 0)
    BY <1>5 DEF Tick
  <2>2. allowed' \in [0..Window - 1 -> Nat]
    BY <1>5 DEF Tick
  <2>. QED
    BY <1>5, <2>1, <2>2 DEF Tick
<1>6. ASSUME UNCHANGED vars PROVE TypeOK'
  BY <1>6 DEF vars
<1>. QED
  BY <1>1, <1>2, <1>3, <1>4, <1>5, <1>6 DEF Next, Step

(* The counter and its time to live stay within their bounds.              *)
(* tenant_limits.py:46-112.                                                *)
THEOREM TypeCorrect == Spec => []TypeOK
<1>1. Init => TypeOK
  <2>1. Ceiling \in Nat
    BY TrustingFinite, TenantConstants DEF Ceiling
  <2>. QED
    BY <2>1, TenantConstants DEF Init, TypeOK
<1>. QED
  BY <1>1, TypeNext, PTL DEF Spec

-----------------------------------------------------------------------------
(* A step that neither counts nor makes a key unexpiring, and after which  *)
(* no further worker trusts an unexpiring key.                             *)
LEMMA UnexpiringKeeps ==
  ASSUME TypeOK, UnexpiringOK,
         count' > 0 /\ ttl' = 0 =>
           /\ count' = count /\ ttl = 0
           /\ Trusting' \subseteq Trusting
  PROVE  UnexpiringOK'
<1>. SUFFICES ASSUME count' > 0, ttl' = 0
              PROVE  count' + Cardinality(Trusting') <= Cardinality(Worker)
  BY DEF UnexpiringOK
<1>1. count' = count /\ count + Cardinality(Trusting) <= Cardinality(Worker)
  BY DEF UnexpiringOK
<1>2. Cardinality(Trusting') <= Cardinality(Trusting) /\ Cardinality(Trusting') \in Nat
  BY TrustingFinite, FS_Subset, FS_CardinalityType
<1>. QED
  BY <1>1, <1>2, TrustingFinite DEF TypeOK

(* The transaction, whether or not its answer arrives.                     *)
LEMMA UnexpiringIncrement ==
  ASSUME TypeOK, UnexpiringOK, NEW w \in Worker,
         pc[w] = "execute", Increment(w), Idle(w)
  PROVE  UnexpiringOK'
<1>. SUFFICES ASSUME count' > 0, ttl' = 0
              PROVE  count' + Cardinality(Trusting') <= Cardinality(Worker)
  BY DEF UnexpiringOK
<1>1. ~ expire[w] /\ ttl = 0
  BY TenantConstants DEF Increment, TypeOK, Span
<1>2. w \in Trusting
  BY <1>1 DEF Trusting
<1>3. Trusting' = Trusting \ {w}
  BY DEF Trusting, Idle, TypeOK
<1>4. Cardinality(Trusting') = Cardinality(Trusting) - 1
  BY <1>2, <1>3, TrustingFinite, FS_RemoveElement
<1>5. count' <= count + 1 /\ count' \in Nat /\ count \in Nat
  BY TrustingFinite, TenantConstants DEF Increment, TypeOK, Ceiling
<1>6. CASE count > 0
  BY <1>1, <1>4, <1>5, <1>6, TrustingFinite DEF UnexpiringOK
<1>7. CASE count = 0
  <2>1. Cardinality(Trusting) <= Cardinality(Worker)
    BY TrustingFinite, TenantConstants, FS_Subset
  <2>. QED
    BY <1>4, <1>5, <1>7, <2>1, TrustingFinite
<1>. QED
  BY <1>5, <1>6, <1>7

(* The invariant: types, and who can still be counted by a counter that    *)
(* has no time to live.                                                    *)
THEOREM Inductive == Spec => []IInv
<1>1. Init => IInv
  <2>1. Ceiling \in Nat
    BY TrustingFinite, TenantConstants DEF Ceiling
  <2>. QED
    BY <2>1, TenantConstants DEF Init, IInv, TypeOK, UnexpiringOK
<1>2. IInv /\ [Next]_vars => IInv'
  <2>. SUFFICES ASSUME TypeOK, UnexpiringOK, [Next]_vars PROVE UnexpiringOK'
    BY TypeNext DEF IInv
  <2>1. ASSUME NEW w \in Worker, Arrive(w) PROVE UnexpiringOK'
    BY <2>1, UnexpiringKeeps DEF Arrive, NoTtl, Trusting, TypeOK, redisVars
  <2>2. ASSUME NEW w \in Worker, Execute(w) PROVE UnexpiringOK'
    BY <2>2, UnexpiringIncrement DEF Execute
  <2>3. ASSUME NEW w \in Worker, LoseAnswer(w) PROVE UnexpiringOK'
    BY <2>3, UnexpiringIncrement DEF LoseAnswer
  <2>4. ASSUME NEW w \in Worker, Fail(w) PROVE UnexpiringOK'
    BY <2>4, UnexpiringKeeps DEF Fail, Idle, Trusting, TypeOK, redisVars
  <2>5. ASSUME Tick PROVE UnexpiringOK'
    BY <2>5, UnexpiringKeeps, TenantConstants DEF Tick, Trusting, TypeOK, workerVars
  <2>6. ASSUME UNCHANGED vars PROVE UnexpiringOK'
    BY <2>6, UnexpiringKeeps DEF vars, Trusting, redisVars, workerVars
  <2>. QED
    BY <2>1, <2>2, <2>3, <2>4, <2>5, <2>6 DEF Next, Step
<1>. QED
  BY <1>1, <1>2, PTL DEF Spec

(* The race between reading the time to live and incrementing leaves a     *)
(* counter without one only while it counts fewer requests than there are  *)
(* API workers, or as many.                                                *)
THEOREM UnexpiringCountersAreSmall == Spec => []UnexpiringCounterIsSmall
<1>1. IInv => UnexpiringCounterIsSmall
  BY TrustingFinite DEF IInv, TypeOK, UnexpiringOK, UnexpiringCounterIsSmall
<1>. QED
  BY <1>1, Inductive, PTL
-----------------------------------------------------------------------------
(* Induction over a set of numbers, from the fact that < is well founded.  *)
LEMMA NatSets ==
  ASSUME NEW S \in SUBSET Nat, 0 \in S, \A n \in S : n + 1 \in S
  PROVE  S = Nat
<1>1. SUFFICES ASSUME Nat \ S # {} PROVE FALSE
  OBVIOUS
<1>2. PICK m \in Nat \ S : \A k \in Nat \ S : ~ (<<k, m>> \in OpToRel(<, Nat))
  BY <1>1, NatLessThanWellFounded, WFMin
<1>3. \A k \in Nat \ S : ~ (k < m)
  BY <1>2 DEF OpToRel
<1>4. m # 0 /\ m - 1 \in Nat
  BY <1>1
<1>5. m - 1 \in S
  BY <1>3, <1>4
<1>. QED
  BY <1>4, <1>5

First(s) == CHOOSE x \in s : TRUE

(* F adds up f over the subsets of S, one element after the other.         *)
Recursion(F, f, S) ==
  F = [s \in SUBSET S |-> IF s = {} THEN 0 ELSE f[First(s)] + F[s \ {First(s)}]]

(* Of the elements of s, F adds x last.                                    *)
AddsLast(F, f, s, x) == F[s] = f[x] + F[s \ {x}]

(* What SumFunction folds with: the sums of f over the subsets of S.       *)
Sums(f, S) ==
  CHOOSE F : Recursion(F, f, S)

LEMMA SumIsIter == \A f : SumFunction(f) = Sums(f, DOMAIN f)[DOMAIN f]
BY DEF SumFunction, SumFunctionOnSet, FoldFunctionOnSet, MapThenFoldSet, Sums, Recursion, First

LEMMA Removal ==
  ASSUME NEW S, IsFiniteSet(S), NEW s \in SUBSET S, NEW x \in s
  PROVE  /\ s \ {x} \in SUBSET S
         /\ Cardinality(s) \in Nat \ {0}
         /\ Cardinality(s \ {x}) = Cardinality(s) - 1
<1>1. IsFiniteSet(s)
  BY FS_Subset
<1>2. Cardinality(s) \in Nat /\ Cardinality(s) # 0
  BY <1>1, FS_CardinalityType, FS_EmptySet
<1>. QED
  BY <1>1, <1>2, FS_RemoveElement

(* The recursion is well defined: it is so for the subsets of at most n    *)
(* elements, for every n.                                                  *)
LEMMA SumsEquation ==
  ASSUME NEW f, NEW S, IsFiniteSet(S)
  PROVE  Recursion(Sums(f, S), f, S)
<1>. DEFINE Small(n) == {s \in SUBSET S : Cardinality(s) <= n}
            Defined(g, D) ==
              g = [s \in D |-> IF s = {} THEN 0 ELSE f[First(s)] + g[s \ {First(s)}]]
            Good == {n \in Nat : \E g : Defined(g, Small(n))}
<1>1. \A s \in SUBSET S : Cardinality(s) \in Nat /\ (Cardinality(s) = 0 => s = {})
  BY FS_Subset, FS_CardinalityType, FS_EmptySet
<1>2. \A s \in SUBSET S : s # {} =>
        /\ First(s) \in s
        /\ s \ {First(s)} \in SUBSET S
        /\ Cardinality(s) \in Nat \ {0}
        /\ Cardinality(s \ {First(s)}) = Cardinality(s) - 1
  <2>1. \A s : s # {} => First(s) \in s
    BY DEF First
  <2>. QED
    BY <2>1, Removal
<1>3. 0 \in Good
  <2>. DEFINE g == [s \in Small(0) |-> 0]
  <2>1. \A s \in Small(0) : s = {}
    BY <1>1
  <2>2. g = [s \in Small(0) |-> IF s = {} THEN 0 ELSE f[First(s)] + g[s \ {First(s)}]]
    BY <2>1
  <2>. QED
    BY <2>2
<1>4. ASSUME NEW n \in Good PROVE n + 1 \in Good
  <2>1. PICK g : Defined(g, Small(n))
    OBVIOUS
  <2>. DEFINE h == [s \in Small(n + 1) |->
                      IF s = {} THEN 0 ELSE f[First(s)] + g[s \ {First(s)}]]
  <2>2. \A s \in Small(n) : s \in Small(n + 1) /\ h[s] = g[s]
    <3>1. \A s \in Small(n) : s \in Small(n + 1)
      BY <1>1
    <3>2. \A s \in Small(n) : g[s] = IF s = {} THEN 0 ELSE f[First(s)] + g[s \ {First(s)}]
      BY <2>1
    <3>. QED
      BY <3>1, <3>2
  <2>3. \A s \in Small(n + 1) : s # {} => s \ {First(s)} \in Small(n)
    BY <1>1, <1>2
  <2>4. \A s \in Small(n + 1) :
          h[s] = IF s = {} THEN 0 ELSE f[First(s)] + h[s \ {First(s)}]
    BY <2>2, <2>3
  <2>5. Defined(h, Small(n + 1))
    BY <2>4
  <2>. HIDE DEF h
  <2>6. \E k : Defined(k, Small(n + 1))
    BY <2>5
  <2>7. n + 1 \in Nat
    OBVIOUS
  <2>. HIDE DEF Small, Defined
  <2>. QED
    BY <2>6, <2>7
<1>5. Good = Nat
  <2>. HIDE DEF Good
  <2>1. Good \in SUBSET Nat
    BY DEF Good
  <2>. QED
    BY <1>3, <1>4, <2>1, NatSets
<1>6. Small(Cardinality(S)) = SUBSET S
  BY <1>1, FS_Subset
<1>7. \E g : Recursion(g, f, S)
  <2>1. Cardinality(S) \in Good
    BY <1>1, <1>5
  <2>2. \E g : Defined(g, Small(Cardinality(S)))
    BY <2>1
  <2>. QED
    BY <1>6, <2>2 DEF Recursion
<1>. QED
  BY <1>7 DEF Sums

LEMMA RecursionValues ==
  ASSUME NEW F, NEW f, NEW S, Recursion(F, f, S)
  PROVE  /\ F = [s \in SUBSET S |-> F[s]]
         /\ F[{}] = 0
         /\ \A s \in SUBSET S :
              s # {} => First(s) \in s /\ AddsLast(F, f, s, First(s))
<1>1. F = [s \in SUBSET S |-> F[s]]
  BY DEF Recursion
<1>2. F = [s \in SUBSET S |-> IF s = {} THEN 0 ELSE f[First(s)] + F[s \ {First(s)}]]
  BY DEF Recursion
<1>3. \A s \in SUBSET S :
        F[s] = IF s = {} THEN 0 ELSE f[First(s)] + F[s \ {First(s)}]
  BY <1>2, Zenon
<1>4. {} \in SUBSET S
  OBVIOUS
<1>5. \A s : s # {} => First(s) \in s
  BY DEF First
<1>. QED
  BY <1>1, <1>3, <1>4, <1>5 DEF AddsLast

(* Induction over the size of a subset.                                    *)
LEMMA SumsType ==
  ASSUME NEW S, IsFiniteSet(S), NEW f \in [S -> Nat]
  PROVE  Sums(f, S) \in [SUBSET S -> Nat]
<1>. DEFINE F == Sums(f, S)
            Good == {n \in Nat : \A s \in SUBSET S : Cardinality(s) = n => F[s] \in Nat}
<1>0. Recursion(F, f, S)
  BY SumsEquation
<1>. HIDE DEF F
<1>1. /\ F = [s \in SUBSET S |-> F[s]]
      /\ F[{}] = 0
      /\ \A s \in SUBSET S : s # {} => AddsLast(F, f, s, First(s))
  BY <1>0, RecursionValues
<1>2. \A s \in SUBSET S : s # {} => First(s) \in s
  BY <1>0, RecursionValues
<1>3. \A s \in SUBSET S : Cardinality(s) \in Nat /\ (Cardinality(s) = 0 => s = {})
  BY FS_Subset, FS_CardinalityType, FS_EmptySet
<1>4. 0 \in Good
  BY <1>1, <1>3
<1>5. ASSUME NEW n \in Good PROVE n + 1 \in Good
  <2>. SUFFICES ASSUME NEW s \in SUBSET S, Cardinality(s) = n + 1 PROVE F[s] \in Nat
    OBVIOUS
  <2>1. s # {} /\ n \in Nat
    BY FS_EmptySet
  <2>2. First(s) \in s /\ First(s) \in S
    BY <1>2, <2>1
  <2>3. s \ {First(s)} \in SUBSET S /\ Cardinality(s \ {First(s)}) = n
    BY <2>2, Removal
  <2>4. F[s \ {First(s)}] \in Nat
    BY <2>3
  <2>5. F[s] = f[First(s)] + F[s \ {First(s)}] /\ f[First(s)] \in Nat
    BY <1>1, <2>1, <2>2 DEF AddsLast
  <2>. QED
    BY <2>4, <2>5
<1>6. Good = Nat
  <2>. HIDE DEF Good
  <2>1. Good \in SUBSET Nat
    BY DEF Good
  <2>. QED
    BY <1>4, <1>5, <2>1, NatSets
<1>7. \A s \in SUBSET S : F[s] \in Nat
  BY <1>3, <1>6
<1>8. F \in [SUBSET S -> Nat]
  BY <1>1, <1>7
<1>. QED
  BY <1>8 DEF F

(* The order in which the elements are taken does not matter.              *)
LEMMA SumsRemove ==
  ASSUME NEW S, IsFiniteSet(S), NEW f \in [S -> Nat]
  PROVE  \A s \in SUBSET S, x \in S :
           x \in s => AddsLast(Sums(f, S), f, s, x)
<1>. DEFINE F == Sums(f, S)
            Good == {n \in Nat : \A s \in SUBSET S, x \in S :
                       x \in s /\ Cardinality(s) = n => AddsLast(F, f, s, x)}
<1>0. Recursion(F, f, S) /\ F \in [SUBSET S -> Nat]
  BY SumsEquation, SumsType
<1>. HIDE DEF F
<1>1. /\ F \in [SUBSET S -> Nat]
      /\ \A s \in SUBSET S : s # {} => AddsLast(F, f, s, First(s))
  <2>1. F \in [SUBSET S -> Nat]
    BY <1>0
  <2>2. \A s \in SUBSET S : s # {} => AddsLast(F, f, s, First(s))
    BY <1>0, RecursionValues
  <2>. QED
    BY <2>1, <2>2
<1>2. \A s \in SUBSET S : s # {} => First(s) \in s
  BY <1>0, RecursionValues
<1>3. \A s \in SUBSET S : Cardinality(s) \in Nat /\ (Cardinality(s) = 0 => s = {})
  BY FS_Subset, FS_CardinalityType, FS_EmptySet
<1>4. 0 \in Good
  BY <1>3
<1>5. ASSUME NEW n \in Good PROVE n + 1 \in Good
  <2>. SUFFICES ASSUME NEW s \in SUBSET S, NEW x \in S, x \in s, Cardinality(s) = n + 1
                PROVE  F[s] = f[x] + F[s \ {x}]
    BY DEF AddsLast
  <2>. DEFINE c == First(s)
  <2>1. s # {} /\ c \in s /\ c \in S
    BY <1>2
  <2>2. F[s] = f[c] + F[s \ {c}]
    BY <1>1, <2>1 DEF AddsLast
  <2>3. /\ s \ {c} \in SUBSET S /\ Cardinality(s \ {c}) = n
        /\ s \ {x} \in SUBSET S /\ Cardinality(s \ {x}) = n
    BY <2>1, Removal
  <2>. HIDE DEF c
  <2>4. CASE x = c
    BY <2>2, <2>4
  <2>5. CASE x # c
    <3>1. F[s \ {c}] = f[x] + F[(s \ {c}) \ {x}]
      BY <2>3, <2>5 DEF AddsLast
    <3>2. F[s \ {x}] = f[c] + F[(s \ {x}) \ {c}]
      BY <2>1, <2>3, <2>5 DEF AddsLast
    <3>. DEFINE B == (s \ {c}) \ {x}
    <3>3. (s \ {x}) \ {c} = B /\ B \in SUBSET S
      OBVIOUS
    <3>4. f[x] \in Nat /\ f[c] \in Nat /\ F[B] \in Nat
      BY <1>1, <2>1, <3>3
    <3>5. F[s \ {c}] = f[x] + F[B] /\ F[s \ {x}] = f[c] + F[B]
      BY <3>1, <3>2, <3>3
    <3>. HIDE DEF B
    <3>. QED
      BY <2>2, <3>4, <3>5
  <2>. QED
    BY <2>4, <2>5
<1>6. Good = Nat
  <2>. HIDE DEF Good
  <2>1. Good \in SUBSET Nat
    BY DEF Good
  <2>. QED
    BY <1>4, <1>5, <2>1, NatSets
<1>7. \A s \in SUBSET S, x \in S : x \in s => AddsLast(F, f, s, x)
  BY <1>3, <1>6
<1>. QED
  BY <1>7 DEF F

(* p is the function of the partial sums of f.                             *)
PartialSums(p, f, n) ==
  /\ p \in [0..n -> Nat]
  /\ p[0] = 0
  /\ \A k \in 0..n - 1 : p[k + 1] = p[k] + f[k]

LEMMA SumIsPartialSum ==
  ASSUME NEW n \in Nat, NEW f \in [0..n - 1 -> Nat]
  PROVE  \E p : PartialSums(p, f, n) /\ p[n] = SumFunction(f)
<1>. DEFINE D == 0..n - 1
            p == [k \in 0..n |-> Sums(f, D)[0..k - 1]]
<1>1. IsFiniteSet(D) /\ f \in [D -> Nat]
  <2>1. n - 1 \in Int /\ 0 \in Int
    OBVIOUS
  <2>. QED
    BY <2>1, FS_Interval
<1>2. /\ Sums(f, D) \in [SUBSET D -> Nat]
      /\ \A s \in SUBSET D, x \in D : x \in s => AddsLast(Sums(f, D), f, s, x)
  BY <1>1, SumsType, SumsRemove
<1>3. Sums(f, D)[{}] = 0
  BY <1>1, SumsEquation, RecursionValues
<1>4. \A k \in 0..n : 0..k - 1 \in SUBSET D
  OBVIOUS
<1>5. p \in [0..n -> Nat] /\ p[0] = 0
  <2>1. 0..0 - 1 = {}
    OBVIOUS
  <2>. QED
    BY <1>2, <1>3, <1>4, <2>1
<1>6. ASSUME NEW k \in 0..n - 1 PROVE p[k + 1] = p[k] + f[k]
  <2>1. k \in 0..k /\ 0..k \in SUBSET D /\ (0..k) \ {k} = 0..k - 1 /\ k + 1 - 1 = k
        /\ k \in D /\ k + 1 \in 0..n /\ k \in 0..n
    OBVIOUS
  <2>2. Sums(f, D)[0..k] = f[k] + Sums(f, D)[0..k - 1]
    BY <1>2, <2>1 DEF AddsLast
  <2>3. f[k] \in Nat /\ Sums(f, D)[0..k - 1] \in Nat
    BY <1>2, <1>4, <2>1
  <2>. HIDE DEF D
  <2>. QED
    BY <2>1, <2>2, <2>3
<1>7. p[n] = SumFunction(f)
  BY <1>1, SumIsIter
<1>. HIDE DEF p
<1>. QED
  BY <1>5, <1>6, <1>7 DEF PartialSums

LEMMA PartialSumsUnique ==
  ASSUME NEW n \in Nat, NEW f, NEW p, NEW q,
         PartialSums(p, f, n), PartialSums(q, f, n)
  PROVE  p = q
<1>. DEFINE Good == {k \in Nat : k <= n => p[k] = q[k]}
<1>1. 0 \in Good
  BY DEF PartialSums
<1>2. ASSUME NEW k \in Good PROVE k + 1 \in Good
  <2>1. CASE k + 1 <= n
    <3>1. k \in 0..n - 1 /\ k \in Nat /\ p[k] = q[k]
      BY <2>1
    <3>2. p[k + 1] = p[k] + f[k] /\ q[k + 1] = q[k] + f[k]
      BY <3>1 DEF PartialSums
    <3>. QED
      BY <3>1, <3>2
  <2>. QED
    BY <2>1
<1>3. Good = Nat
  <2>. HIDE DEF Good
  <2>1. Good \in SUBSET Nat
    BY DEF Good
  <2>. QED
    BY <1>1, <1>2, <2>1, NatSets
<1>4. \A k \in 0..n : p[k] = q[k]
  BY <1>3
<1>. QED
  BY <1>4 DEF PartialSums

(* What f holds for the k youngest ages.                                   *)
Recent(f, k) == SumFunction([a \in 0..k - 1 |-> f[a]])

LEMMA RecentIsPartialSum ==
  ASSUME NEW n \in Nat, NEW f \in [0..n - 1 -> Nat], NEW p, PartialSums(p, f, n),
         NEW k \in 0..n
  PROVE  Recent(f, k) = p[k]
<1>. DEFINE g == [a \in 0..k - 1 |-> f[a]]
            r == [j \in 0..k |-> p[j]]
<1>1. k \in Nat /\ g \in [0..k - 1 -> Nat]
  OBVIOUS
<1>2. PartialSums(r, g, k)
  <2>1. r \in [0..k -> Nat] /\ r[0] = 0
    BY DEF PartialSums
  <2>2. ASSUME NEW j \in 0..k - 1 PROVE r[j + 1] = r[j] + g[j]
    <3>1. j \in 0..n - 1 /\ j \in 0..k /\ j + 1 \in 0..k
      OBVIOUS
    <3>2. p[j + 1] = p[j] + f[j]
      BY <3>1 DEF PartialSums
    <3>. QED
      BY <3>1, <3>2
  <2>. HIDE DEF r, g
  <2>. QED
    BY <2>1, <2>2 DEF PartialSums
<1>. HIDE DEF g
<1>3. PICK q : PartialSums(q, g, k) /\ q[k] = SumFunction(g)
  BY <1>1, SumIsPartialSum
<1>4. q = r
  BY <1>1, <1>2, <1>3, PartialSumsUnique
<1>5. r[k] = p[k]
  OBVIOUS
<1>. QED
  BY <1>3, <1>4, <1>5 DEF Recent, g

(* Recent is a sum taken from the youngest age on.                         *)
LEMMA RecentSums ==
  ASSUME NEW n \in Nat, NEW f \in [0..n - 1 -> Nat]
  PROVE  /\ PartialSums([k \in 0..n |-> Recent(f, k)], f, n)
         /\ Recent(f, n) = SumFunction(f)
<1>1. PICK p : PartialSums(p, f, n) /\ p[n] = SumFunction(f)
  BY SumIsPartialSum
<1>2. \A k \in 0..n : Recent(f, k) = p[k]
  BY <1>1, RecentIsPartialSum
<1>3. p = [k \in 0..n |-> Recent(f, k)]
  BY <1>1, <1>2 DEF PartialSums
<1>. QED
  BY <1>1, <1>2, <1>3

LEMMA RecentFacts ==
  ASSUME NEW n \in Nat, NEW f \in [0..n - 1 -> Nat]
  PROVE  /\ \A k \in 0..n : Recent(f, k) \in Nat
         /\ Recent(f, 0) = 0
         /\ \A k \in 0..n - 1 : Recent(f, k + 1) = Recent(f, k) + f[k]
         /\ Recent(f, n) = SumFunction(f)
<1>. DEFINE p == [k \in 0..n |-> Recent(f, k)]
<1>1. PartialSums(p, f, n)
  BY RecentSums
<1>2. \A k \in 0..n : p[k] = Recent(f, k)
  OBVIOUS
<1>. HIDE DEF p
<1>3. \A k \in 0..n : Recent(f, k) \in Nat
  BY <1>1, <1>2 DEF PartialSums
<1>4. Recent(f, 0) = 0
  BY <1>1, <1>2 DEF PartialSums
<1>5. ASSUME NEW k \in 0..n - 1 PROVE Recent(f, k + 1) = Recent(f, k) + f[k]
  <2>1. k \in 0..n /\ k + 1 \in 0..n
    OBVIOUS
  <2>2. p[k + 1] = p[k] + f[k]
    BY <1>1 DEF PartialSums
  <2>. QED
    BY <1>2, <2>1, <2>2
<1>. QED
  BY <1>3, <1>4, <1>5, RecentSums

LEMMA RecentMonotone ==
  ASSUME NEW n \in Nat, NEW f \in [0..n - 1 -> Nat]
  PROVE  \A j, k \in 0..n : j <= k => Recent(f, j) <= Recent(f, k)
<1>. SUFFICES ASSUME NEW j \in 0..n
              PROVE  \A k \in 0..n : j <= k => Recent(f, j) <= Recent(f, k)
  OBVIOUS
<1>. DEFINE Good == {d \in Nat : j + d <= n => Recent(f, j) <= Recent(f, j + d)}
<1>0. \A k \in 0..n : Recent(f, k) \in Nat
  BY RecentFacts
<1>1. 0 \in Good
  BY <1>0
<1>2. ASSUME NEW d \in Good PROVE d + 1 \in Good
  <2>1. CASE j + (d + 1) <= n
    <3>. DEFINE i == j + d
    <3>1. i \in 0..n - 1 /\ i \in 0..n /\ i + 1 \in 0..n /\ i + 1 = j + (d + 1)
      BY <2>1
    <3>2. Recent(f, j) <= Recent(f, i)
      BY <3>1
    <3>3. Recent(f, i + 1) = Recent(f, i) + f[i] /\ f[i] \in Nat
      BY <3>1, RecentFacts
    <3>4. Recent(f, j) \in Nat /\ Recent(f, i) \in Nat
      BY <1>0, <3>1
    <3>5. d + 1 \in Nat
      OBVIOUS
    <3>. HIDE DEF i
    <3>. QED
      BY <3>1, <3>2, <3>3, <3>4, <3>5
  <2>. QED
    BY <2>1
<1>3. Good = Nat
  <2>. HIDE DEF Good
  <2>1. Good \in SUBSET Nat
    BY DEF Good
  <2>. QED
    BY <1>1, <1>2, <2>1, NatSets
<1>. SUFFICES ASSUME NEW k \in 0..n, j <= k PROVE Recent(f, j) <= Recent(f, k)
  OBVIOUS
<1>4. k - j \in Nat /\ j + (k - j) = k
  OBVIOUS
<1>5. k - j \in Good
  BY <1>3, <1>4
<1>. QED
  BY <1>4, <1>5

(* One more at the youngest age.                                           *)
LEMMA RecentIncrement ==
  ASSUME NEW n \in Nat \ {0}, NEW f \in [0..n - 1 -> Nat],
         NEW k \in 1..n
  PROVE  Recent([f EXCEPT ![0] = @ + 1], k) = Recent(f, k) + 1
<1>. DEFINE g == [f EXCEPT ![0] = @ + 1]
            p == [j \in 0..n |-> IF j = 0 THEN 0 ELSE Recent(f, j) + 1]
<1>1. /\ \A j \in 0..n : Recent(f, j) \in Nat
      /\ Recent(f, 0) = 0
      /\ \A j \in 0..n - 1 : Recent(f, j + 1) = Recent(f, j) + f[j]
  BY RecentFacts
<1>2. g \in [0..n - 1 -> Nat] /\ g[0] = f[0] + 1 /\ \A j \in 1..n - 1 : g[j] = f[j]
  OBVIOUS
<1>3. p \in [0..n -> Nat] /\ p[0] = 0 /\ \A j \in 1..n : p[j] = Recent(f, j) + 1
  BY <1>1
<1>. HIDE DEF g, p
<1>4. ASSUME NEW j \in 0..n - 1 PROVE p[j + 1] = p[j] + g[j]
  <2>1. j + 1 \in 1..n /\ j \in 0..n /\ Recent(f, j) \in Nat /\ f[j] \in Nat
        /\ Recent(f, j + 1) = Recent(f, j) + f[j] /\ p[j + 1] = Recent(f, j + 1) + 1
    BY <1>1, <1>3
  <2>2. CASE j = 0
    BY <1>1, <1>2, <1>3, <2>1, <2>2
  <2>3. CASE j # 0
    <3>1. g[j] = f[j] /\ p[j] = Recent(f, j) + 1
      BY <1>2, <1>3, <2>3
    <3>. QED
      BY <2>1, <3>1
  <2>. QED
    BY <2>2, <2>3
<1>5. PartialSums(p, g, n)
  BY <1>3, <1>4 DEF PartialSums
<1>6. Recent(g, k) = p[k]
  BY <1>2, <1>5, RecentIsPartialSum
<1>. QED
  BY <1>3, <1>6 DEF g

(* One tick later.                                                         *)
Older(f, n) == [a \in 0..n - 1 |-> IF a = 0 THEN 0 ELSE f[a - 1]]

LEMMA RecentOlder ==
  ASSUME NEW n \in Nat \ {0}, NEW f \in [0..n - 1 -> Nat],
         NEW k \in 0..n - 1
  PROVE  /\ Recent(Older(f, n), k + 1) = Recent(f, k)
         /\ Recent(Older(f, n), 0) = 0
<1>. DEFINE g == Older(f, n)
            p == [j \in 0..n |-> IF j = 0 THEN 0 ELSE Recent(f, j - 1)]
<1>1. /\ \A j \in 0..n : Recent(f, j) \in Nat
      /\ Recent(f, 0) = 0
      /\ \A j \in 0..n - 1 : Recent(f, j + 1) = Recent(f, j) + f[j]
  BY RecentFacts
<1>2. g \in [0..n - 1 -> Nat] /\ g[0] = 0 /\ \A j \in 1..n - 1 : g[j] = f[j - 1]
  BY DEF Older
<1>3. p \in [0..n -> Nat] /\ p[0] = 0 /\ \A j \in 0..n - 1 : p[j + 1] = Recent(f, j)
  BY <1>1
<1>. HIDE DEF g, p
<1>4. ASSUME NEW j \in 0..n - 1 PROVE p[j + 1] = p[j] + g[j]
  <2>1. p[j + 1] = Recent(f, j)
    BY <1>3
  <2>2. CASE j = 0
    BY <1>1, <1>2, <1>3, <2>1, <2>2
  <2>3. CASE j # 0
    <3>. DEFINE i == j - 1
    <3>1. i \in 0..n - 1 /\ j = i + 1 /\ g[j] = f[i] /\ f[i] \in Nat
      BY <1>2, <2>3
    <3>2. p[j] = Recent(f, i)
      BY <1>3, <3>1
    <3>3. Recent(f, j) = Recent(f, i) + f[i]
      BY <1>1, <3>1
    <3>. QED
      BY <2>1, <3>1, <3>2, <3>3
  <2>. QED
    BY <2>2, <2>3
<1>5. PartialSums(p, g, n)
  BY <1>3, <1>4 DEF PartialSums
<1>6. k + 1 \in 0..n /\ 0 \in 0..n
  OBVIOUS
<1>7. Recent(g, k + 1) = p[k + 1] /\ Recent(g, 0) = p[0]
  BY <1>2, <1>5, <1>6, RecentIsPartialSum
<1>. QED
  BY <1>3, <1>7 DEF g

-----------------------------------------------------------------------------
(* Of the requests let through in a window, those of the last b ticks were *)
(* counted by the present key, and the others by a single key before it,   *)
(* which had not expired b ticks ago.                                      *)
Since(b) ==
  /\ Recent(allowed, b) <= count
  /\ Recent(allowed, b) <= MaxRequests
  /\ SumFunction(allowed) <= Recent(allowed, b) + MaxRequests
  /\ ttl > 0 => b > Window - ttl

TwoKeys == \E b \in 1..Window : Since(b)

LEMMA AllowedSums ==
  ASSUME TypeOK
  PROVE  /\ Window \in Nat /\ Window - 1 \in Nat
         /\ allowed \in [0..Window - 1 -> Nat]
         /\ \A k \in 0..Window : Recent(allowed, k) \in Nat
         /\ SumFunction(allowed) = Recent(allowed, Window)
         /\ SumFunction(allowed) \in Nat
<1>1. Window \in Nat /\ Window - 1 \in Nat
  BY TenantConstants
<1>2. allowed \in [0..Window - 1 -> Nat]
  BY DEF TypeOK
<1>3. (\A k \in 0..Window : Recent(allowed, k) \in Nat)
      /\ SumFunction(allowed) = Recent(allowed, Window)
  BY <1>1, <1>2, RecentFacts
<1>4. Window \in 0..Window
  BY <1>1
<1>. QED
  BY <1>1, <1>2, <1>3, <1>4

(* Nothing more is let through.                                            *)
LEMMA TwoKeysKeeps ==
  ASSUME TypeOK, TwoKeys, count' \in Nat, count' >= count,
         allowed' = allowed, ttl' = ttl \/ ttl' = Window
  PROVE  TwoKeys'
<1>1. PICK b \in 1..Window : Since(b)
  BY DEF TwoKeys
<1>2. b \in 0..Window
  OBVIOUS
<1>3. Since(b)'
  BY <1>1, <1>2, AllowedSums DEF Since, TypeOK
<1>. QED
  BY <1>3 DEF TwoKeys

LEMMA TwoKeysExecute ==
  ASSUME TypeOK, TwoKeys, NEW w \in Worker, Execute(w)
  PROVE  TwoKeys'
<1>0. /\ Ceiling \in Nat /\ Ceiling > MaxRequests /\ MaxRequests \in Nat /\ Window \in Nat \ {0}
      /\ count \in 0..Ceiling
  BY TrustingFinite, TenantConstants DEF Ceiling, TypeOK
<1>1. /\ count' = (IF count < Ceiling THEN count + 1 ELSE count)
      /\ ttl' = ttl \/ ttl' = Window
      /\ allowed' = IF Over(count') THEN allowed ELSE [allowed EXCEPT ![0] = @ + 1]
  BY DEF Execute, Increment, Span
<1>2. CASE Over(count')
  <2>1. count' \in Nat /\ count' >= count
    BY <1>0, <1>1
  <2>. QED
    BY <1>1, <1>2, <2>1, TwoKeysKeeps
<1>3. CASE ~ Over(count')
  <2>1. count' = count + 1 /\ count' <= MaxRequests
    BY <1>0, <1>1, <1>3 DEF Over
  <2>2. allowed' = [allowed EXCEPT ![0] = @ + 1]
    BY <1>1, <1>3
  <2>3. PICK b \in 1..Window : Since(b)
    BY DEF TwoKeys
  <2>4. b \in 0..Window /\ Window \in 1..Window
    BY <1>0
  <2>5. Recent(allowed', b) = Recent(allowed, b) + 1
    BY <1>0, <2>2, AllowedSums, RecentIncrement
  <2>6. Recent(allowed', Window) = Recent(allowed, Window) + 1
    BY <1>0, <2>2, <2>4, AllowedSums, RecentIncrement
  <2>7. SumFunction(allowed') = Recent(allowed', Window)
    <3>1. allowed' \in [0..Window - 1 -> Nat]
      BY <2>2, AllowedSums
    <3>. QED
      BY <1>0, <3>1, RecentFacts
  <2>8. Recent(allowed, b) \in Nat /\ SumFunction(allowed) \in Nat
    BY <2>4, AllowedSums
  <2>9. SumFunction(allowed') = SumFunction(allowed) + 1
    BY <2>6, <2>7, AllowedSums
  <2>10. Since(b)'
    BY <1>0, <1>1, <2>1, <2>3, <2>5, <2>8, <2>9 DEF Since
  <2>. QED
    BY <2>10 DEF TwoKeys
<1>. QED
  BY <1>2, <1>3

(* While the key lives the ticks since the one before it are one more; if  *)
(* it expires, all that was let through in the window was counted by it.   *)
LEMMA TwoKeysTick ==
  ASSUME TypeOK, TwoKeys, Tick
  PROVE  TwoKeys'
<1>0. /\ MaxRequests \in Nat /\ Window \in Nat \ {0} /\ Window \in Nat
      /\ count \in Nat /\ ttl \in 0..Window
  BY TrustingFinite, TenantConstants DEF Ceiling, TypeOK
<1>1. allowed' = Older(allowed, Window)
  BY DEF Tick, Older
<1>2. /\ ttl' = IF ttl > 0 THEN ttl - 1 ELSE 0
      /\ count' = IF ttl = 1 THEN 0 ELSE count
  BY DEF Tick
<1>3. allowed' \in [0..Window - 1 -> Nat]
  BY <1>0, <1>1, AllowedSums DEF Older
<1>4. \A k \in 0..Window - 1 : Recent(allowed', k + 1) = Recent(allowed, k)
  BY <1>0, <1>1, AllowedSums, RecentOlder
<1>. DEFINE l == Window - 1
<1>5. /\ l \in 0..l /\ l \in 0..Window /\ Window \in 0..Window /\ l + 1 = Window /\ l <= Window
      /\ 0 \in 0..l
  BY <1>0
<1>6. SumFunction(allowed') = Recent(allowed, l)
  <2>1. SumFunction(allowed') = Recent(allowed', Window)
    BY <1>0, <1>3, RecentFacts
  <2>2. Recent(allowed', l + 1) = Recent(allowed, l)
    BY <1>4, <1>5
  <2>. QED
    BY <1>5, <2>1, <2>2
<1>7. Recent(allowed, l) <= Recent(allowed, Window)
  BY <1>0, <1>5, AllowedSums, RecentMonotone
<1>8. /\ Recent(allowed, l) \in Nat
      /\ Recent(allowed, Window) = SumFunction(allowed) /\ SumFunction(allowed) \in Nat
  BY <1>5, AllowedSums
<1>9. PICK b \in 1..Window : Since(b)
  BY DEF TwoKeys
<1>10. b \in 0..Window /\ Recent(allowed, b) \in Nat
  BY AllowedSums
<1>11. CASE ttl = 1
  <2>1. b = Window
    BY <1>0, <1>9, <1>11 DEF Since
  <2>2. Recent(allowed', 0 + 1) = 0
    <3>1. Recent(allowed, 0) = 0
      BY <1>0, AllowedSums, RecentFacts
    <3>. QED
      BY <1>4, <1>5, <3>1
  <2>3. Recent(allowed', 1) = 0
    BY <2>2
  <2>4. SumFunction(allowed') <= MaxRequests /\ SumFunction(allowed') \in Nat
    BY <1>0, <1>6, <1>7, <1>8, <1>9, <2>1 DEF Since
  <2>5. count' = 0 /\ ttl' = 0
    BY <1>2, <1>11
  <2>6. Since(1)'
    BY <1>0, <2>3, <2>4, <2>5 DEF Since
  <2>7. 1 \in 1..Window
    BY <1>0
  <2>. QED
    BY <2>6, <2>7 DEF TwoKeys
<1>12. CASE ttl # 1
  <2>1. count' = count /\ (ttl' > 0 => ttl > 0 /\ ttl = ttl' + 1) /\ ttl' \in Nat
    BY <1>0, <1>2, <1>12
  <2>2. CASE b = Window
    <3>1. Recent(allowed', Window) = Recent(allowed, l)
      BY <1>4, <1>5
    <3>2. Since(Window)'
      <4>. HIDE DEF l
      <4>1. Recent(allowed, l) <= count /\ Recent(allowed, l) <= MaxRequests
        BY <1>0, <1>7, <1>8, <1>9, <2>2 DEF Since
      <4>2. ttl' > 0 => Window > Window - ttl'
        <5>1. \A x \in Nat : x > 0 => Window > Window - x
          BY <1>0
        <5>2. ttl' \in Nat
          BY <2>1
        <5>. QED
          BY <5>1, <5>2
      <4>3. SumFunction(allowed') <= Recent(allowed', Window) + MaxRequests
        BY <1>0, <1>6, <1>8, <3>1
      <4>. QED
        BY <2>1, <3>1, <4>1, <4>2, <4>3 DEF Since
    <3>3. Window \in 1..Window
      BY <1>0
    <3>. QED
      BY <3>2, <3>3 DEF TwoKeys
  <2>3. CASE b # Window
    <3>1. b \in 0..Window - 1 /\ b + 1 \in 1..Window
      BY <1>0, <2>3
    <3>2. Recent(allowed', b + 1) = Recent(allowed, b)
      BY <1>4, <3>1
    <3>. DEFINE c == b + 1
    <3>. HIDE DEF l
    <3>3. Since(c)'
      <4>1. Recent(allowed', c) <= count'
        BY <1>9, <2>1, <3>2 DEF Since
      <4>2. Recent(allowed', c) <= MaxRequests
        BY <1>9, <3>2 DEF Since
      <4>3. SumFunction(allowed') <= Recent(allowed', c) + MaxRequests
        BY <1>0, <1>6, <1>7, <1>8, <1>9, <1>10, <3>2 DEF Since
      <4>4. ttl' > 0 => c > Window - ttl'
        <5>1. ttl' > 0 => b > Window - ttl /\ ttl = ttl' + 1
          BY <1>9, <2>1 DEF Since
        <5>2. ASSUME NEW x \in Nat, NEW y \in Nat, x > 0 => b > Window - y /\ y = x + 1
              PROVE  x > 0 => c > Window - x
          BY <1>0, <5>2
        <5>3. ttl \in Nat /\ ttl' \in Nat
          BY <1>0, <2>1
        <5>. HIDE DEF c
        <5>. QED
          BY <5>1, <5>2, <5>3
      <4>. QED
        BY <4>1, <4>2, <4>3, <4>4 DEF Since
    <3>. QED
      BY <3>1, <3>3 DEF TwoKeys
  <2>. QED
    BY <2>2, <2>3
<1>. QED
  BY <1>11, <1>12

(* The invariant: two keys at most have counted what is let through in a   *)
(* window.                                                                 *)
THEOREM TwoKeysCount == Spec => []TwoKeys
<1>1. Init => TwoKeys
  <2>. SUFFICES ASSUME Init PROVE TwoKeys
    OBVIOUS
  <2>. DEFINE p == [k \in 0..Window |-> 0]
  <2>1. Window \in Nat \ {0} /\ MaxRequests \in Nat /\ Window \in 0..Window /\ Window \in 1..Window
    BY TenantConstants
  <2>2. allowed \in [0..Window - 1 -> Nat] /\ \A k \in 0..Window - 1 : allowed[k] = 0
    BY DEF Init
  <2>3. PartialSums(p, allowed, Window)
    BY <2>1, <2>2 DEF PartialSums
  <2>4. Recent(allowed, Window) = p[Window]
    BY <2>1, <2>2, <2>3, RecentIsPartialSum
  <2>5. Recent(allowed, Window) = 0
    BY <2>1, <2>4
  <2>6. SumFunction(allowed) = 0
    BY <2>1, <2>2, <2>5, RecentFacts
  <2>7. Since(Window)
    BY <2>1, <2>5, <2>6 DEF Since, Init
  <2>. QED
    BY <2>1, <2>7 DEF TwoKeys
<1>2. TypeOK /\ TwoKeys /\ [Next]_vars => TwoKeys'
  <2>. SUFFICES ASSUME TypeOK, TwoKeys, [Next]_vars PROVE TwoKeys'
    OBVIOUS
  <2>0. count \in Nat /\ Ceiling \in Nat
    BY TrustingFinite, TenantConstants DEF Ceiling, TypeOK
  <2>1. ASSUME NEW w \in Worker, Arrive(w) \/ Fail(w) PROVE TwoKeys'
    BY <2>0, <2>1, TwoKeysKeeps DEF Arrive, Fail, redisVars
  <2>2. ASSUME NEW w \in Worker, Execute(w) PROVE TwoKeys'
    BY <2>2, TwoKeysExecute
  <2>3. ASSUME NEW w \in Worker, LoseAnswer(w) PROVE TwoKeys'
    <3>1. count' \in Nat /\ count' >= count /\ (ttl' = ttl \/ ttl' = Window)
      BY <2>0, <2>3 DEF LoseAnswer, Increment, Span
    <3>. QED
      BY <2>3, <3>1, TwoKeysKeeps DEF LoseAnswer
  <2>4. ASSUME Tick PROVE TwoKeys'
    BY <2>4, TwoKeysTick
  <2>5. ASSUME UNCHANGED vars PROVE TwoKeys'
    BY <2>0, <2>5, TwoKeysKeeps DEF vars, redisVars
  <2>. QED
    BY <2>1, <2>2, <2>3, <2>4, <2>5 DEF Next, Step
<1>. QED
  BY <1>1, <1>2, TypeCorrect, PTL DEF Spec

(* In any window, wherever it begins, at most twice the maximum is let     *)
(* through: the window of the counter is fixed, not sliding, and the       *)
(* workers' delays do not let a third key into it.                         *)
(* tenant_limits.py:46-73.                                                 *)
THEOREM AtMostTwice == Spec => []AtMostTwiceTheMaximum
<1>1. TypeOK /\ TwoKeys => AtMostTwiceTheMaximum
  <2>. SUFFICES ASSUME TypeOK, TwoKeys PROVE AtMostTwiceTheMaximum
    OBVIOUS
  <2>1. PICK b \in 1..Window : Since(b)
    BY DEF TwoKeys
  <2>2. b \in 0..Window
    OBVIOUS
  <2>3. Recent(allowed, b) \in Nat /\ SumFunction(allowed) \in Nat /\ MaxRequests \in Nat
    BY <2>2, AllowedSums, TenantConstants
  <2>. QED
    BY <2>1, <2>3 DEF Since, AtMostTwiceTheMaximum
<1>. QED
  BY <1>1, TwoKeysCount, TypeCorrect, PTL

-----------------------------------------------------------------------------
(* Towards CountersRunOut: while a counter has a time to live, requests    *)
(* leave it alone, but those that had found none: each sets it once more,  *)
(* at most, and none joins them.                                           *)
Renewing == {w \in Worker : pc[w] = "execute" /\ expire[w]}

CountersRunDown ==
  [][ttl > 0 /\ count' > 0
       => \/ Renewing' \subseteq Renewing /\ Renewing' # Renewing
          \/ Renewing' = Renewing /\ ttl' = IF Tick THEN ttl - 1 ELSE ttl]_vars

(* A window is not extended by the requests it refuses: the time to live   *)
(* is set with the first request only.  tenant_limits.py:46-73.            *)
THEOREM CountersOnlyRunDown == Spec => CountersRunDown
<1>. DEFINE Down == \/ Renewing' \subseteq Renewing /\ Renewing' # Renewing
                    \/ Renewing' = Renewing /\ ttl' = IF Tick THEN ttl - 1 ELSE ttl
            A == ttl > 0 /\ count' > 0 => Down
<1>1. ASSUME TypeOK, Next, ttl > 0, count' > 0 PROVE Down
  <2>. USE <1>1 DEF TypeOK, Renewing, redisVars, workerVars
  <2>0. ttl \in 0..Window /\ Window \in Nat
    BY TenantConstants
  <2>1. Tick => ttl' = ttl - 1 /\ Renewing' = Renewing
    BY <2>0 DEF Tick
  <2>2. ASSUME Renewing' = Renewing, ttl' = ttl PROVE Down
    <3>1. ~ Tick
      BY <2>0, <2>1, <2>2
    <3>. QED
      BY <2>2, <3>1
  <2>3. ASSUME NEW w \in Worker, Arrive(w) PROVE Down
    <3>1. ~ NoTtl
      BY <2>0 DEF NoTtl
    <3>2. Renewing' = Renewing
      BY <2>3, <3>1 DEF Arrive
    <3>. QED
      BY <2>2, <2>3, <3>2 DEF Arrive
  <2>4. ASSUME NEW w \in Worker, w \in Renewing, Idle(w) PROVE Down
    <3>1. Renewing' = Renewing \ {w}
      BY <2>4 DEF Idle
    <3>. QED
      BY <2>4, <3>1
  <2>5. ASSUME NEW w \in Worker, w \notin Renewing, Idle(w), ttl' = ttl PROVE Down
    <3>1. Renewing' = Renewing
      BY <2>5 DEF Idle
    <3>. QED
      BY <2>2, <2>5, <3>1
  <2>6. ASSUME NEW w \in Worker, pc[w] = "execute", Idle(w), Increment(w) \/ ttl' = ttl
        PROVE  Down
    <3>1. expire[w] \in BOOLEAN
      OBVIOUS
    <3>2. CASE expire[w]
      BY <2>4, <2>6, <3>2
    <3>3. CASE ~ expire[w]
      BY <2>5, <2>6, <3>3 DEF Increment
    <3>. QED
      BY <3>1, <3>2, <3>3
  <2>7. ASSUME NEW w \in Worker, Execute(w) \/ LoseAnswer(w) \/ Fail(w) PROVE Down
    BY <2>6, <2>7 DEF Execute, LoseAnswer, Fail
  <2>8. ASSUME Tick PROVE Down
    BY <2>1, <2>8
  <2>. HIDE DEF Down
  <2>. QED
    BY <2>3, <2>7, <2>8 DEF Next, Step
<1>. HIDE DEF Down
<1>2. TypeOK /\ [Next]_vars => [A]_vars
  BY <1>1
<1>. USE DEF Down
<1>. QED
  BY <1>2, TypeCorrect, PTL DEF Spec, CountersRunDown
-----------------------------------------------------------------------------
(* What a step of the API is to TenantLimit.                               *)
LEMMA ApiStepCounts ==
  ASSUME [ApiNext]_allVars
  PROVE  [Next]_vars
<1>. USE DEF Next, Step
<1>1. ASSUME NEW w \in Worker, NEW header, NEW path, TenantEcho(w, header, path)
      PROVE  [Next]_vars
  BY <1>1 DEF TenantEcho
<1>2. ASSUME NEW w \in Worker,
             OtherRoute(w) \/ Echo(w) \/ RedisFails(w) \/ Scrape(w) \/ Restart(w)
      PROVE  [Next]_vars
  BY <1>2 DEF OtherRoute, Echo, RedisFails, Scrape, Restart
<1>3. ASSUME ApiTick PROVE [Next]_vars
  BY <1>3 DEF ApiTick
<1>4. ASSUME UNCHANGED allVars PROVE [Next]_vars
  BY <1>4 DEF allVars
<1>. QED
  BY <1>1, <1>2, <1>3, <1>4 DEF ApiNext, ApiStep

(* The API's processes do to Redis what TenantLimit says, whatever routes  *)
(* they serve, and wherever they are restarted.                            *)
THEOREM ApiImplementsTenantLimit == ApiSpec => Spec
<1>1. ApiInit => Init
  BY DEF ApiInit
<1>2. [ApiNext]_allVars => [Next]_vars
  BY ApiStepCounts
<1>. QED
  BY <1>1, <1>2, PTL DEF ApiSpec, Spec

(* So a counter without a time to live counts at most one request of each  *)
(* process also when processes are restarted with a transaction in flight. *)
THEOREM ApiCountersAreSmall == ApiSpec => []UnexpiringCounterIsSmall
BY ApiImplementsTenantLimit, UnexpiringCountersAreSmall, PTL

(* The process scraped last has observed at least what it showed.          *)
ScrapeIsPast ==
  \A w \in Worker : scrape.process = w => scrape.total <= seen[w]

ApiIInv == ApiTypeOK /\ ScrapeIsPast

LEMMA ApiTypeNext == ApiTypeOK /\ [ApiNext]_allVars => ApiTypeOK'
<1>. SUFFICES ASSUME ApiTypeOK, [ApiNext]_allVars PROVE ApiTypeOK'
  OBVIOUS
<1>1. TypeOK'
  BY ApiStepCounts, TypeNext DEF ApiTypeOK
<1>2. Ceiling \in Nat /\ 0 \in 0..Window - 1
  BY TrustingFinite, TenantConstants DEF Ceiling
<1>. USE ApiConstants DEF ApiTypeOK
<1>3. ASSUME NEW w \in Worker, Observe(w) PROVE seen' \in [Worker -> 0..MaxServed]
  BY <1>3 DEF Observe
<1>4. ASSUME NEW w \in Worker, Record(w)
      PROVE  counted' \in [0..Window - 1 -> 0..Ceiling] /\ extended' \in BOOLEAN
  <2>1. counted' \in [0..Window - 1 -> 0..Ceiling]
    BY <1>2, <1>4 DEF Record
  <2>2. extended' \in BOOLEAN
    BY <1>4, Zenon DEF Record
  <2>. QED
    BY <2>1, <2>2
<1>5. ASSUME NEW w \in Worker, NEW header, NEW path, TenantEcho(w, header, path)
      PROVE  ApiTypeOK'
  BY <1>1, <1>3, <1>5 DEF TenantEcho, Respond
<1>6. ASSUME NEW w \in Worker, OtherRoute(w) PROVE ApiTypeOK'
  BY <1>1, <1>3, <1>6 DEF OtherRoute, Respond, Raise
<1>7. ASSUME NEW w \in Worker, Echo(w) PROVE ApiTypeOK'
  BY <1>1, <1>3, <1>4, <1>7 DEF Echo, Respond
<1>8. ASSUME NEW w \in Worker, RedisFails(w) PROVE ApiTypeOK'
  BY <1>1, <1>3, <1>4, <1>8 DEF RedisFails, Raise
<1>9. ASSUME NEW w \in Worker, Scrape(w) PROVE ApiTypeOK'
  BY <1>1, <1>3, <1>9 DEF Scrape
<1>10. ASSUME NEW w \in Worker, Restart(w) PROVE ApiTypeOK'
  <2>1. seen' \in [Worker -> 0..MaxServed]
    BY <1>10 DEF Restart
  <2>2. scrape' \in [process : Worker \cup {NoProcess}, total : 0..MaxServed]
    BY <1>10 DEF Restart, NoScrape
  <2>. QED
    BY <1>1, <1>4, <1>10, <2>1, <2>2 DEF Restart
<1>11. ASSUME ApiTick PROVE ApiTypeOK'
  <2>1. counted' \in [0..Window - 1 -> 0..Ceiling]
    BY <1>2, <1>11, TenantConstants DEF ApiTick
  <2>. QED
    BY <1>1, <1>11, <2>1 DEF ApiTick
<1>12. ASSUME UNCHANGED allVars PROVE ApiTypeOK'
  BY <1>1, <1>12 DEF allVars
<1>. QED
  BY <1>5, <1>6, <1>7, <1>8, <1>9, <1>10, <1>11, <1>12 DEF ApiNext, ApiStep

(* Observed requests are only added, a scrape shows them, and a restart    *)
(* forgets both.                                                           *)
LEMMA ScrapeNext ==
  ASSUME ApiIInv, [ApiNext]_allVars
  PROVE  /\ ScrapeIsPast'
         /\ scrape'.total < scrape.total => scrape'.process # scrape.process
<1>. USE ApiConstants DEF ApiIInv, ApiTypeOK, ScrapeIsPast
<1>1. ASSUME NEW w \in Worker, Respond(w) \/ Raise(w)
      PROVE  ScrapeIsPast' /\ scrape' = scrape
  BY <1>1 DEF Respond, Raise, Observe
<1>2. ASSUME NEW w \in Worker, Scrape(w)
      PROVE  ScrapeIsPast' /\ (scrape.process = w => scrape'.total >= scrape.total)
  BY <1>2 DEF Scrape, Observe
<1>3. ASSUME NEW w \in Worker, Restart(w)
      PROVE  ScrapeIsPast' /\ (scrape' = scrape \/ scrape.process # scrape'.process)
  BY <1>3 DEF Restart, NoScrape
<1>4. ASSUME UNCHANGED <<seen, scrape>> PROVE ScrapeIsPast' /\ scrape' = scrape
  BY <1>4
<1>5. CASE \E w \in Worker : Respond(w) \/ Raise(w)
  BY <1>1, <1>5
<1>6. CASE \E w \in Worker : Scrape(w)
  BY <1>2, <1>6 DEF Scrape
<1>7. CASE \E w \in Worker : Restart(w)
  BY <1>3, <1>7
<1>8. CASE UNCHANGED <<seen, scrape>>
  BY <1>4, <1>8
<1>. QED
  BY <1>5, <1>6, <1>7, <1>8
     DEF ApiNext, ApiStep, TenantEcho, OtherRoute, Echo, RedisFails, ApiTick, allVars

(* The processes' counters and the histories stay within their bounds.     *)
(* metrics.py:8-26.                                                        *)
THEOREM ApiInductive == ApiSpec => []ApiIInv
<1>1. ApiInit => ApiIInv
  <2>1. Ceiling \in Nat
    BY TrustingFinite, TenantConstants DEF Ceiling
  <2>2. ApiInit => TypeOK
    BY <2>1, TenantConstants DEF ApiInit, Init, TypeOK
  <2>3. ApiInit => ApiTypeOK
    <3>1. ApiInit => scrape \in [process : Worker \cup {NoProcess}, total : 0..MaxServed]
      BY ApiConstants DEF ApiInit, NoScrape
    <3>2. ApiInit => counted \in [0..Window - 1 -> 0..Ceiling]
      BY <2>1 DEF ApiInit
    <3>3. ApiInit => seen \in [Worker -> 0..MaxServed]
      <4>1. 0 \in 0..MaxServed
        BY ApiConstants
      <4>. QED
        BY <4>1 DEF ApiInit
    <3>4. ApiInit => extended \in BOOLEAN
      BY Zenon DEF ApiInit
    <3>. QED
      BY <2>2, <3>1, <3>2, <3>3, <3>4 DEF ApiTypeOK
  <2>4. ApiInit => ScrapeIsPast
    BY ApiConstants DEF ApiInit, ScrapeIsPast, NoScrape
  <2>. QED
    BY <2>3, <2>4 DEF ApiIInv
<1>2. ApiIInv /\ [ApiNext]_allVars => ApiIInv'
  BY ApiTypeNext, ScrapeNext DEF ApiIInv
<1>. QED
  BY <1>1, <1>2, PTL DEF ApiSpec

(* What a scrape of requests_total shows falls only if another process     *)
(* answers, or the process was restarted.  metrics.py:37-76.               *)
THEOREM CountersArePerProcess == ApiSpec => CountersFallOnlyAcrossProcesses
<1>1. ApiIInv /\ [ApiNext]_allVars
        => [scrape'.total < scrape.total => scrape'.process # scrape.process]_allVars
  BY ScrapeNext
<1>. QED
  BY <1>1, ApiInductive, PTL DEF ApiSpec, CountersFallOnlyAcrossProcesses
-----------------------------------------------------------------------------
(* So at most twice the maximum gets past a tenant's limit in a window     *)
(* also when processes are restarted and answers lost.                     *)
THEOREM ApiAtMostTwice == ApiSpec => []AtMostTwiceTheMaximum
BY ApiImplementsTenantLimit, AtMostTwice, PTL

(* Nor is it by what the processes answer, or by their restarts.           *)
THEOREM ApiCountersOnlyRunDown == ApiSpec => CountersRunDown
BY ApiImplementsTenantLimit, CountersOnlyRunDown, PTL

(* In how many ticks a key with a time to live of t was counted, the one   *)
(* in which it was given it included.                                      *)
Age(t) == Window - t + 1

LEMMA Ages ==
  ASSUME NEW t \in 0..Window, t # 0
  PROVE  /\ Age(t) \in 1..Window /\ Age(t) \in 0..Window /\ Age(t) <= Window
         /\ t > 1 => Age(t) \in 0..Window - 1 /\ Age(t - 1) = Age(t) + 1
BY TenantConstants DEF Age

(* A counter that was given its time to live once has counted requests of  *)
(* no window but its own, and at most one of each worker from before.      *)
Earned ==
  ttl > 0 /\ ~ extended
    => count <= Cardinality(Worker) + Recent(counted, Age(ttl))

LEMMA CountedSums ==
  ASSUME ApiTypeOK
  PROVE  /\ Window \in Nat \ {0} /\ MaxRequests \in Nat /\ Ceiling \in Nat
         /\ Cardinality(Worker) \in Nat
         /\ count \in 0..Ceiling /\ ttl \in 0..Window
         /\ counted \in [0..Window - 1 -> Nat]
         /\ counted[0] \in 0..Ceiling
         /\ \A k \in 0..Window : Recent(counted, k) \in Nat
         /\ Recent(counted, 1) = counted[0]
         /\ \A k \in 1..Window : Recent(counted, 1) <= Recent(counted, k)
<1>1. /\ Window \in Nat \ {0} /\ MaxRequests \in Nat /\ Ceiling \in Nat
      /\ Cardinality(Worker) \in Nat
      /\ count \in 0..Ceiling /\ ttl \in 0..Window
  BY TrustingFinite, TenantConstants DEF Ceiling, ApiTypeOK, TypeOK
<1>2. counted \in [0..Window - 1 -> Nat] /\ counted[0] \in 0..Ceiling
  BY <1>1 DEF ApiTypeOK
<1>3. /\ \A k \in 0..Window : Recent(counted, k) \in Nat
      /\ Recent(counted, 0) = 0
      /\ \A k \in 0..Window - 1 : Recent(counted, k + 1) = Recent(counted, k) + counted[k]
  BY <1>1, <1>2, RecentFacts
<1>4. Recent(counted, 1) = counted[0]
  <2>1. 0 \in 0..Window - 1
    BY <1>1
  <2>2. Recent(counted, 0 + 1) = Recent(counted, 0) + counted[0]
    BY <1>3, <2>1
  <2>. QED
    BY <1>2, <1>3, <2>2
<1>5. \A k \in 1..Window : Recent(counted, 1) <= Recent(counted, k)
  BY <1>1, <1>2, RecentMonotone
<1>. QED
  BY <1>1, <1>2, <1>3, <1>4, <1>5

(* A request is counted by Redis and in the history.                       *)
LEMMA EarnedRecord ==
  ASSUME ApiTypeOK, UnexpiringOK, Earned, NEW w \in Worker, Increment(w), Record(w)
  PROVE  Earned'
<1>. SUFFICES ASSUME ttl' > 0, ~ extended'
              PROVE  count' <= Cardinality(Worker) + Recent(counted', Age(ttl'))
  BY DEF Earned
<1>0. expire[w] \in BOOLEAN
  BY DEF ApiTypeOK, TypeOK
<1>1. /\ count' \in 0..Ceiling /\ count' <= count + 1
      /\ ttl' = IF expire[w] THEN Window ELSE ttl
  BY CountedSums DEF Increment, Span
<1>. DEFINE k == Age(ttl')
<1>2. k \in 1..Window /\ k \in 0..Window
  <2>1. ttl' \in 0..Window /\ ttl' # 0
    BY <1>1, CountedSums
  <2>. QED
    BY <2>1, Ages
<1>3. CASE counted[0] >= Ceiling
  <2>1. counted' = counted
    BY <1>3, CountedSums DEF Record
  <2>2. counted[0] <= Recent(counted, k) /\ Recent(counted, k) \in Nat
    BY <1>2, CountedSums
  <2>. HIDE DEF k
  <2>. QED
    BY <1>1, <1>3, <2>1, <2>2, CountedSums DEF k
<1>4. CASE counted[0] < Ceiling
  <2>1. counted' = [counted EXCEPT ![0] = @ + 1]
    BY <1>4, CountedSums DEF Record
  <2>2. Recent(counted', k) = Recent(counted, k) + 1 /\ Recent(counted, k) \in Nat
    BY <1>2, <2>1, CountedSums, RecentIncrement
  <2>3. count <= Cardinality(Worker) + Recent(counted, k)
    <3>1. CASE expire[w]
      <4>1. ttl = 0
        BY <3>1 DEF Record
      <4>2. count <= Cardinality(Worker)
        BY <4>1, CountedSums, TrustingFinite DEF UnexpiringOK
      <4>. HIDE DEF k
      <4>. QED
        BY <2>2, <4>2, CountedSums
    <3>2. CASE ~ expire[w]
      <4>1. ttl' = ttl /\ ~ extended
        BY <1>1, <3>2 DEF Record
      <4>2. k = Age(ttl) /\ ttl > 0
        BY <4>1
      <4>. HIDE DEF k
      <4>. QED
        BY <4>1, <4>2 DEF Earned
    <3>. QED
      BY <1>0, <3>1, <3>2
  <2>. HIDE DEF k
  <2>4. count' <= Cardinality(Worker) + Recent(counted', k)
    BY <1>1, <2>2, <2>3, CountedSums
  <2>. QED
    BY <2>4 DEF k
<1>. QED
  BY <1>3, <1>4, CountedSums

LEMMA EarnedTick ==
  ASSUME ApiTypeOK, Earned, ApiTick
  PROVE  Earned'
<1>. SUFFICES ASSUME ttl' > 0, ~ extended'
              PROVE  count' <= Cardinality(Worker) + Recent(counted', Age(ttl'))
  BY DEF Earned
<1>. DEFINE k == Age(ttl)
<1>1. ttl > 1 /\ ttl > 0 /\ ttl' = ttl - 1 /\ ttl' # 0 /\ count' = count
  <2>1. /\ ttl' = IF ttl > 0 THEN ttl - 1 ELSE 0
        /\ count' = IF ttl = 1 THEN 0 ELSE count
    BY DEF ApiTick, Tick
  <2>. QED
    BY <2>1, CountedSums
<1>0. ~ extended
  BY <1>1, Zenon DEF ApiTick
<1>2. k \in 0..Window - 1 /\ Age(ttl') = k + 1
  <2>1. ttl \in 0..Window /\ ttl # 0
    BY <1>1, CountedSums
  <2>. QED
    BY <1>1, <2>1, Ages
<1>3. counted' = Older(counted, Window)
  BY DEF ApiTick, Older
<1>4. Recent(counted', k + 1) = Recent(counted, k)
  BY <1>2, <1>3, CountedSums, RecentOlder
<1>5. count <= Cardinality(Worker) + Recent(counted, k)
  BY <1>0, <1>1, Zenon DEF Earned
<1>. HIDE DEF k
<1>. QED
  BY <1>1, <1>2, <1>4, <1>5

LEMMA EarnedNext ==
  ASSUME ApiTypeOK, UnexpiringOK, Earned, [ApiNext]_allVars
  PROVE  Earned'
<1>1. ASSUME UNCHANGED <<redisVars, counted, extended>> PROVE Earned'
  BY <1>1 DEF Earned, redisVars
<1>2. ASSUME NEW w \in Worker, Increment(w), Record(w) PROVE Earned'
  BY <1>2, EarnedRecord
<1>3. ASSUME NEW w \in Worker, NEW header, NEW path, TenantEcho(w, header, path)
      PROVE  Earned'
  BY <1>1, <1>3 DEF TenantEcho, Arrive, vars
<1>4. ASSUME NEW w \in Worker, OtherRoute(w) \/ Scrape(w) PROVE Earned'
  BY <1>1, <1>4 DEF OtherRoute, Scrape, vars
<1>5. ASSUME NEW w \in Worker, Echo(w) PROVE Earned'
  BY <1>2, <1>5 DEF Echo, Execute
<1>6. ASSUME NEW w \in Worker, RedisFails(w) \/ Restart(w) PROVE Earned'
  BY <1>1, <1>2, <1>6 DEF RedisFails, Restart, Fail, LoseAnswer, vars
<1>7. ASSUME ApiTick PROVE Earned'
  BY <1>7, EarnedTick
<1>8. ASSUME UNCHANGED allVars PROVE Earned'
  BY <1>1, <1>8 DEF allVars, vars
<1>. QED
  BY <1>3, <1>4, <1>5, <1>6, <1>7, <1>8 DEF ApiNext, ApiStep

(* What is counted was earned.                                             *)
THEOREM CountsAreEarned == ApiSpec => []Earned
<1>1. ApiInit => Earned
  BY DEF ApiInit, Init, Earned
<1>2. ApiIInv /\ IInv /\ Earned /\ [ApiNext]_allVars => Earned'
  BY EarnedNext DEF ApiIInv, IInv
<1>. QED
  BY <1>1, <1>2, ApiInductive, ApiImplementsTenantLimit, Inductive, PTL DEF ApiSpec

(* A 429 means that the requests of the last window exceed the maximum,    *)
(* but for one of each process; unless two processes have both set the     *)
(* counter's time to live.  tenant_limits.py:46-73, tenant_limits.py:99.   *)
THEOREM RefusedWhenEarned == ApiSpec => RefusalsAreEarned
<1>1. ASSUME ApiTypeOK', IInv', Earned', NEW w \in Worker, Over(count'), ~ extended'
      PROVE  SumFunction(counted') > MaxRequests - Cardinality(Worker)
  <2>. DEFINE N == Cardinality(Worker)
              sum == SumFunction(counted')
              k == Age(ttl')
  <2>1. /\ Window \in Nat \ {0} /\ MaxRequests \in Nat /\ N \in Nat
        /\ count' \in Nat /\ ttl' \in 0..Window
        /\ counted' \in [0..Window - 1 -> Nat]
    BY <1>1, CountedSums, TrustingFinite, TenantConstants DEF ApiTypeOK, TypeOK, Ceiling
  <2>2. count' > MaxRequests
    BY <1>1 DEF Over
  <2>3. sum = Recent(counted', Window) /\ sum \in Nat
    <3>1. Window \in 0..Window
      BY <2>1
    <3>. QED
      BY <2>1, <3>1, RecentFacts
  <2>4. CASE ttl' = 0
    <3>1. count' <= N
      <4>1. Trusting' \in SUBSET Worker /\ Cardinality(Trusting') \in Nat
        <5>1. Trusting' \in SUBSET Worker
          BY DEF Trusting
        <5>. QED
          BY <5>1, TenantConstants, FS_Subset, FS_CardinalityType
      <4>2. count' + Cardinality(Trusting') <= N
        BY <1>1, <2>1, <2>2, <2>4 DEF IInv, UnexpiringOK
      <4>. QED
        BY <2>1, <4>1, <4>2
    <3>. HIDE DEF sum, N
    <3>2. sum > MaxRequests - N
      BY <2>1, <2>2, <2>3, <3>1
    <3>. QED
      BY <3>2 DEF sum, N
  <2>5. CASE ttl' # 0
    <3>1. k \in 0..Window /\ Window \in 0..Window /\ k <= Window
      BY <2>1, <2>5, Ages
    <3>2. Recent(counted', k) <= sum /\ Recent(counted', k) \in Nat
      BY <2>1, <2>3, <3>1, RecentFacts, RecentMonotone
    <3>3. count' <= N + Recent(counted', k)
      BY <1>1, <2>1, <2>5 DEF Earned
    <3>. HIDE DEF sum, N, k
    <3>4. sum > MaxRequests - N
      BY <2>1, <2>2, <2>3, <3>2, <3>3
    <3>. QED
      BY <3>4 DEF sum, N
  <2>. QED
    BY <2>4, <2>5
<1>2. /\ ApiIInv' /\ IInv' /\ Earned' /\ [ApiNext]_allVars
      => [\A w \in Worker :
            Echo(w) /\ Over(count') /\ ~ extended'
              => SumFunction(counted') > MaxRequests - Cardinality(Worker)]_allVars
  BY <1>1 DEF ApiIInv
<1>. QED
  BY <1>2, ApiInductive, ApiImplementsTenantLimit, Inductive, CountsAreEarned, PTL
     DEF ApiSpec, RefusalsAreEarned
=============================================================================
