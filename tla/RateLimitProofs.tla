--------------------------- MODULE RateLimitProofs ---------------------------
(***************************************************************************)
(* Proofs about RateLimit for every number of workers, every window, every *)
(* maximum and every resolution of the clock.                              *)
(***************************************************************************)
EXTENDS RateLimit, Integers, FiniteSetTheorems, TLAPS

-----------------------------------------------------------------------------
(* Windows. A time belongs to one window, the one its bucket starts.       *)

LEMMA DivMod ==
  ASSUME NEW d \in Nat \ {0}, NEW t \in Nat
  PROVE  /\ t = d * (t \div d) + (t % d)
         /\ t \div d \in Nat /\ t % d \in 0..(d - 1)
OBVIOUS

LEMMA SameMultiple ==
  ASSUME NEW d \in Nat \ {0}, NEW p \in Int, NEW q \in Int,
         d * p < d * q + d, d * q < d * p + d
  PROVE  p = q
OBVIOUS

LEMMA MultipleMod ==
  ASSUME NEW d \in Nat \ {0}, NEW q \in Nat
  PROVE  (d * q) % d = 0
<1>. DEFINE t == d * q
<1>1. t \in Nat
  OBVIOUS
<1>. HIDE DEF t
<1>2. t = d * (t \div d) + (t % d) /\ t \div d \in Nat /\ t % d \in 0..(d - 1)
  BY <1>1, DivMod
<1>3. q = t \div d
  <2>1. d * q < d * (t \div d) + d /\ d * (t \div d) < d * q + d
    BY <1>2 DEF t
  <2>. QED
    BY <1>2, <2>1, SameMultiple
<1>4. t % d = 0
  BY <1>2, <1>3 DEF t
<1>. QED
  BY <1>4 DEF t

LEMMA WindowOfTime ==
  ASSUME NEW t \in Time
  PROVE  /\ BucketStart(t) \in Bucket
         /\ BucketStart(t) <= t /\ t < BucketStart(t) + Window
<1>1. Window \in Nat \ {0} /\ t \in Nat /\ t <= MaxTime /\ MaxTime \in Nat
  BY RateLimitConstants DEF Time
<1>2. t = Window * (t \div Window) + (t % Window) /\ t \div Window \in Nat
      /\ t % Window \in 0..(Window - 1)
  BY <1>1, DivMod
<1>3. BucketStart(t) = Window * (t \div Window)
  BY <1>1, <1>2 DEF BucketStart
<1>4. BucketStart(t) \in Nat /\ BucketStart(t) <= t /\ t < BucketStart(t) + Window
  BY <1>1, <1>2 DEF BucketStart
<1>5. BucketStart(t) % Window = 0
  BY <1>1, <1>2, <1>3, MultipleMod
<1>6. BucketStart(BucketStart(t)) = BucketStart(t)
  <2>. DEFINE b == BucketStart(t)
  <2>1. b \in Nat /\ b % Window = 0
    BY <1>4, <1>5
  <2>. HIDE DEF b
  <2>2. BucketStart(b) = b
    BY <2>1 DEF BucketStart
  <2>. QED
    BY <2>2 DEF b
<1>7. BucketStart(t) \in Time
  BY <1>1, <1>4 DEF Time
<1>. QED
  BY <1>4, <1>6, <1>7 DEF Bucket

LEMMA OneWindow ==
  ASSUME NEW t \in Time, NEW b \in Bucket, b <= t, t < b + Window
  PROVE  b = BucketStart(t)
<1>1. Window \in Nat \ {0} /\ t \in Nat /\ b \in Nat
  BY RateLimitConstants DEF Time, Bucket
<1>2. /\ t = Window * (t \div Window) + (t % Window) /\ t \div Window \in Nat
      /\ t % Window \in 0..(Window - 1)
      /\ b = Window * (b \div Window) + (b % Window) /\ b \div Window \in Nat
      /\ b % Window \in 0..(Window - 1)
  BY <1>1, DivMod
<1>3. b = Window * (b \div Window)
  BY <1>1, <1>2 DEF Bucket, BucketStart
<1>4. BucketStart(t) = Window * (t \div Window)
  BY <1>1, <1>2 DEF BucketStart
<1>5. b \div Window = t \div Window
  <2>1. /\ Window * (b \div Window) < Window * (t \div Window) + Window
        /\ Window * (t \div Window) < Window * (b \div Window) + Window
    BY <1>1, <1>2, <1>3
  <2>. QED
    BY <1>1, <1>2, <2>1, SameMultiple
<1>. QED
  BY <1>3, <1>4, <1>5

LEMMA RetryRange ==
  ASSUME NEW t \in Time
  PROVE  /\ RetryAfter(t) \in Nat
         /\ t + RetryAfter(t) * Second >= BucketStart(t) + Window
         /\ t + RetryAfter(t) * Second < BucketStart(t) + Window + Second
<1>. DEFINE left == BucketStart(t) + Window - t
            x == BucketStart(t) + Window - t + Second - 1
<1>1. /\ Window \in Nat /\ Second \in Nat \ {0} /\ t \in Nat /\ BucketStart(t) \in Nat
      /\ left \in Nat /\ left > 0 /\ x = left + Second - 1 /\ x \in Nat
      /\ BucketStart(t) + Window = t + left
  BY WindowOfTime, RateLimitConstants DEF Time, Bucket
<1>. DEFINE s == x \div Second
<1>2. RetryAfter(t) = IF s < 1 THEN 1 ELSE s
  BY DEF RetryAfter
<1>. HIDE DEF left, x
<1>3. x = Second * s + (x % Second) /\ s \in Nat /\ x % Second \in 0..(Second - 1)
  BY <1>1, DivMod
<1>. HIDE DEF s
<1>4. s >= 1
  BY <1>1, <1>3
<1>5. Second * s >= left /\ Second * s < left + Second
  BY <1>1, <1>3
<1>6. s * Second = Second * s
  BY <1>1, <1>3
<1>. QED
  BY <1>1, <1>2, <1>3, <1>4, <1>5, <1>6

-----------------------------------------------------------------------------
(* Types. A key has a time to live as long as it has a count.              *)

LEMMA TypeInit == Init => TypeOK
<1>. SUFFICES ASSUME Init PROVE TypeOK
  OBVIOUS
<1>. QED
  BY RateLimitConstants DEF Init, TypeOK, Time

LEMMA TypeNext == TypeOK /\ [Next]_vars => TypeOK'
<1>. SUFFICES ASSUME TypeOK, [Next]_vars PROVE TypeOK'
  OBVIOUS
<1>. USE RateLimitConstants DEF TypeOK, redisVars, workerVars, historyVars
<1>1. ASSUME NEW w \in Worker, Arrive(w) PROVE TypeOK'
  <2>1. ts' \in [Worker -> Time] /\ pc' \in [Worker -> {"idle", "execute"}]
    BY <1>1 DEF Arrive
  <2>2. \A v \in Worker : ts'[v] <= now
    BY <1>1 DEF Arrive, Time
  <2>. QED
    BY <1>1, <2>1, <2>2 DEF Arrive
<1>2. ASSUME NEW w \in Worker, Execute(w) PROVE TypeOK'
  <2>. DEFINE b == BucketStart(ts[w])
  <2>1. b \in Bucket /\ ts[w] \in Time
    BY WindowOfTime
  <2>2. /\ count' = [count EXCEPT ![b] = IF count[b] > MaxRequests THEN count[b] ELSE count[b] + 1]
        /\ ttl' = [ttl EXCEPT ![b] = Window]
        /\ \/ UNCHANGED historyVars
           \/ /\ allowed' = [allowed EXCEPT ![ts[w]] = allowed[ts[w]] + 1]
              /\ late' = [late EXCEPT ![b] = IF now < b + Window THEN late[b] ELSE late[b] + 1]
        /\ pc' = [pc EXCEPT ![w] = "idle"]
        /\ now' = now /\ ts' = ts
    BY <1>2 DEF Execute, Count
  <2>. HIDE DEF b
  <2>3. count' \in [Bucket -> 0..MaxRequests + 1] /\ ttl' \in [Bucket -> 0..Window]
    BY <2>1, <2>2
  <2>4. \A c \in Bucket : count'[c] > 0 <=> ttl'[c] > 0
    BY <2>1, <2>2
  <2>5. allowed' \in [Time -> Nat] /\ late' \in [Bucket -> Nat]
    BY <2>1, <2>2
  <2>. QED
    BY <2>2, <2>3, <2>4, <2>5
<1>3. ASSUME NEW w \in Worker, Fail(w) PROVE TypeOK'
  BY <1>3 DEF Fail
<1>4. CASE Tick
  <2>1. now' \in Time /\ \A w \in Worker : ts'[w] <= now'
    BY <1>4 DEF Tick, Time
  <2>2. count' \in [Bucket -> 0..MaxRequests + 1] /\ ttl' \in [Bucket -> 0..Window]
    BY <1>4 DEF Tick
  <2>3. \A b \in Bucket : count'[b] > 0 <=> ttl'[b] > 0
    BY <1>4 DEF Tick
  <2>. QED
    BY <1>4, <2>1, <2>2, <2>3 DEF Tick
<1>5. CASE UNCHANGED vars
  BY <1>5 DEF vars
<1>. QED
  BY <1>1, <1>2, <1>3, <1>4, <1>5 DEF Next

(* Keys, clocks and counters keep their types, and a key of the limiter    *)
(* never stays without a time to live.                                     *)
THEOREM TypeCorrect == Spec => []TypeOK
BY TypeInit, TypeNext, PTL DEF Spec

(* A client that waits the seconds of Retry-After arrives in the next      *)
(* window, within its first second, whatever the window, the resolution    *)
(* and the time of the refused request.                                    *)
THEOREM RetriesAreExact == Spec => []RetryAfterIsExact
<1>1. TypeOK => RetryAfterIsExact
  <2>. SUFFICES ASSUME TypeOK, NEW w \in Worker
                PROVE  LET end == BucketStart(ts[w]) + Window
                           retry == ts[w] + RetryAfter(ts[w]) * Second
                       IN  retry >= end /\ retry < end + Second
    BY DEF RetryAfterIsExact
  <2>1. ts[w] \in Time
    BY DEF TypeOK
  <2>. QED
    BY <2>1, RetryRange
<1>. QED
  BY <1>1, TypeCorrect, PTL

-----------------------------------------------------------------------------
(* The limit. Until a window is over its key outlives it, so the counter   *)
(* has counted every request that was let through.                         *)
WindowOK(b) ==
  /\ IsFiniteSet(AllowedIn(b, b + Window))
  /\ Cardinality(AllowedIn(b, b + Window)) <= MaxRequests + late[b]
  /\ now < b + Window =>
       /\ late[b] = 0
       /\ Cardinality(AllowedIn(b, b + Window)) <= count[b]
       /\ count[b] > 0 => now + ttl[b] >= b + Window

IndInv == TypeOK /\ \A b \in Bucket : WindowOK(b)

LEMMA AllowedInIs ==
  ASSUME NEW b, NEW e
  PROVE  \A x : x \in AllowedIn(b, e) <=>
           \E t \in Time : b <= t /\ t < e /\ \E n \in 1..allowed[t] : x = <<t, n>>
BY DEF AllowedIn

LEMMA LetOneIn ==
  ASSUME TypeOK, NEW t \in Time, NEW b, NEW e, b <= t, t < e,
         allowed' = [allowed EXCEPT ![t] = allowed[t] + 1]
  PROVE  /\ AllowedIn(b, e)' = AllowedIn(b, e) \cup {<<t, allowed[t] + 1>>}
         /\ <<t, allowed[t] + 1>> \notin AllowedIn(b, e)
<1>1. /\ \A u \in Time \ {t} : allowed'[u] = allowed[u]
      /\ allowed'[t] = allowed[t] + 1 /\ allowed[t] \in Nat
  BY DEF TypeOK
<1>2. 1..allowed'[t] = 1..allowed[t] \cup {allowed[t] + 1}
  BY <1>1
<1>3. \A x : x \in AllowedIn(b, e)' <=>
        \E u \in Time : b <= u /\ u < e /\ \E n \in 1..allowed'[u] : x = <<u, n>>
  BY DEF AllowedIn
<1>4. AllowedIn(b, e)' = AllowedIn(b, e) \cup {<<t, allowed[t] + 1>>}
  <2>1. ASSUME NEW x \in AllowedIn(b, e)' PROVE x \in AllowedIn(b, e) \cup {<<t, allowed[t] + 1>>}
    <3>1. PICK u \in Time : b <= u /\ u < e /\ \E n \in 1..allowed'[u] : x = <<u, n>>
      BY <1>3, <2>1
    <3>2. PICK n \in 1..allowed'[u] : x = <<u, n>>
      BY <3>1
    <3>. QED
      BY <1>1, <1>2, <3>1, <3>2, AllowedInIs
  <2>2. ASSUME NEW x \in AllowedIn(b, e) PROVE x \in AllowedIn(b, e)'
    <3>1. PICK u \in Time : b <= u /\ u < e /\ \E n \in 1..allowed[u] : x = <<u, n>>
      BY <2>2, AllowedInIs
    <3>2. 1..allowed[u] \subseteq 1..allowed'[u]
      BY <1>1, <1>2
    <3>. QED
      BY <1>3, <3>1, <3>2
  <2>3. <<t, allowed[t] + 1>> \in AllowedIn(b, e)'
    BY <1>2, <1>3
  <2>. QED
    BY <2>1, <2>2, <2>3
<1>5. <<t, allowed[t] + 1>> \notin AllowedIn(b, e)
  BY <1>1, AllowedInIs
<1>. QED
  BY <1>4, <1>5

LEMMA LetNoneIn ==
  ASSUME TypeOK, NEW t \in Time, NEW b, NEW e, ~ (b <= t /\ t < e),
         allowed' = [allowed EXCEPT ![t] = allowed[t] + 1]
  PROVE  AllowedIn(b, e)' = AllowedIn(b, e)
<1>1. \A u \in Time : b <= u /\ u < e => allowed'[u] = allowed[u]
  BY DEF TypeOK
<1>2. \A x : x \in AllowedIn(b, e)' <=>
        \E u \in Time : b <= u /\ u < e /\ \E n \in 1..allowed'[u] : x = <<u, n>>
  BY DEF AllowedIn
<1>3. \A x : x \in AllowedIn(b, e)' <=> x \in AllowedIn(b, e)
  BY <1>1, <1>2, AllowedInIs
<1>. QED
  BY <1>3

LEMMA WindowInit == Init => \A b \in Bucket : WindowOK(b)
<1>. SUFFICES ASSUME Init, NEW b \in Bucket PROVE WindowOK(b)
  OBVIOUS
<1>1. AllowedIn(b, b + Window) = {}
  BY DEF Init, AllowedIn
<1>2. IsFiniteSet({}) /\ Cardinality({}) = 0
  BY FS_EmptySet
<1>. QED
  BY <1>1, <1>2, RateLimitConstants DEF Init, WindowOK

LEMMA WindowNext == IndInv /\ [Next]_vars => \A b \in Bucket : WindowOK(b)'
<1>. SUFFICES ASSUME IndInv, [Next]_vars, NEW b \in Bucket PROVE WindowOK(b)'
  OBVIOUS
<1>. DEFINE A == AllowedIn(b, b + Window)
<1>0. TypeOK /\ TypeOK' /\ WindowOK(b) /\ b \in Nat /\ Window \in Nat \ {0} /\ MaxRequests \in Nat
  BY TypeNext, RateLimitConstants DEF IndInv, Bucket, Time
<1>1. CASE UNCHANGED <<now, redisVars, historyVars>>
  <2>1. A' = A
    BY <1>1 DEF AllowedIn, historyVars
  <2>. QED
    BY <1>0, <1>1, <2>1 DEF WindowOK, redisVars, historyVars
<1>2. ASSUME NEW w \in Worker, Execute(w) PROVE WindowOK(b)'
  <2>. DEFINE c == BucketStart(ts[w])
  <2>1. c \in Bucket /\ ts[w] \in Time /\ c <= ts[w] /\ ts[w] < c + Window /\ ts[w] <= now
    BY <1>0, WindowOfTime DEF TypeOK
  <2>2. /\ count' = [count EXCEPT ![c] = IF count[c] > MaxRequests THEN count[c] ELSE count[c] + 1]
        /\ ttl' = [ttl EXCEPT ![c] = Window] /\ now' = now
    BY <1>2 DEF Execute, Count
  <2>3. \/ UNCHANGED historyVars
        \/ /\ ~ (count'[c] > MaxRequests)
           /\ allowed' = [allowed EXCEPT ![ts[w]] = allowed[ts[w]] + 1]
           /\ late' = [late EXCEPT ![c] = IF now < c + Window THEN late[c] ELSE late[c] + 1]
    BY <1>2 DEF Execute, Over
  <2>. HIDE DEF c
  <2>4. /\ count[b] \in 0..MaxRequests + 1 /\ count'[b] \in Nat /\ count[b] <= count'[b]
        /\ late[b] \in Nat /\ late'[b] \in Nat /\ now \in Nat
        /\ ttl[b] \in Nat /\ ttl'[b] \in Nat /\ c \in Nat
    <3>1. count[b] \in 0..MaxRequests + 1 /\ late[b] \in Nat /\ late'[b] \in Nat
      BY <1>0 DEF TypeOK
    <3>2. now \in Nat /\ c \in Nat
      BY <1>0, <2>1 DEF TypeOK, Bucket, Time
    <3>3. ttl[b] \in Nat /\ ttl'[b] \in Nat
      BY <1>0 DEF TypeOK
    <3>4. count'[b] \in Nat /\ count[b] <= count'[b]
      <4>1. count'[b] = IF b = c /\ ~ (count[b] > MaxRequests) THEN count[b] + 1 ELSE count[b]
        BY <1>0, <2>1, <2>2 DEF TypeOK
      <4>. QED
        BY <1>0, <3>1, <4>1
    <3>. QED
      BY <3>1, <3>2, <3>3, <3>4
  <2>5. now < b + Window /\ count'[b] > 0 => now + ttl'[b] >= b + Window
    <3>1. CASE b = c
      <4>1. ttl'[b] = Window
        BY <1>0, <2>2, <3>1 DEF TypeOK
      <4>2. c <= now
        BY <1>0, <2>1, <2>4 DEF TypeOK, Time
      <4>. QED
        BY <1>0, <2>4, <3>1, <4>1, <4>2
    <3>2. CASE b # c
      <4>1. count'[b] = count[b] /\ ttl'[b] = ttl[b]
        BY <1>0, <2>2, <3>2 DEF TypeOK
      <4>. QED
        BY <1>0, <4>1 DEF WindowOK
    <3>. QED
      BY <3>1, <3>2
  <2>6. CASE UNCHANGED historyVars
    <3>1. A' = A
      BY <2>6 DEF AllowedIn, historyVars
    <3>2. Cardinality(A) \in Nat
      BY <1>0, FS_CardinalityType DEF WindowOK
    <3>. HIDE DEF A
    <3>3. /\ IsFiniteSet(A) /\ Cardinality(A) <= MaxRequests + late[b]
          /\ now < b + Window => late[b] = 0 /\ Cardinality(A) <= count[b]
      BY <1>0 DEF WindowOK, A
    <3>4. /\ IsFiniteSet(A') /\ Cardinality(A') <= MaxRequests + late'[b]
          /\ now < b + Window => late'[b] = 0 /\ Cardinality(A') <= count'[b]
      BY <2>4, <2>6, <3>1, <3>2, <3>3 DEF historyVars
    <3>. QED
      BY <2>2, <2>5, <3>4 DEF WindowOK, A
  <2>7. CASE /\ ~ (count'[c] > MaxRequests)
             /\ allowed' = [allowed EXCEPT ![ts[w]] = allowed[ts[w]] + 1]
             /\ late' = [late EXCEPT ![c] = IF now < c + Window THEN late[c] ELSE late[c] + 1]
    <3>1. CASE b = c
      <4>. DEFINE x == <<ts[w], allowed[ts[w]] + 1>>
      <4>1. A' = A \cup {x} /\ x \notin A
        BY <1>0, <2>1, <2>7, <3>1, LetOneIn
      <4>2. IsFiniteSet(A) /\ Cardinality(A) \in Nat
        BY <1>0, FS_CardinalityType DEF WindowOK
      <4>3. /\ Cardinality(A) <= MaxRequests + late[b]
            /\ now < b + Window => late[b] = 0 /\ Cardinality(A) <= count[b]
        BY <1>0 DEF WindowOK
      <4>. HIDE DEF A, x
      <4>4. IsFiniteSet(A') /\ Cardinality(A') = Cardinality(A) + 1
        BY <4>1, <4>2, FS_AddElement
      <4>5. count'[b] = count[b] + 1 /\ count[b] + 1 <= MaxRequests
        BY <1>0, <2>2, <2>4, <2>7, <3>1 DEF TypeOK
      <4>6. late'[b] = IF now < b + Window THEN late[b] ELSE late[b] + 1
        BY <1>0, <2>7, <3>1 DEF TypeOK
      <4>7. /\ Cardinality(A') <= MaxRequests + late'[b]
            /\ now < b + Window => late'[b] = 0 /\ Cardinality(A') <= count'[b]
        BY <1>0, <2>4, <4>2, <4>3, <4>4, <4>5, <4>6
      <4>. QED
        BY <2>2, <2>5, <4>4, <4>7 DEF WindowOK, A
    <3>2. CASE b # c
      <4>1. ~ (b <= ts[w] /\ ts[w] < b + Window)
        BY <2>1, <3>2, OneWindow DEF c
      <4>2. A' = A
        BY <1>0, <2>1, <2>7, <4>1, LetNoneIn
      <4>3. late'[b] = late[b] /\ count'[b] = count[b]
        BY <1>0, <2>2, <2>7, <3>2 DEF TypeOK
      <4>. QED
        BY <1>0, <2>2, <2>5, <4>2, <4>3 DEF WindowOK
    <3>. QED
      BY <3>1, <3>2
  <2>. QED
    BY <2>3, <2>6, <2>7
<1>3. CASE Tick
  <2>1. A' = A
    BY <1>3 DEF AllowedIn, Tick, historyVars
  <2>2. /\ now \in Nat /\ now' = now + 1 /\ late' = late
        /\ ttl[b] \in Nat /\ count[b] \in Nat /\ (count[b] > 0 <=> ttl[b] > 0)
        /\ ttl'[b] = IF ttl[b] > 0 THEN ttl[b] - 1 ELSE 0
        /\ count'[b] = IF ttl[b] = 1 THEN 0 ELSE count[b]
    BY <1>0, <1>3 DEF Tick, historyVars, TypeOK, Time
  <2>3. /\ IsFiniteSet(A) /\ Cardinality(A) \in Nat
        /\ Cardinality(A) <= MaxRequests + late[b]
        /\ now < b + Window => /\ late[b] = 0 /\ Cardinality(A) <= count[b]
                               /\ count[b] > 0 => now + ttl[b] >= b + Window
    BY <1>0, FS_CardinalityType DEF WindowOK
  <2>. HIDE DEF A
  <2>4. /\ IsFiniteSet(A') /\ Cardinality(A') <= MaxRequests + late'[b]
        /\ now' < b + Window => /\ late'[b] = 0 /\ Cardinality(A') <= count'[b]
                                /\ count'[b] > 0 => now' + ttl'[b] >= b + Window
    BY <1>0, <2>1, <2>2, <2>3
  <2>. QED
    BY <2>4 DEF WindowOK, A
<1>4. ASSUME NEW w \in Worker, Arrive(w) \/ Fail(w) PROVE WindowOK(b)'
  BY <1>1, <1>4 DEF Arrive, Fail
<1>5. CASE UNCHANGED vars
  BY <1>1, <1>5 DEF vars
<1>. QED
  BY <1>2, <1>3, <1>4, <1>5 DEF Next

LEMMA Invariance == Spec => []IndInv
<1>1. Init => IndInv
  BY TypeInit, WindowInit DEF IndInv
<1>2. IndInv /\ [Next]_vars => IndInv'
  BY TypeNext, WindowNext DEF IndInv
<1>. QED
  BY <1>1, <1>2, PTL DEF Spec

(* A window lets no more than its maximum through, and what is counted     *)
(* after it was over on top of that, whatever the delays between the clock *)
(* and Redis and however many workers there are.                           *)
THEOREM WindowsAreLimited == Spec => []WindowIsLimited
<1>1. IndInv => WindowIsLimited
  BY DEF IndInv, WindowOK, WindowIsLimited
<1>. QED
  BY <1>1, Invariance, PTL
=============================================================================
