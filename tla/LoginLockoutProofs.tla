------------------------ MODULE LoginLockoutProofs -------------------------
(***************************************************************************)
(* Proofs about LoginLockout for every set of users, every finite number   *)
(* of workers, every maximum and every term.                               *)
(***************************************************************************)
EXTENDS LoginLockout, FiniteSetTheorems, TLAPS

(* Workers that have read u's lock and can still count a failure for it.   *)
Aware(u) == PastLock(u) \ blind

(* Only overtaken workers are past a running lock, and the guesses counted *)
(* while it runs and those still to come are together fewer than the       *)
(* workers: the worker that set the lock is not among them.                *)
RaceOK ==
  /\ \A u \in User : Live(u) => Aware(u) \subseteq outran
  /\ \A u \in User :
       Live(u) => late[u] + Cardinality(Aware(u)) < Cardinality(Worker)

IInv == TypeOK /\ LockFollowsCount /\ RaceOK

LEMMA AwareFinite ==
  ASSUME NEW u
  PROVE  /\ IsFiniteSet(Aware(u))
         /\ Cardinality(Aware(u)) \in Nat
         /\ Cardinality(Worker) \in Nat
<1>1. Aware(u) \in SUBSET Worker /\ IsFiniteSet(Worker)
  BY LockoutConstants DEF Aware, PastLock
<1>2. IsFiniteSet(Aware(u))
  BY <1>1, FS_Subset
<1>. QED
  BY <1>1, <1>2, FS_CardinalityType

-----------------------------------------------------------------------------
(* Types.                                                                  *)

LEMMA TypeInit == Init => TypeOK
<1>1. Cardinality(Worker) \in Nat
  BY LockoutConstants, FS_CardinalityType
<1>. QED
  BY <1>1, LockoutConstants DEF Init, TypeOK, PC

LEMMA TypeNext == TypeOK /\ [Next]_vars => TypeOK'
<1>. SUFFICES ASSUME TypeOK, [Next]_vars PROVE TypeOK'
  OBVIOUS
<1>0. Cardinality(Worker) \in Nat
  BY LockoutConstants, FS_CardinalityType
<1>. USE <1>0, LockoutConstants DEF TypeOK, PC, accountVars, workerVars, historyVars
<1>1. ASSUME NEW w \in Worker, NEW u \in User, NEW ok \in BOOLEAN, Attempt(w, u, ok)
      PROVE  TypeOK'
  BY <1>1 DEF Attempt
<1>2. ASSUME NEW w \in Worker, ReadLock(w) PROVE TypeOK'
  BY <1>2 DEF ReadLock, Finish, Goto, AfterVerify
<1>3. ASSUME NEW w \in Worker, LockUnreadable(w) PROVE TypeOK'
  BY <1>3 DEF LockUnreadable, Goto, AfterVerify
<1>4. ASSUME NEW w \in Worker, RegisterFailure(w) PROVE TypeOK'
  <2>. DEFINE u == user[w]
  <2>1. u \in User
    BY <1>4 DEF RegisterFailure
  <2>2. failed' \in [User -> 0..MaxFailures] /\ locked' \in SUBSET User
        /\ left' \in [User -> 0..LockTerm]
    BY <1>4, <2>1 DEF RegisterFailure, CountFailure
  <2>3. /\ pc' \in [Worker -> PC] /\ user' \in [Worker -> User \cup {NoUser}]
        /\ right' \in [Worker -> BOOLEAN] /\ blind' \in SUBSET Worker
        /\ \A v \in Worker : pc'[v] # "idle" => user'[v] \in User
    BY <1>4 DEF RegisterFailure, Finish
  <2>4. outran' \in SUBSET Worker
    BY <1>4 DEF RegisterFailure, PastLock
  <2>5. late' \in [User -> 0..Cardinality(Worker)]
    <3>1. CASE Live(u)
      BY <1>4, <2>1, <3>1 DEF RegisterFailure
    <3>2. CASE ~ Live(u)
      BY <1>4, <2>1, <3>2 DEF RegisterFailure
    <3>. QED BY <3>1, <3>2
  <2>. QED
    BY <2>2, <2>3, <2>4, <2>5
<1>5. ASSUME NEW w \in Worker, OpenSession(w) PROVE TypeOK'
  BY <1>5 DEF OpenSession, Goto
<1>6. ASSUME NEW w \in Worker, ResetFailures(w) PROVE TypeOK'
  BY <1>6 DEF ResetFailures, ClearFailures, Finish
<1>7. ASSUME NEW w \in Worker, Fail(w) PROVE TypeOK'
  BY <1>7 DEF Fail, Finish
<1>8. ASSUME Tick PROVE TypeOK'
  BY <1>8 DEF Tick, Live
<1>9. ASSUME UNCHANGED vars PROVE TypeOK'
  BY <1>9 DEF vars
<1>. QED
  BY <1>1, <1>2, <1>3, <1>4, <1>5, <1>6, <1>7, <1>8, <1>9 DEF Next, Step

(* The columns and the handlers keep their types.  service.py:189-246.     *)
THEOREM TypeCorrect == Spec => []TypeOK
BY TypeInit, TypeNext, PTL DEF Spec

-----------------------------------------------------------------------------
(* The counter and the lock.                                               *)

LEMMA CountNext ==
  ASSUME TypeOK, LockFollowsCount, [Next]_vars
  PROVE  LockFollowsCount'
<1>. USE LockoutConstants DEF TypeOK, LockFollowsCount, Live
<1>1. CASE UNCHANGED accountVars
  BY <1>1 DEF accountVars
<1>2. ASSUME NEW w \in Worker, RegisterFailure(w) PROVE LockFollowsCount'
  <2>1. user[w] \in User /\ CountFailure(user[w])
    BY <1>2 DEF RegisterFailure
  <2>. QED
    BY <2>1 DEF CountFailure
<1>3. ASSUME NEW w \in Worker, ResetFailures(w) PROVE LockFollowsCount'
  <2>1. user[w] \in User /\ ClearFailures(user[w])
    BY <1>3 DEF ResetFailures
  <2>. QED
    BY <2>1 DEF ClearFailures
<1>4. CASE Tick
  BY <1>4 DEF Tick
<1>. QED
  BY <1>1, <1>2, <1>3, <1>4
  DEF Next, Step, vars, Attempt, ReadLock, LockUnreadable, OpenSession, Fail

-----------------------------------------------------------------------------
(* The race: what a step does to the workers that are past a lock.         *)

(* A step that lets no further lock run, counts nothing and lets no worker *)
(* that knows of no lock past one preserves RaceOK.                        *)
LEMMA RaceKeeps ==
  ASSUME TypeOK, TypeOK', RaceOK,
         \A u \in User : Live(u)' => /\ Live(u)
                                     /\ late'[u] = late[u]
                                     /\ Aware(u)' \subseteq Aware(u)
                                     /\ Aware(u)' \cap outran \subseteq outran'
  PROVE  RaceOK'
<1>. SUFFICES ASSUME NEW u \in User, Live(u)'
              PROVE  /\ Aware(u)' \subseteq outran'
                     /\ late'[u] + Cardinality(Aware(u)') < Cardinality(Worker)
  BY DEF RaceOK
<1>1. Live(u) /\ late'[u] = late[u] /\ Aware(u)' \subseteq Aware(u)
      /\ Aware(u)' \cap outran \subseteq outran'
  OBVIOUS
<1>2. Aware(u) \subseteq outran
      /\ late[u] + Cardinality(Aware(u)) < Cardinality(Worker)
  BY <1>1 DEF RaceOK
<1>3. Aware(u)' \in SUBSET Aware(u)
  BY <1>1
<1>4. Cardinality(Aware(u)') <= Cardinality(Aware(u))
      /\ Cardinality(Aware(u)') \in Nat
  BY <1>3, AwareFinite, FS_Subset, FS_CardinalityType
<1>5. late[u] \in Nat /\ Cardinality(Worker) \in Nat /\ Cardinality(Aware(u)) \in Nat
  BY AwareFinite DEF TypeOK
<1>. QED
  BY <1>1, <1>2, <1>4, <1>5

(* A failure is counted.  While the lock runs, the worker leaves those     *)
(* past it as the count goes up; when it sets the lock it is not one of    *)
(* the workers past it.                                                    *)
LEMMA RaceRegister ==
  ASSUME TypeOK, TypeOK', RaceOK, NEW w \in Worker, RegisterFailure(w)
  PROVE  RaceOK'
<1>0. PICK u \in User : u = user[w]
  BY DEF RegisterFailure, TypeOK
<1>1. u \in User /\ w \in PastLock(u)
  BY <1>0 DEF RegisterFailure, PastLock
<1>2. pc' = [pc EXCEPT ![w] = "idle"] /\ user' = [user EXCEPT ![w] = NoUser]
      /\ blind' = blind \ {w}
  BY DEF RegisterFailure, Finish
<1>3. \A v \in User : PastLock(v)' = PastLock(v) \ {w}
  BY <1>2 DEF PastLock, TypeOK
<1>4. \A v \in User : Aware(v)' = Aware(v) \ {w}
  BY <1>2, <1>3 DEF Aware
<1>5. \A v \in User \ {u} : w \notin Aware(v)
  BY <1>0 DEF Aware, PastLock
<1>6. \A v \in User \ {u} : /\ Live(v)' = Live(v)
                            /\ late'[v] = late[v]
  BY <1>0 DEF RegisterFailure, CountFailure, Live, TypeOK
<1>7. outran \ {w} \subseteq outran'
  BY DEF RegisterFailure
<1>. SUFFICES ASSUME NEW v \in User, Live(v)'
              PROVE  /\ Aware(v)' \subseteq outran'
                     /\ late'[v] + Cardinality(Aware(v)') < Cardinality(Worker)
  BY DEF RaceOK
<1>8. CASE v # u
  BY <1>4, <1>5, <1>6, <1>7, <1>8 DEF RaceOK
<1>9. CASE v = u /\ Live(u)
  <2>1. Aware(u) \subseteq outran
        /\ late[u] + Cardinality(Aware(u)) < Cardinality(Worker)
    BY <1>1, <1>9 DEF RaceOK
  <2>2. Aware(u)' \subseteq outran'
    BY <1>1, <1>4, <1>7, <2>1
  <2>3. Cardinality(Aware(u)') =
          IF w \in Aware(u) THEN Cardinality(Aware(u)) - 1 ELSE Cardinality(Aware(u))
    BY <1>1, <1>4, AwareFinite, FS_RemoveElement
  <2>4. late'[u] = IF w \in blind \/ late[u] = Cardinality(Worker)
                   THEN late[u] ELSE late[u] + 1
    BY <1>0, <1>9 DEF RegisterFailure, TypeOK
  <2>5. w \in Aware(u) <=> w \notin blind
    BY <1>1 DEF Aware
  <2>6. late[u] \in Nat /\ Cardinality(Worker) \in Nat /\ Cardinality(Aware(u)) \in Nat
    BY <1>1, AwareFinite DEF TypeOK
  <2>. QED
    BY <1>9, <2>1, <2>2, <2>3, <2>4, <2>5, <2>6
<1>10. CASE v = u /\ ~ Live(u)
  <2>1. left'[u] > 0 /\ late'[u] = 0
    BY <1>0, <1>10 DEF RegisterFailure, Live, TypeOK
  <2>2. outran' = (outran \cup PastLock(u)) \ {w}
    BY <1>0, <1>10, <2>1 DEF RegisterFailure
  <2>3. Aware(u)' \subseteq outran'
    BY <1>1, <1>4, <2>2 DEF Aware
  <2>4. Aware(u)' \in SUBSET (Worker \ {w})
    BY <1>1, <1>4 DEF Aware, PastLock
  <2>5. /\ IsFiniteSet(Worker) /\ IsFiniteSet(Worker \ {w})
        /\ Cardinality(Worker \ {w}) = Cardinality(Worker) - 1
    BY LockoutConstants, FS_RemoveElement
  <2>6. Cardinality(Aware(u)') <= Cardinality(Worker \ {w})
        /\ IsFiniteSet(Aware(u)')
    BY <2>4, <2>5, FS_Subset
  <2>7. Cardinality(Aware(u)') \in Nat /\ Cardinality(Worker) \in Nat
    BY <2>5, <2>6, FS_CardinalityType
  <2>. QED
    BY <1>10, <2>1, <2>3, <2>5, <2>6, <2>7
<1>. QED
  BY <1>8, <1>9, <1>10

LEMMA RaceNext ==
  ASSUME TypeOK, TypeOK', RaceOK, [Next]_vars
  PROVE  RaceOK'
<1>. USE DEF TypeOK, Aware, PastLock, Live, accountVars, workerVars, historyVars
<1>1. ASSUME NEW w \in Worker, NEW u \in User, NEW ok \in BOOLEAN, Attempt(w, u, ok)
      PROVE  RaceOK'
  BY <1>1, RaceKeeps DEF Attempt
<1>2. ASSUME NEW w \in Worker, ReadLock(w) PROVE RaceOK'
  BY <1>2, RaceKeeps DEF ReadLock, Finish, Goto
<1>3. ASSUME NEW w \in Worker, LockUnreadable(w) PROVE RaceOK'
  BY <1>3, RaceKeeps DEF LockUnreadable, Goto
<1>4. ASSUME NEW w \in Worker, RegisterFailure(w) PROVE RaceOK'
  BY <1>4, RaceRegister
<1>5. ASSUME NEW w \in Worker, OpenSession(w) PROVE RaceOK'
  BY <1>5, RaceKeeps DEF OpenSession, Goto
<1>6. ASSUME NEW w \in Worker, ResetFailures(w) PROVE RaceOK'
  BY <1>6, RaceKeeps DEF ResetFailures, ClearFailures, Finish
<1>7. ASSUME NEW w \in Worker, Fail(w) PROVE RaceOK'
  BY <1>7, RaceKeeps DEF Fail, Finish
<1>8. ASSUME Tick PROVE RaceOK'
  BY <1>8, RaceKeeps DEF Tick
<1>9. ASSUME UNCHANGED vars PROVE RaceOK'
  BY <1>9, RaceKeeps DEF vars
<1>. QED
  BY <1>1, <1>2, <1>3, <1>4, <1>5, <1>6, <1>7, <1>8, <1>9 DEF Next, Step

-----------------------------------------------------------------------------
(* The invariant: types, the two columns, and the race for a lock.         *)
THEOREM Inductive == Spec => []IInv
<1>1. Init => IInv
  <2>. SUFFICES ASSUME Init PROVE IInv
    OBVIOUS
  <2>1. \A u \in User : ~ Live(u)
    BY DEF Init, Live
  <2>2. LockFollowsCount
    BY <2>1, LockoutConstants DEF Init, LockFollowsCount
  <2>. QED
    BY <2>1, <2>2, TypeInit DEF IInv, RaceOK
<1>2. IInv /\ [Next]_vars => IInv'
  BY TypeNext, CountNext, RaceNext DEF IInv
<1>. QED
  BY <1>1, <1>2, PTL DEF Spec

(* locked_until is set exactly when the counter has reached the maximum,   *)
(* whatever order the UPDATEs of failures and successes commit in.         *)
THEOREM LocksFollowCounts == Spec => []LockFollowsCount
BY Inductive, PTL DEF IInv

(* register_login_failure counts fewer failures against a running lock     *)
(* than there are API workers, whatever is tried meanwhile.                *)
THEOREM LateGuessesAreBounded == Spec => []LateGuessesBounded
<1>1. IInv => LateGuessesBounded
  <2>. SUFFICES ASSUME IInv, NEW u \in User, Live(u)
                PROVE  late[u] < Cardinality(Worker)
    BY DEF LateGuessesBounded
  <2>1. late[u] + Cardinality(Aware(u)) < Cardinality(Worker)
    BY DEF IInv, RaceOK
  <2>2. late[u] \in Nat /\ Cardinality(Worker) \in Nat /\ Cardinality(Aware(u)) \in Nat
    BY AwareFinite DEF IInv, TypeOK
  <2>. QED
    BY <2>1, <2>2
<1>. QED
  BY <1>1, Inductive, PTL

(* login_user opens a session on a locked account, or clears its lock,     *)
(* only if it read the lock before it was set or could not read it.        *)
THEOREM LocksStopLogins == Spec => OnlyOvertakenLoginsPassALock
<1>. DEFINE A == \A w \in Worker :
                   (OpenSession(w) \/ ResetFailures(w)) /\ Live(user[w])
                     => w \in outran \cup blind
<1>1. IInv => A
  <2>. SUFFICES ASSUME IInv, NEW w \in Worker, OpenSession(w) \/ ResetFailures(w),
                       Live(user[w])
                PROVE  w \in outran \cup blind
    OBVIOUS
  <2>1. user[w] \in User /\ w \in PastLock(user[w])
    BY DEF IInv, TypeOK, OpenSession, ResetFailures, PastLock
  <2>. QED
    BY <2>1 DEF IInv, RaceOK, Aware
<1>2. IInv => [A]_vars
  BY <1>1
<1>. QED
  BY <1>2, Inductive, PTL DEF OnlyOvertakenLoginsPassALock

-----------------------------------------------------------------------------
(* Towards LocksEnd: while a lock runs, a step leaves it and the workers   *)
(* past it as they are, but time takes a tick from it, or else one of      *)
(* those workers is done (its guess may have begun the term again, as the  *)
(* last of it) and none joins them, unless its read of the lock raises.    *)
LocksCountDown ==
  [][\A u \in User :
       Live(u) /\ Live(u)' /\ (\A w \in Worker : ~ LockUnreadable(w))
         => \/ PastLock(u)' \subseteq PastLock(u) /\ PastLock(u)' # PastLock(u)
            \/ /\ PastLock(u)' = PastLock(u)
               /\ left'[u] = IF Tick THEN left[u] - 1 ELSE left[u]]_vars

(* Guesses extend a lock only by the workers that are past it when it      *)
(* begins, each of them once: register_login_failure of an attempt that    *)
(* finds the lock is not reached.                                          *)
THEOREM LocksOnlyCountDown == Spec => LocksCountDown
<1>. DEFINE Down(u) ==
              \/ PastLock(u)' \subseteq PastLock(u) /\ PastLock(u)' # PastLock(u)
              \/ /\ PastLock(u)' = PastLock(u)
                 /\ left'[u] = IF Tick THEN left[u] - 1 ELSE left[u]
            A == \A u \in User :
                   Live(u) /\ Live(u)' /\ (\A w \in Worker : ~ LockUnreadable(w)) => Down(u)
<1>1. ASSUME TypeOK, Next, NEW u \in User, Live(u), Live(u)',
             \A w \in Worker : ~ LockUnreadable(w)
      PROVE  Down(u)
  <2>. USE <1>1 DEF TypeOK, PastLock, Live, accountVars, workerVars, historyVars
  <2>0. Tick => left'[u] = left[u] - 1
    BY DEF Tick
  <2>1. ASSUME UNCHANGED left, PastLock(u)' = PastLock(u) PROVE Down(u)
    <3>1. ~ Tick
      BY <2>0, <2>1
    <3>. QED
      BY <2>1, <3>1
  <2>2. ASSUME NEW w \in Worker, NEW v \in User, NEW ok \in BOOLEAN, Attempt(w, v, ok)
        PROVE  Down(u)
    BY <2>1, <2>2 DEF Attempt
  <2>3. ASSUME NEW w \in Worker, ReadLock(w) PROVE Down(u)
    BY <2>1, <2>3 DEF ReadLock, Finish, Goto
  <2>4. ASSUME NEW w \in Worker, pc[w] \notin {"idle", "get_user_lock_state"},
               user[w] = u, Finish(w)
        PROVE  Down(u)
    <3>1. w \in PastLock(u) /\ PastLock(u)' = PastLock(u) \ {w}
      BY <2>4 DEF Finish
    <3>. QED
      BY <3>1
  <2>5. ASSUME NEW w \in Worker, user[w] # u, Finish(w), left'[u] = left[u]
        PROVE  Down(u)
    <3>1. PastLock(u)' = PastLock(u)
      BY <2>5, LockoutConstants DEF Finish
    <3>2. ~ Tick
      BY <2>0, <2>5
    <3>. QED
      BY <2>5, <3>1, <3>2
  <2>6. ASSUME NEW w \in Worker, RegisterFailure(w) PROVE Down(u)
    <3>1. user[w] # u => left'[u] = left[u]
      BY <2>6 DEF RegisterFailure, CountFailure
    <3>. QED
      BY <2>4, <2>5, <2>6, <3>1 DEF RegisterFailure
  <2>7. ASSUME NEW w \in Worker, ResetFailures(w) PROVE Down(u)
    <3>1. user[w] # u => left'[u] = left[u]
      BY <2>7 DEF ResetFailures, ClearFailures
    <3>. QED
      BY <2>4, <2>5, <2>7, <3>1 DEF ResetFailures
  <2>8. ASSUME NEW w \in Worker, OpenSession(w) PROVE Down(u)
    BY <2>1, <2>8 DEF OpenSession, Goto
  <2>9. ASSUME NEW w \in Worker, Fail(w) PROVE Down(u)
    <3>1. CASE w \in PastLock(u)
      BY <2>4, <2>9, <3>1 DEF Fail
    <3>2. CASE w \notin PastLock(u)
      <4>1. PastLock(u)' = PastLock(u)
        BY <2>9, <3>2, LockoutConstants DEF Fail, Finish
      <4>. QED
        BY <2>1, <2>9, <4>1 DEF Fail
    <3>. QED
      BY <3>1, <3>2
  <2>10. ASSUME Tick PROVE Down(u)
    <3>1. PastLock(u)' = PastLock(u)
      BY <2>10 DEF Tick
    <3>. QED
      BY <2>0, <2>10, <3>1
  <2>. HIDE DEF Down
  <2>. QED
    BY <2>2, <2>3, <2>6, <2>7, <2>8, <2>9, <2>10 DEF Next, Step
<1>. HIDE DEF Down
<1>2. IInv /\ [Next]_vars => [A]_vars
  BY <1>1 DEF IInv
<1>. USE DEF Down
<1>. QED
  BY <1>2, Inductive, PTL DEF Spec, LocksCountDown
=============================================================================
