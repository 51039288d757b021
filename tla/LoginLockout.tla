---------------------------- MODULE LoginLockout ----------------------------
(***************************************************************************)
(* Account lockout: login_user of src/api/auth/service.py over the columns *)
(* failed_login_attempts and locked_until of api_auth_users.               *)
(*                                                                         *)
(* The lock is read in one transaction and the failure is counted in       *)
(* another, after the password has been verified; a success clears the     *)
(* lock in a third.  The read and both writes may raise, and login_user    *)
(* carries on without them.                                                *)
(*                                                                         *)
(* locked_until is kept as the time that is left of it.  The counter is    *)
(* only ever compared with the maximum, so it stops there.                 *)
(***************************************************************************)
EXTENDS Naturals, FiniteSets

CONSTANTS
  User, Worker, NoUser,
  MaxFailures,   \* AUTH_LOCKOUT_MAX_FAILURES, at least 1
  LockTerm       \* AUTH_LOCKOUT_MINUTES in ticks of the clock, at least 1

ASSUME LockoutConstants ==
  /\ NoUser \notin User
  /\ IsFiniteSet(Worker)
  /\ MaxFailures \in Nat \ {0}
  /\ LockTerm \in Nat \ {0}

PC == {"idle", "get_user_lock_state", "register_login_failure",
       "create_refresh_token", "reset_login_failures"}

VARIABLES
  failed,     \* failed_login_attempts, up to MaxFailures
  locked,     \* users whose locked_until is not NULL
  left,       \* ticks until locked_until; 0 when it is NULL or past
  pc, user, right,   \* per worker: next statement, account, password is right
  \* history variables: no guard reads them
  blind,      \* workers whose read of the lock raised
  outran,     \* workers that had read the lock when it was set
  late        \* failures counted since the lock was set, blind ones aside;
              \* it stops at the number of workers

accountVars == <<failed, locked, left>>
workerVars  == <<pc, user, right>>
historyVars == <<blind, outran, late>>
vars == <<accountVars, workerVars, historyVars>>

Init ==
  /\ failed = [u \in User |-> 0]
  /\ locked = {}
  /\ left = [u \in User |-> 0]
  /\ pc = [w \in Worker |-> "idle"]
  /\ user = [w \in Worker |-> NoUser]
  /\ right = [w \in Worker |-> FALSE]
  /\ blind = {}
  /\ outran = {}
  /\ late = [u \in User |-> 0]
-----------------------------------------------------------------------------
Live(u) == left[u] > 0

(* Workers that have read u's lock and not finished.                       *)
PastLock(u) ==
  {w \in Worker : user[w] = u /\ pc[w] \notin {"idle", "get_user_lock_state"}}

Finish(w) ==
  /\ pc' = [pc EXCEPT ![w] = "idle"]
  /\ user' = [user EXCEPT ![w] = NoUser]
  /\ right' = [right EXCEPT ![w] = FALSE]
  /\ blind' = blind \ {w}

Goto(w, step) ==
  /\ pc' = [pc EXCEPT ![w] = step]
  /\ UNCHANGED <<user, right>>

(* What follows once the lock does not stop the attempt: the password is   *)
(* verified, against the row that was read first.                          *)
AfterVerify(w) ==
  IF right[w] THEN "create_refresh_token" ELSE "register_login_failure"

(* POST /auth/login for an account that exists and is active.              *)
Attempt(w, u, ok) ==
  /\ pc[w] = "idle"
  /\ pc' = [pc EXCEPT ![w] = "get_user_lock_state"]
  /\ user' = [user EXCEPT ![w] = u]
  /\ right' = [right EXCEPT ![w] = ok]
  /\ UNCHANGED <<accountVars, historyVars>>

(* Mutant: the lock is read but does not stop the attempt.                 *)
ReadLockIgnored(w) ==
  /\ pc[w] = "get_user_lock_state"
  /\ Goto(w, AfterVerify(w)) /\ UNCHANGED blind
  /\ outran' = outran \ {w}
  /\ UNCHANGED <<accountVars, late>>

ReadLock(w) ==
  /\ pc[w] = "get_user_lock_state"
  /\ IF Live(user[w])
     THEN Finish(w)
     ELSE Goto(w, AfterVerify(w)) /\ UNCHANGED blind
  /\ outran' = outran \ {w}
  /\ UNCHANGED <<accountVars, late>>

(* The read raises, or the audit row of a locked attempt cannot be written *)
(* inside the same try: either way the attempt is not stopped.             *)
LockUnreadable(w) ==
  /\ pc[w] = "get_user_lock_state"
  /\ Goto(w, AfterVerify(w))
  /\ blind' = blind \cup {w}
  /\ UNCHANGED <<accountVars, outran, late>>

(* One UPDATE increments the counter and, at the maximum, sets the lock.   *)
CountFailure(u) ==
  IF failed[u] + 1 >= MaxFailures
  THEN /\ failed' = [failed EXCEPT ![u] = MaxFailures]
       /\ locked' = locked \cup {u}
       /\ left' = [left EXCEPT ![u] = LockTerm]
  ELSE /\ failed' = [failed EXCEPT ![u] = @ + 1]
       /\ UNCHANGED <<locked, left>>

RegisterFailure(w) ==
  LET u == user[w]
  IN  /\ pc[w] = "register_login_failure"
      /\ CountFailure(u)
      /\ Finish(w)
      /\ IF Live(u)
         THEN /\ late' = [late EXCEPT ![u] =
                           IF w \in blind \/ @ = Cardinality(Worker) THEN @ ELSE @ + 1]
              /\ outran' = outran \ {w}
         ELSE /\ late' = [late EXCEPT ![u] = 0]
              /\ outran' = (IF left'[u] > 0 THEN outran \cup PastLock(u)
                                            ELSE outran) \ {w}

OpenSession(w) ==
  /\ pc[w] = "create_refresh_token"
  /\ Goto(w, "reset_login_failures")
  /\ UNCHANGED <<accountVars, historyVars>>

(* Mutant: the counter is reset and locked_until left as it is.            *)
KeepLock(u) ==
  /\ failed' = [failed EXCEPT ![u] = 0]
  /\ UNCHANGED <<locked, left>>

ClearFailures(u) ==
  /\ failed' = [failed EXCEPT ![u] = 0]
  /\ locked' = locked \ {u}
  /\ left' = [left EXCEPT ![u] = 0]

ResetFailures(w) ==
  /\ pc[w] = "reset_login_failures"
  /\ ClearFailures(user[w])
  /\ Finish(w)
  /\ outran' = outran \ {w}
  /\ UNCHANGED late

(* A statement raises or the worker dies.  A failure is then not counted,  *)
(* or the lock not cleared; an audit row that cannot be written has the    *)
(* same effect.                                                            *)
Fail(w) ==
  /\ pc[w] # "idle"
  /\ Finish(w)
  /\ outran' = outran \ {w}
  /\ UNCHANGED <<accountVars, late>>

Tick ==
  /\ \E u \in User : Live(u)
  /\ left' = [u \in User |-> IF Live(u) THEN left[u] - 1 ELSE 0]
  /\ UNCHANGED <<failed, locked, workerVars, historyVars>>

Step(w) ==
  \/ \E u \in User, ok \in BOOLEAN : Attempt(w, u, ok)
  \/ ReadLock(w) \/ LockUnreadable(w) \/ RegisterFailure(w)
  \/ OpenSession(w) \/ ResetFailures(w) \/ Fail(w)

Next == (\E w \in Worker : Step(w)) \/ Tick

Spec == Init /\ [][Next]_vars

(* Time passes, and reads of the lock do not keep raising for ever.        *)
LiveSpec ==
  Spec /\ WF_vars(Tick) /\ <>[][\A w \in Worker : ~ LockUnreadable(w)]_vars
-----------------------------------------------------------------------------
TypeOK ==
  /\ failed \in [User -> 0..MaxFailures]
  /\ locked \in SUBSET User
  /\ left \in [User -> 0..LockTerm]
  /\ pc \in [Worker -> PC]
  /\ user \in [Worker -> User \cup {NoUser}]
  /\ right \in [Worker -> BOOLEAN]
  /\ blind \in SUBSET Worker
  /\ outran \in SUBSET Worker
  /\ late \in [User -> 0..Cardinality(Worker)]
  /\ \A w \in Worker : pc[w] # "idle" => user[w] \in User

(* The two columns agree: locked_until is set exactly when the counter has *)
(* reached the maximum, whatever order failures and successes commit in.   *)
LockFollowsCount ==
  \A u \in User : /\ failed[u] = MaxFailures <=> u \in locked
                  /\ Live(u) => u \in locked

(* While a lock runs, at most one guess of every other worker is still     *)
(* counted against it: those that had read the lock before it was set.     *)
LateGuessesBounded ==
  \A u \in User : Live(u) => late[u] < Cardinality(Worker)

(* A login opens a session on a locked account, or clears a lock that is   *)
(* running, only if it had read the lock before or could not read it.      *)
OnlyOvertakenLoginsPassALock ==
  [][\A w \in Worker :
       (OpenSession(w) \/ ResetFailures(w)) /\ Live(user[w])
         => w \in outran \cup blind]_vars

(* Every lock ends, however many attempts are made against it: attempts    *)
(* that read the lock neither count nor extend it.                         *)
LocksEnd == \A u \in User : Live(u) ~> ~ Live(u)
=============================================================================
