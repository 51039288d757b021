---------------------------- MODULE TenantLimit ----------------------------
(***************************************************************************)
(* The per-tenant limits, src/api/security/tenant_limits.py, for one       *)
(* tenant and one scope: a Redis counter whose window starts with the      *)
(* first request.  The time to live is read before the transaction that    *)
(* increments, and only if there was none does the transaction set it.     *)
(* check_quota_and_incr counts in the same way.                            *)
(*                                                                         *)
(* A counter with no time to live has ttl = 0.  It is only compared with   *)
(* the maximum, so it stops once it is above that and every worker could   *)
(* have been counted.                                                      *)
(***************************************************************************)
EXTENDS Naturals, FiniteSets, Functions

CONSTANTS
  Worker,
  Window,        \* window_ms in ticks
  MaxRequests

ASSUME TenantConstants ==
  /\ IsFiniteSet(Worker)
  /\ Window \in Nat \ {0}
  /\ MaxRequests \in Nat \ {0}

Ceiling == MaxRequests + Cardinality(Worker) + 1

VARIABLES
  count,     \* 0 when there is no key
  ttl,       \* 0 when the key has no time to live, or there is no key
  pc,        \* per worker
  expire,    \* per worker: its transaction sets the time to live
  \* history variable: no guard reads it
  allowed    \* requests let through in this tick and the ones before, by age

redisVars  == <<count, ttl>>
workerVars == <<pc, expire>>
vars == <<redisVars, workerVars, allowed>>

Init ==
  /\ count = 0
  /\ ttl = 0
  /\ pc = [w \in Worker |-> "idle"]
  /\ expire = [w \in Worker |-> FALSE]
  /\ allowed = [a \in 0..Window - 1 |-> 0]

(* The time to live a counter is given.                                    *)
Span == Window

(* Mutant: only a missing key is given a time to live.                     *)
ExpireNewOnly == count = 0

(* Mutant: every request sets the time to live.                            *)
ExpireAlways == TRUE

(* c.pttl(k) < 0: there is no key, or it has no time to live.              *)
NoTtl == count = 0 \/ ttl = 0

(* A request of a tenant reads the time to live.                           *)
Arrive(w) ==
  /\ pc[w] = "idle"
  /\ pc' = [pc EXCEPT ![w] = "execute"]
  /\ expire' = [expire EXCEPT ![w] = NoTtl]
  /\ UNCHANGED <<redisVars, allowed>>

(* Mutant: one request too many is let through.                            *)
OverByOne(n) == n > MaxRequests + 1

Over(n) == n > MaxRequests

Idle(w) ==
  /\ pc' = [pc EXCEPT ![w] = "idle"]
  /\ expire' = [expire EXCEPT ![w] = FALSE]

Increment(w) ==
  /\ count' = IF count < Ceiling THEN count + 1 ELSE count
  /\ ttl' = IF expire[w] THEN Span ELSE ttl

(* pipe.execute; the key may have expired since its time to live was read. *)
Execute(w) ==
  /\ pc[w] = "execute"
  /\ Increment(w)
  /\ allowed' = IF Over(count') THEN allowed ELSE [allowed EXCEPT ![0] = @ + 1]
  /\ Idle(w)

(* Redis has counted the request when its answer is lost or the worker     *)
(* dies: nothing is let through.                                           *)
LoseAnswer(w) ==
  /\ pc[w] = "execute"
  /\ Increment(w)
  /\ Idle(w)
  /\ UNCHANGED allowed

(* Redis is not reached, or the worker dies before.                        *)
Fail(w) ==
  /\ pc[w] = "execute"
  /\ Idle(w)
  /\ UNCHANGED <<redisVars, allowed>>

(* Time passes; a key whose time to live is over is gone.                  *)
Tick ==
  /\ ttl' = IF ttl > 0 THEN ttl - 1 ELSE 0
  /\ count' = IF ttl = 1 THEN 0 ELSE count
  /\ allowed' = [a \in 0..Window - 1 |-> IF a = 0 THEN 0 ELSE allowed[a - 1]]
  /\ UNCHANGED workerVars

Step(w) == Arrive(w) \/ Execute(w) \/ LoseAnswer(w) \/ Fail(w)

Next == (\E w \in Worker : Step(w)) \/ Tick

Spec == Init /\ [][Next]_vars
-----------------------------------------------------------------------------
TypeOK ==
  /\ count \in 0..Ceiling
  /\ ttl \in 0..Window
  /\ count = 0 => ttl = 0
  /\ pc \in [Worker -> {"idle", "execute"}]
  /\ expire \in [Worker -> BOOLEAN]
  /\ allowed \in [0..Window - 1 -> Nat]

(* A key that will not expire by itself has been incremented only by       *)
(* requests that were in flight when the key before it expired, at most    *)
(* one of each worker: the next request gives it a time to live.           *)
UnexpiringCounterIsSmall ==
  count > 0 /\ ttl = 0 => count <= Cardinality(Worker)

(* In any stretch of time as long as the window at most twice the maximum  *)
(* is let through, whatever the workers' delays.                           *)
AtMostTwiceTheMaximum == SumFunction(allowed) <= 2 * MaxRequests

(* A counter that has a time to live runs out, however many requests are   *)
(* refused meanwhile.                                                      *)
CountersRunOut == ttl > 0 ~> count = 0
=============================================================================
