----------------------------- MODULE RateLimit -----------------------------
(***************************************************************************)
(* The rate limiter of the authentication routes,                          *)
(* src/api/security/rate_limit.py, for one identifier and one scope: a     *)
(* Redis counter for each fixed window.  The window is chosen by the clock *)
(* before the counter is incremented, and INCR and PEXPIRE are one         *)
(* transaction.                                                            *)
(*                                                                         *)
(* Time is counted in ticks, Second of them to a second.  A counter is     *)
(* only compared with the maximum, so it stops just above it.              *)
(***************************************************************************)
EXTENDS Naturals, FiniteSets

CONSTANTS
  Worker,
  Window,        \* window_ms in ticks
  MaxRequests,
  Second,        \* ticks in a second, the unit of Retry-After
  MaxTime        \* bound on the clock

ASSUME RateLimitConstants ==
  /\ Window \in Nat \ {0}
  /\ MaxRequests \in Nat \ {0}
  /\ Second \in Nat \ {0}
  /\ MaxTime \in Nat

Time == 0..MaxTime

(* bucket_start_for_window                                                 *)
BucketStart(t) == t - (t % Window)

Bucket == {b \in Time : BucketStart(b) = b}

(* Mutant: the seconds are rounded down.                                   *)
RetryRoundedDown(t) == (BucketStart(t) + Window - t) \div Second

(* Seconds until the window of t is over, rounded up.                      *)
RetryAfter(t) ==
  LET seconds == (BucketStart(t) + Window - t + Second - 1) \div Second
  IN  IF seconds < 1 THEN 1 ELSE seconds

VARIABLES
  now,
  count, ttl,   \* per window: the Redis key, 0 when there is none
  pc, ts,       \* per worker: waiting for Redis, and the time it read
  \* history variables: no guard reads them
  allowed,      \* requests let through, by the time they read
  late          \* of those, per window, the ones counted after it was over

redisVars   == <<count, ttl>>
workerVars  == <<pc, ts>>
historyVars == <<allowed, late>>
vars == <<now, redisVars, workerVars, historyVars>>

Init ==
  /\ now = 0
  /\ count = [b \in Bucket |-> 0]
  /\ ttl = [b \in Bucket |-> 0]
  /\ pc = [w \in Worker |-> "idle"]
  /\ ts = [w \in Worker |-> 0]
  /\ allowed = [t \in Time |-> 0]
  /\ late = [b \in Bucket |-> 0]

(* A request reads the clock.                                              *)
Arrive(w) ==
  /\ pc[w] = "idle"
  /\ pc' = [pc EXCEPT ![w] = "execute"]
  /\ ts' = [ts EXCEPT ![w] = now]
  /\ UNCHANGED <<now, redisVars, historyVars>>

(* Mutant: one request too many is let through.                            *)
OverByOne(n) == n > MaxRequests + 1

Over(n) == n > MaxRequests

(* Mutant: a new key is given no time to live.                             *)
CountForever(b) ==
  /\ count' = [count EXCEPT ![b] = IF @ > MaxRequests THEN @ ELSE @ + 1]
  /\ UNCHANGED ttl

(* INCR and PEXPIRE of a window's key.                                     *)
Count(b) ==
  /\ count' = [count EXCEPT ![b] = IF @ > MaxRequests THEN @ ELSE @ + 1]
  /\ ttl' = [ttl EXCEPT ![b] = Window]

(* pipe.execute: the request is counted in the window it read, and let     *)
(* through unless it is over.                                              *)
Execute(w) ==
  LET b == BucketStart(ts[w])
  IN  /\ pc[w] = "execute"
      /\ Count(b)
      /\ IF Over(count'[b])
         THEN UNCHANGED historyVars
         ELSE /\ allowed' = [allowed EXCEPT ![ts[w]] = @ + 1]
              /\ late' = [late EXCEPT ![b] = IF now < b + Window THEN @ ELSE @ + 1]
      /\ pc' = [pc EXCEPT ![w] = "idle"]
      /\ UNCHANGED <<now, ts>>

(* Redis does not answer, or the worker dies.                              *)
Fail(w) ==
  /\ pc[w] = "execute"
  /\ pc' = [pc EXCEPT ![w] = "idle"]
  /\ UNCHANGED <<now, ts, redisVars, historyVars>>

(* Time passes; a key whose time to live is over is gone.                  *)
Tick ==
  /\ now < MaxTime
  /\ now' = now + 1
  /\ ttl' = [b \in Bucket |-> IF ttl[b] > 0 THEN ttl[b] - 1 ELSE 0]
  /\ count' = [b \in Bucket |-> IF ttl[b] = 1 THEN 0 ELSE count[b]]
  /\ UNCHANGED <<workerVars, historyVars>>

Next == (\E w \in Worker : Arrive(w) \/ Execute(w) \/ Fail(w)) \/ Tick

Spec == Init /\ [][Next]_vars
-----------------------------------------------------------------------------
TypeOK ==
  /\ now \in Time
  /\ count \in [Bucket -> 0..MaxRequests + 1]
  /\ ttl \in [Bucket -> 0..Window]
  /\ \A b \in Bucket : count[b] > 0 <=> ttl[b] > 0
  /\ pc \in [Worker -> {"idle", "execute"}]
  /\ ts \in [Worker -> Time]
  /\ \A w \in Worker : ts[w] <= now
  /\ allowed \in [Time -> Nat]
  /\ late \in [Bucket -> Nat]

(* The requests let through that read the clock from first up to past, as  *)
(* pairs of that time and a number.                                        *)
AllowedIn(first, past) ==
  UNION {{t} \X (1..allowed[t]) : t \in {u \in Time : first <= u /\ u < past}}

(* Of the requests that read the clock in a window, no more than the       *)
(* maximum are let through, however workers are delayed between the clock  *)
(* and Redis: only requests counted when the window is over come on top.   *)
WindowIsLimited ==
  \A b \in Bucket : Cardinality(AllowedIn(b, b + Window)) <= MaxRequests + late[b]

(* A client that is refused and waits Retry-After is counted in a new      *)
(* window, and would not have been a second earlier.                       *)
RetryAfterIsExact ==
  \A w \in Worker :
    pc[w] = "execute" =>
      LET end == BucketStart(ts[w]) + Window
          retry == ts[w] + RetryAfter(ts[w]) * Second
      IN  retry >= end /\ retry < end + Second
=============================================================================
