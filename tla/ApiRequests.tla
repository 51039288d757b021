---------------------------- MODULE ApiRequests ----------------------------
(***************************************************************************)
(* The API's processes as their clients see them: gunicorn starts          *)
(* API_WORKERS of them (src/api/entrypoint.sh), each answers the requests  *)
(* that reach it, checks the tenant (middleware/tenant.py), counts against *)
(* the tenant's limit in Redis as TenantLimit describes, observes what it  *)
(* has answered in metrics of its own (main.py, metrics.py) and renders    *)
(* them for whoever scrapes it.                                            *)
(*                                                                         *)
(* Every step is a step of TenantLimit with what it does to the process,   *)
(* or leaves Redis alone.  A tenant and a scope are counted apart from all *)
(* others: Self is the tenant whose counter TenantLimit keeps.  Of the     *)
(* metrics requests_total stands for all counters: observe increments them *)
(* together.                                                               *)
(***************************************************************************)
EXTENDS TenantLimit

CONSTANTS
  Tenant, Self, NoTenant,
  NoProcess,     \* of no scrape
  MaxServed      \* bound on the requests one process answers

ASSUME ApiConstants ==
  /\ Self \in Tenant /\ NoTenant \notin Tenant
  /\ NoProcess \notin Worker
  /\ MaxServed \in Nat

VARIABLES
  seen,       \* per process, requests observed since it started
  \* history variables: no guard reads them
  scrape,     \* the last scrape: the process it reached, and requests_total,
              \* until that process is restarted
  counted,    \* requests Redis counted in this tick and before, by age
  extended    \* the counter was given a time to live again before it expired

allVars == <<vars, seen, scrape, counted, extended>>

NoScrape == [process |-> NoProcess, total |-> 0]

(* ApiMetrics.__init__, in each process.                                   *)
ApiInit ==
  /\ Init
  /\ seen = [w \in Worker |-> 0]
  /\ scrape = NoScrape
  /\ counted = [a \in 0..Window - 1 |-> 0]
  /\ extended = FALSE
-----------------------------------------------------------------------------
(* ApiMetrics.observe.                                                     *)
Observe(w) ==
  /\ seen[w] < MaxServed
  /\ seen' = [seen EXCEPT ![w] = @ + 1]

(* _access_log, when call_next returns a response.                         *)
Respond(w) == Observe(w) /\ UNCHANGED scrape

(* _access_log, when call_next raises: it observes a 500 and raises again, *)
(* and unhandled_exception_handler, outside of it, answers.                *)
Raise(w) == Observe(w) /\ UNCHANGED scrape

(* require_tenant: 400 without the header.                                 *)
RequireTenant(header) == header # NoTenant

(* ensure_path_tenant_matches: 400 without either, 403 if they differ.     *)
PathMatches(header, path) ==
  RequireTenant(header) /\ path # NoTenant /\ path = header

(* GET /tenants/{path}/echo.                                               *)
TenantEcho(w, header, path) ==
  \/ /\ PathMatches(header, path) /\ header = Self
     /\ Arrive(w)
     /\ UNCHANGED <<seen, scrape, counted, extended>>
  \/ /\ ~ PathMatches(header, path)
     /\ pc[w] = "idle"
     /\ Respond(w)
     /\ UNCHANGED <<vars, counted, extended>>

(* Every other route: health, flags, items (501), privacy, celery, OAuth   *)
(* stubs, and the echo of other tenants.                                   *)
OtherRoute(w) ==
  /\ pc[w] = "idle"
  /\ Respond(w) \/ Raise(w)
  /\ UNCHANGED <<vars, counted, extended>>

(* What the counting of a request leaves in the histories.                 *)
Record(w) ==
  /\ counted' = [counted EXCEPT ![0] = IF @ < Ceiling THEN @ + 1 ELSE @]
  /\ extended' = IF expire[w] THEN ttl # 0 ELSE extended

(* The transaction is executed: 200, or 429 with Retry-After.              *)
Echo(w) ==
  /\ Execute(w)
  /\ Respond(w)
  /\ Record(w)

(* Redis does not answer: 500.                                             *)
RedisFails(w) ==
  /\ Raise(w)
  /\ \/ Fail(w) /\ UNCHANGED <<counted, extended>>
     \/ LoseAnswer(w) /\ Record(w)

(* Mutant: rendering starts the counters afresh.                           *)
ScrapeResets(w) ==
  /\ pc[w] = "idle"
  /\ scrape' = [process |-> w, total |-> seen[w]]
  /\ seen' = [seen EXCEPT ![w] = 1]
  /\ UNCHANGED <<vars, counted, extended>>

(* GET /metrics: render_prometheus by the process the scrape reaches,      *)
(* which then observes the scrape.                                         *)
Scrape(w) ==
  /\ pc[w] = "idle"
  /\ scrape' = [process |-> w, total |-> seen[w]]
  /\ Observe(w)
  /\ UNCHANGED <<vars, counted, extended>>

(* A process dies, wherever it is, and gunicorn starts another one.        *)
Restart(w) ==
  /\ seen' = [seen EXCEPT ![w] = 0]
  /\ scrape' = IF scrape.process = w THEN NoScrape ELSE scrape
  /\ \/ /\ pc[w] = "idle"
        /\ UNCHANGED <<vars, counted, extended>>
     \/ Fail(w) /\ UNCHANGED <<counted, extended>>
     \/ LoseAnswer(w) /\ Record(w)

ApiTick ==
  /\ Tick
  /\ counted' = [a \in 0..Window - 1 |-> IF a = 0 THEN 0 ELSE counted[a - 1]]
  /\ extended' = (extended /\ ttl' # 0)
  /\ UNCHANGED <<seen, scrape>>

ApiStep(w) ==
  \/ \E header, path \in Tenant \cup {NoTenant} : TenantEcho(w, header, path)
  \/ OtherRoute(w) \/ Echo(w) \/ RedisFails(w) \/ Scrape(w) \/ Restart(w)

ApiNext == (\E w \in Worker : ApiStep(w)) \/ ApiTick

(* Time passes.                                                            *)
ApiSpec == ApiInit /\ [][ApiNext]_allVars /\ WF_allVars(ApiTick)
-----------------------------------------------------------------------------
ApiTypeOK ==
  /\ TypeOK
  /\ seen \in [Worker -> 0..MaxServed]
  /\ scrape \in [process : Worker \cup {NoProcess}, total : 0..MaxServed]
  /\ counted \in [0..Window - 1 -> 0..Ceiling]
  /\ extended \in BOOLEAN

(* A tenant is refused only if the requests of the last window, the one    *)
(* refused included, exceed the maximum but for one of each process, which *)
(* an unexpiring counter may have kept from earlier; unless two processes  *)
(* have both given the counter its time to live, and it outlives a window. *)
RefusalsAreEarned ==
  [][\A w \in Worker :
       Echo(w) /\ Over(count') /\ ~ extended'
         => SumFunction(counted') > MaxRequests - Cardinality(Worker)]_allVars

(* The counters a scrape shows are those of one process, and fall when the *)
(* next scrape reaches another one, or the process was restarted; never    *)
(* otherwise.                                                              *)
CountersFallOnlyAcrossProcesses ==
  [][scrape'.total < scrape.total => scrape'.process # scrape.process]_allVars
=============================================================================
