# base2 in TLA+

This directory specifies, model-checks and proves properties of base2: a web
application (FastAPI API, Django schema, React client, PostgreSQL, Redis,
Celery) and the Python scripts that deploy it to DigitalOcean. Every
definition is translated from the source; `PROJECT.json` names, for each one,
the lines it stands for.

    tlasany M.tla                    # parse a module
    tlc -config X.cfg MCM.tla        # run a configuration of M's MC module
    tlapm MProofs.tla                # check the proofs

## 1. The system

### 1.1 How the API runs

`api/entrypoint.sh` starts `API_WORKERS` gunicorn workers (default 2), each with
an asyncio loop. The routes are `async def`, but the calls they make to
PostgreSQL and Redis block and contain no `await`: from the parsed body to the
response a handler runs alone in its worker. Concurrency is between *workers*
(and between the API, the Celery worker, browsers and operators). Each function
of `api/auth/repo.py` sets `conn.autocommit = True` and runs one statement, so
every statement is a transaction of its own and nothing ties two of them
together: other workers run between any two, and a crash, a database error or
a statement timeout can stop a handler between any two.

So in these modules a handler is a sequence of steps, one for each statement
that writes; the leading reads belong to the step that accepts the request
(nothing they read is protected until the writes happen), and `Fail` may stop a
handler at any step. The account views of the Django project run the same way:
`ATOMIC_REQUESTS` is not set, so every ORM call is a transaction of its own.

### 1.2 Inventory

| Component | Source | State | Operations | What is hard | What makes it correct |
|---|---|---|---|---|---|
| Refresh-token sessions | `api/auth/service.py`, `repo.py`, `routes/auth.py` | users, refresh tokens (revoked, replaced_by, expiry), reset tokens | register, login, refresh, logout, revoke-others, forgot, reset | interleaved workers, statements without a transaction, lost responses, expiry | rotation retires the parent, links form chains, ended sessions stay ended, a reset ends old sessions |
| Browser client | `react-app/src/lib/apiClient.js`, `contexts/AuthContext.js` | the two cookies, what each tab waits for | sign in, single-flight refresh, logout, revoke others | two tabs, logout racing refresh, answers that are late or lost, restarts | a logout ends the session, racing tabs do not |
| Login lockout | `service.login_user`, `repo.register_login_failure` | failure counter, lock time | failed/successful login, expiry of the lock | check and increment in different transactions, reset racing a failure | N failures lock, a locked account opens no session, a lock ends |
| E-mail identity, Google sign-in, seed script | the same, `routes/users.py`, `scripts/seed.py` | verify tokens, e-mail, verified flag, linked Google accounts | register, change address, verify, sign in, seed | double use, links bound to the user and not to the address, two first sign-ins at once | verified means this address was proven, a link is used once, one user per Google account |
| Django account views | `django/users/api_views.py`, `tokens.py`, `models.py` | auth_user, e-mail addresses, one-time tokens, profiles, Django sessions | sign-up, verification, reset, login, Google, profile | no UNIQUE address in auth_user, links consumed before or after their effect, whole rows saved from old reads | one account per address, no link spent for nothing, no edit lost |
| E-mail outbox | `api/services/email_service.py`, `api/tasks*` | outbox rows, Celery queue | queue, process, redeliver | row without message, duplicate delivery, worker crash | marked sent once, no row lost |
| Rate limits | `api/security/rate_limit.py`, `tenant_limits.py` | Redis counters with TTL | increment and check | window boundaries, TTL read outside the pipeline, key without TTL | at most N per window, a counter always expires |
| API processes, tenant checks, metrics | `api/main.py`, `middleware/tenant.py`, `middleware/errors.py`, `routes/*`, `metrics.py` | each process's metrics | check the tenant, count, answer, observe, scrape, restart | a counter of each process, lost answers, restarts | refusals are earned, a scrape is explained by the process it reached |
| Deployment | `digital_ocean/scripts/python/orchestrate_deploy.py`, `orchestrate_teardown.py`, `destroy_droplet.py`, `digital_ocean_base.sh` | droplets, DNS records, checkout and services of each droplet | full deploy, --update-only, --dry-run, teardown, destroy | calls that fail half way, stale lists, polling, two operators | the names end at the deployed droplet, no duplicate records, scripts end, an update serves the branch |
| Connection pool | `api/db.py` | pool global, connections | get, put, reset, close | pool replaced between capture and return | not modelled (section 6) |
| SQL migrations | `api/migrations/runner.py` | applied versions | apply pending | crash between apply and record | not modelled: nothing calls it |
| Access tokens | `api/auth/tokens.py` | none (signed JWT) | create, decode | clock | stateless |
| Django mail tasks | `django/users/tasks.py`, `emails.py` | outbox rows of the Django project | insert, send, mark | partial failures of one sequence | not modelled |
| Other operator scripts | `digital_ocean/deploy.py`, `edit.py`, `teardown.py`, ... | - | one droplet of another name, reads | retries | not modelled |
| React pages, nginx, traefik, shell and PowerShell | - | - | - | presentation and configuration | not modelled |

How they interact: the routes call the rate limiters (Redis) first and then the
auth service (PostgreSQL); forgot-password and e-mail change insert a one-time
token and an outbox row and enqueue a Celery task that marks the row sent; the
browser holds the refresh cookie and the access token and calls refresh when
the API answers 401; the deployment scripts create the machine all of this
runs on. The modelled components share rows only through the account: a module
keeps the columns its own properties read, and the statements of one handler
that touch another module's columns are left out there (a login's session row
is a step of `LoginLockout` without its content, and conversely). Two modules
compose: `BrowserClient` runs the tabs of a browser against `AuthSessions`, and
`ApiRequests` the API's processes against `TenantLimit`.

## 2. Modules

| Module | Component | With it |
|---|---|---|
| `AuthSessions` | refresh-token sessions and password reset | `SessionLedger` (what the tables promise), `AuthSessionsProofs`, `MCAuthSessions` |
| `BrowserClient` (extends `AuthSessions`) | the tabs and cookies of a browser | `AuthSessionsProofs`, `MCBrowserClient` |
| `LoginLockout` | login failures and the lock | `LoginLockoutProofs`, `MCLoginLockout` |
| `EmailIdentity` | addresses, the verified flag, its links, Google accounts, the seed script | `EmailIdentityProofs`, `MCEmailIdentity` |
| `DjangoAccounts` | the account views of the Django project | `DjangoAccountsProofs`, `MCDjangoAccounts` |
| `EmailOutbox` | outbox rows, broker, Celery worker | `EmailOutboxProofs`, `MCEmailOutbox` |
| `RateLimit` | fixed windows of the authentication routes | `RateLimitProofs`, `MCRateLimit` |
| `TenantLimit` | per-tenant limits and quotas | `TenantLimitProofs` |
| `ApiRequests` (extends `TenantLimit`) | processes, tenant checks, error handlers, metrics | `TenantLimitProofs`, `MCApiRequests` |
| `Deployment` | deploy and teardown scripts | `DeploymentProofs`, `MCDeployment` |

Conventions. A worker's program counter holds the name of the repository
function it calls next. Rows are named by order of insertion. Counters that are
only compared stop at the comparison. Some variables are history: no guard
reads them, and they are declared under that heading. The definition before an
operator whose comment begins with *Mutant* is a plausible mistake in that
operator; putting it in the operator's place breaks a property named in
`PROJECT.json`.

Many properties have the form "only an overtaken handler ...". The code takes
no locks, so most single-handler intentions ("a locked account opens no
session") are false in some interleaving. What the modules establish is the
exact exception: the anomaly needs a handler that had passed its lookup when
the row changed. The set `outran` holds those handlers; a sequential bug
breaks the property, and so does a bug that widens the window.

### 2.1 `AuthSessions`
State. `registered`, `pwd` are the rows of `api_auth_users`; `last`, `owner`,
`revoked`, `replacedBy`, `expired` those of `api_auth_refresh_tokens` (rows are
named by order of insertion, and since all have one TTL they expire in that
order); `issued`, `resetOwner`, `consumed`, `resetExpired` the password-reset
rows of `api_auth_one_time_tokens`. `delivered` are tokens that reached a
client. `pc[w]`, `req[w]`, `new[w]` are worker w's next statement, the request
with what its lookups returned, and the id of the token it inserted. A password
is abstracted to the number of times the hash has been set.

History variables, which no guard reads, give the properties their memory:
`parent` and `cred` (which token's refresh inserted this one, which password
the session was opened with), `endedBy` (what first revoked a token), `outran`
(workers whose token or credentials were revoked since they read them), `lost`
and `racy` (tokens handed out by such workers), `cut` (the password current
when the last reset revoked the user's tokens).

Actions. One per request that is accepted (`Register`, `Login`, `Refresh`,
`RefreshReuse`, `Logout`, `RevokeOthers`, `ForgotPassword`, `ResetPassword`) and
one per writing statement (`CreateUser`, `Mint`, `Retire`, `Respond`,
`AuditReuse`, `LogoutRevoke`, `RevokeOthersStep`, `SetPassword`,
`ConsumeResetToken`, `RevokeAll`), `Fail` between any two, and expiry.
`touch_refresh_token` and `reset_login_failures` write columns no property here
reads and may fail silently; they are left out of this module.

`SessionLedger` is what the tables promise without any of this: accounts are
enrolled, sessions are opened once under the next number, and ended in groups
of one account. `AuthSessions` refines it.

Three tokens are a token and two successors, the smallest fork; two uses of one
reset link need two password changes; two users are needed where a statement
could touch another user's rows. A race needs two workers; the theorems hold for
any number. No fairness: all the properties are safety. The rotation is checked
in the run of `BrowserClient`, whose steps are steps of this module
(`BrowserUsesSessions`, 4.1).

### 2.2 `BrowserClient`

Every step is a step of `AuthSessions` with what it does to the browser, or
leaves the server alone. `jar` is the cookie `base2_refresh`, `csrf` says whether
there is a cookie `base2_csrf`, `serving[w]` is the tab that waits for worker w's
answer (`Lost` when its connection is gone). A request takes the cookie as it is
when it is sent; its answer sets or clears it when it arrives, which is why the
order of answers matters. A tab refreshes whenever a call is answered 401, so
at any time; `refreshPromise` makes it one refresh at a time in each tab and
not across tabs. `Drop` is a connection that breaks while the handler runs on,
`Restart` a restart of the browser, which keeps `base2_refresh` (it has a
max-age) and loses `base2_csrf` (it has none). Another device of the same user
signs in and revokes other sessions (`Elsewhere`).

A logout commits its revocation (`CommitLogout`, or `LogoutRaises` when its bookkeeping
raises) before its answer clears the cookie (`AnswerLogout`): in between a tab may
refresh with the revoked token and be refused. Its worker still serves the tab until
the answer has arrived or is lost, and takes no other request before that. A logout
without `base2_refresh` skips the CSRF check, has nothing to revoke and is answered all the
same (`TabLogsOutBare`); a refresh without it is answered 401 and is not a step.

`signedIn` remembers whether a logout was answered since the last sign-in,
`late` the tokens that came with answers in flight at that moment, `torn` the
tokens rotated by a refresh whose answer was lost. Bounds: one account, two API
workers, two tabs, three tokens (a session and both successors of a race). No
fairness.

### 2.3 `LoginLockout`

`login_user` reads the lock (`ReadLock`), verifies the password, and then either
counts a failure (`RegisterFailure`, one UPDATE that sets `locked_until` at the
maximum) or inserts the session (`OpenSession`) and clears the counter
(`ResetFailures`): three transactions. The read and the two writes are wrapped in
`try`: `LockUnreadable` goes on without the lock, `Fail` loses the count or the
reset. `locked_until` is the time that is left of it and `Tick` lets it pass.
`blind` are workers whose read raised, `outran` those that had read the lock when
it was set, `late` the failures counted against a lock that was running.

Bounds: one user (the statements name one row), three workers so that two are
late while one locks, two failures, a lock of two ticks. Fairness: time passes,
and reads of the lock do not keep raising for ever; without the second,
failures that never see the lock would prolong it for ever.

### 2.4 `EmailIdentity`

Accounts and their address (UNIQUE), the verified flag, verify_email rows with
the user they belong to and the address they were mailed to, and the account of
each Google id. `Register`/`CreateUser`, `ChangeEmail`/`UpdateEmail`/
`IssueVerifyEmail`/`CreateLink` (PATCH /users/me), `VerifyEmail`/`SetVerified`/
`ConsumeLink`, `Google`/`LookupByEmail`/`CreateOauthAccount`/`SignIn`; `Suppressed`
is the exception the Google handler swallows and `Fail` any other; `Seed` is the
script that creates an account, or finds it by address, and sets its flag. Profile
fields and audit rows are left out. `proven` are the addresses an account has
shown to own, `stale` the accounts verified after the address had changed.

Bounds: two accounts, two addresses (enough to swap them), one Google id, two
links, two workers. No fairness.

### 2.5 `DjangoAccounts`

The tables `auth_user` (whose username is UNIQUE and whose email is not),
`users_emailaddress` (UNIQUE by address), `users_onetimetoken`, `users_oauthaccount`,
`users_userprofile`, and the session of each browser with the hash of the password
it rests on. A view is its accepting step (`Signup`, `VerifyEmail`, `ForgotPassword`,
`ResetPassword`, `Login`, `GoogleCallback`, `EditProfile`) followed by one step for
each statement that writes; `Raise` is an exception no view catches, and what
was committed stays. `NotAuthenticated` is Django's own check of the session's
hash. `project/urls.py` does not include `users/api_urls.py` today: the module
says what the views do where they are mounted. The `get_or_create` of a profile
is not a step of its own: repeating it changes nothing, and its failure is that of the
statement next to it.

`raced` are accounts inserted after another one took their address between the
lookup and the insertion, `broken` links a handler of which failed, `used` reset
links that have set a password, `outran` workers that read something that has
changed since. Bounds: two accounts, addresses, usernames and links, one Google
id, one browser, two workers, five requests (a sign-up, a link of it and a race
on one of them). No fairness.

### 2.6 `EmailOutbox`

`CreateOutboxEmail` commits the row, `SendTask` publishes its message, and
`EnqueueFails` is the exception that is logged and swallowed. The broker keeps
`copies` of a message; `Receive` acknowledges one (acks_late is not set) and
`Redeliver` is the visibility timeout. `GetOutboxEmail` and `MarkOutboxSent` are the
two statements of `process_outbox_email`; `Crash` loses the message in work.
`TaskRegistered` says whether the worker knows the task. In the code it does not
(section 5): the run `outbox` shows what the code does once that is repaired,
and `outbox_unregistered` what it does now. The theorems say what holds of either worker
(4.3).

Bounds: two rows, three processes, three copies, so that two processes can hold
one row while a third handles the other. Fairness: the API handler runs on, a
process finishes what it took, and the broker's queue is first in, first out
(strong fairness of `Receive` for each row, since a process is free only from
time to time). The run does not check deadlock: when everything is sent the
system stops.

### 2.7 `RateLimit`, `TenantLimit` and `ApiRequests`

`RateLimit` is the counter of one identifier and scope. A worker reads the
clock, chooses the window (`Arrive`), and is counted later (`Execute`, INCR and
PEXPIRE in one transaction), possibly when the window is over and its key gone.
`allowed` records when the requests that were let through had read the clock.
Time is in ticks, `Second` of them to a second, so that Retry-After is rounded.

`TenantLimit` starts its window at the first request and reads the time to live
before the transaction: the key may expire in between, and a counter may come
back without a time to live. `allowed` holds the requests let through, by age.

`ApiRequests` puts it into the gunicorn processes. `TenantEcho` checks the tenant of
the header against the path's before it counts; every other route is an answer
without state (`OtherRoute`). An answer, and an exception that passes through the
access log, is observed in metrics of the process alone; `RedisFails` is the 500
of a request Redis may have counted. `Restart` replaces a process wherever it is.
`scrape` is what the last scrape showed and from which process.

Bounds: `RateLimit` has windows of three ticks, a maximum of two, and time up to
the start of the third window (a request of the first can be two windows late).
`ApiRequests` has two processes, a window of two ticks and a maximum of three:
fewer processes than requests in a window, as `RefusalsAreEarned` says nothing
otherwise; two of them can both count without a time to live, or both set one.
Neither needs a bound on time except `RateLimit`. Fairness: time passes.

### 2.8 `Deployment`

Each call of the provider's API is a step of a script, and `Fail` may stop the
script at any of them. `record` are the DNS records by id; an address is
abstracted to the droplet it belongs to (0: something older). `StartFull` creates
a droplet, `Activate` ends the wait for it; `StartUpdate` takes the newest.
`ensure_dns_records_for_droplet` is `List`, `Address` (the wait for IPv6, after the
list), `UpdateRecord` for each record it recognises, `CreateRecord` for each one it
did not find, `Settle`. The rest of a full deploy is `Poll`, `StartServices`,
`PostDeployFails`. Teardown is `StartTeardown`, `DeleteDroplet`, `ListForCleaning`,
`DeleteRecord`, `Cleaning`. `Destroy` is `destroy_droplet.py`: one call with the id of
any droplet, whatever other scripts are doing with it, and its records stay.
`BecomeActive` and `AssignIPv6` are the provider,
`UserData` the first boot, `Push` a commit. `Plan` is the list of records a deploy
creates, in the code's order; `Other` stands for wildcards and names that contain
the domain, which it updates only. IPv6 is taken to be enabled (the default).
A list longer than one page is not modelled.

Bounds: `deploy_race` has two terminals, one droplet, the A record of @, an older
record of any kind (a wildcard among the names) or none, and two in all: enough
for two scripts to create one record each, for one to delete what the other
has listed, and for a droplet to vanish under a script. `deploy_update_only` has one
terminal and longer plans, and the theorems hold for every plan. The second droplet
that a full deploy creates after one that failed is not in the run, which does not end
within minutes with it; `DeploysOwnTheNames` and `DuplicatesAreRaced` are proved for any
number of droplets. A creation beyond
the bound on records counts as a call that raises (`CreateRefused`). Fairness: a
started script goes on and the provider activates a droplet; nothing is assumed
of `Fail`, of IPv6, of the user data or of the other terminal.

## 3. Runs

| Run | Properties | What it shows |
|---|---|---|
| `sessions_rotation` (`BrowserClient`) | ReplacementLinks, SuccessorRetiresParent, OnlyOvertakenRefreshesFork, EndedSessionsHaveNoLateSuccessor, OnlyOverlappingAnswersUndoLogout, RacingTabsKeepTheCookie | rotation under two tabs, another device, logout, revoke-others, lost answers and restarts of the browser |
| `sessions_reset` | OnlyOvertakenSessionsOutliveReset, ImplementsLedger | 2 users, 2 workers, 2 tokens, 1 link, 2 changes: what survives a reset; refinement of the ledger |
| `lockout` | LockFollowsCount, LateGuessesBounded, OnlyOvertakenLoginsPassALock, LocksEnd | counter and lock agree; a lock is passed only by logins that had read it before; it ends |
| `identity` | VerifiedAddressIsProven, OnlyOvertakenUsesRepeat, LinksAreForOwners, GoogleSignsInLinkedUser | the flag follows the address; links are used once; a Google account is linked once and signs in there |
| `django_accounts` | SharedAddressesAreRaced, SpentLinksVerify, OnlyOvertakenResetsRepeat, GoogleSignsInLinkedUser, OnlyOvertakenEditsAreLost | shared addresses, spent links, repeated resets and lost edits have each a race or a failure behind them |
| `outbox` | MessagesHaveRows, QueuedRowsAreOnTheirWay, OnlyOvertakenProcessesResend, QueuedIsSentOrLost | no message before its row, no row forgotten without a failure, everything sent or lost |
| `rate_limit` | TypeOK, WindowIsLimited, RetryAfterIsExact | a window's maximum holds but for late requests; Retry-After names the next window |
| `tenant_limit` (`ApiRequests`) | UnexpiringCounterIsSmall, AtMostTwiceTheMaximum, CountersRunOut, RefusalsAreEarned, CountersFallOnlyAcrossProcesses | a counter without time to live stays small and runs out; twice the maximum in any window; a tenant is refused for its own last window; scrapes |
| `deploy_race` | DuplicatesComeFromRaces, ScriptsEnd, DeployOwnsTheNames | duplicates need two scripts; every script ends; an undisturbed deploy leaves every name at its droplet, after any failures |
| `sessions_reuse` | ReuseRevokesFamily, violated | section 5 |
| `outbox_unregistered` | WorkerMarksSent, violated | section 5 |
| `deploy_update_only` | UpdateServesTheBranch, violated | section 5 |

Where a module's `TypeOK` is proved as part of an inductive invariant, no run
repeats it.

## 4. Proofs

Every theorem holds for all values of the constants that the module's named
assumption allows. Those assumptions say that the null value is not an element,
that bounds are naturals (positive where the code needs it) and, where a
cardinality is taken, that the set of workers is finite.

### 4.1 `AuthSessionsProofs`

It proves, for every set of users and workers and every
bound, `TypeCorrect` and one theorem for each safety property of the passing
runs, and `TablesImplementLedger`. The only assumption is `SessionConstants`
(`NoUser` is not a user, the bounds are naturals); for the browser, also
`BrowserConstants` (the two null clients are not tabs).

None of the properties is inductive. `IInv` adds, in four parts:

* `StateOK`: types, accounts named by rows exist, and `HandlerOK`: what a
  handler knows at each statement (the token it presented was delivered and
  belongs to its user; the token it inserted exists, is newer, and has the
  presented one as parent).
* `OvertakenOK`: a refresh whose token has been revoked since its lookup is in
  `outran`. This is what turns "the row is revoked already" at `Retire` into
  "this refresh was overtaken".
* `LineageOK`: the properties about parents, for `Settled` tokens: those
  delivered and those whose response is due. Between `Retire` and `Respond` a
  token is not delivered yet, and the property about delivered tokens alone
  would not be preserved by `Respond`.
* `ResetOK`: the same for passwords, with what a login knows before it inserts
  and a refresh before it revokes.

`StateOK` is proved inductive first, then the other three from frame lemmas
(`OvertakenKeeps`, `LineageKeeps`, `ResetKeeps`) that say what a step may touch;
`Mint`, `Retire` and `RevokeAll` argue about the tokens they touch. `IInv` was
model-checked on the instances above before it was proved.

The module ends with the browser. `BrowserUsesSessions` proves that
`BrowserSpec` implements `Spec`, so all of the above holds with any number of
tabs; `LogoutEndsTheBrowsersSession` and `RacesKeepTheCookie` prove the two
properties of `BrowserClient`. The first needs `CookieOK`: the cookie holds a
token that the browser was given, so a tab presents only delivered ones, and a
refresh always has a client. The second needs `LogoutOK`: once a logout is
answered, every refresh that a tab still waits for was in flight then or
presents a token that was itself late. The third needs `FreshOK`, a fact
of the server: a token that an answer carries is in nobody's hands and no other
worker's, and only delivered tokens have been rotated, so the cookie that an
answer sets has not been rotated yet.

### 4.2 `LoginLockoutProofs`

`IInv` is `TypeOK`, `LockFollowsCount` and `RaceOK`. `LateGuessesBounded` is not
inductive: a count of late guesses says nothing about how many may still come.
`RaceOK` says that while a lock runs the guesses counted against it and the
workers that may still be counted (past the lock, not blind) are together fewer
than the workers, and that each of those is in `outran`. A guess moves
one worker from the second number to the first. `LocksStopLogins` is the action
property, from the same invariant, and so is `LocksOnlyCountDown`, the half of
`LocksEnd` that speaks of no fairness: while a lock runs, a step takes a tick
from it, or a worker that was past it is done (its guess may have begun the term
again), or the lock and those workers stay as they are. None joins them unless its
read of the lock raises.

### 4.3 `EmailOutboxProofs`

`PublishedOnce` is needed even for the type of `copies`: `SendTask` adds a message
without a guard, and only the fact that a row in `publishing` has none in the
broker keeps the number within the bound. `QueuedRowsAreNotForgotten` is proved
under `TaskRegistered`; without it, it is false. `ResendsComeFromRaces` rests on
`OvertakenOK`: a process that holds a row read as queued which is sent by now is
in `outran`.

None of the other theorems assumes `TaskRegistered`. `Drops(r)` is the receipt of a message
of `r` by a worker that does not know the task, which is the worker of the code as it
stands; `UnregisteredWorkersSendNothing` says what such a worker comes to: no process works
on a row, and no row is marked sent.

The liveness of the outbox is proved from a hypothesis without ENABLED. A row's
`Stage` counts what it has behind it: a message, a process that holds it, a process
that has read it, and being sent or lost. `Serve(r)` is the step that `r` waits for at
its stage. `RowsOnlyMoveOn`: no step of whatever process sends a row back, and
`Serve(r)` moves it on, except that `Drops(r)` takes its message away. `Served(r)` says
that a row that stays queued is served again and again, unless a message of it is
dropped. `ServedRowsAreSentOrLost` concludes from `\A r \in Row : Served(r)` that a queued
row is sent, lost or dropped and, where the worker knows the task, `QueuedIsSentOrLost`.
That the weak fairness of `LiveSpec` gives `Served` is the
one part left to TLC, which checks `QueuedIsSentOrLost` under `LiveSpec` as a whole.

### 4.4 `TenantLimitProofs`

`UnexpiringOK`: the requests a counter without a time to live has counted, and
the workers in flight that would be counted without setting one, are together
no more than the workers. A counted request moves one from the second to the
first; every new arrival would set a time to live.

The same module proves that `ApiRequests` implements `TenantLimit`
(`ApiImplementsTenantLimit`: every step of a process is a step of the counter or
leaves it alone), so its theorems hold for the processes with their restarts,
and `CountersArePerProcess`: a process has observed at least what it last showed,
until it is restarted.

`AtMostTwiceTheMaximum` and `RefusalsAreEarned` sum a history over the ticks of a window
with `SumFunction`, a fold. What that fold computes is proved first: the induction is
over the cardinalities for which it might fail, a set of numbers with a least element
(`NatSets`), so that no theorem with an operator parameter is needed. `SumsRemove` says
that an element may be taken out anywhere, whatever order the fold chooses, and
`RecentSums` turns a sum over the window into partial sums `Recent(f, k)`, the last `k`
ticks, of which `RecentIncrement` (one more request now) and `RecentOlder` (a tick) are all
that the invariants use.

`AtMostTwice` rests on `TwoKeys`: some number `b` of ticks divides the window so that
what was let through in the last `b` was counted by the present key and what was let
through before by one key that had expired by then, and each key lets the maximum
through. `RefusedWhenEarned` rests on `Earned`: a counter that was given its time to live
once has counted no more than the requests since, whose age its time to live tells
(`Age`), and one of each worker from before. `CountersOnlyRunDown` is the half of
`CountersRunOut` that speaks of no fairness. The first and the last hold for the
processes of `ApiRequests` as well (`ApiAtMostTwice`, `ApiCountersOnlyRunDown`), through
`ApiImplementsTenantLimit`.

### 4.5 `EmailIdentityProofs`

`BaseOK` is `TypeOK` with what each worker knows at each statement (`RequestOK`: the
account it found exists, the operation fits the statement). On it rest three
independent strengthenings: `FlagsOK`, a worker about to set the flag has a proof
of the address it found; `RepeatOK`, one about to set it by a consumed link is in
`outran`; `GoogleOK`, a Google handler that was not overtaken has settled on an
account with the address, and the Google account is not linked, or to that one.

### 4.6 `RateLimitProofs`

`WindowOfTime` and `OneWindow` say that every time belongs to exactly one window,
the one `BucketStart` names: the arithmetic of `%` with a variable divisor, from
the quotient. `RetriesAreExact` follows from `RetryRange`, a lemma about every time,
window and resolution. `WindowIsLimited` is not inductive, since Redis may forget a
key; `WindowOK` adds that until a window is over its key outlives it, so that the
counter has counted every request that was let through. The requests are a
finite set that grows by one element at a time.

### 4.7 `DeploymentProofs`

`KnowledgeOK` says what a script that nobody has disturbed still knows: its list
is the zone, no record of a name it is about to create exists, and, unless it is
a dry run, every record it recognises either points at its droplet or is on its
list of updates, and every planned name has a record or is still to be created.
`AdvanceKeeps` says what a script's step does to the others (nothing, except that
it disturbs those that have read the records when it changes one), `AdvanceKnows`
what it leaves itself. `DuplicatesAreRaced` and `DeploysOwnTheNames` follow, for every
number of terminals, droplets and older records and every plan without
repetitions.

`ScriptsOnlyMoveOn` is the half of `ScriptsEnd` that speaks of no fairness: each step of a
script ends it, takes it to the next statement or leaves it one record fewer to work
on, and no step of another terminal, the provider or a machine sends it back or adds
to its work. `AwaitedDropletsExist` adds that the one loop without a limit waits for a
droplet that was created, so that the provider activates it or the call raises.

### 4.8 `DjangoAccountsProofs`

`BaseOK` is `TypeOK` with what each view knows at each statement (`RequestOK`: from which
statement on it holds an account, a link, an address, a Google id). The tables are kept in
three parts (accounts, links, rows), and `QuietOrWrites` names the statements that write.
The lemma `Stable` carries most of the rest: an account's address, a link's account and
purpose, the account of an address's row and of a Google id never change once written.
`SpentLinksAreHonoured` needs `MailOK` (the row of a verification link's address is its
account's: a sign-up reaches the link only through `CreateEmailAddress`, and rows are not
given away); `SharedAddressesComeFromRaces` needs `FreeOK` (a view about to insert finds its
address free unless it was overtaken); `ResetsRepeatInRacesOnly` and
`EditsAreLostToRacesOnly` follow from `ResetsOK` and `EditsOK`, which say of `outran` that it
holds whoever may act on a stale read; `GoogleSignsInOneAccount` from `LinkedOK`. The proof
asks that a password column can be set at least once (`MaxPasswords # 0`).

### 4.9 What is only model-checked

Every invariant and every action property of the runs is proved. What stays with TLC
is liveness under fairness, which needs ENABLED: `LocksEnd`, `CountersRunOut`,
`ScriptsEnd`, and `QueuedIsSentOrLost` under `LiveSpec`. Of each the part
that needs no fairness is proved: what is waited for is never undone, and each step
waited for brings the end nearer.

## 5. Where code and documents disagree

With a run:

1. `deploy_update_only`: everything after the DNS records is in the branch of the
   full deploy (`orchestrate_deploy.py:605-961`), the statements written for
   `--update-only` (764-796) included. Such a run neither pulls nor rebuilds, and
   ends with 0. (`deploy.ps1` pulls on the droplet itself afterwards.)
2. `outbox_unregistered`: `api/tasks.py` hides the directory `api/tasks`, so the
   task is never registered and queued e-mails stay queued.
3. `sessions_reuse`: reuse of a rotated token is audited but does not revoke the
   family.

Without a run; the properties of the passing runs state what holds instead:

4. A reset or a logout does not end a session whose refresh, or login, is in
   flight (`OnlyOvertakenSessionsOutliveReset`, `EndedSessionsHaveNoLateSuccessor`),
   and two concurrent refreshes of one token both succeed
   (`OnlyOvertakenRefreshesFork`).
5. A link mailed to an earlier address verifies the present one
   (`VerifiedAddressIsProven`).
6. Windows are aligned to the clock: around a boundary up to twice the maximum
   is let through in one window's length (`WindowIsLimited`).
7. `--dry-run` promises that no changes are made, but a full dry run creates its
   droplet, rewrites the local .env and starts the services; only the DNS
   records are spared (`StartFull` with `isDry`).
8. AAAA records of www are recognised by no deploy and keep an older droplet's
   address, although stale AAAA records are what the wait for IPv6 is there to
   avoid (`Matched`).
9. `api/metrics.py` declares its counters `# TYPE ... counter`, but each process has
   its own and `API_WORKERS` defaults to two: what a scraper reads falls whenever
   the other process answers (`CountersFallOnlyAcrossProcesses`). Its percentile is
   called nearest-rank and rounds 0.95(n-1) instead, another sample for some n.
10. `_ensure_csrf_cookie` gives `base2_csrf` no max-age (`routes/auth.py:59`), so after a
   restart of the browser the refresh cookie is still there and both refresh and
   logout are answered 403; the Google sign-in (721) sets the refresh cookie
   without it altogether. `RacingTabsKeepTheCookie` says that the token is kept all
   the same.

## 6. Not modelled

* Connection pool: each worker process runs one handler at a time and its
  statements one after the other, so the pool is used by one thread; the modules
  take a statement to have a connection or to fail.
* Migrations runner: nothing calls it; the schema is Django's, and the API must
  not run migrations at boot (`main.py:117`).
* Access tokens and password hashes: functions of their inputs and the clock.
* Django mail tasks: a row is inserted, sent and marked by one process.
* Other operator scripts: droplets of another name, in one call or two.
* Presentation, logging, tracing, settings, proxies, shell and PowerShell tooling.

Each is listed in `PROJECT.json` with its reason. Within the modelled components:
audit rows and profile fields (except in `DjangoAccounts`) are left out, lists of the
provider's API longer than one page, the percentile and the text of the metrics,
and the verification of Google's ID token, which is external.

## 7. Plan

Done: the modules of section 2 and the theorems of section 4. What would come
next: from the fairness of actions to `Served` and from the other progress theorems to
their liveness properties, should the prover learn ENABLED and induction over
temporal formulas; an abstract specification of the accounts that `EmailIdentity` and
`DjangoAccounts` both implement; and sessions whose TTL ends while the
browser holds them, which `BrowserClient` leaves out.
