---------------------------- MODULE AuthSessions ----------------------------
(***************************************************************************)
(* Refresh-token sessions of the API: src/api/auth/service.py and          *)
(* src/api/routes/auth.py over the tables of src/api/auth/repo.py.         *)
(*                                                                         *)
(* Every gunicorn worker runs one handler at a time, and every repository  *)
(* call is a transaction of its own (conn.autocommit = True).  A handler   *)
(* is therefore a sequence of steps, one per database statement that       *)
(* writes; its leading reads are the step that accepts the request.        *)
(* pc[w] names the statement that worker w executes next.  A worker may    *)
(* die, or a statement may raise, between any two steps (Fail).            *)
(*                                                                         *)
(* Refresh tokens and reset tokens are named by order of insertion.        *)
(* A password is named by how many times the user's hash has been set      *)
(* since registration.  Unknown tokens, wrong passwords and requests that  *)
(* fail validation read and change nothing of this state and are left out. *)
(***************************************************************************)
EXTENDS Naturals

CONSTANTS
  User,          \* accounts, by normalised e-mail
  Worker,        \* API worker processes (API_WORKERS)
  NoUser,        \* owner of a row that has not been inserted
  MaxTokens,     \* bound: rows ever inserted in api_auth_refresh_tokens
  MaxResets,     \* bound: password-reset rows in api_auth_one_time_tokens
  MaxPasswords   \* bound: password changes per user

ASSUME SessionConstants ==
  /\ NoUser \notin User
  /\ MaxTokens \in Nat
  /\ MaxResets \in Nat
  /\ MaxPasswords \in Nat

Token    == 1..MaxTokens
Token0   == 0..MaxTokens          \* 0: no token (a NULL column)
Reset    == 1..MaxResets
Reset0   == 0..MaxResets
Password == 0..MaxPasswords

Cause == {"none", "refresh", "logout", "others", "reset"}

PC == {"idle", "create_user", "create_refresh_token", "revoke_refresh_token",
       "respond", "set_user_password_hash", "consume_one_time_token",
       "revoke_all", "revoke_all_except", "audit_reuse"}

Request ==
  [op   : {"none", "register", "login", "refresh", "reuse", "logout",
           "others", "reset"},
   user : User \cup {NoUser},
   tok  : Token0,                 \* the refresh token presented
   cred : Password,               \* the password the session rests on
   ott  : Reset0]                 \* the reset token presented

NewRequest(o, u, t, c, r) ==
  [op |-> o, user |-> u, tok |-> t, cred |-> c, ott |-> r]

NoRequest == NewRequest("none", NoUser, 0, 0, 0)

VARIABLES
  \* api_auth_users
  registered,    \* users with a row
  pwd,           \* password_hash
  \* api_auth_refresh_tokens; rows 1..last exist
  last, owner,
  revoked,       \* rows whose revoked_at is not NULL
  replacedBy,    \* replaced_by_token_id
  expired,       \* rows 1..expired are past expires_at (one TTL for all)
  \* api_auth_one_time_tokens of type password_reset; rows 1..issued exist
  issued, resetOwner, consumed, resetExpired,
  \* the clients
  delivered,     \* refresh tokens that reached a client in a response
  \* the workers
  pc, req, new,
  \* history variables: no guard reads them
  parent,        \* the token whose refresh inserted this one, or 0
  cred,          \* the password its session was opened with
  endedBy,       \* what first revoked the token
  outran,        \* workers overtaken by a revocation since they read
  lost,          \* tokens handed out by an overtaken refresh
  racy,          \* tokens of an overtaken login or refresh, and successors
  cut            \* per user, the password current at the last revoke_all

userVars   == <<registered, pwd>>
tokenVars  == <<last, owner, revoked, replacedBy, expired>>
resetVars  == <<issued, resetOwner, consumed, resetExpired>>
workerVars == <<pc, req, new>>
mintVars   == <<last, owner, parent, cred>>
endVars    == <<revoked, endedBy, outran>>
historyVars == <<parent, cred, endedBy, outran, lost, racy, cut>>
vars == <<userVars, tokenVars, resetVars, delivered, workerVars, historyVars>>

Init ==
  /\ registered = {}
  /\ pwd = [u \in User |-> 0]
  /\ last = 0
  /\ owner = [t \in Token |-> NoUser]
  /\ revoked = {}
  /\ replacedBy = [t \in Token |-> 0]
  /\ expired = 0
  /\ issued = 0
  /\ resetOwner = [r \in Reset |-> NoUser]
  /\ consumed = {}
  /\ resetExpired = 0
  /\ delivered = {}
  /\ pc = [w \in Worker |-> "idle"]
  /\ req = [w \in Worker |-> NoRequest]
  /\ new = [w \in Worker |-> 0]
  /\ parent = [t \in Token |-> 0]
  /\ cred = [t \in Token |-> 0]
  /\ endedBy = [t \in Token |-> "none"]
  /\ outran = {}
  /\ lost = {}
  /\ racy = {}
  /\ cut = [u \in User |-> 0]
-----------------------------------------------------------------------------
(* The statements of src/api/auth/repo.py that write.                      *)

(* Workers that looked a token of S up and have not spent it yet.          *)
Holding(S) ==
  {w \in Worker : /\ req[w].op = "refresh"
                  /\ pc[w] \in {"create_refresh_token", "revoke_refresh_token"}
                  /\ req[w].tok \in S}

(* Workers about to open a session for u with credentials they have read.  *)
Opening(u) ==
  {w \in Worker : pc[w] = "create_refresh_token" /\ req[w].user = u}

(* History: the rows of S are revoked by worker w; the workers in V, which *)
(* read before, have been overtaken.                                       *)
MarkEnded(S, cause, w, V) ==
  /\ endedBy' = [t \in Token |->
                   IF t \in S \ revoked THEN cause ELSE endedBy[t]]
  /\ outran' = (outran \cup V) \ {w}

TokensOf(u) == {t \in 1..last : owner[t] = u}

CreateRefreshToken(u, p, c) ==
  /\ last' = last + 1
  /\ owner' = [owner EXCEPT ![last + 1] = u]
  /\ parent' = [parent EXCEPT ![last + 1] = p]
  /\ cred' = [cred EXCEPT ![last + 1] = c]

(* Mutants of the two statements below.                                    *)
LinkWithoutRevoking(t, successor) ==
  /\ revoked' = revoked
  /\ replacedBy' = [replacedBy EXCEPT ![t] = successor]

RevokeLinkedWrongWay(t, successor) ==
  /\ revoked' = revoked \cup {t}
  /\ replacedBy' = IF successor = 0 THEN replacedBy
                   ELSE [replacedBy EXCEPT ![successor] = t]

(* Unconditional: also rewrites a row that is revoked already.             *)
RevokeRefreshToken(t, successor) ==
  /\ revoked' = revoked \cup {t}
  /\ replacedBy' = [replacedBy EXCEPT ![t] = successor]

KeepIsReactivated(u, keep) ==
  revoked' = (revoked \cup TokensOf(u)) \ {keep}

RevokeAllRefreshTokensExcept(u, keep) ==
  revoked' = revoked \cup (TokensOf(u) \ {keep})

RevokeOnlySuccessors(u) ==
  revoked' = revoked \cup {t \in TokensOf(u) : parent[t] # 0}

RevokeAllRefreshTokens(u) ==
  revoked' = revoked \cup TokensOf(u)
-----------------------------------------------------------------------------
(* The handlers.                                                           *)

Accept(w, r, step) ==
  /\ pc[w] = "idle"
  /\ req' = [req EXCEPT ![w] = r]
  /\ pc' = [pc EXCEPT ![w] = step]
  /\ UNCHANGED new

Goto(w, step) ==
  /\ pc' = [pc EXCEPT ![w] = step]
  /\ UNCHANGED <<req, new>>

Finish(w) ==
  /\ pc' = [pc EXCEPT ![w] = "idle"]
  /\ req' = [req EXCEPT ![w] = NoRequest]
  /\ new' = [new EXCEPT ![w] = 0]

(* POST /auth/register.  The e-mail is looked up; then the user is         *)
(* inserted, where the UNIQUE constraint turns a lost race into a 500.     *)
Register(w, u) ==
  /\ u \notin registered
  /\ Accept(w, NewRequest("register", u, 0, 0, 0), "create_user")
  /\ UNCHANGED <<userVars, tokenVars, resetVars, delivered, historyVars>>

CreateUser(w) ==
  /\ pc[w] = "create_user"
  /\ \/ /\ req[w].user \notin registered
        /\ registered' = registered \cup {req[w].user}
        /\ Goto(w, "create_refresh_token")
     \/ /\ req[w].user \in registered
        /\ Finish(w)
        /\ UNCHANGED registered
  /\ UNCHANGED <<pwd, tokenVars, resetVars, delivered, historyVars>>

(* POST /auth/login with the password whose hash the handler has read.     *)
Login(w, u) ==
  /\ u \in registered
  /\ Accept(w, NewRequest("login", u, 0, pwd[u], 0), "create_refresh_token")
  /\ UNCHANGED <<userVars, tokenVars, resetVars, delivered, historyVars>>

RefreshRevokedToo(w, t) ==
  /\ t \in delivered /\ t > expired
  /\ Accept(w, NewRequest("refresh", owner[t], t, cred[t], 0), "create_refresh_token")
  /\ UNCHANGED <<userVars, tokenVars, resetVars, delivered, historyVars>>

(* POST /auth/refresh with a token that is neither revoked nor expired.    *)
Refresh(w, t) ==
  /\ t \in delivered
  /\ t \notin revoked
  /\ t > expired
  /\ Accept(w, NewRequest("refresh", owner[t], t, cred[t], 0), "create_refresh_token")
  /\ UNCHANGED <<userVars, tokenVars, resetVars, delivered, historyVars>>

(* POST /auth/refresh with a revoked token: an audit event, then 401.      *)
RefreshReuse(w, t) ==
  /\ t \in delivered
  /\ t \in revoked
  /\ Accept(w, NewRequest("reuse", owner[t], t, 0, 0), "audit_reuse")
  /\ UNCHANGED <<userVars, tokenVars, resetVars, delivered, historyVars>>

AuditReuse(w) ==
  /\ pc[w] = "audit_reuse"
  /\ Finish(w)
  /\ UNCHANGED <<userVars, tokenVars, resetVars, delivered, historyVars>>

(* register, login and refresh insert the new refresh token.               *)
Mint(w) ==
  /\ pc[w] = "create_refresh_token"
  /\ last < MaxTokens
  /\ CreateRefreshToken(req[w].user, req[w].tok, req[w].cred)
  /\ new' = [new EXCEPT ![w] = last + 1]
  /\ pc' = [pc EXCEPT ![w] = IF req[w].op = "refresh"
                             THEN "revoke_refresh_token" ELSE "respond"]
  /\ racy' = IF w \in outran \/ req[w].tok \in racy
             THEN racy \cup {last + 1} ELSE racy
  /\ UNCHANGED <<userVars, revoked, replacedBy, expired, resetVars, delivered,
                 req, endedBy, outran, lost, cut>>

(* refresh revokes the token it was given and links it to the new one.     *)
Retire(w) ==
  /\ pc[w] = "revoke_refresh_token"
  /\ req[w].op = "refresh"
  /\ RevokeRefreshToken(req[w].tok, new[w])
  /\ Goto(w, "respond")
  /\ MarkEnded({req[w].tok}, "refresh", w, Holding({req[w].tok}))
  /\ lost' = IF w \in outran THEN lost \cup {new[w]} ELSE lost
  /\ racy' = IF w \in outran THEN racy \cup {new[w]} ELSE racy
  /\ UNCHANGED <<userVars, last, owner, expired, resetVars, delivered,
                 parent, cred, cut>>

(* The audit row is inserted and the response reaches the client.          *)
Respond(w) ==
  /\ pc[w] = "respond"
  /\ delivered' = delivered \cup {new[w]}
  /\ Finish(w)
  /\ outran' = outran \ {w}
  /\ UNCHANGED <<userVars, tokenVars, resetVars, parent, cred, endedBy, lost,
                 racy, cut>>

(* POST /auth/logout.  The row is looked up and revoked whatever its state. *)
Logout(w, t) ==
  /\ t \in delivered
  /\ Accept(w, NewRequest("logout", owner[t], t, 0, 0), "revoke_refresh_token")
  /\ UNCHANGED <<userVars, tokenVars, resetVars, delivered, historyVars>>

LogoutRevoke(w) ==
  /\ pc[w] = "revoke_refresh_token"
  /\ req[w].op = "logout"
  /\ RevokeRefreshToken(req[w].tok, 0)
  /\ Finish(w)
  /\ MarkEnded({req[w].tok}, "logout", w, Holding({req[w].tok}))
  /\ UNCHANGED <<userVars, last, owner, expired, resetVars, delivered,
                 parent, cred, lost, racy, cut>>

(* POST /auth/sessions/revoke-others.  The token must belong to the user   *)
(* of the access token; it may itself be revoked or expired.               *)
RevokeOthers(w, t) ==
  /\ t \in delivered
  /\ Accept(w, NewRequest("others", owner[t], t, 0, 0), "revoke_all_except")
  /\ UNCHANGED <<userVars, tokenVars, resetVars, delivered, historyVars>>

RevokeOthersStep(w) ==
  LET u == req[w].user
      S == TokensOf(u) \ {req[w].tok}
  IN  /\ pc[w] = "revoke_all_except"
      /\ RevokeAllRefreshTokensExcept(u, req[w].tok)
      /\ Finish(w)
      /\ MarkEnded(S, "others", w, Holding(S))
      /\ UNCHANGED <<userVars, last, owner, replacedBy, expired, resetVars,
                     delivered, parent, cred, lost, racy, cut>>

(* POST /auth/forgot-password for a registered address: one insertion.     *)
ForgotPassword(u) ==
  /\ u \in registered
  /\ issued < MaxResets
  /\ issued' = issued + 1
  /\ resetOwner' = [resetOwner EXCEPT ![issued + 1] = u]
  /\ UNCHANGED <<userVars, tokenVars, consumed, resetExpired, delivered,
                 workerVars, historyVars>>

(* POST /auth/reset-password with a usable token and a valid password.     *)
ResetPassword(w, r) ==
  /\ r \in 1..issued
  /\ r \notin consumed
  /\ r > resetExpired
  /\ Accept(w, NewRequest("reset", resetOwner[r], 0, 0, r), "set_user_password_hash")
  /\ UNCHANGED <<userVars, tokenVars, resetVars, delivered, historyVars>>

SetPassword(w) ==
  LET u == req[w].user
  IN  /\ pc[w] = "set_user_password_hash"
      /\ pwd[u] < MaxPasswords
      /\ pwd' = [pwd EXCEPT ![u] = @ + 1]
      /\ Goto(w, "consume_one_time_token")
      /\ UNCHANGED <<registered, tokenVars, resetVars, delivered, historyVars>>

ConsumeResetToken(w) ==
  /\ pc[w] = "consume_one_time_token"
  /\ consumed' = consumed \cup {req[w].ott}
  /\ Goto(w, "revoke_all")
  /\ UNCHANGED <<userVars, tokenVars, issued, resetOwner, resetExpired,
                 delivered, historyVars>>

RevokeAll(w) ==
  LET u == req[w].user
      S == TokensOf(u)
  IN  /\ pc[w] = "revoke_all"
      /\ RevokeAllRefreshTokens(u)
      /\ Finish(w)
      /\ MarkEnded(S, "reset", w, Holding(S) \cup Opening(u))
      /\ cut' = [cut EXCEPT ![u] = pwd[u]]
      /\ UNCHANGED <<userVars, last, owner, replacedBy, expired, resetVars,
                     delivered, parent, cred, lost, racy>>

(* Any handler may stop between two statements: the worker is killed, or a *)
(* statement raises and the route answers 500 (204 from logout), or the    *)
(* response is lost.  What is committed stays.                             *)
Fail(w) ==
  /\ pc[w] # "idle"
  /\ Finish(w)
  /\ outran' = outran \ {w}
  /\ UNCHANGED <<userVars, tokenVars, resetVars, delivered, parent, cred,
                 endedBy, lost, racy, cut>>

(* Time passes: with one TTL rows expire in the order of their insertion.  *)
ExpireToken ==
  /\ expired < last
  /\ expired' = expired + 1
  /\ UNCHANGED <<userVars, last, owner, revoked, replacedBy, resetVars,
                 delivered, workerVars, historyVars>>

ExpireReset ==
  /\ resetExpired < issued
  /\ resetExpired' = resetExpired + 1
  /\ UNCHANGED <<userVars, tokenVars, issued, resetOwner, consumed, delivered,
                 workerVars, historyVars>>

Handler(w) ==
  \/ CreateUser(w) \/ Mint(w) \/ Retire(w) \/ Respond(w) \/ AuditReuse(w)
  \/ LogoutRevoke(w) \/ RevokeOthersStep(w)
  \/ SetPassword(w) \/ ConsumeResetToken(w) \/ RevokeAll(w)

Arrive(w) ==
  \/ \E u \in User : Register(w, u) \/ Login(w, u)
  \/ \E t \in Token : \/ Refresh(w, t) \/ RefreshReuse(w, t)
                      \/ Logout(w, t) \/ RevokeOthers(w, t)
  \/ \E r \in Reset : ResetPassword(w, r)

Next ==
  \/ \E w \in Worker : Arrive(w) \/ Handler(w) \/ Fail(w)
  \/ \E u \in User : ForgotPassword(u)
  \/ ExpireToken
  \/ ExpireReset

Spec == Init /\ [][Next]_vars
-----------------------------------------------------------------------------
(* The type of the state, with the facts about row numbers that the        *)
(* statements rely on: only inserted rows are owned, revoked, expired,     *)
(* delivered or presented (the WHERE clauses of repo.py).                  *)
TablesTyped ==
  /\ registered \in SUBSET User
  /\ pwd \in [User -> Password]
  /\ last \in Token0
  /\ owner \in [Token -> User \cup {NoUser}]
  /\ \A t \in Token : t <= last <=> owner[t] # NoUser
  /\ revoked \in SUBSET (1..last)
  /\ replacedBy \in [Token -> 0..last]
  /\ expired \in 0..last
  /\ issued \in Reset0
  /\ resetOwner \in [Reset -> User \cup {NoUser}]
  /\ \A r \in Reset : r <= issued <=> resetOwner[r] # NoUser
  /\ consumed \in SUBSET (1..issued)
  /\ resetExpired \in 0..issued
  /\ delivered \in SUBSET (1..last)

WorkersTyped ==
  /\ pc \in [Worker -> PC]
  /\ req \in [Worker -> Request]
  /\ new \in [Worker -> 0..last]

HistoryTyped ==
  /\ parent \in [Token -> Token0]
  /\ cred \in [Token -> Password]
  /\ endedBy \in [Token -> Cause]
  /\ outran \in SUBSET Worker
  /\ lost \in SUBSET (1..last)
  /\ racy \in SUBSET (1..last)
  /\ cut \in [User -> Password]

TypeOK == TablesTyped /\ WorkersTyped /\ HistoryTyped

(* replaced_by_token_id, where it is set, names a token of the same user   *)
(* that this row's own refresh inserted later, and the row is revoked: the *)
(* links form chains that run forward in time and never cross users.       *)
ReplacementLinks ==
  \A t \in Token : replacedBy[t] # 0 =>
    /\ t \in revoked
    /\ replacedBy[t] > t
    /\ owner[replacedBy[t]] = owner[t]
    /\ parent[replacedBy[t]] = t

(* A client never holds the successor of a token that can still be used:   *)
(* refresh_tokens commits the revocation before it answers, on every       *)
(* interleaving and after any failure.                                     *)
SuccessorRetiresParent ==
  \A c \in delivered : parent[c] # 0 => parent[c] \in revoked

(* Rotation forks a session only when two refreshes of one token overlap:  *)
(* of two tokens handed out for the same one, one comes from a refresh     *)
(* that another revocation of that token overtook after its lookup.        *)
OnlyOvertakenRefreshesFork ==
  \A c, d \in delivered :
    c # d /\ parent[c] # 0 /\ parent[c] = parent[d] => c \in lost \/ d \in lost

(* A session ended by logout, revoke-others or a password reset, and not   *)
(* by rotation, is continued only by a refresh that was already past its   *)
(* lookup at that moment.                                                  *)
EndedSessionsHaveNoLateSuccessor ==
  \A c \in delivered :
    parent[c] # 0 /\ endedBy[parent[c]] # "refresh" => c \in lost

(* After a password reset has revoked the user's tokens, every session     *)
(* still usable was opened with the new password, or descends from a login *)
(* or refresh that was in flight at the revocation.                        *)
OnlyOvertakenSessionsOutliveReset ==
  \A t \in delivered \ revoked : cred[t] < cut[owner[t]] => t \in racy

(* The session tables implement the ledger: no statement of any handler    *)
(* reopens a revoked row, moves one to another user, or revokes rows of    *)
(* two users at once.                                                      *)
Ledger == INSTANCE SessionLedger
  WITH Account <- User, Nobody <- NoUser, MaxSessions <- MaxTokens,
       accounts <- registered, opened <- last, holder <- owner,
       ended <- revoked

ImplementsLedger == Ledger!Spec
=============================================================================
