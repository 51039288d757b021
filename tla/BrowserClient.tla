----------------------------- MODULE BrowserClient -----------------------------
(***************************************************************************)
(* A browser that uses the sessions of AuthSessions: the tabs of the React *)
(* application (react-app/src/lib/apiClient.js, contexts/AuthContext.js),  *)
(* the cookie base2_refresh they share (AUTH_REFRESH_COOKIE, the default), *)
(* and the answers of src/api/routes/auth.py that set and clear it.        *)
(*                                                                         *)
(* Every step is a step of AuthSessions with what it does to the browser,  *)
(* or leaves the server alone.  A tab refreshes whenever a call is         *)
(* answered 401, that is at any time: the access token that the tabs share *)
(* in localStorage decides nothing else and is left out.  A request takes  *)
(* the cookie as it is when it is sent; an answer sets it when it arrives. *)
(* Until then its worker stays with the tab that it serves: one that is    *)
(* idle and serves a tab has an answer to a logout on its way.             *)
(* The cookie base2_csrf, which a refresh and a logout must present, has no *)
(* max-age: it is gone when the browser is restarted, base2_refresh is not.*)
(* Sessions that end because their TTL is over are left out.               *)
(* Another device signs in to the same accounts and revokes other sessions.*)
(***************************************************************************)
EXTENDS AuthSessions

CONSTANTS
  Tab,
  NoTab,      \* the client of a request that no tab has sent
  Lost        \* the client of a request whose connection is gone

ASSUME BrowserConstants ==
  /\ NoTab \notin Tab /\ Lost \notin Tab /\ NoTab # Lost

VARIABLES
  jar,         \* the token in the cookie base2_refresh, 0 if there is none
  csrf,        \* there is a cookie base2_csrf
  serving,     \* per worker, the tab that waits for its answer
  \* history variables: no guard reads them but that of other devices
  mine,        \* tokens this browser was given
  signedIn,    \* a sign-in was answered, and no logout since
  overlapped,  \* workers that were serving a tab when a logout was answered
  late,        \* tokens they answered with, and successors
  torn         \* tokens that were rotated by a refresh without an answer

browserVars == <<jar, csrf, serving, mine, signedIn, overlapped, late, torn>>
allVars == <<vars, browserVars>>

BrowserInit ==
  /\ Init
  /\ jar = 0
  /\ csrf = FALSE
  /\ serving = [w \in Worker |-> NoTab]
  /\ mine = {}
  /\ signedIn = FALSE
  /\ overlapped = {}
  /\ late = {}
  /\ torn = {}

(* The request of a client goes to a worker whose last answer has arrived. *)
Send(w, client) ==
  /\ serving[w] = NoTab
  /\ serving' = [serving EXCEPT ![w] = client]
  /\ UNCHANGED <<jar, csrf, mine, signedIn, overlapped, late, torn>>

(* The request of worker w is over.                                        *)
HangUp(w) ==
  /\ serving' = [serving EXCEPT ![w] = NoTab]
  /\ overlapped' = overlapped \ {w}

(* refreshPromise: one refresh at a time in each tab.                      *)
Refreshing(tab) ==
  \E w \in Worker : serving[w] = tab /\ req[w].op \in {"refresh", "reuse"}
-----------------------------------------------------------------------------
(* What the tabs send.                                                     *)

TabSignsIn(w, tab, u) ==
  /\ Register(w, u) \/ Login(w, u)
  /\ Send(w, tab)

(* A request with base2_refresh and without base2_csrf is answered 403.    *)
(* Without base2_refresh a refresh is answered 401, and changes nothing; a *)
(* logout is answered as TabLogsOutBare has it.                            *)
RequireCookieCsrf == jar # 0 /\ csrf

TabRefreshes(w, tab) ==
  /\ RequireCookieCsrf
  /\ ~ Refreshing(tab)
  /\ Refresh(w, jar) \/ RefreshReuse(w, jar)
  /\ Send(w, tab)

TabLogsOut(w, tab) ==
  /\ RequireCookieCsrf
  /\ Logout(w, jar)
  /\ Send(w, tab)

(* A logout without base2_refresh has nothing to revoke; its answer clears *)
(* the cookie all the same.                                                *)
TabLogsOutBare(w, tab) ==
  /\ jar = 0
  /\ pc[w] = "idle"
  /\ Send(w, tab)
  /\ UNCHANGED vars

TabRevokesOthers(w, tab) ==
  /\ jar # 0
  /\ RevokeOthers(w, jar)
  /\ Send(w, tab)

(* Another device of the same user; its own rotation is left out.          *)
Elsewhere(w) ==
  /\ \/ \E u \in User : Login(w, u)
     \/ \E t \in delivered \ mine : RevokeOthers(w, t)
  /\ Send(w, NoTab)
-----------------------------------------------------------------------------
(* What the answers do.                                                    *)

(* _set_refresh_cookie: the answer of a sign-in or a refresh.              *)
SetCookie(w) ==
  /\ jar' = new[w]
  /\ mine' = mine \cup {new[w]}
  /\ late' = IF w \in overlapped \/ req[w].tok \in late
             THEN late \cup {new[w]} ELSE late

(* _ensure_csrf_cookie: a request that had the cookie still finds it there. *)
EnsureCsrfCookie == csrf' = TRUE

AnswerTab(w) ==
  /\ serving[w] \in Tab
  /\ Respond(w)
  /\ SetCookie(w)
  /\ EnsureCsrfCookie
  /\ HangUp(w)
  /\ UNCHANGED torn

AnswerSignIn(w) ==
  /\ req[w].op \in {"register", "login"}
  /\ AnswerTab(w)
  /\ signedIn' = TRUE

AnswerRefresh(w) ==
  /\ req[w].op = "refresh"
  /\ AnswerTab(w)
  /\ UNCHANGED signedIn

AnswerElsewhere(w) ==
  /\ serving[w] = NoTab
  /\ Respond(w)
  /\ HangUp(w)
  /\ UNCHANGED <<jar, csrf, mine, signedIn, late, torn>>

(* Mutant: a refused refresh clears the cookie.                            *)
RefuseAndClear(w) ==
  /\ AuditReuse(w)
  /\ jar' = IF serving[w] \in Tab THEN 0 ELSE jar
  /\ HangUp(w)
  /\ UNCHANGED <<csrf, mine, signedIn, late, torn>>

(* 401: the tab clears localStorage, for the other tabs too, and not the   *)
(* cookie, which the tab that won may have set by now.                     *)
Refuse(w) ==
  /\ AuditReuse(w)
  /\ HangUp(w)
  /\ UNCHANGED <<jar, csrf, mine, signedIn, late, torn>>

(* Mutant: the cookie is left to expire.                                   *)
KeepCookie(w) ==
  /\ jar' = jar
  /\ signedIn' = FALSE
  /\ overlapped' = {v \in Worker \ {w} : serving[v] \in Tab}

(* _clear_refresh_cookie.                                                  *)
ClearCookie(w) ==
  /\ jar' = 0
  /\ signedIn' = FALSE
  /\ overlapped' = {v \in Worker \ {w} : serving[v] \in Tab}

(* The revocation is committed; the answer to a tab is yet to arrive.      *)
CommitLogout(w) ==
  /\ LogoutRevoke(w)
  /\ IF serving[w] \in Tab THEN UNCHANGED <<serving, overlapped>> ELSE HangUp(w)
  /\ UNCHANGED <<jar, csrf, mine, signedIn, late, torn>>

(* The bookkeeping of a logout raises: it is answered all the same.        *)
LogoutRaises(w) ==
  /\ req[w].op = "logout"
  /\ serving[w] \in Tab
  /\ Fail(w)
  /\ UNCHANGED browserVars

AnswerLogout(w) ==
  /\ pc[w] = "idle"
  /\ serving[w] \in Tab
  /\ serving' = [serving EXCEPT ![w] = NoTab]
  /\ ClearCookie(w)
  /\ UNCHANGED <<vars, csrf, mine, late, torn>>

(* The other statements of the handlers, and an insertion that is refused. *)
Work(w) ==
  /\ CreateUser(w) \/ Mint(w) \/ Retire(w) \/ RevokeOthersStep(w)
  /\ IF pc'[w] = "idle" THEN HangUp(w) ELSE UNCHANGED <<serving, overlapped>>
  /\ UNCHANGED <<jar, csrf, mine, signedIn, late, torn>>

(* The handler stops, or its answer does not arrive.                       *)
FailRequest(w) ==
  /\ Fail(w)
  /\ HangUp(w)
  /\ torn' = IF pc[w] = "respond" /\ req[w].op = "refresh"
             THEN torn \cup {req[w].tok} ELSE torn
  /\ UNCHANGED <<jar, csrf, mine, signedIn, late>>

(* The connection drops: the tab gives up and may send again, while the    *)
(* handler runs on; the answer to a logout that is on its way is lost.     *)
Drop(w) ==
  /\ serving[w] \in Tab
  /\ IF pc[w] = "idle" THEN HangUp(w)
     ELSE /\ serving' = [serving EXCEPT ![w] = Lost]
          /\ UNCHANGED overlapped
  /\ UNCHANGED <<vars, jar, csrf, mine, signedIn, late, torn>>

(* The browser is restarted: nobody waits for the answers any more.        *)
Restart ==
  /\ csrf /\ csrf' = FALSE
  /\ serving' = [w \in Worker |->
                   IF serving[w] \notin Tab THEN serving[w]
                   ELSE IF pc[w] = "idle" THEN NoTab ELSE Lost]
  /\ overlapped' = {w \in overlapped : pc[w] # "idle"}
  /\ UNCHANGED <<vars, jar, mine, signedIn, late, torn>>

BrowserNext ==
  \/ \E w \in Worker :
       \/ \E tab \in Tab :
            \/ \E u \in User : TabSignsIn(w, tab, u)
            \/ TabRefreshes(w, tab) \/ TabRevokesOthers(w, tab)
            \/ TabLogsOut(w, tab) \/ TabLogsOutBare(w, tab)
       \/ Elsewhere(w)
       \/ AnswerSignIn(w) \/ AnswerRefresh(w) \/ AnswerElsewhere(w)
       \/ Refuse(w) \/ CommitLogout(w) \/ LogoutRaises(w) \/ AnswerLogout(w)
       \/ Work(w) \/ FailRequest(w) \/ Drop(w)
  \/ Restart

BrowserSpec == BrowserInit /\ [][BrowserNext]_allVars
-----------------------------------------------------------------------------
BrowserTypeOK ==
  /\ jar \in Token0 /\ csrf \in BOOLEAN
  /\ serving \in [Worker -> Tab \cup {NoTab, Lost}]
  /\ mine \in SUBSET delivered
  /\ jar # 0 => jar \in mine
  /\ signedIn \in BOOLEAN
  /\ overlapped \in SUBSET Worker
  /\ late \in SUBSET mine
  /\ torn \in SUBSET (1..last)

(* The answer to a logout ends the session of the whole browser: the       *)
(* cookie holds a token again only after another sign-in, or through a     *)
(* request of a tab that was in flight when the answer arrived.            *)
OnlyOverlappingAnswersUndoLogout ==
  ~ signedIn /\ jar # 0 => jar \in late

(* Tabs that refresh one token at the same time do not cost the browser    *)
(* its session (the loser's clearing of localStorage only sends the next   *)
(* call through a refresh): until a logout it holds a token, and one that  *)
(* rotation has revoked only while the answer with its successor is on its *)
(* way, or when that answer was lost.                                      *)
RacingTabsKeepTheCookie ==
  signedIn =>
    /\ jar # 0
    /\ endedBy[jar] = "refresh" =>
         \/ jar \in torn
         \/ \E w \in Worker : pc[w] = "respond" /\ req[w].tok = jar
=============================================================================
