------------------------- MODULE AuthSessionsProofs -------------------------
(***************************************************************************)
(* Proofs about AuthSessions for every set of users and workers and every  *)
(* bound.  The inductive invariant IInv has four parts: the type of the    *)
(* state with what each worker holds at each step (StateOK), which workers *)
(* have been overtaken (OvertakenOK), which tokens have been handed out    *)
(* and what became of their parents (LineageOK), and what a password reset *)
(* leaves behind (ResetOK).  The last part is about BrowserClient.         *)
(***************************************************************************)
EXTENDS BrowserClient, TLAPS

(* The accounts known to the tables.                                       *)
RegistryOK ==
  /\ \A t \in 1..last : owner[t] \in registered
  /\ \A r \in 1..issued : resetOwner[r] \in registered
  /\ \A u \in User : cut[u] <= pwd[u]
  /\ \A u \in User \ registered : cut[u] = 0

(* What a handler knows of the request r, the next statement s and the     *)
(* token n it has inserted.                                                *)
HandlerOK(r, s, n) ==
  /\ s # "idle" => r.user \in User
  /\ s \notin {"idle", "create_user"} => r.user \in registered
  /\ r.tok # 0 => r.tok \in delivered
  /\ r.op \in {"refresh", "logout", "others"} =>
       r.tok # 0 /\ owner[r.tok] = r.user
  /\ s \in {"idle", "create_user"} => r.op # "refresh"
  /\ s = "create_user" => r.tok = 0 /\ r.cred = 0
  /\ s \in {"create_refresh_token", "respond"} => r.op = "refresh" \/ r.tok = 0
  /\ s = "revoke_refresh_token" => r.op \in {"refresh", "logout"}
  /\ s \in {"set_user_password_hash", "consume_one_time_token"} =>
       r.ott \in 1..issued
  /\ s = "revoke_all_except" => r.op = "others"
  /\ s = "create_refresh_token" /\ r.op = "refresh" => r.cred = cred[r.tok]
  /\ s = "respond" \/ (s = "revoke_refresh_token" /\ r.op = "refresh") =>
       /\ n \in 1..last
       /\ owner[n] = r.user
       /\ parent[n] = r.tok
       /\ n > r.tok

WorkersOK == \A w \in Worker : HandlerOK(req[w], pc[w], new[w])

StateOK == TypeOK /\ RegistryOK /\ WorkersOK

(* A worker whose token has been revoked since its lookup is overtaken.    *)
OvertakenOK == \A w \in Holding(revoked) : w \in outran

(* Tokens a client has, or will have when the handler's next step is done. *)
Settled == delivered \cup {new[w] : w \in {v \in Worker : pc[v] = "respond"}}

LineageOK ==
  /\ ReplacementLinks
  /\ \A c \in Settled : parent[c] # 0 => parent[c] \in revoked
  /\ \A c, d \in Settled :
       c # d /\ parent[c] # 0 /\ parent[c] = parent[d] => c \in lost \/ d \in lost
  /\ \A c \in Settled :
       parent[c] # 0 /\ endedBy[parent[c]] # "refresh" => c \in lost

ResetOK ==
  /\ \A t \in Settled \ revoked : cred[t] < cut[owner[t]] => t \in racy
  /\ \A w \in Worker :
       /\ pc[w] = "create_refresh_token" /\ req[w].op # "refresh"
            /\ req[w].cred < cut[req[w].user] => w \in outran
       /\ pc[w] = "revoke_refresh_token" /\ req[w].op = "refresh"
            /\ new[w] \notin revoked /\ cred[new[w]] < cut[req[w].user]
            => new[w] \in racy \/ w \in outran

IInv == StateOK /\ OvertakenOK /\ LineageOK /\ ResetOK
-----------------------------------------------------------------------------
(* Type correctness.                                                       *)

LEMMA InitState == Init => StateOK
  BY SessionConstants
  DEF Init, StateOK, TypeOK, TablesTyped, WorkersTyped, HistoryTyped, RegistryOK,
      WorkersOK, HandlerOK, NewRequest, NoRequest, Request, Token, Token0, Reset,
      Reset0, Password, PC, Cause

(* Rows are only added and never change hands, accounts and deliveries are *)
(* never withdrawn.                                                        *)
TablesGrow ==
  /\ registered \subseteq registered'
  /\ delivered \subseteq delivered'
  /\ last' \in Nat /\ last <= last'
  /\ issued' \in Nat /\ issued <= issued'
  /\ \A t \in 1..last :
       owner'[t] = owner[t] /\ parent'[t] = parent[t] /\ cred'[t] = cred[t]

(* So a handler that does not move keeps what it knows.                    *)
LEMMA BystandersKeep ==
  ASSUME StateOK, TablesGrow, NEW v \in Worker,
         req'[v] = req[v], pc'[v] = pc[v], new'[v] = new[v]
  PROVE  HandlerOK(req[v], pc[v], new[v])'
  <1> DEFINE r == req[v]
             n == new[v]
  <1>0. r' = r /\ n' = n /\ pc'[v] = pc[v]
    OBVIOUS
  <1>1. HandlerOK(r, pc[v], n)
    BY DEF StateOK, WorkersOK
  <1>2. /\ r \in Request /\ n \in Nat /\ last \in Nat /\ issued \in Nat
        /\ r.tok \in Nat /\ r.ott \in Nat
        /\ r.tok # 0 => r.tok \in 1..last
    BY <1>1, SessionConstants
    DEF StateOK, TypeOK, TablesTyped, WorkersTyped, HandlerOK, Request, Token0, Reset0
  <1>3. /\ r.tok # 0 => owner'[r.tok] = owner[r.tok] /\ cred'[r.tok] = cred[r.tok]
        /\ n \in 1..last => /\ n \in 1..last' /\ owner'[n] = owner[n]
                            /\ parent'[n] = parent[n]
        /\ r.ott \in 1..issued => r.ott \in 1..issued'
    BY <1>2 DEF TablesGrow
  <1>4. registered \subseteq registered' /\ delivered \subseteq delivered'
    BY DEF TablesGrow
  <1> HIDE DEF r, n
  <1>5. HandlerOK(r, pc[v], n)'
    BY <1>0, <1>1, <1>2, <1>3, <1>4 DEF HandlerOK
  <1>6. QED
    BY <1>5 DEF r, n

(* Accepting a request moves only the worker.                              *)
LEMMA AcceptKeepsState ==
  ASSUME StateOK, NEW w \in Worker, NEW r \in Request, NEW s \in PC,
         Accept(w, r, s), HandlerOK(r, s, 0),
         UNCHANGED <<userVars, tokenVars, resetVars, delivered, historyVars>>
  PROVE  StateOK'
  <1> USE DEF userVars, tokenVars, resetVars, historyVars
  <1>1. TablesTyped' /\ HistoryTyped'
    BY DEF StateOK, TypeOK, TablesTyped, HistoryTyped
  <1>2. WorkersTyped'
    BY DEF StateOK, TypeOK, WorkersTyped, Accept
  <1>3. RegistryOK'
    BY DEF StateOK, RegistryOK
  <1>4. ASSUME NEW v \in Worker
        PROVE  HandlerOK(req[v], pc[v], new[v])'
    <2>1. CASE v = w
      <3>1. req'[v] = r /\ pc'[v] = s
        BY <2>1 DEF StateOK, TypeOK, WorkersTyped, Accept
      <3>2. s \notin {"respond"} /\ ~(s = "revoke_refresh_token" /\ r.op = "refresh")
        BY DEF HandlerOK
      <3>3. QED
        BY <3>1, <3>2 DEF HandlerOK
    <2>2. CASE v # w
      <3>1. TablesGrow
        BY DEF TablesGrow, StateOK, TypeOK, TablesTyped, Token0, Reset0
      <3>2. req'[v] = req[v] /\ pc'[v] = pc[v] /\ new'[v] = new[v]
        BY <2>2 DEF StateOK, TypeOK, WorkersTyped, Accept
      <3>3. QED
        BY <3>1, <3>2, BystandersKeep
    <2>3. QED
      BY <2>1, <2>2
  <1>5. QED
    BY <1>1, <1>2, <1>3, <1>4 DEF StateOK, TypeOK, WorkersOK

LEMMA ArriveKeepsState ==
  ASSUME StateOK, NEW w \in Worker, Arrive(w)
  PROVE  StateOK'
  <1> USE SessionConstants DEF NewRequest
  <1>1. /\ \A t \in delivered : /\ t \in Token /\ t # 0 /\ owner[t] \in registered
                                /\ owner[t] \in User /\ cred[t] \in Password
        /\ \A r \in 1..issued : resetOwner[r] \in registered
        /\ 0 \in Token0 /\ 0 \in Reset0 /\ 0 \in Password
        /\ Token \subseteq Token0 /\ Reset \subseteq Reset0
        /\ \A u \in User : pwd[u] \in Password
        /\ registered \subseteq User
    <2>1. \A t \in delivered : t \in 1..last /\ t \in Token
      BY DEF StateOK, TypeOK, TablesTyped, Token, Token0
    <2>2. \A t \in delivered : t # 0 /\ owner[t] \in registered /\ owner[t] \in User
      BY <2>1 DEF StateOK, TypeOK, TablesTyped, RegistryOK
    <2>3. \A t \in delivered : cred[t] \in Password
      BY <2>1 DEF StateOK, TypeOK, HistoryTyped
    <2>4. 0 \in Token0 /\ 0 \in Reset0 /\ 0 \in Password
          /\ Token \subseteq Token0 /\ Reset \subseteq Reset0
      BY DEF Token, Token0, Reset, Reset0, Password
    <2>5. /\ \A r \in 1..issued : resetOwner[r] \in registered
          /\ \A u \in User : pwd[u] \in Password
          /\ registered \subseteq User
      BY DEF StateOK, TypeOK, TablesTyped, RegistryOK
    <2>6. QED
      BY <2>1, <2>2, <2>3, <2>4, <2>5
  <1>2. ASSUME NEW u \in User, Register(w, u)
        PROVE  StateOK'
    <2> DEFINE r == NewRequest("register", u, 0, 0, 0)
    <2>1. r \in Request /\ HandlerOK(r, "create_user", 0)
      BY <1>1 DEF Request, HandlerOK
    <2>2. QED
      BY <1>2, <2>1, AcceptKeepsState DEF Register, PC
  <1>3. ASSUME NEW u \in User, Login(w, u)
        PROVE  StateOK'
    <2> DEFINE r == NewRequest("login", u, 0, pwd[u], 0)
    <2>1. r \in Request /\ HandlerOK(r, "create_refresh_token", 0)
      BY <1>1, <1>3 DEF Request, HandlerOK, Login
    <2>2. QED
      BY <1>3, <2>1, AcceptKeepsState DEF Login, PC
  <1>4. ASSUME NEW t \in Token, Refresh(w, t)
        PROVE  StateOK'
    <2> DEFINE r == NewRequest("refresh", owner[t], t, cred[t], 0)
    <2>1. r \in Request /\ HandlerOK(r, "create_refresh_token", 0)
      BY <1>1, <1>4 DEF Request, HandlerOK, Refresh
    <2>2. QED
      BY <1>4, <2>1, AcceptKeepsState DEF Refresh, PC
  <1>5. ASSUME NEW t \in Token, RefreshReuse(w, t)
        PROVE  StateOK'
    <2> DEFINE r == NewRequest("reuse", owner[t], t, 0, 0)
    <2>1. r \in Request /\ HandlerOK(r, "audit_reuse", 0)
      BY <1>1, <1>5 DEF Request, HandlerOK, RefreshReuse
    <2>2. QED
      BY <1>5, <2>1, AcceptKeepsState DEF RefreshReuse, PC
  <1>6. ASSUME NEW t \in Token, Logout(w, t)
        PROVE  StateOK'
    <2> DEFINE r == NewRequest("logout", owner[t], t, 0, 0)
    <2>1. r \in Request /\ HandlerOK(r, "revoke_refresh_token", 0)
      BY <1>1, <1>6 DEF Request, HandlerOK, Logout
    <2>2. QED
      BY <1>6, <2>1, AcceptKeepsState DEF Logout, PC
  <1>7. ASSUME NEW t \in Token, RevokeOthers(w, t)
        PROVE  StateOK'
    <2> DEFINE r == NewRequest("others", owner[t], t, 0, 0)
    <2>1. r \in Request /\ HandlerOK(r, "revoke_all_except", 0)
      BY <1>1, <1>7 DEF Request, HandlerOK, RevokeOthers
    <2>2. QED
      BY <1>7, <2>1, AcceptKeepsState DEF RevokeOthers, PC
  <1>8. ASSUME NEW k \in Reset, ResetPassword(w, k)
        PROVE  StateOK'
    <2> DEFINE r == NewRequest("reset", resetOwner[k], 0, 0, k)
    <2>1. r \in Request /\ HandlerOK(r, "set_user_password_hash", 0)
      BY <1>1, <1>8 DEF Request, HandlerOK, ResetPassword
    <2>2. QED
      BY <1>8, <2>1, AcceptKeepsState DEF ResetPassword, PC
  <1>9. QED
    BY <1>2, <1>3, <1>4, <1>5, <1>6, <1>7, <1>8 DEF Arrive

(* A statement of worker w that keeps the tables typed and growing, and    *)
(* after which w knows what its next statement needs.                      *)
LEMMA StepKeepsState ==
  ASSUME StateOK, NEW w \in Worker, TablesGrow,
         TablesTyped', HistoryTyped', WorkersTyped', RegistryOK',
         \A v \in Worker \ {w} :
           req'[v] = req[v] /\ pc'[v] = pc[v] /\ new'[v] = new[v],
         HandlerOK(req[w], pc[w], new[w])'
  PROVE  StateOK'
  <1>1. ASSUME NEW v \in Worker
        PROVE  HandlerOK(req[v], pc[v], new[v])'
    BY BystandersKeep
  <1>2. QED
    BY <1>1 DEF StateOK, TypeOK, WorkersOK

(* What Goto and Finish do to the worker and to the others.                *)
LEMMA GotoStep ==
  ASSUME WorkersTyped, NEW w \in Worker, NEW s \in PC, Goto(w, s),
         last \in Nat, last' \in Nat, last <= last'
  PROVE  /\ WorkersTyped'
         /\ pc'[w] = s /\ req'[w] = req[w] /\ new'[w] = new[w]
         /\ \A v \in Worker \ {w} :
              req'[v] = req[v] /\ pc'[v] = pc[v] /\ new'[v] = new[v]
  BY DEF WorkersTyped, Goto

LEMMA FinishStep ==
  ASSUME WorkersTyped, NEW w \in Worker, Finish(w),
         last \in Nat, last' \in Nat, last <= last'
  PROVE  /\ WorkersTyped'
         /\ pc'[w] = "idle" /\ req'[w] = NoRequest
         /\ \A v \in Worker \ {w} :
              req'[v] = req[v] /\ pc'[v] = pc[v] /\ new'[v] = new[v]
         /\ HandlerOK(req[w], pc[w], new[w])'
  <1>1. NoRequest \in Request
    BY SessionConstants
    DEF NoRequest, NewRequest, Request, Token0, Reset0, Password
  <1>2. /\ WorkersTyped'
        /\ pc'[w] = "idle" /\ req'[w] = NoRequest
        /\ \A v \in Worker \ {w} :
             req'[v] = req[v] /\ pc'[v] = pc[v] /\ new'[v] = new[v]
    BY <1>1 DEF WorkersTyped, Finish, PC
  <1>3. HandlerOK(req[w], pc[w], new[w])'
    BY <1>2 DEF HandlerOK, NoRequest, NewRequest
  <1>4. QED
    BY <1>2, <1>3

(* A statement that only revokes rows that exist.                          *)
LEMMA RevocationKeepsTables ==
  ASSUME StateOK, revoked' \in SUBSET (1..last), replacedBy' \in [Token -> 0..last],
         UNCHANGED <<userVars, last, owner, expired, resetVars, delivered, parent, cred>>
  PROVE  TablesTyped' /\ TablesGrow
  <1>1. TablesTyped'
    BY DEF StateOK, TypeOK, TablesTyped, userVars, resetVars
  <1>2. TablesGrow
    BY SessionConstants
    DEF StateOK, TypeOK, TablesTyped, TablesGrow, Token0, Reset0, userVars, resetVars
  <1>3. QED
    BY <1>1, <1>2

LEMMA HandlerKeepsState ==
  ASSUME StateOK, NEW w \in Worker, Handler(w)
  PROVE  StateOK'
  <1>0. /\ HandlerOK(req[w], pc[w], new[w])
        /\ WorkersTyped /\ req[w] \in Request /\ new[w] \in 0..last
        /\ last \in Nat /\ issued \in Nat /\ last <= MaxTokens
        /\ req[w].tok \in Token0 /\ req[w].cred \in Password
        /\ req[w].ott \in Reset0
        /\ delivered \subseteq 1..last /\ registered \subseteq User
    BY SessionConstants
    DEF StateOK, TypeOK, TablesTyped, WorkersTyped, WorkersOK, Request, Token0, Reset0
  <1> USE SessionConstants
  <1>1. CASE CreateUser(w)
    <2>1. TablesGrow /\ TablesTyped' /\ HistoryTyped' /\ RegistryOK'
      BY <1>0, <1>1 DEF CreateUser, TablesGrow, StateOK, TypeOK, TablesTyped,
         HistoryTyped, RegistryOK, HandlerOK, tokenVars, resetVars, historyVars
    <2>2. CASE Goto(w, "create_refresh_token") /\ registered' = registered \cup {req[w].user}
      <3>1. HandlerOK(req[w], pc[w], new[w])'
        BY <1>0, <1>1, <2>1, <2>2, GotoStep
        DEF CreateUser, HandlerOK, PC, tokenVars, resetVars, historyVars
      <3>2. QED
        BY <1>0, <2>1, <2>2, <3>1, GotoStep, StepKeepsState DEF PC, TablesGrow
    <2>3. CASE Finish(w)
      BY <1>0, <2>1, <2>3, FinishStep, StepKeepsState DEF TablesGrow
    <2>4. QED
      BY <1>1, <2>2, <2>3 DEF CreateUser
  <1>2. CASE Mint(w)
    <2>1. TablesTyped'
      BY <1>0, <1>2 DEF Mint, CreateRefreshToken, StateOK, TypeOK, TablesTyped,
         HandlerOK, Token, Token0, userVars, resetVars
    <2>2. HistoryTyped' /\ RegistryOK'
      BY <1>0, <1>2 DEF Mint, CreateRefreshToken, StateOK, TypeOK, TablesTyped,
         HistoryTyped, RegistryOK, HandlerOK, Token, Token0, userVars, resetVars
    <2>3. TablesGrow
      BY <1>0, <1>2 DEF Mint, CreateRefreshToken, StateOK, TypeOK, TablesTyped,
         HistoryTyped, TablesGrow, Token, Token0, userVars, resetVars
    <2>4. /\ WorkersTyped' /\ new'[w] = last + 1 /\ req' = req
          /\ pc'[w] = IF req[w].op = "refresh" THEN "revoke_refresh_token" ELSE "respond"
          /\ \A v \in Worker \ {w} :
               req'[v] = req[v] /\ pc'[v] = pc[v] /\ new'[v] = new[v]
      BY <1>0, <1>2 DEF Mint, CreateRefreshToken, WorkersTyped, PC
    <2>5. HandlerOK(req[w], pc[w], new[w])'
      <3>1. /\ last' = last + 1 /\ last + 1 \in Token
            /\ owner'[last + 1] = req[w].user /\ parent'[last + 1] = req[w].tok
            /\ registered' = registered /\ delivered' = delivered
        BY <1>0, <1>2 DEF Mint, CreateRefreshToken, StateOK, TypeOK, TablesTyped,
           HistoryTyped, Token, userVars
      <3>2. req[w].tok # 0 => /\ req[w].tok \in 1..last
                              /\ owner'[req[w].tok] = owner[req[w].tok]
        BY <1>0, <2>3 DEF HandlerOK, TablesGrow
      <3>3. req[w].tok < last + 1
        BY <1>0, <3>2 DEF Token0
      <3>4. QED
        BY <1>0, <1>2, <2>4, <3>1, <3>2, <3>3 DEF Mint, HandlerOK
    <2>6. QED
      BY <2>1, <2>2, <2>3, <2>4, <2>5, StepKeepsState
  <1>3. CASE Retire(w)
    <2>1. req[w].tok \in 1..last /\ new[w] \in 1..last
      BY <1>0, <1>3 DEF Retire, HandlerOK
    <2>2. TablesTyped' /\ RegistryOK' /\ TablesGrow
      <3>1. revoked' \in SUBSET (1..last) /\ replacedBy' \in [Token -> 0..last]
        BY <1>0, <1>3, <2>1
        DEF Retire, RevokeRefreshToken, StateOK, TypeOK, TablesTyped
      <3>2. RegistryOK'
        BY <1>3 DEF Retire, StateOK, RegistryOK, userVars, resetVars
      <3>3. QED
        BY <1>3, <3>1, <3>2, RevocationKeepsTables DEF Retire
    <2>3. HistoryTyped'
      BY <1>0, <1>3, <2>1 DEF Retire, MarkEnded, Holding, StateOK, TypeOK,
         HistoryTyped, Cause
    <2>4. HandlerOK(req[w], pc[w], new[w])'
      BY <1>0, <1>3, <2>1, GotoStep
      DEF Retire, HandlerOK, PC, userVars, resetVars
    <2>5. QED
      BY <1>0, <1>3, <2>2, <2>3, <2>4, GotoStep, StepKeepsState
      DEF Retire, PC, TablesGrow
  <1>4. CASE Respond(w)
    <2>1. TablesTyped' /\ HistoryTyped' /\ RegistryOK' /\ TablesGrow
      <3>1. new[w] \in 1..last
        BY <1>0, <1>4 DEF Respond, HandlerOK
      <3>2. TablesTyped' /\ HistoryTyped'
        BY <1>0, <1>4, <3>1 DEF Respond, StateOK, TypeOK, TablesTyped, HistoryTyped,
           userVars, tokenVars, resetVars
      <3>3. RegistryOK' /\ TablesGrow
        BY <1>0, <1>4 DEF Respond, StateOK, RegistryOK, TablesGrow,
           userVars, tokenVars, resetVars
      <3>4. QED
        BY <3>2, <3>3
    <2>2. QED
      BY <1>0, <1>4, <2>1, FinishStep, StepKeepsState DEF Respond, TablesGrow
  <1>5. CASE AuditReuse(w)
    <2>1. TablesTyped' /\ HistoryTyped' /\ RegistryOK' /\ TablesGrow
      BY <1>0, <1>5 DEF AuditReuse, StateOK, TypeOK, TablesTyped, HistoryTyped,
         RegistryOK, TablesGrow, userVars, tokenVars, resetVars, historyVars
    <2>2. QED
      BY <1>0, <1>5, <2>1, FinishStep, StepKeepsState DEF AuditReuse, TablesGrow
  <1>6. CASE LogoutRevoke(w)
    <2>1. req[w].tok \in 1..last
      BY <1>0, <1>6 DEF LogoutRevoke, HandlerOK
    <2>2. TablesTyped' /\ RegistryOK' /\ TablesGrow
      <3>1. revoked' \in SUBSET (1..last) /\ replacedBy' \in [Token -> 0..last]
        <4>1. revoked' \in SUBSET (1..last)
          BY <1>6, <2>1
          DEF LogoutRevoke, RevokeRefreshToken, StateOK, TypeOK, TablesTyped
        <4>2. replacedBy' = [replacedBy EXCEPT ![req[w].tok] = 0] /\ 0 \in 0..last
          BY <1>0, <1>6 DEF LogoutRevoke, RevokeRefreshToken
        <4>3. QED
          BY <4>1, <4>2 DEF StateOK, TypeOK, TablesTyped
      <3>2. RegistryOK'
        BY <1>6 DEF LogoutRevoke, StateOK, RegistryOK, userVars, resetVars
      <3>3. QED
        BY <1>6, <3>1, <3>2, RevocationKeepsTables DEF LogoutRevoke
    <2>3. HistoryTyped'
      BY <1>0, <1>6, <2>1 DEF LogoutRevoke, MarkEnded, Holding, StateOK, TypeOK,
         HistoryTyped, Cause
    <2>4. QED
      BY <1>0, <1>6, <2>2, <2>3, FinishStep, StepKeepsState
      DEF LogoutRevoke, TablesGrow
  <1>7. CASE RevokeOthersStep(w)
    <2>1. TablesTyped' /\ RegistryOK' /\ TablesGrow
      <3>1. revoked' \in SUBSET (1..last) /\ replacedBy' \in [Token -> 0..last]
        BY <1>7 DEF RevokeOthersStep, RevokeAllRefreshTokensExcept, TokensOf,
           StateOK, TypeOK, TablesTyped
      <3>2. RegistryOK'
        BY <1>7 DEF RevokeOthersStep, StateOK, RegistryOK, userVars, resetVars
      <3>3. QED
        BY <1>7, <3>1, <3>2, RevocationKeepsTables DEF RevokeOthersStep
    <2>2. HistoryTyped'
      BY <1>0, <1>7 DEF RevokeOthersStep, MarkEnded, Holding, TokensOf, StateOK,
         TypeOK, HistoryTyped, Cause
    <2>3. QED
      BY <1>0, <1>7, <2>1, <2>2, FinishStep, StepKeepsState
      DEF RevokeOthersStep, TablesGrow
  <1>8. CASE SetPassword(w)
    <2>1. req[w].user \in registered /\ req[w].user \in User
      BY <1>0, <1>8 DEF SetPassword, HandlerOK
    <2>2. TablesTyped' /\ HistoryTyped' /\ RegistryOK' /\ TablesGrow
      BY <1>0, <1>8, <2>1 DEF SetPassword, StateOK, TypeOK, TablesTyped, HistoryTyped,
         RegistryOK, TablesGrow, Password, tokenVars, resetVars, historyVars
    <2>3. HandlerOK(req[w], pc[w], new[w])'
      BY <1>0, <1>8, <2>1, GotoStep
      DEF SetPassword, HandlerOK, PC, tokenVars, resetVars, historyVars
    <2>4. QED
      BY <1>0, <1>8, <2>2, <2>3, GotoStep, StepKeepsState
      DEF SetPassword, PC, TablesGrow
  <1>9. CASE ConsumeResetToken(w)
    <2>1. req[w].ott \in 1..issued
      BY <1>0, <1>9 DEF ConsumeResetToken, HandlerOK
    <2>2. TablesTyped' /\ HistoryTyped' /\ RegistryOK' /\ TablesGrow
      BY <1>0, <1>9, <2>1 DEF ConsumeResetToken, StateOK, TypeOK, TablesTyped,
         HistoryTyped, RegistryOK, TablesGrow, userVars, tokenVars, historyVars
    <2>3. HandlerOK(req[w], pc[w], new[w])'
      BY <1>0, <1>9, GotoStep
      DEF ConsumeResetToken, HandlerOK, PC, userVars, tokenVars, historyVars
    <2>4. QED
      BY <1>0, <1>9, <2>2, <2>3, GotoStep, StepKeepsState
      DEF ConsumeResetToken, PC, TablesGrow
  <1>10. CASE RevokeAll(w)
    <2>1. TablesTyped' /\ TablesGrow
      <3>1. revoked' \in SUBSET (1..last) /\ replacedBy' \in [Token -> 0..last]
        BY <1>10 DEF RevokeAll, RevokeAllRefreshTokens, TokensOf,
           StateOK, TypeOK, TablesTyped
      <3>2. QED
        BY <1>10, <3>1, RevocationKeepsTables DEF RevokeAll
    <2>2. HistoryTyped'
      BY <1>0, <1>10 DEF RevokeAll, MarkEnded, Holding, Opening, TokensOf, StateOK,
         TypeOK, TablesTyped, HistoryTyped, HandlerOK, Cause, userVars
    <2>3. RegistryOK'
      BY <1>0, <1>10 DEF RevokeAll, StateOK, TypeOK, TablesTyped, HistoryTyped,
         RegistryOK, HandlerOK, Password, userVars, resetVars
    <2>4. QED
      BY <1>0, <1>10, <2>1, <2>2, <2>3, FinishStep, StepKeepsState
      DEF RevokeAll, TablesGrow
  <1>11. QED
    BY <1>1, <1>2, <1>3, <1>4, <1>5, <1>6, <1>7, <1>8, <1>9, <1>10 DEF Handler
(* The remaining steps.                                                    *)
LEMMA EnvironmentKeepsState ==
  ASSUME StateOK,
         \/ \E w \in Worker : Fail(w)
         \/ \E u \in User : ForgotPassword(u)
         \/ ExpireToken
         \/ ExpireReset
         \/ UNCHANGED vars
  PROVE  StateOK'
  <1> USE SessionConstants
  <1>1. ASSUME NEW w \in Worker, Fail(w)
        PROVE  StateOK'
    <2>1. TablesTyped' /\ HistoryTyped'
      BY <1>1 DEF Fail, StateOK, TypeOK, TablesTyped, HistoryTyped, userVars,
         tokenVars, resetVars
    <2>2. RegistryOK' /\ TablesGrow /\ last \in Nat /\ last' = last
      BY <1>1 DEF Fail, StateOK, TypeOK, TablesTyped, RegistryOK, TablesGrow, Token0,
         Reset0, userVars, tokenVars, resetVars
    <2>3. QED
      BY <1>1, <2>1, <2>2, FinishStep, StepKeepsState DEF Fail, StateOK, TypeOK
  <1>2. ASSUME NEW u \in User, ForgotPassword(u)
        PROVE  StateOK'
    <2>1. TablesTyped' /\ RegistryOK'
      BY <1>2 DEF ForgotPassword, StateOK, TypeOK, TablesTyped, RegistryOK, Reset,
         Reset0, userVars, tokenVars, historyVars
    <2>2. HistoryTyped' /\ WorkersTyped'
      BY <1>2 DEF ForgotPassword, StateOK, TypeOK, HistoryTyped, WorkersTyped,
         userVars, tokenVars, historyVars, workerVars
    <2>3. TablesGrow
      BY <1>2 DEF ForgotPassword, StateOK, TypeOK, TablesTyped, TablesGrow, Token0,
         Reset0, userVars, tokenVars, historyVars
    <2>4. \A v \in Worker : HandlerOK(req[v], pc[v], new[v])'
      BY <1>2, <2>3, BystandersKeep DEF ForgotPassword, workerVars
    <2>5. QED
      BY <2>1, <2>2, <2>4 DEF StateOK, TypeOK, WorkersOK
  <1>3. CASE ExpireToken
    <2>1. TablesTyped'
      BY <1>3 DEF ExpireToken, StateOK, TypeOK, TablesTyped, Token0, Reset0, userVars,
         tokenVars, resetVars, historyVars
    <2>2. WorkersTyped' /\ HistoryTyped' /\ RegistryOK'
      BY <1>3 DEF ExpireToken, StateOK, TypeOK, WorkersTyped, HistoryTyped, RegistryOK,
         userVars, tokenVars, resetVars, workerVars, historyVars
    <2>3. WorkersOK'
      BY <1>3 DEF ExpireToken, StateOK, WorkersOK, HandlerOK, userVars, tokenVars,
         resetVars, workerVars, historyVars
    <2>4. QED
      BY <2>1, <2>2, <2>3 DEF StateOK, TypeOK
  <1>4. CASE ExpireReset
    <2>1. TablesTyped'
      BY <1>4 DEF ExpireReset, StateOK, TypeOK, TablesTyped, Token0, Reset0, userVars,
         tokenVars, resetVars, historyVars
    <2>2. WorkersTyped' /\ HistoryTyped' /\ RegistryOK'
      BY <1>4 DEF ExpireReset, StateOK, TypeOK, WorkersTyped, HistoryTyped, RegistryOK,
         userVars, tokenVars, resetVars, workerVars, historyVars
    <2>3. WorkersOK'
      BY <1>4 DEF ExpireReset, StateOK, WorkersOK, HandlerOK, userVars, tokenVars,
         resetVars, workerVars, historyVars
    <2>4. QED
      BY <2>1, <2>2, <2>3 DEF StateOK, TypeOK
  <1>5. CASE UNCHANGED vars
    BY <1>5 DEF vars, StateOK, TypeOK, TablesTyped, WorkersTyped, HistoryTyped,
       RegistryOK, WorkersOK, HandlerOK, userVars, tokenVars, resetVars, workerVars,
       historyVars
  <1>6. QED
    BY <1>1, <1>2, <1>3, <1>4, <1>5

LEMMA NextKeepsState == StateOK /\ [Next]_vars => StateOK'
  BY ArriveKeepsState, HandlerKeepsState, EnvironmentKeepsState DEF Next

LEMMA StateInvariant == Spec => []StateOK
  BY InitState, NextKeepsState, PTL DEF Spec

(* The tables and the workers keep their types: every statement writes     *)
(* rows that exist, for every number of users, workers and tokens.         *)
THEOREM TypeCorrect == Spec => []TypeOK
  <1>1. StateOK => TypeOK
    BY DEF StateOK
  <1>2. QED
    BY <1>1, StateInvariant, PTL
-----------------------------------------------------------------------------
(* Safety.  Three frame lemmas say what a step of worker w may do to each  *)
(* of OvertakenOK, LineageOK and ResetOK; the handlers are then checked    *)
(* against them, and Mint, Retire and RevokeAll, which hand out tokens or  *)
(* move a cut, argue about the tokens they touch.                          *)

OthersWait(w) ==
  \A v \in Worker \ {w} : req'[v] = req[v] /\ pc'[v] = pc[v] /\ new'[v] = new[v]

LEMMA OvertakenKeeps ==
  ASSUME StateOK, OvertakenOK, NEW w \in Worker, OthersWait(w),
         NEW S, revoked' = revoked \cup S,
         (outran \cup Holding(S)) \ {w} \subseteq outran',
         \/ w \in outran'
         \/ pc'[w] \notin {"create_refresh_token", "revoke_refresh_token"}
         \/ req'[w].op # "refresh"
         \/ req'[w].tok \notin revoked'
  PROVE  OvertakenOK'
  BY DEF OvertakenOK, Holding, OthersWait

(* The first cause is the one on record.                                   *)
LEMMA FirstCauseStays ==
  ASSUME StateOK, NEW S, NEW cause, NEW w, NEW V, MarkEnded(S, cause, w, V)
  PROVE  \A t \in revoked : endedBy'[t] = endedBy[t]
  <1>1. \A t \in revoked : t \in Token /\ t \notin S \ revoked
    BY SessionConstants DEF StateOK, TypeOK, TablesTyped, Token, Token0
  <1>2. QED
    BY <1>1 DEF MarkEnded

LEMMA SettledTokensExist == StateOK => \A c \in Settled : c \in 1..last
  <1> SUFFICES ASSUME StateOK, NEW c \in Settled
               PROVE  c \in 1..last
    OBVIOUS
  <1>1. CASE c \in delivered
    BY <1>1 DEF StateOK, TypeOK, TablesTyped
  <1>2. ASSUME NEW v \in Worker, pc[v] = "respond", c = new[v]
        PROVE  c \in 1..last
    BY <1>2 DEF StateOK, WorkersOK, HandlerOK
  <1>3. QED
    BY <1>1, <1>2 DEF Settled

(* Only tokens of new sessions settle.                                     *)
LEMMA LineageKeeps ==
  ASSUME StateOK, StateOK', LineageOK, TablesGrow,
         revoked \subseteq revoked', lost \subseteq lost',
         \A t \in revoked : endedBy'[t] = endedBy[t],
         \A t \in Token : replacedBy'[t] \in {replacedBy[t], 0},
         \A c \in Settled' \ Settled : parent'[c] = 0
  PROVE  LineageOK'
  <1>1. /\ last \in Nat /\ last <= MaxTokens /\ MaxTokens \in Nat
        /\ revoked \subseteq 1..last
        /\ \A t \in Token : replacedBy[t] \in 0..last
        /\ \A c \in Settled : c \in 1..last
    BY SessionConstants, SettledTokensExist DEF StateOK, TypeOK, TablesTyped, Token0
  <1>2. ReplacementLinks'
    <2> SUFFICES ASSUME NEW t \in Token, replacedBy'[t] # 0
                 PROVE  /\ t \in revoked'
                        /\ replacedBy'[t] > t
                        /\ owner'[replacedBy'[t]] = owner'[t]
                        /\ parent'[replacedBy'[t]] = t
      BY DEF ReplacementLinks
    <2>1. /\ replacedBy'[t] = replacedBy[t]
          /\ t \in revoked /\ replacedBy[t] > t
          /\ owner[replacedBy[t]] = owner[t] /\ parent[replacedBy[t]] = t
      BY DEF LineageOK, ReplacementLinks
    <2>2. t \in 1..last /\ replacedBy[t] \in 1..last
      BY <1>1, <2>1 DEF Token
    <2>3. QED
      BY <2>1, <2>2 DEF TablesGrow
  <1>3. \A c \in Settled' : parent'[c] # 0 =>
          /\ c \in Settled /\ c \in 1..last
          /\ parent'[c] = parent[c] /\ parent[c] \in revoked
    BY <1>1 DEF TablesGrow, LineageOK
  <1>4. \A c \in Settled' : parent'[c] # 0 => parent'[c] \in revoked'
    BY <1>3
  <1>5. \A c, d \in Settled' :
          c # d /\ parent'[c] # 0 /\ parent'[c] = parent'[d] => c \in lost' \/ d \in lost'
    BY <1>3 DEF LineageOK
  <1>6. \A c \in Settled' :
          parent'[c] # 0 /\ endedBy'[parent'[c]] # "refresh" => c \in lost'
    BY <1>3 DEF LineageOK
  <1>7. QED
    BY <1>2, <1>4, <1>5, <1>6 DEF LineageOK

(* What ResetOK asks of one worker.                                        *)
RestsOnNewPassword(r, s, n, w) ==
  /\ s = "create_refresh_token" /\ r.op # "refresh" /\ r.cred < cut[r.user]
       => w \in outran
  /\ s = "revoke_refresh_token" /\ r.op = "refresh" /\ n \notin revoked
       /\ cred[n] < cut[r.user] => n \in racy \/ w \in outran

LEMMA ResetKeeps ==
  ASSUME StateOK, ResetOK, NEW w \in Worker, OthersWait(w), TablesGrow,
         cut' = cut, revoked \subseteq revoked', racy \subseteq racy',
         outran \ {w} \subseteq outran',
         \A c \in Settled' \ (Settled \cup revoked') :
           cred'[c] < cut'[owner'[c]] => c \in racy',
         RestsOnNewPassword(req[w], pc[w], new[w], w)'
  PROVE  ResetOK'
  <1>1. \A c \in Settled : c \in 1..last
    BY SettledTokensExist
  <1>2. \A t \in Settled' \ revoked' : cred'[t] < cut'[owner'[t]] => t \in racy'
    <2> SUFFICES ASSUME NEW t \in Settled' \ revoked', cred'[t] < cut'[owner'[t]]
                 PROVE  t \in racy'
      OBVIOUS
    <2>1. CASE t \in Settled
      <3>1. t \in Settled \ revoked /\ cred'[t] = cred[t] /\ owner'[t] = owner[t]
        BY <1>1, <2>1 DEF TablesGrow
      <3>2. QED
        BY <3>1 DEF ResetOK
    <2>2. CASE t \notin Settled
      BY <2>2
    <2>3. QED
      BY <2>1, <2>2
  <1>3. ASSUME NEW v \in Worker
        PROVE  RestsOnNewPassword(req[v], pc[v], new[v], v)'
    <2>1. CASE v = w
      BY <2>1
    <2>2. CASE v # w
      <3>1. req'[v] = req[v] /\ pc'[v] = pc[v] /\ new'[v] = new[v]
        BY <2>2 DEF OthersWait
      <3>2. RestsOnNewPassword(req[v], pc[v], new[v], v)
        BY DEF ResetOK, RestsOnNewPassword
      <3>3. pc[v] = "revoke_refresh_token" /\ req[v].op = "refresh" =>
              new[v] \in 1..last /\ cred'[new[v]] = cred[new[v]]
        BY DEF StateOK, WorkersOK, HandlerOK, TablesGrow
      <3>4. v \in outran => v \in outran'
        BY <2>2
      <3>5. QED
        BY <3>1, <3>2, <3>3, <3>4 DEF RestsOnNewPassword
    <2>3. QED
      BY <2>1, <2>2
  <1>4. QED
    BY <1>2, <1>3 DEF ResetOK, RestsOnNewPassword

(* Tokens settle only when a response is due.                              *)
LEMMA Settling ==
  ASSUME NEW w \in Worker, OthersWait(w),
         \/ delivered' = delivered
         \/ pc[w] = "respond" /\ delivered' = delivered \cup {new[w]}
  PROVE  /\ Settled' \subseteq Settled \cup {new'[w]}
         /\ pc'[w] # "respond" => Settled' \subseteq Settled
  BY DEF Settled, OthersWait

HistoryOK == OvertakenOK /\ LineageOK /\ ResetOK

(* The steps that hand out nothing and move no cut.                        *)
LEMMA PlainStepKeepsHistory ==
  ASSUME StateOK, StateOK', HistoryOK, TablesGrow, NEW w \in Worker, OthersWait(w),
         NEW S, revoked' = revoked \cup S,
         (outran \cup Holding(S)) \ {w} \subseteq outran',
         UNCHANGED <<lost, racy, cut>>,
         \A t \in revoked : endedBy'[t] = endedBy[t],
         \A t \in Token : replacedBy'[t] \in {replacedBy[t], 0},
         \/ delivered' = delivered
         \/ pc[w] = "respond" /\ delivered' = delivered \cup {new[w]},
         pc'[w] # "respond",
         \/ pc'[w] \notin {"create_refresh_token", "revoke_refresh_token"}
         \/ pc'[w] = "revoke_refresh_token" /\ req'[w].op = "logout"
         \/ pc'[w] = "create_refresh_token" /\ req'[w].op = "refresh"
              /\ req'[w].tok \notin revoked'
         \/ pc'[w] = "create_refresh_token" /\ req'[w].op # "refresh"
              /\ ~ (req'[w].cred < cut'[req'[w].user])
  PROVE  HistoryOK'
  <1>1. Settled' \subseteq Settled
    BY Settling
  <1>2. OvertakenOK'
    BY OvertakenKeeps DEF HistoryOK
  <1>3. /\ revoked \subseteq revoked' /\ lost \subseteq lost' /\ racy \subseteq racy'
        /\ cut' = cut /\ outran \ {w} \subseteq outran'
    OBVIOUS
  <1>4. LineageOK'
    BY <1>1, <1>3, LineageKeeps DEF HistoryOK
  <1>5. ResetOK'
    <2>1. ASSUME pc'[w] = "create_refresh_token", req'[w].op # "refresh"
          PROVE  ~ (req'[w].cred < cut'[req'[w].user])
      BY <2>1
    <2>2. ~ (pc'[w] = "revoke_refresh_token" /\ req'[w].op = "refresh")
      OBVIOUS
    <2>3. RestsOnNewPassword(req[w], pc[w], new[w], w)'
      BY <2>1, <2>2 DEF RestsOnNewPassword
    <2>4. QED
      BY <1>1, <1>3, <2>3, ResetKeeps DEF HistoryOK
  <1>6. QED
    BY <1>2, <1>4, <1>5 DEF HistoryOK

(* No row disappears.                                                      *)
LEMMA NextGrows == StateOK /\ [Next]_vars => TablesGrow
  <1> SUFFICES ASSUME StateOK, [Next]_vars
               PROVE  TablesGrow
    OBVIOUS
  <1> USE DEF userVars, tokenVars, resetVars, historyVars, workerVars, vars
  <1>1. last \in Nat /\ issued \in Nat /\ owner \in [Token -> User \cup {NoUser}]
        /\ last <= MaxTokens /\ MaxTokens \in Nat
        /\ parent \in [Token -> Token0] /\ cred \in [Token -> Password]
    BY SessionConstants
    DEF StateOK, TypeOK, TablesTyped, HistoryTyped, Token0, Reset0
  <1>2. ASSUME NEW w \in Worker, Arrive(w)
        PROVE  TablesGrow
    BY <1>1, <1>2 DEF Arrive, Register, Login, Refresh, RefreshReuse, Logout, RevokeOthers,
       ResetPassword, TablesGrow
  <1>3. ASSUME NEW w \in Worker, Mint(w)
        PROVE  TablesGrow
    BY <1>1, <1>3 DEF Mint, CreateRefreshToken, TablesGrow, Token
  <1>4. ASSUME NEW w \in Worker, Handler(w), ~ Mint(w)
        PROVE  TablesGrow
    BY <1>1, <1>4 DEF Handler, CreateUser, Retire, Respond, AuditReuse, LogoutRevoke,
       RevokeOthersStep, SetPassword, ConsumeResetToken, RevokeAll, TablesGrow
  <1>5. ASSUME NEW w \in Worker, Fail(w)
        PROVE  TablesGrow
    BY <1>1, <1>5 DEF Fail, TablesGrow
  <1>6. ASSUME \/ \E u \in User : ForgotPassword(u)
               \/ ExpireToken \/ ExpireReset \/ UNCHANGED vars
        PROVE  TablesGrow
    BY <1>1, <1>6 DEF ForgotPassword, ExpireToken, ExpireReset, TablesGrow
  <1>7. QED
    BY <1>2, <1>3, <1>4, <1>5, <1>6 DEF Next

LEMMA AcceptKeepsHistory ==
  ASSUME StateOK, StateOK', HistoryOK, TablesGrow,
         NEW w \in Worker, NEW r, NEW s, Accept(w, r, s),
         UNCHANGED <<userVars, tokenVars, resetVars, delivered, historyVars>>,
         s # "respond",
         \/ s \notin {"create_refresh_token", "revoke_refresh_token"}
         \/ s = "revoke_refresh_token" /\ r.op = "logout"
         \/ s = "create_refresh_token" /\ r.op = "refresh" /\ r.tok \notin revoked
         \/ s = "create_refresh_token" /\ r.op # "refresh" /\ ~ (r.cred < cut[r.user])
  PROVE  HistoryOK'
  <1>1. OthersWait(w) /\ pc'[w] = s /\ req'[w] = r
    BY DEF StateOK, TypeOK, WorkersTyped, Accept, OthersWait
  <1>2. /\ revoked' = revoked \cup {} /\ (outran \cup Holding({})) \ {w} \subseteq outran'
        /\ endedBy' = endedBy /\ replacedBy' = replacedBy /\ cut' = cut
        /\ lost' = lost /\ racy' = racy /\ delivered' = delivered
    BY DEF tokenVars, historyVars, Holding
  <1>3. QED
    BY <1>1, <1>2, PlainStepKeepsHistory

LEMMA ArriveKeepsHistory ==
  ASSUME StateOK, StateOK', HistoryOK, TablesGrow, NEW w \in Worker, Arrive(w)
  PROVE  HistoryOK'
  <1> USE DEF NewRequest
  <1>1. ASSUME NEW u \in User, Register(w, u)
        PROVE  HistoryOK'
    BY <1>1, AcceptKeepsHistory DEF Register
  <1>2. ASSUME NEW u \in User, Login(w, u)
        PROVE  HistoryOK'
    <2>1. ~ (pwd[u] < cut[u])
      BY SessionConstants
      DEF StateOK, TypeOK, TablesTyped, HistoryTyped, RegistryOK, Password
    <2>2. QED
      BY <1>2, <2>1, AcceptKeepsHistory DEF Login
  <1>3. ASSUME NEW t \in Token, Refresh(w, t) \/ RefreshReuse(w, t) \/ Logout(w, t)
                                 \/ RevokeOthers(w, t)
        PROVE  HistoryOK'
    <2>1. CASE Refresh(w, t)
      BY <2>1, AcceptKeepsHistory DEF Refresh
    <2>2. CASE RefreshReuse(w, t)
      BY <2>2, AcceptKeepsHistory DEF RefreshReuse
    <2>3. CASE Logout(w, t)
      BY <2>3, AcceptKeepsHistory DEF Logout
    <2>4. CASE RevokeOthers(w, t)
      BY <2>4, AcceptKeepsHistory DEF RevokeOthers
    <2>5. QED
      BY <1>3, <2>1, <2>2, <2>3, <2>4
  <1>4. ASSUME NEW k \in Reset, ResetPassword(w, k)
        PROVE  HistoryOK'
    BY <1>4, AcceptKeepsHistory DEF ResetPassword
  <1>5. QED
    BY <1>1, <1>2, <1>3, <1>4 DEF Arrive

LEMMA HandlerKeepsHistory ==
  ASSUME StateOK, StateOK', HistoryOK, TablesGrow, NEW w \in Worker, Handler(w)
  PROVE  HistoryOK'
  <1>0. /\ HandlerOK(req[w], pc[w], new[w])
        /\ WorkersTyped
        /\ last \in Nat /\ MaxTokens \in Nat /\ last <= MaxTokens
        /\ \A c \in Settled : c \in 1..last
        /\ revoked \subseteq 1..last
    BY SessionConstants, SettledTokensExist
    DEF StateOK, TypeOK, TablesTyped, WorkersOK, Token0
  <1> USE DEF userVars, tokenVars, resetVars, historyVars
  <1>1. ASSUME \/ CreateUser(w) \/ AuditReuse(w) \/ SetPassword(w)
               \/ ConsumeResetToken(w)
        PROVE  HistoryOK'
    <2>1. /\ revoked' = revoked \cup {} /\ (outran \cup Holding({})) \ {w} \subseteq outran'
          /\ endedBy' = endedBy /\ replacedBy' = replacedBy /\ cut' = cut
          /\ lost' = lost /\ racy' = racy /\ delivered' = delivered
      BY <1>1 DEF CreateUser, AuditReuse, SetPassword, ConsumeResetToken, Holding
    <2>2. OthersWait(w) /\ pc'[w] # "respond" /\ pc'[w] # "revoke_refresh_token"
      BY <1>0, <1>1 DEF CreateUser, AuditReuse, SetPassword, ConsumeResetToken,
         OthersWait, Goto, Finish, WorkersTyped
    <2>3. pc'[w] = "create_refresh_token" =>
            req'[w].op # "refresh" /\ ~ (req'[w].cred < cut'[req'[w].user])
      <3> SUFFICES ASSUME pc'[w] = "create_refresh_token"
                   PROVE  req'[w].op # "refresh" /\ ~ (req'[w].cred < cut'[req'[w].user])
        OBVIOUS
      <3>1. /\ pc[w] = "create_user" /\ req' = req
            /\ req[w].user \notin registered
        BY <1>0, <1>1 DEF CreateUser, AuditReuse, SetPassword, ConsumeResetToken,
           Goto, Finish, WorkersTyped
      <3>2. /\ req[w].op # "refresh" /\ req[w].cred = 0
            /\ req[w].user \in User /\ cut[req[w].user] = 0
        BY <1>0, <3>1 DEF HandlerOK, StateOK, RegistryOK
      <3>3. QED
        BY <2>1, <3>1, <3>2
    <2>4. QED
      BY <2>1, <2>2, <2>3, PlainStepKeepsHistory
  <1>2. ASSUME Respond(w)
        PROVE  HistoryOK'
    <2>1. /\ revoked' = revoked \cup {} /\ (outran \cup Holding({})) \ {w} \subseteq outran'
          /\ endedBy' = endedBy /\ replacedBy' = replacedBy /\ cut' = cut
          /\ lost' = lost /\ racy' = racy
          /\ pc[w] = "respond" /\ delivered' = delivered \cup {new[w]}
      BY <1>2 DEF Respond, Holding
    <2>2. OthersWait(w) /\ pc'[w] = "idle"
      BY <1>0, <1>2 DEF Respond, OthersWait, Finish, WorkersTyped
    <2>3. QED
      BY <2>1, <2>2, PlainStepKeepsHistory
  <1>3. ASSUME LogoutRevoke(w)
        PROVE  HistoryOK'
    <2>1. /\ revoked' = revoked \cup {req[w].tok}
          /\ (outran \cup Holding({req[w].tok})) \ {w} \subseteq outran'
          /\ cut' = cut /\ lost' = lost /\ racy' = racy /\ delivered' = delivered
      BY <1>3 DEF LogoutRevoke, RevokeRefreshToken, MarkEnded
    <2>2. \A t \in revoked : endedBy'[t] = endedBy[t]
      BY <1>3, FirstCauseStays DEF LogoutRevoke
    <2>3. \A t \in Token : replacedBy'[t] \in {replacedBy[t], 0}
      BY <1>3 DEF LogoutRevoke, RevokeRefreshToken, StateOK, TypeOK, TablesTyped
    <2>4. OthersWait(w) /\ pc'[w] = "idle"
      BY <1>0, <1>3 DEF LogoutRevoke, OthersWait, Finish, WorkersTyped
    <2>5. QED
      BY <2>1, <2>2, <2>3, <2>4, PlainStepKeepsHistory
  <1>4. ASSUME RevokeOthersStep(w)
        PROVE  HistoryOK'
    <2> DEFINE S == TokensOf(req[w].user) \ {req[w].tok}
    <2>1. /\ revoked' = revoked \cup S /\ (outran \cup Holding(S)) \ {w} \subseteq outran'
          /\ cut' = cut /\ lost' = lost /\ racy' = racy /\ delivered' = delivered
          /\ replacedBy' = replacedBy
      BY <1>4 DEF RevokeOthersStep, RevokeAllRefreshTokensExcept, MarkEnded
    <2>2. \A t \in revoked : endedBy'[t] = endedBy[t]
      BY <1>4, FirstCauseStays DEF RevokeOthersStep
    <2>3. OthersWait(w) /\ pc'[w] = "idle"
      BY <1>0, <1>4 DEF RevokeOthersStep, OthersWait, Finish, WorkersTyped
    <2> HIDE DEF S
    <2>4. QED
      BY <2>1, <2>2, <2>3, PlainStepKeepsHistory
  <1>5. ASSUME Mint(w)
        PROVE  HistoryOK'
    <2> DEFINE n == last + 1
    <2>1. /\ n \in Token /\ n \notin 1..last
          /\ revoked' = revoked \cup {} /\ (outran \cup Holding({})) \ {w} \subseteq outran'
          /\ outran' = outran /\ endedBy' = endedBy /\ replacedBy' = replacedBy
          /\ cut' = cut /\ lost' = lost /\ racy \subseteq racy' /\ delivered' = delivered
      BY <1>0, <1>5 DEF Mint, CreateRefreshToken, Holding, Token
    <2>2. /\ OthersWait(w) /\ req' = req /\ new'[w] = n
          /\ pc[w] = "create_refresh_token"
          /\ pc'[w] = IF req[w].op = "refresh" THEN "revoke_refresh_token" ELSE "respond"
      BY <1>0, <1>5 DEF Mint, OthersWait, WorkersTyped
    <2>3. /\ owner'[n] = req[w].user /\ parent'[n] = req[w].tok /\ cred'[n] = req[w].cred
          /\ w \in outran \/ req[w].tok \in racy => n \in racy'
      BY <1>5, <2>1
      DEF Mint, CreateRefreshToken, StateOK, TypeOK, TablesTyped, HistoryTyped
    <2> HIDE DEF n
    <2>4. /\ Settled' \subseteq Settled \cup {n}
          /\ req[w].op = "refresh" => Settled' \subseteq Settled
          /\ revoked' = revoked
      BY <2>1, <2>2, Settling
    <2>5. req[w].cred < cut[req[w].user] => n \in racy'
      <3>1. CASE req[w].op # "refresh"
        BY <2>2, <2>3, <3>1 DEF HistoryOK, ResetOK
      <3>2. CASE req[w].op = "refresh" /\ req[w].tok \in revoked
        BY <2>2, <2>3, <3>2 DEF HistoryOK, OvertakenOK, Holding
      <3>3. CASE req[w].op = "refresh" /\ req[w].tok \notin revoked
        <4>1. /\ req[w].tok \in Settled \ revoked
              /\ req[w].cred = cred[req[w].tok] /\ req[w].user = owner[req[w].tok]
          BY <1>0, <2>2, <3>3 DEF HandlerOK, Settled
        <4>2. QED
          BY <2>3, <4>1 DEF HistoryOK, ResetOK
      <3>4. QED
        BY <3>1, <3>2, <3>3
    <2>6. OvertakenOK'
      <3>1. pc[w] = "create_refresh_token" /\ req[w].op = "refresh"
              /\ req[w].tok \in revoked => w \in outran
        BY DEF HistoryOK, OvertakenOK, Holding
      <3>2. QED
        BY <2>1, <2>2, <2>4, <3>1, OvertakenKeeps DEF HistoryOK
    <2>7. LineageOK'
      <3>1. \A c \in Settled' \ Settled : parent'[c] = 0
        BY <1>0, <2>2, <2>3, <2>4 DEF HandlerOK
      <3>2. revoked \subseteq revoked' /\ lost \subseteq lost'
            /\ (\A t \in revoked : endedBy'[t] = endedBy[t])
            /\ (\A t \in Token : replacedBy'[t] \in {replacedBy[t], 0})
        BY <2>1
      <3>3. QED
        BY <3>1, <3>2, LineageKeeps DEF HistoryOK
    <2>8. ResetOK'
      <3>1. RestsOnNewPassword(req[w], pc[w], new[w], w)'
        BY <2>1, <2>2, <2>3, <2>5 DEF RestsOnNewPassword
      <3>2. \A c \in Settled' \ (Settled \cup revoked') :
              cred'[c] < cut'[owner'[c]] => c \in racy'
        BY <2>1, <2>3, <2>4, <2>5
      <3>3. revoked \subseteq revoked' /\ outran \ {w} \subseteq outran'
        BY <2>1
      <3>4. QED
        BY <2>1, <2>2, <3>1, <3>2, <3>3, ResetKeeps DEF HistoryOK
    <2>9. QED
      BY <2>6, <2>7, <2>8 DEF HistoryOK
  <1>6. ASSUME Retire(w)
        PROVE  HistoryOK'
    <2> DEFINE t == req[w].tok
               n == new[w]
    <2>1. /\ t \in 1..last /\ t \in Token /\ n \in 1..last
          /\ owner[n] = req[w].user /\ owner[t] = req[w].user
          /\ parent[n] = t /\ n > t
      <3>1. t \in delivered /\ n \in 1..last /\ owner[n] = req[w].user
            /\ owner[t] = req[w].user /\ parent[n] = t /\ n > t
        BY <1>0, <1>6 DEF Retire, HandlerOK
      <3>2. t \in 1..last
        BY <3>1 DEF StateOK, TypeOK, TablesTyped
      <3>3. QED
        BY <1>0, <3>1, <3>2 DEF Token
    <2>2. /\ revoked' = revoked \cup {t}
          /\ outran' = (outran \cup Holding({t})) \ {w}
          /\ replacedBy' = [replacedBy EXCEPT ![t] = n]
          /\ lost' = (IF w \in outran THEN lost \cup {n} ELSE lost)
          /\ racy' = (IF w \in outran THEN racy \cup {n} ELSE racy)
          /\ UNCHANGED <<last, owner, parent, cred, cut, delivered, req, new>>
      BY <1>6 DEF Retire, RevokeRefreshToken, MarkEnded, Goto
    <2>3. /\ \A c \in revoked : endedBy'[c] = endedBy[c]
          /\ t \notin revoked => endedBy'[t] = "refresh"
      <3>1. \A c \in revoked : endedBy'[c] = endedBy[c]
        BY <1>6, FirstCauseStays DEF Retire
      <3>2. t \notin revoked => endedBy'[t] = "refresh"
        BY <1>6, <2>1 DEF Retire, MarkEnded
      <3>3. QED
        BY <3>1, <3>2
    <2>4. OthersWait(w) /\ pc'[w] = "respond"
      BY <1>0, <1>6 DEF Retire, OthersWait, Goto, WorkersTyped
    <2>5. Settled' \subseteq Settled \cup {n}
      BY <2>2, <2>4, Settling
    <2>6. t \in revoked => w \in outran
      BY <1>6 DEF Retire, HistoryOK, OvertakenOK, Holding
    <2> HIDE DEF t, n
    <2>7. OvertakenOK'
      BY <2>2, <2>4, OvertakenKeeps DEF HistoryOK
    <2>8. LineageOK'
      <3>1. ReplacementLinks'
        <4> SUFFICES ASSUME NEW x \in Token, replacedBy'[x] # 0
                     PROVE  /\ x \in revoked'
                            /\ replacedBy'[x] > x
                            /\ owner'[replacedBy'[x]] = owner'[x]
                            /\ parent'[replacedBy'[x]] = x
          BY DEF ReplacementLinks
        <4>1. CASE x = t
          BY <2>1, <2>2, <4>1 DEF StateOK, TypeOK, TablesTyped
        <4>2. CASE x # t
          <5>1. replacedBy'[x] = replacedBy[x]
            BY <2>2, <4>2 DEF StateOK, TypeOK, TablesTyped
          <5>2. QED
            BY <2>2, <5>1 DEF HistoryOK, LineageOK, ReplacementLinks
        <4>3. QED
          BY <4>1, <4>2
      <3>2. \A c \in Settled : parent[c] # 0 => parent[c] \in revoked
        BY DEF HistoryOK, LineageOK
      <3>3. \A c \in Settled' : parent'[c] # 0 => parent'[c] \in revoked'
        BY <2>1, <2>2, <2>5, <3>2
      <3>4. ASSUME w \notin outran, NEW c \in Settled, parent[c] # 0
            PROVE  parent[c] # t
        BY <2>6, <3>2, <3>4
      <3>5. \A c, d \in Settled' :
              c # d /\ parent'[c] # 0 /\ parent'[c] = parent'[d]
                => c \in lost' \/ d \in lost'
        <4> SUFFICES ASSUME NEW c \in Settled', NEW d \in Settled',
                            c # d, parent[c] # 0, parent[c] = parent[d]
                     PROVE  c \in lost' \/ d \in lost'
          BY <2>2
        <4>1. CASE c \in Settled /\ d \in Settled
          BY <2>2, <4>1 DEF HistoryOK, LineageOK
        <4>2. CASE c = n \/ d = n
          BY <2>1, <2>2, <2>5, <3>4, <4>2
        <4>3. QED
          BY <2>5, <4>1, <4>2
      <3>6. \A c \in Settled' :
              parent'[c] # 0 /\ endedBy'[parent'[c]] # "refresh" => c \in lost'
        <4> SUFFICES ASSUME NEW c \in Settled', parent[c] # 0,
                            endedBy'[parent[c]] # "refresh"
                     PROVE  c \in lost'
          BY <2>2
        <4>1. CASE c \in Settled
          BY <2>2, <2>3, <3>2, <4>1 DEF HistoryOK, LineageOK
        <4>2. CASE c = n
          BY <2>1, <2>2, <2>3, <2>6, <4>2
        <4>3. QED
          BY <2>5, <4>1, <4>2
      <3>7. QED
        BY <3>1, <3>3, <3>5, <3>6 DEF LineageOK
    <2>9. ResetOK'
      <3>1. n \notin revoked' /\ cred[n] < cut[req[w].user] => n \in racy'
        BY <1>6, <2>2 DEF Retire, HistoryOK, ResetOK, n
      <3>2. RestsOnNewPassword(req[w], pc[w], new[w], w)'
        BY <2>4 DEF RestsOnNewPassword
      <3>3. \A c \in Settled' \ (Settled \cup revoked') :
              cred'[c] < cut'[owner'[c]] => c \in racy'
        BY <2>1, <2>2, <2>5, <3>1
      <3>4. revoked \subseteq revoked' /\ outran \ {w} \subseteq outran'
            /\ racy \subseteq racy' /\ cut' = cut
        BY <2>2
      <3>5. QED
        BY <2>4, <3>2, <3>3, <3>4, ResetKeeps DEF HistoryOK
    <2>10. QED
      BY <2>7, <2>8, <2>9 DEF HistoryOK
  <1>7. ASSUME RevokeAll(w)
        PROVE  HistoryOK'
    <2> DEFINE u == req[w].user
               S == TokensOf(u)
    <2>1. /\ revoked' = revoked \cup S
          /\ outran' = (outran \cup (Holding(S) \cup Opening(u))) \ {w}
          /\ cut' = [cut EXCEPT ![u] = pwd[u]]
          /\ lost' = lost /\ racy' = racy /\ delivered' = delivered
          /\ replacedBy' = replacedBy /\ last' = last /\ owner' = owner /\ cred' = cred
      BY <1>7 DEF RevokeAll, RevokeAllRefreshTokens, MarkEnded
    <2>2. \A t \in revoked : endedBy'[t] = endedBy[t]
      BY <1>7, FirstCauseStays DEF RevokeAll
    <2>3. OthersWait(w) /\ pc'[w] = "idle"
      BY <1>0, <1>7 DEF RevokeAll, OthersWait, Finish, WorkersTyped
    <2>4. Settled' \subseteq Settled
      BY <2>1, <2>3, Settling
    <2>5. /\ \A c \in 1..last : c \notin revoked' => owner[c] # u /\ c \notin revoked
          /\ \A x \in User : x # u => cut'[x] = cut[x]
      BY <2>1 DEF TokensOf, StateOK, TypeOK, HistoryTyped
    <2>6. OvertakenOK'
      <3>1. (outran \cup Holding(S)) \ {w} \subseteq outran'
        BY <2>1
      <3> HIDE DEF S
      <3>2. QED
        BY <2>1, <2>3, <3>1, OvertakenKeeps DEF HistoryOK
    <2>7. LineageOK'
      BY <2>1, <2>2, <2>4, LineageKeeps DEF HistoryOK
    <2>8. \A c \in Settled' \ revoked' : cred'[c] < cut'[owner'[c]] => c \in racy'
      <3> SUFFICES ASSUME NEW c \in Settled' \ revoked', cred'[c] < cut'[owner'[c]]
                   PROVE  c \in racy'
        OBVIOUS
      <3>1. c \in Settled /\ c \in 1..last /\ c \notin revoked /\ owner[c] # u
        BY <1>0, <2>4, <2>5
      <3>2. owner[c] \in User
        BY <3>1 DEF StateOK, TypeOK, TablesTyped, RegistryOK
      <3>3. cut'[owner'[c]] = cut[owner[c]] /\ cred'[c] = cred[c]
        BY <2>1, <2>5, <3>1, <3>2
      <3>4. QED
        BY <2>1, <3>1, <3>3 DEF HistoryOK, ResetOK
    <2>9. ASSUME NEW v \in Worker
          PROVE  RestsOnNewPassword(req[v], pc[v], new[v], v)'
      <3>1. CASE v = w
        BY <2>3, <3>1 DEF RestsOnNewPassword
      <3>2. CASE v # w
        <4>1. /\ req'[v] = req[v] /\ pc'[v] = pc[v] /\ new'[v] = new[v]
              /\ v \in outran => v \in outran'
          BY <2>1, <2>3, <3>2 DEF OthersWait
        <4>2. RestsOnNewPassword(req[v], pc[v], new[v], v)
          BY DEF HistoryOK, ResetOK, RestsOnNewPassword
        <4>3. HandlerOK(req[v], pc[v], new[v])
          BY DEF StateOK, WorkersOK
        <4>4. CASE req[v].user = u
          <5>1. pc[v] = "create_refresh_token" => v \in outran'
            BY <2>1, <3>2, <4>4 DEF Opening
          <5>2. pc[v] = "revoke_refresh_token" /\ req[v].op = "refresh" =>
                  new[v] \in revoked'
            BY <2>5, <4>3, <4>4 DEF HandlerOK
          <5>3. QED
            BY <4>1, <5>1, <5>2 DEF RestsOnNewPassword
        <4>5. CASE req[v].user # u /\ pc[v] # "idle"
          <5>1. cut'[req[v].user] = cut[req[v].user]
            BY <2>5, <4>3, <4>5 DEF HandlerOK
          <5>2. revoked \subseteq revoked' /\ cred' = cred /\ racy' = racy
            BY <2>1
          <5>3. QED
            BY <4>1, <4>2, <5>1, <5>2 DEF RestsOnNewPassword
        <4>6. CASE pc[v] = "idle"
          BY <4>1, <4>6 DEF RestsOnNewPassword
        <4>7. QED
          BY <4>4, <4>5, <4>6
      <3>3. QED
        BY <3>1, <3>2
    <2>10. ResetOK'
      BY <2>8, <2>9 DEF ResetOK, RestsOnNewPassword
    <2>11. QED
      BY <2>6, <2>7, <2>10 DEF HistoryOK
  <1>8. QED
    BY <1>1, <1>2, <1>3, <1>4, <1>5, <1>6, <1>7 DEF Handler

LEMMA EnvironmentKeepsHistory ==
  ASSUME StateOK, StateOK', HistoryOK, TablesGrow,
         \/ \E w \in Worker : Fail(w)
         \/ \E u \in User : ForgotPassword(u)
         \/ ExpireToken
         \/ ExpireReset
         \/ UNCHANGED vars
  PROVE  HistoryOK'
  <1> USE DEF userVars, tokenVars, resetVars, historyVars, workerVars
  <1>1. ASSUME NEW w \in Worker, Fail(w)
        PROVE  HistoryOK'
    <2>1. /\ revoked' = revoked \cup {} /\ (outran \cup Holding({})) \ {w} \subseteq outran'
          /\ endedBy' = endedBy /\ replacedBy' = replacedBy /\ cut' = cut
          /\ lost' = lost /\ racy' = racy /\ delivered' = delivered
      BY <1>1 DEF Fail, Holding
    <2>2. OthersWait(w) /\ pc'[w] = "idle"
      BY <1>1 DEF Fail, OthersWait, Finish, StateOK, TypeOK, WorkersTyped
    <2>3. QED
      BY <2>1, <2>2, PlainStepKeepsHistory
  <1>2. ASSUME \/ \E u \in User : ForgotPassword(u)
               \/ ExpireToken
               \/ ExpireReset
               \/ UNCHANGED vars
        PROVE  HistoryOK'
    <2>1. /\ revoked' = revoked /\ replacedBy' = replacedBy /\ last' = last
          /\ owner' = owner /\ delivered' = delivered /\ pc' = pc /\ req' = req
          /\ new' = new /\ parent' = parent /\ cred' = cred /\ endedBy' = endedBy
          /\ outran' = outran /\ lost' = lost /\ racy' = racy /\ cut' = cut
      BY <1>2 DEF ForgotPassword, ExpireToken, ExpireReset, vars
    <2>2. OvertakenOK'
      BY <2>1 DEF HistoryOK, OvertakenOK, Holding
    <2>3. Settled' = Settled
      BY <2>1 DEF Settled
    <2>4. LineageOK'
      BY <2>1, <2>3 DEF HistoryOK, LineageOK, ReplacementLinks
    <2>5. ResetOK'
      BY <2>1, <2>3 DEF HistoryOK, ResetOK
    <2>6. QED
      BY <2>2, <2>4, <2>5 DEF HistoryOK
  <1>3. QED
    BY <1>1, <1>2

LEMMA InitHistory == Init => HistoryOK
  <1> SUFFICES ASSUME Init
               PROVE  HistoryOK
    OBVIOUS
  <1>1. Settled = {}
    BY DEF Init, Settled
  <1>2. OvertakenOK
    BY DEF Init, OvertakenOK, Holding
  <1>3. LineageOK
    BY <1>1 DEF Init, LineageOK, ReplacementLinks
  <1>4. ResetOK
    BY <1>1 DEF Init, ResetOK
  <1>5. QED
    BY <1>2, <1>3, <1>4 DEF HistoryOK

(* The inductive invariant.                                                *)
THEOREM Inductive == Spec => []IInv
  <1>1. Init => IInv
    BY InitState, InitHistory DEF IInv, HistoryOK
  <1>2. IInv /\ [Next]_vars => IInv'
    <2> SUFFICES ASSUME IInv, [Next]_vars
                 PROVE  IInv'
      OBVIOUS
    <2>1. StateOK /\ HistoryOK
      BY DEF IInv, HistoryOK
    <2>2. StateOK' /\ TablesGrow
      BY <2>1, NextKeepsState, NextGrows
    <2>3. HistoryOK'
      BY <2>1, <2>2, ArriveKeepsHistory, HandlerKeepsHistory, EnvironmentKeepsHistory
      DEF Next
    <2>4. QED
      BY <2>2, <2>3 DEF IInv, HistoryOK
  <1>3. QED
    BY <1>1, <1>2, PTL DEF Spec
-----------------------------------------------------------------------------
(* What follows for the tokens that clients hold.                          *)

LEMMA DeliveredSettled == \A c \in delivered : c \in Settled
  BY DEF Settled

(* replaced_by_token_id links run forward within one user's sessions and   *)
(* only out of revoked rows: revoke_refresh_token links a row to the token *)
(* its own refresh inserted, and logout only ever clears a link.           *)
THEOREM LinksAreChains == Spec => []ReplacementLinks
  <1>1. IInv => ReplacementLinks
    BY DEF IInv, LineageOK
  <1>2. QED
    BY <1>1, Inductive, PTL

(* refresh_tokens never answers before the token it was given is revoked.  *)
THEOREM SuccessorsRetireParents == Spec => []SuccessorRetiresParent
  <1>1. IInv => SuccessorRetiresParent
    BY DeliveredSettled DEF IInv, LineageOK, SuccessorRetiresParent
  <1>2. QED
    BY <1>1, Inductive, PTL

(* Only a refresh whose token was revoked between its lookup (service.py   *)
(* line 262) and its revocation (line 295) can give a session two heirs.   *)
THEOREM ForksComeFromRaces == Spec => []OnlyOvertakenRefreshesFork
  <1>1. IInv => OnlyOvertakenRefreshesFork
    BY DeliveredSettled DEF IInv, LineageOK, OnlyOvertakenRefreshesFork
  <1>2. QED
    BY <1>1, Inductive, PTL

(* Only such a refresh continues a session that logout, revoke-others or a *)
(* reset has ended.                                                        *)
THEOREM EndedSessionsStayEnded == Spec => []EndedSessionsHaveNoLateSuccessor
  <1>1. IInv => EndedSessionsHaveNoLateSuccessor
    BY DeliveredSettled DEF IInv, LineageOK, EndedSessionsHaveNoLateSuccessor
  <1>2. QED
    BY <1>1, Inductive, PTL

(* Only sessions of logins and refreshes in flight at the revocation, and  *)
(* their successors, outlive a password reset.                             *)
THEOREM ResetEndsOldSessions == Spec => []OnlyOvertakenSessionsOutliveReset
  <1>1. IInv => OnlyOvertakenSessionsOutliveReset
    BY DeliveredSettled DEF IInv, ResetOK, OnlyOvertakenSessionsOutliveReset
  <1>2. QED
    BY <1>1, Inductive, PTL
-----------------------------------------------------------------------------
(* The session tables implement the ledger.                                *)

LEMMA StepMaps == StateOK /\ [Next]_vars => [Ledger!Next]_(Ledger!ledger)
  <1> SUFFICES ASSUME StateOK, [Next]_vars
               PROVE  [Ledger!Next]_(Ledger!ledger)
    OBVIOUS
  <1> USE DEF userVars, tokenVars, resetVars, historyVars, workerVars, Ledger!ledger
  <1>1. ASSUME NEW w \in Worker, NEW u \in User, NEW S \in SUBSET TokensOf(u),
               revoked' = revoked \cup S, UNCHANGED <<registered, last, owner>>
        PROVE  Ledger!Next
    <2>1. S \in SUBSET {t \in 1..last : owner[t] = u}
      BY <1>1 DEF TokensOf
    <2>2. Ledger!End(u)
      BY <1>1, <2>1 DEF Ledger!End
    <2>3. QED
      BY <2>2 DEF Ledger!Next
  <1>2. ASSUME NEW w \in Worker, Arrive(w)
        PROVE  UNCHANGED Ledger!ledger
    BY <1>2 DEF Arrive, Register, Login, Refresh, RefreshReuse, Logout, RevokeOthers,
       ResetPassword
  <1>3. ASSUME NEW w \in Worker, Handler(w)
        PROVE  [Ledger!Next]_(Ledger!ledger)
    <2>1. /\ HandlerOK(req[w], pc[w], new[w])
          /\ delivered \subseteq 1..last
      BY DEF StateOK, TypeOK, TablesTyped, WorkersOK
    <2>2. CASE CreateUser(w)
      <3>1. req[w].user \in User
        BY <2>1, <2>2 DEF CreateUser, HandlerOK
      <3>2. Ledger!Enroll(req[w].user) \/ UNCHANGED Ledger!ledger
        BY <2>2 DEF CreateUser, Ledger!Enroll
      <3>3. QED
        BY <3>1, <3>2 DEF Ledger!Next
    <2>3. CASE Mint(w)
      <3>1. req[w].user \in User /\ req[w].user \in registered
        BY <2>1, <2>3 DEF Mint, HandlerOK
      <3>2. Ledger!Open(req[w].user)
        BY <2>3, <3>1 DEF Mint, CreateRefreshToken, Ledger!Open
      <3>3. QED
        BY <3>1, <3>2 DEF Ledger!Next
    <2>4. CASE Retire(w) \/ LogoutRevoke(w)
      <3>1. /\ req[w].user \in User
            /\ {req[w].tok} \in SUBSET TokensOf(req[w].user)
            /\ revoked' = revoked \cup {req[w].tok}
            /\ UNCHANGED <<registered, last, owner>>
        BY <2>1, <2>4 DEF Retire, LogoutRevoke, RevokeRefreshToken, HandlerOK, TokensOf
      <3>2. QED
        BY <1>1, <3>1
    <2>5. CASE RevokeOthersStep(w) \/ RevokeAll(w)
      <3>1. /\ req[w].user \in User
            /\ UNCHANGED <<registered, last, owner>>
        BY <2>1, <2>5 DEF RevokeOthersStep, RevokeAll, HandlerOK
      <3>2. PICK S \in SUBSET TokensOf(req[w].user) : revoked' = revoked \cup S
        BY <2>5 DEF RevokeOthersStep, RevokeAll, RevokeAllRefreshTokensExcept,
           RevokeAllRefreshTokens
      <3>3. QED
        BY <1>1, <3>1, <3>2
    <2>6. CASE Respond(w) \/ AuditReuse(w) \/ SetPassword(w) \/ ConsumeResetToken(w)
      BY <2>6 DEF Respond, AuditReuse, SetPassword, ConsumeResetToken
    <2>7. QED
      BY <1>3, <2>2, <2>3, <2>4, <2>5, <2>6 DEF Handler
  <1>4. ASSUME \/ \E w \in Worker : Fail(w)
               \/ \E u \in User : ForgotPassword(u)
               \/ ExpireToken
               \/ ExpireReset
               \/ UNCHANGED vars
        PROVE  UNCHANGED Ledger!ledger
    BY <1>4 DEF Fail, ForgotPassword, ExpireToken, ExpireReset, vars
  <1>5. QED
    BY <1>2, <1>3, <1>4 DEF Next

(* Under every interleaving of the handlers, and whatever stops half-way,  *)
(* the tables only enroll accounts, open sessions for them and end         *)
(* sessions of one account at a time; nothing reopens or reassigns one.    *)
THEOREM TablesImplementLedger == Spec => ImplementsLedger
  <1>1. Init => Ledger!Init
    BY DEF Init, Ledger!Init, Token, Ledger!Session
  <1>2. StateOK /\ [Next]_vars => [Ledger!Next]_(Ledger!ledger)
    BY StepMaps
  <1>3. QED
    BY <1>1, <1>2, StateInvariant, PTL DEF Spec, ImplementsLedger, Ledger!Spec
-----------------------------------------------------------------------------
(* The browser.  Its steps are steps of AuthSessions (CookieOK says that   *)
(* the cookie holds a token it was given), so what is proved above holds   *)
(* under BrowserSpec.  FreshOK is a fact of AuthSessions that its own      *)
(* properties do not need: a token is in no client's hands before the      *)
(* response, and only a token that is has been rotated.                    *)

(* Worker w has inserted a token that it has not handed out.               *)
Carries(w) ==
  pc[w] = "respond" \/ (pc[w] = "revoke_refresh_token" /\ req[w].op = "refresh")

FreshOK ==
  /\ \A w \in Worker : Carries(w) => new[w] \notin delivered
  /\ \A v, w \in Worker : v # w /\ Carries(v) /\ Carries(w) => new[v] # new[w]
  /\ \A t \in Token : endedBy[t] = "refresh" => t \in delivered

CookieOK ==
  /\ jar # 0 => jar \in mine
  /\ mine \subseteq delivered
  /\ serving \in [Worker -> Tab \cup {NoTab, Lost}]
  /\ \A w \in Worker : req[w].op = "refresh" => serving[w] # NoTab

(* Between a logout and the next sign-in, what may still set the cookie.   *)
LogoutOK ==
  ~ signedIn =>
    /\ jar # 0 => jar \in late
    /\ \A w \in Worker : serving[w] \in Tab /\ req[w].op = "refresh" =>
         w \in overlapped \/ req[w].tok \in late

TabsOK == CookieOK /\ LogoutOK /\ RacingTabsKeepTheCookie

LEMMA FreshKeeps ==
  ASSUME StateOK, FreshOK, NEW w \in Worker, OthersWait(w),
         \A t \in Token : endedBy'[t] = "refresh" =>
           endedBy[t] = "refresh" \/ t \in delivered,
         \/ ~ Carries(w)' /\ delivered' = delivered
         \/ ~ Carries(w)' /\ Carries(w) /\ delivered' = delivered \cup {new[w]}
         \/ Carries(w) /\ new'[w] = new[w] /\ delivered' = delivered
         \/ new'[w] \notin 1..last /\ delivered' = delivered
  PROVE  FreshOK'
  <1>1. \A v \in Worker \ {w} : new'[v] = new[v] /\ (Carries(v)' <=> Carries(v))
    BY DEF OthersWait, Carries
  <1>2. /\ delivered \subseteq 1..last
        /\ \A v \in Worker : Carries(v) => new[v] \in 1..last
    BY DEF StateOK, TypeOK, TablesTyped, WorkersOK, HandlerOK, Carries
  <1>3. delivered \subseteq delivered'
    OBVIOUS
  <1>4. \A v \in Worker : Carries(v)' => new'[v] \notin delivered'
    BY <1>1, <1>2 DEF FreshOK
  <1>5. \A v \in Worker \ {w} : Carries(v)' /\ Carries(w)' => new'[v] # new'[w]
    BY <1>1, <1>2 DEF FreshOK
  <1>6. \A u, v \in Worker : u # v /\ Carries(u)' /\ Carries(v)' => new'[u] # new'[v]
    BY <1>1, <1>5 DEF FreshOK
  <1>7. \A t \in Token : endedBy'[t] = "refresh" => t \in delivered'
    BY <1>3 DEF FreshOK
  <1>8. QED
    BY <1>4, <1>6, <1>7 DEF FreshOK

(* Accepting a request moves only the worker, which is idle.               *)
LEMMA AcceptStep ==
  ASSUME WorkersTyped, NEW w \in Worker, NEW r, NEW s, Accept(w, r, s)
  PROVE  OthersWait(w) /\ pc[w] = "idle" /\ pc'[w] = s /\ req'[w] = r
  BY DEF WorkersTyped, Accept, OthersWait

LEMMA NextKeepsFresh == StateOK /\ FreshOK /\ [Next]_vars => FreshOK'
  <1> SUFFICES ASSUME StateOK, FreshOK, [Next]_vars
               PROVE  FreshOK'
    OBVIOUS
  <1> USE DEF userVars, tokenVars, resetVars, historyVars, workerVars
  <1>0. /\ WorkersTyped /\ WorkersOK
        /\ last \in Nat /\ delivered \subseteq 1..last
    BY SessionConstants DEF StateOK, TypeOK, TablesTyped, Token0
  <1>1. ASSUME NEW w \in Worker, NEW r, NEW s, Accept(w, r, s),
               UNCHANGED <<delivered, historyVars>>,
               s # "respond", s = "revoke_refresh_token" => r.op # "refresh"
        PROVE  FreshOK'
    <2>1. OthersWait(w) /\ ~ Carries(w)'
      BY <1>0, <1>1, AcceptStep DEF Carries
    <2>2. QED
      BY <1>1, <2>1, FreshKeeps
  <1>2. ASSUME NEW w \in Worker, Arrive(w)
        PROVE  FreshOK'
    <2>1. ASSUME NEW u \in User, Register(w, u) \/ Login(w, u)
          PROVE  FreshOK'
      BY <1>1, <2>1 DEF Register, Login
    <2>2. ASSUME NEW t \in Token, Refresh(w, t) \/ RefreshReuse(w, t)
          PROVE  FreshOK'
      BY <1>1, <2>2 DEF Refresh, RefreshReuse
    <2>3. ASSUME NEW t \in Token, Logout(w, t) \/ RevokeOthers(w, t)
          PROVE  FreshOK'
      BY <1>1, <2>3 DEF Logout, RevokeOthers, NewRequest
    <2>4. ASSUME NEW k \in Reset, ResetPassword(w, k)
          PROVE  FreshOK'
      BY <1>1, <2>4 DEF ResetPassword
    <2>5. QED
      BY <1>2, <2>1, <2>2, <2>3, <2>4 DEF Arrive
  <1>3. ASSUME NEW w \in Worker, Finish(w)
        PROVE  OthersWait(w) /\ ~ Carries(w)'
    BY <1>0, <1>3 DEF WorkersTyped, Finish, OthersWait, Carries
  <1>4. ASSUME NEW w \in Worker, NEW s, Goto(w, s)
        PROVE  /\ OthersWait(w) /\ pc'[w] = s
               /\ req'[w] = req[w] /\ new'[w] = new[w]
    BY <1>0, <1>4 DEF WorkersTyped, Goto, OthersWait
  <1>5. ASSUME NEW w \in Worker, Handler(w) \/ Fail(w)
        PROVE  FreshOK'
    <2>1. HandlerOK(req[w], pc[w], new[w])
      BY <1>0 DEF WorkersOK
    <2>2. CASE CreateUser(w) \/ SetPassword(w) \/ ConsumeResetToken(w)
      <3>1. /\ OthersWait(w) /\ ~ Carries(w)'
            /\ delivered' = delivered /\ endedBy' = endedBy
        BY <1>3, <1>4, <2>2 DEF CreateUser, SetPassword, ConsumeResetToken, Carries
      <3>2. QED
        BY <3>1, FreshKeeps
    <2>3. CASE AuditReuse(w) \/ Fail(w)
      <3>1. /\ OthersWait(w) /\ ~ Carries(w)'
            /\ delivered' = delivered /\ endedBy' = endedBy
        BY <1>3, <2>3 DEF AuditReuse, Fail
      <3>2. QED
        BY <3>1, FreshKeeps
    <2>4. CASE LogoutRevoke(w) \/ RevokeOthersStep(w) \/ RevokeAll(w)
      <3>1. /\ OthersWait(w) /\ ~ Carries(w)' /\ delivered' = delivered
        BY <1>3, <2>4 DEF LogoutRevoke, RevokeOthersStep, RevokeAll
      <3>2. \A t \in Token : endedBy'[t] = "refresh" => endedBy[t] = "refresh"
        BY <2>4 DEF LogoutRevoke, RevokeOthersStep, RevokeAll, MarkEnded
      <3>3. QED
        BY <3>1, <3>2, FreshKeeps
    <2>5. CASE Respond(w)
      <3>1. /\ OthersWait(w) /\ ~ Carries(w)' /\ Carries(w)
            /\ delivered' = delivered \cup {new[w]} /\ endedBy' = endedBy
        BY <1>3, <2>5 DEF Respond, Carries
      <3>2. QED
        BY <3>1, FreshKeeps
    <2>6. CASE Mint(w)
      <3>1. /\ OthersWait(w) /\ new'[w] \notin 1..last
            /\ delivered' = delivered /\ endedBy' = endedBy
        BY <1>0, <2>6 DEF Mint, WorkersTyped, OthersWait
      <3>2. QED
        BY <3>1, FreshKeeps
    <2>7. CASE Retire(w)
      <3>1. /\ OthersWait(w) /\ Carries(w) /\ new'[w] = new[w]
            /\ delivered' = delivered
        BY <1>4, <2>7 DEF Retire, Carries
      <3>2. req[w].tok \in delivered
        BY <2>1, <2>7 DEF Retire, HandlerOK
      <3>3. \A t \in Token : endedBy'[t] = "refresh" =>
              endedBy[t] = "refresh" \/ t \in delivered
        BY <2>7, <3>2 DEF Retire, MarkEnded
      <3>4. QED
        BY <3>1, <3>3, FreshKeeps
    <2>8. QED
      BY <1>5, <2>2, <2>3, <2>4, <2>5, <2>6, <2>7 DEF Handler
  <1>6. ASSUME \/ \E u \in User : ForgotPassword(u)
               \/ ExpireToken \/ ExpireReset \/ UNCHANGED vars
        PROVE  FreshOK'
    <2>1. /\ delivered' = delivered /\ endedBy' = endedBy
          /\ pc' = pc /\ req' = req /\ new' = new
      BY <1>6 DEF ForgotPassword, ExpireToken, ExpireReset, vars
    <2>2. QED
      BY <2>1 DEF FreshOK, Carries
  <1>7. QED
    BY <1>2, <1>5, <1>6 DEF Next

(* The cookie holds a token that exists.                                   *)
LEMMA CookieExists ==
  StateOK /\ CookieOK =>
    /\ delivered \subseteq Token
    /\ jar # 0 => jar \in delivered /\ jar \in Token
  <1> SUFFICES ASSUME StateOK, CookieOK
               PROVE  delivered \subseteq Token /\ (jar # 0 => jar \in delivered)
    OBVIOUS
  <1>1. /\ delivered \subseteq 1..last
        /\ last \in Nat /\ last <= MaxTokens /\ MaxTokens \in Nat
    BY SessionConstants DEF StateOK, TypeOK, TablesTyped, Token0
  <1>2. 1..last \subseteq Token
    BY <1>1 DEF Token
  <1>3. jar # 0 => jar \in delivered
    BY DEF CookieOK
  <1>4. QED
    BY <1>1, <1>2, <1>3

LEMMA BrowserStepIsAStep ==
  StateOK /\ CookieOK /\ [BrowserNext]_allVars => [Next]_vars
  <1> SUFFICES ASSUME StateOK, CookieOK, [BrowserNext]_allVars
               PROVE  [Next]_vars
    OBVIOUS
  <1>1. /\ delivered \subseteq Token
        /\ jar # 0 => jar \in delivered /\ jar \in Token
    BY CookieExists
  <1>2. ASSUME NEW w \in Worker, NEW tab \in Tab,
               \/ \E u \in User : TabSignsIn(w, tab, u)
               \/ TabRefreshes(w, tab) \/ TabRevokesOthers(w, tab)
               \/ TabLogsOut(w, tab)
        PROVE  Next
    <2>1. Arrive(w)
      BY <1>1, <1>2 DEF TabSignsIn, TabRefreshes, TabLogsOut, TabRevokesOthers,
         RequireCookieCsrf, Arrive
    <2>2. QED
      BY <2>1 DEF Next
  <1>3. ASSUME NEW w \in Worker, Elsewhere(w)
        PROVE  Next
    <2>1. Arrive(w)
      BY <1>1, <1>3 DEF Elsewhere, Arrive
    <2>2. QED
      BY <2>1 DEF Next
  <1>4. ASSUME NEW w \in Worker,
               \/ AnswerSignIn(w) \/ AnswerRefresh(w) \/ AnswerElsewhere(w)
               \/ Refuse(w) \/ CommitLogout(w) \/ Work(w)
        PROVE  Next
    <2>1. Handler(w)
      BY <1>4 DEF AnswerSignIn, AnswerRefresh, AnswerTab, AnswerElsewhere, Refuse,
         CommitLogout, Work, Handler
    <2>2. QED
      BY <2>1 DEF Next
  <1>5. ASSUME NEW w \in Worker, LogoutRaises(w) \/ FailRequest(w)
        PROVE  Next
    BY <1>5 DEF LogoutRaises, FailRequest, Next
  <1>6. ASSUME \/ \E w \in Worker, tab \in Tab : TabLogsOutBare(w, tab)
               \/ \E w \in Worker : AnswerLogout(w) \/ Drop(w)
               \/ Restart
               \/ UNCHANGED allVars
        PROVE  UNCHANGED vars
    BY <1>6 DEF TabLogsOutBare, AnswerLogout, Drop, Restart, allVars
  <1>7. QED
    BY <1>2, <1>3, <1>4, <1>5, <1>6 DEF BrowserNext

(* A step of worker w that answers no sign-in, refresh or logout of a tab. *)
LEMMA CookieKeeps ==
  ASSUME TabsOK, delivered \subseteq delivered', NEW w \in Worker, OthersWait(w),
         UNCHANGED <<jar, mine, signedIn, late>>, torn \subseteq torn',
         overlapped \ {w} \subseteq overlapped',
         NEW client \in Tab \cup {NoTab, Lost},
         serving' = [serving EXCEPT ![w] = client],
         req'[w].op = "refresh" =>
           \/ req'[w] = req[w] /\ client = serving[w] /\ overlapped' = overlapped
           \/ client # NoTab /\ jar # 0 /\ req'[w].tok = jar,
         jar # 0 /\ endedBy'[jar] = "refresh" =>
           endedBy[jar] = "refresh" \/ (pc'[w] = "respond" /\ req'[w].tok = jar),
         pc[w] = "respond" /\ req[w].tok = jar /\ jar # 0 =>
           jar \in torn' \/ (pc'[w] = "respond" /\ req'[w].tok = jar)
  PROVE  TabsOK'
  <1>1. /\ serving'[w] = client
        /\ \A v \in Worker \ {w} :
             serving'[v] = serving[v] /\ req'[v] = req[v] /\ pc'[v] = pc[v]
        /\ serving' \in [Worker -> Tab \cup {NoTab, Lost}]
    BY DEF TabsOK, CookieOK, OthersWait
  <1>2. CookieOK'
    BY <1>1 DEF TabsOK, CookieOK
  <1>3. LogoutOK'
    <2> SUFFICES ASSUME ~ signedIn
                 PROVE  /\ jar # 0 => jar \in late
                        /\ \A v \in Worker :
                             serving'[v] \in Tab /\ req'[v].op = "refresh" =>
                               v \in overlapped' \/ req'[v].tok \in late
      BY DEF LogoutOK
    <2>1. /\ jar # 0 => jar \in late
          /\ \A v \in Worker : serving[v] \in Tab /\ req[v].op = "refresh" =>
               v \in overlapped \/ req[v].tok \in late
      BY DEF TabsOK, LogoutOK
    <2>2. \A v \in Worker \ {w} : serving'[v] \in Tab /\ req'[v].op = "refresh" =>
            v \in overlapped' \/ req'[v].tok \in late
      BY <1>1, <2>1
    <2>3. serving'[w] \in Tab /\ req'[w].op = "refresh" =>
            w \in overlapped' \/ req'[w].tok \in late
      BY <1>1, <2>1
    <2>4. QED
      BY <2>1, <2>2, <2>3
  <1>4. RacingTabsKeepTheCookie'
    <2> SUFFICES ASSUME signedIn
                 PROVE  /\ jar # 0
                        /\ endedBy'[jar] = "refresh" =>
                             \/ jar \in torn'
                             \/ \E v \in Worker :
                                  pc'[v] = "respond" /\ req'[v].tok = jar
      BY DEF RacingTabsKeepTheCookie
    <2>1. /\ jar # 0
          /\ endedBy[jar] = "refresh" =>
               \/ jar \in torn
               \/ \E v \in Worker : pc[v] = "respond" /\ req[v].tok = jar
      BY DEF TabsOK, RacingTabsKeepTheCookie
    <2>2. ASSUME NEW v \in Worker, pc[v] = "respond", req[v].tok = jar
          PROVE  \/ jar \in torn'
                 \/ \E u \in Worker : pc'[u] = "respond" /\ req'[u].tok = jar
      BY <1>1, <2>1, <2>2
    <2>3. QED
      BY <2>1, <2>2
  <1>5. QED
    BY <1>2, <1>3, <1>4 DEF TabsOK

(* The answer to a sign-in or a refresh sets the cookie to a fresh token.  *)
LEMMA AnswerKeeps ==
  ASSUME StateOK, FreshOK, TabsOK, NEW w \in Worker, AnswerTab(w),
         \/ signedIn' = TRUE
         \/ signedIn' = signedIn /\ req[w].op = "refresh"
  PROVE  TabsOK'
  <1>1. /\ jar' = new[w] /\ mine' = mine \cup {new[w]}
        /\ delivered' = delivered \cup {new[w]}
        /\ serving' = [serving EXCEPT ![w] = NoTab]
        /\ overlapped' = overlapped \ {w} /\ endedBy' = endedBy
        /\ serving[w] \in Tab /\ pc[w] = "respond"
        /\ late \subseteq late'
        /\ w \in overlapped \/ req[w].tok \in late => new[w] \in late'
    BY DEF AnswerTab, SetCookie, HangUp, Respond
  <1>2. /\ WorkersTyped /\ new[w] \in Token
        /\ new[w] # 0 /\ endedBy[new[w]] # "refresh"
    <2>1. new[w] \in 1..last /\ last \in Nat /\ last <= MaxTokens /\ MaxTokens \in Nat
      BY <1>1, SessionConstants
      DEF StateOK, TypeOK, TablesTyped, WorkersOK, HandlerOK, Token0
    <2>2. new[w] \notin delivered
      BY <1>1 DEF FreshOK, Carries
    <2>3. QED
      BY <2>1, <2>2 DEF StateOK, TypeOK, FreshOK, Token
  <1>3. /\ OthersWait(w) /\ req'[w].op = "none"
    BY <1>2 DEF AnswerTab, Respond, Finish, WorkersTyped, OthersWait, NoRequest,
       NewRequest
  <1>4. CookieOK'
    BY <1>1, <1>3 DEF TabsOK, CookieOK, OthersWait
  <1>5. LogoutOK'
    <2> SUFFICES ASSUME ~ signedIn'
                 PROVE  /\ jar' \in late'
                        /\ \A v \in Worker :
                             serving'[v] \in Tab /\ req'[v].op = "refresh" =>
                               v \in overlapped' \/ req'[v].tok \in late'
      BY DEF LogoutOK
    <2>1. ~ signedIn /\ req[w].op = "refresh"
      OBVIOUS
    <2>2. \A v \in Worker : serving[v] \in Tab /\ req[v].op = "refresh" =>
            v \in overlapped \/ req[v].tok \in late
      BY <2>1 DEF TabsOK, LogoutOK
    <2>3. jar' \in late'
      BY <1>1, <2>1, <2>2
    <2>4. \A v \in Worker \ {w} :
            serving'[v] = serving[v] /\ req'[v] = req[v]
      BY <1>1, <1>3 DEF TabsOK, CookieOK, OthersWait
    <2>5. QED
      BY <1>1, <1>3, <2>2, <2>3, <2>4
  <1>6. RacingTabsKeepTheCookie'
    BY <1>1, <1>2 DEF RacingTabsKeepTheCookie
  <1>7. QED
    BY <1>4, <1>5, <1>6 DEF TabsOK

(* The answer to a logout clears the cookie.                               *)
LEMMA ClearKeeps ==
  ASSUME TabsOK, delivered \subseteq delivered', NEW w \in Worker, OthersWait(w),
         req'[w].op # "refresh", ClearCookie(w), UNCHANGED <<mine, late>>,
         serving' = [serving EXCEPT ![w] = NoTab]
  PROVE  TabsOK'
  <1>1. /\ serving'[w] = NoTab
        /\ \A v \in Worker \ {w} : serving'[v] = serving[v] /\ req'[v] = req[v]
        /\ serving' \in [Worker -> Tab \cup {NoTab, Lost}]
    BY DEF TabsOK, CookieOK, OthersWait
  <1>2. CookieOK'
    BY <1>1 DEF TabsOK, CookieOK, ClearCookie
  <1>3. LogoutOK'
    BY <1>1 DEF LogoutOK, ClearCookie
  <1>4. RacingTabsKeepTheCookie'
    BY DEF RacingTabsKeepTheCookie, ClearCookie
  <1>5. QED
    BY <1>2, <1>3, <1>4 DEF TabsOK

LEMMA BrowserNextKeepsTabs ==
  StateOK /\ FreshOK /\ TabsOK /\ [BrowserNext]_allVars => TabsOK'
  <1> SUFFICES ASSUME StateOK, FreshOK, TabsOK, [BrowserNext]_allVars
               PROVE  TabsOK'
    OBVIOUS
  <1> USE DEF userVars, tokenVars, resetVars, historyVars, workerVars
  <1>0. /\ WorkersTyped /\ WorkersOK /\ CookieOK
        /\ NoTab \in Tab \cup {NoTab, Lost} /\ NoTab # Lost /\ Lost \notin Tab
        /\ NoTab \notin Tab
        /\ jar # 0 => jar \in Token
        /\ serving \in [Worker -> Tab \cup {NoTab, Lost}]
    BY CookieExists, BrowserConstants DEF StateOK, TypeOK, TabsOK, CookieOK
  <1>1. ASSUME NEW w \in Worker, NEW r, NEW s, Accept(w, r, s),
               UNCHANGED <<delivered, historyVars>>,
               NEW client \in Tab \cup {NoTab, Lost}, Send(w, client),
               r.op = "refresh" => client # NoTab /\ jar # 0 /\ r.tok = jar
        PROVE  TabsOK'
    <2>1. OthersWait(w) /\ pc[w] = "idle" /\ req'[w] = r
      BY <1>0, <1>1, AcceptStep
    <2>2. QED
      BY <1>1, <2>1, CookieKeeps DEF Send
  <1>2. ASSUME NEW w \in Worker, NEW tab \in Tab, NEW u \in User, TabSignsIn(w, tab, u)
        PROVE  TabsOK'
    <2>1. CASE Register(w, u)
      BY <1>1, <1>2, <2>1 DEF TabSignsIn, Register, NewRequest
    <2>2. CASE Login(w, u)
      BY <1>1, <1>2, <2>2 DEF TabSignsIn, Login, NewRequest
    <2>3. QED
      BY <1>2, <2>1, <2>2 DEF TabSignsIn
  <1>3. ASSUME NEW w \in Worker, NEW tab \in Tab, TabRefreshes(w, tab)
        PROVE  TabsOK'
    <2>1. tab # NoTab /\ jar # 0 /\ Send(w, tab)
      BY <1>0, <1>3 DEF TabRefreshes, RequireCookieCsrf
    <2>2. CASE Refresh(w, jar)
      BY <1>1, <2>1, <2>2 DEF Refresh, NewRequest
    <2>3. CASE RefreshReuse(w, jar)
      BY <1>1, <2>1, <2>3 DEF RefreshReuse, NewRequest
    <2>4. QED
      BY <1>3, <2>2, <2>3 DEF TabRefreshes
  <1>4. ASSUME NEW w \in Worker, NEW tab \in Tab,
               TabLogsOut(w, tab) \/ TabRevokesOthers(w, tab)
        PROVE  TabsOK'
    <2>1. Send(w, tab)
      BY <1>4 DEF TabLogsOut, TabRevokesOthers
    <2>2. CASE Logout(w, jar)
      BY <1>1, <2>1, <2>2 DEF Logout, NewRequest
    <2>3. CASE RevokeOthers(w, jar)
      BY <1>1, <2>1, <2>3 DEF RevokeOthers, NewRequest
    <2>4. QED
      BY <1>4, <2>2, <2>3 DEF TabLogsOut, TabRevokesOthers
  <1>5. ASSUME NEW w \in Worker, Elsewhere(w)
        PROVE  TabsOK'
    <2>1. Send(w, NoTab)
      BY <1>5 DEF Elsewhere
    <2>2. ASSUME NEW u \in User, Login(w, u)
          PROVE  TabsOK'
      BY <1>0, <1>1, <2>1, <2>2 DEF Login, NewRequest
    <2>3. ASSUME NEW t, RevokeOthers(w, t)
          PROVE  TabsOK'
      BY <1>0, <1>1, <2>1, <2>3 DEF RevokeOthers, NewRequest
    <2>4. QED
      BY <1>5, <2>2, <2>3 DEF Elsewhere
  <1>6. ASSUME NEW w \in Worker, AnswerSignIn(w) \/ AnswerRefresh(w)
        PROVE  TabsOK'
    BY <1>6, AnswerKeeps DEF AnswerSignIn, AnswerRefresh
  <1>7. ASSUME NEW w \in Worker, Finish(w)
        PROVE  /\ OthersWait(w) /\ req'[w].op = "none" /\ pc'[w] = "idle"
    BY <1>0, <1>7 DEF WorkersTyped, Finish, OthersWait, NoRequest, NewRequest
  <1>8. ASSUME NEW w \in Worker, AnswerElsewhere(w)
        PROVE  TabsOK'
    <2>1. pc[w] = "respond" /\ serving[w] = NoTab /\ HandlerOK(req[w], pc[w], new[w])
      BY <1>0, <1>8 DEF AnswerElsewhere, Respond, WorkersOK
    <2>2. req[w].tok = 0
      BY <1>0, <2>1 DEF CookieOK, HandlerOK
    <2>3. /\ OthersWait(w) /\ req'[w].op = "none" /\ endedBy' = endedBy
          /\ delivered \subseteq delivered'
      BY <1>7, <1>8 DEF AnswerElsewhere, Respond
    <2>4. QED
      BY <1>0, <1>8, <2>2, <2>3, CookieKeeps DEF AnswerElsewhere, HangUp
  <1>9. ASSUME NEW w \in Worker, Refuse(w)
        PROVE  TabsOK'
    <2>1. /\ OthersWait(w) /\ req'[w].op = "none" /\ endedBy' = endedBy
          /\ delivered' = delivered /\ pc[w] = "audit_reuse"
      BY <1>7, <1>9 DEF Refuse, AuditReuse
    <2>2. QED
      BY <1>0, <1>9, <2>1, CookieKeeps DEF Refuse, HangUp
  <1>10. ASSUME NEW w \in Worker, Finish(w), delivered' = delivered,
                pc[w] # "respond",
                \A t \in Token : endedBy'[t] = "refresh" => endedBy[t] = "refresh",
                UNCHANGED <<jar, csrf, mine, signedIn, late, torn>>,
                UNCHANGED <<serving, overlapped>> \/ HangUp(w)
        PROVE  TabsOK'
    <2>1. OthersWait(w) /\ req'[w].op = "none"
      BY <1>7, <1>10
    <2>2. serving = [serving EXCEPT ![w] = serving[w]] /\ serving[w] \in Tab \cup {NoTab, Lost}
      BY <1>0
    <2>3. CASE UNCHANGED <<serving, overlapped>>
      BY <1>0, <1>10, <2>1, <2>2, <2>3, CookieKeeps
    <2>4. CASE HangUp(w)
      BY <1>0, <1>10, <2>1, <2>4, CookieKeeps DEF HangUp
    <2>5. QED
      BY <1>10, <2>3, <2>4
  <1>11. ASSUME NEW w \in Worker, CommitLogout(w) \/ LogoutRaises(w)
        PROVE  TabsOK'
    <2>1. CASE CommitLogout(w)
      <3>1. \A t \in Token : endedBy'[t] = "refresh" => endedBy[t] = "refresh"
        BY <2>1 DEF CommitLogout, LogoutRevoke, MarkEnded
      <3>2. QED
        BY <1>10, <2>1, <3>1 DEF CommitLogout, LogoutRevoke
    <2>2. CASE LogoutRaises(w)
      <3>1. pc[w] # "respond"
        BY <1>0, <2>2 DEF LogoutRaises, WorkersOK, HandlerOK
      <3>2. QED
        BY <1>10, <2>2, <3>1 DEF LogoutRaises, Fail, browserVars
    <2>3. QED
      BY <1>11, <2>1, <2>2
  <1>12. ASSUME NEW w \in Worker, Work(w)
        PROVE  TabsOK'
    <2>1. /\ UNCHANGED <<jar, mine, signedIn, late, torn>>
          /\ \/ HangUp(w) /\ pc'[w] = "idle"
             \/ serving' = serving /\ overlapped' = overlapped /\ pc'[w] # "idle"
      BY <1>12 DEF Work
    <2>2. \E client \in Tab \cup {NoTab, Lost} :
            /\ serving' = [serving EXCEPT ![w] = client]
            /\ pc'[w] # "idle" => client = serving[w] /\ overlapped' = overlapped
      <3>1. serving = [serving EXCEPT ![w] = serving[w]]
        BY <1>0
      <3>2. serving[w] \in Tab \cup {NoTab, Lost}
        BY <1>0
      <3>3. QED
        BY <1>0, <2>1, <3>1, <3>2 DEF HangUp
    <2>3. overlapped \ {w} \subseteq overlapped'
      BY <2>1 DEF HangUp
    <2>4. ASSUME OthersWait(w), delivered' = delivered, pc[w] # "respond",
                 \/ pc'[w] = "idle" /\ req'[w].op = "none"
                 \/ pc'[w] # "idle" /\ req'[w] = req[w],
                 jar # 0 /\ endedBy'[jar] = "refresh" =>
                   endedBy[jar] = "refresh" \/ (pc'[w] = "respond" /\ req'[w].tok = jar)
          PROVE  TabsOK'
      <3>1. PICK client \in Tab \cup {NoTab, Lost} :
              /\ serving' = [serving EXCEPT ![w] = client]
              /\ pc'[w] # "idle" => client = serving[w] /\ overlapped' = overlapped
        BY <2>2
      <3>2. QED
        BY <2>1, <2>3, <2>4, <3>1, CookieKeeps
    <2>5. CASE CreateUser(w)
      <3>1. CASE Goto(w, "create_refresh_token")
        <4>1. /\ OthersWait(w) /\ pc'[w] = "create_refresh_token" /\ req'[w] = req[w]
          BY <1>0, <3>1 DEF WorkersTyped, Goto, OthersWait
        <4>2. QED
          BY <2>4, <2>5, <4>1 DEF CreateUser
      <3>2. CASE Finish(w)
        BY <1>7, <2>4, <2>5, <3>2 DEF CreateUser
      <3>3. QED
        BY <2>5, <3>1, <3>2 DEF CreateUser
    <2>6. CASE Mint(w)
      <3>1. /\ OthersWait(w) /\ pc'[w] # "idle" /\ req'[w] = req[w]
            /\ endedBy' = endedBy /\ delivered' = delivered /\ pc[w] # "respond"
        BY <1>0, <2>6 DEF Mint, WorkersTyped, OthersWait
      <3>2. QED
        BY <2>4, <3>1
    <2>7. CASE Retire(w)
      <3>1. /\ OthersWait(w) /\ pc'[w] = "respond" /\ req'[w] = req[w]
            /\ delivered' = delivered /\ pc[w] # "respond"
        BY <1>0, <2>7 DEF Retire, Goto, WorkersTyped, OthersWait
      <3>2. \A t \in Token : endedBy'[t] = "refresh" =>
              endedBy[t] = "refresh" \/ t = req[w].tok
        BY <2>7 DEF Retire, MarkEnded
      <3>3. jar # 0 /\ endedBy'[jar] = "refresh" =>
              endedBy[jar] = "refresh" \/ (pc'[w] = "respond" /\ req'[w].tok = jar)
        BY <1>0, <3>1, <3>2
      <3>4. QED
        BY <2>4, <3>1, <3>3
    <2>8. CASE RevokeOthersStep(w)
      <3>1. /\ OthersWait(w) /\ pc'[w] = "idle" /\ req'[w].op = "none"
            /\ delivered' = delivered /\ pc[w] # "respond"
        BY <1>7, <2>8 DEF RevokeOthersStep
      <3>2. \A t \in Token : endedBy'[t] = "refresh" => endedBy[t] = "refresh"
        BY <2>8 DEF RevokeOthersStep, MarkEnded
      <3>3. QED
        BY <1>0, <2>4, <3>1, <3>2
    <2>9. QED
      BY <1>12, <2>5, <2>6, <2>7, <2>8 DEF Work
  <1>13. ASSUME NEW w \in Worker, FailRequest(w)
        PROVE  TabsOK'
    <2>1. /\ OthersWait(w) /\ req'[w].op = "none" /\ endedBy' = endedBy
          /\ delivered' = delivered
      BY <1>7, <1>13 DEF FailRequest, Fail
    <2>2. torn \subseteq torn' /\ overlapped \ {w} \subseteq overlapped'
      BY <1>13 DEF FailRequest, HangUp
    <2>3. pc[w] = "respond" /\ req[w].tok = jar /\ jar # 0 => jar \in torn'
      <3>1. pc[w] = "respond" /\ req[w].tok # 0 => req[w].op = "refresh"
        BY <1>0 DEF WorkersOK, HandlerOK
      <3>2. QED
        BY <1>13, <3>1 DEF FailRequest
    <2>4. QED
      BY <1>0, <1>13, <2>1, <2>2, <2>3, CookieKeeps DEF FailRequest, HangUp
  <1>14. ASSUME NEW w \in Worker, Drop(w)
        PROVE  TabsOK'
    <2>1. /\ OthersWait(w) /\ delivered' = delivered /\ endedBy' = endedBy
          /\ pc' = pc /\ req' = req
          /\ UNCHANGED <<jar, mine, signedIn, late, torn>>
      BY <1>14 DEF Drop, OthersWait, vars
    <2>2. CASE pc[w] = "idle"
      <3>1. req'[w].op # "refresh"
        BY <1>0, <2>1, <2>2 DEF WorkersOK, HandlerOK
      <3>2. QED
        BY <1>0, <1>14, <2>1, <2>2, <3>1, CookieKeeps DEF Drop, HangUp
    <2>3. CASE pc[w] # "idle"
      BY <1>0, <1>14, <2>1, <2>3 DEF Drop, TabsOK, CookieOK, LogoutOK,
         RacingTabsKeepTheCookie
    <2>4. QED
      BY <2>2, <2>3
  <1>15. CASE Restart
    <2>1. /\ delivered' = delivered /\ endedBy' = endedBy /\ pc' = pc /\ req' = req
          /\ UNCHANGED <<jar, mine, signedIn, late, torn>>
      BY <1>15 DEF Restart, vars
    <2>2. \A w \in Worker : pc[w] = "idle" => req[w].op # "refresh"
      BY <1>0 DEF WorkersOK, HandlerOK
    <2>3. /\ serving' \in [Worker -> Tab \cup {NoTab, Lost}]
          /\ \A w \in Worker : serving'[w] \notin Tab
          /\ \A w \in Worker : serving[w] # NoTab /\ pc[w] # "idle" => serving'[w] # NoTab
      BY <1>0, <1>15 DEF Restart
    <2>4. QED
      BY <2>1, <2>2, <2>3 DEF TabsOK, CookieOK, LogoutOK, RacingTabsKeepTheCookie
  <1>16. CASE UNCHANGED allVars
    BY <1>16 DEF allVars, browserVars, vars, TabsOK, CookieOK, LogoutOK,
       RacingTabsKeepTheCookie
  <1>17. ASSUME NEW w \in Worker, AnswerLogout(w)
        PROVE  TabsOK'
    <2>1. /\ OthersWait(w) /\ delivered' = delivered /\ req' = req
          /\ pc[w] = "idle"
      BY <1>17 DEF AnswerLogout, OthersWait, vars
    <2>2. req'[w].op # "refresh"
      BY <1>0, <2>1 DEF WorkersOK, HandlerOK
    <2>3. QED
      BY <1>17, <2>1, <2>2, ClearKeeps DEF AnswerLogout
  <1>18. ASSUME NEW w \in Worker, NEW tab \in Tab, TabLogsOutBare(w, tab)
        PROVE  TabsOK'
    <2>1. /\ OthersWait(w) /\ UNCHANGED vars /\ pc[w] = "idle"
      BY <1>18 DEF TabLogsOutBare, OthersWait, vars
    <2>2. req'[w].op # "refresh"
      BY <1>0, <2>1 DEF WorkersOK, HandlerOK, vars
    <2>3. QED
      BY <1>0, <1>18, <2>1, <2>2, CookieKeeps DEF TabLogsOutBare, Send, vars
  <1>19. QED
    BY <1>2, <1>3, <1>4, <1>5, <1>6, <1>8, <1>9, <1>11, <1>12, <1>13,
       <1>14, <1>15, <1>16, <1>17, <1>18 DEF BrowserNext

(* The inductive invariant of the browser and the server together.         *)
LEMMA BrowserInvariant == BrowserSpec => [](StateOK /\ FreshOK /\ TabsOK)
  <1>1. BrowserInit => StateOK /\ FreshOK /\ TabsOK
    <2> SUFFICES ASSUME BrowserInit
                 PROVE  StateOK /\ FreshOK /\ TabsOK
      OBVIOUS
    <2>1. StateOK
      BY InitState DEF BrowserInit
    <2>2. FreshOK
      BY DEF BrowserInit, Init, FreshOK, Carries
    <2>3. TabsOK
      BY DEF BrowserInit, Init, NoRequest, NewRequest, TabsOK, CookieOK, LogoutOK,
         RacingTabsKeepTheCookie
    <2>4. QED
      BY <2>1, <2>2, <2>3
  <1>2. /\ StateOK /\ FreshOK /\ TabsOK /\ [BrowserNext]_allVars
        => (StateOK /\ FreshOK /\ TabsOK)'
    BY BrowserStepIsAStep, NextKeepsState, NextKeepsFresh, BrowserNextKeepsTabs
    DEF TabsOK
  <1>3. QED
    BY <1>1, <1>2, PTL DEF BrowserSpec

(* Tabs, their cookie and other devices use the sessions only as           *)
(* AuthSessions allows: a tab presents the token in the cookie, which the  *)
(* browser was given.  The theorems above hold under BrowserSpec.          *)
THEOREM BrowserUsesSessions == BrowserSpec => Spec
  <1>1. BrowserInit => Init
    BY DEF BrowserInit
  <1>2. StateOK /\ TabsOK /\ [BrowserNext]_allVars => [Next]_vars
    BY BrowserStepIsAStep DEF TabsOK
  <1>3. QED
    BY <1>1, <1>2, BrowserInvariant, PTL DEF BrowserSpec, Spec

(* After _clear_refresh_cookie only a sign-in, or an answer to a request   *)
(* that was in flight, gives the browser a token again.                    *)
THEOREM LogoutEndsTheBrowsersSession ==
  BrowserSpec => []OnlyOverlappingAnswersUndoLogout
  <1>1. TabsOK => OnlyOverlappingAnswersUndoLogout
    BY DEF TabsOK, LogoutOK, OnlyOverlappingAnswersUndoLogout
  <1>2. QED
    BY <1>1, BrowserInvariant, PTL

(* Whatever refreshes race, the cookie of a browser that is signed in is   *)
(* rotated out of use only while, or because, the answer is missing.       *)
THEOREM RacesKeepTheCookie == BrowserSpec => []RacingTabsKeepTheCookie
  <1>1. TabsOK => RacingTabsKeepTheCookie
    BY DEF TabsOK
  <1>2. QED
    BY <1>1, BrowserInvariant, PTL
=============================================================================
