------------------------ MODULE EmailIdentityProofs -------------------------
(***************************************************************************)
(* Proofs about EmailIdentity for every set of addresses, Google accounts  *)
(* and workers and every bound.                                            *)
(***************************************************************************)
EXTENDS EmailIdentity, TLAPS

(* What the request r of a worker at step p is, with so many accounts and  *)
(* links.                                                                  *)
RequestOK(p, r, users, links) ==
  /\ p \in PC
  /\ r \in Request
  /\ r.user <= users /\ r.tok <= links
  /\ p \notin {"idle", "create_user", "get_user_by_email"} => r.user # 0
  /\ p # "idle" => r.addr \in Email
  /\ r.op = "google" => r.sub \in Sub
  /\ r.op = "verify" => r.tok # 0
  /\ p = "create_user" => r.op \in {"register", "seed", "google"}
  /\ r.op = "seed" => r.vouched
  /\ p = "set_user_email_verified" => r.op \in {"seed", "verify", "google"}
  /\ p = "consume_one_time_token" => r.op = "verify"
  /\ p \in {"update_user_email", "issue_verify_email", "create_one_time_token"}
       => r.op = "change"
  /\ p \in {"get_user_by_email", "create_oauth_account", "sign_in"} => r.op = "google"

WorkersOK ==
  /\ pc \in [Worker -> PC]
  /\ req \in [Worker -> Request]
  /\ \A w \in Worker : RequestOK(pc[w], req[w], last, issued)

(* A link that was issued is somebody's and was mailed to an address.      *)
LinksOK == \A k \in 1..issued : linkUser[k] # 0 /\ linkAddr[k] \in Email

TablesOK ==
  /\ last \in 0..MaxUsers
  /\ email \in [User -> Email \cup {NoEmail}]
  /\ verified \in SUBSET (1..last)
  /\ issued \in 0..MaxLinks
  /\ linkUser \in [Link -> 0..last]
  /\ linkAddr \in [Link -> Email \cup {NoEmail}]
  /\ consumed \in SUBSET (1..issued)
  /\ oauth \in [Sub -> 0..last]
  /\ proven \in SUBSET ((1..last) \X Email)
  /\ stale \in SUBSET (1..last)
  /\ outran \in SUBSET Worker

BaseOK == TablesOK /\ WorkersOK /\ LinksOK

(* A worker about to set the flag has a proof of the address it found.     *)
FlagsOK ==
  /\ VerifiedAddressIsProven
  /\ \A w \in Worker :
       pc[w] = "set_user_email_verified" => <<req[w].user, req[w].addr>> \in proven

(* A worker about to set the flag by a consumed link was overtaken.        *)
RepeatOK ==
  \A w \in Worker :
    pc[w] = "set_user_email_verified" /\ req[w].op = "verify"
      /\ req[w].tok \in consumed => w \in outran

(* The Google handler, unless it was overtaken: the account it has settled *)
(* on has the address, the Google account is not linked, or to that one.   *)
OnTrack(p, r) ==
  r.op = "google" =>
    /\ p \in {"set_user_email_verified", "create_oauth_account"}
         => email[r.user] = r.addr
    /\ p \notin {"idle", "sign_in"} => oauth[r.sub] = 0
    /\ p = "sign_in" => oauth[r.sub] \in {0, r.user}

GoogleOK == \A w \in Worker \ outran : OnTrack(pc[w], req[w])

-----------------------------------------------------------------------------
LEMMA BaseTypes == BaseOK => TypeOK
BY DEF BaseOK, TablesOK, WorkersOK, RequestOK, TypeOK

LEMMA TablesNext == BaseOK /\ [Next]_vars => TablesOK'
<1>. SUFFICES ASSUME TablesOK, WorkersOK, LinksOK, [Next]_vars PROVE TablesOK'
  BY DEF BaseOK
<1>. USE IdentityConstants
     DEF TablesOK, WorkersOK, RequestOK, LinksOK, User, Link, Request,
         userVars, linkVars, oauthVars, historyVars
<1>1. ASSUME NEW w \in Worker, NEW e \in Email, Register(w, e) PROVE TablesOK'
  BY <1>1 DEF Register
<1>2. ASSUME NEW w \in Worker, NEW e \in Email, Seed(w, e) PROVE TablesOK'
  <2>1. proven' \in SUBSET ((1..last) \X Email)
    <3>1. CASE UNCHANGED proven
      BY <3>1
    <3>2. ASSUME NEW u \in Owners(e), proven' = proven \cup {<<u, e>>}
          PROVE  proven' \in SUBSET ((1..last) \X Email)
      BY <3>2 DEF Owners
    <3>. QED
      BY <1>2, <3>1, <3>2 DEF Seed
  <2>. QED
    BY <1>2, <2>1 DEF Seed
<1>3. ASSUME NEW w \in Worker, NEW u \in 1..last, NEW e \in Email, ChangeEmail(w, u, e)
      PROVE  TablesOK'
  BY <1>3 DEF ChangeEmail
<1>4. ASSUME NEW w \in Worker, NEW k \in 1..issued, VerifyEmail(w, k) PROVE TablesOK'
  <2>1. linkUser[k] \in 1..last /\ linkAddr[k] \in Email
    OBVIOUS
  <2>2. proven' \in SUBSET ((1..last) \X Email)
    BY <1>4, <2>1 DEF VerifyEmail
  <2>. QED
    BY <1>4, <2>2 DEF VerifyEmail
<1>5. ASSUME NEW w \in Worker, NEW s \in Sub, NEW e \in Email, NEW v \in BOOLEAN,
             Google(w, s, e, v)
      PROVE  TablesOK'
  BY <1>5 DEF Google
<1>6. ASSUME NEW w \in Worker, CreateUser(w) PROVE TablesOK'
  <2>1. CASE UNCHANGED <<userVars, proven>>
    BY <1>6, <2>1 DEF CreateUser
  <2>2. CASE InsertUser(req[w].addr) /\ AfterCreated(w, last + 1)
    <3>1. /\ last' \in 0..MaxUsers /\ last + 1 \in User /\ last' = last + 1
          /\ req[w].addr \in Email
          /\ email' \in [User -> Email \cup {NoEmail}] /\ verified' = verified
      BY <1>6, <2>2 DEF CreateUser, InsertUser
    <3>2. proven' \in SUBSET ((1..last') \X Email)
      BY <2>2, <3>1 DEF AfterCreated
    <3>3. outran' \in SUBSET Worker
      BY <1>6 DEF CreateUser
    <3>4. UNCHANGED <<issued, linkUser, linkAddr, consumed, oauth, stale>>
      BY <1>6 DEF CreateUser
    <3>5. linkUser' \in [Link -> 0..last'] /\ oauth' \in [Sub -> 0..last']
      BY <3>1, <3>4
    <3>6. verified' \in SUBSET (1..last') /\ stale' \in SUBSET (1..last')
      BY <3>1, <3>4
    <3>. QED
      BY <3>1, <3>2, <3>3, <3>4, <3>5, <3>6
  <2>. QED
    BY <1>6, <2>1, <2>2 DEF CreateUser
<1>7. ASSUME NEW w \in Worker, UpdateEmail(w) PROVE TablesOK'
  BY <1>7 DEF UpdateEmail, HoldingUser
<1>8. ASSUME NEW w \in Worker, IssueVerifyEmail(w) PROVE TablesOK'
  BY <1>8 DEF IssueVerifyEmail
<1>9. ASSUME NEW w \in Worker, CreateLink(w) PROVE TablesOK'
  BY <1>9 DEF CreateLink, InsertLink
<1>10. ASSUME NEW w \in Worker, SetVerified(w) PROVE TablesOK'
  <2>1. req[w].user \in 1..last
    <3>1. pc[w] = "set_user_email_verified"
      BY <1>10, Zenon DEF SetVerified
    <3>2. req[w].user # 0 /\ req[w].user <= last
      BY <3>1
    <3>3. req[w].user \in 0..MaxUsers
      OBVIOUS
    <3>. QED
      BY <3>2, <3>3
  <2>2. stale' = IF email[req[w].user] = req[w].addr
                 THEN stale \ {req[w].user} ELSE stale \cup {req[w].user}
    BY <1>10, Zenon DEF SetVerified
  <2>3. verified' \in SUBSET (1..last)
    BY <1>10, <2>1 DEF SetVerified
  <2>4. UNCHANGED <<last, email, issued, linkUser, linkAddr, consumed, oauth, proven, outran>>
    BY <1>10 DEF SetVerified
  <2>5. stale' \in SUBSET (1..last)
    BY <2>1, <2>2
  <2>. QED
    BY <2>5, <2>3, <2>4
<1>11. ASSUME NEW w \in Worker, ConsumeLink(w) PROVE TablesOK'
  <2>1. req[w].tok \in 1..issued
    BY <1>11 DEF ConsumeLink
  <2>. QED
    BY <1>11, <2>1 DEF ConsumeLink, HoldingLink
<1>12. ASSUME NEW w \in Worker, LookupByEmail(w) PROVE TablesOK'
  BY <1>12 DEF LookupByEmail
<1>13. ASSUME NEW w \in Worker, CreateOauthAccount(w) PROVE TablesOK'
  <2>1. req[w].user \in 0..last
    OBVIOUS
  <2>2. oauth' \in [Sub -> 0..last]
    BY <1>13, <2>1 DEF CreateOauthAccount
  <2>3. outran' \in SUBSET Worker
    BY <1>13 DEF CreateOauthAccount, HoldingSub
  <2>. QED
    BY <1>13, <2>2, <2>3 DEF CreateOauthAccount
<1>14. ASSUME NEW w \in Worker, Suppressed(w) PROVE TablesOK'
  BY <1>14 DEF Suppressed
<1>15. ASSUME NEW w \in Worker, SignIn(w) \/ Fail(w) PROVE TablesOK'
  BY <1>15 DEF SignIn, Fail
<1>16. ASSUME UNCHANGED vars PROVE TablesOK'
  BY <1>16 DEF vars
<1>. HIDE DEF TablesOK, WorkersOK, RequestOK, LinksOK
<1>. QED
  BY <1>1, <1>2, <1>3, <1>4, <1>5, <1>6, <1>7, <1>8, <1>9, <1>10, <1>11, <1>12,
     <1>13, <1>14, <1>15, <1>16 DEF Next, Step



-----------------------------------------------------------------------------
(* The workers: what a step leaves one of them with.                       *)

LEMMA OneWorker ==
  ASSUME BaseOK, TablesOK', last' >= last, issued' >= issued,
         NEW w \in Worker, NEW p, NEW r,
         pc' = [pc EXCEPT ![w] = p], req' = [req EXCEPT ![w] = r],
         RequestOK(p, r, last', issued')
  PROVE  WorkersOK'
<1>1. last \in Nat /\ issued \in Nat /\ last' \in Nat /\ issued' \in Nat
  BY IdentityConstants DEF BaseOK, TablesOK
<1>2. p \in PC /\ r \in Request
  BY DEF RequestOK
<1>3. pc' \in [Worker -> PC] /\ req' \in [Worker -> Request]
  BY <1>2 DEF BaseOK, WorkersOK
<1>4. ASSUME NEW v \in Worker PROVE RequestOK(pc'[v], req'[v], last', issued')
  <2>1. CASE v = w
    BY <1>2, <2>1 DEF BaseOK, WorkersOK
  <2>2. CASE v # w
    <3>1. RequestOK(pc[v], req[v], last, issued) /\ pc'[v] = pc[v] /\ req'[v] = req[v]
      BY <2>2 DEF BaseOK, WorkersOK
    <3>2. req[v].user \in Nat /\ req[v].tok \in Nat
      BY <3>1, IdentityConstants DEF RequestOK, Request
    <3>. QED
      BY <1>1, <3>1, <3>2 DEF RequestOK
  <2>. QED
    BY <2>1, <2>2
<1>. QED
  BY <1>3, <1>4 DEF WorkersOK

(* The steps of Accept, Goto, GotoAs and Finish.                           *)
LEMMA FinishOK ==
  ASSUME BaseOK, TablesOK', last' >= last, issued' >= issued,
         NEW w \in Worker, Finish(w)
  PROVE  WorkersOK'
<1>1. RequestOK("idle", NoRequest, last', issued')
  BY IdentityConstants DEF RequestOK, NoRequest, Request, Op, PC, TablesOK
<1>. QED
  BY <1>1, OneWorker DEF Finish

LEMMA GotoOK ==
  ASSUME BaseOK, TablesOK', last' >= last, issued' >= issued,
         NEW w \in Worker, NEW p, Goto(w, p), RequestOK(p, req[w], last', issued')
  PROVE  WorkersOK'
<1>1. req' = [req EXCEPT ![w] = req[w]]
  BY DEF Goto, BaseOK, WorkersOK
<1>. QED
  BY <1>1, OneWorker DEF Goto

LEMMA GotoAsOK ==
  ASSUME BaseOK, TablesOK', last' >= last, issued' >= issued,
         NEW w \in Worker, NEW p, NEW u, GotoAs(w, p, u),
         RequestOK(p, [req[w] EXCEPT !.user = u], last', issued')
  PROVE  WorkersOK'
<1>1. req' = [req EXCEPT ![w] = [req[w] EXCEPT !.user = u]]
  BY DEF GotoAs, BaseOK, WorkersOK
<1>. QED
  BY <1>1, OneWorker DEF GotoAs

(* A request goes on, with an account found or created.                    *)
LEMMA RequestGoesOn ==
  ASSUME BaseOK, TablesOK', last' >= last, issued' >= issued, NEW w \in Worker
  PROVE  RequestOK(pc[w], req[w], last', issued')
BY IdentityConstants DEF BaseOK, TablesOK, WorkersOK, RequestOK, Request

LEMMA Grow == BaseOK /\ [Next]_vars => last' >= last /\ issued' >= issued
<1>. SUFFICES ASSUME BaseOK, [Next]_vars PROVE last' >= last /\ issued' >= issued
  OBVIOUS
<1>1. last \in Nat /\ issued \in Nat
  BY IdentityConstants DEF BaseOK, TablesOK
<1>2. ASSUME NEW w \in Worker, CreateUser(w) PROVE last' >= last /\ issued' >= issued
  BY <1>1, <1>2 DEF CreateUser, InsertUser, userVars, linkVars
<1>3. ASSUME NEW w \in Worker, CreateLink(w) PROVE last' >= last /\ issued' >= issued
  BY <1>1, <1>3 DEF CreateLink, InsertLink, userVars
<1>4. CASE last' = last /\ issued' = issued
  BY <1>1, <1>4
<1>. QED
  BY <1>2, <1>3, <1>4
  DEF Next, Step, vars, userVars, linkVars, Register, Seed, ChangeEmail, VerifyEmail,
      Google, UpdateEmail, IssueVerifyEmail, SetVerified, ConsumeLink, LookupByEmail,
      CreateOauthAccount, Suppressed, SignIn, Fail

LEMMA WorkersNext == BaseOK /\ [Next]_vars => WorkersOK'
<1>. SUFFICES ASSUME BaseOK, [Next]_vars PROVE WorkersOK'
  OBVIOUS
<1>0. TablesOK' /\ last' >= last /\ issued' >= issued
  BY TablesNext, Grow
<1>a. /\ last \in 0..MaxUsers /\ issued \in 0..MaxLinks /\ MaxUsers \in Nat /\ MaxLinks \in Nat
      /\ last' \in 0..MaxUsers /\ issued' \in 0..MaxLinks
  BY <1>0, IdentityConstants DEF BaseOK, TablesOK
<1>o. /\ {"register", "seed", "change", "verify", "google"} \subseteq Op
      /\ 0 \in 0..MaxUsers /\ 0 \in 0..MaxLinks
  BY <1>a DEF Op
<1>b. ASSUME NEW p \in {"create_user", "get_user_by_email", "update_user_email",
                        "set_user_email_verified", "sign_in"},
             NEW r \in Request, r.addr \in Email, r.user <= last, r.tok <= issued,
             p \notin {"create_user", "get_user_by_email"} => r.user # 0,
             r.op = "google" => r.sub \in Sub,
             r.op = "verify" => r.tok # 0,
             p = "create_user" => r.op \in {"register", "seed", "google"},
             p = "update_user_email" => r.op = "change",
             r.op = "seed" => r.vouched,
             p = "set_user_email_verified" => r.op \in {"seed", "verify", "google"},
             p \in {"get_user_by_email", "sign_in"} => r.op = "google",
             NEW w \in Worker, Accept(w, r, p)
      PROVE  WorkersOK'
  <2>1. RequestOK(p, r, last', issued')
    BY <1>0, <1>a, <1>b DEF RequestOK, Request, PC
  <2>. QED
    BY <1>0, <1>b, <2>1, OneWorker DEF Accept
<1>1. ASSUME NEW w \in Worker, NEW e \in Email, Register(w, e) PROVE WorkersOK'
  <2>. DEFINE r == [NoRequest EXCEPT !.op = "register", !.addr = e]
  <2>0. r \in Request
    BY <1>o DEF NoRequest, Request
  <2>1. r.op = "register" /\ r.addr = e /\ r.user = 0 /\ r.tok = 0
    BY DEF NoRequest
  <2>2. Accept(w, r, "create_user")
    BY <1>1 DEF Register
  <2>. HIDE DEF r
  <2>. QED
    BY <1>a, <1>b, <2>0, <2>1, <2>2
<1>2. ASSUME NEW w \in Worker, NEW e \in Email, Seed(w, e) PROVE WorkersOK'
  <2>. DEFINE r == [NoRequest EXCEPT !.op = "seed", !.addr = e, !.vouched = TRUE]
  <2>0. r \in Request
    BY <1>o DEF NoRequest, Request
  <2>1. r.op = "seed" /\ r.addr = e /\ r.user = 0 /\ r.tok = 0 /\ r.vouched
    BY DEF NoRequest
  <2>2. CASE Accept(w, r, "create_user")
    <3>. HIDE DEF r
    <3>. QED
      BY <1>a, <1>b, <2>0, <2>1, <2>2
  <2>3. ASSUME NEW u \in Owners(e), Accept(w, [r EXCEPT !.user = u], "set_user_email_verified")
        PROVE  WorkersOK'
    <3>. DEFINE q == [r EXCEPT !.user = u]
    <3>1. u \in 1..last
      BY DEF Owners
    <3>0. q \in Request
      <4>. HIDE DEF r
      <4>. QED
        BY <1>a, <2>0, <3>1 DEF Request
    <3>2. q.op = "seed" /\ q.addr = e /\ q.user = u /\ q.tok = 0 /\ q.vouched
      BY DEF NoRequest
    <3>3. Accept(w, q, "set_user_email_verified")
      BY <2>3
    <3>. HIDE DEF q
    <3>. QED
      BY <1>a, <1>b, <3>0, <3>1, <3>2, <3>3
  <2>. QED
    BY <1>2, <2>2, <2>3 DEF Seed
<1>3. ASSUME NEW w \in Worker, NEW u \in 1..last, NEW e \in Email, ChangeEmail(w, u, e)
      PROVE  WorkersOK'
  <2>. DEFINE r == [NoRequest EXCEPT !.op = "change", !.user = u, !.addr = e]
  <2>0. r \in Request
    <3>1. u \in 0..MaxUsers
      BY <1>a
    <3>. QED
      BY <1>o, <3>1 DEF NoRequest, Request
  <2>1. r.op = "change" /\ r.addr = e /\ r.user = u /\ r.tok = 0
    BY DEF NoRequest
  <2>2. Accept(w, r, "update_user_email")
    BY <1>3 DEF ChangeEmail
  <2>. HIDE DEF r
  <2>. QED
    BY <1>a, <1>b, <2>0, <2>1, <2>2
<1>4. ASSUME NEW w \in Worker, NEW k \in 1..issued, VerifyEmail(w, k) PROVE WorkersOK'
  <2>. DEFINE r == Found(k)
  <2>0. linkUser[k] \in 1..last /\ linkAddr[k] \in Email /\ k \in 0..MaxLinks
    BY <1>a DEF BaseOK, TablesOK, LinksOK, Link
  <2>1. r \in Request
    <3>1. linkUser[k] \in 0..MaxUsers /\ k \in 0..MaxLinks /\ linkAddr[k] \in Email
      BY <1>a, <2>0
    <3>. QED
      BY <1>o, <3>1 DEF Found, NoRequest, Request
  <2>3. /\ r.op = "verify" /\ r.addr = linkAddr[k]
        /\ r.user = linkUser[k] /\ r.tok = k
    BY DEF Found, NoRequest
  <2>2. Accept(w, r, "set_user_email_verified")
    BY <1>4 DEF VerifyEmail
  <2>. HIDE DEF r
  <2>. QED
    BY <1>a, <1>b, <2>0, <2>1, <2>2, <2>3
<1>5. ASSUME NEW w \in Worker, NEW s \in Sub, NEW e \in Email, NEW v \in BOOLEAN,
             Google(w, s, e, v)
      PROVE  WorkersOK'
  <2>. DEFINE r == [NoRequest EXCEPT !.op = "google", !.sub = s, !.addr = e, !.vouched = v]
              q == [r EXCEPT !.user = oauth[s]]
  <2>0. oauth[s] \in 0..last
    BY DEF BaseOK, TablesOK
  <2>1. r \in Request
    BY <1>o DEF NoRequest, Request
  <2>2. r.op = "google" /\ r.sub = s /\ r.addr = e /\ r.user = 0 /\ r.tok = 0
    BY DEF NoRequest
  <2>6. q \in Request
    <3>. HIDE DEF r
    <3>. QED
      BY <1>a, <2>0, <2>1 DEF Request
  <2>7. q.op = "google" /\ q.sub = s /\ q.addr = e /\ q.user = oauth[s] /\ q.tok = 0
    BY DEF NoRequest
  <2>3. \/ oauth[s] # 0 /\ Accept(w, q, "sign_in")
        \/ Accept(w, r, "get_user_by_email")
    BY <1>5 DEF Google, FindOauthAccount
  <2>. HIDE DEF r, q
  <2>4. CASE Accept(w, r, "get_user_by_email")
    BY <1>a, <1>b, <2>1, <2>2, <2>4
  <2>5. CASE oauth[s] # 0 /\ Accept(w, q, "sign_in")
    BY <1>a, <1>b, <2>0, <2>6, <2>7, <2>5
  <2>. QED
    BY <2>3, <2>4, <2>5
<1>c. ASSUME NEW w \in Worker PROVE RequestOK(pc[w], req[w], last', issued')
  BY <1>0, RequestGoesOn
<1>d. ASSUME NEW w \in Worker, Finish(w) PROVE WorkersOK'
  BY <1>0, <1>d, FinishOK
<1>e. ASSUME NEW w \in Worker, NEW p, Goto(w, p), RequestOK(p, req[w], last', issued')
      PROVE  WorkersOK'
  BY <1>0, <1>e, GotoOK
<1>f. ASSUME NEW w \in Worker, NEW p, NEW u \in 1..last', GotoAs(w, p, u),
             p \in {"create_oauth_account", "create_one_time_token",
                    "set_user_email_verified"},
             pc[w] # "idle",
             p = "create_oauth_account" => req[w].op = "google",
             p = "create_one_time_token" => req[w].op = "change",
             p = "set_user_email_verified" => req[w].op \in {"seed", "google"}
      PROVE  WorkersOK'
  <2>1. RequestOK(p, [req[w] EXCEPT !.user = u], last', issued')
    BY <1>a, <1>c, <1>f DEF RequestOK, Request, PC
  <2>. QED
    BY <1>0, <1>f, <2>1, GotoAsOK
<1>6. ASSUME NEW w \in Worker, CreateUser(w) PROVE WorkersOK'
  <2>1. CASE Finish(w)
    BY <1>d, <2>1
  <2>2. CASE InsertUser(req[w].addr) /\ AfterCreated(w, last + 1) /\ ~ Finish(w)
    <3>1. last + 1 \in 1..last' /\ pc[w] = "create_user"
      BY <1>6, <1>a, <2>2 DEF CreateUser, InsertUser
    <3>2. req[w].op \in {"seed", "google", "register"} /\ (req[w].op = "seed" => req[w].vouched)
      BY <1>c, <3>1 DEF RequestOK
    <3>3. \/ GotoAs(w, "set_user_email_verified", last + 1) /\ req[w].op # "register"
          \/ GotoAs(w, "create_oauth_account", last + 1) /\ req[w].op = "google"
      BY <2>2, <3>2 DEF AfterCreated
    <3>. QED
      BY <1>f, <3>1, <3>2, <3>3
  <2>. QED
    BY <1>6, <2>1, <2>2 DEF CreateUser
<1>7. ASSUME NEW w \in Worker, UpdateEmail(w) PROVE WorkersOK'
  <2>1. CASE Goto(w, "issue_verify_email") /\ pc[w] = "update_user_email"
    <3>1. RequestOK("issue_verify_email", req[w], last', issued')
      BY <1>c, <2>1 DEF RequestOK, PC
    <3>. QED
      BY <1>e, <2>1, <3>1
  <2>. QED
    BY <1>7, <1>d, <2>1 DEF UpdateEmail
<1>8. ASSUME NEW w \in Worker, IssueVerifyEmail(w) PROVE WorkersOK'
  <2>1. ASSUME NEW u \in Owners(req[w].addr), GotoAs(w, "create_one_time_token", u)
        PROVE  WorkersOK'
    <3>1. pc[w] = "issue_verify_email" /\ req[w].op = "change"
      BY <1>8, <1>c DEF IssueVerifyEmail, RequestOK
    <3>. QED
      BY <1>0, <1>a, <1>f, <2>1, <3>1 DEF Owners
  <2>. QED
    BY <1>8, <1>d, <2>1 DEF IssueVerifyEmail
<1>9. ASSUME NEW w \in Worker, CreateLink(w) PROVE WorkersOK'
  BY <1>9, <1>d DEF CreateLink
<1>10. ASSUME NEW w \in Worker, SetVerified(w) PROVE WorkersOK'
  <2>1. ASSUME NEW p, Goto(w, p), pc[w] = "set_user_email_verified",
               \/ p = "consume_one_time_token" /\ req[w].op = "verify"
               \/ p = "create_oauth_account" /\ req[w].op = "google"
        PROVE  WorkersOK'
    <3>1. RequestOK(p, req[w], last', issued')
      BY <1>c, <2>1 DEF RequestOK, PC
    <3>. QED
      BY <1>e, <2>1, <3>1
  <2>. QED
    BY <1>10, <1>d, <2>1 DEF SetVerified, AfterVerified
<1>11. ASSUME NEW w \in Worker, ConsumeLink(w) PROVE WorkersOK'
  BY <1>11, <1>d DEF ConsumeLink
<1>12. ASSUME NEW w \in Worker, LookupByEmail(w) PROVE WorkersOK'
  <2>0. pc[w] = "get_user_by_email" /\ req[w].op = "google"
    BY <1>12, <1>c DEF LookupByEmail, RequestOK
  <2>1. ASSUME NEW u \in Owners(req[w].addr), GotoAs(w, "create_oauth_account", u)
        PROVE  WorkersOK'
    BY <1>0, <1>a, <1>f, <2>0, <2>1 DEF Owners
  <2>2. CASE Goto(w, "create_user")
    <3>1. RequestOK("create_user", req[w], last', issued')
      BY <1>c, <2>0 DEF RequestOK, PC
    <3>. QED
      BY <1>e, <2>2, <3>1
  <2>. QED
    BY <1>12, <1>d, <2>1, <2>2 DEF LookupByEmail
<1>g. ASSUME NEW w \in Worker, NEW p, Goto(w, p), p \in {"create_oauth_account", "sign_in"},
             req[w].op = "google",
             pc[w] \in {"set_user_email_verified", "create_oauth_account"}
      PROVE  WorkersOK'
  <2>1. RequestOK(p, req[w], last', issued')
    BY <1>c, <1>g DEF RequestOK, PC
  <2>. QED
    BY <1>e, <1>g, <2>1
<1>13. ASSUME NEW w \in Worker, CreateOauthAccount(w) PROVE WorkersOK'
  <2>1. pc[w] = "create_oauth_account" /\ req[w].op = "google"
    BY <1>13, <1>c DEF CreateOauthAccount, RequestOK
  <2>. QED
    BY <1>13, <1>g, <2>1 DEF CreateOauthAccount
<1>14. ASSUME NEW w \in Worker, Suppressed(w) PROVE WorkersOK'
  BY <1>14, <1>g DEF Suppressed
<1>15. ASSUME NEW w \in Worker, SignIn(w) \/ Fail(w) PROVE WorkersOK'
  BY <1>15, <1>d DEF SignIn, Fail
<1>16. ASSUME UNCHANGED vars PROVE WorkersOK'
  BY <1>16 DEF vars, userVars, linkVars, workerVars, BaseOK, WorkersOK
<1>. QED
  BY <1>1, <1>2, <1>3, <1>4, <1>5, <1>6, <1>7, <1>8, <1>9, <1>10, <1>11, <1>12,
     <1>13, <1>14, <1>15, <1>16 DEF Next, Step

LEMMA LinksNext == BaseOK /\ [Next]_vars => LinksOK'
<1>. SUFFICES ASSUME BaseOK, [Next]_vars PROVE LinksOK'
  OBVIOUS
<1>1. ASSUME NEW w \in Worker, CreateLink(w) PROVE LinksOK'
  <2>1. /\ pc[w] = "create_one_time_token" /\ InsertLink(req[w].user, req[w].addr)
        /\ issued \in 0..MaxLinks /\ linkUser \in [Link -> 0..last]
        /\ linkAddr \in [Link -> Email \cup {NoEmail}]
    BY <1>1 DEF CreateLink, BaseOK, TablesOK
  <2>2. req[w].user # 0 /\ req[w].addr \in Email
    BY <2>1 DEF BaseOK, WorkersOK, RequestOK
  <2>. QED
    BY <2>1, <2>2, IdentityConstants DEF InsertLink, BaseOK, LinksOK, Link
<1>2. CASE UNCHANGED <<issued, linkUser, linkAddr>>
  BY <1>2 DEF BaseOK, LinksOK
<1>. QED
  BY <1>1, <1>2
  DEF Next, Step, vars, linkVars, Register, Seed, ChangeEmail, VerifyEmail, Google,
      CreateUser, UpdateEmail, IssueVerifyEmail, SetVerified, ConsumeLink,
      LookupByEmail, CreateOauthAccount, Suppressed, SignIn, Fail

LEMMA BaseInit == Init => BaseOK
<1>. SUFFICES ASSUME Init PROVE BaseOK
  OBVIOUS
<1>1. TablesOK
  BY IdentityConstants DEF Init, TablesOK, User, Link
<1>2. RequestOK("idle", NoRequest, last, issued)
  BY IdentityConstants DEF Init, RequestOK, NoRequest, Request, Op, PC
<1>3. WorkersOK
  BY <1>2 DEF Init, WorkersOK, RequestOK
<1>. QED
  BY <1>1, <1>3, IdentityConstants DEF Init, BaseOK, LinksOK

LEMMA BaseNext == BaseOK /\ [Next]_vars => BaseOK'
BY TablesNext, WorkersNext, LinksNext DEF BaseOK

(* The tables and the handlers keep their types: an account a handler has  *)
(* looked up or created is there, and so is a link.                        *)
THEOREM TypeCorrect == Spec => []TypeOK
BY BaseInit, BaseNext, BaseTypes, PTL DEF Spec

-----------------------------------------------------------------------------
(* What a step of w leaves alone.                                          *)

LEMMA OthersKept ==
  ASSUME BaseOK, NEW w \in Worker, Step(w), NEW v \in Worker, v # w
  PROVE  pc'[v] = pc[v] /\ req'[v] = req[v]
<1>. USE DEF BaseOK, WorkersOK
<1>1. ASSUME NEW r, NEW p, Accept(w, r, p) PROVE pc'[v] = pc[v] /\ req'[v] = req[v]
  BY <1>1 DEF Accept
<1>2. ASSUME NEW p, Goto(w, p) PROVE pc'[v] = pc[v] /\ req'[v] = req[v]
  BY <1>2 DEF Goto
<1>3. ASSUME NEW p, NEW u, GotoAs(w, p, u) PROVE pc'[v] = pc[v] /\ req'[v] = req[v]
  BY <1>3 DEF GotoAs
<1>4. CASE Finish(w)
  BY <1>4 DEF Finish
<1>. HIDE DEF BaseOK, WorkersOK
<1>5. CASE \/ \E e \in Email : Register(w, e) \/ Seed(w, e)
           \/ \E u \in 1..last, e \in Email : ChangeEmail(w, u, e)
           \/ \E k \in 1..issued : VerifyEmail(w, k)
           \/ \E s \in Sub, e \in Email, b \in BOOLEAN : Google(w, s, e, b)
  BY <1>1, <1>5 DEF Register, Seed, ChangeEmail, VerifyEmail, Google
<1>6. CASE CreateUser(w) \/ UpdateEmail(w) \/ IssueVerifyEmail(w) \/ CreateLink(w)
  BY <1>2, <1>3, <1>4, <1>6
  DEF CreateUser, AfterCreated, UpdateEmail, IssueVerifyEmail, CreateLink
<1>7. CASE SetVerified(w) \/ ConsumeLink(w) \/ LookupByEmail(w) \/ CreateOauthAccount(w)
  BY <1>2, <1>3, <1>4, <1>7
  DEF SetVerified, AfterVerified, ConsumeLink, LookupByEmail, CreateOauthAccount
<1>8. CASE Suppressed(w) \/ SignIn(w) \/ Fail(w)
  BY <1>2, <1>4, <1>8 DEF Suppressed, SignIn, Fail
<1>. QED
  BY <1>5, <1>6, <1>7, <1>8 DEF Step

(* Proofs stay, and a worker is forgotten to have been overtaken only by   *)
(* its own step.                                                           *)
LEMMA HistoryGrows ==
  ASSUME NEW w \in Worker, Step(w)
  PROVE  proven \subseteq proven' /\ outran \ {w} \subseteq outran'
<1>. USE DEF historyVars
<1>1. CASE \/ \E e \in Email : Register(w, e) \/ Seed(w, e)
           \/ \E u \in 1..last, e \in Email : ChangeEmail(w, u, e)
           \/ \E k \in 1..issued : VerifyEmail(w, k)
           \/ \E s \in Sub, e \in Email, b \in BOOLEAN : Google(w, s, e, b)
  BY <1>1 DEF Register, Seed, ChangeEmail, VerifyEmail, Google
<1>2. CASE CreateUser(w)
  <2>1. proven \subseteq proven'
    BY <1>2 DEF CreateUser, AfterCreated
  <2>. QED
    BY <1>2, <2>1 DEF CreateUser
<1>3. CASE UpdateEmail(w) \/ IssueVerifyEmail(w) \/ CreateLink(w)
  BY <1>3 DEF UpdateEmail, IssueVerifyEmail, CreateLink
<1>4. CASE SetVerified(w) \/ ConsumeLink(w) \/ LookupByEmail(w) \/ CreateOauthAccount(w)
  BY <1>4 DEF SetVerified, ConsumeLink, LookupByEmail, CreateOauthAccount
<1>5. CASE Suppressed(w) \/ SignIn(w) \/ Fail(w)
  BY <1>5 DEF Suppressed, SignIn, Fail
<1>. QED
  BY <1>1, <1>2, <1>3, <1>4, <1>5 DEF Step

(* What w itself goes on with.                                             *)
LEMMA Moves ==
  ASSUME BaseOK, NEW w \in Worker
  PROVE  /\ \A r, p : Accept(w, r, p) => pc[w] = "idle" /\ pc'[w] = p /\ req'[w] = r
         /\ \A p : Goto(w, p) => pc'[w] = p /\ req'[w] = req[w]
         /\ \A p, u : GotoAs(w, p, u) =>
              /\ pc'[w] = p /\ req'[w].user = u
              /\ req'[w].op = req[w].op /\ req'[w].addr = req[w].addr
              /\ req'[w].sub = req[w].sub /\ req'[w].tok = req[w].tok
         /\ Finish(w) => pc'[w] = "idle" /\ req'[w] = NoRequest
BY DEF BaseOK, WorkersOK, Request, Accept, Goto, GotoAs, Finish

LEMMA ArriveMoves ==
  ASSUME BaseOK, NEW w \in Worker,
         \/ \E e \in Email : Register(w, e)
         \/ \E u \in 1..last, e \in Email : ChangeEmail(w, u, e)
         \/ \E s \in Sub, e \in Email, v \in BOOLEAN : Google(w, s, e, v)
  PROVE  pc'[w] \in {"create_user", "update_user_email", "get_user_by_email", "sign_in"}
<1>1. \A r, p : Accept(w, r, p) => pc'[w] = p
  BY Moves
<1>2. ASSUME NEW e \in Email, Register(w, e) PROVE pc'[w] = "create_user"
  BY <1>1, <1>2 DEF Register
<1>3. ASSUME NEW u \in 1..last, NEW e \in Email, ChangeEmail(w, u, e)
      PROVE  pc'[w] = "update_user_email"
  BY <1>1, <1>3 DEF ChangeEmail
<1>4. ASSUME NEW s \in Sub, NEW e \in Email, NEW v \in BOOLEAN, Google(w, s, e, v)
      PROVE  pc'[w] \in {"get_user_by_email", "sign_in"}
  <2>1. \E r : Accept(w, r, "sign_in") \/ Accept(w, r, "get_user_by_email")
    BY <1>4, Zenon DEF Google
  <2>. QED
    BY <1>1, <2>1
<1>. QED
  BY <1>2, <1>3, <1>4

LEMMA SeedMoves ==
  ASSUME BaseOK, NEW w \in Worker, NEW e \in Email, Seed(w, e)
  PROVE  req'[w].op = "seed"
<1>. DEFINE r == [NoRequest EXCEPT !.op = "seed", !.addr = e, !.vouched = TRUE]
<1>1. r.op = "seed" /\ \A u : [r EXCEPT !.user = u].op = "seed"
  BY DEF NoRequest
<1>2. Accept(w, r, "create_user")
        \/ \E u : Accept(w, [r EXCEPT !.user = u], "set_user_email_verified")
  BY Zenon DEF Seed
<1>3. ASSUME NEW q, NEW p, Accept(w, q, p) PROVE req'[w] = q
  BY <1>3, Moves
<1>. HIDE DEF r
<1>4. CASE Accept(w, r, "create_user")
  BY <1>1, <1>3, <1>4
<1>5. ASSUME NEW u, Accept(w, [r EXCEPT !.user = u], "set_user_email_verified")
      PROVE  req'[w].op = "seed"
  <2>1. req'[w] = [r EXCEPT !.user = u]
    BY <1>3, <1>5
  <2>. QED
    BY <1>1, <2>1
<1>. QED
  BY <1>2, <1>4, <1>5

-----------------------------------------------------------------------------
(* Verified addresses.                                                     *)

LEMMA FlagsNext == BaseOK /\ FlagsOK /\ [Next]_vars => FlagsOK'
<1>. SUFFICES ASSUME BaseOK, FlagsOK, NEW w \in Worker, Step(w) PROVE FlagsOK'
  BY DEF Next, vars, userVars, workerVars, historyVars, FlagsOK, VerifiedAddressIsProven
<1>0. /\ last \in 0..MaxUsers /\ email \in [User -> Email \cup {NoEmail}]
      /\ verified \in SUBSET (1..last) /\ MaxUsers \in Nat
      /\ proven \subseteq proven'
  BY HistoryGrows, IdentityConstants DEF BaseOK, TablesOK
<1>1. VerifiedAddressIsProven'
  <2>. USE DEF VerifiedAddressIsProven
  <2>0. VerifiedAddressIsProven
    BY DEF FlagsOK
  <2>1. CASE CreateUser(w)
    <3>1. UNCHANGED <<verified, stale>>
          /\ (email' = email \/ email' = [email EXCEPT ![last + 1] = req[w].addr])
      BY <2>1 DEF CreateUser, InsertUser, userVars
    <3>2. \A u \in verified : email'[u] = email[u]
      BY <1>0, <3>1 DEF User
    <3>3. ASSUME NEW u \in verified, u \notin stale
          PROVE  <<u, email'[u]>> \in proven'
      BY <1>0, <2>0, <3>2, <3>3
    <3>. QED
      BY <3>1, <3>3
  <2>2. CASE UpdateEmail(w)
    <3>1. CASE UNCHANGED <<userVars, historyVars>>
      BY <2>0, <3>1 DEF userVars, historyVars
    <3>2. CASE /\ email' = [email EXCEPT ![req[w].user] = req[w].addr]
               /\ verified' = verified \ {req[w].user}
               /\ stale' = stale \ {req[w].user} /\ proven' = proven
      <4>1. \A u \in verified' : u # req[w].user /\ email'[u] = email[u]
        BY <1>0, <3>2
      <4>. QED
        BY <2>0, <3>2, <4>1
    <3>. QED
      BY <2>2, <3>1, <3>2 DEF UpdateEmail
  <2>3. CASE SetVerified(w)
    <3>1. /\ verified' = verified \cup {req[w].user} /\ UNCHANGED <<email, proven>>
          /\ pc[w] = "set_user_email_verified"
      BY <2>3 DEF SetVerified
    <3>2. <<req[w].user, req[w].addr>> \in proven
      BY <3>1 DEF FlagsOK
    <3>3. CASE email[req[w].user] = req[w].addr
      <4>1. stale' = stale \ {req[w].user}
        BY <2>3, <3>3 DEF SetVerified
      <4>. QED
        BY <2>0, <3>1, <3>2, <3>3, <4>1
    <3>4. CASE email[req[w].user] # req[w].addr
      <4>1. stale' = stale \cup {req[w].user}
        BY <2>3, <3>4 DEF SetVerified
      <4>. QED
        BY <2>0, <3>1, <4>1
    <3>. QED
      BY <3>3, <3>4
  <2>4. CASE UNCHANGED <<email, verified, stale>>
    BY <1>0, <2>0, <2>4
  <2>. QED
    BY <2>1, <2>2, <2>3, <2>4
    DEF Step, userVars, historyVars, Register, Seed, ChangeEmail, VerifyEmail, Google,
        IssueVerifyEmail, CreateLink, ConsumeLink, LookupByEmail, CreateOauthAccount,
        Suppressed, SignIn, Fail
<1>2. ASSUME NEW v \in Worker, v # w, pc'[v] = "set_user_email_verified"
      PROVE  <<req'[v].user, req'[v].addr>> \in proven'
  BY <1>0, <1>2, OthersKept DEF FlagsOK
<1>3. ASSUME pc'[w] = "set_user_email_verified"
      PROVE  <<req'[w].user, req'[w].addr>> \in proven'
  <2>1. ASSUME NEW e \in Email, Seed(w, e) PROVE <<req'[w].user, req'[w].addr>> \in proven'
    <3>. DEFINE r == [NoRequest EXCEPT !.op = "seed", !.addr = e, !.vouched = TRUE]
    <3>0. ~ Accept(w, r, "create_user")
      BY <1>3, Moves
    <3>1. PICK u \in Owners(e) :
            Accept(w, [r EXCEPT !.user = u], "set_user_email_verified")
              /\ proven' = proven \cup {<<u, e>>}
      BY <2>1, <3>0 DEF Seed
    <3>2. req'[w] = [r EXCEPT !.user = u]
      BY <3>1, Moves
    <3>3. req'[w].user = u /\ req'[w].addr = e
      BY <3>2 DEF NoRequest
    <3>. QED
      BY <3>1, <3>3
  <2>2. ASSUME NEW k \in 1..issued, VerifyEmail(w, k)
        PROVE  <<req'[w].user, req'[w].addr>> \in proven'
    <3>1. req'[w] = Found(k) /\ proven' = proven \cup {<<linkUser[k], linkAddr[k]>>}
      BY <2>2, Moves DEF VerifyEmail
    <3>2. req'[w].user = linkUser[k] /\ req'[w].addr = linkAddr[k]
      BY <3>1 DEF Found, NoRequest
    <3>. QED
      BY <3>1, <3>2
  <2>3. CASE CreateUser(w)
    <3>1. CASE GotoAs(w, "set_user_email_verified", last + 1)
               /\ proven' = proven \cup {<<last + 1, req[w].addr>>}
      BY <3>1, Moves
    <3>. QED
      BY <1>3, <2>3, <3>1, Moves DEF CreateUser, AfterCreated
  <2>4. CASE \/ \E e \in Email : Register(w, e)
             \/ \E u \in 1..last, e \in Email : ChangeEmail(w, u, e)
             \/ \E s \in Sub, e \in Email, v \in BOOLEAN : Google(w, s, e, v)
    BY <1>3, <2>4, ArriveMoves
  <2>5. CASE UpdateEmail(w) \/ CreateLink(w)
    <3>1. Finish(w) \/ Goto(w, "issue_verify_email")
      BY <2>5, Zenon DEF UpdateEmail, CreateLink
    <3>. QED
      BY <1>3, <3>1, Moves
  <2>7. CASE IssueVerifyEmail(w)
    BY <1>3, <2>7, Moves DEF IssueVerifyEmail
  <2>8. CASE SetVerified(w)
    BY <1>3, <2>8, Moves DEF SetVerified, AfterVerified
  <2>6. CASE ConsumeLink(w) \/ LookupByEmail(w) \/ CreateOauthAccount(w)
             \/ Suppressed(w) \/ SignIn(w) \/ Fail(w)
    BY <1>3, <2>6, Moves
    DEF ConsumeLink, LookupByEmail, CreateOauthAccount, Suppressed, SignIn, Fail
  <2>. QED
    BY <2>1, <2>2, <2>3, <2>4, <2>5, <2>6, <2>7, <2>8 DEF Step
<1>. QED
  BY <1>1, <1>2, <1>3 DEF FlagsOK

(* An account is verified for an address it has shown to be its own, or    *)
(* the flag was set after the address had changed: service.py:72-96,       *)
(* repo.py:377-425, routes/auth.py:622-702 and seed.py:32-58.              *)
THEOREM VerifiedAddressesAreProven == Spec => []VerifiedAddressIsProven
<1>1. Init => FlagsOK
  BY DEF Init, FlagsOK, VerifiedAddressIsProven
<1>2. FlagsOK => VerifiedAddressIsProven
  BY DEF FlagsOK
<1>. QED
  BY <1>1, <1>2, BaseInit, BaseNext, FlagsNext, PTL DEF Spec

-----------------------------------------------------------------------------
(* Links that are consumed.                                                *)

LEMMA RepeatNext == BaseOK /\ RepeatOK /\ [Next]_vars => RepeatOK'
<1>. SUFFICES ASSUME BaseOK, RepeatOK, NEW w \in Worker, Step(w) PROVE RepeatOK'
  BY DEF Next, vars, linkVars, workerVars, historyVars, RepeatOK
<1>0. outran \ {w} \subseteq outran'
  BY HistoryGrows
<1>1. ASSUME NEW v \in Worker, v # w, pc'[v] = "set_user_email_verified",
             req'[v].op = "verify", req'[v].tok \in consumed'
      PROVE  v \in outran'
  <2>1. pc[v] = "set_user_email_verified" /\ req'[v] = req[v]
    BY <1>1, OthersKept
  <2>2. CASE ConsumeLink(w)
    <3>1. consumed' = consumed \cup {req[w].tok}
          /\ outran' = (outran \cup HoldingLink(req[w].tok, w)) \ {w}
      BY <2>2 DEF ConsumeLink
    <3>. QED
      BY <1>1, <2>1, <3>1 DEF RepeatOK, HoldingLink
  <2>3. CASE consumed' = consumed
    BY <1>0, <1>1, <2>1, <2>3 DEF RepeatOK
  <2>. QED
    BY <2>2, <2>3
    DEF Step, linkVars, Register, Seed, ChangeEmail, VerifyEmail, Google, CreateUser,
        UpdateEmail, IssueVerifyEmail, CreateLink, SetVerified, LookupByEmail,
        CreateOauthAccount, Suppressed, SignIn, Fail
<1>2. ASSUME pc'[w] = "set_user_email_verified", req'[w].op = "verify",
             req'[w].tok \in consumed'
      PROVE  w \in outran'
  <2>1. ASSUME NEW k \in 1..issued, VerifyEmail(w, k) PROVE w \in outran'
    <3>1. req'[w] = Found(k) /\ k \notin consumed /\ consumed' = consumed
      BY <2>1, Moves DEF VerifyEmail, Usable, linkVars
    <3>2. req'[w].tok = k
      BY <3>1 DEF Found, NoRequest
    <3>. QED
      BY <1>2, <3>1, <3>2
  <2>2. ASSUME NEW e \in Email, Seed(w, e) PROVE w \in outran'
    BY <1>2, <2>2, SeedMoves
  <2>3. CASE CreateUser(w)
    <3>1. pc[w] = "create_user" /\ req[w].op # "verify"
      BY <2>3 DEF CreateUser, BaseOK, WorkersOK, RequestOK
    <3>2. Finish(w) \/ GotoAs(w, "set_user_email_verified", last + 1)
            \/ GotoAs(w, "create_oauth_account", last + 1)
      BY <2>3, Zenon DEF CreateUser, AfterCreated
    <3>. QED
      BY <1>2, <3>1, <3>2, Moves
  <2>4. CASE \/ \E e \in Email : Register(w, e)
             \/ \E u \in 1..last, e \in Email : ChangeEmail(w, u, e)
             \/ \E s \in Sub, e \in Email, v \in BOOLEAN : Google(w, s, e, v)
    BY <1>2, <2>4, ArriveMoves
  <2>5. CASE UpdateEmail(w) \/ CreateLink(w)
    <3>1. Finish(w) \/ Goto(w, "issue_verify_email")
      BY <2>5, Zenon DEF UpdateEmail, CreateLink
    <3>. QED
      BY <1>2, <3>1, Moves
  <2>6. CASE IssueVerifyEmail(w)
    BY <1>2, <2>6, Moves DEF IssueVerifyEmail
  <2>7. CASE SetVerified(w)
    BY <1>2, <2>7, Moves DEF SetVerified, AfterVerified
  <2>8. CASE ConsumeLink(w) \/ LookupByEmail(w) \/ CreateOauthAccount(w)
             \/ Suppressed(w) \/ SignIn(w) \/ Fail(w)
    BY <1>2, <2>8, Moves
    DEF ConsumeLink, LookupByEmail, CreateOauthAccount, Suppressed, SignIn, Fail
  <2>. QED
    BY <2>1, <2>2, <2>3, <2>4, <2>5, <2>6, <2>7, <2>8 DEF Step
<1>. QED
  BY <1>1, <1>2 DEF RepeatOK

(* verify_email sets the flag by a consumed link only if it had looked the *)
(* link up before another worker consumed it.  service.py:72-96.           *)
THEOREM RepeatsComeFromRaces == Spec => OnlyOvertakenUsesRepeat
<1>. DEFINE A == \A w \in Worker :
                   SetVerified(w) /\ req[w].op = "verify" /\ req[w].tok \in consumed
                     => w \in outran
<1>1. Init => RepeatOK
  BY DEF Init, RepeatOK
<1>2. RepeatOK => [A]_vars
  BY DEF RepeatOK, SetVerified
<1>. QED
  BY <1>1, <1>2, BaseInit, BaseNext, RepeatNext, PTL DEF Spec, OnlyOvertakenUsesRepeat

-----------------------------------------------------------------------------
(* Google accounts.                                                        *)

LEMMA StaysOnTrack ==
  ASSUME NEW v, OnTrack(pc[v], req[v]), pc'[v] = pc[v], req'[v] = req[v],
         req[v].op = "google" /\ req[v].user # 0
           => email'[req[v].user] = email[req[v].user],
         req[v].op = "google" => oauth'[req[v].sub] = oauth[req[v].sub],
         pc[v] \in {"set_user_email_verified", "create_oauth_account"} => req[v].user # 0
  PROVE  OnTrack(pc[v], req[v])'
<1>1. CASE req[v].op # "google"
  BY <1>1 DEF OnTrack
<1>2. CASE req[v].op = "google"
  BY <1>2, Zenon DEF OnTrack
<1>. QED
  BY <1>1, <1>2

LEMMA GoogleOthers ==
  ASSUME BaseOK, GoogleOK, NEW w \in Worker, Step(w),
         NEW v \in Worker \ outran', v # w
  PROVE  OnTrack(pc[v], req[v])'
<1>0. OnTrack(pc[v], req[v]) /\ RequestOK(pc[v], req[v], last, issued)
  BY HistoryGrows DEF GoogleOK, BaseOK, WorkersOK
<1>1. pc'[v] = pc[v] /\ req'[v] = req[v]
  BY OthersKept
<1>2. /\ last \in 0..MaxUsers /\ MaxUsers \in Nat /\ oauth \in [Sub -> 0..last]
      /\ email \in [User -> Email \cup {NoEmail}]
  BY IdentityConstants DEF BaseOK, TablesOK
<1>3. /\ req[v].user # 0 => req[v].user \in User
      /\ req[v].user \in 0..last
      /\ pc[v] \in {"set_user_email_verified", "create_oauth_account"} => req[v].user # 0
      /\ req[v].op = "google" => req[v].sub \in Sub
  BY <1>0, <1>2 DEF RequestOK, Request, User
<1>4. CASE UpdateEmail(w)
  <2>1. oauth' = oauth /\ (email' = email \/
          /\ email' = [email EXCEPT ![req[w].user] = req[w].addr]
          /\ outran' = outran \cup HoldingUser(req[w].user, w))
    BY <1>4 DEF UpdateEmail, userVars
  <2>2. req[v].op = "google" /\ req[v].user # 0
          => email'[req[v].user] = email[req[v].user]
    BY <1>2, <1>3, <2>1 DEF HoldingUser
  <2>. QED
    BY <1>0, <1>1, <1>3, <2>1, <2>2, StaysOnTrack
<1>5. CASE CreateUser(w)
  <2>1. oauth' = oauth
          /\ (email' = email \/ email' = [email EXCEPT ![last + 1] = req[w].addr])
    BY <1>5 DEF CreateUser, InsertUser, userVars
  <2>2. req[v].user # 0 => email'[req[v].user] = email[req[v].user]
    BY <1>2, <1>3, <2>1
  <2>. QED
    BY <1>0, <1>1, <1>3, <2>1, <2>2, StaysOnTrack
<1>6. CASE CreateOauthAccount(w)
  <2>1. email' = email /\ (oauth' = oauth \/
          /\ oauth' = [oauth EXCEPT ![req[w].sub] = req[w].user]
          /\ outran' = outran \cup HoldingSub(req[w].sub, w))
    BY <1>6 DEF CreateOauthAccount, userVars
  <2>2. req[v].op = "google" => oauth'[req[v].sub] = oauth[req[v].sub]
    BY <1>2, <1>3, <2>1 DEF HoldingSub
  <2>. QED
    BY <1>0, <1>1, <1>3, <2>1, <2>2, StaysOnTrack
<1>7. CASE UNCHANGED <<email, oauth>>
  BY <1>0, <1>1, <1>7 DEF OnTrack
<1>. QED
  BY <1>4, <1>5, <1>6, <1>7
  DEF Step, userVars, Register, Seed, ChangeEmail, VerifyEmail, Google,
      IssueVerifyEmail, CreateLink, SetVerified, ConsumeLink, LookupByEmail,
      Suppressed, SignIn, Fail

LEMMA GoogleSelf ==
  ASSUME BaseOK, GoogleOK, NEW w \in Worker \ outran', Step(w)
  PROVE  OnTrack(pc[w], req[w])'
<1>0. RequestOK(pc[w], req[w], last, issued)
  BY DEF BaseOK, WorkersOK
<1>a. /\ last \in 0..MaxUsers /\ MaxUsers \in Nat /\ oauth \in [Sub -> 0..last]
      /\ email \in [User -> Email \cup {NoEmail}]
  BY IdentityConstants DEF BaseOK, TablesOK
<1>b. w \notin outran => OnTrack(pc[w], req[w])
  BY DEF GoogleOK
<1>c. (req'[w].op = "google") = FALSE => OnTrack(pc[w], req[w])'
  BY DEF OnTrack
<1>d. CASE Finish(w)
  BY <1>c, <1>d, Moves DEF NoRequest
<1>e. ASSUME NEW r, NEW p, Accept(w, r, p) PROVE pc'[w] = p /\ req'[w] = r
  BY <1>e, Moves
<1>1. ASSUME NEW e \in Email, Register(w, e) PROVE OnTrack(pc[w], req[w])'
  <2>1. req'[w] = [NoRequest EXCEPT !.op = "register", !.addr = e]
    BY <1>1, <1>e DEF Register
  <2>. QED
    BY <1>c, <2>1 DEF NoRequest
<1>2. ASSUME NEW e \in Email, Seed(w, e) PROVE OnTrack(pc[w], req[w])'
  BY <1>2, <1>c, SeedMoves
<1>3. ASSUME NEW u \in 1..last, NEW e \in Email, ChangeEmail(w, u, e)
      PROVE  OnTrack(pc[w], req[w])'
  <2>1. req'[w] = [NoRequest EXCEPT !.op = "change", !.user = u, !.addr = e]
    BY <1>3, <1>e DEF ChangeEmail
  <2>. QED
    BY <1>c, <2>1 DEF NoRequest
<1>4. ASSUME NEW k \in 1..issued, VerifyEmail(w, k) PROVE OnTrack(pc[w], req[w])'
  <2>1. req'[w] = Found(k)
    BY <1>4, <1>e DEF VerifyEmail
  <2>. QED
    BY <1>c, <2>1 DEF Found, NoRequest
<1>5. ASSUME NEW s \in Sub, NEW e \in Email, NEW b \in BOOLEAN, Google(w, s, e, b)
      PROVE  OnTrack(pc[w], req[w])'
  <2>. DEFINE r == [NoRequest EXCEPT !.op = "google", !.sub = s, !.addr = e, !.vouched = b]
              q == [r EXCEPT !.user = oauth[s]]
  <2>1. r.sub = s /\ q.sub = s /\ q.user = oauth[s]
    BY DEF NoRequest
  <2>2. oauth' = oauth
    BY <1>5 DEF Google
  <2>3. \/ oauth[s] # 0 /\ Accept(w, q, "sign_in")
        \/ oauth[s] = 0 /\ Accept(w, r, "get_user_by_email")
    BY <1>5 DEF Google, FindOauthAccount
  <2>4. \/ req'[w] = q /\ pc'[w] = "sign_in"
        \/ oauth[s] = 0 /\ req'[w] = r /\ pc'[w] = "get_user_by_email"
    BY <1>e, <2>3
  <2>. HIDE DEF r, q
  <2>. QED
    BY <2>1, <2>2, <2>4 DEF OnTrack
<1>f. ASSUME NEW p, NEW u, GotoAs(w, p, u)
      PROVE  /\ pc'[w] = p /\ req'[w].user = u /\ req'[w].op = req[w].op
             /\ req'[w].addr = req[w].addr /\ req'[w].sub = req[w].sub
  BY <1>f, Moves
<1>g. ASSUME NEW p, Goto(w, p) PROVE pc'[w] = p /\ req'[w] = req[w]
  BY <1>g, Moves
<1>6. CASE CreateUser(w) /\ ~ Finish(w)
  <2>1. /\ pc[w] = "create_user" /\ oauth' = oauth
        /\ email' = [email EXCEPT ![last + 1] = req[w].addr] /\ last + 1 \in User
        /\ \/ GotoAs(w, "set_user_email_verified", last + 1)
           \/ GotoAs(w, "create_oauth_account", last + 1)
    BY <1>6, <1>a DEF CreateUser, AfterCreated, InsertUser, User
  <2>2. /\ pc'[w] \in {"set_user_email_verified", "create_oauth_account"}
        /\ req'[w].user = last + 1 /\ req'[w].op = req[w].op
        /\ req'[w].addr = req[w].addr /\ req'[w].sub = req[w].sub
    BY <1>f, <2>1
  <2>3. w \notin outran
    BY <1>6, <2>2 DEF CreateUser
  <2>. QED
    BY <1>a, <1>b, <2>1, <2>2, <2>3 DEF OnTrack
<1>7. CASE UpdateEmail(w) \/ IssueVerifyEmail(w) \/ CreateLink(w) \/ ConsumeLink(w)
  <2>1. req[w].op \in {"change", "verify"}
    BY <1>0, <1>7 DEF UpdateEmail, IssueVerifyEmail, CreateLink, ConsumeLink, RequestOK
  <2>2. \/ Finish(w) \/ Goto(w, "issue_verify_email")
        \/ \E u : GotoAs(w, "create_one_time_token", u)
    BY <1>7, Zenon DEF UpdateEmail, IssueVerifyEmail, CreateLink, ConsumeLink
  <2>. QED
    BY <1>c, <1>d, <1>f, <1>g, <2>1, <2>2
<1>8. CASE SetVerified(w)
  <2>1. /\ pc[w] = "set_user_email_verified" /\ outran' = outran
        /\ UNCHANGED <<email, oauth>>
        /\ \/ Finish(w)
           \/ Goto(w, "consume_one_time_token") /\ req[w].op = "verify"
           \/ Goto(w, "create_oauth_account")
    BY <1>8 DEF SetVerified, AfterVerified
  <2>. QED
    BY <1>b, <1>d, <1>g, <2>1 DEF OnTrack
<1>9. CASE LookupByEmail(w) /\ ~ Finish(w)
  <2>1. /\ pc[w] = "get_user_by_email" /\ outran' = outran /\ UNCHANGED <<email, oauth>>
        /\ \/ \E u \in Owners(req[w].addr) : GotoAs(w, "create_oauth_account", u)
           \/ Goto(w, "create_user")
    BY <1>9 DEF LookupByEmail, userVars
  <2>2. CASE Goto(w, "create_user")
    BY <1>b, <1>g, <2>1, <2>2 DEF OnTrack
  <2>3. ASSUME NEW u \in Owners(req[w].addr), GotoAs(w, "create_oauth_account", u)
        PROVE  OnTrack(pc[w], req[w])'
    BY <1>b, <1>f, <2>1, <2>3 DEF OnTrack, Owners
  <2>. QED
    BY <2>1, <2>2, <2>3
<1>10. CASE CreateOauthAccount(w)
  <2>1. /\ pc[w] = "create_oauth_account" /\ Goto(w, "sign_in")
        /\ outran \subseteq outran'
        /\ oauth' = IF oauth[req[w].sub] = 0
                    THEN [oauth EXCEPT ![req[w].sub] = req[w].user] ELSE oauth
    BY <1>10 DEF CreateOauthAccount
  <2>2. req[w].op = "google" /\ req[w].sub \in Sub
    BY <1>0, <2>1 DEF RequestOK
  <2>3. oauth[req[w].sub] = 0
    BY <1>b, <2>1, <2>2 DEF OnTrack
  <2>4. oauth'[req[w].sub] = req[w].user
    BY <1>a, <2>1, <2>2, <2>3
  <2>. QED
    BY <1>g, <2>1, <2>4 DEF OnTrack
<1>11. CASE Suppressed(w)
  <2>1. /\ UNCHANGED <<email, oauth, outran>>
        /\ \/ pc[w] = "set_user_email_verified" /\ Goto(w, "create_oauth_account")
           \/ pc[w] = "create_oauth_account" /\ Goto(w, "sign_in")
    BY <1>11 DEF Suppressed, userVars, historyVars
  <2>. QED
    BY <1>b, <1>g, <2>1 DEF OnTrack
<1>. QED
  BY <1>1, <1>2, <1>3, <1>4, <1>5, <1>6, <1>7, <1>8, <1>9, <1>10, <1>11, <1>d
  DEF Step, SignIn, Fail

LEMMA GoogleNext == BaseOK /\ GoogleOK /\ [Next]_vars => GoogleOK'
<1>1. ASSUME BaseOK, GoogleOK, NEW w \in Worker, Step(w) PROVE GoogleOK'
  BY <1>1, GoogleOthers, GoogleSelf DEF GoogleOK
<1>2. ASSUME GoogleOK, UNCHANGED vars PROVE GoogleOK'
  BY <1>2 DEF GoogleOK, OnTrack, vars, userVars, oauthVars, workerVars, historyVars
<1>. QED
  BY <1>1, <1>2 DEF Next

LEMMA GoogleInit == Init => GoogleOK
BY DEF Init, GoogleOK, OnTrack, NoRequest

(* The Google handler signs in to another account than the one linked only *)
(* if it found no link and another worker has made one since.              *)
(* routes/auth.py:622-731.                                                 *)
THEOREM GoogleSignsInTheLinkedUser == Spec => GoogleSignsInLinkedUser
<1>. DEFINE A == \A w \in Worker :
                   SignIn(w) /\ oauth[req[w].sub] \notin {0, req[w].user} => w \in outran
<1>1. BaseOK /\ GoogleOK => [A]_vars
  BY DEF BaseOK, WorkersOK, RequestOK, GoogleOK, OnTrack, SignIn
<1>. QED
  BY <1>1, BaseInit, BaseNext, GoogleInit, GoogleNext, PTL DEF Spec, GoogleSignsInLinkedUser

(* A Google account is linked once, to the account with its address, or in *)
(* a handler that the change of an address has overtaken.                  *)
(* repo.py:509-522, routes/auth.py:661-702.                                *)
THEOREM LinksGoToOwners == Spec => LinksAreForOwners
<1>. DEFINE A == \A s \in Sub :
       oauth'[s] # oauth[s]
         => /\ oauth[s] = 0
            /\ \E w \in Worker :
                 /\ pc[w] = "create_oauth_account" /\ req[w].sub = s
                 /\ email[oauth'[s]] = req[w].addr \/ w \in outran
<1>1. ASSUME BaseOK, GoogleOK, Next PROVE A
  <2>1. PICK w \in Worker : Step(w)
    BY <1>1 DEF Next
  <2>2. CASE CreateOauthAccount(w)
    <3>1. /\ pc[w] = "create_oauth_account"
          /\ oauth' = IF oauth[req[w].sub] = 0
                      THEN [oauth EXCEPT ![req[w].sub] = req[w].user] ELSE oauth
      BY <2>2 DEF CreateOauthAccount
    <3>2. /\ req[w].op = "google" /\ req[w].sub \in Sub /\ oauth \in [Sub -> 0..last]
      BY <1>1, <3>1 DEF BaseOK, TablesOK, WorkersOK, RequestOK
    <3>3. w \in outran \/ email[req[w].user] = req[w].addr
      BY <1>1, <3>1, <3>2 DEF GoogleOK, OnTrack
    <3>. QED
      BY <3>1, <3>2, <3>3
  <2>3. CASE oauth' = oauth
    BY <2>3
  <2>. QED
    BY <2>1, <2>2, <2>3
    DEF Step, Register, Seed, ChangeEmail, VerifyEmail, Google, CreateUser, UpdateEmail,
        IssueVerifyEmail, CreateLink, SetVerified, ConsumeLink, LookupByEmail,
        Suppressed, SignIn, Fail
<1>2. BaseOK /\ GoogleOK /\ [Next]_vars => [A]_vars
  BY <1>1
<1>. QED
  BY <1>2, BaseInit, BaseNext, GoogleInit, GoogleNext, PTL DEF Spec, LinksAreForOwners
=============================================================================
