------------------------ MODULE DjangoAccountsProofs ------------------------
(***************************************************************************)
(* Proofs about DjangoAccounts for every set of names, addresses, Google   *)
(* accounts, browsers and workers and every bound.                         *)
(***************************************************************************)
EXTENDS DjangoAccounts, TLAPS

(* What the request r of a worker at step p is, with so many accounts and  *)
(* links.                                                                  *)
RequestOK(p, r, users, links) ==
  /\ p \in PC
  /\ r \in Request
  /\ r.user <= users /\ r.tok <= links
  /\ p \in {"create_email_address", "mint_verification", "mint_reset", "save_password",
            "save_consumed", "save_user", "create_oauth_account", "save_profile", "login"}
       => r.user # 0
  /\ p \in {"consume", "save_email_address", "save_password", "save_consumed"}
       => r.tok # 0
  /\ p \in {"create_user", "create_google_user", "create_email_address",
            "mint_verification"}
       => r.addr \in Email
  /\ p \in {"create_user", "create_email_address", "mint_verification"}
       => r.op = "signup"
  /\ p \in {"exchange", "create_google_user", "save_user", "create_oauth_account"}
       => r.op = "google"
  /\ p \in {"create_google_user", "save_user", "create_oauth_account"} => r.sub \in Sub

WorkersOK ==
  /\ pc \in [Worker -> PC]
  /\ req \in [Worker -> Request]
  /\ \A w \in Worker : RequestOK(pc[w], req[w], last, issued)

(* TypeOK but for the workers.                                             *)
UsersOK ==
  /\ last \in 0..MaxUsers
  /\ name \in [User -> Username \cup {NoName}]
  /\ email \in [User -> Email \cup {NoEmail}]
  /\ \A u \in User : u <= last <=> email[u] # NoEmail
  /\ pwd \in [User -> 0..MaxPasswords]
  /\ usable \in SUBSET (1..last)
  /\ raced \in SUBSET (1..last)
  /\ profile \in [User -> Text]

LinksOK ==
  /\ issued \in 0..MaxLinks
  /\ linkUser \in [Link -> 0..last]
  /\ \A k \in Link : k <= issued <=> linkUser[k] # 0
  /\ linkPurpose \in [Link -> Purpose]
  /\ consumed \in SUBSET (1..issued)
  /\ used \in SUBSET (1..issued)
  /\ broken \in SUBSET (1..issued)

RowsOK ==
  /\ addrUser \in [Email -> 0..last]
  /\ verified \in SUBSET Email
  /\ oauth \in [Sub -> 0..last]
  /\ session \in [Browser -> [user : 0..last, cred : 0..MaxPasswords]]
  /\ pending \in SUBSET Browser
  /\ requests \in 0..MaxRequests
  /\ outran \in SUBSET Worker

BaseOK == UsersOK /\ LinksOK /\ RowsOK /\ WorkersOK

Step(w) == Arrive(w) \/ Handle(w) \/ Fail(w)

-----------------------------------------------------------------------------
LEMMA BaseTypes == BaseOK => TypeOK
BY DEF BaseOK, UsersOK, LinksOK, RowsOK, WorkersOK, TypeOK

(* The account and the link a worker holds.                                *)
LEMMA Held ==
  ASSUME BaseOK, NEW w \in Worker
  PROVE  /\ pc[w] \in PC /\ req[w] \in Request
         /\ req[w].user \in 0..last /\ req[w].tok \in 0..issued
         /\ pc[w] \in {"create_email_address", "mint_verification", "mint_reset",
                       "save_password", "save_consumed", "save_user",
                       "create_oauth_account", "save_profile", "login"}
              => req[w].user \in 1..last
         /\ pc[w] \in {"consume", "save_email_address", "save_password", "save_consumed"}
              => req[w].tok \in 1..issued
         /\ req[w].addr \in Email \cup {NoEmail} /\ req[w].name \in Username \cup {NoName}
         /\ req[w].text \in Text /\ req[w].cred \in 0..MaxPasswords
         /\ last \in Nat /\ issued \in Nat
BY DjangoConstants
DEF BaseOK, UsersOK, LinksOK, WorkersOK, RequestOK, Request

(* A request that arrives changes the worker alone; nor do these steps     *)
(* change any row.                                                         *)
LEMMA ArriveKeeps ==
  ASSUME NEW w \in Worker, Arrive(w)
  PROVE  /\ UNCHANGED <<userVars, addressVars, linkVars, oauthVars, profileVars,
                        sessionVars, historyVars>>
         /\ \E p, r : Accept(w, r, p)
<1>. DEFINE Kept == UNCHANGED <<userVars, addressVars, linkVars, oauthVars, profileVars,
                               sessionVars, historyVars>>
            Went == \E p, r : Accept(w, r, p)
<1>1. ASSUME NEW b, NEW n, NEW e, Signup(w, b, n, e) PROVE Kept /\ Went
  BY <1>1, Zenon DEF Signup
<1>2. ASSUME NEW b, NEW u, Login(w, b, u) PROVE Kept /\ Went
  BY <1>2, Zenon DEF Login
<1>3. ASSUME NEW b, NEW u, NEW t, NEW n, EditProfile(w, b, u, t, n) PROVE Kept /\ Went
  BY <1>3, Zenon DEF EditProfile
<1>4. ASSUME NEW b, GoogleCallback(w, b) PROVE Kept /\ Went
  BY <1>4, Zenon DEF GoogleCallback
<1>5. ASSUME NEW k, VerifyEmail(w, k) \/ ResetPassword(w, k) PROVE Kept /\ Went
  BY <1>5, Zenon DEF VerifyEmail, ResetPassword
<1>6. ASSUME NEW e, ForgotPassword(w, e) PROVE Kept /\ Went
  BY <1>6, Zenon DEF ForgotPassword
<1>. HIDE DEF Kept, Went
<1>7. Kept /\ Went
  BY <1>1, <1>2, <1>3, <1>4, <1>5, <1>6, Zenon DEF Arrive
<1>. QED
  BY <1>7 DEF Kept, Went

LEMMA BrowserKeeps ==
  ASSUME NEW b \in Browser, Logout(b) \/ NotAuthenticated(b) \/ GoogleStart(b)
  PROVE  UNCHANGED <<userVars, addressVars, linkVars, oauthVars, profileVars,
                     workerVars, historyVars>>
BY DEF Logout, NotAuthenticated, GoogleStart

(* The two steps that insert an account, and the one that any step may be. *)
LEMMA Inserts ==
  ASSUME NEW w \in Worker, CreateUser(w) \/ CreateGoogleUser(w)
  PROVE  /\ \/ Raise(w) /\ UNCHANGED userVars
            \/ /\ InsertUser(w, 1)
               /\ usable' \in {usable, usable \cup {last + 1}}
               /\ UNCHANGED <<used, broken>>
         /\ UNCHANGED <<addressVars, linkVars, oauthVars, profileVars, sessionVars>>
BY DEF CreateUser, CreateGoogleUser

LEMMA UsersNext == BaseOK /\ [Next]_vars => UsersOK'
<1>. SUFFICES ASSUME BaseOK, [Next]_vars PROVE UsersOK'
  OBVIOUS
<1>0. UsersOK
  BY DEF BaseOK
<1>1. CASE UNCHANGED <<last, name, email, pwd, usable, raced, profile>>
  BY <1>0, <1>1 DEF UsersOK
<1>2. ASSUME NEW w \in Worker, CreateUser(w) \/ CreateGoogleUser(w) PROVE UsersOK'
  <2>1. CASE Raise(w) /\ UNCHANGED userVars
    BY <1>0, <1>1, <1>2, <2>1 DEF Raise, userVars, CreateUser, CreateGoogleUser, profileVars
  <2>2. CASE InsertUser(w, 1) /\ usable' \in {usable, usable \cup {last + 1}}
    <3>1. /\ req[w].name \in Username \cup {NoName} /\ req[w].addr \in Email
          /\ profile' = profile
      BY <1>2, Held DEF CreateUser, CreateGoogleUser, BaseOK, WorkersOK, RequestOK, profileVars
    <3>2. /\ last \in 0..MaxUsers /\ last < MaxUsers /\ last' = last + 1 /\ last + 1 \in User
          /\ MaxUsers \in Nat
      BY <1>0, <2>2, DjangoConstants DEF UsersOK, InsertUser, User
    <3>3. name' \in [User -> Username \cup {NoName}] /\ email' \in [User -> Email \cup {NoEmail}]
      BY <1>0, <2>2, <3>1 DEF UsersOK, InsertUser
    <3>4. ASSUME NEW u \in User PROVE u <= last' <=> email'[u] # NoEmail
      <4>1. u \in Nat /\ last \in Nat /\ (u <= last <=> email[u] # NoEmail)
        BY <1>0, <3>2 DEF UsersOK, User
      <4>. QED
        BY <1>0, <2>2, <3>1, <3>2, <4>1, DjangoConstants DEF UsersOK, InsertUser
    <3>5. pwd' \in [User -> 0..MaxPasswords]
      <4>1. 1 \in 0..MaxPasswords
        BY DjangoConstants
      <4>2. pwd \in [User -> 0..MaxPasswords] /\ pwd' = [pwd EXCEPT ![last + 1] = 1]
        BY <1>0, <2>2 DEF UsersOK, InsertUser
      <4>. QED
        BY <4>1, <4>2
    <3>6. usable' \in SUBSET (1..last') /\ raced' \in SUBSET (1..last')
      BY <1>0, <2>2, <3>2 DEF UsersOK, InsertUser
    <3>. QED
      BY <1>0, <3>1, <3>2, <3>3, <3>4, <3>5, <3>6 DEF UsersOK
  <2>. QED
    BY <1>2, <2>1, <2>2 DEF CreateUser, CreateGoogleUser
<1>3. ASSUME NEW w \in Worker, SavePassword(w) \/ SaveGoogleUser(w) PROVE UsersOK'
  <2>1. req[w].user \in 1..last
    BY <1>3, Held DEF SavePassword, SaveGoogleUser
  <2>2. /\ UNCHANGED <<last, name, email, raced, profile>>
        /\ pwd[req[w].user] < MaxPasswords
        /\ pwd' = [pwd EXCEPT ![req[w].user] = @ + 1]
        /\ usable' \in {usable \cup {req[w].user}, usable \ {req[w].user}}
    BY <1>3 DEF SavePassword, SaveGoogleUser, profileVars, historyVars
  <2>3. pwd' \in [User -> 0..MaxPasswords]
    BY <1>0, <2>1, <2>2, DjangoConstants DEF UsersOK, User
  <2>. QED
    BY <1>0, <2>1, <2>2, <2>3 DEF UsersOK
<1>4. ASSUME NEW w \in Worker, SaveProfile(w) PROVE UsersOK'
  <2>1. req[w].text \in Text
    BY Held
  <2>. QED
    BY <1>0, <1>4, <2>1 DEF UsersOK, SaveProfile, userVars
<1>5. ASSUME NEW w \in Worker, Arrive(w) PROVE UsersOK'
  BY <1>1, <1>5, ArriveKeeps DEF userVars, historyVars, profileVars
<1>6. ASSUME NEW b \in Browser, Logout(b) \/ NotAuthenticated(b) \/ GoogleStart(b)
      PROVE  UsersOK'
  BY <1>1, <1>6, BrowserKeeps DEF userVars, historyVars, profileVars
<1>7. ASSUME NEW w \in Worker, SignupLogin(w) \/ PasswordLogin(w) \/ GoogleLogin(w)
      PROVE  UsersOK'
  BY <1>1, <1>7 DEF SignupLogin, PasswordLogin, GoogleLogin, OpenSession, userVars, profileVars
<1>8. ASSUME NEW w \in Worker,
             CreateEmailAddress(w) \/ CreateOauthAccount(w) \/ Fail(w)
      PROVE  UsersOK'
  BY <1>1, <1>8
  DEF CreateEmailAddress, CreateOauthAccount, Fail, Raise, userVars, profileVars, historyVars
<1>9. ASSUME NEW w \in Worker,
             \/ MintVerification(w) \/ EnqueueFails(w) \/ MintReset(w) \/ ExchangeFails(w)
             \/ SaveEmailAddress(w) \/ \E s \in Sub, e \in Email : Exchange(w, s, e)
      PROVE  UsersOK'
  BY <1>1, <1>9
  DEF MintVerification, EnqueueFails, MintReset, ExchangeFails, SaveEmailAddress, Exchange,
      userVars, profileVars, historyVars
<1>10. ASSUME NEW w \in Worker, ConsumeLink(w) \/ SaveResetConsumed(w) PROVE UsersOK'
  BY <1>1, <1>10 DEF ConsumeLink, SaveResetConsumed, SaveConsumed, userVars, profileVars
<1>11. CASE UNCHANGED vars
  BY <1>1, <1>11 DEF vars, userVars, profileVars, historyVars
<1>. QED
  BY <1>2, <1>3, <1>4, <1>5, <1>6, <1>7, <1>8, <1>9, <1>10, <1>11 DEF Next, Handle

LEMMA Grow == BaseOK /\ [Next]_vars => last' >= last /\ issued' >= issued
<1>. SUFFICES ASSUME BaseOK, [Next]_vars PROVE last' >= last /\ issued' >= issued
  OBVIOUS
<1>0. last \in Nat /\ issued \in Nat
  BY DjangoConstants DEF BaseOK, UsersOK, LinksOK
<1>1. CASE last' = last /\ issued' = issued
  BY <1>0, <1>1
<1>2. ASSUME NEW w \in Worker, CreateUser(w) \/ CreateGoogleUser(w)
      PROVE  last' >= last /\ issued' >= issued
  BY <1>0, <1>2 DEF CreateUser, CreateGoogleUser, InsertUser, userVars, linkVars
<1>3. ASSUME NEW w \in Worker, MintVerification(w) \/ MintReset(w)
      PROVE  last' >= last /\ issued' >= issued
  BY <1>0, <1>3 DEF MintVerification, MintReset, MintLink, userVars
<1>4. CASE UNCHANGED <<userVars, linkVars>>
  BY <1>1, <1>4 DEF userVars, linkVars
<1>5. ASSUME NEW w \in Worker, Arrive(w) PROVE last' >= last /\ issued' >= issued
  BY <1>4, <1>5, ArriveKeeps
<1>6. ASSUME NEW b \in Browser, Logout(b) \/ NotAuthenticated(b) \/ GoogleStart(b)
      PROVE  last' >= last /\ issued' >= issued
  BY <1>4, <1>6, BrowserKeeps
<1>7. ASSUME NEW w \in Worker,
             \/ EnqueueFails(w) \/ SignupLogin(w) \/ SaveEmailAddress(w) \/ PasswordLogin(w)
             \/ ExchangeFails(w) \/ CreateOauthAccount(w) \/ GoogleLogin(w)
             \/ SaveProfile(w) \/ CreateEmailAddress(w) \/ Fail(w)
             \/ \E s \in Sub, e \in Email : Exchange(w, s, e)
      PROVE  last' >= last /\ issued' >= issued
  BY <1>4, <1>7
  DEF EnqueueFails, SignupLogin, SaveEmailAddress, PasswordLogin, ExchangeFails,
      CreateOauthAccount, GoogleLogin, SaveProfile, CreateEmailAddress, Fail, Exchange
<1>8. ASSUME NEW w \in Worker, ConsumeLink(w) \/ SaveResetConsumed(w)
                               \/ SavePassword(w) \/ SaveGoogleUser(w)
      PROVE  last' >= last /\ issued' >= issued
  BY <1>1, <1>8
  DEF ConsumeLink, SaveResetConsumed, SavePassword, SaveGoogleUser, SaveConsumed,
      userVars, linkVars
<1>9. CASE UNCHANGED vars
  BY <1>4, <1>9 DEF vars
<1>. QED
  BY <1>2, <1>3, <1>5, <1>6, <1>7, <1>8, <1>9 DEF Next, Handle

LEMMA LinksNext == BaseOK /\ [Next]_vars => LinksOK'
<1>. SUFFICES ASSUME BaseOK, [Next]_vars PROVE LinksOK'
  OBVIOUS
<1>0. LinksOK /\ last \in Nat /\ last' \in Nat /\ last' >= last
  BY UsersNext, Grow, DjangoConstants DEF BaseOK, UsersOK
<1>1. CASE UNCHANGED <<issued, linkUser, linkPurpose, consumed, used, broken>>
  BY <1>0, <1>1 DEF LinksOK
<1>2. ASSUME NEW w \in Worker, UNCHANGED <<issued, linkUser, linkPurpose>>,
             consumed' \in {consumed, consumed \cup {req[w].tok}},
             used' \in {used, used \cup {req[w].tok}},
             broken' \in {broken, broken \cup {req[w].tok}},
             req[w].tok \in 1..issued
      PROVE  LinksOK'
  BY <1>0, <1>2 DEF LinksOK
<1>3. ASSUME NEW w \in Worker, Raise(w), UNCHANGED linkVars PROVE LinksOK'
  BY <1>1, <1>2, <1>3, Held DEF Raise, linkVars
<1>4. ASSUME NEW w \in Worker, MintVerification(w) \/ MintReset(w) PROVE LinksOK'
  <2>1. req[w].user \in 1..last
    BY <1>4, Held DEF MintVerification, MintReset
  <2>2. /\ UNCHANGED <<consumed, used, broken>>
        /\ issued < MaxLinks /\ issued' = issued + 1
        /\ linkUser' = [linkUser EXCEPT ![issued + 1] = req[w].user]
        /\ \E p \in Purpose : linkPurpose' = [linkPurpose EXCEPT ![issued + 1] = p]
    BY <1>4 DEF MintVerification, MintReset, MintLink, historyVars, Purpose
  <2>3. linkUser' \in [Link -> 0..last'] /\ linkPurpose' \in [Link -> Purpose]
    <3>1. req[w].user \in 0..last' /\ linkUser \in [Link -> 0..last']
      BY <1>0, <2>1 DEF LinksOK
    <3>2. linkUser' \in [Link -> 0..last']
      BY <2>2, <3>1
    <3>3. linkPurpose' \in [Link -> Purpose]
      BY <1>0, <2>2 DEF LinksOK
    <3>. QED
      BY <3>2, <3>3
  <2>4. ASSUME NEW k \in Link PROVE k <= issued' <=> linkUser'[k] # 0
    <3>1. k \in Nat /\ issued \in Nat /\ linkUser \in [Link -> 0..last]
          /\ (k <= issued <=> linkUser[k] # 0)
      BY <1>0, DjangoConstants DEF LinksOK, Link
    <3>2. CASE k = issued + 1
      BY <2>1, <2>2, <3>1, <3>2
    <3>3. CASE k # issued + 1
      BY <2>2, <3>1, <3>3
    <3>. QED
      BY <3>2, <3>3
  <2>. QED
    BY <1>0, <2>2, <2>3, <2>4, DjangoConstants DEF LinksOK
<1>5. ASSUME NEW w \in Worker, ConsumeLink(w) \/ SaveResetConsumed(w) \/ SavePassword(w)
      PROVE  LinksOK'
  <2>1. req[w].tok \in 1..issued
    BY <1>5, Held DEF ConsumeLink, SaveResetConsumed, SavePassword
  <2>. QED
    BY <1>2, <1>5, <2>1
    DEF ConsumeLink, SaveResetConsumed, SavePassword, SaveConsumed, linkVars
<1>6. ASSUME NEW w \in Worker, CreateUser(w) \/ CreateGoogleUser(w) \/ CreateEmailAddress(w)
                               \/ CreateOauthAccount(w) \/ Fail(w)
      PROVE  LinksOK'
  BY <1>1, <1>3, <1>6
  DEF CreateUser, CreateGoogleUser, CreateEmailAddress, CreateOauthAccount, Fail,
      linkVars, historyVars
<1>7. ASSUME NEW w \in Worker, Arrive(w) PROVE LinksOK'
  BY <1>1, <1>7, ArriveKeeps DEF linkVars, historyVars
<1>8. ASSUME NEW b \in Browser, Logout(b) \/ NotAuthenticated(b) \/ GoogleStart(b)
      PROVE  LinksOK'
  BY <1>1, <1>8, BrowserKeeps DEF linkVars, historyVars
<1>9. ASSUME NEW w \in Worker,
             \/ EnqueueFails(w) \/ SaveEmailAddress(w) \/ ExchangeFails(w)
             \/ SaveGoogleUser(w) \/ \E s \in Sub, e \in Email : Exchange(w, s, e)
      PROVE  LinksOK'
  BY <1>1, <1>9
  DEF EnqueueFails, SaveEmailAddress, ExchangeFails, SaveGoogleUser, Exchange,
      linkVars, historyVars
<1>10. ASSUME NEW w \in Worker, SignupLogin(w) \/ PasswordLogin(w) \/ GoogleLogin(w)
                                \/ SaveProfile(w)
       PROVE  LinksOK'
  BY <1>1, <1>10
  DEF SignupLogin, PasswordLogin, GoogleLogin, OpenSession, SaveProfile, linkVars
<1>11. CASE UNCHANGED vars
  BY <1>1, <1>11 DEF vars, linkVars, historyVars
<1>. QED
  BY <1>4, <1>5, <1>6, <1>7, <1>8, <1>9, <1>10, <1>11 DEF Next, Handle

LEMMA RowsNext == BaseOK /\ [Next]_vars => RowsOK'
<1>. SUFFICES ASSUME BaseOK, [Next]_vars PROVE RowsOK'
  OBVIOUS
<1>0. /\ RowsOK /\ last \in Nat /\ last' \in Nat /\ last' >= last
      /\ pwd \in [User -> 0..MaxPasswords] /\ MaxUsers \in Nat /\ last <= MaxUsers
      /\ requests \in 0..MaxRequests /\ MaxRequests \in Nat /\ MaxPasswords \in Nat
  BY UsersNext, Grow, DjangoConstants DEF BaseOK, UsersOK, RowsOK
<1>a. /\ addrUser \in [Email -> 0..last'] /\ oauth \in [Sub -> 0..last']
      /\ session \in [Browser -> [user : 0..last', cred : 0..MaxPasswords]]
  BY <1>0 DEF RowsOK
<1>1. ASSUME UNCHANGED <<addressVars, oauthVars, sessionVars>>, requests' \in 0..MaxRequests,
             outran' \in SUBSET Worker
      PROVE  RowsOK'
  BY <1>0, <1>a, <1>1 DEF RowsOK, addressVars, oauthVars, sessionVars
<1>2. ASSUME NEW w \in Worker, Arrive(w) PROVE RowsOK'
  <2>1. requests' \in 0..MaxRequests
    BY <1>0, <1>2, ArriveKeeps DEF Accept
  <2>. QED
    BY <1>0, <1>1, <1>2, <2>1, ArriveKeeps DEF historyVars, RowsOK
<1>f. ASSUME NEW w \in Worker, Finish(w) \/ (\E p : Goto(w, p)) \/ (\E p, r : GotoWith(w, p, r))
      PROVE  requests' = requests
  BY <1>f DEF Finish, Goto, GotoWith
<1>r. ASSUME NEW w \in Worker, Raise(w)
      PROVE  requests' = requests /\ outran' \in SUBSET Worker
  BY <1>0, <1>r DEF Raise, Finish, RowsOK
<1>3. ASSUME NEW b \in Browser, Logout(b) \/ NotAuthenticated(b) \/ GoogleStart(b)
      PROVE  RowsOK'
  <2>1. NoSession \in [user : 0..last', cred : 0..MaxPasswords]
    BY <1>0 DEF NoSession
  <2>2. session' \in [Browser -> [user : 0..last', cred : 0..MaxPasswords]]
        /\ pending' \in SUBSET Browser
    BY <1>0, <1>a, <1>3, <2>1 DEF Logout, NotAuthenticated, GoogleStart, MintState, RowsOK
  <2>. QED
    BY <1>0, <1>a, <1>3, <2>2, BrowserKeeps
    DEF RowsOK, addressVars, oauthVars, workerVars, historyVars
<1>4. ASSUME NEW w \in Worker, SignupLogin(w) \/ PasswordLogin(w) \/ GoogleLogin(w)
      PROVE  RowsOK'
  <2>. DEFINE s == [user |-> req[w].user, cred |-> req[w].cred]
  <2>1. s \in [user : 0..last', cred : 0..MaxPasswords]
    BY <1>0, Held
  <2>2. /\ session' = [session EXCEPT ![req[w].browser] = s]
        /\ pending' \in SUBSET Browser
        /\ outran' \in SUBSET Worker /\ requests' = requests
        /\ UNCHANGED <<addressVars, oauthVars>>
    BY <1>0, <1>4 DEF SignupLogin, PasswordLogin, GoogleLogin, OpenSession, Finish, RowsOK
  <2>. HIDE DEF s
  <2>3. session' \in [Browser -> [user : 0..last', cred : 0..MaxPasswords]]
    BY <1>a, <2>1, <2>2
  <2>. QED
    BY <1>0, <1>a, <2>2, <2>3 DEF RowsOK, addressVars, oauthVars
<1>5. ASSUME NEW w \in Worker, CreateUser(w) \/ CreateGoogleUser(w) PROVE RowsOK'
  <2>1. CASE Raise(w)
    BY <1>0, <1>1, <1>5, <1>r, <2>1, Inserts
  <2>2. CASE InsertUser(w, 1) /\ ~ Raise(w)
    <3>1. requests' = requests
      BY <1>5, <1>f, <2>2, Zenon DEF CreateUser, CreateGoogleUser
    <3>2. outran' \in SUBSET Worker
      BY <1>0, <2>2 DEF InsertUser, Inserting, RowsOK
    <3>. QED
      BY <1>0, <1>1, <1>5, <3>1, <3>2, Inserts
  <2>. QED
    BY <1>5, <2>1, <2>2, Inserts
<1>6. ASSUME NEW w \in Worker, CreateEmailAddress(w) PROVE RowsOK'
  <2>1. CASE Raise(w) /\ UNCHANGED addrUser
    BY <1>0, <1>1, <1>6, <1>r, <2>1 DEF CreateEmailAddress, addressVars
  <2>2. CASE /\ addrUser' = [addrUser EXCEPT ![req[w].addr] = req[w].user]
             /\ Goto(w, "mint_verification") /\ UNCHANGED historyVars
    <3>1. req[w].user \in 0..last'
      BY <1>0, Held
    <3>2. addrUser' \in [Email -> 0..last']
      BY <1>a, <2>2, <3>1
    <3>. QED
      BY <1>0, <1>a, <1>6, <1>f, <2>2, <3>2
      DEF CreateEmailAddress, RowsOK, oauthVars, sessionVars, historyVars
  <2>. QED
    BY <1>6, <2>1, <2>2 DEF CreateEmailAddress
<1>7. ASSUME NEW w \in Worker, CreateOauthAccount(w) PROVE RowsOK'
  <2>1. CASE Raise(w) /\ UNCHANGED oauth
    BY <1>0, <1>1, <1>7, <1>r, <2>1 DEF CreateOauthAccount, oauthVars
  <2>2. CASE /\ oauth' = [oauth EXCEPT ![req[w].sub] = req[w].user]
             /\ Goto(w, "login") /\ UNCHANGED historyVars
    <3>1. req[w].user \in 0..last'
      BY <1>0, Held
    <3>2. oauth' \in [Sub -> 0..last']
      BY <1>a, <2>2, <3>1
    <3>. QED
      BY <1>0, <1>a, <1>7, <1>f, <2>2, <3>2
      DEF CreateOauthAccount, RowsOK, addressVars, sessionVars, historyVars
  <2>. QED
    BY <1>7, <2>1, <2>2 DEF CreateOauthAccount
<1>8. ASSUME NEW w \in Worker, SaveEmailAddress(w) PROVE RowsOK'
  <2>1. ASSUME linkUser[req[w].tok] \in 1..last
        PROVE  email[linkUser[req[w].tok]] \in Email
    BY <1>0, <2>1 DEF BaseOK, UsersOK, User
  <2>2. linkUser[req[w].tok] \in 1..last
    BY <1>8, <1>0, Held, DjangoConstants DEF SaveEmailAddress, BaseOK, LinksOK, Link
  <2>3. verified' \in SUBSET Email
    BY <1>0, <1>8, <2>1, <2>2 DEF SaveEmailAddress, RowsOK
  <2>. QED
    BY <1>0, <1>a, <1>8, <1>f, <2>3
    DEF SaveEmailAddress, RowsOK, oauthVars, sessionVars, historyVars
<1>9. ASSUME NEW w \in Worker, ConsumeLink(w) \/ SaveResetConsumed(w) \/ SaveProfile(w)
      PROVE  RowsOK'
  <2>1. outran' \in SUBSET Worker
    BY <1>0, <1>9 DEF ConsumeLink, SaveResetConsumed, SaveProfile, SaveConsumed,
                      HoldingLink, Editing, RowsOK
  <2>2. requests' = requests
    BY <1>f, <1>9, Zenon DEF ConsumeLink, SaveResetConsumed, SaveProfile
  <2>. QED
    BY <1>0, <1>1, <1>9, <2>1, <2>2 DEF ConsumeLink, SaveResetConsumed, SaveProfile
<1>10. ASSUME NEW w \in Worker,
              \/ MintVerification(w) \/ EnqueueFails(w) \/ MintReset(w) \/ ExchangeFails(w)
              \/ SavePassword(w)
       PROVE  RowsOK'
  <2>1. requests' = requests
    BY <1>10, <1>f, Zenon
    DEF MintVerification, EnqueueFails, MintReset, ExchangeFails, SavePassword
  <2>. QED
    BY <1>0, <1>1, <1>10, <2>1
    DEF MintVerification, EnqueueFails, MintReset, ExchangeFails, SavePassword,
        historyVars, RowsOK
<1>11. ASSUME NEW w \in Worker,
              SaveGoogleUser(w) \/ \E s \in Sub, e \in Email : Exchange(w, s, e)
       PROVE  RowsOK'
  <2>1. requests' = requests
    BY <1>11, <1>f, Zenon DEF SaveGoogleUser, Exchange
  <2>. QED
    BY <1>0, <1>1, <1>11, <2>1 DEF SaveGoogleUser, Exchange, historyVars, RowsOK
<1>12. ASSUME NEW w \in Worker, Fail(w) PROVE RowsOK'
  BY <1>0, <1>1, <1>12, <1>r DEF Fail
<1>13. CASE UNCHANGED vars
  BY <1>0, <1>1, <1>13 DEF vars, workerVars, historyVars, RowsOK
<1>. QED
  BY <1>2, <1>3, <1>4, <1>5, <1>6, <1>7, <1>8, <1>9, <1>10, <1>11, <1>12, <1>13
  DEF Next, Handle

-----------------------------------------------------------------------------
(* The workers: what a step leaves the one that takes it with.             *)

LEMMA Moves ==
  ASSUME BaseOK, NEW w \in Worker
  PROVE  /\ \A r, p : Accept(w, r, p) => pc'[w] = p /\ req'[w] = r
         /\ \A p : Goto(w, p) => pc'[w] = p /\ req'[w] = req[w]
         /\ \A p, r : GotoWith(w, p, r) => pc'[w] = p /\ req'[w] = r
         /\ Finish(w) => pc'[w] = "idle" /\ req'[w] = NoRequest
         /\ Raise(w) => pc'[w] = "idle" /\ req'[w] = NoRequest
BY DEF BaseOK, WorkersOK, Accept, Goto, GotoWith, Finish, Raise

(* Only the worker that takes a step moves.                                *)
LEMMA OneStep ==
  ASSUME BaseOK, NEW w \in Worker, Step(w)
  PROVE  \E p, r : pc' = [pc EXCEPT ![w] = p] /\ req' = [req EXCEPT ![w] = r]
<1>. DEFINE One == \E p, r : pc' = [pc EXCEPT ![w] = p] /\ req' = [req EXCEPT ![w] = r]
<1>. SUFFICES One
  OBVIOUS
<1>1. ASSUME NEW p, NEW r, Accept(w, r, p) PROVE One
  BY <1>1 DEF Accept
<1>2. ASSUME NEW p, Goto(w, p) PROVE One
  <2>1. req' = [req EXCEPT ![w] = req[w]]
    BY <1>2 DEF Goto, BaseOK, WorkersOK
  <2>. QED
    BY <1>2, <2>1 DEF Goto
<1>3. ASSUME NEW p, NEW r, GotoWith(w, p, r) PROVE One
  BY <1>3 DEF GotoWith
<1>4. ASSUME Finish(w) \/ Raise(w) PROVE One
  BY <1>4 DEF Finish, Raise
<1>. HIDE DEF One
<1>5. CASE Arrive(w)
  BY <1>1, <1>5, ArriveKeeps
<1>6. CASE CreateUser(w) \/ CreateEmailAddress(w) \/ MintVerification(w) \/ EnqueueFails(w)
  BY <1>2, <1>3, <1>4, <1>6, Zenon
  DEF CreateUser, CreateEmailAddress, MintVerification, EnqueueFails
<1>7. CASE SignupLogin(w) \/ PasswordLogin(w) \/ GoogleLogin(w)
  BY <1>4, <1>7, Zenon DEF SignupLogin, PasswordLogin, GoogleLogin, OpenSession
<1>8. CASE ConsumeLink(w) \/ SaveEmailAddress(w) \/ MintReset(w) \/ SavePassword(w)
           \/ SaveResetConsumed(w) \/ SaveProfile(w)
  BY <1>2, <1>4, <1>8, Zenon
  DEF ConsumeLink, SaveEmailAddress, MintReset, SavePassword, SaveResetConsumed, SaveProfile
<1>9. CASE CreateGoogleUser(w) \/ SaveGoogleUser(w) \/ CreateOauthAccount(w)
           \/ ExchangeFails(w) \/ Fail(w)
  BY <1>2, <1>3, <1>4, <1>9, Zenon
  DEF CreateGoogleUser, SaveGoogleUser, CreateOauthAccount, ExchangeFails, Fail
<1>10. CASE \E s \in Sub, e \in Email : Exchange(w, s, e)
  BY <1>3, <1>10, Zenon DEF Exchange
<1>. QED
  BY <1>5, <1>6, <1>7, <1>8, <1>9, <1>10, Zenon DEF Step, Handle

LEMMA OthersKept ==
  ASSUME BaseOK, NEW w \in Worker, Step(w), NEW v \in Worker, v # w
  PROVE  pc'[v] = pc[v] /\ req'[v] = req[v]
BY OneStep DEF BaseOK, WorkersOK

(* The requests that arrive.                                               *)
LEMMA SignupMoves ==
  ASSUME BaseOK, NEW w \in Worker, NEW b \in Browser, NEW n \in Username, NEW e \in Email,
         Signup(w, b, n, e)
  PROVE  /\ pc'[w] = "create_user" /\ req'[w] \in Request
         /\ req'[w].op = "signup" /\ req'[w].addr = e
         /\ req'[w].user = 0 /\ req'[w].tok = 0
<1>. DEFINE r == [NoRequest EXCEPT !.op = "signup", !.browser = b, !.name = n,
                                   !.addr = e, !.cred = 1]
<1>1. pc'[w] = "create_user" /\ req'[w] = r
  BY Moves DEF Signup
<1>2. r \in Request
  <2>1. 0 \in 0..MaxUsers /\ 0 \in 0..MaxLinks /\ 1 \in 0..MaxPasswords /\ "signup" \in Op
        /\ Empty \in Text
    BY DjangoConstants DEF Op
  <2>. QED
    BY <2>1 DEF NoRequest, Request
<1>3. r.op = "signup" /\ r.addr = e /\ r.user = 0 /\ r.tok = 0
  BY DEF NoRequest
<1>. HIDE DEF r
<1>. QED
  BY <1>1, <1>2, <1>3

LEMMA LoginMoves ==
  ASSUME BaseOK, NEW w \in Worker, NEW b \in Browser, NEW u \in 1..last, Login(w, b, u)
  PROVE  /\ pc'[w] = "login" /\ req'[w] \in Request
         /\ req'[w].op = "login" /\ req'[w].user = u /\ req'[w].tok = 0
<1>. DEFINE r == [NoRequest EXCEPT !.op = "login", !.browser = b, !.user = u,
                                   !.cred = pwd[u]]
<1>1. pc'[w] = "login" /\ req'[w] = r
  BY Moves DEF Login
<1>2. r \in Request
  <2>1. /\ u \in 0..MaxUsers /\ 0 \in 0..MaxLinks /\ pwd[u] \in 0..MaxPasswords
        /\ "login" \in Op /\ Empty \in Text
    BY DjangoConstants DEF Op, BaseOK, UsersOK, User
  <2>. QED
    BY <2>1 DEF NoRequest, Request
<1>3. r.op = "login" /\ r.user = u /\ r.tok = 0
  BY DEF NoRequest
<1>. HIDE DEF r
<1>. QED
  BY <1>1, <1>2, <1>3

LEMMA EditMoves ==
  ASSUME BaseOK, NEW w \in Worker, NEW b \in Browser, NEW u \in 1..last, NEW t \in Text,
         NEW named \in BOOLEAN, EditProfile(w, b, u, t, named)
  PROVE  /\ pc'[w] = "save_profile" /\ req'[w] \in Request
         /\ req'[w].op = "me" /\ req'[w].user = u /\ req'[w].tok = 0
         /\ req'[w].named = named
         /\ ~ named => req'[w].text = profile[u]
<1>. DEFINE x == IF named THEN t ELSE profile[u]
            r == [NoRequest EXCEPT !.op = "me", !.user = u, !.named = named, !.text = x]
<1>1. pc'[w] = "save_profile" /\ req'[w] = r
  BY Moves DEF EditProfile
<1>2. x \in Text /\ (~ named => x = profile[u])
  BY DjangoConstants DEF BaseOK, UsersOK, User
<1>. HIDE DEF x
<1>3. r \in Request
  <2>1. /\ u \in 0..MaxUsers /\ 0 \in 0..MaxLinks /\ 0 \in 0..MaxPasswords
        /\ "me" \in Op
    BY DjangoConstants DEF Op, BaseOK, UsersOK
  <2>. QED
    BY <1>2, <2>1 DEF NoRequest, Request
<1>4. r.op = "me" /\ r.user = u /\ r.tok = 0 /\ r.named = named /\ r.text = x
  BY DEF NoRequest
<1>. HIDE DEF r
<1>. QED
  BY <1>1, <1>2, <1>3, <1>4

LEMMA CallbackMoves ==
  ASSUME BaseOK, NEW w \in Worker, NEW b \in Browser, GoogleCallback(w, b)
  PROVE  /\ pc'[w] = "exchange" /\ req'[w] \in Request
         /\ req'[w].op = "google" /\ req'[w].user = 0 /\ req'[w].tok = 0
<1>. DEFINE r == [NoRequest EXCEPT !.op = "google", !.browser = b]
<1>1. pc'[w] = "exchange" /\ req'[w] = r
  BY Moves DEF GoogleCallback
<1>2. r \in Request
  <2>1. 0 \in 0..MaxUsers /\ 0 \in 0..MaxLinks /\ 0 \in 0..MaxPasswords /\ "google" \in Op
        /\ Empty \in Text
    BY DjangoConstants DEF Op
  <2>. QED
    BY <2>1 DEF NoRequest, Request
<1>3. r.op = "google" /\ r.user = 0 /\ r.tok = 0
  BY DEF NoRequest
<1>. HIDE DEF r
<1>. QED
  BY <1>1, <1>2, <1>3

LEMMA LinkMoves ==
  ASSUME BaseOK, NEW w \in Worker, NEW k \in 1..issued
  PROVE  /\ VerifyEmail(w, k) =>
              /\ pc'[w] = "consume" /\ req'[w] \in Request
              /\ req'[w].op = "verify" /\ req'[w].user = 0 /\ req'[w].tok = k
         /\ ResetPassword(w, k) =>
              /\ pc'[w] = "save_password" /\ req'[w] \in Request
              /\ req'[w].op = "reset" /\ req'[w].user = linkUser[k] /\ req'[w].tok = k
<1>. DEFINE r == [NoRequest EXCEPT !.op = "verify", !.tok = k]
            q == [NoRequest EXCEPT !.op = "reset", !.user = linkUser[k], !.tok = k]
<1>1. /\ VerifyEmail(w, k) => pc'[w] = "consume" /\ req'[w] = r
      /\ ResetPassword(w, k) => pc'[w] = "save_password" /\ req'[w] = q
  BY Moves DEF VerifyEmail, ResetPassword
<1>2. /\ 0 \in 0..MaxUsers /\ k \in 0..MaxLinks /\ linkUser[k] \in 0..MaxUsers
      /\ 0 \in 0..MaxPasswords /\ {"verify", "reset"} \subseteq Op /\ Empty \in Text
  BY DjangoConstants DEF Op, BaseOK, LinksOK, UsersOK, Link
<1>3. r \in Request
  BY <1>2 DEF NoRequest, Request
<1>4. q \in Request
  BY <1>2 DEF NoRequest, Request
<1>5. r.op = "verify" /\ r.user = 0 /\ r.tok = k
  BY DEF NoRequest
<1>6. q.op = "reset" /\ q.user = linkUser[k] /\ q.tok = k
  BY DEF NoRequest
<1>. HIDE DEF r, q
<1>. QED
  BY <1>1, <1>3, <1>4, <1>5, <1>6

LEMMA ForgotMoves ==
  ASSUME BaseOK, NEW w \in Worker, NEW e \in Email, ForgotPassword(w, e)
  PROVE  /\ pc'[w] = "mint_reset" /\ req'[w] \in Request
         /\ req'[w].op = "forgot" /\ req'[w].user \in 1..last /\ req'[w].tok = 0
<1>1. PICK u \in Owners(e) :
        Accept(w, [NoRequest EXCEPT !.op = "forgot", !.user = u, !.addr = e], "mint_reset")
  BY DEF ForgotPassword
<1>. DEFINE r == [NoRequest EXCEPT !.op = "forgot", !.user = u, !.addr = e]
<1>2. pc'[w] = "mint_reset" /\ req'[w] = r
  BY <1>1, Moves
<1>3. /\ u \in 1..last /\ u \in 0..MaxUsers /\ 0 \in 0..MaxLinks /\ 0 \in 0..MaxPasswords
      /\ "forgot" \in Op /\ Empty \in Text
  BY DjangoConstants DEF Op, Owners, BaseOK, UsersOK
<1>4. r \in Request
  BY <1>3 DEF NoRequest, Request
<1>5. r.op = "forgot" /\ r.user = u /\ r.tok = 0
  BY DEF NoRequest
<1>. HIDE DEF r
<1>. QED
  BY <1>2, <1>3, <1>4, <1>5

(* The answer of Google.                                                   *)
LEMMA ExchangeMoves ==
  ASSUME BaseOK, NEW w \in Worker, NEW s \in Sub, NEW e \in Email, Exchange(w, s, e)
  PROVE  /\ pc[w] = "exchange" /\ req'[w] \in Request
         /\ req'[w].op = req[w].op /\ req'[w].tok = req[w].tok
         /\ req'[w].sub = s /\ req'[w].addr = e
         /\ \/ /\ pc'[w] = "login" /\ oauth[s] # 0 /\ req'[w].user = oauth[s]
            \/ /\ pc'[w] = "create_oauth_account" /\ req'[w].user \in 1..last
            \/ /\ pc'[w] = "create_google_user" /\ req'[w].user = req[w].user
               /\ Owners(e) = {}
<1>. DEFINE r == [req[w] EXCEPT !.sub = s, !.addr = e]
            As(u) == [r EXCEPT !.user = u, !.cred = pwd[u]]
            Named(n) == [r EXCEPT !.name = n]
<1>0. req[w] \in Request
  BY Held
<1>1. r \in Request
  BY <1>0 DEF Request
<1>2. r.sub = s /\ r.addr = e /\ r.op = req[w].op /\ r.tok = req[w].tok /\ r.user = req[w].user
  BY <1>0 DEF Request
<1>3. ASSUME NEW u \in 1..last
      PROVE  /\ As(u) \in Request /\ As(u).user = u /\ As(u).sub = s /\ As(u).addr = e
             /\ As(u).op = req[w].op /\ As(u).tok = req[w].tok
  <2>1. u \in 0..MaxUsers /\ pwd[u] \in 0..MaxPasswords
    BY DjangoConstants DEF BaseOK, UsersOK, User
  <2>. HIDE DEF r
  <2>2. As(u) \in Request
    BY <1>1, <2>1 DEF Request
  <2>. QED
    BY <1>1, <1>2, <2>2 DEF Request
<1>4. ASSUME NEW n \in Username
      PROVE  /\ Named(n) \in Request /\ Named(n).user = req[w].user /\ Named(n).sub = s
             /\ Named(n).addr = e
             /\ Named(n).op = req[w].op /\ Named(n).tok = req[w].tok
  <2>. HIDE DEF r
  <2>1. Named(n) \in Request
    BY <1>1 DEF Request
  <2>. QED
    BY <1>1, <1>2, <2>1 DEF Request
<1>5. /\ pc[w] = "exchange"
      /\ \/ oauth[s] # 0 /\ GotoWith(w, "login", As(oauth[s]))
         \/ \E u \in Owners(e) : GotoWith(w, "create_oauth_account", As(u))
         \/ Owners(e) = {}
              /\ \E n \in Username : GotoWith(w, "create_google_user", Named(n))
  BY Zenon DEF Exchange
<1>6. oauth[s] \in 0..last /\ Owners(e) \subseteq 1..last /\ last \in Nat
  BY DjangoConstants DEF BaseOK, UsersOK, RowsOK, Owners
<1>7. \A p, q : GotoWith(w, p, q) => pc'[w] = p /\ req'[w] = q
  BY Moves
<1>. HIDE DEF r, As, Named
<1>8. CASE oauth[s] # 0 /\ GotoWith(w, "login", As(oauth[s]))
  <2>1. oauth[s] \in 1..last
    BY <1>6, <1>8
  <2>. QED
    BY <1>3, <1>5, <1>7, <1>8, <2>1
<1>9. ASSUME NEW u \in Owners(e), GotoWith(w, "create_oauth_account", As(u))
      PROVE  /\ req'[w] \in Request /\ pc'[w] = "create_oauth_account"
             /\ req'[w].op = req[w].op /\ req'[w].tok = req[w].tok
             /\ req'[w].sub = s /\ req'[w].addr = e /\ req'[w].user \in 1..last
  BY <1>3, <1>6, <1>7, <1>9
<1>10. ASSUME NEW n \in Username, GotoWith(w, "create_google_user", Named(n))
      PROVE  /\ req'[w] \in Request /\ pc'[w] = "create_google_user"
             /\ req'[w].op = req[w].op /\ req'[w].tok = req[w].tok
             /\ req'[w].sub = s /\ req'[w].addr = e /\ req'[w].user = req[w].user
  BY <1>4, <1>7, <1>10
<1>. QED
  BY <1>5, <1>8, <1>9, <1>10

(* An account is created: the request goes on with it.                     *)
LEMMA CreateMoves ==
  ASSUME BaseOK, NEW w \in Worker, CreateUser(w) \/ CreateGoogleUser(w), ~ Raise(w)
  PROVE  /\ InsertUser(w, 1)
         /\ \/ CreateUser(w) /\ pc[w] = "create_user" /\ pc'[w] = "create_email_address"
            \/ CreateGoogleUser(w) /\ pc[w] = "create_google_user" /\ pc'[w] = "save_user"
         /\ req'[w] = [req[w] EXCEPT !.user = last + 1]
         /\ req'[w] \in Request /\ req'[w].user = last + 1
         /\ req'[w].op = req[w].op /\ req'[w].addr = req[w].addr
         /\ req'[w].sub = req[w].sub /\ req'[w].tok = req[w].tok
<1>1. /\ InsertUser(w, 1)
      /\ \/ /\ CreateUser(w) /\ pc[w] = "create_user"
            /\ GotoWith(w, "create_email_address", [req[w] EXCEPT !.user = last + 1])
         \/ /\ CreateGoogleUser(w) /\ pc[w] = "create_google_user"
            /\ GotoWith(w, "save_user", [req[w] EXCEPT !.user = last + 1])
  BY Zenon DEF CreateUser, CreateGoogleUser
<1>2. last + 1 \in 0..MaxUsers
  BY <1>1, DjangoConstants DEF InsertUser, BaseOK, UsersOK
<1>3. req[w] \in Request
  BY Held
<1>. DEFINE r == [req[w] EXCEPT !.user = last + 1]
<1>4. r \in Request
  BY <1>2, <1>3 DEF Request
<1>5. r.user = last + 1 /\ r.op = req[w].op /\ r.addr = req[w].addr
      /\ r.sub = req[w].sub /\ r.tok = req[w].tok
  BY <1>3 DEF Request
<1>6. req'[w] = r /\ \A p : GotoWith(w, p, r) => pc'[w] = p
  BY <1>1, Moves
<1>. HIDE DEF r
<1>. QED
  BY <1>1, <1>4, <1>5, <1>6 DEF r

(* The account Google created gets its unusable password.                  *)
LEMMA SaveMoves ==
  ASSUME BaseOK, NEW w \in Worker, SaveGoogleUser(w)
  PROVE  /\ pc[w] = "save_user" /\ pc'[w] = "create_oauth_account"
         /\ req'[w] \in Request
         /\ req'[w].user = req[w].user /\ req'[w].op = req[w].op
         /\ req'[w].addr = req[w].addr
         /\ req'[w].sub = req[w].sub /\ req'[w].tok = req[w].tok
<1>1. /\ pc[w] = "save_user" /\ pwd[req[w].user] < MaxPasswords
      /\ GotoWith(w, "create_oauth_account",
                  [req[w] EXCEPT !.cred = pwd[req[w].user] + 1])
  BY DEF SaveGoogleUser
<1>2. req[w] \in Request /\ req[w].user \in 1..last
  BY <1>1, Held
<1>3. pwd[req[w].user] + 1 \in 0..MaxPasswords
  <2>1. req[w].user \in User
    BY <1>2, DjangoConstants DEF BaseOK, UsersOK, User
  <2>2. pwd[req[w].user] \in 0..MaxPasswords
    BY <2>1 DEF BaseOK, UsersOK
  <2>. QED
    BY <1>1, <2>2, DjangoConstants
<1>. DEFINE r == [req[w] EXCEPT !.cred = pwd[req[w].user] + 1]
<1>4. r \in Request
  BY <1>2, <1>3 DEF Request
<1>5. r.user = req[w].user /\ r.op = req[w].op /\ r.addr = req[w].addr
      /\ r.sub = req[w].sub /\ r.tok = req[w].tok
  BY <1>2 DEF Request
<1>6. req'[w] = r /\ pc'[w] = "create_oauth_account"
  BY <1>1, Moves
<1>. HIDE DEF r
<1>. QED
  BY <1>1, <1>4, <1>5, <1>6

(* The steps that keep the request, and those that end it.                 *)
LEMMA HandleMoves ==
  ASSUME BaseOK, NEW w \in Worker
  PROVE  /\ CreateEmailAddress(w) /\ ~ Raise(w)
              => /\ pc[w] = "create_email_address" /\ pc'[w] = "mint_verification"
                 /\ req'[w] = req[w]
         /\ MintVerification(w) \/ EnqueueFails(w)
              => /\ pc[w] = "mint_verification" /\ pc'[w] = "login" /\ req'[w] = req[w]
         /\ ConsumeLink(w)
              => /\ pc[w] = "consume" /\ pc'[w] = "save_email_address"
                 /\ req'[w] = req[w]
         /\ SavePassword(w)
              => /\ pc[w] = "save_password" /\ pc'[w] = "save_consumed"
                 /\ req'[w] = req[w]
         /\ CreateOauthAccount(w) /\ ~ Raise(w)
              => /\ pc[w] = "create_oauth_account" /\ pc'[w] = "login"
                 /\ req'[w] = req[w]
         /\ (\/ SaveEmailAddress(w) \/ MintReset(w) \/ SaveResetConsumed(w)
             \/ ExchangeFails(w) \/ SaveProfile(w) \/ Raise(w)
             \/ SignupLogin(w) \/ PasswordLogin(w) \/ GoogleLogin(w))
              => pc'[w] = "idle" /\ req'[w] = NoRequest
<1>1. CreateEmailAddress(w) /\ ~ Raise(w)
        => pc[w] = "create_email_address" /\ Goto(w, "mint_verification")
  BY Zenon DEF CreateEmailAddress
<1>2. MintVerification(w) \/ EnqueueFails(w)
        => pc[w] = "mint_verification" /\ Goto(w, "login")
  BY Zenon DEF MintVerification, EnqueueFails
<1>3. ConsumeLink(w) => pc[w] = "consume" /\ Goto(w, "save_email_address")
  BY Zenon DEF ConsumeLink
<1>4. SavePassword(w) => pc[w] = "save_password" /\ Goto(w, "save_consumed")
  BY Zenon DEF SavePassword
<1>5. CreateOauthAccount(w) /\ ~ Raise(w)
        => pc[w] = "create_oauth_account" /\ Goto(w, "login")
  BY Zenon DEF CreateOauthAccount
<1>6. (\/ SaveEmailAddress(w) \/ MintReset(w) \/ SaveResetConsumed(w)
       \/ ExchangeFails(w) \/ SaveProfile(w) \/ Raise(w))
        => Finish(w)
  BY Zenon DEF SaveEmailAddress, MintReset, SaveResetConsumed, ExchangeFails, SaveProfile,
               Raise
<1>7. SignupLogin(w) \/ PasswordLogin(w) \/ GoogleLogin(w) => Finish(w)
  BY Zenon DEF SignupLogin, PasswordLogin, GoogleLogin, OpenSession
<1>. QED
  BY <1>1, <1>2, <1>3, <1>4, <1>5, <1>6, <1>7, Moves

LEMMA WorkersNext == BaseOK /\ [Next]_vars => WorkersOK'
<1>. SUFFICES ASSUME BaseOK, [Next]_vars PROVE WorkersOK'
  OBVIOUS
<1>0. /\ last' >= last /\ issued' >= issued
      /\ last \in Nat /\ last' \in Nat /\ issued \in Nat /\ issued' \in Nat
  BY Grow, UsersNext, LinksNext, DjangoConstants DEF BaseOK, UsersOK, LinksOK
<1>a. ASSUME NEW p, NEW r, RequestOK(p, r, last, issued)
      PROVE  RequestOK(p, r, last', issued')
  BY <1>0, <1>a, DjangoConstants DEF RequestOK, Request
<1>1. CASE UNCHANGED <<pc, req>>
  BY <1>1, <1>a DEF BaseOK, WorkersOK
<1>2. ASSUME NEW b \in Browser, Logout(b) \/ NotAuthenticated(b) \/ GoogleStart(b)
      PROVE  WorkersOK'
  BY <1>1, <1>2, BrowserKeeps DEF workerVars
<1>3. ASSUME NEW w \in Worker, Step(w) PROVE WorkersOK'
  <2>. DEFINE Good == RequestOK(pc'[w], req'[w], last', issued')
  <2>h. /\ req[w].user \in 0..last /\ req[w].tok \in 0..issued
        /\ RequestOK(pc[w], req[w], last', issued')
        /\ req[w].user \in Nat /\ req[w].tok \in Nat
    BY <1>a, Held DEF BaseOK, WorkersOK
  <2>1. SUFFICES Good
    <3>1. PICK p, r : pc' = [pc EXCEPT ![w] = p] /\ req' = [req EXCEPT ![w] = r]
      BY <1>3, OneStep
    <3>2. pc'[w] \in PC /\ req'[w] \in Request
      BY <2>1 DEF RequestOK
    <3>3. pc' \in [Worker -> PC] /\ req' \in [Worker -> Request]
      BY <3>1, <3>2 DEF BaseOK, WorkersOK
    <3>4. ASSUME NEW v \in Worker, v # w PROVE RequestOK(pc'[v], req'[v], last', issued')
      BY <1>3, <1>a, <3>4, OthersKept DEF BaseOK, WorkersOK
    <3>. HIDE DEF Good
    <3>5. ASSUME NEW v \in Worker PROVE RequestOK(pc'[v], req'[v], last', issued')
      BY <2>1, <3>4 DEF Good
    <3>. QED
      BY <3>3, <3>5 DEF WorkersOK
  <2>2. CASE pc'[w] = "idle" /\ req'[w] = NoRequest
    <3>1. NoRequest \in Request
      <4>1. /\ 0 \in 0..MaxUsers /\ 0 \in 0..MaxLinks /\ 0 \in 0..MaxPasswords
            /\ "none" \in Op /\ Empty \in Text
        BY DjangoConstants DEF Op
      <4>. QED
        BY <4>1 DEF NoRequest, Request
    <3>2. NoRequest.user = 0 /\ NoRequest.tok = 0
      BY DEF NoRequest
    <3>. QED
      BY <1>0, <2>2, <3>1, <3>2 DEF RequestOK, PC
  <2>3. CASE Arrive(w)
    <3>1. ASSUME NEW b \in Browser, NEW n \in Username, NEW e \in Email, Signup(w, b, n, e)
          PROVE  Good
      BY <1>0, <3>1, SignupMoves DEF RequestOK, PC
    <3>2. ASSUME NEW b \in Browser, NEW u \in 1..last, Login(w, b, u) PROVE Good
      BY <1>0, <3>2, LoginMoves DEF RequestOK, PC
    <3>3. ASSUME NEW b \in Browser, NEW u \in 1..last, NEW t \in Text, NEW n \in BOOLEAN,
                 EditProfile(w, b, u, t, n)
          PROVE  Good
      BY <1>0, <3>3, EditMoves DEF RequestOK, PC
    <3>4. ASSUME NEW b \in Browser, GoogleCallback(w, b) PROVE Good
      BY <1>0, <3>4, CallbackMoves DEF RequestOK, PC
    <3>5. ASSUME NEW k \in 1..issued, VerifyEmail(w, k) PROVE Good
      BY <1>0, <3>5, LinkMoves DEF RequestOK, PC
    <3>6. ASSUME NEW k \in 1..issued, ResetPassword(w, k) PROVE Good
      <4>1. linkUser[k] \in 1..last
        BY DjangoConstants DEF BaseOK, LinksOK, UsersOK, Link
      <4>. QED
        BY <1>0, <3>6, <4>1, LinkMoves DEF RequestOK, PC
    <3>7. ASSUME NEW e \in Email, ForgotPassword(w, e) PROVE Good
      BY <1>0, <3>7, ForgotMoves DEF RequestOK, PC
    <3>. HIDE DEF Good
    <3>. QED
      BY <2>3, <3>1, <3>2, <3>3, <3>4, <3>5, <3>6, <3>7, Zenon DEF Arrive
  <2>4. CASE (CreateUser(w) \/ CreateGoogleUser(w)) /\ ~ Raise(w)
    <3>1. /\ last + 1 = last' /\ req'[w] \in Request /\ req'[w].user = last + 1
          /\ req'[w].op = req[w].op /\ req'[w].addr = req[w].addr
          /\ req'[w].sub = req[w].sub /\ req'[w].tok = req[w].tok
          /\ \/ pc[w] = "create_user" /\ pc'[w] = "create_email_address"
             \/ pc[w] = "create_google_user" /\ pc'[w] = "save_user"
      BY <2>4, CreateMoves DEF InsertUser
    <3>. QED
      BY <1>0, <2>h, <3>1 DEF RequestOK, PC
  <2>5. ASSUME NEW s \in Sub, NEW e \in Email, Exchange(w, s, e) PROVE Good
    <3>1. /\ req'[w] \in Request /\ req'[w].op = req[w].op /\ req'[w].tok = req[w].tok
          /\ req'[w].sub = s /\ req'[w].addr = e /\ pc[w] = "exchange"
          /\ \/ pc'[w] = "login" /\ oauth[s] # 0 /\ req'[w].user = oauth[s]
             \/ pc'[w] = "create_oauth_account" /\ req'[w].user \in 1..last
             \/ pc'[w] = "create_google_user" /\ req'[w].user = req[w].user
      BY <2>5, ExchangeMoves
    <3>2. oauth[s] \in 0..last
      BY DEF BaseOK, RowsOK
    <3>3. CASE pc'[w] = "login" /\ oauth[s] # 0 /\ req'[w].user = oauth[s]
      BY <1>0, <2>h, <3>1, <3>2, <3>3 DEF RequestOK, PC
    <3>4. req[w].op = "google"
      BY <2>h, <3>1 DEF RequestOK
    <3>5. CASE pc'[w] = "create_oauth_account" /\ req'[w].user \in 1..last
      BY <1>0, <2>h, <3>1, <3>4, <3>5 DEF RequestOK, PC
    <3>6. CASE pc'[w] = "create_google_user" /\ req'[w].user = req[w].user
      BY <1>0, <2>h, <3>1, <3>4, <3>6 DEF RequestOK, PC
    <3>. QED
      BY <3>1, <3>3, <3>5, <3>6
  <2>6. CASE SaveGoogleUser(w)
    BY <1>0, <2>h, <2>6, SaveMoves DEF RequestOK, PC
  <2>7. CASE /\ req'[w] = req[w]
             /\ \/ pc[w] = "create_email_address" /\ pc'[w] = "mint_verification"
                \/ pc[w] = "mint_verification" /\ pc'[w] = "login"
                \/ pc[w] = "consume" /\ pc'[w] = "save_email_address"
                \/ pc[w] = "save_password" /\ pc'[w] = "save_consumed"
                \/ pc[w] = "create_oauth_account" /\ pc'[w] = "login"
    BY <2>h, <2>7 DEF RequestOK, PC
  <2>8. CASE Raise(w) \/ Fail(w)
    BY <2>2, <2>8, HandleMoves DEF Fail
  <2>. HIDE DEF Good
  <2>9. CASE \/ CreateEmailAddress(w) \/ MintVerification(w) \/ EnqueueFails(w)
             \/ ConsumeLink(w) \/ SavePassword(w) \/ CreateOauthAccount(w)
    BY <2>7, <2>8, <2>9, HandleMoves
  <2>10. CASE \/ SaveEmailAddress(w) \/ MintReset(w) \/ SaveResetConsumed(w)
              \/ ExchangeFails(w) \/ SaveProfile(w)
              \/ SignupLogin(w) \/ PasswordLogin(w) \/ GoogleLogin(w)
    BY <2>2, <2>10, HandleMoves
  <2>. QED
    BY <1>3, <2>3, <2>4, <2>5, <2>6, <2>8, <2>9, <2>10, Zenon DEF Step, Handle
<1>4. CASE UNCHANGED vars
  BY <1>1, <1>4 DEF vars, workerVars
<1>. QED
  BY <1>2, <1>3, <1>4, Zenon DEF Next, Step

LEMMA BaseInit == Init => BaseOK
<1>. SUFFICES ASSUME Init PROVE BaseOK
  OBVIOUS
<1>0. /\ 0 \in 0..MaxUsers /\ 0 \in 0..MaxLinks /\ 0 \in 0..MaxPasswords
      /\ 0 \in 0..MaxRequests /\ "none" \in Op /\ Empty \in Text
  BY DjangoConstants DEF Op
<1>1. UsersOK
  BY <1>0, DjangoConstants DEF Init, UsersOK, User
<1>2. LinksOK
  BY <1>0, DjangoConstants DEF Init, LinksOK, Link, Purpose
<1>3. RowsOK
  BY <1>0 DEF Init, RowsOK, NoSession
<1>4. NoRequest \in Request /\ NoRequest.user = 0 /\ NoRequest.tok = 0
  BY <1>0 DEF NoRequest, Request
<1>5. WorkersOK
  BY <1>0, <1>4 DEF Init, WorkersOK, RequestOK, PC
<1>. QED
  BY <1>1, <1>2, <1>3, <1>5 DEF BaseOK

LEMMA BaseNext == BaseOK /\ [Next]_vars => BaseOK'
BY UsersNext, LinksNext, RowsNext, WorkersNext DEF BaseOK

(* The tables and the views keep their types: the account a view has       *)
(* looked up or created is there, and so is the link.                      *)
THEOREM TypeCorrect == Spec => []TypeOK
BY BaseInit, BaseNext, BaseTypes, PTL DEF Spec

-----------------------------------------------------------------------------
(* What a step writes.                                                     *)

Quiet(w) ==
  /\ UNCHANGED <<userVars, addressVars, linkVars, oauthVars, profileVars, raced, used>>
  /\ outran' \in {outran, outran \ {w}}
  /\ broken' \in {broken, broken \cup {req[w].tok}}

LEMMA QuietOrWrites ==
  ASSUME BaseOK, NEW w \in Worker, Step(w)
  PROVE  \/ Quiet(w)
         \/ (CreateUser(w) \/ CreateGoogleUser(w)) /\ ~ Raise(w)
         \/ CreateEmailAddress(w) /\ ~ Raise(w)
         \/ MintVerification(w) \/ MintReset(w)
         \/ ConsumeLink(w) \/ SaveResetConsumed(w)
         \/ SaveEmailAddress(w) \/ SavePassword(w) \/ SaveGoogleUser(w)
         \/ CreateOauthAccount(w) /\ ~ Raise(w)
         \/ SaveProfile(w)
<1>1. ASSUME Raise(w), UNCHANGED <<userVars, addressVars, linkVars, oauthVars, profileVars>>
      PROVE  Quiet(w)
  BY <1>1 DEF Raise, Quiet
<1>2. Arrive(w) => Quiet(w)
  BY ArriveKeeps DEF Quiet, historyVars
<1>3. EnqueueFails(w) \/ ExchangeFails(w) => Quiet(w)
  BY DEF EnqueueFails, ExchangeFails, Quiet, historyVars
<1>4. SignupLogin(w) \/ PasswordLogin(w) \/ GoogleLogin(w) => Quiet(w)
  BY DEF SignupLogin, PasswordLogin, GoogleLogin, OpenSession, Quiet
<1>5. ASSUME NEW s \in Sub, NEW e \in Email, Exchange(w, s, e) PROVE Quiet(w)
  BY <1>5 DEF Exchange, Quiet, historyVars
<1>6. Fail(w) => Quiet(w)
  BY <1>1 DEF Fail
<1>7. (CreateUser(w) \/ CreateGoogleUser(w)) /\ Raise(w) => Quiet(w)
  <2>1. ASSUME CreateUser(w) \/ CreateGoogleUser(w), Raise(w) PROVE UNCHANGED userVars
    <3>1. pc'[w] = "idle"
      BY <2>1, HandleMoves
    <3>2. GotoWith(w, "create_email_address", [req[w] EXCEPT !.user = last + 1])
            \/ GotoWith(w, "save_user", [req[w] EXCEPT !.user = last + 1])
            => pc'[w] # "idle"
      BY Moves
    <3>3. \/ UNCHANGED userVars
          \/ GotoWith(w, "create_email_address", [req[w] EXCEPT !.user = last + 1])
          \/ GotoWith(w, "save_user", [req[w] EXCEPT !.user = last + 1])
      BY <2>1, Zenon DEF CreateUser, CreateGoogleUser
    <3>. QED
      BY <3>1, <3>2, <3>3
  <2>. QED
    BY <1>1, <2>1, Inserts
<1>8. CreateEmailAddress(w) /\ Raise(w) => Quiet(w)
  <2>1. ASSUME CreateEmailAddress(w), Raise(w) PROVE UNCHANGED <<addrUser>>
    <3>1. pc'[w] = "idle" /\ (Goto(w, "mint_verification") => pc'[w] # "idle")
      BY <2>1, HandleMoves, Moves
    <3>. QED
      BY <2>1, <3>1 DEF CreateEmailAddress
  <2>. QED
    BY <1>1, <2>1 DEF CreateEmailAddress, addressVars
<1>9. CreateOauthAccount(w) /\ Raise(w) => Quiet(w)
  <2>1. ASSUME CreateOauthAccount(w), Raise(w) PROVE UNCHANGED oauth
    <3>1. pc'[w] = "idle" /\ (Goto(w, "login") => pc'[w] # "idle")
      BY <2>1, HandleMoves, Moves
    <3>. QED
      BY <2>1, <3>1 DEF CreateOauthAccount
  <2>. QED
    BY <1>1, <2>1 DEF CreateOauthAccount, oauthVars
<1>. QED
  BY <1>2, <1>3, <1>4, <1>5, <1>6, <1>7, <1>8, <1>9, Zenon DEF Step, Handle

(* How each table is written.                                              *)
LEMMA Writes ==
  ASSUME BaseOK, NEW w \in Worker, Step(w)
  PROVE  /\ \/ UNCHANGED <<last, email, raced>>
            \/ (CreateUser(w) \/ CreateGoogleUser(w)) /\ ~ Raise(w)
         /\ \/ UNCHANGED addrUser
            \/ CreateEmailAddress(w) /\ ~ Raise(w)
         /\ \/ UNCHANGED verified
            \/ SaveEmailAddress(w)
         /\ \/ UNCHANGED <<issued, linkUser, linkPurpose>>
            \/ MintVerification(w)
            \/ MintReset(w)
         /\ \/ UNCHANGED consumed
            \/ ConsumeLink(w)
            \/ SaveResetConsumed(w)
         /\ \/ UNCHANGED used
            \/ SavePassword(w)
         /\ \/ UNCHANGED oauth
            \/ CreateOauthAccount(w) /\ ~ Raise(w)
         /\ \/ UNCHANGED profile
            \/ SaveProfile(w)
         /\ broken \subseteq broken'
         /\ outran \ {w} \subseteq outran'
<1>. USE DEF userVars, addressVars, linkVars, oauthVars, profileVars, historyVars
<1>1. CASE Quiet(w)
  BY <1>1 DEF Quiet
<1>2. CASE (CreateUser(w) \/ CreateGoogleUser(w)) /\ ~ Raise(w)
  <2>1. InsertUser(w, 1) /\ UNCHANGED <<used, broken>>
    BY <1>2, Inserts
  <2>. QED
    BY <1>2, <2>1, Inserts DEF InsertUser
<1>3. CASE CreateEmailAddress(w) /\ ~ Raise(w)
  BY <1>3 DEF CreateEmailAddress
<1>4. CASE MintVerification(w) \/ MintReset(w)
  BY <1>4 DEF MintVerification, MintReset, MintLink
<1>5. CASE ConsumeLink(w) \/ SaveResetConsumed(w)
  BY <1>5 DEF ConsumeLink, SaveResetConsumed, SaveConsumed
<1>6. CASE SaveEmailAddress(w)
  BY <1>6 DEF SaveEmailAddress
<1>7. CASE SavePassword(w) \/ SaveGoogleUser(w)
  BY <1>7 DEF SavePassword, SaveGoogleUser
<1>8. CASE CreateOauthAccount(w) /\ ~ Raise(w)
  BY <1>8 DEF CreateOauthAccount
<1>9. CASE SaveProfile(w)
  BY <1>9 DEF SaveProfile
<1>. QED
  BY <1>1, <1>2, <1>3, <1>4, <1>5, <1>6, <1>7, <1>8, <1>9, QuietOrWrites

(* What is written once stays: an account's address, a link's account and  *)
(* purpose, the account of an address's row and of a Google account.       *)
LEMMA Stable ==
  ASSUME BaseOK, NEW w \in Worker, Step(w)
  PROVE  /\ \A u \in 1..last : email'[u] = email[u]
         /\ \A k \in 1..issued : linkUser'[k] = linkUser[k] /\ linkPurpose'[k] = linkPurpose[k]
         /\ \A e \in Email : addrUser[e] # 0 => addrUser'[e] = addrUser[e]
         /\ \A s \in Sub : oauth[s] # 0 => oauth'[s] = oauth[s]
<1>0. /\ last \in Nat /\ issued \in Nat /\ MaxUsers \in Nat /\ MaxLinks \in Nat
      /\ last <= MaxUsers /\ issued <= MaxLinks
      /\ email \in [1..MaxUsers -> Email \cup {NoEmail}]
      /\ linkUser \in [1..MaxLinks -> 0..last] /\ linkPurpose \in [1..MaxLinks -> Purpose]
      /\ addrUser \in [Email -> 0..last] /\ oauth \in [Sub -> 0..last]
  BY DjangoConstants DEF BaseOK, UsersOK, LinksOK, RowsOK, User, Link
<1>1. ASSUME NEW u \in 1..last PROVE email'[u] = email[u]
  <2>1. CASE (CreateUser(w) \/ CreateGoogleUser(w)) /\ ~ Raise(w)
    <3>1. email' = [email EXCEPT ![last + 1] = req[w].addr]
      BY <2>1, CreateMoves DEF InsertUser
    <3>. QED
      BY <1>0, <3>1
  <2>. QED
    BY <2>1, Writes
<1>2. ASSUME NEW k \in 1..issued
      PROVE  linkUser'[k] = linkUser[k] /\ linkPurpose'[k] = linkPurpose[k]
  <2>1. CASE MintVerification(w) \/ MintReset(w)
    <3>1. /\ linkUser' = [linkUser EXCEPT ![issued + 1] = req[w].user]
          /\ \E p : linkPurpose' = [linkPurpose EXCEPT ![issued + 1] = p]
      BY <2>1 DEF MintVerification, MintReset, MintLink
    <3>. QED
      BY <1>0, <3>1
  <2>. QED
    BY <2>1, Writes
<1>3. ASSUME NEW e \in Email, addrUser[e] # 0 PROVE addrUser'[e] = addrUser[e]
  <2>1. CASE CreateEmailAddress(w) /\ ~ Raise(w)
    <3>1. /\ addrUser[req[w].addr] \in {0, req[w].user}
          /\ addrUser' = [addrUser EXCEPT ![req[w].addr] = req[w].user]
      BY <2>1 DEF CreateEmailAddress
    <3>. QED
      BY <1>0, <1>3, <3>1
  <2>. QED
    BY <2>1, Writes
<1>4. ASSUME NEW s \in Sub, oauth[s] # 0 PROVE oauth'[s] = oauth[s]
  <2>1. CASE CreateOauthAccount(w) /\ ~ Raise(w)
    <3>1. oauth[req[w].sub] = 0 /\ oauth' = [oauth EXCEPT ![req[w].sub] = req[w].user]
      BY <2>1 DEF CreateOauthAccount
    <3>. QED
      BY <1>0, <1>4, <3>1
  <2>. QED
    BY <2>1, Writes
<1>. QED
  BY <1>1, <1>2, <1>3, <1>4

(* The steps that lead to a statement.                                     *)
LEMMA Enters ==
  ASSUME BaseOK, NEW w \in Worker, Step(w)
  PROVE  /\ pc'[w] = "create_email_address" => CreateUser(w) /\ ~ Raise(w)
         /\ pc'[w] = "mint_verification" => CreateEmailAddress(w) /\ ~ Raise(w)
         /\ pc'[w] = "save_password" => \E k \in 1..issued : ResetPassword(w, k)
         /\ pc'[w] = "save_consumed" => SavePassword(w)
         /\ pc'[w] = "save_email_address" => ConsumeLink(w)
         /\ pc'[w] = "save_profile" =>
              \E b \in Browser, u \in 1..last, t \in Text, n \in BOOLEAN :
                EditProfile(w, b, u, t, n)
         /\ pc'[w] \in {"create_user", "create_google_user"} =>
              \/ \E b \in Browser, n \in Username, e \in Email : Signup(w, b, n, e)
              \/ \E s \in Sub, e \in Email : Exchange(w, s, e)
         /\ pc'[w] = "login" /\ req'[w].op = "google" =>
              \/ \E s \in Sub, e \in Email : Exchange(w, s, e)
              \/ CreateOauthAccount(w) /\ ~ Raise(w)
<1>1. ASSUME NEW b \in Browser, NEW n \in Username, NEW e \in Email, Signup(w, b, n, e)
      PROVE  pc'[w] = "create_user"
  BY <1>1, SignupMoves
<1>2. ASSUME NEW b \in Browser, NEW u \in 1..last, Login(w, b, u)
      PROVE  pc'[w] = "login" /\ req'[w].op = "login"
  BY <1>2, LoginMoves
<1>3. ASSUME NEW b \in Browser, NEW u \in 1..last, NEW t \in Text, NEW n \in BOOLEAN,
             EditProfile(w, b, u, t, n)
      PROVE  pc'[w] = "save_profile"
  BY <1>3, EditMoves
<1>4. ASSUME NEW b \in Browser, GoogleCallback(w, b) PROVE pc'[w] = "exchange"
  BY <1>4, CallbackMoves
<1>5. ASSUME NEW k \in 1..issued, VerifyEmail(w, k) PROVE pc'[w] = "consume"
  BY <1>5, LinkMoves
<1>6. ASSUME NEW k \in 1..issued, ResetPassword(w, k) PROVE pc'[w] = "save_password"
  BY <1>6, LinkMoves
<1>7. ASSUME NEW e \in Email, ForgotPassword(w, e) PROVE pc'[w] = "mint_reset"
  BY <1>7, ForgotMoves
<1>8. ASSUME NEW s \in Sub, NEW e \in Email, Exchange(w, s, e)
      PROVE  pc'[w] \in {"login", "create_oauth_account", "create_google_user"}
  BY <1>8, ExchangeMoves
<1>9. ASSUME CreateUser(w) \/ CreateGoogleUser(w), ~ Raise(w)
      PROVE  \/ CreateUser(w) /\ pc'[w] = "create_email_address"
             \/ pc'[w] = "save_user"
  BY <1>9, CreateMoves
<1>10. SaveGoogleUser(w) => pc'[w] = "create_oauth_account"
  BY SaveMoves
<1>11. MintVerification(w) \/ EnqueueFails(w) => pc'[w] = "login" /\ req'[w].op = "signup"
  <2>1. pc[w] = "mint_verification" => req[w].op = "signup"
    BY DEF BaseOK, WorkersOK, RequestOK
  <2>. QED
    BY <2>1, HandleMoves
<1>12. Fail(w) => Raise(w)
  BY DEF Fail
<1>. QED
  BY <1>1, <1>2, <1>3, <1>4, <1>5, <1>6, <1>7, <1>8, <1>9, <1>10, <1>11, <1>12, HandleMoves
  DEF Step, Arrive, Handle

-----------------------------------------------------------------------------
(* Verification links.                                                     *)

(* A verification link is for the account whose address's row it is, and   *)
(* so is the one a worker is about to mint; a worker about to set a        *)
(* password or to spend its link holds a reset link.                       *)
MailOK ==
  /\ \A k \in 1..issued :
       linkPurpose[k] = "email_verification" => addrUser[email[linkUser[k]]] = linkUser[k]
  /\ \A w \in Worker :
       /\ pc[w] \in {"create_email_address", "mint_verification"}
            => email[req[w].user] = req[w].addr
       /\ pc[w] = "mint_verification" => addrUser[req[w].addr] = req[w].user
       /\ pc[w] \in {"save_password", "save_consumed"}
            => linkPurpose[req[w].tok] = "password_reset"

LEMMA MailNext == BaseOK /\ MailOK /\ [Next]_vars => MailOK'
<1>. SUFFICES ASSUME BaseOK, MailOK, [Next]_vars PROVE MailOK'
  OBVIOUS
<1>1. CASE UNCHANGED <<userVars, addressVars, linkVars, pc, req>>
  BY <1>1 DEF MailOK, userVars, addressVars, linkVars
<1>2. ASSUME NEW b \in Browser, Logout(b) \/ NotAuthenticated(b) \/ GoogleStart(b)
      PROVE  MailOK'
  BY <1>1, <1>2, BrowserKeeps DEF workerVars
<1>3. ASSUME NEW w \in Worker, Step(w) PROVE MailOK'
  <2>0. /\ last \in Nat /\ issued \in Nat /\ issued \in 0..MaxLinks /\ MaxLinks \in Nat
        /\ linkUser \in [Link -> 0..last] /\ linkPurpose \in [Link -> Purpose]
        /\ \A k \in 1..issued : linkUser[k] \in 1..last
        /\ \A u \in 1..last : email[u] \in Email
    <3>1. \A u \in 1..last : u \in User /\ email[u] \in Email
      BY DjangoConstants DEF BaseOK, UsersOK, User
    <3>2. \A k \in 1..issued : k \in Link /\ linkUser[k] \in 1..last
      BY DjangoConstants DEF BaseOK, LinksOK, UsersOK, Link
    <3>. QED
      BY <3>1, <3>2, DjangoConstants DEF BaseOK, UsersOK, LinksOK
  <2>1. ASSUME NEW k \in 1..issued, linkPurpose'[k] = "email_verification"
        PROVE  addrUser'[email'[linkUser'[k]]] = linkUser'[k]
    <3>1. /\ linkPurpose[k] = "email_verification" /\ linkUser'[k] = linkUser[k]
          /\ linkUser[k] \in 1..last
      BY <1>3, <2>0, <2>1, Stable
    <3>2. email'[linkUser[k]] = email[linkUser[k]] /\ email[linkUser[k]] \in Email
      BY <1>3, <2>0, <3>1, Stable
    <3>3. addrUser[email[linkUser[k]]] = linkUser[k] /\ linkUser[k] # 0
      BY <2>0, <3>1 DEF MailOK
    <3>. QED
      BY <1>3, <3>1, <3>2, <3>3, Stable
  <2>2. ASSUME NEW k \in 1..issued', k \notin 1..issued, linkPurpose'[k] = "email_verification"
        PROVE  addrUser'[email'[linkUser'[k]]] = linkUser'[k]
    <3>1. MintVerification(w) \/ MintReset(w)
      BY <1>3, <2>2, Writes
    <3>2. issued < MaxLinks /\ k = issued + 1 /\ k \in Link
      BY <2>0, <2>2, <3>1 DEF MintVerification, MintReset, MintLink, Link
    <3>3. CASE MintReset(w)
      <4>1. linkPurpose' = [linkPurpose EXCEPT ![issued + 1] = "password_reset"]
        BY <3>3 DEF MintReset, MintLink
      <4>. QED
        BY <2>0, <2>2, <3>2, <4>1
    <3>4. CASE MintVerification(w)
      <4>1. /\ linkUser' = [linkUser EXCEPT ![issued + 1] = req[w].user]
            /\ UNCHANGED <<email, addrUser>> /\ pc[w] = "mint_verification"
        BY <3>4 DEF MintVerification, MintLink, userVars, addressVars
      <4>2. linkUser'[k] = req[w].user
        BY <2>0, <3>2, <4>1
      <4>. QED
        BY <4>1, <4>2 DEF MailOK
    <3>. QED
      BY <3>1, <3>3, <3>4
  <2>3. ASSUME NEW v \in Worker, v # w
        PROVE  /\ pc'[v] \in {"create_email_address", "mint_verification"}
                    => email'[req'[v].user] = req'[v].addr
               /\ pc'[v] = "mint_verification" => addrUser'[req'[v].addr] = req'[v].user
               /\ pc'[v] \in {"save_password", "save_consumed"}
                    => linkPurpose'[req'[v].tok] = "password_reset"
    <3>1. pc'[v] = pc[v] /\ req'[v] = req[v]
      BY <1>3, <2>3, OthersKept
    <3>2. ASSUME pc[v] \in {"create_email_address", "mint_verification"}
          PROVE  email'[req[v].user] = req[v].addr
      BY <1>3, <3>2, Held, Stable DEF MailOK
    <3>3. ASSUME pc[v] = "mint_verification" PROVE addrUser'[req[v].addr] = req[v].user
      <4>1. req[v].addr \in Email /\ req[v].user # 0 /\ addrUser[req[v].addr] = req[v].user
        BY <3>3 DEF MailOK, BaseOK, WorkersOK, RequestOK
      <4>. QED
        BY <1>3, <4>1, Stable
    <3>4. ASSUME pc[v] \in {"save_password", "save_consumed"}
          PROVE  linkPurpose'[req[v].tok] = "password_reset"
      BY <1>3, <3>4, Held, Stable DEF MailOK
    <3>. QED
      BY <3>1, <3>2, <3>3, <3>4
  <2>4. ASSUME pc'[w] = "create_email_address" PROVE email'[req'[w].user] = req'[w].addr
    <3>1. /\ InsertUser(w, 1) /\ req'[w].user = last + 1 /\ req'[w].addr = req[w].addr
      BY <1>3, <2>4, Enters, CreateMoves
    <3>. QED
      BY <3>1, DjangoConstants DEF InsertUser, BaseOK, UsersOK, User
  <2>5. ASSUME pc'[w] = "mint_verification"
        PROVE  /\ email'[req'[w].user] = req'[w].addr
               /\ addrUser'[req'[w].addr] = req'[w].user
    <3>1. CreateEmailAddress(w) /\ ~ Raise(w)
      BY <1>3, <2>5, Enters
    <3>2. pc[w] = "create_email_address" /\ req'[w] = req[w]
      BY <3>1, HandleMoves
    <3>3. /\ addrUser' = [addrUser EXCEPT ![req[w].addr] = req[w].user]
          /\ email' = email
      BY <3>1 DEF CreateEmailAddress, userVars
    <3>4. req[w].addr \in Email /\ addrUser \in [Email -> 0..last]
      BY <3>2 DEF BaseOK, WorkersOK, RequestOK, RowsOK
    <3>. QED
      BY <3>2, <3>3, <3>4 DEF MailOK
  <2>6. ASSUME pc'[w] \in {"save_password", "save_consumed"}
        PROVE  linkPurpose'[req'[w].tok] = "password_reset"
    <3>1. ASSUME NEW k \in 1..issued, ResetPassword(w, k)
          PROVE  linkPurpose'[req'[w].tok] = "password_reset"
      <4>1. req'[w].tok = k /\ linkPurpose[k] = "password_reset"
        BY <3>1, LinkMoves DEF ResetPassword, Valid
      <4>. QED
        BY <1>3, <4>1, Stable
    <3>2. CASE SavePassword(w)
      <4>1. req'[w] = req[w] /\ pc[w] = "save_password"
        BY <3>2, HandleMoves
      <4>. QED
        BY <1>3, <4>1, Held, Stable DEF MailOK
    <3>. QED
      BY <1>3, <2>6, <3>1, <3>2, Enters
  <2>. QED
    BY <2>1, <2>2, <2>3, <2>4, <2>5, <2>6, Zenon DEF MailOK
<1>4. CASE UNCHANGED vars
  BY <1>1, <1>4 DEF vars, workerVars
<1>. QED
  BY <1>2, <1>3, <1>4, Zenon DEF Next, Step

LEMMA SpentNext ==
  BaseOK /\ MailOK /\ SpentLinksVerify /\ [Next]_vars => SpentLinksVerify'
<1>. SUFFICES ASSUME BaseOK, MailOK, SpentLinksVerify, [Next]_vars PROVE SpentLinksVerify'
  OBVIOUS
<1>1. CASE UNCHANGED <<userVars, addressVars, linkVars, broken, pc, req>>
  BY <1>1 DEF SpentLinksVerify, userVars, addressVars, linkVars
<1>2. ASSUME NEW b \in Browser, Logout(b) \/ NotAuthenticated(b) \/ GoogleStart(b)
      PROVE  SpentLinksVerify'
  BY <1>1, <1>2, BrowserKeeps DEF workerVars, historyVars
<1>3. ASSUME NEW w \in Worker, Step(w) PROVE SpentLinksVerify'
  <2>. SUFFICES ASSUME NEW k \in consumed', linkPurpose'[k] = "email_verification"
                PROVE  \/ /\ email'[linkUser'[k]] \in verified'
                          /\ addrUser'[email'[linkUser'[k]]] = linkUser'[k]
                       \/ k \in broken'
                       \/ \E v \in Worker : pc'[v] = "save_email_address" /\ req'[v].tok = k
    BY DEF SpentLinksVerify
  <2>1. CASE k \notin consumed
    <3>1. (ConsumeLink(w) \/ SaveResetConsumed(w)) /\ k = req[w].tok
      BY <1>3, <2>1, Writes DEF ConsumeLink, SaveResetConsumed, SaveConsumed
    <3>2. CASE ConsumeLink(w)
      BY <3>1, <3>2, HandleMoves
    <3>3. CASE SaveResetConsumed(w)
      <4>1. pc[w] = "save_consumed"
        BY <3>3 DEF SaveResetConsumed
      <4>. QED
        BY <1>3, <3>1, <4>1, Held, Stable DEF MailOK
    <3>. QED
      BY <3>1, <3>2, <3>3
  <2>2. CASE k \in consumed
    <3>0. /\ k \in 1..issued /\ linkUser'[k] = linkUser[k]
          /\ linkPurpose[k] = "email_verification"
      BY <1>3, <2>2, Stable DEF BaseOK, LinksOK
    <3>1. /\ linkUser[k] \in 1..last /\ email'[linkUser[k]] = email[linkUser[k]]
          /\ email[linkUser[k]] \in Email
      <4>1. linkUser[k] \in 1..last
        BY <3>0, DjangoConstants DEF BaseOK, LinksOK, UsersOK, Link
      <4>2. linkUser[k] \in User
        BY <4>1, DjangoConstants DEF BaseOK, UsersOK, User
      <4>. QED
        BY <1>3, <4>1, <4>2, Stable DEF BaseOK, UsersOK
    <3>2. /\ addrUser[email[linkUser[k]]] = linkUser[k] /\ linkUser[k] # 0
          /\ addrUser'[email[linkUser[k]]] = linkUser[k]
      <4>1. addrUser[email[linkUser[k]]] = linkUser[k]
        BY <3>0 DEF MailOK
      <4>. QED
        BY <1>3, <3>1, <4>1, Stable
    <3>3. verified \subseteq verified' /\ broken \subseteq broken'
      <4>1. verified \subseteq verified'
        BY <1>3, Writes DEF SaveEmailAddress
      <4>. QED
        BY <1>3, <4>1, Writes
    <3>4. CASE email[linkUser[k]] \in verified \/ k \in broken
      BY <3>0, <3>1, <3>2, <3>3, <3>4
    <3>5. ASSUME NEW v \in Worker, pc[v] = "save_email_address", req[v].tok = k
          PROVE  \/ email'[linkUser'[k]] \in verified'
                 \/ k \in broken'
                 \/ pc'[v] = "save_email_address" /\ req'[v].tok = k
      <4>1. CASE v # w
        BY <1>3, <3>5, <4>1, OthersKept
      <4>2. CASE v = w
        <5>1. SaveEmailAddress(w) \/ Raise(w)
          BY <1>3, <3>5, <4>2, ArriveKeeps
          DEF Step, Handle, Fail, Accept, CreateUser, CreateEmailAddress, MintVerification,
              EnqueueFails, SignupLogin, ConsumeLink, MintReset, SavePassword,
              SaveResetConsumed, PasswordLogin, Exchange, ExchangeFails, CreateGoogleUser,
              SaveGoogleUser, CreateOauthAccount, GoogleLogin, SaveProfile
        <5>2. CASE SaveEmailAddress(w)
          <6>1. verified' = IF addrUser[email[linkUser[k]]] = linkUser[k]
                            THEN verified \cup {email[linkUser[k]]} ELSE verified
            BY <3>5, <4>2, <5>2 DEF SaveEmailAddress
          <6>. QED
            BY <3>0, <3>1, <3>2, <6>1
        <5>3. CASE Raise(w)
          <6>1. req[w].tok # 0
            BY <3>0, <3>5, <4>2 DEF BaseOK, LinksOK
          <6>. QED
            BY <3>5, <4>2, <5>3, <6>1 DEF Raise
        <5>. QED
          BY <5>1, <5>2, <5>3
      <4>. QED
        BY <4>1, <4>2
    <3>. QED
      BY <2>2, <3>0, <3>1, <3>2, <3>4, <3>5 DEF SpentLinksVerify
  <2>. QED
    BY <2>1, <2>2
<1>4. CASE UNCHANGED vars
  BY <1>1, <1>4 DEF vars, workerVars, historyVars
<1>. QED
  BY <1>2, <1>3, <1>4, Zenon DEF Next, Step

LEMMA MailInit == Init => MailOK /\ SpentLinksVerify
BY DEF Init, MailOK, SpentLinksVerify

(* No verification link is spent in vain but by a handler that fails:      *)
(* consuming it and marking the address are two saves                      *)
(* (users/api_views.py:478-525, users/tokens.py:56-63).                    *)
THEOREM SpentLinksAreHonoured == Spec => []SpentLinksVerify
BY BaseInit, BaseNext, MailInit, MailNext, SpentNext, PTL DEF Spec

-----------------------------------------------------------------------------
(* Google sign-in.                                                         *)

LinkedOK ==
  \A w \in Worker :
    pc[w] = "login" /\ req[w].op = "google"
      => req[w].sub \in Sub /\ req[w].user # 0 /\ oauth[req[w].sub] = req[w].user

LEMMA LinkedNext == BaseOK /\ LinkedOK /\ [Next]_vars => LinkedOK'
<1>. SUFFICES ASSUME BaseOK, LinkedOK, NEW w \in Worker, Step(w) PROVE LinkedOK'
  <2>1. LinkedOK /\ UNCHANGED <<oauth, pc, req>> => LinkedOK'
    BY DEF LinkedOK
  <2>2. UNCHANGED vars => UNCHANGED <<oauth, pc, req>>
    BY DEF vars, oauthVars, workerVars
  <2>3. ASSUME NEW b \in Browser, Logout(b) \/ NotAuthenticated(b) \/ GoogleStart(b)
        PROVE  UNCHANGED <<oauth, pc, req>>
    BY <2>3, BrowserKeeps DEF oauthVars, workerVars
  <2>. QED
    BY <2>1, <2>2, <2>3, Zenon DEF Next, Step
<1>1. ASSUME NEW v \in Worker, v # w, pc'[v] = "login", req'[v].op = "google"
      PROVE  req'[v].sub \in Sub /\ req'[v].user # 0 /\ oauth'[req'[v].sub] = req'[v].user
  BY <1>1, OthersKept, Stable DEF LinkedOK
<1>2. ASSUME pc'[w] = "login", req'[w].op = "google"
      PROVE  req'[w].sub \in Sub /\ req'[w].user # 0 /\ oauth'[req'[w].sub] = req'[w].user
  <2>1. ASSUME NEW s \in Sub, NEW e \in Email, Exchange(w, s, e)
        PROVE  req'[w].sub \in Sub /\ req'[w].user # 0 /\ oauth'[req'[w].sub] = req'[w].user
    <3>1. req'[w].sub = s /\ oauth[s] # 0 /\ req'[w].user = oauth[s]
      BY <1>2, <2>1, ExchangeMoves
    <3>. QED
      BY <3>1, Stable
  <2>2. CASE CreateOauthAccount(w) /\ ~ Raise(w)
    <3>1. /\ pc[w] = "create_oauth_account" /\ req'[w] = req[w]
          /\ oauth' = [oauth EXCEPT ![req[w].sub] = req[w].user]
      BY <2>2, HandleMoves DEF CreateOauthAccount
    <3>2. req[w].sub \in Sub /\ req[w].user # 0 /\ oauth \in [Sub -> 0..last]
      BY <3>1 DEF BaseOK, WorkersOK, RequestOK, RowsOK
    <3>. QED
      BY <3>1, <3>2
  <2>. QED
    BY <1>2, <2>1, <2>2, Enters
<1>. QED
  BY <1>1, <1>2 DEF LinkedOK

(* A Google account opens sessions of the account it is linked to and of   *)
(* no other: the exception of a lost race ends the request                 *)
(* (users/api_views.py:238-299).                                           *)
THEOREM GoogleSignsInOneAccount == Spec => GoogleSignsInLinkedUser
<1>1. Init => LinkedOK
  BY DEF Init, LinkedOK
<1>2. BaseOK /\ LinkedOK /\ [Next]_vars =>
        [\A w \in Worker :
           GoogleLogin(w) => /\ oauth[req[w].sub] = req[w].user
                             /\ oauth' = oauth]_vars
  BY DEF LinkedOK, GoogleLogin, oauthVars
<1>. QED
  BY <1>1, <1>2, BaseInit, BaseNext, LinkedNext, PTL DEF Spec, GoogleSignsInLinkedUser

-----------------------------------------------------------------------------
(* The profile.                                                            *)

EditsOK ==
  \A w \in Worker \ outran :
    pc[w] = "save_profile" /\ ~ req[w].named => req[w].text = profile[req[w].user]

LEMMA EditsNext == BaseOK /\ EditsOK /\ [Next]_vars => EditsOK'
<1>. SUFFICES ASSUME BaseOK, EditsOK, NEW w \in Worker, Step(w) PROVE EditsOK'
  <2>1. EditsOK /\ UNCHANGED <<profile, outran, pc, req>> => EditsOK'
    BY DEF EditsOK
  <2>2. UNCHANGED vars => UNCHANGED <<profile, outran, pc, req>>
    BY DEF vars, profileVars, workerVars, historyVars
  <2>3. ASSUME NEW b \in Browser, Logout(b) \/ NotAuthenticated(b) \/ GoogleStart(b)
        PROVE  UNCHANGED <<profile, outran, pc, req>>
    BY <2>3, BrowserKeeps DEF profileVars, workerVars, historyVars
  <2>. QED
    BY <2>1, <2>2, <2>3, Zenon DEF Next, Step
<1>1. ASSUME NEW v \in Worker, v # w, v \notin outran', pc'[v] = "save_profile", ~ req'[v].named
      PROVE  req'[v].text = profile'[req'[v].user]
  <2>1. /\ pc[v] = "save_profile" /\ req'[v] = req[v] /\ v \notin outran
        /\ req[v].text = profile[req[v].user]
    BY <1>1, OthersKept, Writes DEF EditsOK
  <2>2. CASE SaveProfile(w)
    <3>1. /\ profile' = [profile EXCEPT ![req[w].user] = req[w].text]
          /\ v \notin Editing(req[w].user, w)
      BY <1>1, <2>2 DEF SaveProfile
    <3>2. req[v].user # req[w].user
      BY <1>1, <2>1, <3>1 DEF Editing
    <3>3. req[v].user \in 1..last
      BY <2>1, Held
    <3>4. req[v].user \in User
      BY <3>3, DjangoConstants DEF BaseOK, UsersOK, User
    <3>. QED
      BY <2>1, <3>1, <3>2, <3>4 DEF BaseOK, UsersOK
  <2>. QED
    BY <2>1, <2>2, Writes
<1>2. ASSUME pc'[w] = "save_profile", ~ req'[w].named
      PROVE  req'[w].text = profile'[req'[w].user]
  <2>1. PICK b \in Browser, u \in 1..last, t \in Text, n \in BOOLEAN : EditProfile(w, b, u, t, n)
    BY <1>2, Enters
  <2>2. profile' = profile
    BY <2>1 DEF EditProfile, profileVars
  <2>. QED
    BY <1>2, <2>1, <2>2, EditMoves
<1>. QED
  BY <1>1, <1>2 DEF EditsOK

(* A field that a PATCH does not name keeps its value, unless another      *)
(* PATCH was saved meanwhile: the view reads, changes and saves the row    *)
(* (users/api_views.py:718-747).                                           *)
THEOREM EditsAreLostToRacesOnly == Spec => OnlyOvertakenEditsAreLost
<1>1. Init => EditsOK
  BY DEF Init, EditsOK
<1>2. BaseOK /\ EditsOK /\ [Next]_vars =>
        [\A w \in Worker :
           SaveProfile(w) /\ ~ req[w].named /\ profile' # profile => w \in outran]_vars
  <2>. SUFFICES ASSUME BaseOK, EditsOK, NEW w \in Worker, SaveProfile(w), ~ req[w].named,
                       w \notin outran
                PROVE  profile' = profile
    OBVIOUS
  <2>1. /\ profile' = [profile EXCEPT ![req[w].user] = req[w].text]
        /\ req[w].text = profile[req[w].user]
    BY DEF SaveProfile, EditsOK
  <2>. QED
    BY <2>1 DEF BaseOK, UsersOK
<1>. QED
  BY <1>1, <1>2, BaseInit, BaseNext, EditsNext, PTL DEF Spec, OnlyOvertakenEditsAreLost

-----------------------------------------------------------------------------
(* Reset links.                                                            *)

ResetsOK ==
  /\ \A k \in used :
       k \in consumed \/ k \in broken
         \/ \E v \in Worker : pc[v] = "save_consumed" /\ req[v].tok = k
  /\ \A w \in Worker :
       pc[w] = "save_password" /\ req[w].tok \in consumed => w \in outran

LEMMA ResetsNext == BaseOK /\ ResetsOK /\ [Next]_vars => ResetsOK'
<1>. SUFFICES ASSUME BaseOK, ResetsOK, NEW w \in Worker, Step(w) PROVE ResetsOK'
  <2>1. ResetsOK /\ UNCHANGED <<used, consumed, broken, outran, pc, req>> => ResetsOK'
    BY DEF ResetsOK
  <2>2. UNCHANGED vars => UNCHANGED <<used, consumed, broken, outran, pc, req>>
    BY DEF vars, linkVars, workerVars, historyVars
  <2>3. ASSUME NEW b \in Browser, Logout(b) \/ NotAuthenticated(b) \/ GoogleStart(b)
        PROVE  UNCHANGED <<used, consumed, broken, outran, pc, req>>
    BY <2>3, BrowserKeeps DEF linkVars, workerVars, historyVars
  <2>. QED
    BY <2>1, <2>2, <2>3, Zenon DEF Next, Step
<1>0. consumed \subseteq consumed' /\ broken \subseteq broken'
  BY Writes DEF ConsumeLink, SaveResetConsumed, SaveConsumed
<1>1. ASSUME NEW k \in used'
      PROVE  k \in consumed' \/ k \in broken'
               \/ \E v \in Worker : pc'[v] = "save_consumed" /\ req'[v].tok = k
  <2>1. CASE k \notin used
    <3>1. SavePassword(w) /\ k = req[w].tok
      BY <1>1, <2>1, Writes DEF SavePassword
    <3>. QED
      BY <3>1, HandleMoves
  <2>2. ASSUME NEW v \in Worker, pc[v] = "save_consumed", req[v].tok = k, k \in used
        PROVE  \/ k \in consumed' \/ k \in broken'
               \/ pc'[v] = "save_consumed" /\ req'[v].tok = k
    <3>1. CASE v # w
      BY <2>2, <3>1, OthersKept
    <3>2. CASE v = w
      <4>1. SaveResetConsumed(w) \/ Raise(w)
        BY <2>2, <3>2, ArriveKeeps
        DEF Step, Handle, Fail, Accept, CreateUser, CreateEmailAddress, MintVerification,
            EnqueueFails, SignupLogin, ConsumeLink, SaveEmailAddress, MintReset, SavePassword,
            PasswordLogin, Exchange, ExchangeFails, CreateGoogleUser,
            SaveGoogleUser, CreateOauthAccount, GoogleLogin, SaveProfile
      <4>0. req[w].tok = k /\ k # 0
        BY <2>2, <3>2 DEF BaseOK, LinksOK
      <4>2. CASE SaveResetConsumed(w)
        <5>1. consumed' = consumed \cup {req[w].tok}
          BY <4>2 DEF SaveResetConsumed, SaveConsumed
        <5>. QED
          BY <4>0, <5>1
      <4>3. CASE Raise(w)
        <5>1. broken' = broken \cup {req[w].tok}
          BY <4>0, <4>3 DEF Raise
        <5>. QED
          BY <4>0, <5>1
      <4>. QED
        BY <4>1, <4>2, <4>3
    <3>. QED
      BY <3>1, <3>2
  <2>3. CASE k \in used
    BY <1>0, <2>2, <2>3 DEF ResetsOK
  <2>. QED
    BY <2>1, <2>3
<1>2. ASSUME NEW v \in Worker, pc'[v] = "save_password", req'[v].tok \in consumed'
      PROVE  v \in outran'
  <2>1. CASE v # w
    <3>1. pc[v] = "save_password" /\ req'[v] = req[v]
      BY <1>2, <2>1, OthersKept
    <3>2. CASE req[v].tok \in consumed
      BY <2>1, <3>1, <3>2, Writes DEF ResetsOK
    <3>3. CASE req[v].tok \notin consumed
      <4>1. /\ consumed' = consumed \cup {req[w].tok}
            /\ outran' = (outran \cup HoldingLink(req[w].tok, w)) \ {w}
        BY <1>2, <3>1, <3>3, Writes DEF ConsumeLink, SaveResetConsumed, SaveConsumed
      <4>. QED
        BY <1>2, <2>1, <3>1, <3>3, <4>1 DEF HoldingLink
    <3>. QED
      BY <3>2, <3>3
  <2>2. CASE v = w
    <3>1. PICK k \in 1..issued : ResetPassword(w, k)
      BY <1>2, <2>2, Enters
    <3>2. req'[w].tok = k /\ k \notin consumed /\ consumed' = consumed
      BY <3>1, LinkMoves DEF ResetPassword, Valid, linkVars
    <3>. QED
      BY <1>2, <2>2, <3>2
  <2>. QED
    BY <2>1, <2>2
<1>. QED
  BY <1>1, <1>2 DEF ResetsOK

(* A reset link sets a second password only when its two uses overlap or a *)
(* handler stopped between the password and consumed_at                    *)
(* (users/api_views.py:592-642).                                           *)
THEOREM ResetsRepeatInRacesOnly == Spec => OnlyOvertakenResetsRepeat
<1>1. Init => ResetsOK
  BY DEF Init, ResetsOK
<1>2. BaseOK /\ ResetsOK /\ [Next]_vars =>
        [\A w \in Worker :
           SavePassword(w) /\ req[w].tok \in used
             => \/ w \in outran \/ req[w].tok \in broken
                \/ \E v \in Worker : pc[v] = "save_consumed"
                                     /\ req[v].tok = req[w].tok]_vars
  BY DEF ResetsOK, SavePassword
<1>. QED
  BY <1>1, <1>2, BaseInit, BaseNext, ResetsNext, PTL DEF Spec, OnlyOvertakenResetsRepeat

-----------------------------------------------------------------------------
(* Addresses.                                                              *)

(* A worker about to insert an account finds its address still free, if    *)
(* nobody overtook it.                                                     *)
FreeOK ==
  /\ SharedAddressesAreRaced
  /\ \A w \in Worker \ outran :
       pc[w] \in {"create_user", "create_google_user"}
         => \A u \in 1..last : email[u] # req[w].addr

LEMMA FreeNext == BaseOK /\ FreeOK /\ [Next]_vars => FreeOK'
<1>. SUFFICES ASSUME BaseOK, FreeOK, NEW w \in Worker, Step(w) PROVE FreeOK'
  <2>1. FreeOK /\ UNCHANGED <<last, email, raced, outran, pc, req>> => FreeOK'
    BY DEF FreeOK, SharedAddressesAreRaced
  <2>2. UNCHANGED vars => UNCHANGED <<last, email, raced, outran, pc, req>>
    BY DEF vars, userVars, workerVars, historyVars
  <2>3. ASSUME NEW b \in Browser, Logout(b) \/ NotAuthenticated(b) \/ GoogleStart(b)
        PROVE  UNCHANGED <<last, email, raced, outran, pc, req>>
    BY <2>3, BrowserKeeps DEF userVars, workerVars, historyVars
  <2>. QED
    BY <2>1, <2>2, <2>3, Zenon DEF Next, Step
<1>0. /\ last \in Nat /\ MaxUsers \in Nat /\ last <= MaxUsers
      /\ email \in [1..MaxUsers -> Email \cup {NoEmail}]
  BY DjangoConstants DEF BaseOK, UsersOK, User
<1>1. CASE (CreateUser(w) \/ CreateGoogleUser(w)) /\ ~ Raise(w)
  <2>1. /\ InsertUser(w, 1) /\ last < MaxUsers /\ last' = last + 1
        /\ pc[w] \in {"create_user", "create_google_user"}
        /\ pc'[w] \notin {"create_user", "create_google_user"}
    BY <1>1, CreateMoves DEF InsertUser
  <2>2. /\ email'[last + 1] = req[w].addr
        /\ \A u \in 1..last : email'[u] = email[u]
        /\ raced \subseteq raced' /\ (w \in outran => last + 1 \in raced')
        /\ outran' = (outran \cup Inserting(req[w].addr, w)) \ {w}
    BY <1>0, <2>1 DEF InsertUser
  <2>3. ASSUME NEW u \in 1..last', NEW v \in 1..last', u < v, email'[u] = email'[v]
        PROVE  v \in raced'
    <3>1. CASE v = last + 1
      <4>1. u \in 1..last /\ email[u] = req[w].addr
        BY <1>0, <2>1, <2>2, <2>3, <3>1
      <4>2. w \in outran
        BY <2>1, <4>1 DEF FreeOK
      <4>. QED
        BY <2>2, <3>1, <4>2
    <3>2. CASE v # last + 1
      <4>1. u \in 1..last /\ v \in 1..last /\ email[u] = email[v]
        BY <1>0, <2>1, <2>2, <2>3, <3>2
      <4>. QED
        BY <2>2, <2>3, <4>1 DEF FreeOK, SharedAddressesAreRaced
    <3>. QED
      BY <3>1, <3>2
  <2>4. ASSUME NEW v \in Worker \ outran', pc'[v] \in {"create_user", "create_google_user"},
               NEW u \in 1..last'
        PROVE  email'[u] # req'[v].addr
    <3>1. v # w
      BY <2>1, <2>4
    <3>2. pc[v] = pc'[v] /\ req'[v] = req[v]
      BY <3>1, OthersKept
    <3>3. v \notin outran /\ req[v].addr # req[w].addr
      BY <2>2, <2>4, <3>1, <3>2 DEF Inserting
    <3>4. CASE u = last + 1
      BY <2>2, <3>2, <3>3, <3>4
    <3>5. CASE u # last + 1
      <4>1. u \in 1..last
        BY <1>0, <2>1, <3>5
      <4>. QED
        BY <2>2, <2>4, <3>2, <3>3, <4>1 DEF FreeOK
    <3>. QED
      BY <3>4, <3>5
  <2>. QED
    BY <2>3, <2>4 DEF FreeOK, SharedAddressesAreRaced
<1>2. CASE UNCHANGED <<last, email, raced>>
  <2>1. SharedAddressesAreRaced'
    BY <1>2 DEF FreeOK, SharedAddressesAreRaced
  <2>2. ASSUME NEW v \in Worker \ outran', pc'[v] \in {"create_user", "create_google_user"}
        PROVE  \A u \in 1..last : email[u] # req'[v].addr
    <3>1. CASE v # w
      BY <2>2, <3>1, OthersKept, Writes DEF FreeOK
    <3>2. CASE v = w
      <4>1. ASSUME NEW b \in Browser, NEW n \in Username, NEW e \in Email, Signup(w, b, n, e)
            PROVE  Owners(req'[w].addr) = {}
        <5>1. Owners(e) = {}
          BY <4>1, Zenon DEF Signup
        <5>2. req'[w].addr = e
          BY <4>1, SignupMoves
        <5>. QED
          BY <5>1, <5>2
      <4>2. ASSUME NEW s \in Sub, NEW e \in Email, Exchange(w, s, e)
            PROVE  Owners(req'[w].addr) = {}
        BY <2>2, <3>2, <4>2, ExchangeMoves
      <4>. QED
        BY <2>2, <3>2, <4>1, <4>2, Enters DEF Owners
    <3>. QED
      BY <3>1, <3>2
  <2>. QED
    BY <1>2, <2>1, <2>2 DEF FreeOK
<1>. QED
  BY <1>1, <1>2, Writes

(* Two accounts share an address only when they were inserted by views     *)
(* that looked it up before either was there                               *)
(* (users/api_views.py:238-299 and 398-421).                               *)
THEOREM SharedAddressesComeFromRaces == Spec => []SharedAddressesAreRaced
<1>1. Init => FreeOK
  BY DEF Init, FreeOK, SharedAddressesAreRaced
<1>2. FreeOK => SharedAddressesAreRaced
  BY DEF FreeOK
<1>. QED
  BY <1>1, <1>2, BaseInit, BaseNext, FreeNext, PTL DEF Spec
=============================================================================
