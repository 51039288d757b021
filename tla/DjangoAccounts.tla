---------------------------- MODULE DjangoAccounts ----------------------------
(***************************************************************************)
(* The account views of the Django project, src/django/users/api_views.py  *)
(* with tokens.py, over auth_user and the tables of users/models.py: sign  *)
(* up, verification and reset links, login by password and by Google, and  *)
(* the profile.                                                            *)
(*                                                                         *)
(* ATOMIC_REQUESTS is not set: every statement is a transaction of its     *)
(* own, and a view is a sequence of steps, one per statement that writes.  *)
(* Its leading reads are the step that accepts the request.  Requests that *)
(* are turned away there (400, 401, 405) change nothing of this state and  *)
(* are left out.  An exception no view catches is a 500; what is committed *)
(* stays.                                                                  *)
(*                                                                         *)
(* Accounts and links are named by order of insertion, a password by how   *)
(* often its column has been set.  A link that was not mailed, or that has *)
(* expired, is one that nobody presents; so is an OAuth state older than   *)
(* ten minutes or replaced by a later one.  The three profile fields are   *)
(* treated alike and stand as one; a row that get_or_create has not made   *)
(* yet reads as the empty text.                                            *)
(***************************************************************************)
EXTENDS Naturals

CONSTANTS
  Username, NoName,
  Email, NoEmail,
  Sub, NoSub,      \* Google account ids
  Text, Empty,     \* what a profile field can hold
  Browser, NoBrowser,
  Worker,
  MaxUsers,        \* bound on accounts
  MaxLinks,        \* bound on one-time tokens
  MaxPasswords,    \* bound on the writes of one account's password column
  MaxRequests      \* bound on the requests that write

ASSUME DjangoConstants ==
  /\ NoName \notin Username /\ NoEmail \notin Email /\ NoSub \notin Sub
  /\ NoBrowser \notin Browser
  /\ Empty \in Text
  /\ MaxUsers \in Nat /\ MaxLinks \in Nat
  /\ MaxPasswords \in Nat \ {0} /\ MaxRequests \in Nat

User == 1..MaxUsers
Link == 1..MaxLinks
Purpose == {"email_verification", "password_reset"}

Op == {"none", "signup", "verify", "forgot", "reset", "login", "google", "me"}

PC == {"idle", "create_user", "create_email_address", "mint_verification",
       "consume", "save_email_address", "mint_reset", "save_password",
       "save_consumed", "exchange", "create_google_user", "save_user",
       "create_oauth_account", "save_profile", "login"}

(* What a worker knows of its request: cred is the password column as it   *)
(* read or wrote it, text what it will save, and named tells whether the   *)
(* payload names the field.                                                *)
Request ==
  [op : Op, browser : Browser \cup {NoBrowser}, user : 0..MaxUsers,
   name : Username \cup {NoName}, addr : Email \cup {NoEmail},
   sub : Sub \cup {NoSub}, tok : 0..MaxLinks, cred : 0..MaxPasswords,
   text : Text, named : BOOLEAN]

NoRequest ==
  [op |-> "none", browser |-> NoBrowser, user |-> 0, name |-> NoName,
   addr |-> NoEmail, sub |-> NoSub, tok |-> 0, cred |-> 0, text |-> Empty,
   named |-> FALSE]

NoSession == [user |-> 0, cred |-> 0]

VARIABLES
  \* auth_user
  last, name, email,
  pwd,         \* how often the password column was set
  usable,      \* accounts whose password is not an unusable one
  \* users_emailaddress, UNIQUE by address
  addrUser,    \* the account of each address's row, 0 if there is none
  verified,    \* addresses whose row has is_verified
  \* users_onetimetoken
  issued, linkUser, linkPurpose, consumed,
  oauth,       \* users_oauthaccount: account of each Google account, or 0
  profile,     \* users_userprofile
  \* django_session, per browser
  session,     \* the account, and the password column its hash is made from
  pending,     \* browsers whose session holds the nonce of a state they hold
  \* the workers
  pc, req,
  requests,    \* how many requests were accepted
  \* history variables: no guard reads them
  raced,       \* accounts inserted after another one took their address
               \* between the lookup and the insertion
  used,        \* reset links that have set a password
  broken,      \* links a handler of which failed
  outran       \* workers that read something that has changed since

userVars    == <<last, name, email, pwd, usable>>
addressVars == <<addrUser, verified>>
linkVars    == <<issued, linkUser, linkPurpose, consumed>>
oauthVars   == <<oauth>>
profileVars == <<profile>>
sessionVars == <<session, pending>>
workerVars  == <<pc, req, requests>>
historyVars == <<raced, used, broken, outran>>
vars == <<userVars, addressVars, linkVars, oauthVars, profileVars,
          sessionVars, workerVars, historyVars>>

Init ==
  /\ last = 0
  /\ name = [u \in User |-> NoName]
  /\ email = [u \in User |-> NoEmail]
  /\ pwd = [u \in User |-> 0]
  /\ usable = {}
  /\ addrUser = [e \in Email |-> 0]
  /\ verified = {}
  /\ issued = 0
  /\ linkUser = [k \in Link |-> 0]
  /\ linkPurpose = [k \in Link |-> "email_verification"]
  /\ consumed = {}
  /\ oauth = [s \in Sub |-> 0]
  /\ profile = [u \in User |-> Empty]
  /\ session = [b \in Browser |-> NoSession]
  /\ pending = {}
  /\ pc = [w \in Worker |-> "idle"]
  /\ req = [w \in Worker |-> NoRequest]
  /\ requests = 0
  /\ raced = {}
  /\ used = {}
  /\ broken = {}
  /\ outran = {}
-----------------------------------------------------------------------------
Taken(n) == \E u \in 1..last : name[u] = n

Owners(e) == {u \in 1..last : email[u] = e}

(* filter(email=...).first(): the oldest account, auth_user being ordered  *)
(* by id when a query names no order.                                      *)
IsFirst(u, e) == u \in Owners(e) /\ \A v \in Owners(e) : u <= v

(* get_valid_one_time_token.                                               *)
Valid(k, purpose) ==
  k \in 1..issued /\ linkPurpose[k] = purpose /\ k \notin consumed

(* request.user: the session's account, if the session rests on the        *)
(* password the account has now.                                           *)
LoggedIn(b, u) == u # 0 /\ session[b] = [user |-> u, cred |-> pwd[u]]

Accept(w, r, step) ==
  /\ pc[w] = "idle"
  /\ requests < MaxRequests
  /\ requests' = requests + 1
  /\ pc' = [pc EXCEPT ![w] = step]
  /\ req' = [req EXCEPT ![w] = r]

Goto(w, step) ==
  /\ pc' = [pc EXCEPT ![w] = step]
  /\ UNCHANGED <<req, requests>>

GotoWith(w, step, r) ==
  /\ pc' = [pc EXCEPT ![w] = step]
  /\ req' = [req EXCEPT ![w] = r]
  /\ UNCHANGED requests

Finish(w) ==
  /\ pc' = [pc EXCEPT ![w] = "idle"]
  /\ req' = [req EXCEPT ![w] = NoRequest]
  /\ UNCHANGED requests

(* An exception ends the request (as a 400 where create_user raises in a   *)
(* sign-up): the link it was working on may be left half used.             *)
Raise(w) ==
  /\ Finish(w)
  /\ outran' = outran \ {w}
  /\ broken' = IF req[w].tok = 0 THEN broken ELSE broken \cup {req[w].tok}
  /\ UNCHANGED <<raced, used>>

(* Other workers whose reads a write of w has overtaken.                   *)
Inserting(e, w) ==
  {v \in Worker \ {w} : pc[v] \in {"create_user", "create_google_user"}
                        /\ req[v].addr = e}

HoldingLink(k, w) == {v \in Worker \ {w} : req[v].tok = k}

Linking(s, w) ==
  {v \in Worker \ {w} : pc[v] = "create_oauth_account" /\ req[v].sub = s}

Editing(u, w) ==
  {v \in Worker \ {w} : pc[v] = "save_profile" /\ req[v].user = u}

InsertUser(w, writes) ==
  /\ last < MaxUsers
  /\ last' = last + 1
  /\ name' = [name EXCEPT ![last + 1] = req[w].name]
  /\ email' = [email EXCEPT ![last + 1] = req[w].addr]
  /\ pwd' = [pwd EXCEPT ![last + 1] = writes]
  /\ raced' = IF w \in outran THEN raced \cup {last + 1} ELSE raced
  /\ outran' = (outran \cup Inserting(req[w].addr, w)) \ {w}

MintLink(w, purpose) ==
  /\ issued < MaxLinks
  /\ issued' = issued + 1
  /\ linkUser' = [linkUser EXCEPT ![issued + 1] = req[w].user]
  /\ linkPurpose' = [linkPurpose EXCEPT ![issued + 1] = purpose]
  /\ UNCHANGED consumed

(* consumed_at of the link the worker holds is saved.                      *)
SaveConsumed(w) ==
  /\ consumed' = consumed \cup {req[w].tok}
  /\ outran' = (outran \cup HoldingLink(req[w].tok, w)) \ {w}
  /\ UNCHANGED <<issued, linkUser, linkPurpose, raced, used, broken>>

(* login(): a session of another account, or one that rests on another     *)
(* password, is flushed first, and with it the nonce.                      *)
OpenSession(w) ==
  LET b == req[w].browser
      s == [user |-> req[w].user, cred |-> req[w].cred]
  IN  /\ session' = [session EXCEPT ![b] = s]
      /\ pending' = IF session[b] \in {NoSession, s} THEN pending
                    ELSE pending \ {b}
      /\ Finish(w)
      /\ outran' = outran \ {w}
      /\ UNCHANGED <<raced, used, broken>>
-----------------------------------------------------------------------------
(* POST users/signup.                                                      *)

(* Mutant: only the username is checked.                                   *)
SignupUnchecked(w, b, n, e) ==
  /\ Accept(w, [NoRequest EXCEPT !.op = "signup", !.browser = b, !.name = n,
                                 !.addr = e, !.cred = 1], "create_user")
  /\ UNCHANGED <<userVars, addressVars, linkVars, oauthVars, profileVars,
                 sessionVars, historyVars>>

(* No account has the address. The username is the client's choice; it     *)
(* defaults to the address.                                                *)
Signup(w, b, n, e) ==
  /\ Owners(e) = {}
  /\ Accept(w, [NoRequest EXCEPT !.op = "signup", !.browser = b, !.name = n,
                                 !.addr = e, !.cred = 1], "create_user")
  /\ UNCHANGED <<userVars, addressVars, linkVars, oauthVars, profileVars,
                 sessionVars, historyVars>>

(* create_user: username is UNIQUE, email is not.                          *)
CreateUser(w) ==
  /\ pc[w] = "create_user"
  /\ IF Taken(req[w].name)
     THEN /\ Raise(w)
          /\ UNCHANGED userVars
     ELSE /\ InsertUser(w, 1)
          /\ usable' = usable \cup {last + 1}
          /\ GotoWith(w, "create_email_address", [req[w] EXCEPT !.user = last + 1])
          /\ UNCHANGED <<used, broken>>
  /\ UNCHANGED <<addressVars, linkVars, oauthVars, profileVars, sessionVars>>

(* Mutant: the row is looked up by address alone.                          *)
AnyonesEmailAddress(w) ==
  LET e == req[w].addr
  IN  /\ pc[w] = "create_email_address"
      /\ addrUser' = [addrUser EXCEPT ![e] = IF @ = 0 THEN req[w].user ELSE @]
      /\ Goto(w, "mint_verification")
      /\ UNCHANGED <<userVars, verified, linkVars, oauthVars, profileVars,
                     sessionVars, historyVars>>

(* get_or_create by account and address: the address is UNIQUE, and the    *)
(* insertion raises when the row is another account's.                     *)
CreateEmailAddress(w) ==
  LET e == req[w].addr
  IN  /\ pc[w] = "create_email_address"
      /\ IF addrUser[e] \in {0, req[w].user}
         THEN /\ addrUser' = [addrUser EXCEPT ![e] = req[w].user]
              /\ Goto(w, "mint_verification")
              /\ UNCHANGED historyVars
         ELSE /\ Raise(w)
              /\ UNCHANGED addrUser
      /\ UNCHANGED <<userVars, verified, linkVars, oauthVars, profileVars,
                     sessionVars>>

(* The link is minted and mailed to the address.                           *)
MintVerification(w) ==
  /\ pc[w] = "mint_verification"
  /\ MintLink(w, "email_verification")
  /\ Goto(w, "login")
  /\ UNCHANGED <<userVars, addressVars, oauthVars, profileVars, sessionVars,
                 historyVars>>

(* The row or the message cannot be written: the account is signed in all  *)
(* the same, and no link reaches its owner.                                *)
EnqueueFails(w) ==
  /\ pc[w] = "mint_verification"
  /\ Goto(w, "login")
  /\ UNCHANGED <<userVars, addressVars, linkVars, oauthVars, profileVars,
                 sessionVars, historyVars>>

SignupLogin(w) ==
  /\ pc[w] = "login" /\ req[w].op = "signup"
  /\ OpenSession(w)
  /\ UNCHANGED <<userVars, addressVars, linkVars, oauthVars, profileVars>>
-----------------------------------------------------------------------------
(* POST users/verify-email with link k.                                    *)
VerifyEmail(w, k) ==
  /\ Valid(k, "email_verification")
  /\ Accept(w, [NoRequest EXCEPT !.op = "verify", !.tok = k], "consume")
  /\ UNCHANGED <<userVars, addressVars, linkVars, oauthVars, profileVars,
                 sessionVars, historyVars>>

(* consume_one_time_token: the link is spent before it has done anything.  *)
ConsumeLink(w) ==
  /\ pc[w] = "consume"
  /\ SaveConsumed(w)
  /\ Goto(w, "save_email_address")
  /\ UNCHANGED <<userVars, addressVars, oauthVars, profileVars, sessionVars>>

(* The row of the link's account and address is marked, if there is one. A *)
(* link is minted for its account's own address, which never changes.      *)
SaveEmailAddress(w) ==
  LET u == linkUser[req[w].tok]
  IN  /\ pc[w] = "save_email_address"
      /\ verified' = IF addrUser[email[u]] = u THEN verified \cup {email[u]}
                                               ELSE verified
      /\ Finish(w)
      /\ UNCHANGED <<userVars, addrUser, linkVars, oauthVars, profileVars,
                     sessionVars, historyVars>>
-----------------------------------------------------------------------------
(* POST users/forgot-password for an address some account has.             *)
ForgotPassword(w, e) ==
  /\ \E u \in Owners(e) :
       /\ IsFirst(u, e)
       /\ Accept(w, [NoRequest EXCEPT !.op = "forgot", !.user = u, !.addr = e],
                 "mint_reset")
  /\ UNCHANGED <<userVars, addressVars, linkVars, oauthVars, profileVars,
                 sessionVars, historyVars>>

MintReset(w) ==
  /\ pc[w] = "mint_reset"
  /\ MintLink(w, "password_reset")
  /\ Finish(w)
  /\ UNCHANGED <<userVars, addressVars, oauthVars, profileVars, sessionVars,
                 historyVars>>

(* Mutant: the link is looked up by its hash and its purpose only.         *)
ResetConsumedToo(w, k) ==
  /\ k \in 1..issued /\ linkPurpose[k] = "password_reset"
  /\ Accept(w, [NoRequest EXCEPT !.op = "reset", !.user = linkUser[k], !.tok = k],
            "save_password")
  /\ UNCHANGED <<userVars, addressVars, linkVars, oauthVars, profileVars,
                 sessionVars, historyVars>>

(* POST users/reset-password with link k and a password that validates.    *)
ResetPassword(w, k) ==
  /\ Valid(k, "password_reset")
  /\ Accept(w, [NoRequest EXCEPT !.op = "reset", !.user = linkUser[k], !.tok = k],
            "save_password")
  /\ UNCHANGED <<userVars, addressVars, linkVars, oauthVars, profileVars,
                 sessionVars, historyVars>>

(* The new password is saved. Only the password column is written.         *)
SavePassword(w) ==
  LET u == req[w].user
  IN  /\ pc[w] = "save_password"
      /\ pwd[u] < MaxPasswords
      /\ pwd' = [pwd EXCEPT ![u] = @ + 1]
      /\ usable' = usable \cup {u}
      /\ used' = used \cup {req[w].tok}
      /\ Goto(w, "save_consumed")
      /\ UNCHANGED <<last, name, email, addressVars, linkVars, oauthVars,
                     profileVars, sessionVars, raced, broken, outran>>

SaveResetConsumed(w) ==
  /\ pc[w] = "save_consumed"
  /\ SaveConsumed(w)
  /\ Finish(w)
  /\ UNCHANGED <<userVars, addressVars, oauthVars, profileVars, sessionVars>>
-----------------------------------------------------------------------------
(* POST users/login with the right password, by username or by address: an *)
(* address stands for the oldest account that has it.                      *)
Login(w, b, u) ==
  /\ u \in usable
  /\ Accept(w, [NoRequest EXCEPT !.op = "login", !.browser = b, !.user = u,
                                 !.cred = pwd[u]], "login")
  /\ UNCHANGED <<userVars, addressVars, linkVars, oauthVars, profileVars,
                 sessionVars, historyVars>>

PasswordLogin(w) ==
  /\ pc[w] = "login" /\ req[w].op = "login"
  /\ OpenSession(w)
  /\ UNCHANGED <<userVars, addressVars, linkVars, oauthVars, profileVars>>

(* logout() flushes the session.                                           *)
Logout(b) ==
  /\ \E u \in 1..last : LoggedIn(b, u)
  /\ session' = [session EXCEPT ![b] = NoSession]
  /\ pending' = pending \ {b}
  /\ UNCHANGED <<userVars, addressVars, linkVars, oauthVars, profileVars,
                 workerVars, historyVars>>

(* A request whose session rests on a password the account no longer has:  *)
(* request.user flushes the session, and the view answers 401.             *)
NotAuthenticated(b) ==
  /\ session[b] # NoSession
  /\ \A u \in 1..last : ~ LoggedIn(b, u)
  /\ session' = [session EXCEPT ![b] = NoSession]
  /\ pending' = pending \ {b}
  /\ UNCHANGED <<userVars, addressVars, linkVars, oauthVars, profileVars,
                 workerVars, historyVars>>
-----------------------------------------------------------------------------
(* A state is accepted when its nonce is the one the session holds.        *)
StateAccepted(b) == b \in pending

(* The nonce of a new state replaces the session's.                        *)
MintState(b) == pending' = pending \cup {b}

(* POST oauth/google/start.                                                *)
GoogleStart(b) ==
  /\ MintState(b)
  /\ UNCHANGED <<userVars, addressVars, linkVars, oauthVars, profileVars,
                 session, workerVars, historyVars>>

(* POST oauth/google/callback with a state the session accepts. The nonce  *)
(* stays: the same state is accepted again until another one is minted.    *)
GoogleCallback(w, b) ==
  /\ StateAccepted(b)
  /\ Accept(w, [NoRequest EXCEPT !.op = "google", !.browser = b], "exchange")
  /\ UNCHANGED <<userVars, addressVars, linkVars, oauthVars, profileVars,
                 sessionVars, historyVars>>

(* Google answers with an id and an address. The account is the one the id *)
(* is linked to; else the oldest one with the address; else a new one,     *)
(* under a username that is free when it is looked for.                    *)
Exchange(w, s, e) ==
  LET r == [req[w] EXCEPT !.sub = s, !.addr = e]
      As(u) == [r EXCEPT !.user = u, !.cred = pwd[u]]
  IN  /\ pc[w] = "exchange"
      /\ \/ /\ oauth[s] # 0
            /\ GotoWith(w, "login", As(oauth[s]))
         \/ /\ oauth[s] = 0
            /\ \E u \in Owners(e) : /\ IsFirst(u, e)
                                    /\ GotoWith(w, "create_oauth_account", As(u))
         \/ /\ oauth[s] = 0 /\ Owners(e) = {}
            /\ \E n \in Username :
                 /\ ~ Taken(n)
                 /\ GotoWith(w, "create_google_user", [r EXCEPT !.name = n])
      /\ UNCHANGED <<userVars, addressVars, linkVars, oauthVars, profileVars,
                     sessionVars, historyVars>>

(* A ValueError of the exchange is a 400; any other exception is a 500.    *)
ExchangeFails(w) ==
  /\ pc[w] = "exchange"
  /\ Finish(w)
  /\ UNCHANGED <<userVars, addressVars, linkVars, oauthVars, profileVars,
                 sessionVars, historyVars>>

(* The username may have been taken since: the insertion raises.           *)
CreateGoogleUser(w) ==
  /\ pc[w] = "create_google_user"
  /\ IF Taken(req[w].name)
     THEN /\ Raise(w)
          /\ UNCHANGED userVars
     ELSE /\ InsertUser(w, 1)
          /\ GotoWith(w, "save_user", [req[w] EXCEPT !.user = last + 1])
          /\ UNCHANGED <<usable, used, broken>>
  /\ UNCHANGED <<addressVars, linkVars, oauthVars, profileVars, sessionVars>>

(* user.save() writes the whole row, with another unusable password.       *)
SaveGoogleUser(w) ==
  LET u == req[w].user
  IN  /\ pc[w] = "save_user"
      /\ pwd[u] < MaxPasswords
      /\ pwd' = [pwd EXCEPT ![u] = @ + 1]
      /\ usable' = usable \ {u}
      /\ GotoWith(w, "create_oauth_account", [req[w] EXCEPT !.cred = pwd[u] + 1])
      /\ UNCHANGED <<last, name, email, addressVars, linkVars, oauthVars,
                     profileVars, sessionVars, historyVars>>

(* Mutant: the exception is suppressed, as the API does it.                *)
LinkSuppressed(w) ==
  LET s == req[w].sub
  IN  /\ pc[w] = "create_oauth_account"
      /\ oauth' = [oauth EXCEPT ![s] = IF @ = 0 THEN req[w].user ELSE @]
      /\ Goto(w, "login")
      /\ UNCHANGED <<userVars, addressVars, linkVars, profileVars,
                     sessionVars, historyVars>>

(* UNIQUE (provider, provider_user_id): the insertion raises when the id   *)
(* has been linked since it was looked up.                                 *)
CreateOauthAccount(w) ==
  LET s == req[w].sub
  IN  /\ pc[w] = "create_oauth_account"
      /\ IF oauth[s] = 0
         THEN /\ oauth' = [oauth EXCEPT ![s] = req[w].user]
              /\ Goto(w, "login")
              /\ UNCHANGED historyVars
         ELSE /\ Raise(w)
              /\ UNCHANGED oauth
      /\ UNCHANGED <<userVars, addressVars, linkVars, profileVars,
                     sessionVars>>

GoogleLogin(w) ==
  /\ pc[w] = "login" /\ req[w].op = "google"
  /\ OpenSession(w)
  /\ UNCHANGED <<userVars, addressVars, linkVars, oauthVars, profileVars>>
-----------------------------------------------------------------------------
(* Mutant: a field the payload does not name is emptied.                   *)
EditFromScratch(w, b, u, t, named) ==
  /\ LoggedIn(b, u)
  /\ Accept(w, [NoRequest EXCEPT !.op = "me", !.user = u, !.named = named,
                                 !.text = IF named THEN t ELSE Empty],
            "save_profile")
  /\ UNCHANGED <<userVars, addressVars, linkVars, oauthVars, profileVars,
                 sessionVars, historyVars>>

(* PATCH users/me: the profile is read, and changed where the payload      *)
(* names a field.                                                          *)
EditProfile(w, b, u, t, named) ==
  /\ LoggedIn(b, u)
  /\ Accept(w, [NoRequest EXCEPT !.op = "me", !.user = u, !.named = named,
                                 !.text = IF named THEN t ELSE profile[u]],
            "save_profile")
  /\ UNCHANGED <<userVars, addressVars, linkVars, oauthVars, profileVars,
                 sessionVars, historyVars>>

(* profile.save() writes every field.                                      *)
SaveProfile(w) ==
  LET u == req[w].user
  IN  /\ pc[w] = "save_profile"
      /\ profile' = [profile EXCEPT ![u] = req[w].text]
      /\ outran' = (outran \cup Editing(u, w)) \ {w}
      /\ Finish(w)
      /\ UNCHANGED <<userVars, addressVars, linkVars, oauthVars, sessionVars,
                     raced, used, broken>>
-----------------------------------------------------------------------------
(* A statement raises, an audit row cannot be written, or the worker dies. *)
Fail(w) ==
  /\ pc[w] # "idle"
  /\ Raise(w)
  /\ UNCHANGED <<userVars, addressVars, linkVars, oauthVars, profileVars,
                 sessionVars>>

Arrive(w) ==
  \/ \E b \in Browser :
       \/ \E n \in Username, e \in Email : Signup(w, b, n, e)
       \/ \E u \in 1..last :
            \/ Login(w, b, u)
            \/ \E t \in Text, named \in BOOLEAN : EditProfile(w, b, u, t, named)
       \/ GoogleCallback(w, b)
  \/ \E k \in 1..issued : VerifyEmail(w, k) \/ ResetPassword(w, k)
  \/ \E e \in Email : ForgotPassword(w, e)

Handle(w) ==
  \/ CreateUser(w) \/ CreateEmailAddress(w) \/ MintVerification(w)
  \/ EnqueueFails(w) \/ SignupLogin(w)
  \/ ConsumeLink(w) \/ SaveEmailAddress(w)
  \/ MintReset(w) \/ SavePassword(w) \/ SaveResetConsumed(w)
  \/ PasswordLogin(w)
  \/ \E s \in Sub, e \in Email : Exchange(w, s, e)
  \/ ExchangeFails(w) \/ CreateGoogleUser(w) \/ SaveGoogleUser(w)
  \/ CreateOauthAccount(w) \/ GoogleLogin(w)
  \/ SaveProfile(w)

Next ==
  \/ \E w \in Worker : Arrive(w) \/ Handle(w) \/ Fail(w)
  \/ \E b \in Browser : Logout(b) \/ NotAuthenticated(b) \/ GoogleStart(b)

Spec == Init /\ [][Next]_vars
-----------------------------------------------------------------------------
TypeOK ==
  /\ last \in 0..MaxUsers
  /\ name \in [User -> Username \cup {NoName}]
  /\ email \in [User -> Email \cup {NoEmail}]
  /\ \A u \in User : u <= last <=> email[u] # NoEmail
  /\ pwd \in [User -> 0..MaxPasswords]
  /\ usable \in SUBSET (1..last)
  /\ addrUser \in [Email -> 0..last]
  /\ verified \in SUBSET Email
  /\ issued \in 0..MaxLinks
  /\ linkUser \in [Link -> 0..last]
  /\ \A k \in Link : k <= issued <=> linkUser[k] # 0
  /\ linkPurpose \in [Link -> Purpose]
  /\ consumed \in SUBSET (1..issued)
  /\ oauth \in [Sub -> 0..last]
  /\ profile \in [User -> Text]
  /\ session \in [Browser -> [user : 0..last, cred : 0..MaxPasswords]]
  /\ pending \in SUBSET Browser
  /\ pc \in [Worker -> PC]
  /\ req \in [Worker -> Request]
  /\ requests \in 0..MaxRequests
  /\ raced \in SUBSET (1..last)
  /\ used \in SUBSET (1..issued)
  /\ broken \in SUBSET (1..issued)
  /\ outran \in SUBSET Worker

(* Two accounts have one address only when the later one was inserted by a *)
(* sign-up or a first Google sign-in that had looked the address up before *)
(* the other was inserted: auth_user has no constraint on it.              *)
SharedAddressesAreRaced ==
  \A u, v \in 1..last : u < v /\ email[u] = email[v] => v \in raced

(* A verification link is never spent for nothing: once it is consumed the *)
(* address it was mailed to is verified, for the account it was minted     *)
(* for, or a worker is about to do it, or a handler of the link failed.    *)
SpentLinksVerify ==
  \A k \in consumed :
    linkPurpose[k] = "email_verification" =>
      LET u == linkUser[k]
      IN  \/ email[u] \in verified /\ addrUser[email[u]] = u
          \/ k \in broken
          \/ \E w \in Worker : pc[w] = "save_email_address" /\ req[w].tok = k

(* A reset link sets a password a second time only in a handler that had   *)
(* looked it up before the first one saved consumed_at, while the first is *)
(* about to save it, or after a handler failed in between.                 *)
OnlyOvertakenResetsRepeat ==
  [][\A w \in Worker :
       SavePassword(w) /\ req[w].tok \in used
         => \/ w \in outran \/ req[w].tok \in broken
            \/ \E v \in Worker : pc[v] = "save_consumed"
                                 /\ req[v].tok = req[w].tok]_vars

(* A Google id signs in to one account for ever, whatever races with its   *)
(* first sign-in: to the account it is linked to.                          *)
GoogleSignsInLinkedUser ==
  [][\A w \in Worker :
       GoogleLogin(w) => /\ oauth[req[w].sub] = req[w].user
                         /\ oauth' = oauth]_vars

(* A PATCH that does not name a field changes it only when another PATCH   *)
(* was saved since it read the profile.                                    *)
OnlyOvertakenEditsAreLost ==
  [][\A w \in Worker :
       SaveProfile(w) /\ ~ req[w].named /\ profile' # profile
         => w \in outran]_vars
=============================================================================
