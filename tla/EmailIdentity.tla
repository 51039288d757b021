--------------------------- MODULE EmailIdentity ---------------------------
(***************************************************************************)
(* Who an account belongs to: e-mail addresses, the verified flag, the     *)
(* links that set it, and Google accounts.  verify_email and               *)
(* issue_verify_email of src/api/auth/service.py, PATCH /users/me, POST    *)
(* /auth/verify-email, /auth/register and /auth/oauth/google, and the seed *)
(* script of src/api/scripts/seed.py, which an operator may run meanwhile; *)
(* over api_auth_users, api_auth_one_time_tokens and                       *)
(* api_auth_oauth_accounts.                                                *)
(*                                                                         *)
(* Each statement is a transaction of its own.  Accounts and links are     *)
(* named by order of insertion.  A link that expires is one that is not    *)
(* used any more, so expiry needs no action; sessions are in AuthSessions. *)
(***************************************************************************)
EXTENDS Naturals, FiniteSets

CONSTANTS
  Email, NoEmail,
  Sub, NoSub,    \* Google account ids
  Worker,
  MaxUsers,      \* bound on accounts
  MaxLinks       \* bound on verification links

ASSUME IdentityConstants ==
  /\ NoEmail \notin Email
  /\ NoSub \notin Sub
  /\ MaxUsers \in Nat
  /\ MaxLinks \in Nat

User == 1..MaxUsers
Link == 1..MaxLinks

PC == {"idle", "create_user", "update_user_email", "issue_verify_email",
       "create_one_time_token", "set_user_email_verified",
       "consume_one_time_token", "get_user_by_email", "create_oauth_account",
       "sign_in"}

Op == {"none", "register", "change", "verify", "google", "seed"}

(* A request: the account and address it is about, the Google account, the *)
(* link, and whether Google or the operator vouches for the address.       *)
Request == [op : Op, user : 0..MaxUsers, addr : Email \cup {NoEmail},
            sub : Sub \cup {NoSub}, tok : 0..MaxLinks, vouched : BOOLEAN]

NoRequest == [op |-> "none", user |-> 0, addr |-> NoEmail, sub |-> NoSub,
              tok |-> 0, vouched |-> FALSE]

VARIABLES
  last,       \* accounts inserted so far
  email,      \* email of each account, UNIQUE
  verified,   \* accounts with is_email_verified
  issued,     \* verify_email rows inserted so far
  linkUser, linkAddr,   \* whose they are, and the address they were mailed to
  consumed,   \* those with consumed_at
  oauth,      \* account each Google account is linked to, 0 if none
  pc, req,    \* per worker
  \* history variables: no guard reads them
  proven,     \* <<account, address>>: a link mailed there was opened, or
              \* Google vouched for it when the account was created, or
              \* the operator who seeds the account
  stale,      \* accounts last verified with an address they no longer had
  outran      \* workers that looked something up that has changed since

userVars    == <<last, email, verified>>
linkVars    == <<issued, linkUser, linkAddr, consumed>>
oauthVars   == <<oauth>>
workerVars  == <<pc, req>>
historyVars == <<proven, stale, outran>>
vars == <<userVars, linkVars, oauthVars, workerVars, historyVars>>

Init ==
  /\ last = 0
  /\ email = [u \in User |-> NoEmail]
  /\ verified = {}
  /\ issued = 0
  /\ linkUser = [k \in Link |-> 0]
  /\ linkAddr = [k \in Link |-> NoEmail]
  /\ consumed = {}
  /\ oauth = [s \in Sub |-> 0]
  /\ pc = [w \in Worker |-> "idle"]
  /\ req = [w \in Worker |-> NoRequest]
  /\ proven = {}
  /\ stale = {}
  /\ outran = {}
-----------------------------------------------------------------------------
Owners(e) == {u \in 1..last : email[u] = e}

Taken(e, but) == Owners(e) \ {but} # {}

Accept(w, r, step) ==
  /\ pc[w] = "idle"
  /\ pc' = [pc EXCEPT ![w] = step]
  /\ req' = [req EXCEPT ![w] = r]

Goto(w, step) ==
  /\ pc' = [pc EXCEPT ![w] = step]
  /\ UNCHANGED req

GotoAs(w, step, u) ==
  /\ pc' = [pc EXCEPT ![w] = step]
  /\ req' = [req EXCEPT ![w].user = u]

Finish(w) ==
  /\ pc' = [pc EXCEPT ![w] = "idle"]
  /\ req' = [req EXCEPT ![w] = NoRequest]

(* Other workers whose lookup a write of w has overtaken.                  *)
HoldingLink(k, w) ==
  {v \in Worker \ {w} : req[v].op = "verify" /\ req[v].tok = k}

HoldingUser(u, w) ==
  {v \in Worker \ {w} : req[v].op = "google" /\ req[v].user = u}

HoldingSub(s, w) ==
  {v \in Worker \ {w} : req[v].op = "google" /\ req[v].sub = s}
-----------------------------------------------------------------------------
(* POST /auth/register, past get_user_by_email.                            *)
Register(w, e) ==
  /\ ~ Taken(e, 0)
  /\ Accept(w, [NoRequest EXCEPT !.op = "register", !.addr = e], "create_user")
  /\ UNCHANGED <<userVars, linkVars, oauth, historyVars>>

(* The seed script, past get_user_by_email: it creates the account, or     *)
(* sets the flag of the one with that address, after its password.  An     *)
(* account that is verified only has its password set.                     *)
Seed(w, e) ==
  LET r == [NoRequest EXCEPT !.op = "seed", !.addr = e, !.vouched = TRUE]
      found == Owners(e)
  IN  /\ \/ \E u \in found \ verified :
              /\ Accept(w, [r EXCEPT !.user = u], "set_user_email_verified")
              /\ proven' = proven \cup {<<u, e>>}
         \/ found = {} /\ Accept(w, r, "create_user") /\ UNCHANGED proven
      /\ UNCHANGED <<userVars, linkVars, oauth, stale, outran>>

InsertUser(e) ==
  /\ last < MaxUsers
  /\ last' = last + 1
  /\ email' = [email EXCEPT ![last + 1] = e]
  /\ UNCHANGED verified

(* Where the handler goes on with the account u it has created.            *)
AfterCreated(w, u) ==
  \/ /\ req[w].op = "register"
     /\ Finish(w)
     /\ UNCHANGED proven
  \/ /\ req[w].op # "register" /\ req[w].vouched
     /\ GotoAs(w, "set_user_email_verified", u)
     /\ proven' = proven \cup {<<u, req[w].addr>>}
  \/ /\ req[w].op # "register" /\ ~ req[w].vouched
     /\ GotoAs(w, "create_oauth_account", u)
     /\ UNCHANGED proven

(* The INSERT; the UNIQUE constraint makes it raise when another worker    *)
(* has inserted or taken the address since the lookup.                     *)
CreateUser(w) ==
  /\ pc[w] = "create_user"
  /\ \/ /\ Taken(req[w].addr, 0)
        /\ Finish(w)
        /\ UNCHANGED <<userVars, proven>>
     \/ /\ ~ Taken(req[w].addr, 0)
        /\ InsertUser(req[w].addr)
        /\ AfterCreated(w, last + 1)
  /\ outran' = IF pc'[w] = "idle" THEN outran \ {w} ELSE outran
  /\ UNCHANGED <<linkVars, oauth, stale>>

(* PATCH /users/me with an address, past the SELECT of update_user_email.  *)
ChangeEmail(w, u, e) ==
  /\ ~ Taken(e, u)
  /\ Accept(w, [NoRequest EXCEPT !.op = "change", !.user = u, !.addr = e],
            "update_user_email")
  /\ UNCHANGED <<userVars, linkVars, oauth, historyVars>>

(* Mutant: the flag is left as it is.                                      *)
UpdateKeepsVerified(w) ==
  LET u == req[w].user
      e == req[w].addr
  IN  /\ pc[w] = "update_user_email"
      /\ IF Taken(e, u)
         THEN Finish(w) /\ UNCHANGED <<userVars, historyVars>>
         ELSE /\ email' = [email EXCEPT ![u] = e]
              /\ stale' = stale \ {u}
              /\ outran' = outran \cup HoldingUser(u, w)
              /\ Goto(w, "issue_verify_email")
              /\ UNCHANGED <<last, verified, proven>>
      /\ UNCHANGED <<linkVars, oauth>>

(* Its UPDATE, also when the address is the one the account has already.   *)
UpdateEmail(w) ==
  LET u == req[w].user
      e == req[w].addr
  IN  /\ pc[w] = "update_user_email"
      /\ IF Taken(e, u)
         THEN Finish(w) /\ UNCHANGED <<userVars, historyVars>>
         ELSE /\ email' = [email EXCEPT ![u] = e]
              /\ verified' = verified \ {u}
              /\ stale' = stale \ {u}
              /\ outran' = outran \cup HoldingUser(u, w)
              /\ Goto(w, "issue_verify_email")
              /\ UNCHANGED <<last, proven>>
      /\ UNCHANGED <<linkVars, oauth>>

(* issue_verify_email looks the account up by address: it need not be the  *)
(* one whose address was changed.                                          *)
IssueVerifyEmail(w) ==
  LET found == Owners(req[w].addr) \ verified
  IN  /\ pc[w] = "issue_verify_email"
      /\ \/ \E u \in found : GotoAs(w, "create_one_time_token", u)
         \/ found = {} /\ Finish(w)
      /\ UNCHANGED <<userVars, linkVars, oauth, historyVars>>

InsertLink(u, e) ==
  /\ issued < MaxLinks
  /\ issued' = issued + 1
  /\ linkUser' = [linkUser EXCEPT ![issued + 1] = u]
  /\ linkAddr' = [linkAddr EXCEPT ![issued + 1] = e]

(* The row is inserted and the link mailed to the address of that account. *)
CreateLink(w) ==
  /\ pc[w] = "create_one_time_token"
  /\ InsertLink(req[w].user, req[w].addr)
  /\ Finish(w)
  /\ UNCHANGED <<userVars, consumed, oauth, historyVars>>

(* find_one_time_token: whose the link is, and where it was mailed.        *)
Found(k) ==
  [NoRequest EXCEPT !.op = "verify", !.user = linkUser[k],
                    !.addr = linkAddr[k], !.tok = k]

(* Mutant: consumed_at is not looked at.                                   *)
AnyLink(k) == linkUser[k] # 0

(* verify_email accepts a link that was issued and not consumed.           *)
Usable(k) == linkUser[k] # 0 /\ k \notin consumed

(* POST /auth/verify-email with link k.                                    *)
VerifyEmail(w, k) ==
  /\ Usable(k)
  /\ Accept(w, Found(k), "set_user_email_verified")
  /\ proven' = proven \cup {<<linkUser[k], linkAddr[k]>>}
  /\ UNCHANGED <<userVars, linkVars, oauth, stale, outran>>

AfterVerified(w) ==
  \/ req[w].op = "seed" /\ Finish(w)
  \/ req[w].op = "verify" /\ Goto(w, "consume_one_time_token")
  \/ req[w].op = "google" /\ Goto(w, "create_oauth_account")

(* The flag is set for the account, whatever its address is by now.        *)
SetVerified(w) ==
  LET u == req[w].user
  IN  /\ pc[w] = "set_user_email_verified"
      /\ verified' = verified \cup {u}
      /\ stale' = IF email[u] = req[w].addr THEN stale \ {u} ELSE stale \cup {u}
      /\ AfterVerified(w)
      /\ UNCHANGED <<last, email, linkVars, oauth, proven, outran>>

ConsumeLink(w) ==
  /\ pc[w] = "consume_one_time_token"
  /\ consumed' = consumed \cup {req[w].tok}
  /\ Finish(w)
  /\ outran' = (outran \cup HoldingLink(req[w].tok, w)) \ {w}
  /\ UNCHANGED <<userVars, issued, linkUser, linkAddr, oauth, proven, stale>>
-----------------------------------------------------------------------------
(* Mutant: a link is not found.                                            *)
NeverLinked(sub) == 0

FindOauthAccount(sub) == oauth[sub]

(* POST /auth/oauth/google with a valid ID token for s and e: the account  *)
(* s is linked to signs in.                                                *)
Google(w, s, e, v) ==
  LET r == [NoRequest EXCEPT !.op = "google", !.sub = s, !.addr = e, !.vouched = v]
      u == FindOauthAccount(s)
  IN  /\ \/ u # 0 /\ Accept(w, [r EXCEPT !.user = u], "sign_in")
         \/ u = 0 /\ Accept(w, r, "get_user_by_email")
      /\ UNCHANGED <<userVars, linkVars, oauth, historyVars>>

(* Not linked: the account with that address, if its address is verified   *)
(* or Google vouches for it; 401 if neither; a new account if there is no  *)
(* account with that address.                                              *)
LookupByEmail(w) ==
  LET found == Owners(req[w].addr)
  IN  /\ pc[w] = "get_user_by_email"
      /\ \/ \E u \in found : /\ u \in verified \/ req[w].vouched
                             /\ GotoAs(w, "create_oauth_account", u)
                             /\ UNCHANGED outran
         \/ /\ found # {} /\ found \cap verified = {} /\ ~ req[w].vouched
            /\ Finish(w)
            /\ outran' = outran \ {w}
         \/ found = {} /\ Goto(w, "create_user") /\ UNCHANGED outran
      /\ UNCHANGED <<userVars, linkVars, oauth, proven, stale>>

(* Mutant: ON CONFLICT DO UPDATE.                                          *)
UpsertOauthAccount(w) ==
  LET s == req[w].sub
  IN  /\ pc[w] = "create_oauth_account"
      /\ oauth' = [oauth EXCEPT ![s] = req[w].user]
      /\ outran' = IF oauth[s] = 0 THEN outran \cup HoldingSub(s, w) ELSE outran
      /\ Goto(w, "sign_in")
      /\ UNCHANGED <<userVars, linkVars, proven, stale>>

(* The INSERT; UNIQUE (provider, provider_account_id) makes it raise when  *)
(* s has been linked since, and the exception is suppressed.               *)
CreateOauthAccount(w) ==
  LET s == req[w].sub
  IN  /\ pc[w] = "create_oauth_account"
      /\ IF oauth[s] = 0
         THEN /\ oauth' = [oauth EXCEPT ![s] = req[w].user]
              /\ outran' = outran \cup HoldingSub(s, w)
         ELSE UNCHANGED <<oauth, outran>>
      /\ Goto(w, "sign_in")
      /\ UNCHANGED <<userVars, linkVars, proven, stale>>

(* The flag or the link cannot be written for a reason of their own: the   *)
(* Google handler carries on.                                              *)
Suppressed(w) ==
  /\ req[w].op = "google"
  /\ \/ pc[w] = "set_user_email_verified" /\ Goto(w, "create_oauth_account")
     \/ pc[w] = "create_oauth_account" /\ Goto(w, "sign_in")
  /\ UNCHANGED <<userVars, linkVars, oauth, historyVars>>

(* A session is opened for the account the handler has settled on.         *)
SignIn(w) ==
  /\ pc[w] = "sign_in"
  /\ Finish(w)
  /\ outran' = outran \ {w}
  /\ UNCHANGED <<userVars, linkVars, oauth, proven, stale>>

(* A statement raises outside a suppress, the account is inactive, or the  *)
(* worker dies.                                                            *)
Fail(w) ==
  /\ pc[w] # "idle"
  /\ Finish(w)
  /\ outran' = outran \ {w}
  /\ UNCHANGED <<userVars, linkVars, oauth, proven, stale>>

Step(w) ==
  \/ \E e \in Email : Register(w, e) \/ Seed(w, e)
  \/ \E u \in 1..last, e \in Email : ChangeEmail(w, u, e)
  \/ \E k \in 1..issued : VerifyEmail(w, k)
  \/ \E s \in Sub, e \in Email, v \in BOOLEAN : Google(w, s, e, v)
  \/ CreateUser(w) \/ UpdateEmail(w) \/ IssueVerifyEmail(w) \/ CreateLink(w)
  \/ SetVerified(w) \/ ConsumeLink(w)
  \/ LookupByEmail(w) \/ CreateOauthAccount(w) \/ Suppressed(w) \/ SignIn(w)
  \/ Fail(w)

Next == \E w \in Worker : Step(w)

Spec == Init /\ [][Next]_vars
-----------------------------------------------------------------------------
TypeOK ==
  /\ last \in 0..MaxUsers
  /\ email \in [User -> Email \cup {NoEmail}]
  /\ verified \in SUBSET (1..last)
  /\ issued \in 0..MaxLinks
  /\ linkUser \in [Link -> 0..last]
  /\ linkAddr \in [Link -> Email \cup {NoEmail}]
  /\ consumed \in SUBSET (1..issued)
  /\ oauth \in [Sub -> 0..last]
  /\ pc \in [Worker -> PC]
  /\ req \in [Worker -> Request]
  /\ \A w \in Worker :
       /\ req[w].user <= last /\ req[w].tok <= issued
       /\ pc[w] \notin {"idle", "create_user", "get_user_by_email"} => req[w].user # 0
  /\ proven \in SUBSET ((1..last) \X Email)
  /\ stale \in SUBSET (1..last)
  /\ outran \in SUBSET Worker

(* An account is verified only for an address it has shown to be its own,  *)
(* or the operator has given it, unless the flag was set after the address *)
(* was changed, by a link mailed to an earlier one, or by a first Google   *)
(* sign-in or a seeding in flight.                                         *)
VerifiedAddressIsProven ==
  \A u \in verified : <<u, email[u]>> \in proven \/ u \in stale

(* A link verifies again after it was consumed only in a handler that had  *)
(* looked it up before.                                                    *)
OnlyOvertakenUsesRepeat ==
  [][\A w \in Worker :
       SetVerified(w) /\ req[w].op = "verify" /\ req[w].tok \in consumed
         => w \in outran]_vars

(* A Google account is linked once and for all, to the account with its    *)
(* address, unless that changed after the lookup.                          *)
LinksAreForOwners ==
  [][\A s \in Sub :
       oauth'[s] # oauth[s]
         => /\ oauth[s] = 0
            /\ \E w \in Worker :
                 /\ pc[w] = "create_oauth_account" /\ req[w].sub = s
                 /\ email[oauth'[s]] = req[w].addr \/ w \in outran]_vars

(* A Google account signs in to the account it is linked to; to another    *)
(* one only in a handler that found no link and has been overtaken.        *)
GoogleSignsInLinkedUser ==
  [][\A w \in Worker :
       SignIn(w) /\ oauth[req[w].sub] \notin {0, req[w].user} => w \in outran]_vars
=============================================================================
