---------------------------- MODULE SessionLedger ----------------------------
(***************************************************************************)
(* What the session tables promise, without workers, statements or races:  *)
(* a ledger of sessions.  Each is opened once, for an account that exists, *)
(* under the next number; sessions are ended in groups of one account; an  *)
(* ended session is never usable again and no session changes hands.       *)
(***************************************************************************)
EXTENDS Naturals

CONSTANTS Account, Nobody, MaxSessions

VARIABLES
  accounts,   \* accounts that exist
  opened,     \* sessions 1..opened have been opened
  holder,     \* the account a session belongs to
  ended       \* sessions that are over

ledger == <<accounts, opened, holder, ended>>

Session == 1..MaxSessions

Init ==
  /\ accounts = {}
  /\ opened = 0
  /\ holder = [s \in Session |-> Nobody]
  /\ ended = {}

Enroll(a) ==
  /\ a \notin accounts
  /\ accounts' = accounts \cup {a}
  /\ UNCHANGED <<opened, holder, ended>>

Open(a) ==
  /\ a \in accounts
  /\ opened < MaxSessions
  /\ opened' = opened + 1
  /\ holder' = [holder EXCEPT ![opened + 1] = a]
  /\ UNCHANGED <<accounts, ended>>

End(a) ==
  /\ \E S \in SUBSET {s \in 1..opened : holder[s] = a} : ended' = ended \cup S
  /\ UNCHANGED <<accounts, opened, holder>>

Next == \E a \in Account : Enroll(a) \/ Open(a) \/ End(a)

Spec == Init /\ [][Next]_ledger
=============================================================================
