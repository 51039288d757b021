-------------------------- MODULE DeploymentProofs --------------------------
(***************************************************************************)
(* Proofs about Deployment for every plan without repetitions, every set   *)
(* of terminals and every bound.                                           *)
(***************************************************************************)
EXTENDS Deployment, WellFoundedInduction, TLAPS

(* The provider's state and the scripts', of which TypeOK consists.        *)
ProviderOK ==
  /\ life \in [Droplet -> {"none", "new", "active", "gone"}]
  /\ ipv6 \subseteq Droplet
  /\ code \in [Droplet -> 0..MaxHead] /\ running \in [Droplet -> 0..MaxHead]
  /\ head \in 1..MaxHead /\ made \in 0..MaxRecords
  /\ record \in [RecordId -> Record \cup {NoRecord}]
  /\ raced \subseteq RecordId

ScriptsOK ==
  /\ pc \in [Runner -> {"idle", "activating", "listing", "addressing", "updating",
                        "polling", "starting",
                        "deleting", "relisting", "cleaning"}]
  /\ op \in [Runner -> {"none", "full", "update", "teardown", "clean"}]
  /\ dry \subseteq Runner /\ disturbed \subseteq Runner
  /\ drop \in [Runner -> 0..MaxDroplets] /\ want \in [Runner -> 0..MaxHead]
  /\ todo \in [Runner -> SUBSET RecordId] /\ missing \in [Runner -> SUBSET DOMAIN Plan]
  /\ listed \in [Runner -> {<<>>} \cup [RecordId -> Record \cup {NoRecord}]]

(* A script that works on a droplet has one.                               *)
DropOK ==
  \A r \in Runner : pc[r] \notin {"idle", "relisting", "cleaning"} => drop[r] \in Droplet

BaseOK == ProviderOK /\ ScriptsOK /\ DropOK

-----------------------------------------------------------------------------
(* Least and greatest elements.                                            *)

LEMMA LessThan == OpToRel(<, Nat) = {ss \in Nat \X Nat : ss[1] < ss[2]}
BY Zenon DEF OpToRel

LEMMA MinIsLeast ==
  ASSUME NEW S \in SUBSET Nat, S # {}
  PROVE  Min(S) \in S /\ \A y \in S : Min(S) <= y
<1>1. PICK x \in S : \A y \in S : ~ (<<y, x>> \in OpToRel(<, Nat))
  BY NatLessThanWellFounded, WFMin
<1>2. ASSUME NEW y \in S PROVE x <= y
  <2>1. ~ (<<y, x>> \in {ss \in Nat \X Nat : ss[1] < ss[2]})
    BY <1>1, LessThan, Zenon
  <2>2. x \in Nat /\ y \in Nat
    OBVIOUS
  <2>3. ~ (y < x)
    BY <2>1, <2>2
  <2>. QED
    BY <2>2, <2>3
<1>. QED
  BY <1>2 DEF Min

LEMMA MaxIsGreatest ==
  ASSUME NEW n \in Nat, NEW S \in SUBSET (1..n), S # {}
  PROVE  Max(S) \in S
<1>. DEFINE T == {n - x : x \in S}
<1>0. \A x \in S : x \in Nat /\ n - x \in Nat
  <2>. SUFFICES ASSUME NEW x \in S PROVE x \in Nat /\ n - x \in Nat
    OBVIOUS
  <2>1. x \in 1..n
    OBVIOUS
  <2>. QED
    BY <2>1
<1>1. T \in SUBSET Nat /\ T # {}
  BY <1>0
<1>2. Min(T) \in T /\ \A y \in T : Min(T) <= y
  BY <1>1, MinIsLeast
<1>3. PICK x \in S : Min(T) = n - x
  BY <1>2
<1>4. ASSUME NEW y \in S PROVE x >= y
  <2>1. n - x <= n - y
    BY <1>2, <1>3
  <2>. QED
    BY <1>0, <2>1
<1>. QED
  BY <1>4 DEF Max

LEMMA PlanTypes ==
  /\ DOMAIN Plan \in SUBSET Nat
  /\ \A k \in DOMAIN Plan : Plan[k][1] \in {"A", "AAAA"} /\ Plan[k][2] \in Name
  /\ \A k \in DOMAIN Plan : Plan[k] = <<Plan[k][1], Plan[k][2]>>
  /\ \A k, l \in DOMAIN Plan : Plan[k] = Plan[l] => k = l
<1>1. Plan \in Seq({"A", "AAAA"} \X Name) /\ IsInjective(Plan)
  BY DeploymentConstants
<1>2. \A k \in DOMAIN Plan : Plan[k] \in {"A", "AAAA"} \X Name
  BY <1>1
<1>. QED
  BY <1>1, <1>2 DEF IsInjective

-----------------------------------------------------------------------------
(* Types.                                                                  *)

LEMMA BaseTypes == BaseOK => TypeOK
BY DEF BaseOK, ProviderOK, ScriptsOK, TypeOK

LEMMA BaseInit == Init => BaseOK
<1>. SUFFICES ASSUME Init PROVE BaseOK
  OBVIOUS
<1>1. PICK n \in 0..MaxOld : \E old \in Injection(1..n, {rec \in Record : rec.addr = 0}) :
        /\ made = n
        /\ record = [i \in RecordId |-> IF i <= n THEN old[i] ELSE NoRecord]
  BY DEF Init
<1>2. PICK old \in Injection(1..n, {rec \in Record : rec.addr = 0}) :
        /\ made = n
        /\ record = [i \in RecordId |-> IF i <= n THEN old[i] ELSE NoRecord]
  BY <1>1
<1>3. old \in [1..n -> {rec \in Record : rec.addr = 0}]
  BY DEF Injection
<1>4. record \in [RecordId -> Record \cup {NoRecord}] /\ made \in 0..MaxRecords
  <2>1. ASSUME NEW i \in RecordId, i <= n PROVE old[i] \in Record
    BY <1>3, <2>1 DEF RecordId
  <2>. QED
    BY <1>2, <2>1, DeploymentConstants
<1>5. ProviderOK
  BY <1>4, DeploymentConstants DEF Init, ProviderOK
<1>6. ScriptsOK
  BY DeploymentConstants DEF Init, ScriptsOK
<1>. QED
  BY <1>5, <1>6 DEF Init, BaseOK, DropOK

LEMMA ProviderNext == BaseOK /\ [Next]_vars => ProviderOK'
<1>. SUFFICES ASSUME BaseOK, [Next]_vars PROVE ProviderOK'
  OBVIOUS
<1>. USE DeploymentConstants DEF ProviderOK, providerVars, machineVars
<1>0. ProviderOK /\ ScriptsOK /\ DropOK
  BY DEF BaseOK
<1>1. CASE UNCHANGED providerVars /\ UNCHANGED machineVars /\ raced' = raced
  BY <1>0, <1>1
<1>2. ASSUME NEW r \in Runner, NEW isDry \in BOOLEAN, StartFull(r, isDry) PROVE ProviderOK'
  BY <1>0, <1>2 DEF StartFull
<1>3. ASSUME NEW r \in Runner, UpdateRecord(r) PROVE ProviderOK'
  <2>1. drop[r] \in 0..MaxDroplets
    BY <1>0 DEF ScriptsOK
  <2>2. \A i \in RecordId : record[i] # NoRecord =>
          [record[i] EXCEPT !.addr = drop[r]] \in Record
    BY <1>0, <2>1 DEF Record
  <2>3. record' = [record EXCEPT ![Min(todo[r])] = [record[Min(todo[r])] EXCEPT !.addr = drop[r]]]
        /\ record[Min(todo[r])] # NoRecord
    BY <1>3 DEF UpdateRecord
  <2>4. record' \in [RecordId -> Record \cup {NoRecord}]
    BY <1>0, <2>2, <2>3
  <2>. QED
    BY <1>0, <1>3, <2>4 DEF UpdateRecord
<1>4. ASSUME NEW r \in Runner, CreateRecord(r) PROVE ProviderOK'
  <2>. DEFINE k == Min(missing[r])
              new == [kind |-> Plan[k][1], name |-> Plan[k][2], addr |-> drop[r]]
  <2>1. k \in DOMAIN Plan
    BY <1>0, <1>4, MinIsLeast, PlanTypes DEF CreateRecord, ScriptsOK
  <2>2. new \in Record
    BY <1>0, <2>1, PlanTypes DEF Record, ScriptsOK
  <2>3. made + 1 \in RecordId /\ made' \in 0..MaxRecords
    BY <1>0, <1>4 DEF CreateRecord, RecordId
  <2>4. record' = [record EXCEPT ![made + 1] = new] /\ raced' \subseteq raced \cup {made + 1}
    BY <1>4 DEF CreateRecord
  <2>. HIDE DEF new
  <2>5. record' \in [RecordId -> Record \cup {NoRecord}] /\ raced' \subseteq RecordId
    BY <1>0, <2>2, <2>3, <2>4
  <2>. QED
    BY <1>0, <1>4, <2>3, <2>5 DEF CreateRecord
<1>5. ASSUME NEW r \in Runner, StartServices(r) PROVE ProviderOK'
  <2>1. drop[r] \in Droplet
    BY <1>0, <1>5 DEF StartServices, DropOK
  <2>. QED
    BY <1>0, <1>5, <2>1 DEF StartServices
<1>6. ASSUME NEW d, Vanish(d), UNCHANGED <<record, made, head, raced>> PROVE ProviderOK'
  <2>1. life' \in [Droplet -> {"none", "new", "active", "gone"}]
    BY <1>0, <1>6 DEF Vanish
  <2>2. ipv6' \subseteq Droplet
    BY <1>0, <1>6 DEF Vanish
  <2>3. code' \in [Droplet -> 0..MaxHead] /\ running' \in [Droplet -> 0..MaxHead]
    <3>1. 0 \in 0..MaxHead
      OBVIOUS
    <3>. QED
      BY <1>0, <1>6, <3>1 DEF Vanish
  <2>. QED
    BY <1>0, <1>6, <2>1, <2>2, <2>3
<1>7. ASSUME NEW r \in Runner, DeleteDroplet(r) PROVE ProviderOK'
  BY <1>0, <1>6, <1>7 DEF DeleteDroplet
<1>8. ASSUME NEW r \in Runner, DeleteRecord(r) PROVE ProviderOK'
  BY <1>0, <1>8 DEF DeleteRecord
<1>9. ASSUME NEW d \in Droplet, Destroy(d) PROVE ProviderOK'
  BY <1>6, <1>9 DEF Destroy
<1>10. ASSUME NEW d \in Droplet, BecomeActive(d) \/ AssignIPv6(d) PROVE ProviderOK'
  BY <1>0, <1>10 DEF BecomeActive, AssignIPv6
<1>11. ASSUME NEW d \in Droplet, UserData(d) PROVE ProviderOK'
  BY <1>0, <1>11 DEF UserData
<1>12. CASE Push
  BY <1>0, <1>12 DEF Push
<1>. HIDE DEF ProviderOK, providerVars, machineVars
<1>13. ASSUME NEW r \in Runner, Advance(r) PROVE ProviderOK'
  BY <1>1, <1>3, <1>4, <1>5, <1>7, <1>8, <1>13
  DEF Advance, Activate, NotFound, List, Address, NoAddress, UpdateGone, CreateRefused,
      Settle, Poll, PollsRunOut, PostDeployFails, ListForCleaning, Cleaning
<1>. QED
  BY <1>1, <1>2, <1>9, <1>10, <1>11, <1>12, <1>13
  DEF Next, vars, StartUpdate, StartTeardown, Fail

(* A script that exits, and one that only goes on, keep the scripts' types. *)
LEMMA StopKeepsScripts ==
  ASSUME ScriptsOK, NEW r \in Runner, Stop(r)
  PROVE  ScriptsOK'
<1>1. 0 \in 0..MaxDroplets /\ 0 \in 0..MaxHead /\ <<>> \in {<<>>}
  BY DeploymentConstants
<1>. QED
  BY <1>1 DEF ScriptsOK, Stop, Goto

LEMMA GotoKeepsScripts ==
  ASSUME ScriptsOK, NEW r \in Runner, UNCHANGED scriptVars, UNCHANGED dnsVars,
         disturbed' = disturbed,
         NEW s \in {"activating", "listing", "addressing", "updating", "polling",
                    "starting", "deleting", "relisting", "cleaning"},
         Goto(r, s)
  PROVE  ScriptsOK'
BY DEF ScriptsOK, Goto, scriptVars, dnsVars

LEMMA StartKeepsScripts ==
  ASSUME ScriptsOK, NEW r \in Runner, head \in 1..MaxHead,
         NEW o \in {"full", "update", "teardown", "clean"}, NEW isDry \in BOOLEAN,
         NEW d \in 0..MaxDroplets, NEW s \in {"activating", "listing", "deleting", "relisting"},
         Start(r, o, isDry, d, s), UNCHANGED dnsVars, disturbed' = disturbed
  PROVE  ScriptsOK'
<1>1. want' \in [Runner -> 0..MaxHead]
  <2>1. (IF o = "update" THEN head ELSE 0) \in 0..MaxHead
    BY DeploymentConstants
  <2>. QED
    BY <2>1 DEF ScriptsOK, Start
<1>2. dry' \subseteq Runner
  BY DEF ScriptsOK, Start
<1>3. op' \in [Runner -> {"none", "full", "update", "teardown", "clean"}]
  BY DEF ScriptsOK, Start
<1>4. drop' \in [Runner -> 0..MaxDroplets]
  BY DEF ScriptsOK, Start
<1>5. pc' \in [Runner -> {"idle", "activating", "listing", "addressing", "updating",
                        "polling", "starting", "deleting", "relisting", "cleaning"}]
  BY DEF ScriptsOK, Start, Goto
<1>. QED
  BY <1>1, <1>2, <1>3, <1>4, <1>5 DEF ScriptsOK, dnsVars

LEMMA NewestIsAlive == Alive # {} => Newest \in Alive
<1>1. MaxDroplets \in Nat /\ Alive \in SUBSET (1..MaxDroplets)
  BY DeploymentConstants DEF Alive, Droplet
<1>. QED
  BY <1>1, MaxIsGreatest DEF Newest

LEMMA StartTypes ==
  ASSUME BaseOK, NEW r \in Runner
  PROVE  /\ \A isDry \in BOOLEAN : StartFull(r, isDry) \/ StartUpdate(r, isDry) => ScriptsOK'
         /\ \A o \in {"teardown", "clean"} : StartTeardown(r, o) => ScriptsOK'
<1>. USE DEF BaseOK
<1>0. head \in 1..MaxHead /\ \A d \in Droplet : d \in 0..MaxDroplets
  BY DEF ProviderOK, Droplet
<1>1. ASSUME NEW isDry \in BOOLEAN, StartFull(r, isDry) PROVE ScriptsOK'
  <2>. DEFINE d == Cardinality(Created) + 1
  <2>1. d \in Droplet /\ Start(r, "full", isDry, d, "activating")
        /\ UNCHANGED dnsVars /\ disturbed' = disturbed
    BY <1>1 DEF StartFull
  <2>. HIDE DEF d
  <2>. QED
    BY <1>0, <2>1, StartKeepsScripts
<1>2. ASSUME NEW isDry \in BOOLEAN, StartUpdate(r, isDry) PROVE ScriptsOK'
  <2>1. Newest \in Droplet /\ Start(r, "update", isDry, Newest, "listing")
        /\ UNCHANGED dnsVars /\ disturbed' = disturbed
    BY <1>2, NewestIsAlive DEF StartUpdate, Alive
  <2>. QED
    BY <1>0, <2>1, StartKeepsScripts
<1>3. ASSUME NEW o \in {"teardown", "clean"}, StartTeardown(r, o) PROVE ScriptsOK'
  <2>1. UNCHANGED dnsVars /\ disturbed' = disturbed
    BY <1>3 DEF StartTeardown
  <2>2. CASE \E d \in Alive : Start(r, o, FALSE, d, "deleting")
    <3>1. PICK d \in Alive : Start(r, o, FALSE, d, "deleting")
      BY <2>2
    <3>. QED
      BY <1>0, <2>1, <3>1, StartKeepsScripts DEF Alive
  <2>3. CASE Start(r, o, FALSE, 0, "relisting")
    <3>1. 0 \in 0..MaxDroplets
      BY DeploymentConstants
    <3>. QED
      BY <1>0, <2>1, <2>3, <3>1, StartKeepsScripts
  <2>. QED
    BY <1>3, <2>2, <2>3 DEF StartTeardown
<1>. QED
  BY <1>1, <1>2, <1>3

LEMMA AdvanceTypes ==
  ASSUME BaseOK, NEW r \in Runner, Advance(r)
  PROVE  ScriptsOK'
<1>. USE DEF BaseOK
<1>1. CASE \/ Activate(r) \/ Poll(r) \/ DeleteDroplet(r)
  BY <1>1, GotoKeepsScripts DEF Activate, Poll, DeleteDroplet
<1>2. CASE \/ NotFound(r) \/ NoAddress(r) \/ UpdateGone(r) \/ CreateRefused(r)
           \/ PollsRunOut(r) \/ StartServices(r) \/ PostDeployFails(r) \/ Cleaning(r)
  BY <1>2, StopKeepsScripts
  DEF NotFound, NoAddress, UpdateGone, CreateRefused, PollsRunOut, StartServices,
      PostDeployFails, Cleaning
<1>3. CASE Settle(r)
  BY <1>3, StopKeepsScripts, GotoKeepsScripts DEF Settle
<1>4. CASE List(r)
  BY <1>4 DEF List, Goto, ScriptsOK, ProviderOK, scriptVars
<1>5. CASE Address(r)
  <2>1. todo' \in [Runner -> SUBSET RecordId]
    BY <1>5 DEF Address, Found, ScriptsOK
  <2>2. missing' \in [Runner -> SUBSET DOMAIN Plan]
    BY <1>5 DEF Address, ScriptsOK
  <2>3. listed' \in [Runner -> {<<>>} \cup [RecordId -> Record \cup {NoRecord}]]
    BY <1>5 DEF Address, ScriptsOK
  <2>. QED
    BY <1>5, <2>1, <2>2, <2>3 DEF Address, Goto, ScriptsOK, scriptVars
<1>6. CASE UpdateRecord(r) \/ DeleteRecord(r)
  <2>1. UNCHANGED <<scriptVars, listed, missing, pc>> /\ Disturb(r)
        /\ todo' = [todo EXCEPT ![r] = todo[r] \ {Min(todo[r])}]
    BY <1>6 DEF UpdateRecord, DeleteRecord
  <2>. QED
    BY <2>1 DEF Disturb, ScriptsOK, scriptVars
<1>7. CASE CreateRecord(r)
  <2>1. UNCHANGED <<scriptVars, listed, todo, pc>> /\ Disturb(r)
        /\ missing' = [missing EXCEPT ![r] = missing[r] \ {Min(missing[r])}]
    BY <1>7 DEF CreateRecord
  <2>. QED
    BY <2>1 DEF Disturb, ScriptsOK, scriptVars
<1>8. CASE ListForCleaning(r)
  <2>1. todo' \in [Runner -> SUBSET RecordId]
    BY <1>8 DEF ListForCleaning, Present, ScriptsOK
  <2>. QED
    BY <1>8, <2>1 DEF ListForCleaning, Goto, ScriptsOK, scriptVars
<1>. QED
  BY <1>1, <1>2, <1>3, <1>4, <1>5, <1>6, <1>7, <1>8 DEF Advance

LEMMA ScriptsNext == BaseOK /\ [Next]_vars => ScriptsOK'
<1>. SUFFICES ASSUME BaseOK, [Next]_vars PROVE ScriptsOK'
  OBVIOUS
<1>0. ScriptsOK
  BY DEF BaseOK
<1>1. CASE UNCHANGED <<dnsVars, scriptVars, pc, disturbed>>
  BY <1>0, <1>1 DEF ScriptsOK, dnsVars, scriptVars
<1>2. ASSUME NEW r \in Runner, Fail(r) PROVE ScriptsOK'
  BY <1>0, <1>2, StopKeepsScripts DEF Fail
<1>3. ASSUME NEW d \in Droplet, Destroy(d) \/ BecomeActive(d) \/ AssignIPv6(d) \/ UserData(d)
      PROVE  ScriptsOK'
  BY <1>1, <1>3 DEF Destroy, BecomeActive, AssignIPv6, UserData
<1>4. CASE Push
  BY <1>1, <1>4 DEF Push
<1>. QED
  BY <1>1, <1>2, <1>3, <1>4, StartTypes, AdvanceTypes DEF Next, vars

(* The droplet of a script.                                                *)
LEMMA DropNext == BaseOK /\ [Next]_vars => DropOK'
<1>. SUFFICES ASSUME BaseOK, [Next]_vars, ScriptsOK', NEW q \in Runner,
                     pc'[q] \notin {"idle", "relisting", "cleaning"}
              PROVE  drop'[q] \in Droplet
  BY ScriptsNext DEF DropOK
<1>0. ScriptsOK /\ DropOK
  BY DEF BaseOK
<1>1. CASE pc' = pc /\ drop' = drop
  BY <1>0, <1>1 DEF DropOK
<1>2. ASSUME NEW r \in Runner, Stop(r) PROVE drop'[q] \in Droplet
  BY <1>0, <1>2 DEF Stop, Goto, ScriptsOK, DropOK
<1>3. ASSUME NEW r \in Runner, NEW s, Goto(r, s), drop' = drop,
             \/ pc[r] \notin {"idle", "relisting", "cleaning"}
             \/ s \in {"relisting", "cleaning"}
      PROVE  drop'[q] \in Droplet
  BY <1>0, <1>3 DEF Goto, ScriptsOK, DropOK
<1>4. ASSUME NEW r \in Runner, NEW o, NEW isDry, NEW d, NEW s, Start(r, o, isDry, d, s),
             d \in Droplet \/ s = "relisting"
      PROVE  drop'[q] \in Droplet
  BY <1>0, <1>4 DEF Start, Goto, ScriptsOK, DropOK
<1>5. ASSUME NEW r \in Runner, NEW isDry \in BOOLEAN, StartFull(r, isDry) \/ StartUpdate(r, isDry)
      PROVE  drop'[q] \in Droplet
  <2>1. CASE StartFull(r, isDry)
    BY <1>4, <2>1, Zenon DEF StartFull
  <2>2. CASE StartUpdate(r, isDry)
    <3>1. Newest \in Droplet
      BY <2>2, NewestIsAlive DEF StartUpdate, Alive
    <3>. QED
      BY <1>4, <2>2, <3>1 DEF StartUpdate
  <2>. QED
    BY <1>5, <2>1, <2>2
<1>6. ASSUME NEW r \in Runner, NEW o, StartTeardown(r, o) PROVE drop'[q] \in Droplet
  BY <1>4, <1>6 DEF StartTeardown, Alive
<1>7. ASSUME NEW r \in Runner, Advance(r) PROVE drop'[q] \in Droplet
  <2>1. CASE \/ Activate(r) \/ List(r) \/ Address(r) \/ Poll(r) \/ DeleteDroplet(r)
             \/ ListForCleaning(r)
    BY <1>3, <2>1
    DEF Activate, List, Address, Poll, DeleteDroplet, ListForCleaning, scriptVars
  <2>2. CASE \/ NotFound(r) \/ NoAddress(r) \/ UpdateGone(r) \/ CreateRefused(r)
             \/ PollsRunOut(r) \/ StartServices(r) \/ PostDeployFails(r) \/ Cleaning(r)
    BY <1>2, <2>2
    DEF NotFound, NoAddress, UpdateGone, CreateRefused, PollsRunOut, StartServices,
        PostDeployFails, Cleaning
  <2>3. CASE Settle(r)
    BY <1>2, <1>3, <2>3 DEF Settle, scriptVars
  <2>4. CASE UpdateRecord(r) \/ CreateRecord(r) \/ DeleteRecord(r)
    BY <1>1, <2>4 DEF UpdateRecord, CreateRecord, DeleteRecord, scriptVars
  <2>. QED
    BY <1>7, <2>1, <2>2, <2>3, <2>4 DEF Advance
<1>8. ASSUME NEW r \in Runner, Fail(r) PROVE drop'[q] \in Droplet
  BY <1>2, <1>8 DEF Fail
<1>9. ASSUME NEW d \in Droplet, Destroy(d) \/ BecomeActive(d) \/ AssignIPv6(d) \/ UserData(d)
      PROVE  drop'[q] \in Droplet
  BY <1>1, <1>9 DEF Destroy, BecomeActive, AssignIPv6, UserData, scriptVars
<1>10. CASE Push
  BY <1>1, <1>10 DEF Push, scriptVars
<1>. QED
  BY <1>1, <1>5, <1>6, <1>7, <1>8, <1>9, <1>10 DEF Next, vars, scriptVars

LEMMA BaseNext == BaseOK /\ [Next]_vars => BaseOK'
BY ProviderNext, ScriptsNext, DropNext DEF BaseOK

(* Every state variable keeps its type, and a script in the middle of its  *)
(* work on a droplet has one, in every behaviour of the scripts.           *)
THEOREM TypeCorrect == Spec => []TypeOK
<1>1. Spec => []BaseOK
  BY BaseInit, BaseNext, PTL DEF Spec
<1>. QED
  BY <1>1, BaseTypes, PTL

-----------------------------------------------------------------------------
(* The inductive invariant. Records are numbered as they are created; and  *)
(* a script that nobody has disturbed since it listed the records still    *)
(* knows them: its list is the zone, what it is to create does not exist,  *)
(* and unless it is a dry run whatever does not point at its droplet is on *)
(* its list of updates.                                                    *)
MadeOK == \A i \in Present : i <= made

Creates(r) == \A k \in missing[r] : \A i \in Present : Key(record[i]) # Plan[k]

Updates(r) ==
  /\ \A i \in Present : Matched(record[i]) => record[i].addr = drop[r] \/ i \in todo[r]
  /\ \A k \in DOMAIN Plan : k \in missing[r] \/ \E i \in Present : Key(record[i]) = Plan[k]

Knows(r) ==
  r \notin disturbed =>
    /\ pc[r] = "addressing" => listed[r] = record
    /\ pc[r] = "updating" => Creates(r) /\ (r \notin dry => Updates(r))
    /\ pc[r] \in {"polling", "starting"} /\ r \notin dry => PointsAt(drop[r])

KnowledgeOK == \A r \in Runner : Knows(r)

IndInv == BaseOK /\ MadeOK /\ KnowledgeOK /\ DuplicatesComeFromRaces

(* What a step of one script does to another one: nothing, except that it  *)
(* disturbs it when it changes the records.                                *)
Kept(q) ==
  /\ pc'[q] = pc[q] /\ drop'[q] = drop[q]
  /\ listed'[q] = listed[q] /\ todo'[q] = todo[q] /\ missing'[q] = missing[q]
  /\ q \in dry' <=> q \in dry
  /\ q \notin disturbed' =>
       /\ q \notin disturbed
       /\ record' = record \/ pc[q] \notin {"addressing", "updating", "polling", "starting"}

LEMMA KeptKnows ==
  ASSUME NEW q \in Runner, Knows(q), Kept(q)
  PROVE  Knows(q)'
<1>1. CASE record' = record
  <2>1. Present' = Present
    BY <1>1 DEF Present
  <2>. QED
    BY <1>1, <2>1 DEF Knows, Kept, Creates, Updates, PointsAt
<1>2. CASE pc[q] \notin {"addressing", "updating", "polling", "starting"}
  BY <1>2 DEF Knows, Kept
<1>3. CASE q \in disturbed'
  BY <1>3 DEF Knows
<1>. QED
  BY <1>1, <1>2, <1>3 DEF Kept

LEMMA StopKeeps ==
  ASSUME ScriptsOK, NEW r \in Runner, NEW q \in Runner \ {r}, Stop(r), record' = record
  PROVE  Kept(q)
BY DEF Stop, Goto, ScriptsOK, Kept

LEMMA StartKeeps ==
  ASSUME ScriptsOK, NEW r \in Runner, NEW q \in Runner \ {r}, NEW o, NEW isDry, NEW d, NEW s,
         Start(r, o, isDry, d, s), UNCHANGED dnsVars, disturbed' = disturbed, record' = record
  PROVE  Kept(q)
BY DEF Start, Goto, ScriptsOK, Kept, dnsVars

LEMMA AdvanceKeeps ==
  ASSUME ScriptsOK, NEW r \in Runner, NEW q \in Runner \ {r}, Advance(r)
  PROVE  Kept(q)
<1>. USE DEF scriptVars, dnsVars, providerVars
<1>1. CASE \/ Activate(r) \/ List(r) \/ Poll(r) \/ DeleteDroplet(r) \/ ListForCleaning(r)
  BY <1>1 DEF Activate, List, Poll, DeleteDroplet, ListForCleaning, Goto, ScriptsOK, Kept
<1>2. CASE Address(r)
  BY <1>2 DEF Address, Goto, ScriptsOK, Kept
<1>3. CASE \/ NotFound(r) \/ NoAddress(r) \/ UpdateGone(r) \/ CreateRefused(r)
           \/ PollsRunOut(r) \/ StartServices(r) \/ PostDeployFails(r) \/ Cleaning(r)
  BY <1>3, StopKeeps
  DEF NotFound, NoAddress, UpdateGone, CreateRefused, PollsRunOut, StartServices,
      PostDeployFails, Cleaning
<1>4. CASE Settle(r)
  <2>1. /\ record' = record
        /\ \/ Stop(r)
           \/ Goto(r, "polling") /\ UNCHANGED <<dnsVars, scriptVars, disturbed>>
    BY <1>4, Zenon DEF Settle, providerVars
  <2>2. CASE Goto(r, "polling") /\ UNCHANGED <<dnsVars, scriptVars, disturbed>>
    BY <2>1, <2>2 DEF Goto, ScriptsOK, Kept
  <2>. QED
    BY <2>1, <2>2, StopKeeps
<1>5. CASE UpdateRecord(r) \/ DeleteRecord(r)
  <2>1. todo' = [todo EXCEPT ![r] = todo[r] \ {Min(todo[r])}] /\ Disturb(r)
        /\ UNCHANGED <<listed, missing, scriptVars, pc>>
    BY <1>5 DEF UpdateRecord, DeleteRecord
  <2>. QED
    BY <2>1 DEF Disturb, ScriptsOK, Kept
<1>6. CASE CreateRecord(r)
  <2>1. missing' = [missing EXCEPT ![r] = missing[r] \ {Min(missing[r])}] /\ Disturb(r)
        /\ UNCHANGED <<listed, todo, scriptVars, pc>>
    BY <1>6 DEF CreateRecord
  <2>. QED
    BY <2>1 DEF Disturb, ScriptsOK, Kept
<1>. QED
  BY <1>1, <1>2, <1>3, <1>4, <1>5, <1>6 DEF Advance

-----------------------------------------------------------------------------
(* What the three calls that change a record do to the zone.               *)

LEMMA RecordIsNotNone == \A rec \in Record : rec # NoRecord
<1>. SUFFICES ASSUME NEW rec \in Record, rec = NoRecord PROVE FALSE
  OBVIOUS
<1>1. rec.kind \in {"A", "AAAA"} /\ rec.kind = "none"
  BY DEF Record, NoRecord
<1>. QED
  BY <1>1

LEMMA LeastTodo ==
  ASSUME ScriptsOK, NEW r \in Runner
  PROVE  /\ todo[r] # {} => Min(todo[r]) \in todo[r] /\ Min(todo[r]) \in RecordId
         /\ missing[r] # {} => Min(missing[r]) \in missing[r] /\ Min(missing[r]) \in DOMAIN Plan
<1>1. todo[r] \in SUBSET RecordId /\ missing[r] \in SUBSET DOMAIN Plan
  BY DEF ScriptsOK
<1>2. RecordId \in SUBSET Nat /\ DOMAIN Plan \in SUBSET Nat
  BY PlanTypes DEF RecordId
<1>. QED
  BY <1>1, <1>2, MinIsLeast

LEMMA Updated ==
  ASSUME BaseOK, NEW r \in Runner, UpdateRecord(r)
  PROVE  /\ Min(todo[r]) \in todo[r] \cap Present
         /\ \A i \in RecordId : i # Min(todo[r]) => record'[i] = record[i]
         /\ record'[Min(todo[r])].addr = drop[r]
         /\ Present' = Present
         /\ \A i \in Present : /\ Key(record'[i]) = Key(record[i])
                               /\ Matched(record'[i]) <=> Matched(record[i])
<1>. DEFINE m == Min(todo[r])
<1>0. m \in todo[r] /\ m \in RecordId /\ record[m] # NoRecord
  BY LeastTodo DEF UpdateRecord, BaseOK
<1>1. record' = [record EXCEPT ![m] = [record[m] EXCEPT !.addr = drop[r]]]
  BY DEF UpdateRecord
<1>. HIDE DEF m
<1>2. record \in [RecordId -> Record \cup {NoRecord}] /\ drop[r] \in 0..MaxDroplets
  BY DEF BaseOK, ProviderOK, ScriptsOK
<1>3. record'[m] = [record[m] EXCEPT !.addr = drop[r]] /\ record[m] \in Record
  BY <1>0, <1>1, <1>2
<1>4. /\ record'[m].addr = drop[r] /\ record'[m].kind = record[m].kind
      /\ record'[m].name = record[m].name /\ record'[m] \in Record
  BY <1>2, <1>3 DEF Record
<1>5. \A i \in RecordId : i # m => record'[i] = record[i]
  BY <1>1, <1>2
<1>6. Present' = Present
  BY <1>0, <1>4, <1>5, RecordIsNotNone DEF Present
<1>7. \A i \in Present : record'[i].kind = record[i].kind /\ record'[i].name = record[i].name
  BY <1>4, <1>5 DEF Present
<1>8. \A i \in Present : Key(record'[i]) = Key(record[i])
                         /\ (Matched(record'[i]) <=> Matched(record[i]))
  BY <1>7 DEF Key, Matched
<1>. QED
  BY <1>0, <1>4, <1>5, <1>6, <1>8 DEF Present, m

LEMMA Made ==
  ASSUME BaseOK, MadeOK, NEW r \in Runner, CreateRecord(r)
  PROVE  /\ Min(missing[r]) \in missing[r] /\ Min(missing[r]) \in DOMAIN Plan
         /\ made + 1 \in RecordId /\ made + 1 \notin Present
         /\ Present' = Present \cup {made + 1}
         /\ \A i \in Present : record'[i] = record[i]
         /\ Key(record'[made + 1]) = Plan[Min(missing[r])]
         /\ record'[made + 1].addr = drop[r]
<1>. DEFINE k == Min(missing[r])
            new == [kind |-> Plan[k][1], name |-> Plan[k][2], addr |-> drop[r]]
<1>0. k \in missing[r] /\ k \in DOMAIN Plan
  BY LeastTodo DEF CreateRecord, BaseOK
<1>1. made + 1 \in RecordId /\ made \in Nat
  BY DeploymentConstants DEF CreateRecord, RecordId, BaseOK, ProviderOK
<1>2. record' = [record EXCEPT ![made + 1] = new]
  BY DEF CreateRecord
<1>3. new \in Record
  BY <1>0, PlanTypes DEF BaseOK, ScriptsOK, Record
<1>4. Key(new) = Plan[k] /\ new.addr = drop[r]
  BY <1>0, PlanTypes DEF Key
<1>. HIDE DEF k, new
<1>5. record \in [RecordId -> Record \cup {NoRecord}]
  BY DEF BaseOK, ProviderOK
<1>6. made + 1 \notin Present
  BY <1>1 DEF MadeOK
<1>7. record'[made + 1] = new /\ \A i \in RecordId : i # made + 1 => record'[i] = record[i]
  BY <1>1, <1>2, <1>5
<1>8. Present' = Present \cup {made + 1}
  BY <1>1, <1>3, <1>7, RecordIsNotNone DEF Present
<1>. QED
  BY <1>0, <1>1, <1>4, <1>6, <1>7, <1>8 DEF Present, k

LEMMA Deleted ==
  ASSUME BaseOK, NEW r \in Runner, DeleteRecord(r)
  PROVE  /\ Present' = Present \ {Min(todo[r])}
         /\ \A i \in Present' : record'[i] = record[i]
<1>. DEFINE m == Min(todo[r])
<1>0. m \in RecordId
  BY LeastTodo DEF DeleteRecord, BaseOK
<1>1. record' = [record EXCEPT ![m] = NoRecord]
  BY DEF DeleteRecord
<1>. HIDE DEF m
<1>2. record'[m] = NoRecord /\ \A i \in RecordId : i # m => record'[i] = record[i]
  BY <1>0, <1>1 DEF BaseOK, ProviderOK
<1>3. Present' = Present \ {m}
  BY <1>0, <1>2 DEF Present
<1>. QED
  BY <1>2, <1>3 DEF Present, m

-----------------------------------------------------------------------------
(* A script keeps what it knows up to date, until another one disturbs it. *)

LEMMA AddressKnows ==
  ASSUME ScriptsOK, NEW r \in Runner, Knows(r), Address(r)
  PROVE  Knows(r)'
<1>. SUFFICES ASSUME r \notin disturbed PROVE Knows(r)'
  BY DEF Address, Knows
<1>1. listed[r] = record
  BY DEF Knows, Address
<1>2. /\ record' = record /\ drop' = drop /\ dry' = dry /\ pc'[r] = "updating"
      /\ todo'[r] = IF r \in dry THEN {} ELSE Found(r)
      /\ missing'[r] = IF r \in dry THEN {}
                       ELSE {k \in DOMAIN Plan : \A i \in Found(r) : Key(record[i]) # Plan[k]}
  BY <1>1 DEF Address, Goto, ScriptsOK, scriptVars, providerVars
<1>3. Found(r) = {i \in Present : Matched(record[i])} /\ Present' = Present
  BY <1>1, <1>2 DEF Found, Present
<1>4. Creates(r)'
  <2>1. SUFFICES ASSUME NEW k \in missing'[r], NEW i \in Present, Key(record[i]) = Plan[k] PROVE FALSE
    BY <1>2, <1>3 DEF Creates
  <2>2. r \notin dry /\ k \in DOMAIN Plan /\ \A j \in Found(r) : Key(record[j]) # Plan[k]
    BY <1>2, <2>1
  <2>3. Matched(record[i])
    BY <2>1, <2>2 DEF Matched, Wanted, Range
  <2>. QED
    BY <1>3, <2>1, <2>2, <2>3
<1>5. r \notin dry => Updates(r)'
  <2>. SUFFICES ASSUME r \notin dry PROVE Updates(r)'
    OBVIOUS
  <2>1. todo'[r] = {i \in Present : Matched(record[i])}
    BY <1>2, <1>3
  <2>2. ASSUME NEW k \in DOMAIN Plan
        PROVE  k \in missing'[r] \/ \E i \in Present : Key(record[i]) = Plan[k]
    BY <1>2, <1>3
  <2>. QED
    BY <1>2, <1>3, <2>1, <2>2 DEF Updates
<1>. QED
  BY <1>2, <1>4, <1>5 DEF Knows

LEMMA UpdateKnows ==
  ASSUME BaseOK, NEW r \in Runner, Knows(r), UpdateRecord(r)
  PROVE  Knows(r)'
<1>. DEFINE m == Min(todo[r])
<1>1. /\ pc[r] = "updating" /\ pc' = pc /\ drop' = drop /\ dry' = dry /\ missing' = missing
      /\ todo'[r] = todo[r] \ {m} /\ (r \in disturbed' <=> r \in disturbed)
  BY DEF UpdateRecord, Disturb, scriptVars, BaseOK, ScriptsOK
<1>2. /\ \A i \in RecordId : i # m => record'[i] = record[i]
      /\ record'[m].addr = drop[r] /\ Present' = Present
      /\ \A i \in Present : Key(record'[i]) = Key(record[i])
                           /\ (Matched(record'[i]) <=> Matched(record[i]))
  BY Updated
<1>. HIDE DEF m
<1>3. Creates(r) => Creates(r)'
  BY <1>1, <1>2 DEF Creates
<1>4. Updates(r) => Updates(r)'
  <2>. SUFFICES ASSUME Updates(r) PROVE Updates(r)'
    OBVIOUS
  <2>1. ASSUME NEW i \in Present, Matched(record'[i])
        PROVE  record'[i].addr = drop[r] \/ i \in todo'[r]
    BY <1>1, <1>2, <2>1 DEF Updates, Present
  <2>2. ASSUME NEW k \in DOMAIN Plan
        PROVE  k \in missing[r] \/ \E i \in Present : Key(record'[i]) = Plan[k]
    BY <1>2 DEF Updates
  <2>. QED
    BY <1>1, <1>2, <2>1, <2>2 DEF Updates
<1>. QED
  BY <1>1, <1>3, <1>4 DEF Knows

LEMMA CreateKnows ==
  ASSUME BaseOK, MadeOK, NEW r \in Runner, Knows(r), CreateRecord(r)
  PROVE  Knows(r)'
<1>. DEFINE k == Min(missing[r])
<1>1. /\ pc[r] = "updating" /\ pc' = pc /\ drop' = drop /\ dry' = dry /\ todo' = todo
      /\ missing'[r] = missing[r] \ {k} /\ (r \in disturbed' <=> r \in disturbed)
  BY DEF CreateRecord, Disturb, scriptVars, BaseOK, ScriptsOK
<1>2. /\ k \in missing[r] /\ k \in DOMAIN Plan
      /\ Present' = Present \cup {made + 1}
      /\ \A i \in Present : record'[i] = record[i]
      /\ Key(record'[made + 1]) = Plan[k]
      /\ record'[made + 1].addr = drop[r]
  BY Made
<1>3. missing[r] \subseteq DOMAIN Plan
  BY DEF BaseOK, ScriptsOK
<1>. HIDE DEF k
<1>4. Creates(r) => Creates(r)'
  BY <1>1, <1>2, <1>3, PlanTypes DEF Creates
<1>5. Updates(r) => Updates(r)'
  <2>. SUFFICES ASSUME Updates(r) PROVE Updates(r)'
    OBVIOUS
  <2>1. ASSUME NEW i \in Present', Matched(record'[i])
        PROVE  record'[i].addr = drop[r] \/ i \in todo[r]
    BY <1>2, <2>1 DEF Updates
  <2>2. ASSUME NEW l \in DOMAIN Plan
        PROVE  l \in missing'[r] \/ \E i \in Present' : Key(record'[i]) = Plan[l]
    BY <1>1, <1>2 DEF Updates
  <2>. QED
    BY <1>1, <1>2, <2>1, <2>2 DEF Updates
<1>. QED
  BY <1>1, <1>4, <1>5 DEF Knows

(* When nothing is left to update or to create, the names are its own.     *)
LEMMA DonePointsAt ==
  ASSUME NEW r \in Runner, Updates(r), todo[r] = {}, missing[r] = {}
  PROVE  PointsAt(drop[r])
<1>1. ASSUME NEW key \in Wanted PROVE \E i \in Present : Key(record[i]) = key
  <2>1. PICK k \in DOMAIN Plan : Plan[k] = key
    BY DEF Wanted, Range
  <2>. QED
    BY <2>1 DEF Updates
<1>. QED
  BY <1>1 DEF PointsAt, Updates

LEMMA StopKnows ==
  ASSUME ScriptsOK, NEW r \in Runner, Stop(r)
  PROVE  Knows(r)'
BY DEF Stop, Goto, Knows, ScriptsOK

LEMMA StartKnows ==
  ASSUME ScriptsOK, NEW r \in Runner, NEW o, NEW isDry, NEW d,
         NEW s \in {"activating", "listing", "deleting", "relisting"}, Start(r, o, isDry, d, s)
  PROVE  Knows(r)'
BY DEF Start, Goto, Knows, ScriptsOK

LEMMA AdvanceKnows ==
  ASSUME BaseOK, MadeOK, NEW r \in Runner, Knows(r), Advance(r)
  PROVE  Knows(r)'
<1>0. ScriptsOK
  BY DEF BaseOK
<1>1. CASE \/ Activate(r) \/ DeleteDroplet(r) \/ ListForCleaning(r)
  BY <1>0, <1>1 DEF Activate, DeleteDroplet, ListForCleaning, Goto, ScriptsOK, Knows
<1>2. CASE List(r)
  BY <1>0, <1>2 DEF List, Goto, ScriptsOK, Knows, providerVars
<1>3. CASE \/ NotFound(r) \/ NoAddress(r) \/ UpdateGone(r) \/ CreateRefused(r)
           \/ PollsRunOut(r) \/ StartServices(r) \/ PostDeployFails(r) \/ Cleaning(r)
  BY <1>0, <1>3, StopKnows
  DEF NotFound, NoAddress, UpdateGone, CreateRefused, PollsRunOut, StartServices,
      PostDeployFails, Cleaning
<1>4. CASE Settle(r)
  <2>1. /\ pc[r] = "updating" /\ todo[r] = {} /\ missing[r] = {} /\ record' = record
        /\ \/ Stop(r)
           \/ Goto(r, "polling") /\ UNCHANGED <<dnsVars, scriptVars, disturbed>>
    BY <1>4, Zenon DEF Settle, providerVars
  <2>2. CASE Goto(r, "polling") /\ UNCHANGED <<dnsVars, scriptVars, disturbed>>
    <3>1. Present' = Present
      BY <2>1 DEF Present
    <3>2. pc'[r] = "polling" /\ drop' = drop /\ dry' = dry /\ disturbed' = disturbed
      BY <1>0, <2>2 DEF Goto, ScriptsOK, scriptVars
    <3>3. r \notin disturbed \cup dry => PointsAt(drop[r])
      BY <2>1, DonePointsAt DEF Knows
    <3>. QED
      BY <2>1, <3>1, <3>2, <3>3 DEF Knows, PointsAt
  <2>. QED
    BY <1>0, <2>1, <2>2, StopKnows
<1>5. CASE Poll(r)
  <2>1. /\ pc[r] = "polling" /\ pc'[r] = "starting" /\ record' = record
        /\ drop' = drop /\ dry' = dry /\ disturbed' = disturbed
    BY <1>0, <1>5 DEF Poll, Goto, ScriptsOK, scriptVars, providerVars
  <2>2. Present' = Present
    BY <2>1 DEF Present
  <2>. QED
    BY <2>1, <2>2 DEF Knows, PointsAt
<1>6. CASE DeleteRecord(r)
  BY <1>0, <1>6 DEF DeleteRecord, Knows
<1>. QED
  BY <1>0, <1>1, <1>2, <1>3, <1>4, <1>5, <1>6, AddressKnows, UpdateKnows, CreateKnows DEF Advance

(* Every step, for every script.                                           *)
LEMMA KnowledgeNext == BaseOK /\ MadeOK /\ KnowledgeOK /\ [Next]_vars => KnowledgeOK'
<1>. SUFFICES ASSUME BaseOK, MadeOK, KnowledgeOK, [Next]_vars, NEW q \in Runner PROVE Knows(q)'
  BY DEF KnowledgeOK
<1>0. ScriptsOK /\ Knows(q)
  BY DEF BaseOK, KnowledgeOK
<1>1. CASE UNCHANGED <<record, dnsVars, scriptVars, pc, disturbed>>
  BY <1>0, <1>1, KeptKnows DEF Kept, dnsVars, scriptVars
<1>2. ASSUME NEW r \in Runner, NEW o, NEW isDry, NEW d,
             NEW s \in {"activating", "listing", "deleting", "relisting"},
             Start(r, o, isDry, d, s), UNCHANGED <<record, dnsVars, disturbed>>
      PROVE  Knows(q)'
  <2>1. CASE q = r
    BY <1>0, <1>2, <2>1, StartKnows
  <2>2. CASE q # r
    BY <1>0, <1>2, <2>2, StartKeeps, KeptKnows
  <2>. QED
    BY <2>1, <2>2
<1>3. ASSUME NEW r \in Runner, NEW isDry \in BOOLEAN, StartFull(r, isDry) PROVE Knows(q)'
  <2>. DEFINE d == Cardinality(Created) + 1
  <2>1. Start(r, "full", isDry, d, "activating") /\ UNCHANGED <<record, dnsVars, disturbed>>
    BY <1>3 DEF StartFull
  <2>. HIDE DEF d
  <2>. QED
    BY <1>2, <2>1
<1>4. ASSUME NEW r \in Runner, NEW isDry \in BOOLEAN, StartUpdate(r, isDry) PROVE Knows(q)'
  BY <1>2, <1>4 DEF StartUpdate, providerVars
<1>5. ASSUME NEW r \in Runner, NEW o \in {"teardown", "clean"}, StartTeardown(r, o) PROVE Knows(q)'
  <2>1. /\ UNCHANGED <<record, dnsVars, disturbed>>
        /\ \/ \E d \in Alive : Start(r, o, FALSE, d, "deleting")
           \/ Start(r, o, FALSE, 0, "relisting")
    BY <1>5 DEF StartTeardown, providerVars
  <2>. QED
    BY <1>2, <2>1
<1>6. ASSUME NEW r \in Runner, Advance(r) PROVE Knows(q)'
  <2>1. CASE q = r
    BY <1>0, <1>6, <2>1, AdvanceKnows
  <2>2. CASE q # r
    BY <1>0, <1>6, <2>2, AdvanceKeeps, KeptKnows
  <2>. QED
    BY <2>1, <2>2
<1>7. ASSUME NEW r \in Runner, Fail(r) PROVE Knows(q)'
  <2>1. Stop(r) /\ record' = record
    BY <1>7 DEF Fail, providerVars
  <2>. QED
    BY <1>0, <2>1, StopKnows, StopKeeps, KeptKnows
<1>8. ASSUME NEW d \in Droplet, Destroy(d) \/ BecomeActive(d) \/ AssignIPv6(d) \/ UserData(d)
      PROVE  Knows(q)'
  BY <1>1, <1>8 DEF Destroy, BecomeActive, AssignIPv6, UserData, providerVars
<1>9. CASE Push
  BY <1>1, <1>9 DEF Push, providerVars
<1>. QED
  BY <1>1, <1>3, <1>4, <1>5, <1>6, <1>7, <1>8, <1>9 DEF Next, vars, providerVars

-----------------------------------------------------------------------------
(* The records there are.                                                  *)

LEMMA RecordsNext ==
  ASSUME IndInv, [Next]_vars
  PROVE  MadeOK' /\ DuplicatesComeFromRaces'
<1>0. BaseOK /\ MadeOK /\ DuplicatesComeFromRaces
  BY DEF IndInv
<1>1. CASE UNCHANGED <<record, made, raced>>
  <2>1. Present' = Present
    BY <1>1 DEF Present
  <2>. QED
    BY <1>0, <1>1, <2>1 DEF MadeOK, DuplicatesComeFromRaces
<1>2. ASSUME NEW r \in Runner, UpdateRecord(r) PROVE MadeOK' /\ DuplicatesComeFromRaces'
  <2>1. Present' = Present /\ \A i \in Present : Key(record'[i]) = Key(record[i])
    BY <1>0, <1>2, Updated
  <2>2. made' = made /\ raced' = raced
    BY <1>2 DEF UpdateRecord
  <2>. QED
    BY <1>0, <2>1, <2>2 DEF MadeOK, DuplicatesComeFromRaces
<1>3. ASSUME NEW r \in Runner, CreateRecord(r) PROVE MadeOK' /\ DuplicatesComeFromRaces'
  <2>1. /\ Min(missing[r]) \in missing[r]
        /\ Present' = Present \cup {made + 1}
        /\ \A i \in Present : record'[i] = record[i]
        /\ Key(record'[made + 1]) = Plan[Min(missing[r])]
    BY <1>0, <1>3, Made
  <2>2. /\ pc[r] = "updating" /\ made' = made + 1
        /\ raced' = IF r \in disturbed THEN raced \cup {made + 1} ELSE raced
    BY <1>3 DEF CreateRecord
  <2>3. MadeOK'
    <3>1. \A i \in Present : i \in Nat /\ i <= made
      BY <1>0 DEF MadeOK, Present, RecordId
    <3>2. made \in Nat
      BY <1>0, DeploymentConstants DEF BaseOK, ProviderOK
    <3>. QED
      BY <2>1, <2>2, <3>1, <3>2 DEF MadeOK
  <2>4. r \notin disturbed => \A i \in Present : Key(record[i]) # Key(record'[made + 1])
    BY <2>1, <2>2 DEF IndInv, KnowledgeOK, Knows, Creates
  <2>5. DuplicatesComeFromRaces'
    <3>. SUFFICES ASSUME NEW i \in Present', NEW j \in Present', i # j,
                         Key(record'[i]) = Key(record'[j]), Key(record'[i]) \in Wanted
                  PROVE  i \in raced' \/ j \in raced'
      BY DEF DuplicatesComeFromRaces
    <3>1. CASE i = made + 1 \/ j = made + 1
      BY <2>1, <2>2, <2>4, <3>1
    <3>2. CASE i \in Present /\ j \in Present
      BY <1>0, <2>1, <2>2, <3>2 DEF DuplicatesComeFromRaces
    <3>. QED
      BY <2>1, <3>1, <3>2
  <2>. QED
    BY <2>3, <2>5
<1>4. ASSUME NEW r \in Runner, DeleteRecord(r) PROVE MadeOK' /\ DuplicatesComeFromRaces'
  <2>1. Present' = Present \ {Min(todo[r])} /\ \A i \in Present' : record'[i] = record[i]
    BY <1>0, <1>4, Deleted
  <2>2. made' = made /\ raced' = raced \ {Min(todo[r])}
    BY <1>4 DEF DeleteRecord
  <2>. QED
    BY <1>0, <2>1, <2>2 DEF MadeOK, DuplicatesComeFromRaces
<1>5. ASSUME NEW r \in Runner, Advance(r) PROVE MadeOK' /\ DuplicatesComeFromRaces'
  BY <1>1, <1>2, <1>3, <1>4, <1>5
  DEF Advance, Activate, NotFound, List, Address, NoAddress, UpdateGone, CreateRefused, Settle,
      Poll, PollsRunOut, StartServices, PostDeployFails, DeleteDroplet, ListForCleaning, Cleaning,
      providerVars
<1>6. ASSUME NEW r \in Runner,
             \/ \E isDry \in BOOLEAN : StartFull(r, isDry) \/ StartUpdate(r, isDry)
             \/ \E o \in {"teardown", "clean"} : StartTeardown(r, o)
             \/ Fail(r)
      PROVE  MadeOK' /\ DuplicatesComeFromRaces'
  BY <1>1, <1>6 DEF StartFull, StartUpdate, StartTeardown, Fail, providerVars
<1>7. ASSUME NEW d \in Droplet, Destroy(d) \/ BecomeActive(d) \/ AssignIPv6(d) \/ UserData(d)
      PROVE  MadeOK' /\ DuplicatesComeFromRaces'
  BY <1>1, <1>7 DEF Destroy, BecomeActive, AssignIPv6, UserData, providerVars
<1>8. CASE Push
  BY <1>1, <1>8 DEF Push, providerVars
<1>. QED
  BY <1>1, <1>5, <1>6, <1>7, <1>8 DEF Next, vars, providerVars

LEMMA InitInv == Init => IndInv
<1>. SUFFICES ASSUME Init PROVE IndInv
  OBVIOUS
<1>1. PICK n \in 0..MaxOld : \E old \in Injection(1..n, {rec \in Record : rec.addr = 0}) :
        /\ made = n
        /\ record = [i \in RecordId |-> IF i <= n THEN old[i] ELSE NoRecord]
  BY DEF Init
<1>2. PICK old \in Injection(1..n, {rec \in Record : rec.addr = 0}) :
        /\ made = n
        /\ record = [i \in RecordId |-> IF i <= n THEN old[i] ELSE NoRecord]
  BY <1>1
<1>3. /\ old \in [1..n -> {rec \in Record : rec.addr = 0}]
      /\ \A i, j \in 1..n : old[i] = old[j] => i = j
  BY <1>2 DEF Injection, IsInjective
<1>4. \A i \in Present : i \in 1..n /\ record[i] = old[i]
  BY <1>2, DeploymentConstants DEF Present, RecordId
<1>5. MadeOK
  BY <1>2, <1>4 DEF MadeOK
<1>6. \A a, b \in {rec \in Record : rec.addr = 0} : Key(a) = Key(b) => a = b
  BY DEF Record, Key
<1>7. DuplicatesComeFromRaces
  BY <1>3, <1>4, <1>6 DEF DuplicatesComeFromRaces
<1>8. KnowledgeOK
  BY DEF Init, KnowledgeOK, Knows
<1>. QED
  BY <1>5, <1>7, <1>8, BaseInit DEF IndInv

LEMMA NextInv == IndInv /\ [Next]_vars => IndInv'
BY BaseNext, KnowledgeNext, RecordsNext DEF IndInv

LEMMA Invariance == Spec => []IndInv
BY InitInv, NextInv, PTL DEF Spec

(* Whatever the terminals do and wherever their scripts fail, of two       *)
(* records of one kind and name one was created by a script that worked    *)
(* from a list another script had outdated.                                *)
THEOREM DuplicatesAreRaced == Spec => []DuplicatesComeFromRaces
<1>1. IndInv => DuplicatesComeFromRaces
  BY DEF IndInv
<1>. QED
  BY <1>1, Invariance, PTL

(* A deploy that nobody disturbs passes its DNS records, and starts the    *)
(* services, only when every name it is responsible for is at its droplet. *)
THEOREM DeploysOwnTheNames == Spec => DeployOwnsTheNames
<1>1. ASSUME IndInv, [Next]_vars
      PROVE  [\A r \in Runner : (Settle(r) \/ StartServices(r)) /\ r \notin disturbed \cup dry
                => PointsAt(drop[r])]_vars
  <2>. SUFFICES ASSUME NEW r \in Runner, Settle(r) \/ StartServices(r), r \notin disturbed \cup dry
                PROVE  PointsAt(drop[r])
    OBVIOUS
  <2>1. Knows(r)
    BY <1>1 DEF IndInv, KnowledgeOK
  <2>2. CASE Settle(r)
    BY <2>1, <2>2, DonePointsAt DEF Settle, Knows
  <2>3. CASE StartServices(r)
    BY <2>1, <2>3 DEF StartServices, Knows
  <2>. QED
    BY <2>2, <2>3
<1>. QED
  BY <1>1, Invariance, PTL DEF Spec, DeployOwnsTheNames
-----------------------------------------------------------------------------
(* Towards ScriptsEnd.                                                     *)

(* What follows what in a script.                                          *)
Onward ==
  {<<"activating", "listing">>, <<"listing", "addressing">>, <<"addressing", "updating">>,
   <<"updating", "polling">>, <<"polling", "starting">>,
   <<"deleting", "relisting">>, <<"relisting", "cleaning">>}

(* r's script ends, goes on, or has one record less to work on.            *)
MovesOn(r) ==
  \/ pc'[r] = "idle"
  \/ <<pc[r], pc'[r]>> \in Onward
  \/ /\ pc'[r] = pc[r]
     /\ todo'[r] \subseteq todo[r] /\ missing'[r] \subseteq missing[r]
     /\ todo'[r] # todo[r] \/ missing'[r] # missing[r]

Stays(r) == pc'[r] = pc[r] /\ todo'[r] = todo[r] /\ missing'[r] = missing[r]

(* No step of another terminal, of the provider or of a new machine sends  *)
(* a script back or gives it more to do, and each of its own moves it on.  *)
ScriptsMoveOn ==
  [][\A r \in Runner :
       pc[r] # "idle" => /\ MovesOn(r) \/ Stays(r)
                         /\ Advance(r) => MovesOn(r)]_vars

(* A droplet that a script waits for has been created: it is active, or    *)
(* the provider activates it, or it is gone and the call raises.           *)
AwaitedExists ==
  \A r \in Runner : pc[r] = "activating" => life[drop[r]] # "none"

LEMMA AdvanceMoves ==
  ASSUME BaseOK, NEW r \in Runner, Advance(r)
  PROVE  MovesOn(r)
<1>0. ScriptsOK
  BY DEF BaseOK
<1>. USE DEF Goto
<1>1. CASE \/ Activate(r) \/ Poll(r) \/ DeleteDroplet(r) \/ List(r) \/ Address(r)
           \/ ListForCleaning(r)
  BY <1>0, <1>1
  DEF Activate, Poll, DeleteDroplet, List, Address, ListForCleaning, MovesOn, Onward, ScriptsOK
<1>2. CASE \/ NotFound(r) \/ NoAddress(r) \/ UpdateGone(r) \/ CreateRefused(r)
           \/ PollsRunOut(r) \/ StartServices(r) \/ PostDeployFails(r) \/ Cleaning(r)
  BY <1>0, <1>2
  DEF NotFound, NoAddress, UpdateGone, CreateRefused, PollsRunOut, StartServices,
      PostDeployFails, Cleaning, Stop, MovesOn, ScriptsOK
<1>3. CASE Settle(r)
  BY <1>0, <1>3 DEF Settle, Stop, MovesOn, Onward, ScriptsOK
<1>4. CASE UpdateRecord(r) \/ DeleteRecord(r)
  <2>1. todo[r] \in SUBSET Nat /\ todo[r] # {}
    BY <1>0, <1>4 DEF UpdateRecord, DeleteRecord, ScriptsOK, RecordId
  <2>2. Min(todo[r]) \in todo[r]
    BY <2>1, MinIsLeast
  <2>3. /\ pc' = pc /\ missing' = missing
        /\ todo'[r] = todo[r] \ {Min(todo[r])}
    BY <1>0, <1>4 DEF UpdateRecord, DeleteRecord, ScriptsOK
  <2>. QED
    BY <2>2, <2>3 DEF MovesOn
<1>5. CASE CreateRecord(r)
  <2>1. missing[r] \in SUBSET Nat /\ missing[r] # {}
    BY <1>0, <1>5, PlanTypes DEF CreateRecord, ScriptsOK
  <2>2. Min(missing[r]) \in missing[r]
    BY <2>1, MinIsLeast
  <2>3. /\ pc' = pc /\ todo' = todo
        /\ missing'[r] = missing[r] \ {Min(missing[r])}
    BY <1>0, <1>5 DEF CreateRecord, ScriptsOK
  <2>. QED
    BY <2>2, <2>3 DEF MovesOn
<1>. QED
  BY <1>1, <1>2, <1>3, <1>4, <1>5 DEF Advance

LEMMA OthersStay ==
  ASSUME BaseOK, NEW r \in Runner, NEW q \in Runner \ {r}, Advance(q) \/ Fail(q)
  PROVE  Stays(r)
<1>. USE DEF BaseOK, ScriptsOK, Stays, Goto, Stop, dnsVars
<1>1. CASE \/ Activate(q) \/ Poll(q) \/ DeleteDroplet(q) \/ List(q) \/ Address(q)
           \/ ListForCleaning(q)
  BY <1>1 DEF Activate, Poll, DeleteDroplet, List, Address, ListForCleaning
<1>2. CASE \/ NotFound(q) \/ NoAddress(q) \/ UpdateGone(q) \/ CreateRefused(q)
           \/ PollsRunOut(q) \/ StartServices(q) \/ PostDeployFails(q) \/ Cleaning(q)
           \/ Fail(q) \/ Settle(q)
  BY <1>2
  DEF NotFound, NoAddress, UpdateGone, CreateRefused, PollsRunOut, StartServices,
      PostDeployFails, Cleaning, Fail, Settle
<1>3. CASE UpdateRecord(q) \/ DeleteRecord(q) \/ CreateRecord(q)
  BY <1>3 DEF UpdateRecord, DeleteRecord, CreateRecord
<1>. QED
  BY <1>1, <1>2, <1>3 DEF Advance

LEMMA MovesOnNext ==
  ASSUME BaseOK, [Next]_vars, NEW r \in Runner, pc[r] # "idle"
  PROVE  MovesOn(r) \/ Stays(r)
<1>1. ASSUME NEW q \in Runner, NEW isDry \in BOOLEAN, StartFull(q, isDry) \/ StartUpdate(q, isDry)
      PROVE  Stays(r)
  BY <1>1 DEF StartFull, StartUpdate, Start, Goto, Stays, dnsVars, BaseOK, ScriptsOK
<1>2. ASSUME NEW q \in Runner, NEW o \in {"teardown", "clean"}, StartTeardown(q, o)
      PROVE  Stays(r)
  BY <1>2 DEF StartTeardown, Start, Goto, Stays, dnsVars, BaseOK, ScriptsOK
<1>3. ASSUME NEW q \in Runner \ {r}, Advance(q) \/ Fail(q) PROVE Stays(r)
  BY <1>3, OthersStay
<1>4. CASE Advance(r)
  BY <1>4, AdvanceMoves
<1>5. CASE Fail(r)
  BY <1>5 DEF Fail, Stop, Goto, MovesOn, BaseOK, ScriptsOK
<1>6. ASSUME NEW d \in Droplet, Destroy(d) \/ BecomeActive(d) \/ AssignIPv6(d) \/ UserData(d)
      PROVE  Stays(r)
  BY <1>6 DEF Destroy, BecomeActive, AssignIPv6, UserData, Stays, dnsVars
<1>7. CASE Push
  BY <1>7 DEF Push, Stays, dnsVars
<1>8. CASE UNCHANGED vars
  BY <1>8 DEF vars, Stays, dnsVars
<1>. QED
  BY <1>1, <1>2, <1>3, <1>4, <1>5, <1>6, <1>7, <1>8 DEF Next

(* Provided that a droplet, once created, is never forgotten.              *)
LEMMA CreatedStays ==
  ASSUME BaseOK, [Next]_vars, NEW d \in Droplet, life[d] # "none"
  PROVE  life'[d] # "none"
<1>. USE DEF BaseOK, ProviderOK
<1>1. ASSUME NEW e, Vanish(e) PROVE life'[d] # "none"
  BY <1>1 DEF Vanish
<1>2. ASSUME NEW r \in Runner, Advance(r) PROVE life' = life \/ Vanish(drop[r])
  BY <1>2
  DEF Advance, Activate, NotFound, List, Address, NoAddress, UpdateRecord, UpdateGone,
      CreateRecord, CreateRefused, Settle, Poll, PollsRunOut, StartServices, PostDeployFails,
      DeleteDroplet, ListForCleaning, DeleteRecord, Cleaning, providerVars
<1>3. ASSUME NEW r \in Runner, NEW isDry \in BOOLEAN, StartFull(r, isDry)
      PROVE  life'[d] # "none"
  BY <1>3 DEF StartFull
<1>4. ASSUME NEW e \in Droplet, BecomeActive(e) PROVE life'[d] # "none"
  BY <1>4 DEF BecomeActive
<1>. QED
  BY <1>1, <1>2, <1>3, <1>4
  DEF Next, vars, StartUpdate, StartTeardown, Fail, Destroy, AssignIPv6, UserData, Push,
      providerVars

(* A script begins to wait for the droplet it has just created.            *)
LEMMA AwaitedNext ==
  ASSUME BaseOK, ScriptsOK', AwaitedExists, [Next]_vars
  PROVE  AwaitedExists'
<1>. SUFFICES ASSUME NEW r \in Runner, pc'[r] = "activating"
              PROVE  life'[drop'[r]] # "none"
  BY DEF AwaitedExists
<1>. DEFINE Waits == pc[r] = "activating" /\ drop'[r] = drop[r]
<1>. USE DEF BaseOK, ScriptsOK, Goto
<1>1. ASSUME NEW q \in Runner, NEW isDry \in BOOLEAN, StartFull(q, isDry)
      PROVE  life'[drop'[r]] # "none"
  <2>. DEFINE d == Cardinality(Created) + 1
  <2>1. /\ d \in Droplet /\ drop' = [drop EXCEPT ![q] = d]
        /\ pc' = [pc EXCEPT ![q] = "activating"]
        /\ life' = [life EXCEPT ![d] = "new"]
    BY <1>1 DEF StartFull, Start
  <2>. HIDE DEF d
  <2>2. CASE r = q
    BY <2>1, <2>2 DEF ProviderOK
  <2>3. CASE r # q
    BY <2>1, <2>3 DEF ProviderOK, AwaitedExists
  <2>. QED
    BY <2>2, <2>3
<1>2. ASSUME NEW q \in Runner,
             \/ \E isDry \in BOOLEAN : StartUpdate(q, isDry)
             \/ \E o \in {"teardown", "clean"} : StartTeardown(q, o)
      PROVE  Waits
  BY <1>2 DEF StartUpdate, StartTeardown, Start
<1>3. ASSUME NEW q \in Runner, Advance(q) \/ Fail(q) PROVE Waits
  <2>1. CASE Stop(q)
    BY <2>1 DEF Stop
  <2>2. CASE drop' = drop /\ (pc' = pc \/ \E s : s # "activating" /\ Goto(q, s))
    BY <2>2
  <2>. QED
    BY <1>3, <2>1, <2>2
    DEF Advance, Activate, NotFound, List, Address, NoAddress, UpdateRecord, UpdateGone,
        CreateRecord, CreateRefused, Settle, Poll, PollsRunOut, StartServices,
        PostDeployFails, DeleteDroplet, ListForCleaning, DeleteRecord, Cleaning, Fail,
        scriptVars
<1>4. ASSUME UNCHANGED <<pc, drop>> PROVE Waits
  BY <1>4
<1>5. CASE Waits
  <2>1. drop[r] \in Droplet
    BY <1>5 DEF DropOK
  <2>. QED
    BY <1>5, <2>1, CreatedStays DEF AwaitedExists
<1>. HIDE DEF Waits
<1>. QED
  BY <1>1, <1>2, <1>3, <1>4, <1>5
  DEF Next, vars, Destroy, BecomeActive, AssignIPv6, UserData, Push, scriptVars

(* A script that waits without a limit waits for a droplet that exists.    *)
(* orchestrate_deploy.py:613.                                              *)
THEOREM AwaitedDropletsExist == Spec => []AwaitedExists
<1>1. Init => AwaitedExists
  BY DEF Init, AwaitedExists
<1>2. IndInv /\ IndInv' /\ AwaitedExists /\ [Next]_vars => AwaitedExists'
  BY AwaitedNext DEF IndInv, BaseOK
<1>. QED
  BY <1>1, <1>2, Invariance, PTL DEF Spec

(* A script never goes back, and every step of its own takes it nearer to  *)
(* its end, whatever other terminals delete.                               *)
THEOREM ScriptsOnlyMoveOn == Spec => ScriptsMoveOn
<1>. DEFINE A == \A r \in Runner :
                   pc[r] # "idle" => /\ MovesOn(r) \/ Stays(r)
                                     /\ Advance(r) => MovesOn(r)
<1>1. IndInv /\ [Next]_vars => [A]_vars
  BY AdvanceMoves, MovesOnNext DEF IndInv
<1>. QED
  BY <1>1, Invariance, PTL DEF Spec, ScriptsMoveOn
=============================================================================
