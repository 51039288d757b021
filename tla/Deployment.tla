----------------------------- MODULE Deployment -----------------------------
(***************************************************************************)
(* The operator's scripts against the provider's API: a full deploy and an *)
(* --update-only deploy (digital_ocean/scripts/python/orchestrate_deploy), *)
(* the teardown (digital_ocean/orchestrate_teardown) and destroy_droplet.  *)
(* Every call of the API is a step of its own, any of them may raise, and  *)
(* the provider, the new machine and other operators work in between.      *)
(*                                                                         *)
(* An address is abstracted to the droplet it belongs to; 0 is the address *)
(* of something older. A revision of the repository is a number.           *)
(***************************************************************************)
EXTENDS Naturals, Sequences, FiniteSets, FiniteSetsExt

CONSTANTS
  Runner,        \* terminals from which scripts are started
  Plan,          \* the records a deploy makes sure of, as kind and name, in order
  Other,         \* names whose records a deploy updates but never makes: *, ...
  Cleaned,       \* the names teardown --clean-dns deletes
  MaxDroplets,   \* bound on the droplets ever created
  MaxOld,        \* bound on the DNS records of older droplets
  MaxRecords,    \* bound on the DNS records, with those created
  MaxHead        \* bound on the revisions pushed

Wanted == Range(Plan)
Name == {k[2] : k \in Wanted}

ASSUME DeploymentConstants ==
  /\ Plan \in Seq({"A", "AAAA"} \X Name) /\ IsInjective(Plan)
  /\ Cleaned \subseteq Name /\ Name \cap Other = {}
  /\ MaxDroplets \in Nat /\ MaxRecords \in Nat /\ MaxOld \in 0..MaxRecords
  /\ MaxHead \in Nat \ {0}

Droplet == 1..MaxDroplets
RecordId == 1..MaxRecords
Record == [kind : {"A", "AAAA"}, name : Name \cup Other, addr : 0..MaxDroplets]
NoRecord == [kind |-> "none"]

VARIABLES
  life,       \* life[d]: "none", "new", "active" or "gone"
  ipv6,       \* droplets that have been assigned a public IPv6 address
  code,       \* code[d]: the revision checked out on d, 0 before user data ran
  running,    \* running[d]: the revision the services of d were built from
  head,       \* the revision of the branch
  record,     \* record[i]: the DNS record with id i, or NoRecord
  made,       \* how many records were ever created
  pc,         \* pc[r]: where r's script is
  op,         \* op[r]: "full", "update", "teardown", "clean" or "none"
  dry,        \* scripts started with --dry-run
  drop,       \* drop[r]: the droplet the script works on
  listed,     \* listed[r]: the records as the script listed them
  todo,       \* todo[r]: listed records still to update or delete
  missing,    \* missing[r]: indices in Plan of the records still to create
  want,       \* history: the revision of the branch when an update started
  disturbed,  \* history: scripts during which another one changed the records
  raced       \* history: the records there are that such scripts created

providerVars == <<life, ipv6, record, made>>
machineVars == <<code, running, head>>
dnsVars == <<listed, todo, missing>>
scriptVars == <<op, dry, drop, want>>
vars == <<providerVars, machineVars, dnsVars, scriptVars, pc, disturbed, raced>>

Created == {d \in Droplet : life[d] # "none"}
Alive == {d \in Droplet : life[d] \in {"new", "active"}}
Present == {i \in RecordId : record[i] # NoRecord}

(* The kind and the name of a record, by which a deploy recognises it.     *)
Key(rec) == <<rec.kind, rec.name>>

(* The records a deploy points at its droplet when it finds them.          *)
Matched(rec) == Key(rec) \in Wanted \/ rec.name \in Other

Init ==
  /\ life = [d \in Droplet |-> "none"] /\ ipv6 = {}
  /\ code = [d \in Droplet |-> 0] /\ running = [d \in Droplet |-> 0]
  /\ head = 1
  /\ \E n \in 0..MaxOld : \E old \in Injection(1..n, {rec \in Record : rec.addr = 0}) :
       /\ made = n
       /\ record = [i \in RecordId |-> IF i <= n THEN old[i] ELSE NoRecord]
  /\ pc = [r \in Runner |-> "idle"] /\ op = [r \in Runner |-> "none"]
  /\ dry = {} /\ drop = [r \in Runner |-> 0] /\ want = [r \in Runner |-> 0]
  /\ listed = [r \in Runner |-> <<>>] /\ todo = [r \in Runner |-> {}]
  /\ missing = [r \in Runner |-> {}]
  /\ disturbed = {} /\ raced = {}

-----------------------------------------------------------------------------
(* Starting a script. --dry-run is looked at where DNS records are written *)
(* and nowhere else.                                                       *)

Goto(r, s) == pc' = [pc EXCEPT ![r] = s]

(* The script exits: what it knew is gone with it.                         *)
Stop(r) ==
  /\ Goto(r, "idle")
  /\ op' = [op EXCEPT ![r] = "none"] /\ dry' = dry \ {r}
  /\ drop' = [drop EXCEPT ![r] = 0] /\ want' = [want EXCEPT ![r] = 0]
  /\ listed' = [listed EXCEPT ![r] = <<>>] /\ todo' = [todo EXCEPT ![r] = {}]
  /\ missing' = [missing EXCEPT ![r] = {}] /\ disturbed' = disturbed \ {r}

Start(r, o, isDry, d, s) ==
  /\ pc[r] = "idle"
  /\ op' = [op EXCEPT ![r] = o]
  /\ dry' = IF isDry THEN dry \cup {r} ELSE dry \ {r}
  /\ drop' = [drop EXCEPT ![r] = d]
  /\ want' = [want EXCEPT ![r] = IF o = "update" THEN head ELSE 0]
  /\ Goto(r, s)

(* A full deploy creates a droplet, whether or not one of the name exists. *)
StartFull(r, isDry) ==
  LET d == Cardinality(Created) + 1 IN
    /\ d \in Droplet
    /\ Start(r, "full", isDry, d, "activating")
    /\ life' = [life EXCEPT ![d] = "new"]
    /\ UNCHANGED <<ipv6, record, made, machineVars, dnsVars, disturbed, raced>>

(* --update-only takes the newest droplet of the name, if it has an        *)
(* address; otherwise the script exits with 1.                             *)
Newest == Max(Alive)

StartUpdate(r, isDry) ==
  /\ Alive # {} /\ life[Newest] = "active"
  /\ Start(r, "update", isDry, Newest, "listing")
  /\ UNCHANGED <<providerVars, machineVars, dnsVars, disturbed, raced>>

(* A full deploy polls its droplet until it is active, for as long as that *)
(* takes; a droplet that is gone makes the call raise.                     *)
Activate(r) ==
  /\ pc[r] = "activating" /\ life[drop[r]] = "active"
  /\ Goto(r, "listing")
  /\ UNCHANGED <<providerVars, machineVars, dnsVars, scriptVars, disturbed, raced>>

(* Mutant: the exception is swallowed and the script polls on.             *)
PollOn(r) == pc[r] = "activating" /\ life[drop[r]] = "gone" /\ UNCHANGED vars

NotFound(r) ==
  /\ pc[r] = "activating" /\ life[drop[r]] = "gone"
  /\ Stop(r)
  /\ UNCHANGED <<providerVars, machineVars, raced>>

-----------------------------------------------------------------------------
(* ensure_dns_records_for_droplet. The records are listed first; then the  *)
(* script may wait for the IPv6 address; then it works from that list.     *)

List(r) ==
  /\ pc[r] = "listing"
  /\ listed' = [listed EXCEPT ![r] = record]
  /\ Goto(r, "addressing")
  /\ UNCHANGED <<providerVars, machineVars, todo, missing, scriptVars, disturbed, raced>>

(* The records the script recognises are updated one by one (none of them  *)
(* in a dry run) and those it did not find are created.                    *)
(* Mutant: only the records a deploy also creates are recognised.          *)
FoundPlanned(r) ==
  {i \in RecordId : listed[r][i] # NoRecord /\ Key(listed[r][i]) \in Wanted}

Found(r) == {i \in RecordId : listed[r][i] # NoRecord /\ Matched(listed[r][i])}

(* Mutant: every record is created, found or not.                          *)
AddressCreatesAll(r) ==
  /\ pc[r] = "addressing" /\ drop[r] \in ipv6
  /\ todo' = [todo EXCEPT ![r] = IF r \in dry THEN {} ELSE Found(r)]
  /\ missing' = [missing EXCEPT ![r] = IF r \in dry THEN {} ELSE DOMAIN Plan]
  /\ listed' = [listed EXCEPT ![r] = <<>>]
  /\ Goto(r, "updating")
  /\ UNCHANGED <<providerVars, machineVars, scriptVars, disturbed, raced>>

Address(r) ==
  /\ pc[r] = "addressing" /\ drop[r] \in ipv6
  /\ todo' = [todo EXCEPT ![r] = IF r \in dry THEN {} ELSE Found(r)]
  /\ missing' = [missing EXCEPT ![r] =
       IF r \in dry THEN {}
       ELSE {k \in DOMAIN Plan : \A i \in Found(r) : Key(listed[r][i]) # Plan[k]}]
  /\ listed' = [listed EXCEPT ![r] = <<>>]
  /\ Goto(r, "updating")
  /\ UNCHANGED <<providerVars, machineVars, scriptVars, disturbed, raced>>

(* The address does not come in time, or the droplet is gone: exit 1.      *)
NoAddress(r) ==
  /\ pc[r] = "addressing" /\ drop[r] \notin ipv6
  /\ Stop(r)
  /\ UNCHANGED <<providerVars, machineVars, raced>>

(* The records change: the lists of the other scripts are outdated.        *)
Disturb(r) == disturbed' =
  disturbed \cup {q \in Runner \ {r} :
                pc[q] \in {"addressing", "updating", "polling", "starting"}}

UpdateRecord(r) ==
  /\ pc[r] = "updating"
  /\ todo[r] # {} /\ record[Min(todo[r])] # NoRecord
  /\ record' = [record EXCEPT ![Min(todo[r])].addr = drop[r]]
  /\ todo' = [todo EXCEPT ![r] = @ \ {Min(@)}]
  /\ Disturb(r)
  /\ UNCHANGED <<life, ipv6, made, machineVars, listed, missing, scriptVars, pc, raced>>

(* A listed record was deleted since: the call raises, exit 1.             *)
UpdateGone(r) ==
  /\ pc[r] = "updating" /\ todo[r] # {} /\ record[Min(todo[r])] = NoRecord
  /\ Stop(r)
  /\ UNCHANGED <<providerVars, machineVars, raced>>

CreateRecord(r) ==
  /\ pc[r] = "updating" /\ todo[r] = {} /\ missing[r] # {} /\ made < MaxRecords
  /\ LET k == Plan[Min(missing[r])] IN
       record' = [record EXCEPT ![made + 1] =
         [kind |-> k[1], name |-> k[2], addr |-> drop[r]]]
  /\ missing' = [missing EXCEPT ![r] = @ \ {Min(@)}]
  /\ made' = made + 1
  /\ raced' = IF r \in disturbed THEN raced \cup {made + 1} ELSE raced
  /\ Disturb(r)
  /\ UNCHANGED <<life, ipv6, machineVars, listed, todo, scriptVars, pc>>

(* A run that reaches the bound on records counts as a call that raises.   *)
CreateRefused(r) ==
  /\ pc[r] = "updating" /\ todo[r] = {} /\ missing[r] # {} /\ made = MaxRecords
  /\ Stop(r)
  /\ UNCHANGED <<providerVars, machineVars, raced>>

(* ensure_dns_records_for_droplet returns. Everything after it is in the   *)
(* branch of the full deploy: --update-only is over and exits with 0.      *)
Settle(r) ==
  /\ pc[r] = "updating" /\ todo[r] = {} /\ missing[r] = {}
  /\ IF op[r] = "update" THEN Stop(r)
     ELSE Goto(r, "polling") /\ UNCHANGED <<dnsVars, scriptVars, disturbed>>
  /\ UNCHANGED <<providerVars, machineVars, raced>>

-----------------------------------------------------------------------------
(* The rest of a full deploy, over ssh.                                    *)

(* The completion marker of the user data is in the log, or was not read   *)
(* there in LOG_POLL_ATTEMPTS polls: exit 1.                               *)
Poll(r) ==
  /\ pc[r] = "polling" /\ code[drop[r]] # 0
  /\ Goto(r, "starting")
  /\ UNCHANGED <<providerVars, machineVars, dnsVars, scriptVars, disturbed, raced>>

PollsRunOut(r) ==
  /\ pc[r] = "polling"
  /\ Stop(r)
  /\ UNCHANGED <<providerVars, machineVars, raced>>

(* .env is uploaded and start.sh rebuilds the services. Its exit status is  *)
(* not read: the script goes on when nothing was built.                    *)
StartServices(r) ==
  /\ pc[r] = "starting" /\ life[drop[r]] = "active"
  /\ \E built \in {code[drop[r]], running[drop[r]]} :
       running' = [running EXCEPT ![drop[r]] = built]
  /\ Stop(r)
  /\ UNCHANGED <<providerVars, code, head, raced>>

(* An exception after the DNS records is logged, and the script exits      *)
(* with 0 all the same.                                                    *)
PostDeployFails(r) ==
  /\ pc[r] = "starting"
  /\ Stop(r)
  /\ UNCHANGED <<providerVars, machineVars, raced>>

-----------------------------------------------------------------------------
(* Teardown. Its parts catch their exceptions: what follows is done anyway. *)

(* It takes the first droplet of the name in the provider's list, or none. *)
StartTeardown(r, o) ==
  /\ \/ \E d \in Alive : Start(r, o, FALSE, d, "deleting")
     \/ Alive = {} /\ Start(r, o, FALSE, 0, "relisting")
  /\ UNCHANGED <<providerVars, machineVars, dnsVars, disturbed, raced>>

(* The provider deletes droplet d, with its address and its disk.          *)
Vanish(d) ==
  /\ life' = [life EXCEPT ![d] = "gone"]
  /\ ipv6' = ipv6 \ {d}
  /\ code' = [code EXCEPT ![d] = 0]
  /\ running' = [running EXCEPT ![d] = 0]

DeleteDroplet(r) ==
  /\ pc[r] = "deleting"
  /\ Vanish(drop[r]) \/ UNCHANGED <<life, ipv6, code, running>>
  /\ Goto(r, "relisting")
  /\ UNCHANGED <<record, made, head, dnsVars, scriptVars, disturbed, raced>>

(* destroy_droplet.py with the id of any droplet: one call, whatever other *)
(* scripts are doing with that droplet, and its records stay.              *)
Destroy(d) ==
  /\ d \in Alive
  /\ Vanish(d)
  /\ UNCHANGED <<record, made, head, dnsVars, scriptVars, pc, disturbed, raced>>

(* Without --clean-dns the script is over.                                 *)
ListForCleaning(r) ==
  /\ pc[r] = "relisting"
  /\ todo' = [todo EXCEPT ![r] = IF op[r] = "clean"
                                 THEN {i \in Present : record[i].name \in Cleaned}
                                 ELSE {}]
  /\ Goto(r, "cleaning")
  /\ UNCHANGED <<providerVars, machineVars, listed, missing, scriptVars, disturbed, raced>>

DeleteRecord(r) ==
  /\ pc[r] = "cleaning"
  /\ todo[r] # {} /\ record[Min(todo[r])] # NoRecord
  /\ record' = [record EXCEPT ![Min(todo[r])] = NoRecord]
  /\ todo' = [todo EXCEPT ![r] = @ \ {Min(@)}]
  /\ raced' = raced \ {Min(todo[r])}
  /\ Disturb(r)
  /\ UNCHANGED <<life, ipv6, made, machineVars, listed, missing, scriptVars, pc>>

(* Every record is deleted, or one was deleted already and the call raises. *)
Cleaning(r) ==
  /\ pc[r] = "cleaning"
  /\ todo[r] # {} => record[Min(todo[r])] = NoRecord
  /\ Stop(r)
  /\ UNCHANGED <<providerVars, machineVars, raced>>

(* A call of the provider's API raises, or the operator stops the script.  *)
Fail(r) ==
  /\ pc[r] \in {"activating", "listing", "addressing", "updating", "polling",
                "deleting", "relisting", "cleaning"}
  /\ Stop(r)
  /\ UNCHANGED <<providerVars, machineVars, raced>>

-----------------------------------------------------------------------------
(* The provider, the user data of a new machine, and the developers.       *)

BecomeActive(d) ==
  /\ life[d] = "new" /\ life' = [life EXCEPT ![d] = "active"]
  /\ UNCHANGED <<ipv6, record, made, machineVars, dnsVars, scriptVars, pc, disturbed, raced>>

AssignIPv6(d) ==
  /\ life[d] = "active" /\ d \notin ipv6 /\ ipv6' = ipv6 \cup {d}
  /\ UNCHANGED <<life, record, made, machineVars, dnsVars, scriptVars, pc, disturbed, raced>>

UserData(d) ==
  /\ life[d] = "active" /\ code[d] = 0 /\ code' = [code EXCEPT ![d] = head]
  /\ UNCHANGED <<providerVars, running, head, dnsVars, scriptVars, pc, disturbed, raced>>

Push ==
  /\ head < MaxHead /\ head' = head + 1
  /\ UNCHANGED <<providerVars, code, running, dnsVars, scriptVars, pc, disturbed, raced>>

-----------------------------------------------------------------------------
(* Everything a started script does unless a call fails.                   *)
Advance(r) ==
  \/ Activate(r) \/ NotFound(r)
  \/ List(r) \/ Address(r) \/ NoAddress(r)
  \/ UpdateRecord(r) \/ UpdateGone(r) \/ CreateRecord(r) \/ CreateRefused(r)
  \/ Settle(r)
  \/ Poll(r) \/ PollsRunOut(r) \/ StartServices(r) \/ PostDeployFails(r)
  \/ DeleteDroplet(r) \/ ListForCleaning(r) \/ DeleteRecord(r) \/ Cleaning(r)

Next ==
  \/ \E r \in Runner :
       \/ \E isDry \in BOOLEAN : StartFull(r, isDry) \/ StartUpdate(r, isDry)
       \/ \E o \in {"teardown", "clean"} : StartTeardown(r, o)
       \/ Advance(r) \/ Fail(r)
  \/ \E d \in Droplet : Destroy(d) \/ BecomeActive(d) \/ AssignIPv6(d) \/ UserData(d)
  \/ Push

Spec == Init /\ [][Next]_vars

(* A started script goes on, and the provider activates a new droplet.     *)
LiveSpec ==
  /\ Spec
  /\ \A r \in Runner : WF_vars(Advance(r))
  /\ \A d \in Droplet : WF_vars(BecomeActive(d))

-----------------------------------------------------------------------------
TypeOK ==
  /\ life \in [Droplet -> {"none", "new", "active", "gone"}]
  /\ ipv6 \subseteq Droplet
  /\ code \in [Droplet -> 0..MaxHead] /\ running \in [Droplet -> 0..MaxHead]
  /\ head \in 1..MaxHead /\ made \in 0..MaxRecords
  /\ record \in [RecordId -> Record \cup {NoRecord}]
  /\ pc \in [Runner -> {"idle", "activating", "listing", "addressing", "updating",
                        "polling", "starting",
                        "deleting", "relisting", "cleaning"}]
  /\ op \in [Runner -> {"none", "full", "update", "teardown", "clean"}]
  /\ dry \subseteq Runner /\ disturbed \subseteq Runner /\ raced \subseteq RecordId
  /\ drop \in [Runner -> 0..MaxDroplets] /\ want \in [Runner -> 0..MaxHead]
  /\ todo \in [Runner -> SUBSET RecordId] /\ missing \in [Runner -> SUBSET DOMAIN Plan]
  /\ listed \in [Runner ->
       {<<>>} \cup [RecordId -> Record \cup {NoRecord}]]

(* A deploy that gets past its DNS records, and later starts the services, *)
(* finds every host name it is responsible for at its own droplet, with a  *)
(* record of each kind and name it wants: no record of an older droplet is *)
(* left behind, however much an earlier script did before it failed. (Once *)
(* another script changes a record meanwhile, nothing is promised.)        *)
PointsAt(d) ==
  /\ \A k \in Wanted : \E i \in Present : Key(record[i]) = k
  /\ \A i \in Present : Matched(record[i]) => record[i].addr = d

DeployOwnsTheNames ==
  [][\A r \in Runner : (Settle(r) \/ StartServices(r)) /\ r \notin disturbed \cup dry
       => PointsAt(drop[r])]_vars

(* Two records of the same kind and name never arise from one script at a  *)
(* time: one of them was created from a list that another script had made  *)
(* stale while this one waited or worked.                                  *)
DuplicatesComeFromRaces ==
  \A i, j \in Present :
    i # j /\ Key(record[i]) = Key(record[j]) /\ Key(record[i]) \in Wanted
      => i \in raced \/ j \in raced

(* Every started script comes to an end, although the wait for the droplet *)
(* has no limit, and also when another terminal deletes the droplet or the *)
(* records it works on.                                                    *)
ScriptsEnd == \A r \in Runner : pc[r] # "idle" ~> pc[r] = "idle"
=============================================================================
