---------------------------- MODULE EmailOutbox ----------------------------
(***************************************************************************)
(* The e-mail outbox: queue_email and process_outbox_email of              *)
(* src/api/services/email_service.py, the task base2.send_email_outbox of  *)
(* src/api/tasks/email_tasks.py, and the broker and the processes of the   *)
(* Celery worker between them.                                             *)
(*                                                                         *)
(* The row is committed before its message is published, in two systems:   *)
(* either may fail without the other.  The broker is external: a message   *)
(* is acknowledged when a process takes it (acks_late is not set), and one *)
(* that a worker has fetched and not yet acknowledged is delivered again   *)
(* after the visibility timeout, so a second copy can exist.               *)
(***************************************************************************)
EXTENDS Naturals, FiniteSets

CONSTANTS
  Row,             \* outbox rows
  Process, NoRow,
  MaxCopies,       \* bound on the copies of one message in the broker
  TaskRegistered   \* the worker knows base2.send_email_outbox

ASSUME OutboxConstants ==
  /\ NoRow \notin Row
  /\ MaxCopies \in Nat \ {0}
  /\ TaskRegistered \in BOOLEAN

VARIABLES
  status,      \* api_email_outbox.status, "absent" before the INSERT
  publishing,  \* rows whose queue_email has not reached send_task yet
  copies,      \* messages in the broker, per row
  pc, job,     \* per process: next statement and row
  \* history variables: no guard reads them
  lost,        \* rows a message of which a failure kept from being processed
  outran       \* processes that read a row as queued that has been sent since

rowVars     == <<status, publishing>>
processVars == <<pc, job>>
historyVars == <<lost, outran>>
vars == <<rowVars, copies, processVars, historyVars>>

Init ==
  /\ status = [r \in Row |-> "absent"]
  /\ publishing = {}
  /\ copies = [r \in Row |-> 0]
  /\ pc = [p \in Process |-> "idle"]
  /\ job = [p \in Process |-> NoRow]
  /\ lost = {}
  /\ outran = {}
-----------------------------------------------------------------------------
(* Processes at work on row r.                                             *)
On(r) == {p \in Process : job[p] = r}

Done(p) ==
  /\ pc' = [pc EXCEPT ![p] = "idle"]
  /\ job' = [job EXCEPT ![p] = NoRow]

Goto(p, step) == pc' = [pc EXCEPT ![p] = step] /\ UNCHANGED job

(* Mutant: the message may be published before the row is committed.       *)
CreateUncommitted(r) ==
  /\ status[r] = "absent" /\ r \notin publishing /\ copies[r] = 0 /\ On(r) = {}
  /\ publishing' = publishing \cup {r}
  /\ UNCHANGED <<status, copies, processVars, historyVars>>

(* An API worker queues an e-mail: the row is inserted and committed.      *)
CreateOutboxEmail(r) ==
  /\ status[r] = "absent"
  /\ status' = [status EXCEPT ![r] = "queued"]
  /\ publishing' = publishing \cup {r}
  /\ UNCHANGED <<copies, processVars, historyVars>>

SendTask(r) ==
  /\ r \in publishing
  /\ publishing' = publishing \ {r}
  /\ copies' = [copies EXCEPT ![r] = @ + 1]
  /\ UNCHANGED <<status, processVars, historyVars>>

(* send_task raises, which queue_email logs and swallows, or the API       *)
(* worker dies before it.                                                  *)
EnqueueFails(r) ==
  /\ r \in publishing
  /\ publishing' = publishing \ {r}
  /\ lost' = lost \cup {r}
  /\ UNCHANGED <<status, copies, processVars, outran>>
-----------------------------------------------------------------------------
(* A process takes a message, which acknowledges it; a message whose task  *)
(* is not registered is logged and dropped.                                *)
Receive(p, r) ==
  /\ pc[p] = "idle"
  /\ copies[r] > 0
  /\ copies' = [copies EXCEPT ![r] = @ - 1]
  /\ IF TaskRegistered
     THEN /\ pc' = [pc EXCEPT ![p] = "get_outbox_email"]
          /\ job' = [job EXCEPT ![p] = r]
     ELSE UNCHANGED processVars
  /\ UNCHANGED <<rowVars, historyVars>>

(* Mutant: the row is taken to be sent unless it is still absent.          *)
ReadBackwards(p) ==
  /\ pc[p] = "get_outbox_email"
  /\ IF status[job[p]] # "absent" THEN Done(p) ELSE Goto(p, "mark_outbox_sent")
  /\ UNCHANGED <<rowVars, copies, historyVars>>

(* Mutant: every message marks the row.                                    *)
ReadUnchecked(p) ==
  /\ pc[p] = "get_outbox_email"
  /\ Goto(p, "mark_outbox_sent")
  /\ UNCHANGED <<rowVars, copies, historyVars>>

(* process_outbox_email reads the row; one that is sent is left alone.     *)
GetOutboxEmail(p) ==
  /\ pc[p] = "get_outbox_email"
  /\ IF status[job[p]] = "sent" THEN Done(p) ELSE Goto(p, "mark_outbox_sent")
  /\ UNCHANGED <<rowVars, copies, historyVars>>

MarkOutboxSent(p) ==
  /\ pc[p] = "mark_outbox_sent"
  /\ status' = [status EXCEPT ![job[p]] = "sent"]
  /\ outran' = (outran \cup {q \in On(job[p]) : pc[q] = "mark_outbox_sent"}) \ {p}
  /\ Done(p)
  /\ UNCHANGED <<publishing, copies, lost>>

(* A statement raises or the process dies: the message has been            *)
(* acknowledged and is not delivered again.                                *)
Crash(p) ==
  /\ pc[p] # "idle"
  /\ lost' = lost \cup {job[p]}
  /\ outran' = outran \ {p}
  /\ Done(p)
  /\ UNCHANGED <<rowVars, copies>>

(* The visibility timeout of a fetched message passes: the broker hands    *)
(* out another copy.                                                       *)
Redeliver(r) ==
  /\ copies[r] \in 1..MaxCopies - 1
  /\ copies' = [copies EXCEPT ![r] = @ + 1]
  /\ UNCHANGED <<rowVars, processVars, historyVars>>

Work(p) ==
  \/ \E r \in Row : Receive(p, r)
  \/ GetOutboxEmail(p) \/ MarkOutboxSent(p)

Next ==
  \/ \E r \in Row : CreateOutboxEmail(r) \/ SendTask(r) \/ EnqueueFails(r) \/ Redeliver(r)
  \/ \E p \in Process : Work(p) \/ Crash(p)

Spec == Init /\ [][Next]_vars

(* queue_email runs on, a process finishes what it takes, and the broker   *)
(* is first in, first out: no message waits behind others for ever.        *)
Fairness ==
  /\ \A r \in Row : WF_vars(SendTask(r) \/ EnqueueFails(r))
  /\ \A p \in Process : WF_vars(GetOutboxEmail(p) \/ MarkOutboxSent(p))
  /\ \A r \in Row : SF_vars(\E p \in Process : Receive(p, r))

LiveSpec == Spec /\ Fairness
-----------------------------------------------------------------------------
TypeOK ==
  /\ status \in [Row -> {"absent", "queued", "sent"}]
  /\ publishing \in SUBSET Row
  /\ copies \in [Row -> 0..MaxCopies]
  /\ pc \in [Process -> {"idle", "get_outbox_email", "mark_outbox_sent"}]
  /\ job \in [Process -> Row \cup {NoRow}]
  /\ \A p \in Process : pc[p] = "idle" <=> job[p] = NoRow
  /\ lost \in SUBSET Row
  /\ outran \in SUBSET Process

(* A message is never ahead of its row: process_outbox_email does not      *)
(* raise outbox_not_found.                                                 *)
MessagesHaveRows ==
  \A r \in Row : copies[r] > 0 \/ On(r) # {} => status[r] # "absent"

(* A row that is still queued has a message on its way or in work, or one  *)
(* of its messages was lost.                                               *)
QueuedRowsAreOnTheirWay ==
  \A r \in Row :
    status[r] = "queued" => \/ r \in publishing \/ copies[r] > 0
                            \/ On(r) # {} \/ r \in lost

(* A row is marked sent again only by a process that had read it before.   *)
OnlyOvertakenProcessesResend ==
  [][\A p \in Process :
       MarkOutboxSent(p) /\ status[job[p]] = "sent" => p \in outran]_vars

(* Every queued e-mail is sent, unless one of its messages is lost.        *)
QueuedIsSentOrLost ==
  \A r \in Row : status[r] = "queued" ~> status[r] = "sent" \/ r \in lost
=============================================================================
