------------------------- MODULE EmailOutboxProofs -------------------------
(***************************************************************************)
(* Proofs about EmailOutbox for every set of rows and of processes and     *)
(* every bound on copies.                                                  *)
(***************************************************************************)
EXTENDS EmailOutbox, TLAPS

(* A row is inserted, then published once, then worked on: the row of a    *)
(* queue_email in progress is there and has no message yet.                *)
PublishedOnce ==
  \A r \in publishing : status[r] # "absent" /\ copies[r] = 0

(* A process about to mark a row that is sent has been overtaken.          *)
OvertakenOK ==
  \A p \in Process :
    pc[p] = "mark_outbox_sent" /\ status[job[p]] = "sent" => p \in outran

RowsOK == TypeOK /\ PublishedOnce /\ MessagesHaveRows

IInv == RowsOK /\ OvertakenOK

-----------------------------------------------------------------------------
(* Rows and their messages.                                                *)

LEMMA TypeNext == TypeOK /\ PublishedOnce /\ [Next]_vars => TypeOK'
<1>. SUFFICES ASSUME TypeOK, PublishedOnce, [Next]_vars PROVE TypeOK'
  OBVIOUS
<1>. USE OutboxConstants DEF TypeOK, rowVars, processVars, historyVars, Done, Goto
<1>1. ASSUME NEW r \in Row, CreateOutboxEmail(r) PROVE TypeOK'
  BY <1>1 DEF CreateOutboxEmail
<1>2. ASSUME NEW r \in Row, SendTask(r) PROVE TypeOK'
  BY <1>2 DEF SendTask, PublishedOnce
<1>3. ASSUME NEW r \in Row, EnqueueFails(r) PROVE TypeOK'
  BY <1>3 DEF EnqueueFails
<1>4. ASSUME NEW r \in Row, Redeliver(r) PROVE TypeOK'
  BY <1>4 DEF Redeliver
<1>5. ASSUME NEW p \in Process, NEW r \in Row, Receive(p, r) PROVE TypeOK'
  BY <1>5 DEF Receive
<1>6. ASSUME NEW p \in Process, GetOutboxEmail(p) PROVE TypeOK'
  BY <1>6 DEF GetOutboxEmail
<1>7. ASSUME NEW p \in Process, MarkOutboxSent(p) PROVE TypeOK'
  BY <1>7 DEF MarkOutboxSent, On
<1>8. ASSUME NEW p \in Process, Crash(p) PROVE TypeOK'
  BY <1>8 DEF Crash
<1>9. ASSUME UNCHANGED vars PROVE TypeOK'
  BY <1>9 DEF vars
<1>. QED
  BY <1>1, <1>2, <1>3, <1>4, <1>5, <1>6, <1>7, <1>8, <1>9 DEF Next, Work

LEMMA PublishedNext == RowsOK /\ [Next]_vars => PublishedOnce'
<1>. SUFFICES ASSUME RowsOK, [Next]_vars PROVE PublishedOnce'
  OBVIOUS
<1>. USE DEF RowsOK, TypeOK, PublishedOnce, rowVars, processVars
<1>1. ASSUME NEW r \in Row, CreateOutboxEmail(r) PROVE PublishedOnce'
  BY <1>1 DEF CreateOutboxEmail, MessagesHaveRows
<1>2. ASSUME NEW r \in Row, SendTask(r) PROVE PublishedOnce'
  BY <1>2 DEF SendTask
<1>3. ASSUME NEW r \in Row, EnqueueFails(r) PROVE PublishedOnce'
  BY <1>3 DEF EnqueueFails
<1>4. ASSUME NEW r \in Row, Redeliver(r) PROVE PublishedOnce'
  BY <1>4, OutboxConstants DEF Redeliver
<1>5. ASSUME NEW p \in Process, NEW r \in Row, Receive(p, r) PROVE PublishedOnce'
  BY <1>5 DEF Receive
<1>6. ASSUME NEW p \in Process, GetOutboxEmail(p) PROVE PublishedOnce'
  BY <1>6 DEF GetOutboxEmail
<1>7. ASSUME NEW p \in Process, MarkOutboxSent(p) PROVE PublishedOnce'
  BY <1>7 DEF MarkOutboxSent
<1>8. ASSUME NEW p \in Process, Crash(p) PROVE PublishedOnce'
  BY <1>8 DEF Crash
<1>9. ASSUME UNCHANGED vars PROVE PublishedOnce'
  BY <1>9 DEF vars
<1>. QED
  BY <1>1, <1>2, <1>3, <1>4, <1>5, <1>6, <1>7, <1>8, <1>9 DEF Next, Work

LEMMA MessagesNext == RowsOK /\ [Next]_vars => MessagesHaveRows'
<1>. SUFFICES ASSUME RowsOK, [Next]_vars PROVE MessagesHaveRows'
  OBVIOUS
<1>. USE DEF RowsOK, TypeOK, MessagesHaveRows, On, rowVars, processVars, Done, Goto
<1>1. ASSUME NEW r \in Row, CreateOutboxEmail(r) PROVE MessagesHaveRows'
  BY <1>1 DEF CreateOutboxEmail
<1>2. ASSUME NEW r \in Row, SendTask(r) PROVE MessagesHaveRows'
  BY <1>2 DEF SendTask, PublishedOnce
<1>3. ASSUME NEW r \in Row, EnqueueFails(r) PROVE MessagesHaveRows'
  BY <1>3 DEF EnqueueFails
<1>4. ASSUME NEW r \in Row, Redeliver(r) PROVE MessagesHaveRows'
  BY <1>4, OutboxConstants DEF Redeliver
<1>5. ASSUME NEW p \in Process, NEW r \in Row, Receive(p, r) PROVE MessagesHaveRows'
  BY <1>5 DEF Receive
<1>6. ASSUME NEW p \in Process, GetOutboxEmail(p) PROVE MessagesHaveRows'
  BY <1>6, OutboxConstants DEF GetOutboxEmail
<1>7. ASSUME NEW p \in Process, MarkOutboxSent(p) PROVE MessagesHaveRows'
  BY <1>7, OutboxConstants DEF MarkOutboxSent
<1>8. ASSUME NEW p \in Process, Crash(p) PROVE MessagesHaveRows'
  BY <1>8, OutboxConstants DEF Crash
<1>9. ASSUME UNCHANGED vars PROVE MessagesHaveRows'
  BY <1>9 DEF vars
<1>. QED
  BY <1>1, <1>2, <1>3, <1>4, <1>5, <1>6, <1>7, <1>8, <1>9 DEF Next, Work

LEMMA OvertakenNext == RowsOK /\ OvertakenOK /\ [Next]_vars => OvertakenOK'
<1>. SUFFICES ASSUME RowsOK, OvertakenOK, [Next]_vars PROVE OvertakenOK'
  OBVIOUS
<1>. USE DEF RowsOK, TypeOK, OvertakenOK, rowVars, processVars, historyVars, Done, Goto
<1>1. ASSUME NEW r \in Row, CreateOutboxEmail(r) PROVE OvertakenOK'
  BY <1>1 DEF CreateOutboxEmail
<1>2. ASSUME NEW r \in Row, SendTask(r) \/ EnqueueFails(r) \/ Redeliver(r)
      PROVE  OvertakenOK'
  BY <1>2 DEF SendTask, EnqueueFails, Redeliver
<1>3. ASSUME NEW p \in Process, NEW r \in Row, Receive(p, r) PROVE OvertakenOK'
  BY <1>3 DEF Receive
<1>4. ASSUME NEW p \in Process, GetOutboxEmail(p) PROVE OvertakenOK'
  BY <1>4 DEF GetOutboxEmail
<1>5. ASSUME NEW p \in Process, MarkOutboxSent(p) PROVE OvertakenOK'
  <2>. SUFFICES ASSUME NEW q \in Process, pc'[q] = "mark_outbox_sent",
                       status'[job'[q]] = "sent"
                PROVE  q \in outran'
    OBVIOUS
  <2>1. q # p /\ pc[q] = "mark_outbox_sent" /\ job'[q] = job[q] /\ job[q] \in Row
    BY <1>5 DEF MarkOutboxSent
  <2>2. CASE job[q] = job[p]
    BY <1>5, <2>1, <2>2 DEF MarkOutboxSent, On
  <2>3. CASE job[q] # job[p]
    BY <1>5, <2>1, <2>3 DEF MarkOutboxSent
  <2>. QED
    BY <2>2, <2>3
<1>6. ASSUME NEW p \in Process, Crash(p) PROVE OvertakenOK'
  BY <1>6 DEF Crash
<1>7. ASSUME UNCHANGED vars PROVE OvertakenOK'
  BY <1>7 DEF vars
<1>. QED
  BY <1>1, <1>2, <1>3, <1>4, <1>5, <1>6, <1>7 DEF Next, Work

-----------------------------------------------------------------------------
(* The invariant: types, the order of insertion and publication, and who   *)
(* has been overtaken.                                                     *)
THEOREM Inductive == Spec => []IInv
<1>1. Init => IInv
  BY OutboxConstants
  DEF Init, IInv, RowsOK, TypeOK, PublishedOnce, MessagesHaveRows, OvertakenOK, On
<1>2. IInv /\ [Next]_vars => IInv'
  BY TypeNext, PublishedNext, MessagesNext, OvertakenNext DEF IInv, RowsOK
<1>. QED
  BY <1>1, <1>2, PTL DEF Spec

(* No row is ever anything but queued or sent, and no message has more     *)
(* copies than the bound allows, as each row is published once.            *)
THEOREM TypeCorrect == Spec => []TypeOK
BY Inductive, PTL DEF IInv, RowsOK

(* queue_email commits the row before it publishes the message, so         *)
(* process_outbox_email always finds it.                                   *)
THEOREM MessagesAlwaysHaveRows == Spec => []MessagesHaveRows
BY Inductive, PTL DEF IInv, RowsOK

(* process_outbox_email marks a row sent twice only if two processes have  *)
(* read it as queued.                                                      *)
THEOREM ResendsComeFromRaces == Spec => OnlyOvertakenProcessesResend
<1>. DEFINE A == \A p \in Process :
                   MarkOutboxSent(p) /\ status[job[p]] = "sent" => p \in outran
<1>1. IInv => [A]_vars
  BY DEF IInv, OvertakenOK, MarkOutboxSent
<1>. QED
  BY <1>1, Inductive, PTL DEF OnlyOvertakenProcessesResend

-----------------------------------------------------------------------------
(* A worker that knows the task never forgets a queued row: it is being    *)
(* published, has a message, is in work, or a message of it met a failure. *)
THEOREM QueuedRowsAreNotForgotten ==
  ASSUME TaskRegistered
  PROVE  Spec => []QueuedRowsAreOnTheirWay
<1>. USE DEF QueuedRowsAreOnTheirWay
<1>1. Init => QueuedRowsAreOnTheirWay
  BY DEF Init
<1>2. RowsOK /\ QueuedRowsAreOnTheirWay /\ [Next]_vars => QueuedRowsAreOnTheirWay'
  <2>. SUFFICES ASSUME RowsOK, QueuedRowsAreOnTheirWay, [Next]_vars
                PROVE  QueuedRowsAreOnTheirWay'
    OBVIOUS
  <2>. USE OutboxConstants DEF RowsOK, TypeOK, On, rowVars, processVars, historyVars, Done, Goto
  <2>1. ASSUME NEW r \in Row, CreateOutboxEmail(r) PROVE QueuedRowsAreOnTheirWay'
    BY <2>1 DEF CreateOutboxEmail
  <2>2. ASSUME NEW r \in Row, SendTask(r) PROVE QueuedRowsAreOnTheirWay'
    BY <2>2 DEF SendTask
  <2>3. ASSUME NEW r \in Row, EnqueueFails(r) PROVE QueuedRowsAreOnTheirWay'
    BY <2>3 DEF EnqueueFails
  <2>4. ASSUME NEW r \in Row, Redeliver(r) PROVE QueuedRowsAreOnTheirWay'
    BY <2>4 DEF Redeliver
  <2>5. ASSUME NEW p \in Process, NEW r \in Row, Receive(p, r)
        PROVE  QueuedRowsAreOnTheirWay'
    BY <2>5, TaskRegistered DEF Receive
  <2>6. ASSUME NEW p \in Process, GetOutboxEmail(p) PROVE QueuedRowsAreOnTheirWay'
    BY <2>6 DEF GetOutboxEmail
  <2>7. ASSUME NEW p \in Process, MarkOutboxSent(p) PROVE QueuedRowsAreOnTheirWay'
    BY <2>7 DEF MarkOutboxSent
  <2>8. ASSUME NEW p \in Process, Crash(p) PROVE QueuedRowsAreOnTheirWay'
    BY <2>8 DEF Crash
  <2>9. ASSUME UNCHANGED vars PROVE QueuedRowsAreOnTheirWay'
    BY <2>9 DEF vars
  <2>. QED
    BY <2>1, <2>2, <2>3, <2>4, <2>5, <2>6, <2>7, <2>8, <2>9 DEF Next, Work
<1>3. IInv => RowsOK
  BY DEF IInv
<1>. QED
  BY <1>1, <1>2, <1>3, Inductive, PTL DEF Spec
-----------------------------------------------------------------------------
(* Towards QueuedIsSentOrLost.                                             *)

(* How far row r has come: its message is published, taken, the row read,  *)
(* and it is marked, or a message of it is lost.                           *)
Stage(r) ==
  IF status[r] = "sent" \/ r \in lost THEN 4
  ELSE IF \E p \in On(r) : pc[p] = "mark_outbox_sent" THEN 3
  ELSE IF On(r) # {} THEN 2
  ELSE IF copies[r] > 0 THEN 1 ELSE 0

(* The step that r waits for at its stage.                                 *)
Serve(r) ==
  \/ Stage(r) = 0 /\ (SendTask(r) \/ EnqueueFails(r))
  \/ Stage(r) = 1 /\ \E p \in Process : Receive(p, r)
  \/ Stage(r) = 2 /\ \E p \in On(r) : GetOutboxEmail(p)
  \/ Stage(r) = 3 /\ \E p \in On(r) : MarkOutboxSent(p)

(* A worker without the task takes a message of r and drops it.            *)
Drops(r) == ~ TaskRegistered /\ \E p \in Process : Receive(p, r)

(* No step, of whatever process and for whatever row, sends a row back but *)
(* the dropping of its message.                                            *)
RowsMoveOn ==
  [][\A r \in Row : ~ Drops(r) => /\ Stage(r)' >= Stage(r)
                                  /\ Serve(r) => Stage(r)' > Stage(r)]_vars

(* What a stage says, and what is enough for it.                           *)
LEMMA StageMeans ==
  ASSUME NEW r \in Row
  PROVE  /\ Stage(r) \in 0..4
         /\ Stage(r) = 4 <=> status[r] = "sent" \/ r \in lost
         /\ \A p \in On(r) : Stage(r) >= IF pc[p] = "mark_outbox_sent" THEN 3 ELSE 2
         /\ Stage(r) = 3 => \E p \in On(r) : pc[p] = "mark_outbox_sent"
         /\ Stage(r) = 2 => \E p \in On(r) : TRUE
         /\ copies[r] > 0 => Stage(r) >= 1
         /\ Stage(r) = 1 => copies[r] > 0
BY DEF Stage

LEMMA StageMeansNext ==
  ASSUME NEW r \in Row
  PROVE  /\ Stage(r)' \in 0..4
         /\ status'[r] = "sent" \/ r \in lost' => Stage(r)' = 4
         /\ \A p \in On(r)' : Stage(r)' >= IF pc'[p] = "mark_outbox_sent" THEN 3 ELSE 2
         /\ copies'[r] > 0 => Stage(r)' >= 1
BY DEF Stage

(* A row's stage stays if nothing of it changes.                           *)
LEMMA StageKeeps ==
  ASSUME TypeOK, NEW r \in Row, status'[r] = status[r], r \in lost <=> r \in lost',
         copies'[r] = copies[r],
         \A p \in Process : (job[p] = r \/ job'[p] = r) => job'[p] = job[p] /\ pc'[p] = pc[p]
  PROVE  Stage(r)' = Stage(r)
<1>1. On(r)' = On(r)
  BY DEF On
<1>2. \A p \in On(r) : pc'[p] = pc[p]
  BY DEF On
<1>. QED
  BY <1>1, <1>2 DEF Stage

LEMMA StageRises ==
  ASSUME RowsOK, NEW r \in Row, Serve(r), ~ Drops(r)
  PROVE  Stage(r)' > Stage(r)
<1>. USE DEF rowVars, processVars, historyVars
<1>0. TypeOK
  BY DEF RowsOK
<1>1. CASE Stage(r) = 0 /\ SendTask(r)
  <2>1. copies'[r] > 0
    BY <1>0, <1>1 DEF SendTask, TypeOK
  <2>. QED
    BY <1>1, <2>1, StageMeansNext
<1>2. CASE Stage(r) = 0 /\ EnqueueFails(r)
  <2>1. r \in lost'
    BY <1>2 DEF EnqueueFails
  <2>. QED
    BY <1>2, <2>1, StageMeansNext
<1>3. ASSUME NEW p \in Process, Stage(r) = 1, Receive(p, r) PROVE Stage(r)' > Stage(r)
  <2>0. TaskRegistered
    BY <1>3 DEF Drops
  <2>1. p \in On(r)'
    BY <1>0, <1>3, <2>0 DEF Receive, On, TypeOK
  <2>2. Stage(r)' >= 2
    BY <2>1, StageMeansNext
  <2>. QED
    BY <1>3, <2>2, StageMeansNext
<1>4. ASSUME NEW p \in On(r), Stage(r) = 2, GetOutboxEmail(p) PROVE Stage(r)' > Stage(r)
  <2>1. p \in Process /\ job[p] = r /\ status[r] # "sent"
    BY <1>4, StageMeans DEF On
  <2>2. p \in On(r)' /\ pc'[p] = "mark_outbox_sent"
    BY <1>0, <1>4, <2>1 DEF GetOutboxEmail, Goto, On, TypeOK
  <2>3. Stage(r)' >= 3
    BY <2>2, StageMeansNext
  <2>. QED
    BY <1>4, <2>3, StageMeansNext
<1>5. ASSUME NEW p \in On(r), Stage(r) = 3, MarkOutboxSent(p) PROVE Stage(r)' > Stage(r)
  <2>1. status'[r] = "sent"
    BY <1>0, <1>5 DEF MarkOutboxSent, On, TypeOK
  <2>. QED
    BY <1>5, <2>1, StageMeansNext
<1>. QED
  BY <1>1, <1>2, <1>3, <1>4, <1>5 DEF Serve

LEMMA StageNext ==
  ASSUME RowsOK, [Next]_vars, NEW r \in Row, ~ Drops(r)
  PROVE  Stage(r)' >= Stage(r)
<1>. USE OutboxConstants DEF rowVars, processVars, historyVars
<1>0. TypeOK
  BY DEF RowsOK
<1>1. CASE Stage(r) = 4 /\ (status[r] = "sent" => status'[r] = "sent") /\ lost \subseteq lost'
  BY <1>1, StageMeans, StageMeansNext
<1>2. CASE Stage(r)' = Stage(r)
  BY <1>2, StageMeans
<1>3. CASE Stage(r)' = 4
  BY <1>3, StageMeans
<1>4. CASE Stage(r) = 0
  BY <1>4, StageMeansNext
<1>5. ASSUME NEW p \in Process, job[p] = r, job'[p] = r,
             pc[p] = "mark_outbox_sent" => pc'[p] = "mark_outbox_sent",
             Stage(r) # 4,
             \A q \in Process \ {p} :
               job[q] = r => job'[q] = r /\ pc'[q] = pc[q]
      PROVE  Stage(r)' >= Stage(r)
  <2>1. On(r) \subseteq On(r)' /\ p \in On(r)'
    BY <1>5 DEF On
  <2>2. CASE Stage(r) = 3
    <3>1. PICK q \in On(r) : pc[q] = "mark_outbox_sent"
      BY <2>2, StageMeans
    <3>2. q \in On(r)' /\ pc'[q] = "mark_outbox_sent"
      BY <1>5, <2>1, <3>1 DEF On
    <3>3. Stage(r)' >= 3
      BY <3>2, StageMeansNext
    <3>. QED
      BY <2>2, <3>3
  <2>3. CASE Stage(r) # 3
    <3>1. Stage(r)' >= 2
      BY <2>1, StageMeansNext
    <3>. QED
      BY <1>5, <2>3, <3>1, StageMeans, StageMeansNext
  <2>. QED
    BY <2>2, <2>3
<1>6. ASSUME NEW q \in Row, CreateOutboxEmail(q) PROVE Stage(r)' >= Stage(r)
  <2>1. CASE q = r
    <3>1. status[r] = "absent" /\ status'[r] = "queued"
      BY <1>0, <1>6, <2>1 DEF CreateOutboxEmail, TypeOK
    <3>2. On(r)' = On(r)
      BY <1>6 DEF CreateOutboxEmail, On
    <3>3. Stage(r)' = Stage(r)
      BY <1>6, <3>1, <3>2 DEF CreateOutboxEmail, Stage
    <3>. QED
      BY <1>2, <3>3
  <2>2. CASE q # r
    <3>1. status'[r] = status[r]
      BY <1>0, <1>6, <2>2 DEF CreateOutboxEmail, TypeOK
    <3>2. Stage(r)' = Stage(r)
      BY <1>0, <1>6, <3>1, StageKeeps DEF CreateOutboxEmail
    <3>. QED
      BY <1>2, <3>2
  <2>. QED
    BY <2>1, <2>2
<1>7. ASSUME NEW q \in Row, SendTask(q) \/ Redeliver(q) PROVE Stage(r)' >= Stage(r)
  <2>1. CASE q # r
    <3>1. copies'[r] = copies[r]
      BY <1>0, <1>7, <2>1 DEF SendTask, Redeliver, TypeOK
    <3>2. Stage(r)' = Stage(r)
      BY <1>0, <1>7, <3>1, StageKeeps DEF SendTask, Redeliver
    <3>. QED
      BY <1>2, <3>2
  <2>2. CASE q = r
    <3>1. copies'[r] > 0
      BY <1>0, <1>7, <2>2 DEF SendTask, Redeliver, TypeOK
    <3>2. /\ On(r)' = On(r) /\ pc' = pc /\ status' = status /\ lost' = lost
      BY <1>7 DEF SendTask, Redeliver, On
    <3>3. Stage(r)' = IF Stage(r) = 0 THEN 1 ELSE Stage(r)
      BY <1>0, <3>1, <3>2 DEF Stage, TypeOK
    <3>. QED
      BY <3>3, StageMeans
  <2>. QED
    BY <2>1, <2>2
<1>8. ASSUME NEW q \in Row, EnqueueFails(q) PROVE Stage(r)' >= Stage(r)
  <2>1. CASE q = r
    BY <1>3, <1>8, <2>1, StageMeansNext DEF EnqueueFails
  <2>2. CASE q # r
    <3>1. Stage(r)' = Stage(r)
      BY <1>0, <1>8, <2>2, StageKeeps DEF EnqueueFails
    <3>. QED
      BY <1>2, <3>1
  <2>. QED
    BY <2>1, <2>2
<1>9. ASSUME NEW p \in Process, NEW q \in Row, Receive(p, q) PROVE Stage(r)' >= Stage(r)
  <2>2. CASE q # r
    <3>1. copies'[r] = copies[r] /\ status' = status /\ lost' = lost
      BY <1>0, <1>9, <2>2 DEF Receive, TypeOK
    <3>2. \A z \in Process : (job[z] = r \/ job'[z] = r) => job'[z] = job[z] /\ pc'[z] = pc[z]
      BY <1>0, <1>9, <2>2 DEF Receive, TypeOK
    <3>3. Stage(r)' = Stage(r)
      BY <1>0, <3>1, <3>2, StageKeeps
    <3>. QED
      BY <1>2, <3>3
  <2>3. CASE q = r
    <3>0. /\ job[p] = NoRow /\ job' = [job EXCEPT ![p] = q]
          /\ pc' = [pc EXCEPT ![p] = "get_outbox_email"]
      <4>1. TaskRegistered
        BY <1>9, <2>3 DEF Drops
      <4>. QED
        BY <1>0, <1>9, <4>1 DEF Receive, TypeOK
    <3>1. On(r)' = On(r) \cup {p} /\ p \notin On(r) /\ status' = status /\ lost' = lost
      BY <1>0, <1>9, <2>3, <3>0 DEF Receive, On, TypeOK
    <3>2. Stage(r)' >= 2
      BY <3>1, StageMeansNext
    <3>3. CASE Stage(r) = 3
      <4>1. PICK z \in On(r) : pc[z] = "mark_outbox_sent"
        BY <3>3, StageMeans
      <4>2. z \in On(r)' /\ pc'[z] = "mark_outbox_sent"
        BY <1>0, <3>0, <3>1, <4>1 DEF TypeOK, On
      <4>3. Stage(r)' >= 3
        BY <4>2, StageMeansNext
      <4>. QED
        BY <3>3, <4>3
    <3>4. CASE Stage(r) = 4
      BY <1>1, <3>1, <3>4
    <3>. QED
      BY <3>2, <3>3, <3>4, StageMeans, StageMeansNext
  <2>. QED
    BY <2>2, <2>3
<1>10. ASSUME NEW p \in Process, GetOutboxEmail(p) PROVE Stage(r)' >= Stage(r)
  <2>1. status' = status /\ lost' = lost /\ copies' = copies
    BY <1>10 DEF GetOutboxEmail
  <2>2. CASE Stage(r) = 4
    BY <1>1, <2>1, <2>2
  <2>3. CASE Stage(r) # 4 /\ job[p] = r
    <3>1. status[r] # "sent"
      BY <2>3, StageMeans
    <3>2. job' = job /\ pc' = [pc EXCEPT ![p] = "mark_outbox_sent"]
      BY <1>10, <2>3, <3>1 DEF GetOutboxEmail, Goto
    <3>. QED
      BY <1>0, <1>5, <2>3, <3>2 DEF TypeOK
  <2>4. CASE job[p] # r
    <3>1. \A q \in Process : q # p => job'[q] = job[q] /\ pc'[q] = pc[q]
      BY <1>0, <1>10 DEF GetOutboxEmail, Goto, Done, TypeOK
    <3>2. job'[p] # r
      BY <1>0, <1>10, <2>4 DEF GetOutboxEmail, Goto, Done, TypeOK
    <3>3. Stage(r)' = Stage(r)
      BY <1>0, <2>1, <2>4, <3>1, <3>2, StageKeeps
    <3>. QED
      BY <1>2, <3>3
  <2>. QED
    BY <2>2, <2>3, <2>4
<1>11. ASSUME NEW p \in Process, MarkOutboxSent(p) \/ Crash(p) PROVE Stage(r)' >= Stage(r)
  <2>1. job[p] \in Row /\ copies' = copies
    BY <1>0, <1>11 DEF MarkOutboxSent, Crash, TypeOK
  <2>2. CASE job[p] = r
    <3>1. status'[r] = "sent" \/ r \in lost'
      BY <1>0, <1>11, <2>2 DEF MarkOutboxSent, Crash, TypeOK
    <3>. QED
      BY <1>3, <3>1, StageMeansNext
  <2>3. CASE job[p] # r
    <3>1. status'[r] = status[r] /\ (r \in lost <=> r \in lost')
      BY <1>0, <1>11, <2>3 DEF MarkOutboxSent, Crash, TypeOK
    <3>2. job'[p] # r /\ \A q \in Process : q # p => job'[q] = job[q] /\ pc'[q] = pc[q]
      BY <1>0, <1>11, <2>3 DEF MarkOutboxSent, Crash, Done, TypeOK
    <3>3. Stage(r)' = Stage(r)
      BY <1>0, <2>1, <2>3, <3>1, <3>2, StageKeeps
    <3>. QED
      BY <1>2, <3>3
  <2>. QED
    BY <2>2, <2>3
<1>12. ASSUME UNCHANGED vars PROVE Stage(r)' >= Stage(r)
  BY <1>0, <1>2, <1>12, StageKeeps DEF vars
<1>. QED
  BY <1>6, <1>7, <1>8, <1>9, <1>10, <1>11, <1>12 DEF Next, Work

(* Whatever other processes do, a row only moves on: no step of            *)
(* queue_email, the broker or process_outbox_email sends it back, and the  *)
(* one its stage waits for moves it on.  Only a worker that does not know  *)
(* base2.send_email_outbox undoes this, when it drops the row's message.   *)
THEOREM RowsOnlyMoveOn == Spec => RowsMoveOn
<1>. DEFINE A == \A r \in Row : ~ Drops(r) => /\ Stage(r)' >= Stage(r)
                                              /\ Serve(r) => Stage(r)' > Stage(r)
<1>1. ASSUME IInv, [Next]_vars, NEW r \in Row, ~ Drops(r)
      PROVE  Stage(r)' >= Stage(r) /\ (Serve(r) => Stage(r)' > Stage(r))
  BY <1>1, StageNext, StageRises DEF IInv
<1>2. IInv /\ [Next]_vars => [A]_vars
  BY <1>1
<1>. QED
  BY <1>2, Inductive, PTL DEF Spec, RowsMoveOn

(* Row r is served: unless a message of it is dropped, it does not wait    *)
(* for ever at a stage for that step.                                      *)
Served(r) ==
  \/ <><<Drops(r)>>_vars
  \/ []<>(status[r] # "queued" \/ r \in lost)
  \/ []<><<Serve(r)>>_vars

(* A row that is queued is sent or lost, or its message is dropped.        *)
SentOrLostOrDropped ==
  \A r \in Row :
    <>(status[r] = "queued") => \/ <>(status[r] = "sent" \/ r \in lost)
                               \/ <><<Drops(r)>>_vars

(* What is served is sent, lost or dropped, and not dropped by a worker    *)
(* that knows the task.  The second part is QueuedIsSentOrLost without the *)
(* passage from the fairness of actions to Served, which speaks of         *)
(* ENABLED.                                                                *)
THEOREM ServedRowsAreSentOrLost ==
  Spec /\ (\A r \in Row : Served(r))
    => SentOrLostOrDropped /\ (TaskRegistered => QueuedIsSentOrLost)
<1>1. ASSUME NEW r \in Row
      PROVE  Spec /\ Served(r)
               => \/ status[r] = "queued" ~> status[r] = "sent" \/ r \in lost
                  \/ <><<Drops(r)>>_vars
  <2>. DEFINE Queued == status[r] = "queued"
              Settled == status[r] = "sent" \/ r \in lost
              There == status[r] # "absent"
              Idle == status[r] # "queued" \/ r \in lost
              A1 == Stage(r) >= 1
              A2 == Stage(r) >= 2
              A3 == Stage(r) >= 3
              Keeps == /\ Settled => Settled'
                       /\ A1 => A1'
                       /\ A2 => A2'
                       /\ A3 => A3'
              Rises == /\ A1'
                       /\ A1 => A2'
                       /\ A2 => A3'
                       /\ A3 => Settled'
  <2>1. Settled <=> Stage(r) = 4
    BY StageMeans
  <2>2. Settled' <=> Stage(r)' = 4
    BY DEF Stage
  <2>3. Stage(r) \in 0..4 /\ Stage(r)' \in 0..4
    BY StageMeans, StageMeansNext
  <2>4. ASSUME IInv, [Next]_vars
        PROVE  There => There'
    BY <2>4 DEF IInv, RowsOK, TypeOK, Next, Work, CreateOutboxEmail, SendTask, EnqueueFails,
                Redeliver, Receive, GetOutboxEmail, MarkOutboxSent, Crash, rowVars, vars
  <2>5. ASSUME IInv, [Next]_vars, ~ Drops(r)
        PROVE  Keeps
    <3>1. Stage(r)' >= Stage(r)
      BY <2>5, StageNext DEF IInv
    <3>. QED
      BY <2>1, <2>2, <2>3, <3>1
  <2>6. ASSUME IInv, Serve(r), ~ Drops(r)
        PROVE  Rises
    <3>1. Stage(r)' > Stage(r)
      BY <2>6, StageRises DEF IInv
    <3>. QED
      BY <2>1, <2>2, <2>3, <3>1
  <2>7. IInv /\ Drops(r) => <<Drops(r)>>_vars
    BY DEF IInv, RowsOK, TypeOK, Drops, Receive, vars
  <2>8. IInv /\ [Next]_vars => (There => There') /\ (<<Drops(r)>>_vars \/ Keeps)
    BY <2>4, <2>5, <2>7
  <2>9. IInv /\ <<Serve(r)>>_vars => <<Drops(r)>>_vars \/ Rises
    BY <2>6, <2>7
  <2>10. IInv => (Idle /\ There => Settled)
    BY DEF IInv, RowsOK, TypeOK
  <2>11. Queued => There
    OBVIOUS
  <2>. HIDE DEF Queued, Settled, There, Idle, A1, A2, A3
  <2>12. Spec /\ (<><<Drops(r)>>_vars \/ []<>Idle \/ []<><<Serve(r)>>_vars)
           => (Queued ~> Settled) \/ <><<Drops(r)>>_vars
    BY <2>8, <2>9, <2>10, <2>11, Inductive, PTL DEF Spec
  <2>. QED
    BY <2>12 DEF Served, Queued, Settled, Idle
<1>2. Spec /\ (\A r \in Row : Served(r)) => SentOrLostOrDropped
  <2>1. ASSUME NEW r \in Row
        PROVE  Spec /\ Served(r)
                 => (<>(status[r] = "queued") => \/ <>(status[r] = "sent" \/ r \in lost)
                                                \/ <><<Drops(r)>>_vars)
    BY <1>1, PTL
  <2>. QED
    BY <2>1 DEF SentOrLostOrDropped
<1>3. ASSUME TaskRegistered
      PROVE  Spec /\ (\A r \in Row : Served(r)) => QueuedIsSentOrLost
  <2>1. ASSUME NEW r \in Row
        PROVE  Spec /\ Served(r)
                 => (status[r] = "queued" ~> status[r] = "sent" \/ r \in lost)
    <3>1. ~ <<Drops(r)>>_vars
      BY <1>3 DEF Drops
    <3>. QED
      BY <1>1, <3>1, PTL
  <2>. QED
    BY <2>1 DEF QueuedIsSentOrLost
<1>. QED
  BY <1>2, <1>3

-----------------------------------------------------------------------------
(* The worker as it is.                                                    *)

(* src/api/tasks.py hides the package with the task: such a worker works   *)
(* on no row and marks none sent, whatever is queued and delivered again.  *)
THEOREM UnregisteredWorkersSendNothing ==
  ASSUME ~ TaskRegistered
  PROVE  Spec => [](\A r \in Row : status[r] # "sent" /\ On(r) = {})
<1>. DEFINE Nothing == \A r \in Row : status[r] # "sent" /\ On(r) = {}
<1>1. Init => Nothing
  BY OutboxConstants DEF Init, On
<1>2. IInv /\ Nothing /\ [Next]_vars => Nothing'
  <2>. SUFFICES ASSUME IInv, Nothing, [Next]_vars
                PROVE  Nothing'
    OBVIOUS
  <2>. USE DEF rowVars, processVars, On
  <2>1. TypeOK /\ \A p \in Process : job[p] = NoRow /\ pc[p] = "idle"
    BY DEF IInv, RowsOK, TypeOK
  <2>2. ASSUME NEW r \in Row, CreateOutboxEmail(r) PROVE Nothing'
    BY <2>1, <2>2 DEF CreateOutboxEmail, TypeOK
  <2>3. ASSUME NEW r \in Row, SendTask(r) \/ EnqueueFails(r) \/ Redeliver(r) PROVE Nothing'
    BY <2>3 DEF SendTask, EnqueueFails, Redeliver
  <2>4. ASSUME NEW p \in Process, NEW r \in Row, Receive(p, r) PROVE Nothing'
    BY <2>4, ~ TaskRegistered DEF Receive
  <2>5. ASSUME NEW p \in Process, GetOutboxEmail(p) \/ MarkOutboxSent(p) \/ Crash(p)
        PROVE  FALSE
    BY <2>1, <2>5 DEF GetOutboxEmail, MarkOutboxSent, Crash
  <2>6. ASSUME UNCHANGED vars PROVE Nothing'
    BY <2>6 DEF vars
  <2>. QED
    BY <2>2, <2>3, <2>4, <2>5, <2>6 DEF Next, Work
<1>. QED
  BY <1>1, <1>2, Inductive, PTL DEF Spec
=============================================================================
