--------------------------- MODULE MCEmailOutbox ---------------------------
(* Small instances of EmailOutbox, and what the repository's documents say *)
(* of it.                                                                  *)
EXTENDS EmailOutbox, TLC

(* specs/001-django-fastapi-react/tasks.md:704, "sending creates outbox    *)
(* row; worker marks sent": a row none of whose messages met a failure is  *)
(* marked sent.                                                            *)
WorkerMarksSent ==
  \A r \in Row : status[r] = "queued" ~> status[r] = "sent" \/ r \in lost
=============================================================================
