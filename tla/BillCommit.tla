----------------------------- MODULE BillCommit -----------------------------
(***************************************************************************)
(* BillCommitProducer, the BullMQ queue bill-commit and its one worker,    *)
(* BillCommitProcessor.  BullMQ itself is modelled from how the code uses  *)
(* it: one job per jobId for as long as the job is kept, a FIFO waiting    *)
(* list, failed attempts delayed and tried again, a job whose worker died  *)
(* put back in front.                                                      *)
(***************************************************************************)
EXTENDS BillRequests

AddJob(b) ==
  /\ job' = [job EXCEPT ![b] = "waiting"]
  /\ queue' = Append(queue, b)
  /\ UNCHANGED attempts

\* (Faulty variant: the job has no jobId of its own.)
EnqueueAgain(r) ==
  /\ req[r].pc = "enqueue"
  /\ AddJob(req[r].bill)
  /\ Finish(r)
  /\ UNCHANGED <<rows, items, status, sales, worker, spent>>

\* enqueue(): adding a jobId that BullMQ still has, finished ones included, does nothing.
Enqueue(r) ==
  /\ req[r].pc = "enqueue"
  /\ IF job[req[r].bill] = "none" THEN AddJob(req[r].bill) ELSE UNCHANGED bullmq
  /\ Finish(r)
  /\ UNCHANGED <<rows, items, status, sales, worker, spent>>

TakeJob ==
  /\ worker.pc = "idle" /\ queue # <<>>
  /\ queue' = Tail(queue)
  /\ job' = [job EXCEPT ![Head(queue)] = "active"]
  /\ worker' = [Resting EXCEPT !.pc = "mark", !.bill = Head(queue)]
  /\ UNCHANGED <<rows, items, status, sales, req, attempts, spent>>

\* The status is set whatever it was.
MarkCommitting ==
  /\ worker.pc = "mark"
  /\ status' = [status EXCEPT ![worker.bill] = "COMMITTING"]
  /\ worker' = [worker EXCEPT !.pc = "begin"]
  /\ UNCHANGED <<rows, items, sales, req, bullmq, spent>>

-----------------------------------------------------------------------------
(* The transaction: nothing it does is visible before it commits, and the   *)
(* rows it has read stay locked until then.                                 *)

BeginTransaction ==
  /\ worker.pc = "begin"
  /\ worker' = [worker EXCEPT !.pc = "lines", !.todo = ItemsOf(worker.bill)]
  /\ UNCHANGED <<rows, items, status, sales, req, bullmq, spent>>

Rollback == worker' = [worker EXCEPT !.pc = "fail", !.todo = {}, !.taken = NoneTaken]

\* (Faulty variant: the quantity on hand is not looked at.)
CoveredByPendingOnly(i) == pending[i.batch] - worker.taken[i.batch] >= i.qty

\* The check of one item, after what the transaction has taken already.
Covered(i) ==
  /\ stock[i.batch] - worker.taken[i.batch] >= i.qty
  /\ pending[i.batch] - worker.taken[i.batch] >= i.qty

CommitLine ==
  /\ worker.pc = "lines"
  /\ \E i \in worker.todo :
       \/ /\ Covered(i)
          /\ worker' = [worker EXCEPT !.todo = @ \ {i}, !.taken[i.batch] = @ + i.qty]
       \/ /\ ~Covered(i)
          /\ Rollback
  /\ UNCHANGED <<rows, items, status, sales, req, bullmq, spent>>

\* (Faulty variants: the invoice is not unique per bill; no invoice row is written.)
CommitTwice ==
  /\ worker.pc = "lines" /\ worker.todo = {}
  /\ stock' = [x \in Batch |-> stock[x] - worker.taken[x]]
  /\ pending' = [x \in Batch |-> pending[x] - worker.taken[x]]
  /\ moved' = [moved EXCEPT ![worker.bill] = worker.taken]
  /\ invoiced' = invoiced \union {worker.bill}
  /\ status' = [status EXCEPT ![worker.bill] = "COMPLETED"]
  /\ worker' = [worker EXCEPT !.pc = "after", !.taken = NoneTaken]
  /\ UNCHANGED <<items, req, bullmq, spent>>

CommitUninvoiced ==
  /\ worker.pc = "lines" /\ worker.todo = {}
  /\ worker.bill \notin invoiced
  /\ stock' = [x \in Batch |-> stock[x] - worker.taken[x]]
  /\ pending' = [x \in Batch |-> pending[x] - worker.taken[x]]
  /\ moved' = [moved EXCEPT ![worker.bill] = worker.taken]
  /\ status' = [status EXCEPT ![worker.bill] = "COMPLETED"]
  /\ worker' = [worker EXCEPT !.pc = "after", !.taken = NoneTaken]
  /\ UNCHANGED <<items, invoiced, req, bullmq, spent>>

\* The transaction's last statements and its commit.  The invoice's unique bill_id
\* makes a second sale of the bill roll back.
Commit ==
  /\ worker.pc = "lines" /\ worker.todo = {}
  /\ worker.bill \notin invoiced
  /\ stock' = [x \in Batch |-> stock[x] - worker.taken[x]]
  /\ pending' = [x \in Batch |-> pending[x] - worker.taken[x]]
  /\ moved' = [moved EXCEPT ![worker.bill] = worker.taken]
  /\ invoiced' = invoiced \union {worker.bill}
  /\ status' = [status EXCEPT ![worker.bill] = "COMPLETED"]
  /\ worker' = [worker EXCEPT !.pc = "after", !.taken = NoneTaken]
  /\ UNCHANGED <<items, req, bullmq, spent>>

InvoiceExists ==
  /\ worker.pc = "lines" /\ worker.todo = {}
  /\ worker.bill \in invoiced
  /\ Rollback
  /\ UNCHANGED <<rows, items, status, sales, req, bullmq, spent>>

-----------------------------------------------------------------------------
(* After the commit, and the catch block. *)

\* Redis, the snapshots, the events and the PDF: then the job is done.
CompleteJob ==
  /\ worker.pc = "after"
  /\ job' = [job EXCEPT ![worker.bill] = "completed"]
  /\ worker' = Resting
  /\ UNCHANGED <<rows, items, status, sales, req, queue, attempts, spent>>

SetFailed ==
  /\ worker.pc = "fail"
  /\ status' = [status EXCEPT ![worker.bill] = "FAILED_STOCK"]
  /\ worker' = [worker EXCEPT !.pc = "readBack"]
  /\ UNCHANGED <<rows, items, sales, req, bullmq, spent>>

ReadBack ==
  /\ worker.pc = "readBack"
  /\ worker' = [worker EXCEPT !.pc = "giveBack", !.todo = ItemsOf(worker.bill)]
  /\ UNCHANGED <<rows, items, status, sales, req, bullmq, spent>>

\* The catch block gives back the whole quantity, reserved or not, unclamped.
GiveBack ==
  /\ worker.pc = "giveBack"
  /\ \E i \in worker.todo :
       /\ pending' = [pending EXCEPT ![i.batch] = @ - i.qty]
       /\ worker' = [worker EXCEPT !.todo = @ \ {i}]
  /\ UNCHANGED <<stock, items, status, sales, req, bullmq, spent>>

\* The attempt has thrown: try again later, until the attempts are used up.
EndAttempt ==
  /\ attempts' = [attempts EXCEPT ![worker.bill] = @ + 1]
  /\ job' = [job EXCEPT ![worker.bill] =
               IF attempts[worker.bill] + 1 < Attempts THEN "delayed" ELSE "failed"]
  /\ worker' = Resting
  /\ UNCHANGED queue

FailJob ==
  /\ worker.pc = "giveBack" /\ worker.todo = {}
  /\ EndAttempt
  /\ UNCHANGED <<rows, items, status, sales, req, spent>>

\* The backoff is over.
PromoteJob(b) ==
  /\ job[b] = "delayed"
  /\ AddJob(b)
  /\ UNCHANGED <<rows, items, status, sales, req, worker, spent>>

-----------------------------------------------------------------------------
(* Faults *)

\* An exception inside the try block leads to the catch block, one outside it ends the
\* attempt as it is.
WorkerFault ==
  /\ worker.pc # "idle"
  /\ Spend("event")
  /\ \/ /\ worker.pc \in {"begin", "lines", "after"}
        /\ Rollback
        /\ UNCHANGED bullmq
     \/ /\ worker.pc \in {"mark", "fail", "readBack", "giveBack"}
        /\ EndAttempt
  /\ UNCHANGED <<rows, items, status, sales, req>>

\* (Faulty variant: the job of a worker that died is not put back.)
CrashLosesJob ==
  /\ Spend("event")
  /\ req' = [r \in Request |-> Idle]
  /\ worker' = Resting
  /\ UNCHANGED <<rows, items, status, sales, bullmq>>

\* The server dies and comes back: every handler is gone, the worker's transaction is
\* rolled back by the database and its job, stalled, is put back in front.
Crash ==
  /\ Spend("event")
  /\ req' = [r \in Request |-> Idle]
  /\ worker' = Resting
  /\ IF worker.pc = "idle" THEN UNCHANGED bullmq
     ELSE /\ job' = [job EXCEPT ![worker.bill] = "waiting"]
          /\ queue' = <<worker.bill>> \o queue
          /\ UNCHANGED attempts
  /\ UNCHANGED <<rows, items, status, sales>>
=============================================================================
