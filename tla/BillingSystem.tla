---------------------------- MODULE BillingSystem ----------------------------
(***************************************************************************)
(* The reservation and commit core as a whole: concurrent API requests,    *)
(* the sweep, the queue worker, stock adjustments, faults and a crash, all *)
(* on the same batch_stock rows.                                           *)
(***************************************************************************)
EXTENDS BillCommit, FiniteSetsExt

Init ==
  /\ stock = InitStock
  /\ pending = [x \in Batch |-> 0]
  /\ items = {}
  /\ status = [b \in Bill |-> "NEW"]
  /\ invoiced = {}
  /\ moved = [b \in Bill |-> NoneTaken]
  /\ req = [r \in Request |-> Idle]
  /\ queue = <<>>
  /\ job = [b \in Bill |-> "none"]
  /\ attempts = [b \in Bill |-> 0]
  /\ worker = Resting
  /\ spent = [k \in Kind |-> 0]

\* StockAdjustmentService.create(), one line: nothing stops it from going below what
\* is reserved.
AdjustStock(x, d) ==
  /\ ~Locked(x)
  /\ stock[x] + d >= 0
  /\ Spend("event")
  /\ stock' = [stock EXCEPT ![x] = @ + d]
  /\ UNCHANGED <<pending, items, status, sales, req, bullmq, worker>>

\* BatchService.update() with a stockQty: the row takes the client's number, however old
\* the quantity is that the client corrected.
OverwriteStock(x, q) ==
  /\ ~Locked(x)
  /\ Spend("event")
  /\ stock' = [stock EXCEPT ![x] = q]
  /\ UNCHANGED <<pending, items, status, sales, req, bullmq, worker>>

StartRequest(r) ==
  \/ \E b \in Bill, x \in Batch, q \in Qty, l \in Line : AddLine(r, b, x, q, l)
  \/ \E i \in items, q \in Qty : AddToLine(r, i, q) \/ UpdateLineQty(r, i, q)
  \/ \E i \in items : RemoveLine(r, i) \/ ShortageAlert(r, i)
  \/ \E b \in Bill : \/ HoldBill(r, b) \/ ResumeBill(r, b) \/ CancelBill(r, b)
                     \/ SweepStaleBill(r, b) \/ CleanupEmptyDraft(r, b) \/ CompleteBill(r, b)

ContinueRequest(r) ==
  \/ LoadLine(r) \/ ReleaseLine(r) \/ ReserveLine(r) \/ ReadAvailable(r) \/ ReserveAvailable(r)
  \/ WriteLine(r) \/ ReadOpenLines(r) \/ ReadPending(r) \/ ReconcileLine(r) \/ ReconcileEnds(r)
  \/ ReleaseAllForBill(r) \/ SetStatus(r) \/ Enqueue(r)

WorkerStep ==
  \/ TakeJob \/ MarkCommitting \/ BeginTransaction \/ CommitLine \/ Commit \/ InvoiceExists
  \/ CompleteJob \/ SetFailed \/ ReadBack \/ GiveBack \/ FailJob

Next ==
  \/ \E b \in Bill : CreateDraft(b) \/ PromoteJob(b)
  \/ \E r \in Request : StartRequest(r) \/ ContinueRequest(r) \/ FailRequest(r)
  \/ WorkerStep
  \/ WorkerFault
  \/ \E x \in Batch : \/ \E d \in Delta : AdjustStock(x, d)
                     \/ \E q \in Qty \union {0} : OverwriteStock(x, q)
  \/ Crash

Spec == Init /\ [][Next]_vars

\* The worker polls its queue for ever and BullMQ promotes delayed jobs by itself; a
\* request that has started is driven by the event loop.  Clients, faults and crashes
\* owe us nothing.
Fairness ==
  /\ WF_vars(WorkerStep)
  /\ \A b \in Bill : WF_vars(PromoteJob(b))
  /\ \A r \in Request : WF_vars(ContinueRequest(r))

FairSpec == Spec /\ Fairness

-----------------------------------------------------------------------------
(* Safety, under every interleaving, fault and crash *)

\* The variables hold values of their types.  In particular stock_qty never goes below
\* zero, although adjustments and commits that check it run concurrently.
TypeOK ==
  /\ stock \in [Batch -> Nat]
  /\ pending \in [Batch -> Int]
  /\ items \subseteq Item
  /\ status \in [Bill -> Status]
  /\ invoiced \subseteq Bill
  /\ moved \in [Bill -> [Batch -> Nat]]
  /\ req \in [Request -> Call]
  /\ queue \in Seq(Bill)
  /\ job \in [Bill -> JobState]
  /\ attempts \in [Bill -> Nat]
  /\ worker \in Worker
  /\ (worker.pc # "idle" => worker.bill \in Bill)
  /\ spent \in [Kind -> Nat]

\* Stock leaves the shop only with an invoice: a bill without one has no sale movement,
\* whatever attempts of its job failed, and COMPLETED is never shown without one.
SaleIsInvoiced ==
  \A b \in Bill :
    /\ status[b] = "COMPLETED" => b \in invoiced
    /\ b \notin invoiced => moved[b] = NoneTaken

\* One job per bill: a bill waits at most once, and never while the worker has it,
\* however often it is completed, retried or put back after a crash.
OneJobPerBill ==
  \A b \in Bill :
    /\ Cardinality({n \in DOMAIN queue : queue[n] = b}) = IF job[b] = "waiting" THEN 1 ELSE 0
    /\ job[b] = "active" <=> worker.bill = b

\* A reservation is granted only out of free stock: pending_qty never rises past what is
\* on hand at that moment, also when two requests saw the same free quantity.
ReservedWithinStock ==
  [][\A x \in Batch : pending'[x] > pending[x] => pending'[x] <= stock'[x]]_vars

\* A sale is covered by reserved stock when it commits, not only when its lines were
\* checked: no other actor releases the rows in between.
SaleIsCovered ==
  [][\A b \in invoiced' \ invoiced, x \in Batch : moved'[b][x] > 0 => pending'[x] >= 0]_vars

\* The system keeps the promise of StockLedger: a bill is sold at most once, and every
\* attempt either takes all it takes at once or leaves the stock alone.
Ledger == INSTANCE StockLedger WITH onHand <- stock, sold <- moved
RefinesLedger == Ledger!Spec

-----------------------------------------------------------------------------
(* Accounting, while requests do not overlap *)

LineTotal(S, x) == MapThenSumSet(LAMBDA i : i.qty, {i \in S : i.batch = x})

\* The lines that may hold stock: those of open bills, of bills on their way, and of the
\* bill whose reservations the worker is giving back.
GivingBack(b) == worker.bill = b /\ worker.pc \in {"readBack", "giveBack"}
HoldingItems ==
  {i \in items : \/ status[i.bill] \in EDITABLE \union {"PENDING_COMMIT", "COMMITTING"}
                 \/ GivingBack(i.bill)}

Quiet == \A r \in Request : req[r].pc = "idle"
Undisturbed == spent["event"] = 0
NoAttemptFailed == \A b \in Bill : attempts[b] = 0

\* When no request is in flight, no stock is held that no line asked for: nothing leaks
\* through edits, removals, cancellations, sweeps, top-ups and commits.  It says nothing
\* once a handler was cut short, or once an attempt has failed: the catch block gives back
\* a bill's whole quantity, and an edit that was refused just before then reserves all
\* that it finds free, more than its line asks for (reserveAvailable).
NoPhantomReservation ==
  Quiet /\ Undisturbed /\ NoAttemptFailed =>
    \A x \in Batch : pending[x] <= LineTotal(HoldingItems, x)

\* The end of a line edit leaves no open line short of stock that is free, as long as no
\* bill has gone to the queue: what a queued bill holds counts as held by the open lines
\* (QueuedQtyReserved), so they may then stay short.
PoolIsUsed ==
  [][\A r \in Request :
       /\ req[r].pc = "reconcile" /\ req'[r].pc = "idle"
       /\ Undisturbed' /\ \A b \in Bill : job[b] = "none"
       => LET x == req[r].batch IN
          \/ pending[x] >= stock[x]
          \/ pending[x] >= LineTotal(OpenItems(x), x)]_vars

\* The invoice shows what left the shop: the lines of an invoiced bill add up to its
\* sale movements, then and later.
SaleMatchesLines ==
  \A b \in invoiced, x \in Batch : moved[b][x] = LineTotal(ItemsOf(b), x)

-----------------------------------------------------------------------------
(* Liveness *)

\* Every queued job comes to an end, through failures, retries and a crash.
JobsSettle ==
  \A b \in Bill : job[b] \in {"waiting", "delayed", "active"} ~> job[b] \in {"completed", "failed"}

\* A bill on its way is committed, refused or cancelled in the end.
PendingCommitSettles ==
  \A b \in Bill : status[b] = "PENDING_COMMIT" ~> status[b] # "PENDING_COMMIT"

-----------------------------------------------------------------------------
(* What the documentation claims and the code does not do (see README) *)

\* "Qty is already reserved in pending_qty": the lines of the bills on their way are
\* covered by pending_qty when no request is in flight.
QueuedQtyReserved ==
  Quiet /\ Undisturbed => \A x \in Batch :
    pending[x] >= LineTotal({i \in items : status[i.bill] = "PENDING_COMMIT"}, x)
=============================================================================
