------------------------ MODULE BillingSystem_proofs ------------------------
(***************************************************************************)
(* What TLAPS proves of BillingSystem for every set of bills, batches and  *)
(* lines and every initial stock.  With any number of requests at once:    *)
(* its types, the safety of the stock rows and of the queue, and that it   *)
(* implements StockLedger.  With one request at a time next to the worker: *)
(* the accounting of the lines, of what is reserved for them and of what   *)
(* is sold.                                                                *)
(***************************************************************************)
EXTENDS BillingSystem, SetLemmas, SequenceTheorems, FiniteSetTheorems, TLAPS

(* The inductive invariant.  TypeOK alone is not inductive: the quantity a  *)
(* request will write has to be positive while the request is under way,    *)
(* and what the open transaction has taken has to stay covered until it     *)
(* commits.                                                                 *)

\* The places where a request still has a line to write.
Editing(c) ==
  \/ c.pc \in {"load", "release", "write"}
  \/ c.pc \in {"reserve", "readAvailable", "reserveAvailable"} /\ c.after = "write"

OnBatch == {"load", "release", "reserve", "readAvailable", "reserveAvailable", "write",
            "readLines", "readPending", "reconcile"}

CallOK(c) ==
  /\ c.pc # "idle" => c.bill \in Bill
  /\ c.pc \in OnBatch => c.batch \in Batch
  /\ c.pc \in {"load", "release", "write"} => c.after = "write"
  /\ Editing(c) => /\ c.line \in Line
                   /\ c.op \in {"add", "qty", "remove"}
                   /\ c.op # "remove" => c.new \in Nat \ {0}

CallsOK == \A r \in Request : CallOK(req[r])

\* The worker's transaction: nothing is taken outside it, and what it has taken of a row
\* is on hand and reserved.
TransactionOK ==
  /\ worker.pc # "lines" => worker.taken = NoneTaken
  /\ \A x \in Batch : worker.taken[x] > 0 => /\ worker.taken[x] <= stock[x]
                                             /\ worker.taken[x] <= pending[x]

IInv == TypeOK /\ CallsOK /\ TransactionOK /\ SaleIsInvoiced

-----------------------------------------------------------------------------
(* Steps that change only the request's own state *)

LEMMA NoneTakenType == NoneTaken \in [Batch -> Nat]
  BY DEF NoneTaken

LEMMA IdleCall == Idle \in Call /\ CallOK(Idle)
  BY DEF Idle, Call, CallOK, Editing, OnBatch

LEMMA RestingWorker == Resting \in Worker
  BY NoneTakenType DEF Resting, Worker

\* A request takes the state c: the rest of the invariant does not notice.
LEMMA CallStep ==
  ASSUME IInv, NEW r \in Request, NEW c \in Call, CallOK(c),
         req' = [req EXCEPT ![r] = c], spent' \in [Kind -> Nat],
         UNCHANGED <<rows, items, status, sales, bullmq, worker>>
  PROVE  IInv'
<1>1. TypeOK'
  BY DEF IInv, TypeOK, rows, sales, bullmq
<1>2. CallsOK'
  BY DEF IInv, TypeOK, CallsOK
<1>3. TransactionOK' /\ SaleIsInvoiced'
  BY DEF IInv, TransactionOK, SaleIsInvoiced, rows, sales
<1> QED BY <1>1, <1>2, <1>3 DEF IInv

LEMMA BeginStep ==
  ASSUME IInv, NEW r \in Request, NEW op, NEW c \in Call, CallOK(c), Begin(r, op, c)
  PROVE  IInv'
<1>1. spent' \in [Kind -> Nat]
  BY DEF IInv, TypeOK, Begin, Spend, Kind
<1> QED BY <1>1, CallStep DEF Begin

\* Values that a start action takes from the rows.
LEMMA ItemFields ==
  ASSUME IInv, NEW i \in items
  PROVE  /\ i \in Item /\ i.id \in Line /\ i.bill \in Bill /\ i.batch \in Batch
         /\ i.qty \in Nat \ {0}
  BY DEF IInv, TypeOK, Item

LEMMA ItemsOfType ==
  ASSUME IInv, NEW b \in Bill
  PROVE  ItemsOf(b) \in SUBSET Item
  BY DEF IInv, TypeOK, ItemsOf

\* Every handler starts in a state from which its later steps keep the invariant.
LEMMA StartRequestStep ==
  ASSUME IInv, NEW r \in Request, StartRequest(r)
  PROVE  IInv'
<1> USE DEF Call, CallOK, Editing, OnBatch, Idle, Op
<1>1. ASSUME NEW b \in Bill, NEW x \in Batch, NEW q \in Qty, NEW l \in Line, AddLine(r, b, x, q, l)
      PROVE  IInv'
  <2>1. q \in Nat \ {0}
    BY SetsAssumption
  <2> QED BY <1>1, <2>1, BeginStep DEF AddLine
<1>2. ASSUME NEW i \in items, NEW q \in Qty, AddToLine(r, i, q)
      PROVE  IInv'
  <2>1. q \in Nat \ {0} /\ i.qty + q \in Nat \ {0}
    BY SetsAssumption, ItemFields
  <2> QED BY <1>2, <2>1, ItemFields, BeginStep DEF AddToLine
<1>3. ASSUME NEW i \in items, NEW q \in Qty, UpdateLineQty(r, i, q)
      PROVE  IInv'
  <2>1. q \in Nat \ {0}
    BY SetsAssumption
  <2> QED BY <1>3, <2>1, ItemFields, BeginStep DEF UpdateLineQty
<1>4. ASSUME NEW i \in items, RemoveLine(r, i)
      PROVE  IInv'
  BY <1>4, ItemFields, BeginStep DEF RemoveLine
<1>5. ASSUME NEW i \in items, ShortageAlert(r, i)
      PROVE  IInv'
  BY <1>5, ItemFields, BeginStep DEF ShortageAlert
<1>6. ASSUME NEW b \in Bill, HoldBill(r, b)
      PROVE  IInv'
  BY <1>6, BeginStep DEF HoldBill
<1>7. ASSUME NEW b \in Bill, ResumeBill(r, b)
      PROVE  IInv'
  BY <1>7, BeginStep DEF ResumeBill
<1>8. ASSUME NEW b \in Bill, CancelBill(r, b)
      PROVE  IInv'
  BY <1>8, ItemsOfType, BeginStep DEF CancelBill
<1>9. ASSUME NEW b \in Bill, SweepStaleBill(r, b)
      PROVE  IInv'
  BY <1>9, ItemsOfType, BeginStep DEF SweepStaleBill
<1>10. ASSUME NEW b \in Bill, CleanupEmptyDraft(r, b)
       PROVE  IInv'
  BY <1>10, BeginStep DEF CleanupEmptyDraft
<1>11. ASSUME NEW b \in Bill, CompleteBill(r, b)
       PROVE  IInv'
  BY <1>11, BeginStep DEF CompleteBill
<1> QED BY <1>1, <1>2, <1>3, <1>4, <1>5, <1>6, <1>7, <1>8, <1>9, <1>10, <1>11 DEF StartRequest

-----------------------------------------------------------------------------
(* The later steps of a request *)

\* A request takes the state c and writes pending_qty of a row that is not locked.
LEMMA PendingStep ==
  ASSUME IInv, NEW r \in Request, NEW c \in Call, CallOK(c),
         req' = [req EXCEPT ![r] = c],
         pending' \in [Batch -> Int],
         \A x \in Batch : worker.taken[x] > 0 => pending'[x] = pending[x],
         UNCHANGED <<stock, items, status, sales, bullmq, worker, spent>>
  PROVE  IInv'
<1>1. TypeOK'
  BY DEF IInv, TypeOK, sales, bullmq
<1>2. CallsOK'
  BY DEF IInv, TypeOK, CallsOK
<1>3. TransactionOK' /\ SaleIsInvoiced'
  BY DEF IInv, TypeOK, TransactionOK, SaleIsInvoiced, sales
<1> QED BY <1>1, <1>2, <1>3 DEF IInv

LEMMA ReserveRowEffect ==
  ASSUME IInv, NEW x \in Batch, NEW q \in Nat, ReserveRow(x, q)
  PROVE  /\ pending' \in [Batch -> Int]
         /\ \A y \in Batch : worker.taken[y] > 0 => pending'[y] = pending[y]
  BY DEF IInv, TypeOK, ReserveRow, Locked

LEMMA ReleaseRowEffect ==
  ASSUME IInv, NEW x \in Batch, NEW q \in Nat, ReleaseRow(x, q)
  PROVE  /\ pending' \in [Batch -> Int]
         /\ \A y \in Batch : worker.taken[y] > 0 => pending'[y] = pending[y]
  BY DEF IInv, TypeOK, ReleaseRow, Locked, Clamp

LEMMA RequestState ==
  ASSUME IInv, NEW r \in Request
  PROVE  req[r] \in Call /\ CallOK(req[r])
  BY DEF IInv, TypeOK, CallsOK

\* Goto and Finish are steps of the form that CallStep and PendingStep expect.
LEMMA FinishCall ==
  ASSUME NEW r \in Request, Finish(r)
  PROVE  req' = [req EXCEPT ![r] = Idle] /\ Idle \in Call /\ CallOK(Idle)
  BY IdleCall DEF Finish

LEMMA LoadLineStep ==
  ASSUME IInv, NEW r \in Request, LoadLine(r)
  PROVE  IInv'
<1>1. CASE Finish(r)
  BY <1>1, FinishCall, CallStep DEF LoadLine, IInv, TypeOK
<1>2. ASSUME NEW i \in ItemsOf(req[r].bill),
             req' = [req EXCEPT ![r].old = i.qty, ![r].pc = "release"]
      PROVE  IInv'
  <2> DEFINE c == [req[r] EXCEPT !.old = i.qty, !.pc = "release"]
  <2>1. i.qty \in Nat
    BY ItemFields DEF ItemsOf
  <2>2. req[r] \in Call /\ CallOK(req[r]) /\ req[r].pc = "load"
    BY RequestState DEF LoadLine
  <2>3. c \in Call
    BY <2>1, <2>2 DEF Call
  <2>4. CallOK(c)
    BY <2>2 DEF Call, CallOK, Editing, OnBatch
  <2>5. req' = [req EXCEPT ![r] = c]
    BY <1>2 DEF IInv, TypeOK, Call
  <2> QED BY <2>3, <2>4, <2>5, CallStep DEF LoadLine, IInv, TypeOK
<1> QED BY <1>1, <1>2 DEF LoadLine

LEMMA ReleaseLineStep ==
  ASSUME IInv, NEW r \in Request, ReleaseLine(r)
  PROVE  IInv'
<1> DEFINE c == [req[r] EXCEPT !.ask = req[r].new,
                               !.pc = IF req[r].op = "remove" THEN "write" ELSE "reserve"]
<1>1. req[r] \in Call /\ CallOK(req[r]) /\ req[r].pc = "release"
  BY RequestState DEF ReleaseLine
<1>2. req[r].batch \in Batch /\ req[r].old \in Nat
  BY <1>1 DEF Call, CallOK, OnBatch
<1>3. c \in Call
  BY <1>1 DEF Call
<1>4. CallOK(c)
  BY <1>1 DEF Call, CallOK, Editing, OnBatch
<1>5. req' = [req EXCEPT ![r] = c]
  BY DEF ReleaseLine, IInv, TypeOK, Call
<1> QED BY <1>2, <1>3, <1>4, <1>5, ReleaseRowEffect, PendingStep DEF ReleaseLine

LEMMA ReserveLineStep ==
  ASSUME IInv, NEW r \in Request, ReserveLine(r)
  PROVE  IInv'
<1>1. req[r] \in Call /\ CallOK(req[r]) /\ req[r].pc = "reserve"
  BY RequestState DEF ReserveLine
<1>2. req[r].batch \in Batch /\ req[r].ask \in Nat
  BY <1>1 DEF Call, CallOK, OnBatch
<1>3. ASSUME ReserveRow(req[r].batch, req[r].ask), Goto(r, req[r].after)
      PROVE  IInv'
  <2> DEFINE c == [req[r] EXCEPT !.pc = req[r].after]
  <2>1. c \in Call
    BY <1>1 DEF Call
  <2>2. CallOK(c)
    BY <1>1 DEF Call, CallOK, Editing, OnBatch
  <2>3. req' = [req EXCEPT ![r] = c]
    BY <1>3 DEF Goto, IInv, TypeOK, Call
  <2> QED BY <1>2, <1>3, <2>1, <2>2, <2>3, ReserveRowEffect, PendingStep DEF ReserveLine
<1>4. ASSUME Goto(r, "readAvailable"), UNCHANGED pending
      PROVE  IInv'
  <2> DEFINE c == [req[r] EXCEPT !.pc = "readAvailable"]
  <2>1. c \in Call
    BY <1>1 DEF Call
  <2>2. CallOK(c)
    BY <1>1 DEF Call, CallOK, Editing, OnBatch
  <2>3. req' = [req EXCEPT ![r] = c]
    BY <1>4 DEF Goto, IInv, TypeOK, Call
  <2> QED BY <1>4, <2>1, <2>2, <2>3, CallStep DEF ReserveLine, IInv, TypeOK, rows
<1> QED BY <1>3, <1>4 DEF ReserveLine

LEMMA ReadAvailableStep ==
  ASSUME IInv, NEW r \in Request, ReadAvailable(r)
  PROVE  IInv'
<1> DEFINE free == Pool(req[r].batch)
           c == [req[r] EXCEPT !.ask = free,
                               !.pc = IF free = 0 THEN req[r].after ELSE "reserveAvailable"]
<1>1. req[r] \in Call /\ CallOK(req[r]) /\ req[r].pc = "readAvailable"
  BY RequestState DEF ReadAvailable
<1>2. req[r].batch \in Batch
  BY <1>1 DEF Call, CallOK, OnBatch
<1>3. free \in Nat
  BY <1>2 DEF Pool, Clamp, IInv, TypeOK
<1> HIDE DEF free
<1>4. c \in Call
  BY <1>1, <1>3 DEF Call
<1>5. CallOK(c)
  BY <1>1 DEF Call, CallOK, Editing, OnBatch
<1>6. req' = [req EXCEPT ![r] = c]
  BY DEF ReadAvailable, IInv, TypeOK, Call, free
<1> QED BY <1>4, <1>5, <1>6, CallStep DEF ReadAvailable, IInv, TypeOK

LEMMA ReserveAvailableStep ==
  ASSUME IInv, NEW r \in Request, ReserveAvailable(r)
  PROVE  IInv'
<1>1. req[r] \in Call /\ CallOK(req[r]) /\ req[r].pc = "reserveAvailable"
  BY RequestState DEF ReserveAvailable
<1>2. req[r].batch \in Batch /\ req[r].ask \in Nat
  BY <1>1 DEF Call, CallOK, OnBatch
<1>3. ASSUME ReserveRow(req[r].batch, req[r].ask), Goto(r, req[r].after)
      PROVE  IInv'
  <2> DEFINE c == [req[r] EXCEPT !.pc = req[r].after]
  <2>1. c \in Call
    BY <1>1 DEF Call
  <2>2. CallOK(c)
    BY <1>1 DEF Call, CallOK, Editing, OnBatch
  <2>3. req' = [req EXCEPT ![r] = c]
    BY <1>3 DEF Goto, IInv, TypeOK, Call
  <2> QED BY <1>2, <1>3, <2>1, <2>2, <2>3, ReserveRowEffect, PendingStep DEF ReserveAvailable
<1>4. ASSUME Finish(r), UNCHANGED pending
      PROVE  IInv'
  BY <1>4, FinishCall, CallStep DEF ReserveAvailable, IInv, TypeOK, rows
<1> QED BY <1>3, <1>4 DEF ReserveAvailable

LEMMA ReadOpenLinesStep ==
  ASSUME IInv, NEW r \in Request, ReadOpenLines(r)
  PROVE  IInv'
<1> DEFINE c == [req[r] EXCEPT !.todo = OpenItems(req[r].batch), !.pc = "readPending"]
<1>1. req[r] \in Call /\ CallOK(req[r]) /\ req[r].pc = "readLines"
  BY RequestState DEF ReadOpenLines
<1>2. OpenItems(req[r].batch) \in SUBSET Item
  BY DEF OpenItems, IInv, TypeOK
<1>3. c \in Call
  BY <1>1, <1>2 DEF Call
<1>4. CallOK(c)
  BY <1>1 DEF Call, CallOK, Editing, OnBatch
<1>5. req' = [req EXCEPT ![r] = c]
  BY DEF ReadOpenLines, IInv, TypeOK, Call
<1> QED BY <1>3, <1>4, <1>5, CallStep DEF ReadOpenLines, IInv, TypeOK

LEMMA ReadPendingStep ==
  ASSUME IInv, NEW r \in Request, ReadPending(r)
  PROVE  IInv'
<1> DEFINE c == [req[r] EXCEPT !.left = Clamp(pending[req[r].batch]), !.pc = "reconcile"]
<1>1. req[r] \in Call /\ CallOK(req[r]) /\ req[r].pc = "readPending"
  BY RequestState DEF ReadPending
<1>2. Clamp(pending[req[r].batch]) \in Nat
  BY <1>1 DEF Clamp, Call, CallOK, OnBatch, IInv, TypeOK
<1>3. c \in Call
  BY <1>1, <1>2 DEF Call
<1>4. CallOK(c)
  BY <1>1 DEF Call, CallOK, Editing, OnBatch
<1>5. req' = [req EXCEPT ![r] = c]
  BY DEF ReadPending, IInv, TypeOK, Call
<1> QED BY <1>3, <1>4, <1>5, CallStep DEF ReadPending, IInv, TypeOK

LEMMA ReconcileLineStep ==
  ASSUME IInv, NEW r \in Request, ReconcileLine(r)
  PROVE  IInv'
<1>1. req[r] \in Call /\ CallOK(req[r]) /\ req[r].pc = "reconcile"
  BY RequestState DEF ReconcileLine
<1>2. PICK i \in req[r].todo :
        LET have == Allocated(i, req[r].left) IN
        req' = [req EXCEPT ![r].todo = @ \ {i},
                           ![r].left = @ - have,
                           ![r].ask = i.qty - have,
                           ![r].after = "reconcile",
                           ![r].pc = IF i.qty > have THEN "reserve" ELSE "reconcile"]
  BY DEF ReconcileLine
<1> DEFINE have == Allocated(i, req[r].left)
           c == [req[r] EXCEPT !.todo = @ \ {i},
                               !.left = @ - have,
                               !.ask = i.qty - have,
                               !.after = "reconcile",
                               !.pc = IF i.qty > have THEN "reserve" ELSE "reconcile"]
<1>3. i \in Item /\ i.qty \in Nat /\ req[r].left \in Nat
  BY <1>1 DEF Call, Item
<1>4. have \in Nat /\ req[r].left - have \in Nat /\ i.qty - have \in Nat
  BY <1>3 DEF Allocated, Least
<1>5. req' = [req EXCEPT ![r] = c]
  BY <1>2 DEF IInv, TypeOK, Call
<1> HIDE DEF have
<1>6. c \in Call
  BY <1>1, <1>3, <1>4 DEF Call
<1>7. CallOK(c)
  BY <1>1 DEF Call, CallOK, Editing, OnBatch
<1> QED BY <1>5, <1>6, <1>7, CallStep DEF ReconcileLine, IInv, TypeOK

LEMMA ReleaseAllForBillStep ==
  ASSUME IInv, NEW r \in Request, ReleaseAllForBill(r)
  PROVE  IInv'
<1>1. req[r] \in Call /\ CallOK(req[r]) /\ req[r].pc = "releaseAll"
  BY RequestState DEF ReleaseAllForBill
<1>2. PICK i \in req[r].todo :
        /\ ReleaseRow(i.batch, i.qty)
        /\ req' = [req EXCEPT ![r].todo = @ \ {i},
                              ![r].pc = IF req[r].todo = {i} THEN "setStatus" ELSE @]
  BY DEF ReleaseAllForBill
<1> DEFINE c == [req[r] EXCEPT !.todo = @ \ {i},
                               !.pc = IF req[r].todo = {i} THEN "setStatus" ELSE @]
<1>3. i \in Item /\ i.batch \in Batch /\ i.qty \in Nat
  BY <1>1 DEF Call, Item
<1>4. c \in Call
  BY <1>1 DEF Call
<1>5. CallOK(c)
  BY <1>1 DEF Call, CallOK, Editing, OnBatch
<1>6. req' = [req EXCEPT ![r] = c]
  BY <1>2 DEF IInv, TypeOK, Call
<1> QED BY <1>2, <1>3, <1>4, <1>5, <1>6, ReleaseRowEffect, PendingStep DEF ReleaseAllForBill

LEMMA WriteLineStep ==
  ASSUME IInv, NEW r \in Request, WriteLine(r)
  PROVE  IInv'
<1> DEFINE row == {i \in items : i.id = req[r].line}
           written == [id |-> req[r].line, bill |-> req[r].bill,
                       batch |-> req[r].batch, qty |-> req[r].new]
           c == [Idle EXCEPT !.op = req[r].op, !.pc = "readLines",
                             !.bill = req[r].bill, !.batch = req[r].batch]
<1>1. req[r] \in Call /\ CallOK(req[r]) /\ req[r].pc = "write"
  BY RequestState DEF WriteLine
<1>2. CASE Finish(r) /\ UNCHANGED items
  BY <1>2, FinishCall, CallStep DEF WriteLine, IInv, TypeOK
<1>3. ASSUME items' = (items \ row) \union (IF req[r].op = "remove" THEN {} ELSE {written}),
             req' = [req EXCEPT ![r] = c]
      PROVE  IInv'
  <2>1. req[r].op # "remove" => written \in Item
    BY <1>1 DEF Call, CallOK, Editing, OnBatch, Item
  <2> HIDE DEF written
  <2>2. items' \subseteq Item
    BY <1>3, <2>1 DEF IInv, TypeOK
  <2>3. c \in Call /\ CallOK(c)
    BY <1>1 DEF Call, CallOK, Editing, OnBatch, Idle
  <2>4. TypeOK'
    BY <1>3, <2>2, <2>3 DEF IInv, TypeOK, WriteLine, rows, sales, bullmq
  <2>5. CallsOK'
    BY <1>3, <2>3 DEF IInv, TypeOK, CallsOK
  <2>6. TransactionOK' /\ SaleIsInvoiced'
    BY DEF IInv, TransactionOK, SaleIsInvoiced, WriteLine, rows, sales
  <2> QED BY <2>4, <2>5, <2>6 DEF IInv
<1> QED BY <1>2, <1>3 DEF WriteLine

LEMMA ReconcileEndsStep ==
  ASSUME IInv, NEW r \in Request, ReconcileEnds(r)
  PROVE  IInv'
  BY FinishCall, CallStep DEF ReconcileEnds, IInv, TypeOK

\* No request writes COMPLETED: that is the worker's alone.
LEMMA SetStatusStep ==
  ASSUME IInv, NEW r \in Request, SetStatus(r)
  PROVE  IInv'
<1>1. req[r] \in Call /\ CallOK(req[r]) /\ req[r].pc = "setStatus"
  BY RequestState DEF SetStatus
<1>2. PICK c \in Call : CallOK(c) /\ req' = [req EXCEPT ![r] = c]
  <2>1. CASE Finish(r)
    BY <2>1, FinishCall
  <2>2. ASSUME Goto(r, "enqueue")
        PROVE  \E c \in Call : CallOK(c) /\ req' = [req EXCEPT ![r] = c]
    <3> DEFINE c == [req[r] EXCEPT !.pc = "enqueue"]
    <3>1. c \in Call
      BY <1>1 DEF Call
    <3>2. CallOK(c)
      BY <1>1 DEF Call, CallOK, Editing, OnBatch
    <3>3. req' = [req EXCEPT ![r] = c]
      BY <2>2 DEF Goto, IInv, TypeOK, Call
    <3> QED BY <3>1, <3>2, <3>3
  <2> QED BY <2>1, <2>2 DEF SetStatus
<1>3. Target(req[r].op) \in Status \ {"COMPLETED"}
  BY DEF Target, Status
<1>4. TypeOK'
  BY <1>2, <1>3 DEF IInv, TypeOK, SetStatus, rows, sales, bullmq
<1>5. CallsOK'
  BY <1>2 DEF IInv, TypeOK, CallsOK
<1>6. TransactionOK'
  BY DEF IInv, TransactionOK, SetStatus, rows
<1>7. SaleIsInvoiced'
  BY <1>3 DEF IInv, TypeOK, SaleIsInvoiced, SetStatus, sales
<1> QED BY <1>4, <1>5, <1>6, <1>7 DEF IInv

\* Steps that leave rows, requests and sales alone and give the queue, the job states and
\* the worker values of their types.
LEMMA AddJobType ==
  ASSUME IInv, NEW b \in Bill, AddJob(b)
  PROVE  queue' \in Seq(Bill) /\ job' \in [Bill -> JobState] /\ attempts' \in [Bill -> Nat]
  BY DEF IInv, TypeOK, AddJob, JobState

LEMMA EnqueueStep ==
  ASSUME IInv, NEW r \in Request, Enqueue(r)
  PROVE  IInv'
<1>1. req[r].bill \in Bill
  BY RequestState DEF Enqueue, CallOK
<1>2. queue' \in Seq(Bill) /\ job' \in [Bill -> JobState] /\ attempts' \in [Bill -> Nat]
  BY <1>1, AddJobType DEF Enqueue, IInv, TypeOK, bullmq
<1>3. req' = [req EXCEPT ![r] = Idle] /\ Idle \in Call /\ CallOK(Idle)
  BY FinishCall DEF Enqueue
<1>4. TypeOK'
  BY <1>2, <1>3 DEF IInv, TypeOK, Enqueue, rows, sales
<1>5. CallsOK'
  BY <1>3 DEF IInv, TypeOK, CallsOK
<1>6. TransactionOK' /\ SaleIsInvoiced'
  BY DEF IInv, TransactionOK, SaleIsInvoiced, Enqueue, rows, sales
<1> QED BY <1>4, <1>5, <1>6 DEF IInv

LEMMA ContinueRequestStep ==
  ASSUME IInv, NEW r \in Request, ContinueRequest(r)
  PROVE  IInv'
  BY LoadLineStep, ReleaseLineStep, ReserveLineStep, ReadAvailableStep, ReserveAvailableStep,
     WriteLineStep, ReadOpenLinesStep, ReadPendingStep, ReconcileLineStep, ReconcileEndsStep,
     ReleaseAllForBillStep, SetStatusStep, EnqueueStep
  DEF ContinueRequest

LEMMA FailRequestStep ==
  ASSUME IInv, NEW r \in Request, FailRequest(r)
  PROVE  IInv'
<1>1. spent' \in [Kind -> Nat]
  BY DEF IInv, TypeOK, FailRequest, Spend, Kind
<1> QED BY <1>1, FinishCall, CallStep DEF FailRequest

-----------------------------------------------------------------------------
(* The worker *)

\* What the worker's steps preserve, whatever they do to the queue: the worker's bill is a
\* bill, and outside its transaction it has taken nothing.
LEMMA WorkerState ==
  ASSUME IInv, worker.pc # "idle"
  PROVE  /\ worker \in Worker /\ worker.bill \in Bill
         /\ worker.pc # "lines" => worker.taken = NoneTaken
  BY DEF IInv, TypeOK, TransactionOK

\* A step that moves the worker outside a transaction and touches no row or request.
LEMMA WorkerMoves ==
  ASSUME IInv, worker' \in Worker, worker'.taken = NoneTaken,
         worker'.pc # "idle" => worker'.bill \in Bill,
         queue' \in Seq(Bill), job' \in [Bill -> JobState], attempts' \in [Bill -> Nat],
         spent' \in [Kind -> Nat], UNCHANGED <<rows, items, status, sales, req>>
  PROVE  IInv'
<1>1. TypeOK'
  BY DEF IInv, TypeOK, rows, sales
<1>2. CallsOK'
  BY DEF IInv, CallsOK
<1>3. TransactionOK'
  BY DEF TransactionOK, NoneTaken
<1>4. SaleIsInvoiced'
  BY DEF IInv, SaleIsInvoiced, sales
<1> QED BY <1>1, <1>2, <1>3, <1>4 DEF IInv

LEMMA TakeJobStep ==
  ASSUME IInv, TakeJob
  PROVE  IInv'
<1>1. Head(queue) \in Bill /\ queue' \in Seq(Bill)
  BY DEF IInv, TypeOK, TakeJob
<1>2. worker' \in Worker /\ worker'.taken = NoneTaken /\ worker'.bill \in Bill
  BY <1>1, NoneTakenType DEF TakeJob, Resting, Worker
<1>3. job' \in [Bill -> JobState]
  BY <1>1 DEF IInv, TypeOK, TakeJob, JobState
<1> QED BY <1>1, <1>2, <1>3, WorkerMoves DEF TakeJob, IInv, TypeOK

\* A step that writes a status other than COMPLETED outside a transaction.
LEMMA WorkerMarks ==
  ASSUME IInv, worker' \in Worker, worker'.taken = NoneTaken, worker'.bill \in Bill,
         NEW s \in Status \ {"COMPLETED"}, status' = [status EXCEPT ![worker.bill] = s],
         UNCHANGED <<rows, items, sales, req, bullmq, spent>>
  PROVE  IInv'
<1>1. TypeOK'
  BY DEF IInv, TypeOK, rows, sales, bullmq
<1>2. CallsOK'
  BY DEF IInv, CallsOK
<1>3. TransactionOK'
  BY DEF TransactionOK, NoneTaken
<1>4. SaleIsInvoiced'
  BY DEF IInv, TypeOK, SaleIsInvoiced, sales
<1> QED BY <1>1, <1>2, <1>3, <1>4 DEF IInv

LEMMA MarkCommittingStep ==
  ASSUME IInv, MarkCommitting
  PROVE  IInv'
<1>1. worker' \in Worker /\ worker'.taken = NoneTaken /\ worker'.bill \in Bill
  BY WorkerState DEF MarkCommitting, Worker
<1>2. "COMMITTING" \in Status \ {"COMPLETED"}
  BY DEF Status
<1> QED BY <1>1, <1>2, WorkerMarks DEF MarkCommitting

LEMMA SetFailedStep ==
  ASSUME IInv, SetFailed
  PROVE  IInv'
<1>1. worker' \in Worker /\ worker'.taken = NoneTaken /\ worker'.bill \in Bill
  BY WorkerState DEF SetFailed, Worker
<1>2. "FAILED_STOCK" \in Status \ {"COMPLETED"}
  BY DEF Status
<1> QED BY <1>1, <1>2, WorkerMarks DEF SetFailed

LEMMA BeginTransactionStep ==
  ASSUME IInv, BeginTransaction
  PROVE  IInv'
<1>1. worker \in Worker /\ worker.bill \in Bill /\ worker.taken = NoneTaken
  BY WorkerState DEF BeginTransaction
<1>2. worker' \in Worker /\ worker'.taken = NoneTaken /\ worker'.bill \in Bill
  BY <1>1, ItemsOfType DEF BeginTransaction, Worker
<1> QED BY <1>2, WorkerMoves DEF BeginTransaction, IInv, TypeOK, bullmq

LEMMA RollbackStep ==
  ASSUME IInv, worker.pc # "idle", Rollback, spent' \in [Kind -> Nat],
         UNCHANGED <<rows, items, status, sales, req, bullmq>>
  PROVE  IInv'
<1>1. worker' \in Worker /\ worker'.taken = NoneTaken /\ worker'.bill \in Bill
  BY WorkerState, NoneTakenType DEF Rollback, Worker
<1> QED BY <1>1, WorkerMoves DEF IInv, TypeOK, bullmq

\* The check of a line keeps what is taken within what is on hand and reserved.
LEMMA CommitLineStep ==
  ASSUME IInv, CommitLine
  PROVE  IInv'
<1>1. worker \in Worker /\ worker.bill \in Bill /\ worker.pc = "lines"
  BY WorkerState DEF CommitLine
<1>2. PICK i \in worker.todo :
        \/ Covered(i) /\ worker' = [worker EXCEPT !.todo = @ \ {i}, !.taken[i.batch] = @ + i.qty]
        \/ ~Covered(i) /\ Rollback
  BY DEF CommitLine
<1>3. i \in Item /\ i.batch \in Batch /\ i.qty \in Nat \ {0}
  BY <1>1 DEF Worker, Item
<1>4. CASE Rollback
  BY <1>1, <1>4, RollbackStep DEF CommitLine, IInv, TypeOK
<1>5. ASSUME Covered(i),
             worker' = [worker EXCEPT !.todo = @ \ {i}, !.taken[i.batch] = @ + i.qty]
      PROVE  IInv'
  <2>1. /\ worker'.taken = [worker.taken EXCEPT ![i.batch] = @ + i.qty]
        /\ worker'.pc = "lines" /\ worker'.bill = worker.bill
    BY <1>1, <1>5 DEF Worker
  <2>2. worker' \in Worker
    <3> DEFINE t == [worker.taken EXCEPT ![i.batch] = @ + i.qty]
    <3>1. t \in [Batch -> Nat]
      BY <1>1, <1>3 DEF Worker
    <3>2. worker' = [worker EXCEPT !.todo = @ \ {i}, !.taken = t]
      BY <1>1, <1>5 DEF Worker
    <3> HIDE DEF t
    <3> QED BY <1>1, <3>1, <3>2 DEF Worker
  <2>3. TypeOK'
    BY <1>1, <2>1, <2>2 DEF CommitLine, IInv, TypeOK, rows, sales, bullmq
  <2>4. CallsOK'
    BY DEF CommitLine, IInv, CallsOK
  <2>5. TransactionOK'
    <3> SUFFICES ASSUME NEW x \in Batch, worker'.taken[x] > 0
                 PROVE  worker'.taken[x] <= stock[x] /\ worker'.taken[x] <= pending[x]
      BY <2>1 DEF TransactionOK, CommitLine, rows
    <3> QED BY <1>1, <1>3, <1>5, <2>1 DEF Covered, IInv, TypeOK, TransactionOK, Worker
  <2>6. SaleIsInvoiced'
    BY DEF CommitLine, IInv, SaleIsInvoiced, sales
  <2> QED BY <2>3, <2>4, <2>5, <2>6 DEF IInv
<1> QED BY <1>2, <1>4, <1>5

\* What a commit finds: it can subtract what it has taken from both quantities.
LEMMA CommitEffect ==
  ASSUME IInv, Commit
  PROVE  /\ worker \in Worker /\ worker.bill \in Bill
         /\ stock' \in [Batch -> Nat] /\ pending' \in [Batch -> Int]
         /\ \A x \in Batch : /\ worker.taken[x] \in Nat
                             /\ stock'[x] = stock[x] - worker.taken[x]
                             /\ pending'[x] = pending[x] - worker.taken[x]
                             /\ worker.taken[x] > 0 => pending'[x] >= 0
<1>1. worker \in Worker /\ worker.bill \in Bill
  BY WorkerState DEF Commit
<1>2. \A x \in Batch : worker.taken[x] \in Nat /\ stock[x] \in Nat /\ pending[x] \in Int
  BY <1>1 DEF IInv, TypeOK, Worker
<1>3. \A x \in Batch : /\ stock[x] - worker.taken[x] \in Nat
                       /\ worker.taken[x] > 0 => pending[x] - worker.taken[x] >= 0
  BY <1>2 DEF IInv, TransactionOK
<1> QED BY <1>1, <1>2, <1>3 DEF Commit

LEMMA CommitStep ==
  ASSUME IInv, Commit
  PROVE  IInv'
<1>1. worker' \in Worker /\ worker'.taken = NoneTaken /\ worker'.bill = worker.bill
  BY CommitEffect, NoneTakenType DEF Commit, Worker
<1>2. moved' \in [Bill -> [Batch -> Nat]] /\ invoiced' \subseteq Bill /\ status' \in [Bill -> Status]
  BY CommitEffect DEF Commit, IInv, TypeOK, Worker, Status
<1>3. TypeOK'
  BY <1>1, <1>2, CommitEffect DEF Commit, IInv, TypeOK, bullmq
<1>4. CallsOK'
  BY DEF Commit, IInv, CallsOK
<1>5. TransactionOK'
  BY <1>1 DEF TransactionOK, NoneTaken
<1>6. SaleIsInvoiced'
  BY DEF Commit, IInv, TypeOK, SaleIsInvoiced
<1> QED BY <1>3, <1>4, <1>5, <1>6 DEF IInv

LEMMA InvoiceExistsStep ==
  ASSUME IInv, InvoiceExists
  PROVE  IInv'
  BY RollbackStep DEF InvoiceExists, IInv, TypeOK

LEMMA CompleteJobStep ==
  ASSUME IInv, CompleteJob
  PROVE  IInv'
<1>1. job' \in [Bill -> JobState]
  BY DEF IInv, TypeOK, CompleteJob, JobState
<1>2. worker' \in Worker /\ worker'.taken = NoneTaken /\ worker'.pc = "idle"
  BY RestingWorker DEF CompleteJob, Resting
<1> QED BY <1>1, <1>2, WorkerMoves DEF CompleteJob, IInv, TypeOK

LEMMA ReadBackStep ==
  ASSUME IInv, ReadBack
  PROVE  IInv'
<1>1. worker \in Worker /\ worker.bill \in Bill /\ worker.taken = NoneTaken
  BY WorkerState DEF ReadBack
<1>2. worker' \in Worker /\ worker'.taken = NoneTaken /\ worker'.bill \in Bill
  BY <1>1, ItemsOfType DEF ReadBack, Worker
<1> QED BY <1>2, WorkerMoves DEF ReadBack, IInv, TypeOK, bullmq

LEMMA GiveBackStep ==
  ASSUME IInv, GiveBack
  PROVE  IInv'
<1>1. worker \in Worker /\ worker.bill \in Bill /\ worker.taken = NoneTaken
  BY WorkerState DEF GiveBack
<1>2. PICK i \in worker.todo : /\ pending' = [pending EXCEPT ![i.batch] = @ - i.qty]
                               /\ worker' = [worker EXCEPT !.todo = @ \ {i}]
  BY DEF GiveBack
<1>3. i.batch \in Batch /\ i.qty \in Nat
  BY <1>1 DEF Worker, Item
<1>4. pending' \in [Batch -> Int]
  BY <1>2, <1>3 DEF IInv, TypeOK
<1>5. worker' \in Worker /\ worker'.taken = NoneTaken /\ worker'.bill \in Bill
  BY <1>1, <1>2 DEF Worker
<1>6. TypeOK'
  BY <1>4, <1>5 DEF GiveBack, IInv, TypeOK, sales, bullmq
<1>7. CallsOK'
  BY DEF GiveBack, IInv, CallsOK
<1>8. TransactionOK'
  BY <1>5 DEF TransactionOK, NoneTaken
<1>9. SaleIsInvoiced'
  BY DEF GiveBack, IInv, SaleIsInvoiced, sales
<1> QED BY <1>6, <1>7, <1>8, <1>9 DEF IInv

LEMMA EndAttemptStep ==
  ASSUME IInv, worker.pc # "idle", EndAttempt, spent' \in [Kind -> Nat],
         UNCHANGED <<rows, items, status, sales, req>>
  PROVE  IInv'
<1>1. attempts' \in [Bill -> Nat] /\ job' \in [Bill -> JobState] /\ queue' \in Seq(Bill)
  BY WorkerState DEF EndAttempt, IInv, TypeOK, JobState
<1>2. worker' \in Worker /\ worker'.taken = NoneTaken /\ worker'.pc = "idle"
  BY RestingWorker DEF EndAttempt, Resting
<1> QED BY <1>1, <1>2, WorkerMoves

LEMMA WorkerStepStep ==
  ASSUME IInv, WorkerStep
  PROVE  IInv'
<1>1. CASE FailJob
  BY <1>1, EndAttemptStep DEF FailJob, IInv, TypeOK
<1> QED BY <1>1, TakeJobStep, MarkCommittingStep, BeginTransactionStep, CommitLineStep,
           CommitStep, InvoiceExistsStep, CompleteJobStep, SetFailedStep, ReadBackStep,
           GiveBackStep
        DEF WorkerStep

-----------------------------------------------------------------------------
(* The other steps, and the theorems *)

LEMMA PromoteJobStep ==
  ASSUME IInv, NEW b \in Bill, PromoteJob(b)
  PROVE  IInv'
<1>1. TypeOK'
  BY AddJobType DEF PromoteJob, IInv, TypeOK, rows, sales
<1> QED BY <1>1 DEF PromoteJob, IInv, CallsOK, TransactionOK, SaleIsInvoiced, rows, sales

LEMMA CreateDraftStep ==
  ASSUME IInv, NEW b \in Bill, CreateDraft(b)
  PROVE  IInv'
<1>1. TypeOK'
  BY DEF CreateDraft, IInv, TypeOK, Status, rows, sales, bullmq
<1> QED BY <1>1 DEF CreateDraft, IInv, TypeOK, CallsOK, TransactionOK, SaleIsInvoiced, rows, sales

LEMMA AdjustStockEffect ==
  ASSUME IInv, NEW x \in Batch, NEW d \in Delta, AdjustStock(x, d)
  PROVE  /\ stock' \in [Batch -> Nat] /\ stock' = [stock EXCEPT ![x] = @ + d]
         /\ worker.taken[x] = 0
<1>1. d \in Int
  BY SetsAssumption
<1>2. worker.taken[x] = 0
  BY DEF AdjustStock, Locked, IInv, TypeOK, Worker
<1> QED BY <1>1, <1>2 DEF AdjustStock, IInv, TypeOK

LEMMA AdjustStockStep ==
  ASSUME IInv, NEW x \in Batch, NEW d \in Delta, AdjustStock(x, d)
  PROVE  IInv'
<1>1. spent' \in [Kind -> Nat]
  BY DEF AdjustStock, IInv, TypeOK, Spend, Kind
<1>2. TypeOK'
  BY <1>1, AdjustStockEffect DEF AdjustStock, IInv, TypeOK, sales, bullmq
<1>3. TransactionOK'
  BY AdjustStockEffect DEF AdjustStock, IInv, TypeOK, TransactionOK
<1> QED BY <1>2, <1>3 DEF AdjustStock, IInv, CallsOK, SaleIsInvoiced, sales

LEMMA OverwriteStockEffect ==
  ASSUME IInv, NEW x \in Batch, NEW q \in Qty \union {0}, OverwriteStock(x, q)
  PROVE  /\ stock' \in [Batch -> Nat] /\ stock' = [stock EXCEPT ![x] = q]
         /\ worker.taken[x] = 0
<1>1. q \in Nat
  BY SetsAssumption
<1>2. worker.taken[x] = 0
  BY DEF OverwriteStock, Locked, IInv, TypeOK, Worker
<1> QED BY <1>1, <1>2 DEF OverwriteStock, IInv, TypeOK

LEMMA OverwriteStockStep ==
  ASSUME IInv, NEW x \in Batch, NEW q \in Qty \union {0}, OverwriteStock(x, q)
  PROVE  IInv'
<1>1. spent' \in [Kind -> Nat]
  BY DEF OverwriteStock, IInv, TypeOK, Spend, Kind
<1>2. TypeOK'
  BY <1>1, OverwriteStockEffect DEF OverwriteStock, IInv, TypeOK, sales, bullmq
<1>3. TransactionOK'
  <2>1. \A y \in Batch : worker.taken[y] > 0 => stock'[y] = stock[y]
    BY OverwriteStockEffect DEF IInv, TypeOK
  <2> QED BY <2>1 DEF OverwriteStock, IInv, TransactionOK
<1> QED BY <1>2, <1>3 DEF OverwriteStock, IInv, CallsOK, SaleIsInvoiced, sales

LEMMA WorkerFaultStep ==
  ASSUME IInv, WorkerFault
  PROVE  IInv'
<1>1. spent' \in [Kind -> Nat]
  BY DEF WorkerFault, IInv, TypeOK, Spend, Kind
<1> QED BY <1>1, RollbackStep, EndAttemptStep DEF WorkerFault

LEMMA CrashStep ==
  ASSUME IInv, Crash
  PROVE  IInv'
<1>1. spent' \in [Kind -> Nat]
  BY DEF Crash, IInv, TypeOK, Spend, Kind
<1>2. queue' \in Seq(Bill) /\ job' \in [Bill -> JobState] /\ attempts' \in [Bill -> Nat]
  <2>1. CASE worker.pc = "idle"
    BY <2>1 DEF Crash, IInv, TypeOK, bullmq
  <2>2. CASE worker.pc # "idle"
    <3>1. worker.bill \in Bill /\ <<worker.bill>> \in Seq(Bill)
      BY <2>2, WorkerState
    <3>2. queue' \in Seq(Bill)
      <4>1. queue \in Seq(Bill) /\ queue' = <<worker.bill>> \o queue
        BY <2>2 DEF Crash, IInv, TypeOK
      <4> QED BY <3>1, <4>1, ConcatProperties, Zenon
    <3>3. job' \in [Bill -> JobState] /\ attempts' \in [Bill -> Nat]
      BY <2>2, <3>1 DEF Crash, IInv, TypeOK, JobState
    <3> QED BY <3>2, <3>3
  <2> QED BY <2>1, <2>2
<1>3. worker' \in Worker /\ worker'.taken = NoneTaken /\ worker'.pc = "idle"
  BY RestingWorker DEF Crash, Resting
<1>4. TypeOK'
  BY <1>1, <1>2, <1>3, IdleCall DEF Crash, IInv, TypeOK, rows, sales
<1>5. CallsOK'
  BY IdleCall DEF Crash, CallsOK
<1>6. TransactionOK'
  BY <1>3 DEF TransactionOK, NoneTaken
<1>7. SaleIsInvoiced'
  BY DEF Crash, IInv, SaleIsInvoiced, sales
<1> QED BY <1>4, <1>5, <1>6, <1>7 DEF IInv

LEMMA InitInvariant == Init => IInv
<1> SUFFICES ASSUME Init PROVE IInv
  OBVIOUS
<1>1. TypeOK
  BY ValuesAssumption, IdleCall, RestingWorker, NoneTakenType
  DEF Init, TypeOK, Status, JobState, Resting, Kind
<1>2. CallsOK
  BY IdleCall DEF Init, CallsOK
<1>3. TransactionOK
  BY DEF Init, TransactionOK, Resting, NoneTaken
<1>4. SaleIsInvoiced
  BY DEF Init, SaleIsInvoiced
<1> QED BY <1>1, <1>2, <1>3, <1>4 DEF IInv

LEMMA NextInvariant == IInv /\ [Next]_vars => IInv'
<1> SUFFICES ASSUME IInv, [Next]_vars PROVE IInv'
  OBVIOUS
<1>1. CASE UNCHANGED vars
  BY <1>1 DEF vars, rows, sales, bullmq, IInv, TypeOK, CallsOK, TransactionOK, SaleIsInvoiced
<1>2. CASE Next
  BY <1>2, CreateDraftStep, PromoteJobStep, StartRequestStep, ContinueRequestStep,
     FailRequestStep, WorkerStepStep, WorkerFaultStep, AdjustStockStep, OverwriteStockStep, CrashStep
  DEF Next
<1> QED BY <1>1, <1>2

\* The inductive invariant holds: in particular whatever the worker's open transaction has
\* taken of a row stays on hand and reserved until it commits.
THEOREM Invariance == Spec => []IInv
  BY InitInvariant, NextInvariant, PTL DEF Spec

\* Types, for every instance: stock_qty never becomes negative, whatever adjustments, edits,
\* failed attempts and crashes surround the commits.
THEOREM TypeCorrect == Spec => []TypeOK
<1>1. IInv => TypeOK
  BY DEF IInv
<1> QED BY <1>1, Invariance, PTL

\* COMPLETED is shown, and stock is moved, only for a bill that has its invoice.
THEOREM SalesAreInvoiced == Spec => []SaleIsInvoiced
<1>1. IInv => SaleIsInvoiced
  BY DEF IInv
<1> QED BY <1>1, Invariance, PTL

-----------------------------------------------------------------------------
(* What a step does to the stock rows *)

\* Which steps touch batch_stock and the sales at all.
LEMMA RowsUntouched ==
  ASSUME [Next]_vars,
         ~ Commit,
         \A x \in Batch, d \in Delta : ~ AdjustStock(x, d),
         \A x \in Batch, q \in Qty \union {0} : ~ OverwriteStock(x, q)
  PROVE  UNCHANGED <<stock, sales>>
<1>1. CASE UNCHANGED vars
  BY <1>1 DEF vars, rows
<1>2. ASSUME NEW r \in Request, StartRequest(r)
      PROVE  UNCHANGED <<stock, sales>>
  BY <1>2 DEF StartRequest, AddLine, AddToLine, UpdateLineQty, RemoveLine, ShortageAlert, HoldBill, ResumeBill,
              CancelBill, SweepStaleBill, CleanupEmptyDraft, CompleteBill, Begin, rows
<1>3. ASSUME NEW r \in Request, ContinueRequest(r)
      PROVE  UNCHANGED <<stock, sales>>
  BY <1>3 DEF ContinueRequest, LoadLine, ReleaseLine, ReserveLine, ReadAvailable,
              ReserveAvailable, WriteLine, ReadOpenLines, ReadPending, ReconcileLine,
              ReconcileEnds, ReleaseAllForBill, SetStatus, Enqueue, rows
<1>4. CASE WorkerStep
  BY <1>4 DEF WorkerStep, TakeJob, MarkCommitting, BeginTransaction, CommitLine, InvoiceExists,
              CompleteJob, SetFailed, ReadBack, GiveBack, FailJob, rows
<1>5. CASE \/ \E b \in Bill : CreateDraft(b) \/ PromoteJob(b)
           \/ \E r \in Request : FailRequest(r)
           \/ WorkerFault
           \/ Crash
  BY <1>5 DEF CreateDraft, PromoteJob, FailRequest, WorkerFault, Crash, rows
<1> QED BY <1>1, <1>2, <1>3, <1>4, <1>5 DEF Next

LEMMA GrowthIsWithinStock ==
  ASSUME IInv, Next
  PROVE  \A x \in Batch : pending'[x] > pending[x] => pending'[x] <= stock'[x]
<1> DEFINE Within == \A x \in Batch : pending'[x] > pending[x] => pending'[x] <= stock'[x]
<1>1. CASE UNCHANGED pending
  BY <1>1 DEF IInv, TypeOK
<1>2. ASSUME NEW x \in Batch, NEW q \in Nat, ReserveRow(x, q), UNCHANGED stock
      PROVE  Within
  BY <1>2 DEF IInv, TypeOK, ReserveRow, CanReserve
<1>3. ASSUME NEW x \in Batch, NEW q \in Nat, ReleaseRow(x, q), UNCHANGED stock
      PROVE  Within
  \* max(0, n) may raise a negative quantity, but not above zero.
  BY <1>3 DEF IInv, TypeOK, ReleaseRow, Clamp
<1>4. CASE Commit
  <2>1. \A x \in Batch : worker.taken[x] \in Nat /\ pending'[x] = pending[x] - worker.taken[x]
    BY <1>4, CommitEffect
  <2>2. \A x \in Batch : pending[x] \in Int
    BY DEF IInv, TypeOK
  <2> QED BY <2>1, <2>2
<1>5. CASE GiveBack
  <2>1. PICK i \in worker.todo : pending' = [pending EXCEPT ![i.batch] = @ - i.qty]
    BY <1>5 DEF GiveBack
  <2>2. i.batch \in Batch /\ i.qty \in Nat
    BY <1>5, WorkerState DEF GiveBack, Worker, Item
  <2> QED BY <2>1, <2>2 DEF IInv, TypeOK
<1>6. ASSUME NEW r \in Request, ReserveLine(r)
      PROVE  Within
  <2>1. req[r].batch \in Batch /\ req[r].ask \in Nat
    BY <1>6, RequestState DEF ReserveLine, Call, CallOK, OnBatch
  <2> QED BY <1>1, <1>2, <1>6, <2>1 DEF ReserveLine
<1>7. ASSUME NEW r \in Request, ReserveAvailable(r)
      PROVE  Within
  <2>1. req[r].batch \in Batch /\ req[r].ask \in Nat
    BY <1>7, RequestState DEF ReserveAvailable, Call, CallOK, OnBatch
  <2> QED BY <1>1, <1>2, <1>7, <2>1 DEF ReserveAvailable
<1>8. ASSUME NEW r \in Request, ReleaseLine(r)
      PROVE  Within
  <2>1. req[r].batch \in Batch /\ req[r].old \in Nat
    BY <1>8, RequestState DEF ReleaseLine, Call, CallOK, OnBatch
  <2> QED BY <1>3, <1>8, <2>1 DEF ReleaseLine
<1>9. ASSUME NEW r \in Request, ReleaseAllForBill(r)
      PROVE  Within
  <2>1. PICK i \in req[r].todo : ReleaseRow(i.batch, i.qty)
    BY <1>9 DEF ReleaseAllForBill
  <2>2. i.batch \in Batch /\ i.qty \in Nat
    BY <1>9, RequestState DEF Call, Item
  <2> QED BY <1>3, <1>9, <2>1, <2>2 DEF ReleaseAllForBill
<1>10. ASSUME NEW r \in Request, ContinueRequest(r)
       PROVE  Within
  BY <1>1, <1>6, <1>7, <1>8, <1>9, <1>10
  DEF ContinueRequest, LoadLine, ReadAvailable, WriteLine, ReadOpenLines, ReadPending,
      ReconcileLine, ReconcileEnds, SetStatus, Enqueue, rows
<1>11. ASSUME NEW r \in Request, StartRequest(r)
       PROVE  Within
  BY <1>1, <1>11
  DEF StartRequest, AddLine, AddToLine, UpdateLineQty, RemoveLine, ShortageAlert, HoldBill, ResumeBill,
      CancelBill, SweepStaleBill, CleanupEmptyDraft, CompleteBill, Begin, rows
<1>12. CASE WorkerStep
  BY <1>1, <1>4, <1>5, <1>12
  DEF WorkerStep, TakeJob, MarkCommitting, BeginTransaction, CommitLine, InvoiceExists,
      CompleteJob, SetFailed, ReadBack, FailJob, rows
<1>13. CASE \/ \E b \in Bill : CreateDraft(b) \/ PromoteJob(b)
            \/ \E r \in Request : FailRequest(r)
            \/ \E x \in Batch, d \in Delta : AdjustStock(x, d)
            \/ \E x \in Batch, q \in Qty \union {0} : OverwriteStock(x, q)
            \/ WorkerFault
            \/ Crash
  BY <1>1, <1>13 DEF CreateDraft, PromoteJob, FailRequest, AdjustStock, OverwriteStock,
                      WorkerFault, Crash, rows
<1> QED BY <1>10, <1>11, <1>12, <1>13 DEF Next

\* Reserved stock was free when it was taken: pending_qty only grows under the row lock
\* and up to what is on hand.
THEOREM ReservationsAreWithinStock == Spec => ReservedWithinStock
<1>1. IInv /\ [Next]_vars =>
        [\A x \in Batch : pending'[x] > pending[x] => pending'[x] <= stock'[x]]_vars
  BY GrowthIsWithinStock
<1> QED BY <1>1, Invariance, PTL DEF Spec, ReservedWithinStock

\* What a sale takes is still reserved at the moment it commits.
THEOREM SalesAreCovered == Spec => SaleIsCovered
<1>1. ASSUME IInv, Next
      PROVE  \A b \in invoiced' \ invoiced, x \in Batch : moved'[b][x] > 0 => pending'[x] >= 0
  <2>1. CASE Commit
    <3>1. \A x \in Batch : worker.taken[x] > 0 => pending'[x] >= 0
      BY <1>1, <2>1, CommitEffect
    <3>2. \A b \in invoiced' \ invoiced : b = worker.bill /\ moved'[b] = worker.taken
      BY <1>1, <2>1, CommitEffect DEF Commit, IInv, TypeOK
    <3> QED BY <3>1, <3>2
  <2>2. CASE ~ Commit
    <3>1. UNCHANGED sales
      <4>1. CASE \/ \E x \in Batch, d \in Delta : AdjustStock(x, d)
                 \/ \E x \in Batch, q \in Qty \union {0} : OverwriteStock(x, q)
        BY <4>1 DEF AdjustStock, OverwriteStock
      <4> QED BY <1>1, <2>2, <4>1, RowsUntouched
    <3> QED BY <3>1 DEF sales
  <2> QED BY <2>1, <2>2
<1>2. IInv /\ [Next]_vars =>
        [\A b \in invoiced' \ invoiced, x \in Batch : moved'[b][x] > 0 => pending'[x] >= 0]_vars
  BY <1>1
<1> QED BY <1>2, Invariance, PTL DEF Spec, SaleIsCovered

-----------------------------------------------------------------------------
(* The system implements the ledger *)

LEMMA CommitIsSell ==
  ASSUME IInv, Commit
  PROVE  Ledger!Sell(worker.bill)
<1>1. worker.taken = [x \in Batch |-> stock[x] - stock'[x]]
  <2>1. \A x \in Batch : worker.taken[x] = stock[x] - stock'[x]
    BY CommitEffect DEF IInv, TypeOK
  <2>2. worker.taken \in [Batch -> Nat]
    BY CommitEffect DEF Worker
  <2> QED BY <2>1, <2>2
<1>2. \A x \in Batch : stock'[x] <= stock[x]
  <2>1. \A x \in Batch : worker.taken[x] \in Nat /\ stock'[x] = stock[x] - worker.taken[x]
    BY CommitEffect
  <2>2. \A x \in Batch : stock[x] \in Nat
    BY DEF IInv, TypeOK
  <2> QED BY <2>1, <2>2
<1> QED BY <1>1, <1>2, CommitEffect DEF Commit, Ledger!Sell

LEMMA OverwriteStockIsAdjust ==
  ASSUME IInv, NEW x \in Batch, NEW q \in Qty \union {0}, OverwriteStock(x, q)
  PROVE  Ledger!Adjust(x)
  BY OverwriteStockEffect DEF OverwriteStock, Ledger!Adjust, IInv, TypeOK, sales

LEMMA AdjustStockIsAdjust ==
  ASSUME IInv, NEW x \in Batch, NEW d \in Delta, AdjustStock(x, d)
  PROVE  Ledger!Adjust(x)
  BY AdjustStockEffect DEF AdjustStock, Ledger!Adjust, IInv, TypeOK, sales

\* Every behaviour of the billing system is one of the ledger: a bill is sold at most once,
\* whole and within the stock, and nothing but sales and adjustments changes stock_qty.
THEOREM ImplementsLedger == Spec => RefinesLedger
<1>1. Init => Ledger!Init
  BY DEF Init, Ledger!Init, NoneTaken
<1>2. IInv /\ [Next]_vars => [Ledger!Next]_Ledger!vars
  <2> SUFFICES ASSUME IInv, [Next]_vars PROVE [Ledger!Next]_Ledger!vars
    OBVIOUS
  <2>1. CASE Commit
    BY <2>1, CommitIsSell, CommitEffect DEF Ledger!Next
  <2>2. ASSUME NEW x \in Batch, NEW d \in Delta, AdjustStock(x, d)
        PROVE  Ledger!Next
    BY <2>2, AdjustStockIsAdjust DEF Ledger!Next
  <2>3. ASSUME NEW x \in Batch, NEW q \in Qty \union {0}, OverwriteStock(x, q)
        PROVE  Ledger!Next
    BY <2>3, OverwriteStockIsAdjust DEF Ledger!Next
  <2>4. CASE UNCHANGED <<stock, sales>>
    BY <2>4 DEF Ledger!vars, sales
  <2> QED BY <2>1, <2>2, <2>3, <2>4, RowsUntouched
<1> QED BY <1>1, <1>2, Invariance, PTL DEF Spec, RefinesLedger, Ledger!Spec

-----------------------------------------------------------------------------
(* One job per bill.  The list of waiting bills never names a bill twice and *)
(* names exactly those whose job waits, and the one active job is that of the *)
(* bill in the worker's hands.                                                *)

Waits(b) == \E n \in DOMAIN queue : queue[n] = b

JobsOK ==
  /\ \A m, n \in DOMAIN queue : queue[m] = queue[n] => m = n
  /\ \A b \in Bill : Waits(b) <=> job[b] = "waiting"
  /\ \A b \in Bill : job[b] = "active" <=> worker.bill = b
  /\ worker.pc = "idle" <=> worker.bill = NoBill

LEMMA InitJobs == Init => JobsOK
  BY SetsAssumption DEF Init, JobsOK, Waits, Resting

\* As long as the worker keeps its bill and nothing touches the queue, nothing changes.
LEMMA JobsKept ==
  ASSUME JobsOK, UNCHANGED bullmq, worker'.bill = worker.bill,
         worker.pc = "idle" <=> worker'.pc = "idle"
  PROVE  JobsOK'
  BY DEF JobsOK, Waits, bullmq

LEMMA WorkerGoesOn ==
  ASSUME IInv, JobsOK, UNCHANGED bullmq,
         \/ UNCHANGED worker
         \/ MarkCommitting \/ BeginTransaction \/ CommitLine \/ Commit \/ InvoiceExists
         \/ SetFailed \/ ReadBack \/ GiveBack
         \/ worker.pc # "idle" /\ Rollback
  PROVE  JobsOK'
<1>1. worker \in Worker
  BY DEF IInv, TypeOK
<1>2. worker'.bill = worker.bill /\ (worker.pc = "idle" <=> worker'.pc = "idle")
  BY <1>1 DEF Worker, MarkCommitting, BeginTransaction, CommitLine, Commit, InvoiceExists,
              SetFailed, ReadBack, GiveBack, Rollback
<1> QED BY <1>2, JobsKept

\* A bill that neither waits nor is being worked on joins the list at its end.
LEMMA AddJobKeepsOne ==
  ASSUME IInv, JobsOK, NEW b \in Bill, job[b] \in {"none", "delayed"}, AddJob(b), UNCHANGED worker
  PROVE  JobsOK'
<1>1. queue \in Seq(Bill) /\ job \in [Bill -> JobState]
  BY DEF IInv, TypeOK
<1>2. /\ Len(queue') = Len(queue) + 1 /\ DOMAIN queue' = 1 .. Len(queue) + 1
      /\ \A n \in 1 .. Len(queue) : queue'[n] = queue[n]
      /\ queue'[Len(queue) + 1] = b
      /\ DOMAIN queue = 1 .. Len(queue) /\ Len(queue) \in Nat
  BY <1>1 DEF AddJob
<1>3. ~ Waits(b)
  BY DEF JobsOK
<1>4. \A m, n \in DOMAIN queue' : queue'[m] = queue'[n] => m = n
  BY <1>2, <1>3 DEF JobsOK, Waits
<1>5. \A c \in Bill : Waits(c)' <=> (Waits(c) \/ c = b)
  BY <1>2 DEF Waits
<1>6. /\ \A c \in Bill : Waits(c)' <=> job'[c] = "waiting"
      /\ \A c \in Bill : job'[c] = "active" <=> worker'.bill = c
  BY <1>1, <1>5 DEF JobsOK, AddJob
<1> QED BY <1>4, <1>6 DEF JobsOK

LEMMA EnqueueKeepsOne ==
  ASSUME IInv, JobsOK, NEW r \in Request, Enqueue(r)
  PROVE  JobsOK'
<1>1. req[r].bill \in Bill
  BY RequestState DEF Enqueue, CallOK
<1>2. CASE job[req[r].bill] = "none"
  BY <1>1, <1>2, AddJobKeepsOne DEF Enqueue
<1>3. CASE job[req[r].bill] # "none"
  BY <1>3, JobsKept DEF Enqueue
<1> QED BY <1>2, <1>3

\* The oldest waiting bill moves into the worker's hands.
LEMMA TakeJobKeepsOne ==
  ASSUME IInv, JobsOK, TakeJob
  PROVE  JobsOK'
<1> DEFINE b == Head(queue)
<1>1. queue \in Seq(Bill) /\ queue # <<>> /\ job \in [Bill -> JobState]
  BY DEF IInv, TypeOK, TakeJob
<1>2. /\ DOMAIN queue = 1 .. Len(queue) /\ Len(queue) \in Nat \ {0}
      /\ b = queue[1] /\ b \in Bill
      /\ DOMAIN queue' = 1 .. Len(queue) - 1
      /\ \A n \in 1 .. Len(queue) - 1 : queue'[n] = queue[n + 1]
  BY <1>1 DEF TakeJob
<1>3. worker'.bill = b /\ worker'.pc # "idle" /\ b # NoBill
  BY <1>2, SetsAssumption DEF TakeJob, Resting
<1>4. job' = [job EXCEPT ![b] = "active"]
  BY DEF TakeJob
<1>5. worker.bill = NoBill
  BY DEF JobsOK, TakeJob
<1> HIDE DEF b
<1>6. \A m, n \in DOMAIN queue' : queue'[m] = queue'[n] => m = n
  BY <1>2 DEF JobsOK
<1>7. \A c \in Bill : Waits(c)' <=> (Waits(c) /\ c # b)
  <2> SUFFICES ASSUME NEW c \in Bill PROVE Waits(c)' <=> (Waits(c) /\ c # b)
    OBVIOUS
  <2>1. ASSUME Waits(c)' PROVE Waits(c) /\ c # b
    <3>1. PICK n \in DOMAIN queue' : queue'[n] = c
      BY <2>1 DEF Waits
    <3>2. n + 1 \in DOMAIN queue /\ queue[n + 1] = c /\ n + 1 # 1 /\ 1 \in DOMAIN queue
      BY <1>2, <3>1
    <3> QED BY <1>2, <3>2 DEF Waits, JobsOK
  <2>2. ASSUME Waits(c), c # b PROVE Waits(c)'
    <3>1. PICK n \in DOMAIN queue : queue[n] = c
      BY <2>2 DEF Waits
    <3>2. n - 1 \in DOMAIN queue' /\ queue'[n - 1] = c
      BY <1>2, <2>2, <3>1
    <3> QED BY <3>2 DEF Waits
  <2> QED BY <2>1, <2>2
<1>8. /\ \A c \in Bill : Waits(c)' <=> job'[c] = "waiting"
      /\ \A c \in Bill : job'[c] = "active" <=> worker'.bill = c
  BY <1>1, <1>2, <1>3, <1>4, <1>5, <1>7, SetsAssumption DEF JobsOK
<1> QED BY <1>3, <1>6, <1>8 DEF JobsOK

\* The worker lets its bill go: its job is neither waiting nor active any more.
LEMMA JobLetGo ==
  ASSUME IInv, JobsOK, worker.pc # "idle", UNCHANGED queue, worker' = Resting,
         NEW s \in JobState \ {"waiting", "active"}, job' = [job EXCEPT ![worker.bill] = s]
  PROVE  JobsOK'
<1>1. worker.bill \in Bill /\ job \in [Bill -> JobState]
  BY DEF IInv, TypeOK
<1>2. worker'.pc = "idle" /\ worker'.bill = NoBill
  BY DEF Resting
<1>3. job[worker.bill] = "active"
  BY <1>1 DEF JobsOK
<1>4. \A c \in Bill : Waits(c)' <=> Waits(c)
  BY DEF Waits
<1>5. /\ \A c \in Bill : Waits(c)' <=> job'[c] = "waiting"
      /\ \A c \in Bill : job'[c] = "active" <=> worker'.bill = c
  BY <1>1, <1>2, <1>3, <1>4, SetsAssumption DEF JobsOK
<1> QED BY <1>2, <1>5 DEF JobsOK

LEMMA EndAttemptKeepsOne ==
  ASSUME IInv, JobsOK, worker.pc # "idle", EndAttempt
  PROVE  JobsOK'
<1> DEFINE s == IF attempts[worker.bill] + 1 < Attempts THEN "delayed" ELSE "failed"
<1>1. s \in JobState \ {"waiting", "active"}
  BY DEF JobState
<1>2. job' = [job EXCEPT ![worker.bill] = s]
  BY DEF EndAttempt
<1> HIDE DEF s
<1> QED BY <1>1, <1>2, JobLetGo DEF EndAttempt

\* The stalled job goes back in front of the waiting ones.
LEMMA CrashKeepsOne ==
  ASSUME IInv, JobsOK, Crash
  PROVE  JobsOK'
<1> DEFINE b == worker.bill
<1>1. CASE worker.pc = "idle"
  BY <1>1, JobsKept DEF Crash, Resting, JobsOK
<1>2. CASE worker.pc # "idle"
  <2>1. queue \in Seq(Bill) /\ job \in [Bill -> JobState] /\ b \in Bill
    BY <1>2 DEF IInv, TypeOK
  <2>2. queue' = <<b>> \o queue /\ job' = [job EXCEPT ![b] = "waiting"]
    BY <1>2 DEF Crash
  <2>3. worker'.pc = "idle" /\ worker'.bill = NoBill
    BY DEF Crash, Resting
  <2>4. job[b] = "active"
    BY <2>1 DEF JobsOK
  <2> HIDE DEF b
  <2>5. /\ DOMAIN queue = 1 .. Len(queue) /\ Len(queue) \in Nat
        /\ DOMAIN queue' = 1 .. Len(queue) + 1
        /\ queue'[1] = b
        /\ \A n \in 1 .. Len(queue) : queue'[n + 1] = queue[n]
    BY <2>1, <2>2
  <2>6. \A n \in DOMAIN queue' : n = 1 \/ (n - 1 \in DOMAIN queue /\ queue'[n] = queue[n - 1])
    <3> SUFFICES ASSUME NEW n \in DOMAIN queue', n # 1
                 PROVE  n - 1 \in DOMAIN queue /\ queue'[n] = queue[n - 1]
      OBVIOUS
    <3>1. n - 1 \in 1 .. Len(queue) /\ (n - 1) + 1 = n
      BY <2>5
    <3> QED BY <2>5, <3>1
  <2>7. ~ Waits(b)
    BY <2>1, <2>4 DEF JobsOK
  <2>8. \A m, n \in DOMAIN queue' : queue'[m] = queue'[n] => m = n
    BY <2>5, <2>6, <2>7 DEF JobsOK, Waits
  <2>9. \A c \in Bill : Waits(c)' <=> (Waits(c) \/ c = b)
    BY <2>5, <2>6 DEF Waits
  <2>10. /\ \A c \in Bill : Waits(c)' <=> job'[c] = "waiting"
         /\ \A c \in Bill : job'[c] = "active" <=> worker'.bill = c
    BY <2>1, <2>2, <2>3, <2>9, SetsAssumption DEF JobsOK, b
  <2> QED BY <2>3, <2>8, <2>10 DEF JobsOK
<1> QED BY <1>1, <1>2

\* Requests, faults and adjustments that do not touch the queue.
LEMMA JobsUntouched ==
  ASSUME IInv, JobsOK, UNCHANGED <<bullmq, worker>>
  PROVE  JobsOK'
  BY JobsKept

LEMMA NextKeepsOne == IInv /\ JobsOK /\ [Next]_vars => JobsOK'
<1> SUFFICES ASSUME IInv, JobsOK, [Next]_vars PROVE JobsOK'
  OBVIOUS
<1>1. ASSUME NEW r \in Request, StartRequest(r)
      PROVE  JobsOK'
  BY <1>1, JobsUntouched
  DEF StartRequest, AddLine, AddToLine, UpdateLineQty, RemoveLine, ShortageAlert, HoldBill, ResumeBill,
      CancelBill, SweepStaleBill, CleanupEmptyDraft, CompleteBill, Begin
<1>2. ASSUME NEW r \in Request, ContinueRequest(r)
      PROVE  JobsOK'
  BY <1>2, JobsUntouched, EnqueueKeepsOne
  DEF ContinueRequest, LoadLine, ReleaseLine, ReserveLine, ReadAvailable, ReserveAvailable, WriteLine,
      ReadOpenLines, ReadPending, ReconcileLine, ReconcileEnds, ReleaseAllForBill, SetStatus
<1>3. ASSUME NEW b \in Bill, PromoteJob(b)
      PROVE  JobsOK'
  BY <1>3, AddJobKeepsOne DEF PromoteJob
<1>4. CASE WorkerStep
  <2>1. CASE CompleteJob
    <3>1. "completed" \in JobState \ {"waiting", "active"}
      BY DEF JobState
    <3> QED BY <2>1, <3>1, JobLetGo DEF CompleteJob
  <2>2. CASE FailJob
    BY <2>2, EndAttemptKeepsOne DEF FailJob
  <2>3. CASE TakeJob
    BY <2>3, TakeJobKeepsOne
  <2>4. CASE ~ (CompleteJob \/ FailJob \/ TakeJob)
    <3>1. /\ UNCHANGED bullmq
          /\ \/ MarkCommitting \/ BeginTransaction \/ CommitLine \/ Commit \/ InvoiceExists
             \/ SetFailed \/ ReadBack \/ GiveBack
      BY <1>4, <2>4 DEF WorkerStep, MarkCommitting, BeginTransaction, CommitLine, Commit,
                        InvoiceExists, SetFailed, ReadBack, GiveBack
    <3> QED BY <3>1, WorkerGoesOn
  <2> QED BY <2>1, <2>2, <2>3, <2>4
<1>5. CASE WorkerFault
  <2>1. CASE Rollback /\ UNCHANGED bullmq
    BY <1>5, <2>1, WorkerGoesOn DEF WorkerFault
  <2>2. CASE EndAttempt
    BY <1>5, <2>2, EndAttemptKeepsOne DEF WorkerFault
  <2> QED BY <1>5, <2>1, <2>2 DEF WorkerFault
<1>6. CASE Crash
  BY <1>6, CrashKeepsOne
<1>7. CASE \/ \E b \in Bill : CreateDraft(b)
           \/ \E r \in Request : FailRequest(r)
           \/ \E x \in Batch, d \in Delta : AdjustStock(x, d)
           \/ \E x \in Batch, q \in Qty \union {0} : OverwriteStock(x, q)
  BY <1>7, JobsUntouched DEF CreateDraft, FailRequest, AdjustStock, OverwriteStock
<1>8. CASE UNCHANGED vars
  BY <1>8, JobsUntouched DEF vars
<1> QED BY <1>1, <1>2, <1>3, <1>4, <1>5, <1>6, <1>7, <1>8 DEF Next

\* Counting the places of a bill in a list that does not name it twice.
LEMMA JobsAreSingle == IInv /\ JobsOK => OneJobPerBill
<1> SUFFICES ASSUME IInv, JobsOK, NEW b \in Bill
             PROVE  /\ Cardinality({n \in DOMAIN queue : queue[n] = b})
                         = IF job[b] = "waiting" THEN 1 ELSE 0
                    /\ job[b] = "active" <=> worker.bill = b
  BY DEF OneJobPerBill
<1> DEFINE places == {n \in DOMAIN queue : queue[n] = b}
<1>1. CASE job[b] = "waiting"
  <2>1. PICK n \in DOMAIN queue : queue[n] = b
    BY <1>1 DEF JobsOK, Waits
  <2>2. places = {n}
    BY <2>1 DEF JobsOK
  <2>3. Cardinality({n}) = 1
    BY FS_Singleton
  <2> QED BY <1>1, <2>2, <2>3 DEF JobsOK
<1>2. CASE job[b] # "waiting"
  <2>1. places = {}
    BY <1>2 DEF JobsOK, Waits
  <2>2. Cardinality({}) = 0
    BY FS_EmptySet
  <2> QED BY <1>2, <2>1, <2>2 DEF JobsOK
<1> QED BY <1>1, <1>2

\* A bill is never in the queue twice, and never there while the worker has it, through
\* retries, faults and crashes.
THEOREM JobsAreUnique == Spec => []OneJobPerBill
<1>1. Spec => []JobsOK
  BY InitJobs, NextKeepsOne, Invariance, PTL DEF Spec
<1> QED BY <1>1, JobsAreSingle, Invariance, PTL

-----------------------------------------------------------------------------
(* The quantities of lines, as sums of SetLemmas                             *)

Quantities == [i \in Item |-> i.qty]
OfBatch(S, x) == {i \in S : i.batch = x}

LEMMA QuantitiesType == Quantities \in [Item -> Int] /\ \A i \in Item : Quantities[i] = i.qty /\ i.qty \in Nat \ {0}
<1>1. \A i \in Item : i.qty \in Nat \ {0}
  BY DEF Item
<1> QED BY <1>1 DEF Quantities

LEMMA LineTotalIsASum ==
  ASSUME NEW S \in SUBSET Item, IsFiniteSet(S), NEW x
  PROVE  /\ LineTotal(S, x) = SumOf(Quantities, OfBatch(S, x))
         /\ LineTotal(S, x) \in Nat
         /\ OfBatch(S, x) \in SUBSET Item /\ IsFiniteSet(OfBatch(S, x))
<1> DEFINE T == {i \in S : i.batch = x}
           h == CHOOSE h : h = [s \in SUBSET T |-> IF s = {} THEN 0
                                 ELSE (CHOOSE y \in s : TRUE).qty + h[s \ {CHOOSE y \in s : TRUE}]]
<1>1. T \in SUBSET Item /\ IsFiniteSet(T) /\ T = OfBatch(S, x)
  BY FS_Subset DEF OfBatch
<1>2. LineTotal(S, x) = h[T]
  BY DEF LineTotal, MapThenSumSet, MapThenFoldSet
<1>3. \A s \in SUBSET T : s # {} => Quantities[Some(s)] = (CHOOSE y \in s : TRUE).qty
  BY <1>1, SomeIsOne, QuantitiesType DEF Some
<1> HIDE DEF T
<1>4. PICK g : AddsUp(Quantities, T, g)
  BY <1>1, QuantitiesType, SumExists
<1>5. g = [s \in SUBSET T |-> IF s = {} THEN 0 ELSE Quantities[Some(s)] + g[s \ {Some(s)}]]
  BY <1>4 DEF AddsUp
<1>6. g = [s \in SUBSET T |-> IF s = {} THEN 0
            ELSE (CHOOSE y \in s : TRUE).qty + g[s \ {CHOOSE y \in s : TRUE}]]
  BY <1>3, <1>5 DEF Some
<1>7. h = [s \in SUBSET T |-> IF s = {} THEN 0
            ELSE (CHOOSE y \in s : TRUE).qty + h[s \ {CHOOSE y \in s : TRUE}]]
  BY <1>6
<1> HIDE DEF h
<1>8. AddsUp(Quantities, T, h)
  BY <1>3, <1>7 DEF AddsUp, Some
<1>9. SumOf(Quantities, T) = h[T] /\ SumOf(Quantities, T) \in Nat
  <2>1. \A i \in T : Quantities[i] >= 0
    BY <1>1, QuantitiesType
  <2> QED BY <1>1, <1>8, <2>1, QuantitiesType, SumIs, SumIsNatural
<1> QED BY <1>1, <1>2, <1>9

LEMMA LineTotalOfUnion ==
  ASSUME NEW S \in SUBSET Item, IsFiniteSet(S), NEW T \in SUBSET Item, IsFiniteSet(T), S \intersect T = {},
         NEW x
  PROVE  LineTotal(S \union T, x) = LineTotal(S, x) + LineTotal(T, x)
<1>1. IsFiniteSet(S \union T) /\ S \union T \in SUBSET Item
  BY FS_Union
<1>2. /\ OfBatch(S \union T, x) = OfBatch(S, x) \union OfBatch(T, x)
      /\ OfBatch(S, x) \intersect OfBatch(T, x) = {}
  BY DEF OfBatch
<1>3. SumOf(Quantities, OfBatch(S, x) \union OfBatch(T, x))
        = SumOf(Quantities, OfBatch(S, x)) + SumOf(Quantities, OfBatch(T, x))
  BY <1>2, QuantitiesType, LineTotalIsASum, SumOfUnion
<1> QED BY <1>1, <1>2, <1>3, LineTotalIsASum

LEMMA LineTotalOfNone == \A x : LineTotal({}, x) = 0
<1> TAKE x
<1>1. OfBatch({}, x) = {} /\ {} \in SUBSET Item /\ IsFiniteSet({})
  BY FS_EmptySet DEF OfBatch
<1> QED BY <1>1, LineTotalIsASum, SumOfNone

LEMMA LineTotalOfOne ==
  ASSUME NEW i \in Item, NEW x
  PROVE  LineTotal({i}, x) = IF i.batch = x THEN i.qty ELSE 0
<1>1. {i} \in SUBSET Item /\ IsFiniteSet({i}) /\ IsFiniteSet({}) /\ {} \in SUBSET Item /\ i \notin {}
  BY FS_Singleton, FS_EmptySet
<1>2. CASE i.batch = x
  <2>1. OfBatch({i}, x) = {} \union {i}
    BY <1>2 DEF OfBatch
  <2>2. SumOf(Quantities, {} \union {i}) = Quantities[i] + SumOf(Quantities, {})
    BY <1>1, QuantitiesType, SumWithOneMore
  <2>3. LineTotal({i}, x) = Quantities[i] + 0
    BY <1>1, <2>1, <2>2, LineTotalIsASum, SumOfNone
  <2> QED BY <1>2, <2>3, QuantitiesType
<1>3. CASE i.batch # x
  <2>1. OfBatch({i}, x) = {}
    BY <1>3 DEF OfBatch
  <2> QED BY <1>1, <1>3, <2>1, LineTotalIsASum, SumOfNone
<1> QED BY <1>2, <1>3

LEMMA LineTotalType ==
  ASSUME NEW S \in SUBSET Item, IsFiniteSet(S), NEW x
  PROVE  LineTotal(S, x) \in Nat
  BY LineTotalIsASum

LEMMA LineTotalSplit ==
  ASSUME NEW S \in SUBSET Item, IsFiniteSet(S), NEW I, NEW x
  PROVE  LineTotal(S, x) = LineTotal(S \ I, x) + LineTotal(S \intersect I, x)
<1>1. /\ S \ I \in SUBSET Item /\ S \intersect I \in SUBSET Item
      /\ IsFiniteSet(S \ I) /\ IsFiniteSet(S \intersect I)
      /\ (S \ I) \intersect (S \intersect I) = {} /\ (S \ I) \union (S \intersect I) = S
  BY FS_Subset
<1> QED BY <1>1, LineTotalOfUnion

LEMMA LineTotalGrows ==
  ASSUME NEW T \in SUBSET Item, IsFiniteSet(T), NEW S \in SUBSET T, NEW x
  PROVE  LineTotal(S, x) <= LineTotal(T, x)
<1>1. /\ T \ S \in SUBSET Item /\ S \in SUBSET Item /\ IsFiniteSet(S) /\ IsFiniteSet(T \ S)
      /\ T \intersect S = S
  BY FS_Subset
<1>2. LineTotal(T, x) = LineTotal(T \ S, x) + LineTotal(T \intersect S, x)
  BY LineTotalSplit
<1>3. LineTotal(T \ S, x) \in Nat /\ LineTotal(S, x) \in Nat
  BY <1>1, LineTotalType
<1> QED BY <1>1, <1>2, <1>3

\* Without the lines I, at most their quantities are missing.
LEMMA LineTotalLoses ==
  ASSUME NEW S \in SUBSET Item, IsFiniteSet(S), NEW I \in SUBSET Item, IsFiniteSet(I), NEW x
  PROVE  LineTotal(S, x) - LineTotal(I, x) <= LineTotal(S \ I, x)
<1>1. S \ I \in SUBSET Item /\ IsFiniteSet(S \ I) /\ S \intersect I \in SUBSET I /\ S \intersect I \in SUBSET Item
  BY FS_Subset
<1>2. IsFiniteSet(S \intersect I)
  BY FS_Subset
<1>3. LineTotal(S, x) = LineTotal(S \ I, x) + LineTotal(S \intersect I, x)
  BY LineTotalSplit
<1>4. LineTotal(S \intersect I, x) <= LineTotal(I, x)
  BY <1>1, LineTotalGrows
<1>5. LineTotal(S \ I, x) \in Nat /\ LineTotal(S \intersect I, x) \in Nat /\ LineTotal(I, x) \in Nat
  BY <1>1, <1>2, LineTotalType
<1> QED BY <1>3, <1>4, <1>5

LEMMA LineTotalWithout ==
  ASSUME NEW S \in SUBSET Item, IsFiniteSet(S), NEW i \in S, NEW x
  PROVE  LineTotal(S, x) = LineTotal(S \ {i}, x) + (IF i.batch = x THEN i.qty ELSE 0)
<1>1. S \intersect {i} = {i} /\ i \in Item
  OBVIOUS
<1>2. LineTotal(S, x) = LineTotal(S \ {i}, x) + LineTotal(S \intersect {i}, x)
  BY LineTotalSplit
<1>3. LineTotal({i}, x) = IF i.batch = x THEN i.qty ELSE 0
  BY <1>1, LineTotalOfOne
<1> QED BY <1>1, <1>2, <1>3

LEMMA LineTotalWith ==
  ASSUME NEW S \in SUBSET Item, IsFiniteSet(S), NEW i \in Item, i \notin S, NEW x
  PROVE  LineTotal(S \union {i}, x) = LineTotal(S, x) + (IF i.batch = x THEN i.qty ELSE 0)
<1>1. {i} \in SUBSET Item /\ IsFiniteSet({i}) /\ S \intersect {i} = {}
  BY FS_Singleton
<1> QED BY <1>1, LineTotalOfUnion, LineTotalOfOne

-----------------------------------------------------------------------------
(* While requests do not overlap: one request next to the worker, which    *)
(* works on bills that have a job and are open no more.                    *)

TheRequest == CHOOSE r : r \in Request
OneRequest == Request = {TheRequest}
Now == req[TheRequest]

Reserving == {"reserve", "readAvailable", "reserveAvailable"}
Unsold == EDITABLE \union {"NEW"}
LineRow(c) == {i \in items : i.id = c.line}
Cancelling(c) == Target(c.op) = "CANCELLED"

\* The request is in reconcileBatchOpenLines() and has read the lines.
Reconciling(c) ==
  \/ c.pc \in {"readPending", "reconcile"}
  \/ c.pc \in Reserving /\ c.after = "reconcile"

\* The bill of an edit is still open, and its line as it was when the edit began.
EditOK(c) ==
  Editing(c) =>
    /\ status[c.bill] \in EDITABLE
    /\ c.op = "add" => c.pc \notin {"load", "release"} /\ LineRow(c) = {}
    /\ c.op # "add" => \E i \in items : /\ LineRow(c) = {i} /\ i.bill = c.bill /\ i.batch = c.batch
                                        /\ c.pc # "load" => i.qty = c.old
    /\ c.pc = "reserve" => c.ask = c.new
    /\ c.op = "remove" => c.new = 0 /\ c.pc \notin Reserving

BillOK(c) ==
  /\ c.pc = "setStatus" => c.todo = {} /\ (~Cancelling(c) => status[c.bill] \in EDITABLE)
  /\ c.pc = "releaseAll" => c.todo \subseteq ItemsOf(c.bill) /\ Cancelling(c)
  /\ c.pc = "enqueue" => status[c.bill] \notin Unsold
  /\ Reconciling(c) => c.todo \subseteq OpenItems(c.batch)

\* An open bill has no job and is not sold.
OpenIsUnsold == \A b \in Bill : status[b] \in Unsold => job[b] = "none" /\ b \notin invoiced

LinesOK == IsFiniteSet(items) /\ \A i, j \in items : i.id = j.id => i = j

SerialOK == LinesOK /\ OpenIsUnsold /\ EditOK(Now) /\ BillOK(Now)
SerialInv == IInv /\ JobsOK /\ SerialOK

LEMMA SerialInit == OneRequest /\ Init => SerialOK
<1> SUFFICES ASSUME OneRequest, Init PROVE SerialOK
  OBVIOUS
<1>1. LinesOK /\ OpenIsUnsold
  BY FS_EmptySet DEF Init, LinesOK, OpenIsUnsold
<1>2. TheRequest \in Request
  BY DEF OneRequest
<1>3. Now.pc = "idle"
  BY <1>2 DEF Init, Now, Idle
<1> QED BY <1>1, <1>3 DEF SerialOK, EditOK, BillOK, Editing, Reconciling, Reserving

LEMMA OneCall ==
  ASSUME OneRequest, IInv
  PROVE  TheRequest \in Request /\ Now \in Call /\ CallOK(Now) /\ \A r \in Request : r = TheRequest
<1>1. TheRequest \in Request /\ \A r \in Request : r = TheRequest
  BY DEF OneRequest
<1> QED BY <1>1, RequestState DEF Now

LEMMA NowIs ==
  ASSUME OneRequest, IInv, NEW r \in Request, NEW c, req' = [req EXCEPT ![r] = c]
  PROVE  req[r] = Now /\ Now' = c
<1>1. r = TheRequest /\ req \in [Request -> Call]
  BY OneCall DEF IInv, TypeOK
<1> QED BY <1>1 DEF Now

\* Steps of the request that leave lines, bills and jobs alone.
LEMMA CallKeepsSerial ==
  ASSUME SerialOK, UNCHANGED <<items, status, sales, bullmq>>, NEW c, Now' = c, EditOK(c), BillOK(c)
  PROVE  SerialOK'
<1>1. LinesOK' /\ OpenIsUnsold'
  BY DEF SerialOK, LinesOK, OpenIsUnsold, sales, bullmq
<1>2. EditOK(Now)'
  BY DEF EditOK, LineRow
<1>3. BillOK(Now)'
  BY DEF BillOK, Cancelling, OpenItems, ItemsOf, Reconciling
<1> QED BY <1>1, <1>2, <1>3 DEF SerialOK

LEMMA IdleKeepsSerial ==
  ASSUME SerialOK, UNCHANGED <<items, status, sales, bullmq>>, Now' = Idle
  PROVE  SerialOK'
<1>1. EditOK(Idle) /\ BillOK(Idle)
  BY DEF EditOK, BillOK, Editing, Reconciling, Reserving, Idle
<1> QED BY <1>1, CallKeepsSerial

\* Steps of the others: no open bill is touched, none becomes open again.
LEMMA OthersKeepSerial ==
  ASSUME OneRequest, IInv, SerialOK, UNCHANGED <<req, items>>,
         \A b \in Bill : status[b] \in EDITABLE => status'[b] = status[b],
         \A b \in Bill : status[b] \notin Unsold => status'[b] \notin Unsold,
         OpenIsUnsold'
  PROVE  SerialOK'
<1>1. Now \in Call /\ CallOK(Now) /\ Now' = Now
  BY OneCall DEF Now
<1>2. LinesOK'
  BY DEF SerialOK, LinesOK
<1>3. EditOK(Now)'
  BY <1>1 DEF SerialOK, EditOK, LineRow, CallOK, Editing
<1>4. \A x : OpenItems(x) \subseteq OpenItems(x)'
  BY DEF OpenItems, IInv, TypeOK, Item
<1>5. BillOK(Now)'
  BY <1>1, <1>4 DEF SerialOK, BillOK, Cancelling, ItemsOf, Reconciling, CallOK
<1> QED BY <1>2, <1>3, <1>5 DEF SerialOK

\* A handler starts.
LEMMA BeginIsNow ==
  ASSUME OneRequest, IInv, NEW r \in Request, NEW op, NEW c, Begin(r, op, c)
  PROVE  Now' = c /\ Now.pc = "idle" /\ UNCHANGED <<rows, items, status, sales, bullmq, worker>>
  BY NowIs DEF Begin

\* What a request has given back already: the old row of the line it edits, the lines of
\* the bill it cancels that it is through with.
Given(c) == c.pc \in Reserving \union {"write"} /\ Editing(c)
Spared(c) ==
  IF Given(c) THEN LineRow(c)
  ELSE IF c.pc \in {"releaseAll", "setStatus"} /\ Cancelling(c) THEN ItemsOf(c.bill) \ c.todo ELSE {}

\* The state in which a handler starts fits the rows it has read.
Starts == {"load", "release", "reserve", "readLines", "setStatus", "releaseAll"}
Fresh(c) == c.pc \in Starts /\ c.after = "write" /\ Spared(c) = {}
Fits(r) == \E op, c : Begin(r, op, c) /\ EditOK(c) /\ BillOK(c) /\ Fresh(c)

LEMMA LineCallFits ==
  ASSUME LinesOK, NEW i \in items, NEW c, c.line = i.id, c.bill = i.bill, c.batch = i.batch,
         status[i.bill] \in EDITABLE, c.op \in {"qty", "remove"}, c.op = "remove" => c.new = 0,
         c.pc = "load" \/ (c.pc = "release" /\ c.old = i.qty), c.after = "write"
  PROVE  EditOK(c) /\ BillOK(c) /\ Fresh(c)
<1>1. LineRow(c) = {i}
  BY DEF LineRow, LinesOK
<1>2. EditOK(c)
  BY <1>1 DEF EditOK, Reserving
<1>3. BillOK(c)
  BY DEF BillOK, Reconciling, Reserving
<1>4. Fresh(c)
  BY DEF Fresh, Starts, Spared, Given, Reserving
<1> QED BY <1>2, <1>3, <1>4

LEMMA BillCallFits ==
  ASSUME NEW c, \/ c.pc = "readLines"
                \/ c.pc = "setStatus" /\ c.todo = {} /\ (status[c.bill] \in EDITABLE \/ Cancelling(c))
                \/ c.pc = "releaseAll" /\ c.todo \subseteq ItemsOf(c.bill) /\ Cancelling(c)
  PROVE  EditOK(c) /\ BillOK(c)
  BY DEF EditOK, BillOK, Editing, Reconciling, Reserving

LEMMA StartedCallFits ==
  ASSUME OneRequest, SerialInv, NEW r \in Request, StartRequest(r)
  PROVE  Fits(r)
<1>1. LinesOK
  BY DEF SerialInv, SerialOK
<1>2. ASSUME NEW b \in Bill, NEW x \in Batch, NEW q \in Qty, NEW l \in Line, AddLine(r, b, x, q, l)
      PROVE  Fits(r)
  <2> DEFINE c == [Idle EXCEPT !.op = "add", !.pc = "reserve", !.bill = b, !.line = l,
                                !.batch = x, !.new = q, !.ask = q]
  <2>1. /\ c.op = "add" /\ c.pc = "reserve" /\ c.bill = b /\ c.line = l /\ c.new = q /\ c.ask = q
        /\ c.after = "write"
    BY DEF Idle
  <2>2. Begin(r, "add", c) /\ status[b] \in EDITABLE /\ \A i \in items : i.id # l
    BY <1>2 DEF AddLine
  <2> HIDE DEF c
  <2>3. LineRow(c) = {}
    BY <2>1, <2>2 DEF LineRow
  <2>4. EditOK(c)
    BY <2>1, <2>2, <2>3 DEF EditOK
  <2>5. BillOK(c)
    BY <2>1 DEF BillOK, Reconciling
  <2>6. Fresh(c)
    BY <2>1, <2>3 DEF Fresh, Starts, Spared
  <2> QED BY <2>2, <2>4, <2>5, <2>6 DEF Fits
<1>3. ASSUME NEW i \in items, NEW q \in Qty, AddToLine(r, i, q)
      PROVE  Fits(r)
  <2> DEFINE c == [Idle EXCEPT !.op = "qty", !.pc = "load", !.bill = i.bill,
                                !.line = i.id, !.batch = i.batch, !.new = i.qty + q]
  <2>1. /\ c.op = "qty" /\ c.pc = "load" /\ c.bill = i.bill /\ c.line = i.id /\ c.batch = i.batch
        /\ c.after = "write"
    BY DEF Idle
  <2>2. Begin(r, "add", c) /\ status[i.bill] \in EDITABLE
    BY <1>3 DEF AddToLine
  <2> HIDE DEF c
  <2> QED BY <1>1, <2>1, <2>2, LineCallFits DEF Fits
<1>4. ASSUME NEW i \in items, NEW q \in Qty, UpdateLineQty(r, i, q)
      PROVE  Fits(r)
  <2> DEFINE c == [Idle EXCEPT !.op = "qty", !.pc = "release", !.bill = i.bill,
                                !.line = i.id, !.batch = i.batch, !.old = i.qty, !.new = q]
  <2>1. /\ c.op = "qty" /\ c.pc = "release" /\ c.bill = i.bill /\ c.line = i.id /\ c.batch = i.batch
        /\ c.old = i.qty /\ c.after = "write"
    BY DEF Idle
  <2>2. Begin(r, "qty", c) /\ status[i.bill] \in EDITABLE
    BY <1>4 DEF UpdateLineQty
  <2> HIDE DEF c
  <2> QED BY <1>1, <2>1, <2>2, LineCallFits DEF Fits
<1>5. ASSUME NEW i \in items, RemoveLine(r, i)
      PROVE  Fits(r)
  <2> DEFINE c == [Idle EXCEPT !.op = "remove", !.pc = "release", !.bill = i.bill,
                                !.line = i.id, !.batch = i.batch, !.old = i.qty]
  <2>1. /\ c.op = "remove" /\ c.pc = "release" /\ c.bill = i.bill /\ c.line = i.id /\ c.batch = i.batch
        /\ c.old = i.qty /\ c.new = 0 /\ c.after = "write"
    BY DEF Idle
  <2>2. Begin(r, "remove", c) /\ status[i.bill] \in EDITABLE
    BY <1>5 DEF RemoveLine
  <2> HIDE DEF c
  <2> QED BY <1>1, <2>1, <2>2, LineCallFits DEF Fits
<1>6. ASSUME NEW i \in items, ShortageAlert(r, i)
      PROVE  Fits(r)
  <2> DEFINE c == [Idle EXCEPT !.op = "alert", !.pc = "readLines", !.bill = i.bill,
                               !.batch = i.batch]
  <2>1. c.pc = "readLines" /\ c.after = "write"
    BY DEF Idle
  <2>2. Begin(r, "alert", c)
    BY <1>6 DEF ShortageAlert
  <2> HIDE DEF c
  <2>3. Fresh(c)
    BY <2>1 DEF Fresh, Starts, Spared, Given, Reserving
  <2> QED BY <2>1, <2>2, <2>3, BillCallFits DEF Fits
<1>7. ASSUME NEW b \in Bill, NEW op \in {"hold", "resume", "complete", "tidy"}, status[b] \in EDITABLE,
             op = "tidy" => ItemsOf(b) = {},
             Begin(r, op, [Idle EXCEPT !.op = op, !.pc = "setStatus", !.bill = b])
      PROVE  Fits(r)
  <2> DEFINE c == [Idle EXCEPT !.op = op, !.pc = "setStatus", !.bill = b]
  <2>1. c.pc = "setStatus" /\ c.bill = b /\ c.todo = {} /\ c.op = op /\ c.after = "write"
    BY DEF Idle
  <2>2. Begin(r, op, c)
    BY <1>7
  <2> HIDE DEF c
  <2>3. Cancelling(c) => ItemsOf(b) = {}
    BY <1>7, <2>1 DEF Cancelling, Target
  <2>4. Fresh(c)
    BY <2>1, <2>3 DEF Fresh, Starts, Spared, Given, Reserving
  <2> QED BY <1>7, <2>1, <2>2, <2>4, BillCallFits DEF Fits
<1>8. ASSUME NEW b \in Bill, HoldBill(r, b) \/ ResumeBill(r, b) \/ CompleteBill(r, b)
                               \/ CleanupEmptyDraft(r, b)
      PROVE  Fits(r)
  BY <1>7, <1>8 DEF HoldBill, ResumeBill, CompleteBill, CleanupEmptyDraft, EDITABLE
<1>9. ASSUME NEW b \in Bill, CancelBill(r, b)
      PROVE  Fits(r)
  <2> DEFINE c == [Idle EXCEPT !.op = "cancel", !.bill = b, !.todo = ItemsOf(b),
                     !.pc = IF ItemsOf(b) = {} THEN "setStatus" ELSE "releaseAll"]
  <2>1. /\ c.op = "cancel" /\ c.bill = b /\ c.todo = ItemsOf(b)
        /\ c.pc = IF ItemsOf(b) = {} THEN "setStatus" ELSE "releaseAll"
        /\ c.after = "write"
    BY DEF Idle
  <2>2. Begin(r, "cancel", c)
    BY <1>9 DEF CancelBill
  <2> HIDE DEF c
  <2>3. Cancelling(c)
    BY <2>1 DEF Cancelling, Target
  <2>4. EditOK(c) /\ BillOK(c)
    BY <2>1, <2>3, BillCallFits
  <2>5. Fresh(c)
    BY <2>1 DEF Fresh, Starts, Spared, Given, Reserving
  <2> QED BY <2>2, <2>4, <2>5 DEF Fits
<1>10. ASSUME NEW b \in Bill, SweepStaleBill(r, b)
       PROVE  Fits(r)
  <2> DEFINE c == [Idle EXCEPT !.op = "sweep", !.bill = b, !.todo = ItemsOf(b), !.pc = "releaseAll"]
  <2>1. c.op = "sweep" /\ c.bill = b /\ c.todo = ItemsOf(b) /\ c.pc = "releaseAll" /\ c.after = "write"
    BY DEF Idle
  <2>2. Begin(r, "sweep", c)
    BY <1>10 DEF SweepStaleBill
  <2> HIDE DEF c
  <2>3. Cancelling(c)
    BY <2>1 DEF Cancelling, Target
  <2>4. EditOK(c) /\ BillOK(c)
    BY <2>1, <2>3, BillCallFits
  <2>5. Fresh(c)
    BY <2>1 DEF Fresh, Starts, Spared, Given, Reserving
  <2> QED BY <2>2, <2>4, <2>5 DEF Fits
<1> QED BY <1>3, <1>2, <1>4, <1>5, <1>6, <1>8, <1>9, <1>10 DEF StartRequest

LEMMA StartKeepsSerial ==
  ASSUME OneRequest, SerialInv, NEW r \in Request, StartRequest(r)
  PROVE  SerialOK'
<1>1. PICK op, c : Begin(r, op, c) /\ EditOK(c) /\ BillOK(c)
  BY StartedCallFits DEF Fits
<1> QED BY <1>1, BeginIsNow, CallKeepsSerial DEF SerialInv

-----------------------------------------------------------------------------
(* What the later steps make of the request                                *)

LEMMA FinishNow ==
  ASSUME OneRequest, IInv, NEW r \in Request, Finish(r)
  PROVE  Now' = Idle
  BY NowIs DEF Finish

LEMMA GotoNow ==
  ASSUME OneRequest, IInv, NEW r \in Request, NEW p, Goto(r, p)
  PROVE  Now' = [Now EXCEPT !.pc = p]
<1>1. r = TheRequest /\ req \in [Request -> Call]
  BY OneCall DEF IInv, TypeOK
<1> QED BY <1>1 DEF Now, Goto

LEMMA LoadLineNow ==
  ASSUME OneRequest, IInv, NEW r \in Request, LoadLine(r)
  PROVE  /\ Now.pc = "load"
         /\ UNCHANGED <<rows, items, status, sales, bullmq, worker, spent>>
         /\ \/ Now' = Idle
            \/ \E i \in ItemsOf(Now.bill) : /\ i.id = Now.line
                                            /\ Now' = [Now EXCEPT !.old = i.qty, !.pc = "release"]
<1>1. r = TheRequest /\ req \in [Request -> Call] /\ req[r] = Now
  BY OneCall DEF IInv, TypeOK, Now
<1>2. CASE Finish(r)
  BY <1>1, <1>2, FinishNow DEF LoadLine
<1>3. ASSUME NEW i \in ItemsOf(req[r].bill), i.id = req[r].line,
             req' = [req EXCEPT ![r].old = i.qty, ![r].pc = "release"]
      PROVE  Now' = [Now EXCEPT !.old = i.qty, !.pc = "release"]
  BY <1>1, <1>3 DEF Now
<1> QED BY <1>1, <1>2, <1>3 DEF LoadLine

LEMMA ReleaseLineNow ==
  ASSUME OneRequest, IInv, NEW r \in Request, ReleaseLine(r)
  PROVE  /\ Now.pc = "release" /\ ReleaseRow(Now.batch, Now.old)
         /\ UNCHANGED <<stock, items, status, sales, bullmq, worker, spent>>
         /\ Now' = [Now EXCEPT !.ask = Now.new,
                               !.pc = IF Now.op = "remove" THEN "write" ELSE "reserve"]
<1>1. r = TheRequest /\ req \in [Request -> Call] /\ req[r] = Now
  BY OneCall DEF IInv, TypeOK, Now
<1>2. Now' = [Now EXCEPT !.ask = Now.new, !.pc = IF Now.op = "remove" THEN "write" ELSE "reserve"]
  BY <1>1 DEF ReleaseLine, Now
<1> QED BY <1>1, <1>2 DEF ReleaseLine

LEMMA ReserveLineNow ==
  ASSUME OneRequest, IInv, NEW r \in Request, ReserveLine(r)
  PROVE  /\ Now.pc = "reserve"
         /\ UNCHANGED <<stock, items, status, sales, bullmq, worker, spent>>
         /\ \/ ReserveRow(Now.batch, Now.ask) /\ Now' = [Now EXCEPT !.pc = Now.after]
            \/ /\ ~CanReserve(Now.batch, Now.ask) /\ UNCHANGED pending
               /\ Now' = [Now EXCEPT !.pc = "readAvailable"]
<1>1. req[r] = Now
  BY OneCall DEF Now
<1> QED BY <1>1, GotoNow DEF ReserveLine

LEMMA ReadAvailableNow ==
  ASSUME OneRequest, IInv, NEW r \in Request, ReadAvailable(r)
  PROVE  /\ Now.pc = "readAvailable"
         /\ UNCHANGED <<rows, items, status, sales, bullmq, worker, spent>>
         /\ Now' = [Now EXCEPT !.ask = Pool(Now.batch),
                               !.pc = IF Pool(Now.batch) = 0 THEN Now.after ELSE "reserveAvailable"]
<1>1. r = TheRequest /\ req \in [Request -> Call] /\ req[r] = Now
  BY OneCall DEF IInv, TypeOK, Now
<1> QED BY <1>1 DEF ReadAvailable, Now

LEMMA ReserveAvailableNow ==
  ASSUME OneRequest, IInv, NEW r \in Request, ReserveAvailable(r)
  PROVE  /\ Now.pc = "reserveAvailable"
         /\ UNCHANGED <<stock, items, status, sales, bullmq, worker, spent>>
         /\ \/ ReserveRow(Now.batch, Now.ask) /\ Now' = [Now EXCEPT !.pc = Now.after]
            \/ UNCHANGED pending /\ Now' = Idle
<1>1. req[r] = Now
  BY OneCall DEF Now
<1> QED BY <1>1, GotoNow, FinishNow DEF ReserveAvailable

LEMMA ReadOpenLinesNow ==
  ASSUME OneRequest, IInv, NEW r \in Request, ReadOpenLines(r)
  PROVE  /\ Now.pc = "readLines"
         /\ UNCHANGED <<rows, items, status, sales, bullmq, worker, spent>>
         /\ Now' = [Now EXCEPT !.todo = OpenItems(Now.batch), !.pc = "readPending"]
<1>1. r = TheRequest /\ req \in [Request -> Call] /\ req[r] = Now
  BY OneCall DEF IInv, TypeOK, Now
<1> QED BY <1>1 DEF ReadOpenLines, Now

LEMMA ReadPendingNow ==
  ASSUME OneRequest, IInv, NEW r \in Request, ReadPending(r)
  PROVE  /\ Now.pc = "readPending"
         /\ UNCHANGED <<rows, items, status, sales, bullmq, worker, spent>>
         /\ Now' = [Now EXCEPT !.left = Clamp(pending[Now.batch]), !.pc = "reconcile"]
<1>1. r = TheRequest /\ req \in [Request -> Call] /\ req[r] = Now
  BY OneCall DEF IInv, TypeOK, Now
<1> QED BY <1>1 DEF ReadPending, Now

LEMMA ReconcileLineNow ==
  ASSUME OneRequest, IInv, NEW r \in Request, ReconcileLine(r)
  PROVE  /\ Now.pc = "reconcile"
         /\ UNCHANGED <<rows, items, status, sales, bullmq, worker, spent>>
         /\ \E i \in Now.todo : \E have \in {Allocated(i, Now.left)} :
              Now' = [Now EXCEPT !.todo = @ \ {i}, !.left = @ - have, !.ask = i.qty - have,
                                 !.after = "reconcile",
                                 !.pc = IF i.qty > have THEN "reserve" ELSE "reconcile"]
<1>1. r = TheRequest /\ req \in [Request -> Call] /\ req[r] = Now
  BY OneCall DEF IInv, TypeOK, Now
<1>2. PICK i \in Now.todo :
        LET have == Allocated(i, req[r].left) IN
        req' = [req EXCEPT ![r].todo = @ \ {i},
                           ![r].left = @ - have,
                           ![r].ask = i.qty - have,
                           ![r].after = "reconcile",
                           ![r].pc = IF i.qty > have THEN "reserve" ELSE "reconcile"]
  BY <1>1 DEF ReconcileLine
<1>3. PICK have : have = Allocated(i, Now.left)
  OBVIOUS
<1>4. Now' = [Now EXCEPT !.todo = @ \ {i}, !.left = @ - have, !.ask = i.qty - have,
                         !.after = "reconcile", !.pc = IF i.qty > have THEN "reserve" ELSE "reconcile"]
  BY <1>1, <1>2, <1>3 DEF Now
<1> QED BY <1>1, <1>3, <1>4 DEF ReconcileLine

LEMMA ReleaseAllNow ==
  ASSUME OneRequest, IInv, NEW r \in Request, ReleaseAllForBill(r)
  PROVE  /\ Now.pc = "releaseAll"
         /\ UNCHANGED <<stock, items, status, sales, bullmq, worker, spent>>
         /\ \E i \in Now.todo :
              /\ ReleaseRow(i.batch, i.qty)
              /\ Now' = [Now EXCEPT !.todo = @ \ {i}, !.pc = IF Now.todo = {i} THEN "setStatus" ELSE @]
<1>1. r = TheRequest /\ req \in [Request -> Call] /\ req[r] = Now
  BY OneCall DEF IInv, TypeOK, Now
<1>2. PICK i \in Now.todo :
        /\ ReleaseRow(i.batch, i.qty)
        /\ req' = [req EXCEPT ![r].todo = @ \ {i},
                              ![r].pc = IF req[r].todo = {i} THEN "setStatus" ELSE @]
  BY <1>1 DEF ReleaseAllForBill
<1>3. Now' = [Now EXCEPT !.todo = @ \ {i}, !.pc = IF Now.todo = {i} THEN "setStatus" ELSE @]
  BY <1>1, <1>2 DEF Now
<1> QED BY <1>1, <1>2, <1>3 DEF ReleaseAllForBill

LEMMA WriteLineNow ==
  ASSUME OneRequest, IInv, NEW r \in Request, WriteLine(r), NEW w,
         w = [id |-> Now.line, bill |-> Now.bill, batch |-> Now.batch, qty |-> Now.new]
  PROVE  /\ Now.pc = "write"
         /\ UNCHANGED <<rows, status, sales, bullmq, worker, spent>>
         /\ \/ /\ Now.op = "add" \/ LineRow(Now) # {}
               /\ items' = (items \ LineRow(Now)) \union (IF Now.op = "remove" THEN {} ELSE {w})
               /\ Now' = [Idle EXCEPT !.op = Now.op, !.pc = "readLines", !.bill = Now.bill,
                                      !.batch = Now.batch]
            \/ Now.op # "add" /\ LineRow(Now) = {} /\ UNCHANGED items /\ Now' = Idle
<1>1. r = TheRequest /\ req \in [Request -> Call] /\ req[r] = Now
  BY OneCall DEF IInv, TypeOK, Now
<1>2. Finish(r) => Now' = Idle
  BY FinishNow
<1>3. PICK c : c = [Idle EXCEPT !.op = Now.op, !.pc = "readLines", !.bill = Now.bill, !.batch = Now.batch]
  OBVIOUS
<1>4. CASE /\ Now.op = "add" \/ LineRow(Now) # {}
           /\ items' = (items \ LineRow(Now)) \union (IF Now.op = "remove" THEN {} ELSE {w})
           /\ req' = [req EXCEPT ![r] = c]
  <2>1. Now' = c
    BY <1>4, NowIs
  <2> QED BY <1>1, <1>3, <1>4, <2>1 DEF WriteLine
<1>5. \/ Now.op # "add" /\ LineRow(Now) = {} /\ UNCHANGED items /\ Finish(r)
      \/ /\ Now.op = "add" \/ LineRow(Now) # {}
         /\ items' = (items \ LineRow(Now)) \union (IF Now.op = "remove" THEN {} ELSE {w})
         /\ req' = [req EXCEPT ![r] = c]
  BY <1>1, <1>3 DEF WriteLine, LineRow
<1>6. CASE Now.op # "add" /\ LineRow(Now) = {} /\ UNCHANGED items /\ Finish(r)
  BY <1>1, <1>2, <1>6 DEF WriteLine
<1> QED BY <1>4, <1>5, <1>6

LEMMA SetStatusNow ==
  ASSUME OneRequest, IInv, NEW r \in Request, SetStatus(r)
  PROVE  /\ Now.pc = "setStatus"
         /\ UNCHANGED <<rows, items, sales, bullmq, worker, spent>>
         /\ status' = [status EXCEPT ![Now.bill] = Target(Now.op)]
         /\ \/ Now.op = "complete" /\ Now' = [Now EXCEPT !.pc = "enqueue"]
            \/ Now' = Idle
<1>1. req[r] = Now
  BY OneCall DEF Now
<1> QED BY <1>1, GotoNow, FinishNow DEF SetStatus

LEMMA EnqueueNow ==
  ASSUME OneRequest, IInv, NEW r \in Request, Enqueue(r)
  PROVE  /\ Now.pc = "enqueue" /\ Now' = Idle
         /\ UNCHANGED <<rows, items, status, sales, worker, spent>>
         /\ IF job[Now.bill] = "none" THEN AddJob(Now.bill) ELSE UNCHANGED bullmq
<1>1. req[r] = Now
  BY OneCall DEF Now
<1> QED BY <1>1, FinishNow DEF Enqueue

-----------------------------------------------------------------------------
(* The later steps keep SerialOK                                           *)

LEMMA NowFits ==
  ASSUME OneRequest, SerialInv
  PROVE  /\ Now \in Call /\ CallOK(Now) /\ EditOK(Now) /\ BillOK(Now) /\ IInv
         /\ Now.todo \in SUBSET Item /\ IsFiniteSet(items) /\ items \in SUBSET Item
  BY OneCall DEF SerialInv, SerialOK, LinesOK, IInv, TypeOK, Call

LEMMA LoadLineFits ==
  ASSUME OneRequest, SerialInv, NEW r \in Request, LoadLine(r)
  PROVE  SerialOK'
<1>1. CASE Now' = Idle
  BY <1>1, IdleKeepsSerial DEF LoadLine, SerialInv
<1>2. ASSUME NEW i \in ItemsOf(Now.bill), i.id = Now.line,
             Now' = [Now EXCEPT !.old = i.qty, !.pc = "release"]
      PROVE  SerialOK'
  <2>1. PICK c : c = [Now EXCEPT !.old = i.qty, !.pc = "release"]
    OBVIOUS
  <2>2. /\ c.pc = "release" /\ c.old = i.qty /\ c.op = Now.op /\ c.bill = Now.bill /\ c.line = Now.line
        /\ c.batch = Now.batch /\ c.new = Now.new
    BY <2>1, NowFits DEF Call
  <2>3. Now.pc = "load" /\ EditOK(Now)
    BY LoadLineNow, NowFits DEF SerialInv
  <2>4. i \in LineRow(Now) /\ LineRow(c) = LineRow(Now)
    BY <1>2, <2>2 DEF LineRow, ItemsOf
  <2>5. EditOK(c)
    BY <2>2, <2>3, <2>4 DEF EditOK, Editing, Reserving
  <2>6. BillOK(c)
    BY <2>2 DEF BillOK, Reconciling, Reserving
  <2> QED BY <1>2, <2>1, <2>5, <2>6, CallKeepsSerial DEF LoadLine, SerialInv
<1> QED BY <1>1, <1>2, LoadLineNow DEF SerialInv

LEMMA ReleaseLineFits ==
  ASSUME OneRequest, SerialInv, NEW r \in Request, ReleaseLine(r)
  PROVE  SerialOK'
<1>1. PICK c : c = [Now EXCEPT !.ask = Now.new, !.pc = IF Now.op = "remove" THEN "write" ELSE "reserve"]
  OBVIOUS
<1>2. /\ c.pc = IF Now.op = "remove" THEN "write" ELSE "reserve"
      /\ c.ask = Now.new /\ c.op = Now.op /\ c.bill = Now.bill /\ c.line = Now.line
      /\ c.batch = Now.batch /\ c.new = Now.new /\ c.old = Now.old /\ c.after = Now.after
  BY <1>1, NowFits DEF Call
<1>3. Now.pc = "release" /\ Now' = c
  BY <1>1, ReleaseLineNow DEF SerialInv
<1>4. EditOK(Now) /\ Now.after = "write" /\ LineRow(c) = LineRow(Now)
  BY <1>2, <1>3, NowFits DEF LineRow, CallOK
<1>5. EditOK(c)
  BY <1>2, <1>3, <1>4 DEF EditOK, Editing, Reserving
<1>6. BillOK(c)
  BY <1>2, <1>4 DEF BillOK, Reconciling, Reserving
<1> QED BY <1>3, <1>5, <1>6, CallKeepsSerial DEF ReleaseLine, SerialInv

\* The three steps of a reservation change where the request stands and what it asks for.
LEMMA ReservingFits ==
  ASSUME OneRequest, SerialInv, Now.pc \in Reserving, UNCHANGED <<items, status, sales, bullmq>>,
         NEW p \in {"readAvailable", "reserveAvailable", Now.after}, NEW q,
         Now' = [Now EXCEPT !.ask = q, !.pc = p]
  PROVE  SerialOK'
<1>1. PICK c : c = [Now EXCEPT !.ask = q, !.pc = p]
  OBVIOUS
<1>2. /\ c.pc = p /\ c.op = Now.op /\ c.bill = Now.bill /\ c.line = Now.line /\ c.todo = Now.todo
      /\ c.batch = Now.batch /\ c.new = Now.new /\ c.old = Now.old /\ c.after = Now.after
  BY <1>1, NowFits DEF Call
<1>3. EditOK(Now) /\ BillOK(Now) /\ Now.after \in {"write", "reconcile"} /\ LineRow(c) = LineRow(Now)
  BY <1>2, NowFits DEF Call, LineRow
<1>4. EditOK(c)
  BY <1>2, <1>3 DEF EditOK, Editing, Reserving
<1>5. BillOK(c)
  BY <1>2, <1>3 DEF BillOK, Reconciling, Reserving
<1> QED BY <1>1, <1>4, <1>5, CallKeepsSerial DEF SerialInv

LEMMA ReserveStepsFit ==
  ASSUME OneRequest, SerialInv, NEW r \in Request, ReserveLine(r) \/ ReadAvailable(r) \/ ReserveAvailable(r)
  PROVE  SerialOK'
<1>1. UNCHANGED <<items, status, sales, bullmq>> /\ IInv /\ Now \in Call
  BY NowFits DEF ReserveLine, ReadAvailable, ReserveAvailable
<1>2. CASE Now' = Idle
  BY <1>1, <1>2, IdleKeepsSerial DEF SerialInv
<1>3. ASSUME NEW p \in {"readAvailable", "reserveAvailable", Now.after}, Now' = [Now EXCEPT !.pc = p],
             Now.pc \in Reserving
      PROVE  SerialOK'
  <2>1. [Now EXCEPT !.pc = p] = [Now EXCEPT !.ask = Now.ask, !.pc = p]
    BY <1>1 DEF Call
  <2> QED BY <1>1, <1>3, <2>1, ReservingFits
<1>4. CASE ReserveLine(r)
  <2>1. Now.pc \in Reserving
    BY <1>1, <1>4, ReserveLineNow DEF Reserving
  <2> QED BY <1>1, <1>3, <1>4, <2>1, ReserveLineNow
<1>5. CASE ReadAvailable(r)
  <2>1. Now.pc \in Reserving
    BY <1>1, <1>5, ReadAvailableNow DEF Reserving
  <2>2. PICK p, q : /\ q = Pool(Now.batch)
                      /\ p = IF Pool(Now.batch) = 0 THEN Now.after ELSE "reserveAvailable"
    OBVIOUS
  <2>3. p \in {"readAvailable", "reserveAvailable", Now.after} /\ Now' = [Now EXCEPT !.ask = q, !.pc = p]
    BY <1>1, <1>5, <2>2, ReadAvailableNow
  <2> QED BY <1>1, <2>1, <2>3, ReservingFits
<1>6. CASE ReserveAvailable(r)
  <2>1. Now.pc \in Reserving
    BY <1>1, <1>6, ReserveAvailableNow DEF Reserving
  <2> QED BY <1>1, <1>2, <1>3, <1>6, <2>1, ReserveAvailableNow
<1> QED BY <1>4, <1>5, <1>6

LEMMA ReconcileStepsFit ==
  ASSUME OneRequest, SerialInv, NEW r \in Request,
         ReadOpenLines(r) \/ ReadPending(r) \/ ReconcileLine(r) \/ ReconcileEnds(r)
  PROVE  SerialOK'
<1>1. UNCHANGED <<items, status, sales, bullmq>> /\ IInv /\ Now \in Call /\ BillOK(Now)
  BY NowFits DEF ReadOpenLines, ReadPending, ReconcileLine, ReconcileEnds
<1>2. ASSUME NEW c, Now' = c,
             c.pc \in {"readPending", "reconcile"} \/ (c.pc \in Reserving /\ c.after = "reconcile"),
             c.todo \subseteq OpenItems(c.batch)
      PROVE  SerialOK'
  <2>1. EditOK(c)
    BY <1>2 DEF EditOK, Editing, Reserving
  <2>2. BillOK(c)
    BY <1>2 DEF BillOK, Reserving
  <2> QED BY <1>1, <1>2, <2>1, <2>2, CallKeepsSerial DEF SerialInv
<1>3. CASE ReadOpenLines(r)
  <2>1. PICK c : c = [Now EXCEPT !.todo = OpenItems(Now.batch), !.pc = "readPending"]
    OBVIOUS
  <2>2. c.pc = "readPending" /\ c.todo = OpenItems(Now.batch) /\ c.batch = Now.batch
    BY <1>1, <2>1 DEF Call
  <2>3. Now' = c
    BY <1>1, <1>3, <2>1, ReadOpenLinesNow
  <2> QED BY <1>2, <2>2, <2>3
<1>4. CASE ReadPending(r)
  <2>1. PICK c : c = [Now EXCEPT !.left = Clamp(pending[Now.batch]), !.pc = "reconcile"]
    OBVIOUS
  <2>2. c.pc = "reconcile" /\ c.todo = Now.todo /\ c.batch = Now.batch
    BY <1>1, <2>1 DEF Call
  <2>3. Now' = c /\ Now.pc = "readPending"
    BY <1>1, <1>4, <2>1, ReadPendingNow
  <2>4. Now.todo \subseteq OpenItems(Now.batch)
    BY <1>1, <2>3 DEF BillOK, Reconciling
  <2> QED BY <1>2, <2>2, <2>3, <2>4
<1>5. CASE ReconcileLine(r)
  <2>1. PICK i, have :
          /\ i \in Now.todo /\ have = Allocated(i, Now.left)
          /\ Now' = [Now EXCEPT !.todo = @ \ {i}, !.left = @ - have, !.ask = i.qty - have,
                                !.after = "reconcile", !.pc = IF i.qty > have THEN "reserve" ELSE "reconcile"]
    BY <1>1, <1>5, ReconcileLineNow
  <2>2. PICK c : c = [Now EXCEPT !.todo = @ \ {i}, !.left = @ - have, !.ask = i.qty - have,
                             !.after = "reconcile", !.pc = IF i.qty > have THEN "reserve" ELSE "reconcile"]
    OBVIOUS
  <2>3. /\ c.pc = IF i.qty > have THEN "reserve" ELSE "reconcile"
        /\ c.after = "reconcile" /\ c.todo = Now.todo \ {i} /\ c.batch = Now.batch
    BY <1>1, <2>2 DEF Call
  <2>4. Now.todo \subseteq OpenItems(Now.batch)
    BY <1>1, <1>5, ReconcileLineNow DEF BillOK, Reconciling
  <2> QED BY <1>2, <2>1, <2>2, <2>3, <2>4 DEF Reserving
<1>6. CASE ReconcileEnds(r)
  BY <1>1, <1>6, FinishNow, IdleKeepsSerial DEF ReconcileEnds, SerialInv
<1> QED BY <1>3, <1>4, <1>5, <1>6

LEMMA ReleaseAllFits ==
  ASSUME OneRequest, SerialInv, NEW r \in Request, ReleaseAllForBill(r)
  PROVE  SerialOK'
<1>1. PICK i \in Now.todo :
        Now' = [Now EXCEPT !.todo = @ \ {i}, !.pc = IF Now.todo = {i} THEN "setStatus" ELSE @]
  BY ReleaseAllNow DEF SerialInv
<1>2. PICK c : c = [Now EXCEPT !.todo = @ \ {i}, !.pc = IF Now.todo = {i} THEN "setStatus" ELSE @]
  OBVIOUS
<1>3. Now.pc = "releaseAll" /\ BillOK(Now) /\ Now \in Call
  BY NowFits, ReleaseAllNow DEF SerialInv
<1>4. /\ c.pc = IF Now.todo = {i} THEN "setStatus" ELSE "releaseAll"
      /\ c.todo = Now.todo \ {i} /\ c.bill = Now.bill /\ c.op = Now.op
  BY <1>2, <1>3 DEF Call
<1>5. Cancelling(Now) /\ Now.todo \subseteq ItemsOf(Now.bill)
  BY <1>3 DEF BillOK
<1>6. Cancelling(c)
  BY <1>4, <1>5 DEF Cancelling
<1>7. \/ c.pc = "setStatus" /\ c.todo = {} /\ Cancelling(c)
      \/ c.pc = "releaseAll" /\ c.todo \subseteq ItemsOf(c.bill) /\ Cancelling(c)
  BY <1>4, <1>5, <1>6
<1>8. EditOK(c) /\ BillOK(c)
  BY <1>7, BillCallFits
<1> QED BY <1>1, <1>2, <1>8, CallKeepsSerial DEF ReleaseAllForBill, SerialInv

\* Where the request stands when it edits nothing and handles nothing that it has read.
Plain(c) == c.pc \in {"idle", "readLines"}

LEMMA PlainFits == \A c : Plain(c) => EditOK(c) /\ BillOK(c)
  BY DEF Plain, EditOK, BillOK, Editing, Reconciling, Reserving

LEMMA IdleIsPlain == Plain(Idle)
  BY DEF Plain, Idle

LEMMA PlainFitsThen == \A c : Plain(c) => EditOK(c)' /\ BillOK(c)'
  BY DEF Plain, EditOK, BillOK, Editing, Reconciling, Reserving

LEMMA WriteLineFits ==
  ASSUME OneRequest, SerialInv, NEW r \in Request, WriteLine(r)
  PROVE  SerialOK'
<1>1. PICK w : w = [id |-> Now.line, bill |-> Now.bill, batch |-> Now.batch, qty |-> Now.new]
  OBVIOUS
<1>2. IInv /\ LinesOK /\ EditOK(Now) /\ OpenIsUnsold
  BY NowFits DEF SerialInv, SerialOK
<1>3. Now.pc = "write" /\ UNCHANGED <<status, sales, bullmq>>
  BY <1>1, <1>2, WriteLineNow
<1>4. OpenIsUnsold'
  BY <1>2, <1>3 DEF OpenIsUnsold, sales, bullmq
<1>5. CASE UNCHANGED items /\ Now' = Idle
  BY <1>3, <1>5, IdleKeepsSerial DEF SerialInv
<1>6. CASE /\ items' = (items \ LineRow(Now)) \union (IF Now.op = "remove" THEN {} ELSE {w})
           /\ Now' = [Idle EXCEPT !.op = Now.op, !.pc = "readLines", !.bill = Now.bill, !.batch = Now.batch]
  <2>1. w.id = Now.line
    BY <1>1
  <2>2. IsFiniteSet(items \ LineRow(Now)) /\ IsFiniteSet({w})
    BY <1>2, FS_Subset, FS_Singleton DEF LinesOK
  <2>3. IsFiniteSet(items')
    <3>1. IsFiniteSet((items \ LineRow(Now)) \union {w})
      BY <2>2, FS_Union
    <3> QED BY <1>6, <2>2, <3>1
  <2>4. \A i \in items' : i = w \/ (i \in items /\ i.id # Now.line)
    BY <1>6 DEF LineRow
  <2>5. LinesOK'
    BY <1>2, <2>1, <2>3, <2>4 DEF LinesOK
  <2>6. PICK c : c = [Idle EXCEPT !.op = Now.op, !.pc = "readLines", !.bill = Now.bill, !.batch = Now.batch]
    OBVIOUS
  <2>7. Plain(c)
    BY <2>6 DEF Plain, Idle
  <2>8. EditOK(c)' /\ BillOK(c)' /\ Now' = c
    BY <1>6, <2>6, <2>7, PlainFitsThen
  <2>9. EditOK(Now)' /\ BillOK(Now)'
    BY <2>8
  <2> QED BY <1>4, <2>5, <2>9 DEF SerialOK
<1> QED BY <1>1, <1>2, <1>5, <1>6, WriteLineNow

LEMMA SetStatusFits ==
  ASSUME OneRequest, SerialInv, NEW r \in Request, SetStatus(r)
  PROVE  SerialOK'
<1>1. IInv /\ LinesOK /\ BillOK(Now) /\ OpenIsUnsold /\ Now \in Call /\ CallOK(Now)
  BY NowFits DEF SerialInv, SerialOK
<1>2. /\ Now.pc = "setStatus" /\ UNCHANGED <<items, sales, bullmq>>
      /\ status' = [status EXCEPT ![Now.bill] = Target(Now.op)]
  BY <1>1, SetStatusNow
<1>3. Now.bill \in Bill /\ status \in [Bill -> Status]
  BY <1>1, <1>2 DEF CallOK, IInv, TypeOK
<1>4. \/ Target(Now.op) \notin Unsold
      \/ status[Now.bill] \in EDITABLE
  BY <1>1, <1>2 DEF BillOK, Cancelling, Unsold, EDITABLE
<1>5. OpenIsUnsold'
  BY <1>1, <1>2, <1>3, <1>4 DEF OpenIsUnsold, Unsold, sales, bullmq
<1>6. LinesOK'
  BY <1>1, <1>2 DEF LinesOK
<1>7. CASE Now' = Idle
  <2>1. EditOK(Now)' /\ BillOK(Now)'
    BY <1>7, IdleIsPlain, PlainFitsThen
  <2> QED BY <1>5, <1>6, <2>1 DEF SerialOK
<1>8. CASE Now.op = "complete" /\ Now' = [Now EXCEPT !.pc = "enqueue"]
  <2>1. Now'.pc = "enqueue" /\ Now'.bill = Now.bill
    BY <1>1, <1>8 DEF Call
  <2>2. status'[Now.bill] \notin Unsold
    BY <1>2, <1>3, <1>8 DEF Target, Unsold, EDITABLE
  <2>3. EditOK(Now)'
    BY <2>1 DEF EditOK, Editing
  <2>4. BillOK(Now)'
    BY <2>1, <2>2 DEF BillOK, Reconciling, Reserving
  <2> QED BY <1>5, <1>6, <2>3, <2>4 DEF SerialOK
<1> QED BY <1>1, <1>7, <1>8, SetStatusNow

LEMMA EnqueueFits ==
  ASSUME OneRequest, SerialInv, NEW r \in Request, Enqueue(r)
  PROVE  SerialOK'
<1>1. IInv /\ LinesOK /\ BillOK(Now) /\ OpenIsUnsold
  BY NowFits DEF SerialInv, SerialOK
<1>2. /\ Now.pc = "enqueue" /\ Now' = Idle /\ UNCHANGED <<items, status, sales>>
      /\ IF job[Now.bill] = "none" THEN AddJob(Now.bill) ELSE UNCHANGED bullmq
  BY <1>1, EnqueueNow
<1>3. \A b \in Bill : status[b] \in Unsold => job'[b] = job[b]
  BY <1>1, <1>2 DEF BillOK, AddJob, bullmq, IInv, TypeOK
<1>4. OpenIsUnsold' /\ LinesOK'
  BY <1>1, <1>2, <1>3 DEF OpenIsUnsold, LinesOK, sales
<1>5. EditOK(Now)' /\ BillOK(Now)'
  BY <1>2, IdleIsPlain, PlainFitsThen
<1> QED BY <1>4, <1>5 DEF SerialOK

LEMMA FailRequestFits ==
  ASSUME OneRequest, SerialInv, NEW r \in Request, FailRequest(r)
  PROVE  SerialOK'
  BY FinishNow, IdleKeepsSerial DEF FailRequest, SerialInv

LEMMA ContinueFits ==
  ASSUME OneRequest, SerialInv, NEW r \in Request, ContinueRequest(r)
  PROVE  SerialOK'
  BY LoadLineFits, ReleaseLineFits, ReserveStepsFit, ReconcileStepsFit, ReleaseAllFits, WriteLineFits,
     SetStatusFits, EnqueueFits DEF ContinueRequest

-----------------------------------------------------------------------------
(* The other actors keep SerialOK                                          *)

LEMMA WorkersBillIsClosed ==
  ASSUME SerialInv, worker.pc # "idle"
  PROVE  worker.bill \in Bill /\ job[worker.bill] = "active" /\ status[worker.bill] \notin Unsold
  BY DEF SerialInv, SerialOK, IInv, TypeOK, JobsOK, OpenIsUnsold

LEMMA ClosedStepsFit ==
  ASSUME OneRequest, SerialInv, UNCHANGED <<req, items>>,
         \A b \in Bill : status[b] \in Unsold => /\ status'[b] = status[b] /\ job'[b] = job[b]
                                                 /\ b \in invoiced' => b \in invoiced,
         \A b \in Bill : status[b] \notin Unsold => status'[b] \notin Unsold
  PROVE  SerialOK'
<1>1. OpenIsUnsold'
  BY DEF SerialInv, SerialOK, OpenIsUnsold
<1> QED BY <1>1, OthersKeepSerial DEF SerialInv, Unsold

LEMMA CreateDraftFits ==
  ASSUME OneRequest, SerialInv, NEW b \in Bill, CreateDraft(b)
  PROVE  SerialOK'
<1>1. status \in [Bill -> Status] /\ OpenIsUnsold /\ IInv /\ SerialOK
  BY DEF SerialInv, SerialOK, IInv, TypeOK
<1>2. OpenIsUnsold'
  BY <1>1 DEF OpenIsUnsold, CreateDraft, Unsold, EDITABLE, sales, bullmq
<1> QED BY <1>1, <1>2, OthersKeepSerial DEF CreateDraft, Unsold, EDITABLE

LEMMA PromoteJobFits ==
  ASSUME OneRequest, SerialInv, NEW b \in Bill, PromoteJob(b)
  PROVE  SerialOK'
<1>1. job[b] = "delayed" /\ status[b] \notin Unsold /\ job \in [Bill -> JobState]
  BY DEF SerialInv, SerialOK, OpenIsUnsold, PromoteJob, IInv, TypeOK
<1> QED BY <1>1, ClosedStepsFit DEF PromoteJob, AddJob, sales

LEMMA TakeJobFits ==
  ASSUME OneRequest, SerialInv, TakeJob
  PROVE  SerialOK'
<1>1. Head(queue) \in Bill /\ Waits(Head(queue)) /\ job \in [Bill -> JobState]
  BY DEF SerialInv, IInv, TypeOK, TakeJob, Waits
<1>2. status[Head(queue)] \notin Unsold
  BY <1>1 DEF SerialInv, SerialOK, JobsOK, OpenIsUnsold
<1> QED BY <1>1, <1>2, ClosedStepsFit DEF TakeJob, sales

\* The worker's later steps are about its own bill.
LEMMA OwnBillStepsFit ==
  ASSUME OneRequest, SerialInv, worker.pc # "idle", UNCHANGED <<req, items>>,
         \A b \in Bill \ {worker.bill} : /\ status'[b] = status[b] /\ job'[b] = job[b]
                                         /\ b \in invoiced' => b \in invoiced,
         status'[worker.bill] \notin Unsold
  PROVE  SerialOK'
<1>1. worker.bill \in Bill /\ status[worker.bill] \notin Unsold
  BY WorkersBillIsClosed
<1> QED BY <1>1, ClosedStepsFit

LEMMA WorkerStepFits ==
  ASSUME OneRequest, SerialInv, WorkerStep
  PROVE  SerialOK'
<1>1. CASE TakeJob
  BY <1>1, TakeJobFits
<1>2. status \in [Bill -> Status] /\ job \in [Bill -> JobState]
  BY DEF SerialInv, IInv, TypeOK
<1>3. CASE MarkCommitting
  BY <1>2, <1>3, WorkersBillIsClosed, OwnBillStepsFit DEF MarkCommitting, Unsold, EDITABLE, sales, bullmq
<1>4. CASE SetFailed
  BY <1>2, <1>4, WorkersBillIsClosed, OwnBillStepsFit DEF SetFailed, Unsold, EDITABLE, sales, bullmq
<1>5. CASE Commit
  BY <1>2, <1>5, WorkersBillIsClosed, OwnBillStepsFit DEF Commit, Unsold, EDITABLE, bullmq
<1>6. CASE CompleteJob
  BY <1>2, <1>6, WorkersBillIsClosed, OwnBillStepsFit DEF CompleteJob, sales
<1>7. CASE FailJob
  BY <1>2, <1>7, WorkersBillIsClosed, OwnBillStepsFit DEF FailJob, EndAttempt, sales
<1>8. CASE BeginTransaction \/ CommitLine \/ InvoiceExists \/ ReadBack \/ GiveBack
  BY <1>8, ClosedStepsFit DEF BeginTransaction, CommitLine, InvoiceExists, ReadBack, GiveBack, sales, bullmq
<1> QED BY <1>1, <1>3, <1>4, <1>5, <1>6, <1>7, <1>8 DEF WorkerStep

LEMMA WorkerFaultFits ==
  ASSUME OneRequest, SerialInv, WorkerFault
  PROVE  SerialOK'
<1>1. job \in [Bill -> JobState] /\ worker.pc # "idle"
  BY DEF SerialInv, IInv, TypeOK, WorkerFault
<1>2. \A b \in Bill \ {worker.bill} : job'[b] = job[b]
  BY <1>1 DEF WorkerFault, EndAttempt, bullmq
<1> QED BY <1>1, <1>2, WorkersBillIsClosed, OwnBillStepsFit DEF WorkerFault, sales

LEMMA StockChangesFit ==
  ASSUME OneRequest, SerialInv,
         \E x \in Batch : \/ \E d \in Delta : AdjustStock(x, d)
                          \/ \E q \in Qty \union {0} : OverwriteStock(x, q)
  PROVE  SerialOK'
  BY ClosedStepsFit DEF AdjustStock, OverwriteStock, sales, bullmq

LEMMA CrashFits ==
  ASSUME OneRequest, SerialInv, Crash
  PROVE  SerialOK'
<1>1. OpenIsUnsold /\ LinesOK /\ job \in [Bill -> JobState] /\ TheRequest \in Request
  BY OneCall DEF SerialInv, SerialOK, IInv, TypeOK
<1>2. Now' = Idle
  BY <1>1 DEF Crash, Now
<1>3. \A b \in Bill : status[b] \in Unsold => job'[b] = job[b]
  BY <1>1, WorkersBillIsClosed DEF Crash, bullmq
<1>4. OpenIsUnsold' /\ LinesOK'
  BY <1>1, <1>3 DEF OpenIsUnsold, LinesOK, Crash, sales
<1>5. EditOK(Now)' /\ BillOK(Now)'
  BY <1>2, IdleIsPlain, PlainFitsThen
<1> QED BY <1>4, <1>5 DEF SerialOK

LEMMA SerialStep == OneRequest /\ SerialInv /\ [Next]_vars => SerialInv'
<1> SUFFICES ASSUME OneRequest, SerialInv, [Next]_vars PROVE SerialInv'
  OBVIOUS
<1>1. IInv' /\ JobsOK'
  BY NextInvariant, NextKeepsOne DEF SerialInv
<1>2. CASE UNCHANGED vars
  BY <1>2, ClosedStepsFit, <1>1 DEF SerialInv, vars, sales, bullmq
<1>3. CASE Next
  BY <1>1, <1>3, CreateDraftFits, PromoteJobFits, StartKeepsSerial, ContinueFits, FailRequestFits,
     WorkerStepFits, WorkerFaultFits, StockChangesFit, CrashFits DEF Next, SerialInv
<1> QED BY <1>2, <1>3

-----------------------------------------------------------------------------
(* The sale is what the lines say.  The open transaction has taken the      *)
(* quantities of the lines it is through with, and no request touches a     *)
(* line of a bill that is on its way or sold.                               *)

TakenOK ==
  worker.pc = "lines" =>
    /\ worker.todo \subseteq ItemsOf(worker.bill)
    /\ \A x \in Batch : worker.taken[x] + LineTotal(worker.todo, x) = LineTotal(ItemsOf(worker.bill), x)

SaleInv == TakenOK /\ SaleMatchesLines

LEMMA LinesOfBill ==
  ASSUME SerialInv, NEW b
  PROVE  /\ items \in SUBSET Item /\ IsFiniteSet(items)
         /\ ItemsOf(b) \in SUBSET Item /\ IsFiniteSet(ItemsOf(b)) /\ ItemsOf(b) \subseteq items
<1>1. items \in SUBSET Item /\ IsFiniteSet(items)
  BY DEF SerialInv, SerialOK, LinesOK, IInv, TypeOK
<1> QED BY <1>1, FS_Subset DEF ItemsOf

LEMMA SaleUntouched ==
  ASSUME SaleInv, UNCHANGED sales, worker' = worker \/ worker'.pc # "lines",
         \A b : b \in invoiced \/ (worker.pc = "lines" /\ b = worker.bill) => ItemsOf(b)' = ItemsOf(b)
  PROVE  SaleInv'
<1>1. SaleMatchesLines'
  BY DEF SaleInv, SaleMatchesLines, sales
<1>2. TakenOK'
  <2>1. SUFFICES ASSUME worker' = worker, worker.pc = "lines" PROVE TakenOK'
    BY DEF TakenOK
  <2>2. PICK b : b = worker.bill
    OBVIOUS
  <2> QED BY <2>1, <2>2 DEF SaleInv, TakenOK
<1> QED BY <1>1, <1>2 DEF SaleInv

LEMMA SaleUntouchedBySteps ==
  ASSUME SaleInv, UNCHANGED <<items, sales>>, worker' = worker \/ worker'.pc # "lines"
  PROVE  SaleInv'
<1>1. \A b : ItemsOf(b)' = ItemsOf(b)
  BY DEF ItemsOf
<1> QED BY <1>1, SaleUntouched

LEMMA BeginTransactionSells ==
  ASSUME SerialInv, SaleInv, BeginTransaction
  PROVE  SaleInv'
<1>1. worker \in Worker /\ worker.taken = NoneTaken
  BY WorkerState DEF SerialInv, BeginTransaction
<1>2. worker'.todo = ItemsOf(worker.bill) /\ worker'.taken = NoneTaken /\ worker'.bill = worker.bill
  BY <1>1 DEF BeginTransaction, Worker
<1>3. \A b : ItemsOf(b)' = ItemsOf(b)
  BY DEF ItemsOf, BeginTransaction
<1>4. \A x \in Batch : LineTotal(ItemsOf(worker.bill), x) \in Nat
  BY LinesOfBill, LineTotalType
<1>5. TakenOK'
  BY <1>2, <1>3, <1>4 DEF TakenOK, NoneTaken
<1>6. SaleMatchesLines'
  BY <1>3 DEF SaleInv, SaleMatchesLines, BeginTransaction, sales
<1> QED BY <1>5, <1>6 DEF SaleInv

LEMMA CommitLineSells ==
  ASSUME SerialInv, SaleInv, CommitLine
  PROVE  SaleInv'
<1>1. worker \in Worker /\ worker.pc = "lines"
  BY WorkerState DEF SerialInv, CommitLine
<1>2. PICK i \in worker.todo :
        \/ Covered(i) /\ worker' = [worker EXCEPT !.todo = @ \ {i}, !.taken[i.batch] = @ + i.qty]
        \/ ~Covered(i) /\ Rollback
  BY DEF CommitLine
<1>3. CASE Rollback
  <2>1. worker'.pc = "fail" /\ UNCHANGED <<items, sales>>
    BY <1>1, <1>3 DEF CommitLine, Rollback, Worker
  <2> QED BY <2>1, SaleUntouchedBySteps
<1>4. ASSUME worker' = [worker EXCEPT !.todo = @ \ {i}, !.taken[i.batch] = @ + i.qty]
      PROVE  SaleInv'
  <2>1. /\ worker'.taken = [worker.taken EXCEPT ![i.batch] = @ + i.qty]
        /\ worker'.todo = worker.todo \ {i} /\ worker'.bill = worker.bill
        /\ worker.taken \in [Batch -> Nat]
    BY <1>1, <1>4 DEF Worker
  <2>2. /\ worker.todo \subseteq ItemsOf(worker.bill)
        /\ \A x \in Batch : worker.taken[x] + LineTotal(worker.todo, x) = LineTotal(ItemsOf(worker.bill), x)
    BY <1>1 DEF SaleInv, TakenOK
  <2>3. worker.todo \in SUBSET Item /\ IsFiniteSet(worker.todo) /\ i \in Item
    BY <2>2, LinesOfBill, FS_Subset
  <2>4. worker.todo \ {i} \in SUBSET Item /\ IsFiniteSet(worker.todo \ {i})
    BY <2>3, FS_Subset
  <2>5. \A b : ItemsOf(b)' = ItemsOf(b)
    BY DEF ItemsOf, CommitLine
  <2>6. ASSUME NEW x \in Batch
        PROVE  worker'.taken[x] + LineTotal(worker.todo \ {i}, x) = LineTotal(ItemsOf(worker.bill), x)
    <3>1. /\ LineTotal(worker.todo, x) = LineTotal(worker.todo \ {i}, x) + (IF i.batch = x THEN i.qty ELSE 0)
          /\ LineTotal(worker.todo \ {i}, x) \in Nat
      BY <2>3, <2>4, LineTotalWithout, LineTotalType
    <3>2. worker'.taken[x] = worker.taken[x] + (IF i.batch = x THEN i.qty ELSE 0) /\ i.qty \in Nat
      BY <2>1, <2>3 DEF Item
    <3> QED BY <2>1, <2>2, <3>1, <3>2
  <2>7. TakenOK'
    BY <2>1, <2>2, <2>5, <2>6 DEF TakenOK
  <2>8. SaleMatchesLines'
    BY <2>5 DEF SaleInv, SaleMatchesLines, CommitLine, sales
  <2> QED BY <2>7, <2>8 DEF SaleInv
<1> QED BY <1>2, <1>3, <1>4

LEMMA CommitSells ==
  ASSUME SerialInv, SaleInv, Commit
  PROVE  SaleInv'
<1>1. /\ worker \in Worker /\ worker.bill \in Bill /\ worker.pc = "lines" /\ worker.todo = {}
      /\ worker.taken \in [Batch -> Nat] /\ moved \in [Bill -> [Batch -> Nat]]
  BY WorkerState DEF SerialInv, Commit, Worker, IInv, TypeOK
<1>2. ASSUME NEW x \in Batch
      PROVE  worker.taken[x] = LineTotal(ItemsOf(worker.bill), x)
  <2>1. worker.taken[x] + LineTotal({}, x) = LineTotal(ItemsOf(worker.bill), x)
    BY <1>1 DEF SaleInv, TakenOK
  <2> QED BY <1>1, <2>1, LineTotalOfNone
<1>3. \A b : ItemsOf(b)' = ItemsOf(b)
  BY DEF ItemsOf, Commit
<1>4. SaleMatchesLines'
  BY <1>1, <1>2, <1>3 DEF SaleInv, SaleMatchesLines, Commit
<1>5. TakenOK'
  BY <1>1 DEF TakenOK, Commit, Worker
<1> QED BY <1>4, <1>5 DEF SaleInv

\* A request writes a line of an open bill only.
LEMMA WriteLineSells ==
  ASSUME OneRequest, SerialInv, SaleInv, NEW r \in Request, WriteLine(r)
  PROVE  SaleInv'
<1>1. PICK w : w = [id |-> Now.line, bill |-> Now.bill, batch |-> Now.batch, qty |-> Now.new]
  OBVIOUS
<1>2. IInv /\ LinesOK /\ EditOK(Now) /\ OpenIsUnsold /\ CallOK(Now)
  BY NowFits DEF SerialInv, SerialOK
<1>3. Now.pc = "write" /\ UNCHANGED <<sales, worker>>
  BY <1>1, <1>2, WriteLineNow
<1>4. Editing(Now) /\ status[Now.bill] \in EDITABLE /\ Now.bill \in Bill
  BY <1>2, <1>3 DEF EditOK, Editing, CallOK
<1>5. CASE UNCHANGED items
  BY <1>3, <1>5, SaleUntouchedBySteps
<1>6. CASE items' = (items \ LineRow(Now)) \union (IF Now.op = "remove" THEN {} ELSE {w})
  <2>1. \A i \in LineRow(Now) : i.bill = Now.bill
    BY <1>2, <1>4 DEF EditOK
  <2>2. w.bill = Now.bill
    BY <1>1
  <2>3. ASSUME NEW b, b # Now.bill PROVE ItemsOf(b)' = ItemsOf(b)
    BY <1>6, <2>1, <2>2, <2>3 DEF ItemsOf, LineRow
  <2>4. Now.bill \notin invoiced /\ job[Now.bill] = "none"
    BY <1>2, <1>4 DEF OpenIsUnsold, Unsold
  <2>5. worker.pc # "idle" => worker.bill # Now.bill
    BY <2>4, WorkersBillIsClosed
  <2> QED BY <1>3, <2>3, <2>4, <2>5, SaleUntouched
<1> QED BY <1>1, <1>2, <1>5, <1>6, WriteLineNow

LEMMA SaleStep == OneRequest /\ SerialInv /\ SaleInv /\ [Next]_vars => SaleInv'
<1> SUFFICES ASSUME OneRequest, SerialInv, SaleInv, [Next]_vars PROVE SaleInv'
  OBVIOUS
<1>1. CASE UNCHANGED vars
  BY <1>1, SaleUntouchedBySteps DEF vars, sales
<1>2. ASSUME NEW r \in Request, StartRequest(r)
      PROVE  SaleInv'
  <2>1. PICK op, c : Begin(r, op, c)
    BY <1>2, StartedCallFits DEF Fits
  <2> QED BY <2>1, SaleUntouchedBySteps DEF Begin
<1>3. ASSUME NEW r \in Request, ContinueRequest(r)
      PROVE  SaleInv'
  <2>1. CASE WriteLine(r)
    BY <2>1, WriteLineSells
  <2>2. CASE ~WriteLine(r)
    <3>1. UNCHANGED <<items, sales, worker>>
      BY <1>3, <2>2 DEF ContinueRequest, LoadLine, ReleaseLine, ReserveLine, ReadAvailable, ReserveAvailable,
                        ReadOpenLines, ReadPending, ReconcileLine, ReconcileEnds, ReleaseAllForBill, SetStatus,
                        Enqueue
    <3> QED BY <3>1, SaleUntouchedBySteps
  <2> QED BY <2>1, <2>2
<1>4. CASE WorkerStep
  <2>1. CASE BeginTransaction \/ CommitLine \/ Commit
    BY <2>1, BeginTransactionSells, CommitLineSells, CommitSells
  <2>2. CASE TakeJob \/ MarkCommitting \/ InvoiceExists \/ CompleteJob \/ SetFailed \/ ReadBack \/ GiveBack
                     \/ FailJob
    <3>1. worker \in Worker
      BY DEF SerialInv, IInv, TypeOK
    <3>2. UNCHANGED <<items, sales>>
      BY <2>2 DEF TakeJob, MarkCommitting, InvoiceExists, CompleteJob, SetFailed, ReadBack, GiveBack, FailJob
    <3>3. CASE CompleteJob \/ FailJob
      BY <3>2, <3>3, SaleUntouchedBySteps DEF CompleteJob, FailJob, EndAttempt, Resting
    <3>4. CASE TakeJob
      BY <3>2, <3>4, SaleUntouchedBySteps DEF TakeJob, Resting
    <3>5. CASE MarkCommitting \/ InvoiceExists \/ SetFailed
      <4>1. worker'.pc \in {"begin", "fail", "readBack"}
        BY <3>1, <3>5 DEF MarkCommitting, InvoiceExists, SetFailed, Rollback, Worker
      <4> QED BY <3>2, <4>1, SaleUntouchedBySteps
    <3>6. CASE ReadBack \/ GiveBack
      <4>1. worker'.pc = "giveBack"
        BY <3>1, <3>6 DEF ReadBack, GiveBack, Worker
      <4> QED BY <3>2, <4>1, SaleUntouchedBySteps
    <3> QED BY <2>2, <3>3, <3>4, <3>5, <3>6
  <2> QED BY <1>4, <2>1, <2>2 DEF WorkerStep
<1>5. CASE WorkerFault \/ Crash
  <2>1. worker \in Worker
    BY DEF SerialInv, IInv, TypeOK
  <2>2. UNCHANGED <<items, sales>>
    BY <1>5 DEF WorkerFault, Crash
  <2>3. worker'.pc \in {"idle", "fail"}
    <3>1. Rollback => worker'.pc = "fail"
      BY <2>1 DEF Rollback, Worker
    <3>2. EndAttempt \/ Crash => worker'.pc = "idle"
      BY DEF EndAttempt, Crash, Resting
    <3> QED BY <1>5, <3>1, <3>2 DEF WorkerFault
  <2> QED BY <2>2, <2>3, SaleUntouchedBySteps
<1>6. ASSUME \/ \E b \in Bill : CreateDraft(b) \/ PromoteJob(b)
             \/ \E r \in Request : FailRequest(r)
             \/ \E x \in Batch : \/ \E d \in Delta : AdjustStock(x, d)
                                 \/ \E q \in Qty \union {0} : OverwriteStock(x, q)
      PROVE  SaleInv'
  <2>1. UNCHANGED <<items, sales, worker>>
    BY <1>6 DEF CreateDraft, PromoteJob, FailRequest, AdjustStock, OverwriteStock
  <2> QED BY <2>1, SaleUntouchedBySteps
<1> QED BY <1>1, <1>2, <1>3, <1>4, <1>5, <1>6 DEF Next

\* While requests do not overlap, an invoice shows exactly what left the shop, then and
\* later, through faults, failed attempts and crashes: no line of a bill changes once
\* its job is in the queue.  (Two requests at a time can change a bill that is sold: see
\* the README.)
THEOREM SalesMatchTheirLines == OneRequest => (Spec => []SaleMatchesLines)
<1> SUFFICES ASSUME OneRequest PROVE Spec => []SaleMatchesLines
  OBVIOUS
<1>1. Init => SerialInv /\ SaleInv
  <2>1. Init => SaleInv
    BY DEF Init, SaleInv, TakenOK, SaleMatchesLines, Resting
  <2> QED BY <2>1, SerialInit, InitInvariant, InitJobs DEF SerialInv
<1>2. SerialInv /\ SaleInv /\ [Next]_vars => (SerialInv /\ SaleInv)'
  BY SerialStep, SaleStep
<1>3. SerialInv /\ SaleInv => SaleMatchesLines
  BY DEF SaleInv
<1> QED BY <1>1, <1>2, <1>3, PTL DEF Spec

-----------------------------------------------------------------------------
(* No stock is held that no line asked for.  Between two requests what is    *)
(* reserved of a batch is at most what the lines that may hold stock ask     *)
(* for; while a request is under way the lines it has given back count for   *)
(* nothing, and it may hold the new quantity of the line it is about to      *)
(* write.  A top-up asks for no more than the lines it is through with have  *)
(* (what is left plus their quantities bound what is reserved); when it is   *)
(* refused, all the stock there is is bounded by the same lines, so that     *)
(* reserving what is free stays within them.  A failed attempt breaks that:  *)
(* it gives reservations back between the refusal and the look at what is    *)
(* free.                                                                     *)

Asking == {"readAvailable", "reserveAvailable"}
Extra(c, x) == IF c.pc = "write" /\ c.batch = x THEN c.new ELSE 0

\* p of the stock s is reserved, the lines H may hold stock, the lines S are given back.
Bounded(c, p, s, H, S) ==
  /\ \A x \in Batch : p[x] <= LineTotal(H \ S, x) + Extra(c, x)
  /\ Given(c) /\ c.pc \in Asking => s[c.batch] <= LineTotal(H \ S, c.batch) + c.new
  /\ c.pc = "reconcile" => p[c.batch] <= c.left + LineTotal(H \ c.todo, c.batch)
  /\ Reconciling(c) /\ c.pc = "reserve" => p[c.batch] + c.ask <= LineTotal(H \ c.todo, c.batch)
  /\ Reconciling(c) /\ c.pc \in Asking => /\ p[c.batch] <= LineTotal(H \ c.todo, c.batch)
                                          /\ s[c.batch] <= LineTotal(H \ c.todo, c.batch)

Bounds(c) == Bounded(c, pending, stock, HoldingItems, Spared(c))
Calm == Undisturbed /\ NoAttemptFailed
PhantomInv == Calm => Bounds(Now)

LEMMA HoldingLines ==
  ASSUME SerialInv
  PROVE  /\ HoldingItems \in SUBSET Item /\ IsFiniteSet(HoldingItems) /\ HoldingItems \subseteq items
         /\ pending \in [Batch -> Int] /\ stock \in [Batch -> Nat]
         /\ \A S, x : LineTotal(HoldingItems \ S, x) \in Nat
         /\ \A S, x : LineTotal(HoldingItems \ S, x) <= LineTotal(HoldingItems, x)
<1>1. items \in SUBSET Item /\ IsFiniteSet(items) /\ HoldingItems \subseteq items
  BY DEF SerialInv, SerialOK, LinesOK, IInv, TypeOK, HoldingItems
<1>2. HoldingItems \in SUBSET Item /\ IsFiniteSet(HoldingItems)
  BY <1>1, FS_Subset
<1>3. ASSUME NEW S, NEW x
      PROVE  LineTotal(HoldingItems \ S, x) \in Nat /\ LineTotal(HoldingItems \ S, x) <= LineTotal(HoldingItems, x)
  <2>1. HoldingItems \ S \in SUBSET HoldingItems /\ HoldingItems \ S \in SUBSET Item
        /\ IsFiniteSet(HoldingItems \ S)
    BY <1>2, FS_Subset
  <2> QED BY <1>2, <2>1, LineTotalType, LineTotalGrows
<1> QED BY <1>1, <1>2, <1>3 DEF SerialInv, IInv, TypeOK

\* What is reserved (p, then q) and on hand (s, then t) shrinks by at least what the lines I
\* asked for, and of the lines H that may hold stock (then K) only I give up their hold.
Shrinks(p, q, s, t, H, K, I) ==
  /\ p \in [Batch -> Int] /\ q \in [Batch -> Int] /\ s \in [Batch -> Int] /\ t \in [Batch -> Int]
  /\ H \in SUBSET Item /\ K \in SUBSET Item /\ I \in SUBSET Item
  /\ IsFiniteSet(H) /\ IsFiniteSet(K) /\ IsFiniteSet(I)
  /\ \A x \in Batch : q[x] <= p[x] - LineTotal(I, x) /\ t[x] <= s[x] - LineTotal(I, x)
  /\ H \ I \subseteq K

LEMMA BoundsShrink ==
  ASSUME NEW p, NEW q, NEW s, NEW t, NEW H, NEW K, NEW I, Shrinks(p, q, s, t, H, K, I),
         NEW c \in Call, CallOK(c), NEW S, Bounded(c, p, s, H, S)
  PROVE  Bounded(c, q, t, K, S)
<1> USE DEF Shrinks
<1>1. ASSUME NEW T, NEW x
      PROVE  /\ LineTotal(H \ T, x) - LineTotal(I, x) <= LineTotal(K \ T, x)
             /\ LineTotal(H \ T, x) \in Nat /\ LineTotal(I, x) \in Nat /\ LineTotal(K \ T, x) \in Nat
  <2>1. H \ T \in SUBSET Item /\ IsFiniteSet(H \ T) /\ K \ T \in SUBSET Item /\ IsFiniteSet(K \ T)
    BY FS_Subset
  <2>2. (H \ T) \ I \in SUBSET Item /\ IsFiniteSet((H \ T) \ I) /\ (H \ T) \ I \in SUBSET (K \ T)
    BY <2>1, FS_Subset
  <2>3. LineTotal(H \ T, x) - LineTotal(I, x) <= LineTotal((H \ T) \ I, x)
    BY <2>1, LineTotalLoses
  <2>4. LineTotal((H \ T) \ I, x) <= LineTotal(K \ T, x)
    BY <2>1, <2>2, LineTotalGrows
  <2>5. /\ LineTotal(H \ T, x) \in Nat /\ LineTotal(I, x) \in Nat /\ LineTotal(K \ T, x) \in Nat
        /\ LineTotal((H \ T) \ I, x) \in Nat
    BY <2>1, <2>2, LineTotalType
  <2> QED BY <2>3, <2>4, <2>5
<1>2. c.new \in Nat /\ c.ask \in Nat /\ c.left \in Nat
  BY DEF Call
<1>3. Given(c) \/ Reconciling(c) => c.batch \in Batch
  BY DEF Given, Reconciling, Reserving, CallOK, OnBatch
<1>4. ASSUME NEW x \in Batch PROVE q[x] <= LineTotal(K \ S, x) + Extra(c, x)
  <2>1. Extra(c, x) \in Nat /\ p[x] <= LineTotal(H \ S, x) + Extra(c, x)
    BY <1>2 DEF Extra, Bounded
  <2>2. q[x] \in Int /\ p[x] \in Int /\ q[x] <= p[x] - LineTotal(I, x)
    OBVIOUS
  <2>3. /\ LineTotal(H \ S, x) - LineTotal(I, x) <= LineTotal(K \ S, x)
        /\ LineTotal(H \ S, x) \in Nat /\ LineTotal(I, x) \in Nat /\ LineTotal(K \ S, x) \in Nat
    BY <1>1
  <2> QED BY <2>1, <2>2, <2>3
<1>5. ASSUME Given(c), c.pc \in Asking PROVE t[c.batch] <= LineTotal(K \ S, c.batch) + c.new
  <2>1. s[c.batch] <= LineTotal(H \ S, c.batch) + c.new
    BY <1>5 DEF Bounded
  <2>2. t[c.batch] \in Int /\ s[c.batch] \in Int /\ t[c.batch] <= s[c.batch] - LineTotal(I, c.batch)
    BY <1>3, <1>5
  <2>3. /\ LineTotal(H \ S, c.batch) - LineTotal(I, c.batch) <= LineTotal(K \ S, c.batch)
        /\ LineTotal(H \ S, c.batch) \in Nat /\ LineTotal(I, c.batch) \in Nat /\ LineTotal(K \ S, c.batch) \in Nat
    BY <1>1
  <2> QED BY <1>2, <2>1, <2>2, <2>3
<1>6. ASSUME Reconciling(c)
      PROVE  /\ q[c.batch] \in Int /\ p[c.batch] \in Int /\ t[c.batch] \in Int /\ s[c.batch] \in Int
             /\ q[c.batch] <= p[c.batch] - LineTotal(I, c.batch) /\ t[c.batch] <= s[c.batch] - LineTotal(I, c.batch)
  BY <1>3, <1>6
<1>7. ASSUME c.pc = "reconcile" PROVE q[c.batch] <= c.left + LineTotal(K \ c.todo, c.batch)
  <2>1. p[c.batch] <= c.left + LineTotal(H \ c.todo, c.batch) /\ Reconciling(c)
    BY <1>7 DEF Bounded, Reconciling
  <2>2. /\ LineTotal(H \ c.todo, c.batch) - LineTotal(I, c.batch) <= LineTotal(K \ c.todo, c.batch)
        /\ LineTotal(H \ c.todo, c.batch) \in Nat /\ LineTotal(I, c.batch) \in Nat
        /\ LineTotal(K \ c.todo, c.batch) \in Nat
    BY <1>1
  <2> QED BY <1>2, <1>6, <2>1, <2>2
<1>8. ASSUME Reconciling(c), c.pc = "reserve" PROVE q[c.batch] + c.ask <= LineTotal(K \ c.todo, c.batch)
  <2>1. p[c.batch] + c.ask <= LineTotal(H \ c.todo, c.batch)
    BY <1>8 DEF Bounded
  <2>2. /\ LineTotal(H \ c.todo, c.batch) - LineTotal(I, c.batch) <= LineTotal(K \ c.todo, c.batch)
        /\ LineTotal(H \ c.todo, c.batch) \in Nat /\ LineTotal(I, c.batch) \in Nat
        /\ LineTotal(K \ c.todo, c.batch) \in Nat
    BY <1>1
  <2> QED BY <1>2, <1>6, <1>8, <2>1, <2>2
<1>9. ASSUME Reconciling(c), c.pc \in Asking
      PROVE  q[c.batch] <= LineTotal(K \ c.todo, c.batch) /\ t[c.batch] <= LineTotal(K \ c.todo, c.batch)
  <2>1. p[c.batch] <= LineTotal(H \ c.todo, c.batch) /\ s[c.batch] <= LineTotal(H \ c.todo, c.batch)
    BY <1>9 DEF Bounded
  <2>2. /\ LineTotal(H \ c.todo, c.batch) - LineTotal(I, c.batch) <= LineTotal(K \ c.todo, c.batch)
        /\ LineTotal(H \ c.todo, c.batch) \in Nat /\ LineTotal(I, c.batch) \in Nat
        /\ LineTotal(K \ c.todo, c.batch) \in Nat
    BY <1>1
  <2> QED BY <1>6, <1>9, <2>1, <2>2
<1> QED BY <1>4, <1>5, <1>7, <1>8, <1>9 DEF Bounded

\* A request that has given nothing back and stands where it asks for nothing.
Loose(c) == /\ Spared(c) = {} /\ c.pc \notin {"write", "reconcile"}
            /\ c.pc \in Reserving => c.after = "write" /\ c.pc = "reserve"

LEMMA LooseBounds ==
  ASSUME NEW c, Loose(c), NEW p, NEW s, NEW H \in SUBSET Item, IsFiniteSet(H), p \in [Batch -> Int]
  PROVE  Bounded(c, p, s, H, {}) <=> \A x \in Batch : p[x] <= LineTotal(H, x)
<1>1. H \ {} = H /\ \A x \in Batch : LineTotal(H, x) \in Nat /\ p[x] \in Int
  BY LineTotalType
<1>2. \A x : Extra(c, x) = 0
  BY DEF Extra, Loose
<1>3. c.pc \notin Asking /\ c.pc # "reconcile" /\ ~(Reconciling(c) /\ c.pc = "reserve")
  BY DEF Loose, Asking, Reconciling, Reserving
<1> QED BY <1>1, <1>2, <1>3 DEF Bounded

LEMMA FreshIsLoose == \A c : Fresh(c) => Loose(c)
  BY DEF Fresh, Loose, Starts, Reserving

LEMMA IdleIsLoose == Loose(Idle) /\ Spared(Idle) = {}
  BY DEF Loose, Spared, Given, Reserving, Idle

\* A step of the request that changes no line and no status of a bill.
LEMMA RequestBounds ==
  ASSUME NEW c, NEW p, Now' = c, pending' = p, UNCHANGED <<stock, items, status, worker>>,
         Bounded(c, p, stock, HoldingItems, Spared(c))
  PROVE  Bounds(Now)'
<1>1. HoldingItems' = HoldingItems
  BY DEF HoldingItems, GivingBack
<1>2. Spared(c)' = Spared(c)
  BY DEF Spared, LineRow, ItemsOf
<1>3. Bounds(c)'
  BY <1>1, <1>2 DEF Bounds
<1> QED BY <1>3

-----------------------------------------------------------------------------
(* The steps of the request keep its bounds                                 *)

\* What is reserved never exceeds what all the lines that may hold stock ask for, but
\* for the line that is about to be written.
LEMMA ReservedForLines ==
  ASSUME SerialInv, Bounds(Now), Now.pc # "write", NEW x \in Batch
  PROVE  pending[x] <= LineTotal(HoldingItems, x)
<1>1. pending[x] <= LineTotal(HoldingItems \ Spared(Now), x) + 0
  BY DEF Bounds, Bounded, Extra
<1>2. /\ LineTotal(HoldingItems \ Spared(Now), x) <= LineTotal(HoldingItems, x)
      /\ LineTotal(HoldingItems \ Spared(Now), x) \in Nat /\ pending[x] \in Int
  BY HoldingLines
<1>3. HoldingItems \ {} = HoldingItems /\ LineTotal(HoldingItems \ {}, x) \in Nat
  BY HoldingLines
<1> QED BY <1>1, <1>2, <1>3

LEMMA LooseNext ==
  ASSUME SerialInv, Bounds(Now), Now.pc # "write", NEW c, Now' = c, Loose(c),
         UNCHANGED <<rows, items, status, worker>>
  PROVE  Bounds(Now)'
<1>1. \A x \in Batch : pending[x] <= LineTotal(HoldingItems, x)
  BY ReservedForLines
<1>2. Bounded(c, pending, stock, HoldingItems, {}) /\ Spared(c) = {}
  BY <1>1, HoldingLines, LooseBounds DEF Loose
<1>3. UNCHANGED <<pending, stock, items, status, worker>>
  BY DEF rows
<1>4. PICK p : p = pending
  OBVIOUS
<1> QED BY <1>2, <1>3, <1>4, RequestBounds

LEMMA LooseSteps ==
  ASSUME OneRequest, SerialInv, Bounds(Now), NEW r \in Request,
         LoadLine(r) \/ ReadOpenLines(r) \/ ReconcileEnds(r) \/ Enqueue(r)
  PROVE  Bounds(Now)'
<1>1. IInv /\ Now \in Call /\ CallOK(Now) /\ BillOK(Now)
  BY NowFits
<1>2. CASE Now' = Idle /\ Now.pc # "write" /\ UNCHANGED <<rows, items, status, worker>>
  BY <1>2, IdleIsLoose, LooseNext
<1>3. CASE LoadLine(r)
  <2>1. Now.pc = "load" /\ UNCHANGED <<rows, items, status, worker>>
    BY <1>1, <1>3, LoadLineNow
  <2>2. ASSUME NEW i, Now' = [Now EXCEPT !.old = i.qty, !.pc = "release"]
        PROVE  Bounds(Now)'
    <3>1. PICK c : c = [Now EXCEPT !.old = i.qty, !.pc = "release"]
      OBVIOUS
    <3>2. c.pc = "release"
      BY <1>1, <3>1 DEF Call
    <3>3. Loose(c)
      BY <3>2 DEF Loose, Spared, Given, Reserving
    <3> QED BY <2>1, <2>2, <3>1, <3>3, LooseNext
  <2> QED BY <1>1, <1>2, <1>3, <2>1, <2>2, LoadLineNow
<1>4. CASE ReadOpenLines(r)
  <2>1. Now.pc = "readLines" /\ UNCHANGED <<rows, items, status, worker>>
    BY <1>1, <1>4, ReadOpenLinesNow
  <2>2. PICK c : c = [Now EXCEPT !.todo = OpenItems(Now.batch), !.pc = "readPending"]
    OBVIOUS
  <2>3. c.pc = "readPending" /\ Now' = c
    BY <1>1, <1>4, <2>2, ReadOpenLinesNow DEF Call
  <2>4. Loose(c)
    BY <2>3 DEF Loose, Spared, Given, Reserving
  <2> QED BY <2>1, <2>3, <2>4, LooseNext
<1>5. CASE ReconcileEnds(r)
  <2>1. Now.pc = "reconcile" /\ UNCHANGED <<rows, items, status, worker>>
    BY <1>1, <1>5, OneCall DEF ReconcileEnds, Now
  <2>2. Now' = Idle
    BY <1>1, <1>5, FinishNow DEF ReconcileEnds
  <2> QED BY <1>2, <2>1, <2>2
<1>6. CASE Enqueue(r)
  BY <1>1, <1>2, <1>6, EnqueueNow
<1> QED BY <1>3, <1>4, <1>5, <1>6

\* A line gives up at most what it had: never below what the other lines ask for.
LEMMA ReleaseBounds ==
  ASSUME SerialInv, NEW i \in Item, ReleaseRow(i.batch, i.qty), NEW S,
         \A x \in Batch : pending[x] <= LineTotal(HoldingItems \ S, x)
  PROVE  \A x \in Batch : pending'[x] <= LineTotal(HoldingItems \ (S \union {i}), x)
<1> TAKE x \in Batch
<1>1. /\ HoldingItems \ S \in SUBSET Item /\ IsFiniteSet(HoldingItems \ S)
      /\ {i} \in SUBSET Item /\ IsFiniteSet({i})
      /\ HoldingItems \ (S \union {i}) = (HoldingItems \ S) \ {i}
  BY HoldingLines, FS_Subset, FS_Singleton
<1>2. LineTotal(HoldingItems \ S, x) - LineTotal({i}, x) <= LineTotal(HoldingItems \ (S \union {i}), x)
  BY <1>1, LineTotalLoses
<1>3. LineTotal({i}, x) = IF i.batch = x THEN i.qty ELSE 0
  BY LineTotalOfOne
<1>4. LineTotal(HoldingItems \ S, x) \in Nat /\ LineTotal(HoldingItems \ (S \union {i}), x) \in Nat
  BY HoldingLines
<1>5. pending \in [Batch -> Int] /\ i.qty \in Nat /\ i.batch \in Batch
  BY HoldingLines DEF Item
<1>6. pending'[x] = IF i.batch = x THEN Clamp(pending[x] - i.qty) ELSE pending[x]
  BY <1>5 DEF ReleaseRow
<1>7. pending[x] <= LineTotal(HoldingItems \ S, x) /\ pending[x] \in Int
  BY <1>5
<1> QED BY <1>2, <1>3, <1>4, <1>5, <1>6, <1>7 DEF Clamp

LEMMA ReleaseLineBounds ==
  ASSUME OneRequest, SerialInv, Bounds(Now), NEW r \in Request, ReleaseLine(r)
  PROVE  Bounds(Now)'
<1>1. IInv /\ Now \in Call /\ CallOK(Now) /\ EditOK(Now)
  BY NowFits
<1>2. /\ Now.pc = "release" /\ ReleaseRow(Now.batch, Now.old)
      /\ UNCHANGED <<stock, items, status, worker>>
  BY <1>1, ReleaseLineNow
<1>3. Editing(Now) /\ Now.after = "write"
  BY <1>1, <1>2 DEF Editing, CallOK
<1>4. PICK i \in items : LineRow(Now) = {i} /\ i.batch = Now.batch /\ i.qty = Now.old
  BY <1>1, <1>2, <1>3 DEF EditOK
<1>5. PICK c : c = [Now EXCEPT !.ask = Now.new, !.pc = IF Now.op = "remove" THEN "write" ELSE "reserve"]
  OBVIOUS
<1>6. /\ c.pc = IF Now.op = "remove" THEN "write" ELSE "reserve"
      /\ c.line = Now.line /\ c.new = Now.new /\ c.after = "write" /\ Now' = c
  BY <1>1, <1>3, <1>5, ReleaseLineNow DEF Call
<1>7. Given(c) /\ Spared(c) = {i} /\ \A x \in Batch : Extra(c, x) = 0
  BY <1>1, <1>3, <1>4, <1>6 DEF Given, Editing, Reserving, Spared, LineRow, EditOK, Extra
<1>8. \A x \in Batch : pending[x] <= LineTotal(HoldingItems \ {}, x)
  <2>1. HoldingItems \ {} = HoldingItems
    OBVIOUS
  <2> QED BY <1>2, <2>1, ReservedForLines
<1>9. i \in Item /\ {} \union {i} = {i} /\ ReleaseRow(i.batch, i.qty)
  BY <1>1, <1>2, <1>4 DEF IInv, TypeOK
<1>10. \A x \in Batch : pending'[x] <= LineTotal(HoldingItems \ ({} \union {i}), x)
  BY <1>8, <1>9, ReleaseBounds
<1>11. PICK p : p = pending'
  OBVIOUS
<1>12. \A x \in Batch : p[x] <= LineTotal(HoldingItems \ {i}, x) + Extra(c, x)
  <2> TAKE x \in Batch
  <2>1. p[x] <= LineTotal(HoldingItems \ {i}, x) /\ LineTotal(HoldingItems \ {i}, x) \in Nat
    BY <1>9, <1>10, <1>11, HoldingLines
  <2>2. LineTotal(HoldingItems \ {i}, x) + Extra(c, x) = LineTotal(HoldingItems \ {i}, x)
    BY <1>7, <2>1
  <2> QED BY <2>1, <2>2
<1>13. Bounded(c, p, stock, HoldingItems, Spared(c))
  BY <1>6, <1>7, <1>12 DEF Bounded, Asking, Reconciling, Reserving
<1> QED BY <1>2, <1>6, <1>11, <1>13, RequestBounds

\* What the steps of a reservation rely on: either the request edits a line, or it tops
\* the lines up.
LEMMA ReservingNow ==
  ASSUME OneRequest, SerialInv, Bounds(Now), Now.pc \in Reserving
  PROVE  /\ Now \in Call /\ Now.batch \in Batch /\ Now.ask \in Nat /\ Now.new \in Nat /\ Now.left \in Nat
         /\ pending[Now.batch] \in Int /\ stock[Now.batch] \in Nat
         /\ \/ /\ Given(Now) /\ ~Reconciling(Now) /\ Now.after = "write"
               /\ Now.pc = "reserve" => Now.ask = Now.new
            \/ ~Given(Now) /\ Reconciling(Now) /\ Now.after = "reconcile" /\ Spared(Now) = {}
         /\ \A x \in Batch : pending[x] <= LineTotal(HoldingItems \ Spared(Now), x)
<1>1. Now \in Call /\ CallOK(Now) /\ EditOK(Now)
  BY NowFits
<1>2. Now.batch \in Batch /\ Now.after \in {"write", "reconcile"}
  BY <1>1 DEF CallOK, OnBatch, Reserving, Call
<1>3. ASSUME Now.after = "write"
      PROVE  /\ Given(Now) /\ ~Reconciling(Now)
             /\ Now.pc = "reserve" => Now.ask = Now.new
  BY <1>1, <1>3 DEF Given, Reconciling, Reserving, Editing, EditOK
<1>4. ASSUME Now.after = "reconcile"
      PROVE  ~Given(Now) /\ Reconciling(Now) /\ Spared(Now) = {}
  BY <1>4 DEF Given, Reconciling, Reserving, Editing, Spared
<1>5. ASSUME NEW x \in Batch
      PROVE  pending[x] <= LineTotal(HoldingItems \ Spared(Now), x)
  <2>1. pending[x] <= LineTotal(HoldingItems \ Spared(Now), x) + 0
    BY DEF Bounds, Bounded, Extra, Reserving
  <2>2. LineTotal(HoldingItems \ Spared(Now), x) \in Nat
    BY HoldingLines
  <2> QED BY <2>1, <2>2
<1>6. Now.ask \in Nat /\ Now.new \in Nat /\ Now.left \in Nat
  BY <1>1 DEF Call
<1>7. pending[Now.batch] \in Int /\ stock[Now.batch] \in Nat
  BY <1>2, HoldingLines
<1> QED BY <1>1, <1>2, <1>3, <1>4, <1>5, <1>6, <1>7

\* Reserving q of what the bound leaves: an edit may hold its new quantity, a top-up stays
\* within the lines it is through with.
LEMMA ReservedBounds ==
  ASSUME OneRequest, SerialInv, Bounds(Now), Now.pc \in Reserving, NEW q \in Nat,
         pending' = [pending EXCEPT ![Now.batch] = @ + q], UNCHANGED <<stock, items, status, worker>>,
         Now' = [Now EXCEPT !.pc = Now.after],
         Given(Now) => pending[Now.batch] + q <= LineTotal(HoldingItems \ Spared(Now), Now.batch) + Now.new,
         Reconciling(Now) => pending[Now.batch] + q <= LineTotal(HoldingItems \ Now.todo, Now.batch)
  PROVE  Bounds(Now)'
<1> DEFINE T == LineTotal(HoldingItems \ Now.todo, Now.batch)
<1>1. /\ Now \in Call /\ Now.batch \in Batch /\ Now.new \in Nat /\ Now.left \in Nat
      /\ pending[Now.batch] \in Int
      /\ \A x \in Batch : pending[x] <= LineTotal(HoldingItems \ Spared(Now), x)
      /\ pending \in [Batch -> Int]
  BY ReservingNow, HoldingLines
<1>2. PICK p : p = pending'
  OBVIOUS
<1>3. \A x \in Batch : p[x] = IF x = Now.batch THEN pending[x] + q ELSE pending[x]
  BY <1>1, <1>2
<1>4. PICK c : c = [Now EXCEPT !.pc = Now.after]
  OBVIOUS
<1>5. /\ c.pc = Now.after /\ c.line = Now.line /\ c.batch = Now.batch /\ c.new = Now.new /\ c.todo = Now.todo
      /\ c.left = Now.left /\ c.after = Now.after /\ Now' = c
  BY <1>1, <1>4 DEF Call
<1>6. \A S, x : LineTotal(HoldingItems \ S, x) \in Nat
  BY HoldingLines
<1>7. CASE Given(Now) /\ Now.after = "write" /\ ~Reconciling(Now)
  <2>1. Given(c) /\ Spared(c) = Spared(Now)
    BY <1>5, <1>7 DEF Given, Editing, Spared, LineRow
  <2>2. ASSUME NEW x \in Batch
        PROVE  p[x] <= LineTotal(HoldingItems \ Spared(c), x) + Extra(c, x)
    <3>1. CASE x = Now.batch
      <4>1. Extra(c, x) = Now.new
        BY <1>5, <1>7, <3>1 DEF Extra
      <4> QED BY <1>3, <1>7, <2>1, <3>1, <4>1
    <3>2. CASE x # Now.batch
      <4>1. Extra(c, x) = 0
        BY <1>5, <3>2 DEF Extra
      <4>2. p[x] <= LineTotal(HoldingItems \ Spared(c), x) /\ LineTotal(HoldingItems \ Spared(c), x) \in Nat
        BY <1>1, <1>3, <1>6, <2>1, <3>2
      <4>3. LineTotal(HoldingItems \ Spared(c), x) + 0 = LineTotal(HoldingItems \ Spared(c), x)
        BY <4>2
      <4> QED BY <4>1, <4>2, <4>3
    <3> QED BY <3>1, <3>2
  <2>3. c.pc = "write"
    BY <1>5, <1>7
  <2>4. Bounded(c, p, stock, HoldingItems, Spared(c))
    BY <2>2, <2>3 DEF Bounded, Asking
  <2> QED BY <1>2, <1>5, <2>4, RequestBounds
<1>8. CASE ~Given(Now) /\ Reconciling(Now) /\ Now.after = "reconcile" /\ Spared(Now) = {}
  <2>1. c.pc = "reconcile" /\ Spared(c) = {} /\ \A x : Extra(c, x) = 0
    BY <1>5, <1>8 DEF Given, Spared, Reserving, Extra
  <2>2. /\ p[Now.batch] <= T /\ T \in Nat /\ p[Now.batch] \in Int
        /\ T <= LineTotal(HoldingItems, Now.batch)
    <3>1. p[Now.batch] = pending[Now.batch] + q
      BY <1>1, <1>3
    <3>2. T \in Nat
      BY <1>6
    <3>3. T <= LineTotal(HoldingItems, Now.batch)
      BY HoldingLines
    <3> QED BY <1>1, <1>8, <3>1, <3>2, <3>3
  <2>3. p[c.batch] <= c.left + LineTotal(HoldingItems \ c.todo, c.batch)
    BY <1>1, <1>5, <2>2
  <2>4. ASSUME NEW x \in Batch
        PROVE  p[x] <= LineTotal(HoldingItems \ Spared(c), x) + Extra(c, x)
    <3>1. HoldingItems \ {} = HoldingItems /\ LineTotal(HoldingItems \ {}, x) \in Nat
      BY <1>6
    <3>2. p[x] <= LineTotal(HoldingItems, x)
      <4>1. CASE x = Now.batch
        BY <2>2, <3>1, <4>1
      <4>2. CASE x # Now.batch
        BY <1>1, <1>3, <1>8, <3>1, <4>2
      <4> QED BY <4>1, <4>2
    <3>3. LineTotal(HoldingItems, x) + 0 = LineTotal(HoldingItems, x)
      BY <3>1
    <3> QED BY <2>1, <3>1, <3>2, <3>3
  <2>5. Bounded(c, p, stock, HoldingItems, Spared(c))
    BY <2>1, <2>3, <2>4 DEF Bounded, Asking
  <2> QED BY <1>2, <1>5, <2>5, RequestBounds
<1> QED BY <1>7, <1>8, ReservingNow

\* The request goes on within its reservation, or gives it up, and nothing is reserved.
LEMMA UnreservedBounds ==
  ASSUME OneRequest, SerialInv, Bounds(Now), Now.pc \in Reserving, UNCHANGED <<rows, items, status, worker>>,
         NEW q \in Nat, NEW d \in {"readAvailable", "reserveAvailable", Now.after},
         Now' = [Now EXCEPT !.ask = q, !.pc = d],
         Given(Now) => stock[Now.batch] <= LineTotal(HoldingItems \ Spared(Now), Now.batch) + Now.new,
         Reconciling(Now) => /\ pending[Now.batch] <= LineTotal(HoldingItems \ Now.todo, Now.batch)
                             /\ stock[Now.batch] <= LineTotal(HoldingItems \ Now.todo, Now.batch)
  PROVE  Bounds(Now)'
<1>1. /\ Now \in Call /\ Now.batch \in Batch /\ Now.new \in Nat /\ Now.left \in Nat
      /\ pending[Now.batch] \in Int
      /\ \A x \in Batch : pending[x] <= LineTotal(HoldingItems \ Spared(Now), x)
      /\ pending \in [Batch -> Int]
  BY ReservingNow, HoldingLines
<1>2. PICK c : c = [Now EXCEPT !.ask = q, !.pc = d]
  OBVIOUS
<1>3. /\ c.pc = d /\ c.line = Now.line /\ c.batch = Now.batch /\ c.new = Now.new /\ c.todo = Now.todo
      /\ c.left = Now.left /\ c.after = Now.after /\ Now' = c
  BY <1>1, <1>2 DEF Call
<1>4. \A S, x : LineTotal(HoldingItems \ S, x) \in Nat
  BY HoldingLines
<1>5. \A x \in Batch : Extra(c, x) \in Nat
  BY <1>1, <1>3 DEF Extra
<1>6. Spared(c) = Spared(Now) /\ (Given(c) <=> Given(Now)) /\ (Reconciling(c) <=> Reconciling(Now))
  <2>1. CASE Now.after = "write" /\ Given(Now) /\ ~Reconciling(Now)
    BY <1>3, <2>1 DEF Given, Editing, Reserving, Spared, LineRow, Reconciling
  <2>2. CASE Now.after = "reconcile" /\ ~Given(Now) /\ Reconciling(Now) /\ Spared(Now) = {}
    BY <1>3, <2>2 DEF Given, Editing, Reserving, Spared, LineRow, Reconciling
  <2> QED BY <2>1, <2>2, ReservingNow
<1>7. ASSUME NEW x \in Batch
      PROVE  pending[x] <= LineTotal(HoldingItems \ Spared(c), x) + Extra(c, x)
  <2>1. /\ pending[x] <= LineTotal(HoldingItems \ Spared(c), x) /\ pending[x] \in Int
        /\ LineTotal(HoldingItems \ Spared(c), x) \in Nat /\ Extra(c, x) \in Nat
    BY <1>1, <1>4, <1>5, <1>6
  <2> QED BY <2>1
<1>8. Reconciling(Now) => pending[Now.batch] <= Now.left + LineTotal(HoldingItems \ Now.todo, Now.batch)
  <2>1. LineTotal(HoldingItems \ Now.todo, Now.batch) \in Nat
    BY <1>4
  <2> QED BY <1>1, <2>1
<1>9. d = "reconcile" => Reconciling(Now)
  BY ReservingNow
<1>10. d # "reserve"
  BY ReservingNow
<1>11. Bounded(c, pending, stock, HoldingItems, Spared(c))
  BY <1>3, <1>6, <1>7, <1>8, <1>9, <1>10 DEF Bounded, Asking
<1>12. PICK p : p = pending
  OBVIOUS
<1> QED BY <1>3, <1>11, <1>12, RequestBounds DEF rows

LEMMA ReserveLineBounds ==
  ASSUME OneRequest, SerialInv, Bounds(Now), NEW r \in Request, ReserveLine(r)
  PROVE  Bounds(Now)'
<1>1. IInv
  BY NowFits
<1>2. Now.pc = "reserve" /\ UNCHANGED <<stock, items, status, worker>>
  BY <1>1, ReserveLineNow
<1>3. Now.pc \in Reserving
  BY <1>2 DEF Reserving
<1>4. /\ Now \in Call /\ Now.batch \in Batch /\ Now.ask \in Nat /\ Now.new \in Nat
      /\ pending[Now.batch] \in Int /\ stock[Now.batch] \in Nat
      /\ Given(Now) => Now.ask = Now.new
      /\ \A x \in Batch : pending[x] <= LineTotal(HoldingItems \ Spared(Now), x)
  BY <1>2, <1>3, ReservingNow
<1>5. Given(Now) => pending[Now.batch] + Now.ask <= LineTotal(HoldingItems \ Spared(Now), Now.batch) + Now.new
  <2>1. LineTotal(HoldingItems \ Spared(Now), Now.batch) \in Nat
    BY HoldingLines
  <2>2. pending[Now.batch] <= LineTotal(HoldingItems \ Spared(Now), Now.batch)
    BY <1>4
  <2> QED BY <1>4, <2>1, <2>2
<1>6. Reconciling(Now) => pending[Now.batch] + Now.ask <= LineTotal(HoldingItems \ Now.todo, Now.batch)
  BY <1>2 DEF Bounds, Bounded
<1>7. CASE ReserveRow(Now.batch, Now.ask) /\ Now' = [Now EXCEPT !.pc = Now.after]
  BY <1>2, <1>3, <1>4, <1>5, <1>6, <1>7, ReservedBounds DEF ReserveRow
<1>8. CASE /\ ~CanReserve(Now.batch, Now.ask) /\ UNCHANGED pending
           /\ Now' = [Now EXCEPT !.pc = "readAvailable"]
  <2>1. stock[Now.batch] < pending[Now.batch] + Now.ask
    BY <1>4, <1>8 DEF CanReserve
  <2>2. Now' = [Now EXCEPT !.ask = Now.ask, !.pc = "readAvailable"]
    BY <1>4, <1>8 DEF Call
  <2>3. /\ LineTotal(HoldingItems \ Spared(Now), Now.batch) \in Nat
        /\ LineTotal(HoldingItems \ Now.todo, Now.batch) \in Nat
    BY HoldingLines
  <2>4. Given(Now) => stock[Now.batch] <= LineTotal(HoldingItems \ Spared(Now), Now.batch) + Now.new
    BY <1>4, <1>5, <2>1, <2>3
  <2>5. Reconciling(Now) => /\ pending[Now.batch] <= LineTotal(HoldingItems \ Now.todo, Now.batch)
                            /\ stock[Now.batch] <= LineTotal(HoldingItems \ Now.todo, Now.batch)
    BY <1>4, <1>6, <2>1, <2>3
  <2> QED BY <1>2, <1>3, <1>4, <1>8, <2>2, <2>4, <2>5, UnreservedBounds DEF rows
<1> QED BY <1>1, <1>7, <1>8, ReserveLineNow

\* The bounds of a request that was refused.
LEMMA RefusedNow ==
  ASSUME OneRequest, SerialInv, Bounds(Now), Now.pc \in Asking
  PROVE  /\ Now.pc \in Reserving
         /\ Given(Now) => stock[Now.batch] <= LineTotal(HoldingItems \ Spared(Now), Now.batch) + Now.new
         /\ Reconciling(Now) => /\ pending[Now.batch] <= LineTotal(HoldingItems \ Now.todo, Now.batch)
                                /\ stock[Now.batch] <= LineTotal(HoldingItems \ Now.todo, Now.batch)
  BY DEF Bounds, Bounded, Asking, Reserving

LEMMA ReadAvailableBounds ==
  ASSUME OneRequest, SerialInv, Bounds(Now), NEW r \in Request, ReadAvailable(r)
  PROVE  Bounds(Now)'
<1>1. IInv
  BY NowFits
<1>2. Now.pc \in Asking /\ UNCHANGED <<rows, items, status, worker>>
  BY <1>1, ReadAvailableNow DEF Asking
<1>3. Pool(Now.batch) \in Nat
  BY <1>2, RefusedNow, ReservingNow DEF Pool, Clamp
<1>4. PICK q, d : /\ q = Pool(Now.batch) /\ d = (IF Pool(Now.batch) = 0 THEN Now.after ELSE "reserveAvailable")
  OBVIOUS
<1>5. Now' = [Now EXCEPT !.ask = q, !.pc = d] /\ d \in {"readAvailable", "reserveAvailable", Now.after} /\ q \in Nat
  BY <1>1, <1>3, <1>4, ReadAvailableNow
<1> QED BY <1>2, <1>5, RefusedNow, UnreservedBounds

LEMMA ReserveAvailableBounds ==
  ASSUME OneRequest, SerialInv, Bounds(Now), NEW r \in Request, ReserveAvailable(r)
  PROVE  Bounds(Now)'
<1>1. IInv
  BY NowFits
<1>2. Now.pc \in Asking /\ Now.pc # "write" /\ UNCHANGED <<stock, items, status, worker>>
  BY <1>1, ReserveAvailableNow DEF Asking
<1>3. CASE ReserveRow(Now.batch, Now.ask) /\ Now' = [Now EXCEPT !.pc = Now.after]
  <2>1. /\ Now.batch \in Batch /\ Now.ask \in Nat /\ Now.new \in Nat /\ Now.pc \in Reserving
        /\ pending[Now.batch] \in Int /\ stock[Now.batch] \in Nat
    BY <1>2, RefusedNow, ReservingNow
  <2>2. /\ pending[Now.batch] + Now.ask <= stock[Now.batch]
        /\ pending' = [pending EXCEPT ![Now.batch] = @ + Now.ask]
    BY <1>3, <2>1 DEF ReserveRow, CanReserve
  <2>3. /\ LineTotal(HoldingItems \ Spared(Now), Now.batch) \in Nat
        /\ LineTotal(HoldingItems \ Now.todo, Now.batch) \in Nat
    BY HoldingLines
  <2>4. Given(Now) => pending[Now.batch] + Now.ask <= LineTotal(HoldingItems \ Spared(Now), Now.batch) + Now.new
    BY <1>2, <2>1, <2>2, <2>3, RefusedNow
  <2>5. Reconciling(Now) => pending[Now.batch] + Now.ask <= LineTotal(HoldingItems \ Now.todo, Now.batch)
    BY <1>2, <2>1, <2>2, <2>3, RefusedNow
  <2> QED BY <1>2, <1>3, <2>1, <2>2, <2>4, <2>5, ReservedBounds
<1>4. CASE UNCHANGED pending /\ Now' = Idle
  BY <1>2, <1>4, IdleIsLoose, LooseNext DEF rows
<1> QED BY <1>1, <1>3, <1>4, ReserveAvailableNow

LEMMA ReadPendingBounds ==
  ASSUME OneRequest, SerialInv, Bounds(Now), NEW r \in Request, ReadPending(r)
  PROVE  Bounds(Now)'
<1>1. IInv /\ Now \in Call /\ CallOK(Now)
  BY NowFits
<1>2. Now.pc = "readPending" /\ UNCHANGED <<rows, items, status, worker>>
  BY <1>1, ReadPendingNow
<1>3. Now.batch \in Batch /\ pending[Now.batch] \in Int
  BY <1>1, <1>2, HoldingLines DEF CallOK, OnBatch
<1>4. PICK c : c = [Now EXCEPT !.left = Clamp(pending[Now.batch]), !.pc = "reconcile"]
  OBVIOUS
<1>5. /\ c.pc = "reconcile" /\ c.left = Clamp(pending[Now.batch]) /\ c.batch = Now.batch
      /\ c.todo = Now.todo /\ Now' = c
  BY <1>1, <1>4, ReadPendingNow DEF Call
<1>6. Spared(c) = {} /\ \A x : Extra(c, x) = 0
  BY <1>5 DEF Spared, Given, Reserving, Extra
<1>7. pending[c.batch] <= c.left + LineTotal(HoldingItems \ c.todo, c.batch)
  <2>1. LineTotal(HoldingItems \ c.todo, c.batch) \in Nat
    BY HoldingLines
  <2> QED BY <1>3, <1>5, <2>1 DEF Clamp
<1>8. ASSUME NEW x \in Batch
      PROVE  pending[x] <= LineTotal(HoldingItems \ Spared(c), x) + Extra(c, x)
  <2>1. HoldingItems \ {} = HoldingItems /\ LineTotal(HoldingItems \ {}, x) \in Nat
    BY HoldingLines
  <2>2. pending[x] <= LineTotal(HoldingItems, x)
    BY <1>2, ReservedForLines
  <2>3. LineTotal(HoldingItems, x) + 0 = LineTotal(HoldingItems, x)
    BY <2>1
  <2> QED BY <1>6, <2>1, <2>2, <2>3
<1>9. Bounded(c, pending, stock, HoldingItems, Spared(c))
  BY <1>5, <1>7, <1>8 DEF Bounded, Asking, Given, Reserving
<1>10. PICK p : p = pending
  OBVIOUS
<1> QED BY <1>2, <1>5, <1>9, <1>10, RequestBounds DEF rows

LEMMA ReconcileLineBounds ==
  ASSUME OneRequest, SerialInv, Bounds(Now), NEW r \in Request, ReconcileLine(r)
  PROVE  Bounds(Now)'
<1>1. IInv /\ Now \in Call /\ CallOK(Now) /\ BillOK(Now)
  BY NowFits
<1>2. Now.pc = "reconcile" /\ UNCHANGED <<rows, items, status, worker>>
  BY <1>1, ReconcileLineNow
<1>3. PICK i, have :
        /\ i \in Now.todo /\ have = Allocated(i, Now.left)
        /\ Now' = [Now EXCEPT !.todo = @ \ {i}, !.left = @ - have, !.ask = i.qty - have,
                              !.after = "reconcile", !.pc = IF i.qty > have THEN "reserve" ELSE "reconcile"]
  BY <1>1, ReconcileLineNow
<1>4. PICK c : c = [Now EXCEPT !.todo = @ \ {i}, !.left = @ - have, !.ask = i.qty - have,
                           !.after = "reconcile", !.pc = IF i.qty > have THEN "reserve" ELSE "reconcile"]
  OBVIOUS
<1>5. /\ c.pc = IF i.qty > have THEN "reserve" ELSE "reconcile"
      /\ c.after = "reconcile" /\ c.todo = Now.todo \ {i} /\ c.batch = Now.batch
      /\ c.left = Now.left - have /\ c.ask = i.qty - have /\ Now' = c
  BY <1>1, <1>3, <1>4 DEF Call
<1>6. /\ Now.batch \in Batch /\ pending[Now.batch] \in Int /\ Now.left \in Nat
      /\ i \in HoldingItems /\ i \in Item /\ i.qty \in Nat /\ i.batch = Now.batch
  <2>1. i \in OpenItems(Now.batch)
    BY <1>1, <1>2, <1>3 DEF BillOK, Reconciling
  <2>2. i \in HoldingItems /\ i.batch = Now.batch
    BY <2>1 DEF OpenItems, HoldingItems
  <2> QED BY <1>1, <1>2, <2>2, HoldingLines DEF CallOK, OnBatch, Call, Item
<1>7. pending[Now.batch] <= Now.left + LineTotal(HoldingItems \ Now.todo, Now.batch)
  BY <1>2 DEF Bounds, Bounded
<1>8. LineTotal(HoldingItems \ c.todo, Now.batch) = LineTotal(HoldingItems \ Now.todo, Now.batch) + i.qty
  <2>1. /\ HoldingItems \ Now.todo \in SUBSET Item /\ IsFiniteSet(HoldingItems \ Now.todo)
        /\ i \notin HoldingItems \ Now.todo
        /\ HoldingItems \ c.todo = (HoldingItems \ Now.todo) \union {i}
    BY <1>3, <1>5, <1>6, HoldingLines, FS_Subset
  <2> QED BY <1>6, <2>1, LineTotalWith
<1>9. /\ LineTotal(HoldingItems \ Now.todo, Now.batch) \in Nat
      /\ LineTotal(HoldingItems \ c.todo, Now.batch) \in Nat
  BY HoldingLines
<1>10. \/ i.qty > have /\ have = Now.left
       \/ ~(i.qty > have) /\ have = i.qty
  BY <1>3, <1>6 DEF Allocated, Least
<1>11. c.pc = "reconcile" => pending[c.batch] <= c.left + LineTotal(HoldingItems \ c.todo, c.batch)
  BY <1>5, <1>6, <1>7, <1>8, <1>9, <1>10
<1>12. c.pc = "reserve" => pending[c.batch] + c.ask <= LineTotal(HoldingItems \ c.todo, c.batch)
  BY <1>5, <1>6, <1>7, <1>8, <1>9, <1>10
<1>13. c.pc \in {"reserve", "reconcile"} /\ ~Given(c)
  BY <1>5 DEF Given, Editing, Reserving
<1>14. Spared(c) = {} /\ \A x : Extra(c, x) = 0
  BY <1>13 DEF Spared, Extra
<1>15. ASSUME NEW x \in Batch
       PROVE  pending[x] <= LineTotal(HoldingItems \ Spared(c), x) + Extra(c, x)
  <2>1. HoldingItems \ {} = HoldingItems /\ LineTotal(HoldingItems \ {}, x) \in Nat
    BY HoldingLines
  <2>2. pending[x] <= LineTotal(HoldingItems, x)
    BY <1>2, ReservedForLines
  <2>3. LineTotal(HoldingItems, x) + 0 = LineTotal(HoldingItems, x)
    BY <2>1
  <2> QED BY <1>14, <2>1, <2>2, <2>3
<1>16. Bounded(c, pending, stock, HoldingItems, Spared(c))
  BY <1>11, <1>12, <1>13, <1>15 DEF Bounded, Asking
<1>17. PICK p : p = pending
  OBVIOUS
<1> QED BY <1>2, <1>5, <1>16, <1>17, RequestBounds DEF rows

LEMMA ReleaseAllBounds ==
  ASSUME OneRequest, SerialInv, Bounds(Now), NEW r \in Request, ReleaseAllForBill(r)
  PROVE  Bounds(Now)'
<1>1. IInv /\ Now \in Call /\ BillOK(Now) /\ Now.todo \in SUBSET Item
  BY NowFits
<1>2. Now.pc = "releaseAll" /\ UNCHANGED <<stock, items, status, worker>>
  BY <1>1, ReleaseAllNow
<1>3. PICK i \in Now.todo :
        /\ ReleaseRow(i.batch, i.qty)
        /\ Now' = [Now EXCEPT !.todo = @ \ {i}, !.pc = IF Now.todo = {i} THEN "setStatus" ELSE @]
  BY <1>1, ReleaseAllNow
<1>4. PICK c : c = [Now EXCEPT !.todo = @ \ {i}, !.pc = IF Now.todo = {i} THEN "setStatus" ELSE @]
  OBVIOUS
<1>5. /\ c.pc = IF Now.todo = {i} THEN "setStatus" ELSE "releaseAll"
      /\ c.todo = Now.todo \ {i} /\ c.bill = Now.bill /\ c.op = Now.op /\ Now' = c
  BY <1>1, <1>2, <1>3, <1>4 DEF Call
<1>6. Cancelling(Now) /\ Cancelling(c) /\ i \in ItemsOf(Now.bill) /\ i \in Item
  BY <1>1, <1>2, <1>5 DEF BillOK, Cancelling
<1>7. /\ Spared(Now) = ItemsOf(Now.bill) \ Now.todo
      /\ Spared(c) = ItemsOf(Now.bill) \ c.todo
  BY <1>2, <1>5, <1>6 DEF Spared, Given, Reserving
<1>8. Spared(c) = Spared(Now) \union {i}
  BY <1>5, <1>6, <1>7
<1>9. \A x \in Batch : pending[x] <= LineTotal(HoldingItems \ Spared(Now), x)
  <2> TAKE x \in Batch
  <2>1. pending[x] <= LineTotal(HoldingItems \ Spared(Now), x) + 0
    BY <1>2 DEF Bounds, Bounded, Extra
  <2>2. LineTotal(HoldingItems \ Spared(Now), x) \in Nat
    BY HoldingLines
  <2> QED BY <2>1, <2>2
<1>10. PICK p : p = pending'
  OBVIOUS
<1>11. \A x \in Batch : p[x] <= LineTotal(HoldingItems \ Spared(c), x)
  BY <1>3, <1>6, <1>8, <1>9, <1>10, ReleaseBounds
<1>12. \A x \in Batch : p[x] <= LineTotal(HoldingItems \ Spared(c), x) + Extra(c, x)
  <2> TAKE x \in Batch
  <2>1. Extra(c, x) = 0 /\ LineTotal(HoldingItems \ Spared(c), x) \in Nat
    BY <1>5, HoldingLines DEF Extra
  <2>2. LineTotal(HoldingItems \ Spared(c), x) + 0 = LineTotal(HoldingItems \ Spared(c), x)
    BY <2>1
  <2> QED BY <1>11, <2>1, <2>2
<1>13. Bounded(c, p, stock, HoldingItems, Spared(c))
  BY <1>5, <1>12 DEF Bounded, Asking
<1> QED BY <1>2, <1>5, <1>10, <1>13, RequestBounds

\* The status of a bill changes: either it holds its lines as before, or all of them have
\* been given back.
LEMMA SetStatusBounds ==
  ASSUME OneRequest, SerialInv, Bounds(Now), NEW r \in Request, SetStatus(r)
  PROVE  Bounds(Now)'
<1>1. IInv /\ Now \in Call /\ CallOK(Now) /\ BillOK(Now)
  BY NowFits
<1>2. /\ Now.pc = "setStatus" /\ UNCHANGED <<rows, items, worker>>
      /\ status' = [status EXCEPT ![Now.bill] = Target(Now.op)]
      /\ Now.bill \in Bill /\ status \in [Bill -> Status]
  BY <1>1, SetStatusNow DEF CallOK, IInv, TypeOK
<1>3. PICK c : Now' = c /\ Loose(c) /\ Spared(c)' = {}
  <2>1. CASE Now' = Idle
    BY <2>1, IdleIsLoose DEF Spared, Given, Reserving, Idle
  <2>2. CASE Now' = [Now EXCEPT !.pc = "enqueue"]
    <3>1. PICK c : c = [Now EXCEPT !.pc = "enqueue"]
      OBVIOUS
    <3>2. c.pc = "enqueue"
      BY <1>1, <3>1 DEF Call
    <3>3. Loose(c) /\ Spared(c)' = {}
      BY <3>2 DEF Loose, Spared, Given, Reserving
    <3> QED BY <2>2, <3>1, <3>3
  <2> QED BY <1>1, <2>1, <2>2, SetStatusNow
<1>4. HoldingItems \ Spared(Now) \subseteq HoldingItems'
  <2>1. CASE Cancelling(Now)
    <3>1. Spared(Now) = ItemsOf(Now.bill)
      BY <1>1, <1>2, <2>1 DEF Spared, Given, Reserving, BillOK
    <3>2. \A b \in Bill : b # Now.bill => status'[b] = status[b]
      BY <1>2
    <3> QED BY <1>2, <3>1, <3>2 DEF HoldingItems, ItemsOf, GivingBack, IInv, TypeOK, Item
  <2>2. CASE ~Cancelling(Now)
    <3>1. Target(Now.op) \in EDITABLE \union {"PENDING_COMMIT"}
      BY <2>2 DEF Cancelling, Target, EDITABLE
    <3>2. \A b \in Bill : status[b] \in EDITABLE \union {"PENDING_COMMIT", "COMMITTING"}
                            => status'[b] \in EDITABLE \union {"PENDING_COMMIT", "COMMITTING"}
      BY <1>2, <3>1
    <3>3. HoldingItems \subseteq HoldingItems'
      BY <1>1, <1>2, <3>2 DEF HoldingItems, GivingBack, IInv, TypeOK, Item
    <3> QED BY <3>3
  <2> QED BY <2>1, <2>2
<1>5. PICK K : K = HoldingItems'
  OBVIOUS
<1>6. K \in SUBSET Item /\ IsFiniteSet(K)
  <2>1. IsFiniteSet(items) /\ HoldingItems' \subseteq items /\ items \subseteq Item
    BY <1>2, NowFits DEF HoldingItems
  <2> QED BY <1>5, <2>1, FS_Subset
<1>7. ASSUME NEW x \in Batch
      PROVE  pending[x] <= LineTotal(K, x)
  <2>1. pending[x] <= LineTotal(HoldingItems \ Spared(Now), x) + 0
    BY <1>2 DEF Bounds, Bounded, Extra
  <2>2. HoldingItems \ Spared(Now) \in SUBSET K
    BY <1>4, <1>5
  <2>3. LineTotal(HoldingItems \ Spared(Now), x) <= LineTotal(K, x)
    BY <1>6, <2>2, LineTotalGrows
  <2>4. LineTotal(HoldingItems \ Spared(Now), x) \in Nat /\ LineTotal(K, x) \in Nat /\ pending[x] \in Int
    BY <1>6, HoldingLines, LineTotalType
  <2> QED BY <2>1, <2>3, <2>4
<1>8. Bounded(c, pending, stock, K, {})
  BY <1>3, <1>6, <1>7, HoldingLines, LooseBounds
<1>9. Bounds(c)'
  BY <1>2, <1>3, <1>5, <1>8 DEF Bounds, rows
<1> QED BY <1>3, <1>9

\* The line is written: what the request holds for it is now held by the line.
LEMMA WriteLineBounds ==
  ASSUME OneRequest, SerialInv, Bounds(Now), NEW r \in Request, WriteLine(r)
  PROVE  Bounds(Now)'
<1>1. IInv /\ LinesOK /\ Now \in Call /\ CallOK(Now) /\ EditOK(Now)
  BY NowFits DEF SerialInv, SerialOK
<1>2. PICK w : w = [id |-> Now.line, bill |-> Now.bill, batch |-> Now.batch, qty |-> Now.new]
  OBVIOUS
<1>3. Now.pc = "write" /\ UNCHANGED <<rows, status, worker>>
  BY <1>1, <1>2, WriteLineNow
<1>4. /\ Editing(Now) /\ Given(Now) /\ status[Now.bill] \in EDITABLE /\ Spared(Now) = LineRow(Now)
      /\ Now.op # "add" => LineRow(Now) # {}
      /\ Now.op = "remove" => Now.new = 0
      /\ Now.op # "remove" => Now.new \in Nat \ {0}
      /\ Now.bill \in Bill /\ Now.line \in Line /\ Now.batch \in Batch
  BY <1>1, <1>3 DEF EditOK, Editing, Given, Spared, CallOK, OnBatch
<1>5. /\ items' = (items \ LineRow(Now)) \union (IF Now.op = "remove" THEN {} ELSE {w})
      /\ Now' = [Idle EXCEPT !.op = Now.op, !.pc = "readLines", !.bill = Now.bill, !.batch = Now.batch]
  BY <1>1, <1>2, <1>4, WriteLineNow
<1>6. PICK c : c = [Idle EXCEPT !.op = Now.op, !.pc = "readLines", !.bill = Now.bill, !.batch = Now.batch]
  OBVIOUS
<1>7. c.pc = "readLines" /\ Now' = c
  BY <1>5, <1>6 DEF Idle
<1>8. Loose(c) /\ Spared(c)' = {}
  BY <1>7 DEF Loose, Spared, Given, Reserving
<1>9. PICK K : K = HoldingItems'
  OBVIOUS
<1>10. HoldingItems \ LineRow(Now) \in SUBSET Item /\ IsFiniteSet(HoldingItems \ LineRow(Now))
  BY HoldingLines, FS_Subset
<1>11. K = (HoldingItems \ LineRow(Now)) \union (IF Now.op = "remove" THEN {} ELSE {w})
  <2>1. w.bill = Now.bill
    BY <1>2
  <2> QED BY <1>3, <1>4, <1>5, <1>9, <2>1 DEF HoldingItems, GivingBack
<1>12. ASSUME NEW x \in Batch
       PROVE  pending[x] <= LineTotal(K, x)
  <2>1. pending[x] <= LineTotal(HoldingItems \ LineRow(Now), x) + (IF Now.batch = x THEN Now.new ELSE 0)
    BY <1>3, <1>4 DEF Bounds, Bounded, Extra
  <2>2. LineTotal(HoldingItems \ LineRow(Now), x) \in Nat /\ pending[x] \in Int
    BY HoldingLines
  <2>3. CASE Now.op = "remove"
    <3>1. K = HoldingItems \ LineRow(Now)
      BY <1>11, <2>3
    <3> QED BY <1>4, <2>1, <2>2, <2>3, <3>1
  <2>4. CASE Now.op # "remove"
    <3>1. w \in Item /\ w.batch = Now.batch /\ w.qty = Now.new /\ w.id = Now.line
      BY <1>2, <1>4, <2>4 DEF Item
    <3>2. w \notin HoldingItems \ LineRow(Now)
      BY <3>1 DEF LineRow, HoldingItems
    <3>3. K = (HoldingItems \ LineRow(Now)) \union {w}
      BY <1>11, <2>4
    <3>4. LineTotal(K, x) = LineTotal(HoldingItems \ LineRow(Now), x) + (IF Now.batch = x THEN Now.new ELSE 0)
      BY <1>10, <3>1, <3>2, <3>3, LineTotalWith
    <3> QED BY <2>1, <3>4
  <2> QED BY <2>3, <2>4
<1>13. K \in SUBSET Item /\ IsFiniteSet(K)
  <2>1. w \in Item \/ Now.op = "remove"
    BY <1>2, <1>4 DEF Item
  <2>2. IsFiniteSet({w}) /\ IsFiniteSet((HoldingItems \ LineRow(Now)) \union {w})
    BY <1>10, FS_Singleton, FS_Union
  <2>3. CASE Now.op = "remove"
    BY <1>10, <1>11, <2>3
  <2>4. CASE Now.op # "remove"
    BY <1>10, <1>11, <2>1, <2>2, <2>4
  <2> QED BY <2>3, <2>4
<1>14. Bounded(c, pending, stock, K, {})
  BY <1>8, <1>12, <1>13, HoldingLines, LooseBounds
<1>15. Bounds(c)'
  BY <1>3, <1>8, <1>9, <1>14 DEF Bounds, rows
<1> QED BY <1>7, <1>15

LEMMA StartBounds ==
  ASSUME OneRequest, SerialInv, Bounds(Now), NEW r \in Request, StartRequest(r)
  PROVE  Bounds(Now)'
<1>1. PICK op, c : Begin(r, op, c) /\ Fresh(c)
  BY StartedCallFits DEF Fits
<1>2. Now' = c /\ Now.pc = "idle" /\ UNCHANGED <<rows, items, status, worker>>
  BY <1>1, BeginIsNow DEF SerialInv
<1> QED BY <1>1, <1>2, FreshIsLoose, LooseNext

LEMMA ContinueBounds ==
  ASSUME OneRequest, SerialInv, Bounds(Now), NEW r \in Request, ContinueRequest(r)
  PROVE  Bounds(Now)'
  BY LooseSteps, ReleaseLineBounds, ReserveLineBounds, ReadAvailableBounds, ReserveAvailableBounds,
     ReadPendingBounds, ReconcileLineBounds, ReleaseAllBounds, SetStatusBounds, WriteLineBounds
  DEF ContinueRequest

-----------------------------------------------------------------------------
(* The steps of the others keep the bounds of the request                   *)

LEMMA OthersBounds ==
  ASSUME OneRequest, SerialInv, IInv', Bounds(Now), UNCHANGED <<req, items>>,
         NEW I \in SUBSET Item, IsFiniteSet(I), HoldingItems \ I \subseteq HoldingItems',
         \A x \in Batch : /\ pending'[x] <= pending[x] - LineTotal(I, x)
                          /\ stock'[x] <= stock[x] - LineTotal(I, x)
  PROVE  Bounds(Now)'
<1>1. PICK H, K, p, q, s, t, S, c :
        /\ H = HoldingItems /\ K = HoldingItems' /\ p = pending /\ q = pending' /\ s = stock /\ t = stock'
        /\ S = Spared(Now) /\ c = Now
  OBVIOUS
<1>2. H \in SUBSET Item /\ IsFiniteSet(H) /\ K \in SUBSET Item /\ IsFiniteSet(K)
  <2>1. IsFiniteSet(items) /\ HoldingItems' \subseteq items /\ items \subseteq Item
    BY NowFits DEF HoldingItems
  <2> QED BY <1>1, <2>1, HoldingLines, FS_Subset
<1>3. p \in [Batch -> Int] /\ q \in [Batch -> Int]
  BY <1>1, HoldingLines DEF IInv, TypeOK
<1>4. s \in [Batch -> Int] /\ t \in [Batch -> Int]
  <2>1. s \in [Batch -> Nat] /\ t \in [Batch -> Nat]
    BY <1>1, HoldingLines DEF IInv, TypeOK
  <2> QED BY <2>1
<1>5. c \in Call /\ CallOK(c) /\ Bounded(c, p, s, H, S)
  BY <1>1, NowFits DEF Bounds
<1>6. \A x \in Batch : q[x] <= p[x] - LineTotal(I, x) /\ t[x] <= s[x] - LineTotal(I, x)
  BY <1>1
<1>7. H \ I \subseteq K
  BY <1>1
<1>8. Bounded(c, q, t, K, S)
  <2>1. Shrinks(p, q, s, t, H, K, I)
    BY <1>2, <1>3, <1>4, <1>6, <1>7 DEF Shrinks
  <2> QED BY <1>5, <2>1, BoundsShrink
<1>9. Spared(c)' = S /\ Now' = c
  BY <1>1 DEF Now, Spared, LineRow, ItemsOf
<1>10. Bounds(c)'
  BY <1>1, <1>8, <1>9 DEF Bounds
<1> QED BY <1>9, <1>10

LEMMA GrowingBounds ==
  ASSUME OneRequest, SerialInv, IInv', Bounds(Now), UNCHANGED <<req, items, stock>>,
         HoldingItems \subseteq HoldingItems', \A x \in Batch : pending'[x] <= pending[x]
  PROVE  Bounds(Now)'
<1>1. {} \in SUBSET Item /\ IsFiniteSet({}) /\ HoldingItems \ {} \subseteq HoldingItems'
  BY FS_EmptySet
<1>2. \A x \in Batch : /\ pending'[x] <= pending[x] - LineTotal({}, x)
                       /\ stock'[x] <= stock[x] - LineTotal({}, x)
  <2> TAKE x \in Batch
  <2>1. pending[x] \in Int /\ stock[x] \in Int /\ pending'[x] <= pending[x] /\ stock'[x] = stock[x]
    BY HoldingLines
  <2> QED BY <2>1, LineTotalOfNone
<1> QED BY <1>1, <1>2, OthersBounds

LEMMA CommitBounds ==
  ASSUME OneRequest, SerialInv, IInv', SaleInv, Bounds(Now), Commit
  PROVE  Bounds(Now)'
<1>1. /\ worker \in Worker /\ worker.bill \in Bill /\ worker.pc = "lines" /\ worker.todo = {}
      /\ \A x \in Batch : /\ worker.taken[x] \in Nat
                          /\ stock'[x] = stock[x] - worker.taken[x]
                          /\ pending'[x] = pending[x] - worker.taken[x]
  BY CommitEffect DEF SerialInv, Commit
<1>2. PICK I : I = ItemsOf(worker.bill)
  OBVIOUS
<1>3. I \in SUBSET Item /\ IsFiniteSet(I)
  BY <1>2, LinesOfBill
<1>4. ASSUME NEW x \in Batch
      PROVE  worker.taken[x] = LineTotal(I, x)
  <2>1. worker.taken[x] + LineTotal({}, x) = LineTotal(I, x)
    BY <1>1, <1>2 DEF SaleInv, TakenOK
  <2> QED BY <1>1, <2>1, LineTotalOfNone
<1>5. HoldingItems \ I \subseteq HoldingItems'
  <2>1. \A b \in Bill : b # worker.bill => status'[b] = status[b]
    BY <1>1 DEF Commit, SerialInv, IInv, TypeOK
  <2> QED BY <1>1, <1>2, <2>1 DEF Commit, HoldingItems, ItemsOf, GivingBack, SerialInv, IInv, TypeOK, Item
<1>6. \A x \in Batch : /\ pending'[x] <= pending[x] - LineTotal(I, x)
                       /\ stock'[x] <= stock[x] - LineTotal(I, x)
  <2> TAKE x \in Batch
  <2>1. /\ pending[x] \in Int /\ stock[x] \in Int /\ worker.taken[x] \in Nat
        /\ stock'[x] = stock[x] - worker.taken[x] /\ pending'[x] = pending[x] - worker.taken[x]
        /\ worker.taken[x] = LineTotal(I, x)
    BY <1>1, <1>4, HoldingLines
  <2> QED BY <2>1
<1> QED BY <1>3, <1>5, <1>6, OthersBounds DEF Commit

LEMMA WorkerBounds ==
  ASSUME OneRequest, SerialInv, IInv', SaleInv, Bounds(Now), WorkerStep, ~FailJob
  PROVE  Bounds(Now)'
<1>1. worker \in Worker /\ items \subseteq Item /\ status \in [Bill -> Status] /\ pending \in [Batch -> Int]
  BY DEF SerialInv, IInv, TypeOK
<1>2. CASE Commit
  BY <1>2, CommitBounds
<1>3. \A x \in Batch : pending[x] <= pending[x]
  BY <1>1
<1>4. CASE TakeJob \/ BeginTransaction \/ CommitLine \/ InvoiceExists \/ CompleteJob
  <2>1. UNCHANGED <<req, items, stock, pending, status>> /\ worker.pc \notin {"readBack", "giveBack"}
    BY <1>4 DEF TakeJob, BeginTransaction, CommitLine, InvoiceExists, CompleteJob, rows
  <2>2. HoldingItems \subseteq HoldingItems'
    BY <2>1 DEF HoldingItems, GivingBack
  <2> QED BY <1>3, <2>1, <2>2, GrowingBounds
<1>5. CASE ReadBack \/ GiveBack
  <2>1. UNCHANGED <<req, items, stock, status>>
    BY <1>5 DEF ReadBack, GiveBack, rows
  <2>2. worker'.bill = worker.bill /\ worker'.pc = "giveBack"
    BY <1>1, <1>5 DEF ReadBack, GiveBack, Worker
  <2>3. HoldingItems \subseteq HoldingItems'
    BY <2>1, <2>2 DEF HoldingItems, GivingBack
  <2>4. \A x \in Batch : pending'[x] <= pending[x]
    <3>1. CASE ReadBack
      BY <1>3, <3>1 DEF ReadBack, rows
    <3>2. CASE GiveBack
      <4>1. PICK i \in worker.todo : pending' = [pending EXCEPT ![i.batch] = @ - i.qty]
        BY <3>2 DEF GiveBack
      <4>2. i.qty \in Nat
        BY <1>1 DEF Worker, Item
      <4> QED BY <1>1, <4>1, <4>2
    <3> QED BY <1>5, <3>1, <3>2
  <2> QED BY <2>1, <2>3, <2>4, GrowingBounds
<1>6. CASE MarkCommitting \/ SetFailed
  <2>1. /\ UNCHANGED <<req, items, stock, pending>>
        /\ worker.bill \in Bill /\ worker.pc \notin {"readBack", "giveBack"}
    BY <1>6, WorkersBillIsClosed DEF MarkCommitting, SetFailed, rows
  <2>2. \/ status' = [status EXCEPT ![worker.bill] = "COMMITTING"]
        \/ /\ status' = [status EXCEPT ![worker.bill] = "FAILED_STOCK"]
           /\ worker'.bill = worker.bill /\ worker'.pc = "readBack"
    BY <1>1, <1>6 DEF MarkCommitting, SetFailed, Worker
  <2>3. \A b \in Bill : \/ status'[b] = status[b]
                        \/ b = worker.bill /\ status'[b] = "COMMITTING"
                        \/ b = worker.bill /\ GivingBack(b)'
    BY <1>1, <2>1, <2>2 DEF GivingBack
  <2>4. HoldingItems \subseteq HoldingItems'
    BY <1>1, <2>1, <2>3 DEF HoldingItems, GivingBack, Item
  <2> QED BY <1>3, <2>1, <2>4, GrowingBounds
<1> QED BY <1>2, <1>4, <1>5, <1>6 DEF WorkerStep

\* A fault, a change of the stock from outside, a request cut short, a crash and a failed
\* attempt are remembered.
LEMMA EventsShow ==
  ASSUME IInv, Spend("event")
  PROVE  ~Undisturbed'
<1>1. spent["event"] \in Nat /\ spent' = [spent EXCEPT !["event"] = @ + 1] /\ "event" \in Kind
  BY DEF Spend, IInv, TypeOK, Kind
<1>2. spent'["event"] = spent["event"] + 1
  BY <1>1 DEF IInv, TypeOK
<1> QED BY <1>1, <1>2 DEF Undisturbed

LEMMA FailedAttemptsShow ==
  ASSUME SerialInv, FailJob
  PROVE  ~Calm'
<1>1. worker.bill \in Bill /\ attempts \in [Bill -> Nat]
  BY WorkersBillIsClosed DEF FailJob, SerialInv, IInv, TypeOK
<1>2. attempts'[worker.bill] = attempts[worker.bill] + 1 /\ attempts[worker.bill] \in Nat
  BY <1>1 DEF FailJob, EndAttempt
<1> QED BY <1>1, <1>2 DEF Calm, NoAttemptFailed

\* All that has happened so far happened in the next state, too.
LEMMA UndisturbedBefore ==
  ASSUME IInv, [Next]_vars, Undisturbed'
  PROVE  /\ Undisturbed /\ ~WorkerFault /\ ~Crash /\ \A r \in Request : ~FailRequest(r)
         /\ \A x \in Batch : /\ \A d \in Delta : ~AdjustStock(x, d)
                             /\ \A q \in Qty \union {0} : ~OverwriteStock(x, q)
<1>1. spent \in [Kind -> Nat]
  BY DEF IInv, TypeOK
<1>2. /\ ~WorkerFault /\ ~Crash /\ \A r \in Request : ~FailRequest(r)
      /\ \A x \in Batch : /\ \A d \in Delta : ~AdjustStock(x, d)
                          /\ \A q \in Qty \union {0} : ~OverwriteStock(x, q)
  BY EventsShow DEF WorkerFault, Crash, FailRequest, AdjustStock, OverwriteStock
<1>3. spent'["event"] = spent["event"]
  <2>1. ASSUME NEW r \in Request, StartRequest(r)
        PROVE  spent'["event"] = spent["event"]
    <3>1. PICK op, c : Begin(r, op, c)
      BY <2>1 DEF StartRequest, AddLine, AddToLine, UpdateLineQty, RemoveLine, ShortageAlert, HoldBill, ResumeBill,
                  CancelBill, SweepStaleBill, CleanupEmptyDraft, CompleteBill
    <3> QED BY <1>1, <3>1 DEF Begin, Spend, Kind
  <2>2. ASSUME NEW r \in Request, ContinueRequest(r)
        PROVE  spent' = spent
    BY <2>2 DEF ContinueRequest, LoadLine, ReleaseLine, ReserveLine, ReadAvailable, ReserveAvailable, WriteLine,
                ReadOpenLines, ReadPending, ReconcileLine, ReconcileEnds, ReleaseAllForBill, SetStatus, Enqueue
  <2>3. WorkerStep => spent' = spent
    BY DEF WorkerStep, TakeJob, MarkCommitting, BeginTransaction, CommitLine, Commit, InvoiceExists, CompleteJob,
           SetFailed, ReadBack, GiveBack, FailJob
  <2>4. \A b \in Bill : CreateDraft(b) \/ PromoteJob(b) => spent' = spent
    BY DEF CreateDraft, PromoteJob
  <2> QED BY <1>2, <2>1, <2>2, <2>3, <2>4 DEF Next, vars
<1> QED BY <1>2, <1>3 DEF Undisturbed

LEMMA CalmBefore ==
  ASSUME SerialInv, [Next]_vars, Calm'
  PROVE  /\ Calm /\ ~FailJob /\ ~WorkerFault /\ ~Crash /\ \A r \in Request : ~FailRequest(r)
         /\ \A x \in Batch : /\ \A d \in Delta : ~AdjustStock(x, d)
                             /\ \A q \in Qty \union {0} : ~OverwriteStock(x, q)
<1>1. /\ Undisturbed /\ ~WorkerFault /\ ~Crash /\ \A r \in Request : ~FailRequest(r)
      /\ \A x \in Batch : /\ \A d \in Delta : ~AdjustStock(x, d)
                          /\ \A q \in Qty \union {0} : ~OverwriteStock(x, q)
  BY UndisturbedBefore DEF Calm, SerialInv
<1>2. ~FailJob /\ attempts \in [Bill -> Nat]
  BY FailedAttemptsShow DEF SerialInv, IInv, TypeOK
<1>3. \A b \in Bill : attempts'[b] = attempts[b]
  <2>1. ASSUME NEW r \in Request, StartRequest(r)
        PROVE  attempts' = attempts
    <3>1. PICK op, c : Begin(r, op, c)
      BY <2>1 DEF StartRequest, AddLine, AddToLine, UpdateLineQty, RemoveLine, ShortageAlert, HoldBill, ResumeBill,
                  CancelBill, SweepStaleBill, CleanupEmptyDraft, CompleteBill
    <3> QED BY <3>1 DEF Begin, bullmq
  <2>2. ASSUME NEW r \in Request, ContinueRequest(r)
        PROVE  attempts' = attempts
    BY <2>2 DEF ContinueRequest, LoadLine, ReleaseLine, ReserveLine, ReadAvailable, ReserveAvailable, WriteLine,
                ReadOpenLines, ReadPending, ReconcileLine, ReconcileEnds, ReleaseAllForBill, SetStatus, Enqueue,
                AddJob, bullmq
  <2>3. WorkerStep => attempts' = attempts
    BY <1>2 DEF WorkerStep, TakeJob, MarkCommitting, BeginTransaction, CommitLine, Commit, InvoiceExists,
                CompleteJob,
           SetFailed, ReadBack, GiveBack, bullmq
  <2>4. \A b \in Bill : CreateDraft(b) \/ PromoteJob(b) => attempts' = attempts
    BY DEF CreateDraft, PromoteJob, AddJob, bullmq
  <2> QED BY <1>1, <2>1, <2>2, <2>3, <2>4 DEF Next, vars, bullmq
<1> QED BY <1>1, <1>2, <1>3 DEF Calm, NoAttemptFailed

LEMMA PhantomStep == OneRequest /\ SerialInv /\ SaleInv /\ PhantomInv /\ [Next]_vars => PhantomInv'
<1> SUFFICES ASSUME OneRequest, SerialInv, SaleInv, PhantomInv, [Next]_vars, Calm' PROVE Bounds(Now)'
  BY DEF PhantomInv
<1>1. Bounds(Now) /\ IInv' /\ pending \in [Batch -> Int]
  BY CalmBefore, NextInvariant, HoldingLines DEF PhantomInv, SerialInv
<1>2. \A x \in Batch : pending[x] <= pending[x]
  BY <1>1
<1>3. CASE UNCHANGED vars
  <2>1. HoldingItems \subseteq HoldingItems'
    BY <1>3 DEF HoldingItems, GivingBack, vars
  <2> QED BY <1>1, <1>2, <1>3, <2>1, GrowingBounds DEF vars, rows
<1>4. ASSUME NEW b \in Bill, CreateDraft(b) \/ PromoteJob(b)
      PROVE  Bounds(Now)'
  <2>1. HoldingItems \subseteq HoldingItems'
    <3>1. \A a \in Bill : status'[a] = status[a] \/ status'[a] = "DRAFT"
      BY <1>4 DEF CreateDraft, PromoteJob, SerialInv, IInv, TypeOK
    <3> QED BY <1>4, <3>1 DEF HoldingItems, GivingBack, EDITABLE, CreateDraft, PromoteJob, SerialInv, IInv, TypeOK,
                              Item
  <2> QED BY <1>1, <1>2, <1>4, <2>1, GrowingBounds DEF CreateDraft, PromoteJob, rows
<1>5. CASE Next
  BY <1>1, <1>4, <1>5, CalmBefore, StartBounds, ContinueBounds, WorkerBounds DEF Next
<1> QED BY <1>3, <1>5

\* While requests do not overlap, no stock is held that no line asked for: what edits,
\* removals, cancellations, sweeps, top-ups and commits reserve and give back adds up, for
\* any number of bills, lines and batches and whatever the quantities.  It is claimed up to
\* the first failed attempt, fault or change of the stock from outside.
THEOREM NothingIsHeldForNoLine == OneRequest => (Spec => []NoPhantomReservation)
<1> SUFFICES ASSUME OneRequest PROVE Spec => []NoPhantomReservation
  OBVIOUS
<1>1. Init => SerialInv /\ SaleInv /\ PhantomInv
  <2>1. Init => SaleInv
    BY DEF Init, SaleInv, TakenOK, SaleMatchesLines, Resting
  <2>2. Init => SerialInv
    BY SerialInit, InitInvariant, InitJobs DEF SerialInv
  <2>3. ASSUME Init PROVE PhantomInv
    <3>1. Now = Idle
      BY <2>3, OneCall, InitInvariant DEF Init, Now
    <3>2. \A x \in Batch : pending[x] <= LineTotal(HoldingItems, x)
      <4> TAKE x \in Batch
      <4>1. HoldingItems \ {} = HoldingItems /\ LineTotal(HoldingItems \ {}, x) \in Nat
        BY <2>2, <2>3, HoldingLines
      <4> QED BY <2>3, <4>1 DEF Init
    <3>3. Bounded(Idle, pending, stock, HoldingItems, {})
      BY <2>2, <2>3, <3>2, HoldingLines, LooseBounds, IdleIsLoose
    <3> QED BY <3>1, <3>3, IdleIsLoose DEF PhantomInv, Bounds
  <2> QED BY <2>1, <2>2, <2>3
<1>2. SerialInv /\ SaleInv /\ PhantomInv /\ [Next]_vars => (SerialInv /\ SaleInv /\ PhantomInv)'
  BY SerialStep, SaleStep, PhantomStep
<1>3. SerialInv /\ PhantomInv => NoPhantomReservation
  <2> SUFFICES ASSUME SerialInv, PhantomInv, Quiet, Undisturbed, NoAttemptFailed
               PROVE  \A x \in Batch : pending[x] <= LineTotal(HoldingItems, x)
    BY DEF NoPhantomReservation
  <2>1. Now.pc = "idle"
    BY OneCall DEF Quiet, Now, SerialInv
  <2>2. Bounds(Now)
    BY DEF PhantomInv, Calm
  <2> QED BY <2>1, <2>2, ReservedForLines
<1> QED BY <1>1, <1>2, <1>3, PTL DEF Spec

-----------------------------------------------------------------------------
(* The pool is used up.  As long as no bill has gone to the queue the worker *)
(* has nothing to do, and a reconciliation keeps this account: the lines it  *)
(* is through with hold all that they ask for, or nothing is free any more.  *)

NoJobs == \A b \in Bill : job[b] = "none"
KnownLines == \A i \in items : status[i.bill] # "NEW"

\* p of the stock s is reserved; the lines O are open on the batch of c.
Topped(c, p, s, O) ==
  /\ c.pc = "readPending" => c.todo = O
  /\ c.pc = "reconcile" => \/ p[c.batch] >= s[c.batch]
                           \/ p[c.batch] >= c.left + LineTotal(O \ c.todo, c.batch)
  /\ Reconciling(c) /\ c.pc \in Reserving => c.left = 0
  /\ Reconciling(c) /\ c.pc = "reserve" => \/ p[c.batch] >= s[c.batch]
                                           \/ p[c.batch] + c.ask >= LineTotal(O \ c.todo, c.batch)
  /\ Reconciling(c) /\ c.pc = "reserveAvailable" => p[c.batch] + c.ask >= s[c.batch]

NonNegative(p) == \A x \in Batch : p[x] >= 0
ToppedUp(c) == NonNegative(pending) /\ Topped(c, pending, stock, OpenItems(c.batch))
PoolInv == KnownLines /\ (Undisturbed /\ NoJobs => ToppedUp(Now))

\* A request that reconciles nothing owes nothing.
LEMMA NotToppingUp ==
  ASSUME NEW c, Now' = c, ~Reconciling(c), NonNegative(pending')
  PROVE  ToppedUp(Now)'
<1>1. \A p, s, O : Topped(c, p, s, O)
  BY DEF Topped, Reconciling
<1>2. ToppedUp(c)'
  BY <1>1 DEF ToppedUp, NonNegative
<1> QED BY <1>2

LEMMA ToppingUp ==
  ASSUME NEW c, NEW p, Now' = c, pending' = p, UNCHANGED <<stock, items, status>>, NonNegative(p),
         Topped(c, p, stock, OpenItems(c.batch))
  PROVE  ToppedUp(Now)'
<1>1. OpenItems(c.batch)' = OpenItems(c.batch)
  BY DEF OpenItems
<1>2. ToppedUp(c)'
  BY <1>1 DEF ToppedUp, NonNegative
<1> QED BY <1>2

LEMMA OpenLines ==
  ASSUME SerialInv, NEW S, NEW x
  PROVE  /\ OpenItems(x) \ S \in SUBSET Item /\ IsFiniteSet(OpenItems(x) \ S)
         /\ LineTotal(OpenItems(x) \ S, x) \in Nat
<1>1. items \in SUBSET Item /\ IsFiniteSet(items) /\ OpenItems(x) \ S \subseteq items
  BY DEF SerialInv, SerialOK, LinesOK, IInv, TypeOK, OpenItems
<1>2. OpenItems(x) \ S \in SUBSET Item /\ IsFiniteSet(OpenItems(x) \ S)
  BY <1>1, FS_Subset
<1> QED BY <1>2, LineTotalType

LEMMA ReleasedIsNonNegative ==
  ASSUME SerialInv, NonNegative(pending), NEW x \in Batch, NEW q \in Nat, ReleaseRow(x, q)
  PROVE  NonNegative(pending')
<1>1. pending \in [Batch -> Int]
  BY HoldingLines
<1> QED BY <1>1 DEF ReleaseRow, Clamp, NonNegative

LEMMA ReservedIsNonNegative ==
  ASSUME SerialInv, NonNegative(pending), NEW x \in Batch, NEW q \in Nat, ReserveRow(x, q)
  PROVE  NonNegative(pending') /\ pending'[x] = pending[x] + q
<1>1. pending \in [Batch -> Int]
  BY HoldingLines
<1> QED BY <1>1 DEF ReserveRow, NonNegative

\* Where a reservation asks for stock, and what for.
LEMMA AskingNow ==
  ASSUME OneRequest, SerialInv, Now.pc \in Reserving
  PROVE  /\ Now \in Call /\ Now.batch \in Batch /\ Now.ask \in Nat /\ Now.left \in Nat
         /\ pending[Now.batch] \in Int /\ stock[Now.batch] \in Nat
         /\ \/ Now.after = "write" /\ ~Reconciling(Now)
            \/ Now.after = "reconcile" /\ Reconciling(Now)
<1>1. Now \in Call /\ CallOK(Now)
  BY NowFits
<1>2. Now.batch \in Batch
  BY <1>1 DEF CallOK, OnBatch, Reserving
<1>3. Now.after \in {"write", "reconcile"} /\ Now.ask \in Nat /\ Now.left \in Nat
  BY <1>1 DEF Call
<1> QED BY <1>1, <1>2, <1>3, HoldingLines DEF Reconciling, Reserving

\* The answer to a reservation: the request goes on at p, and q is reserved.
LEMMA ReservingTops ==
  ASSUME OneRequest, SerialInv, ToppedUp(Now), Now.pc \in Reserving,
         UNCHANGED <<stock, items, status>>, NonNegative(pending'), NEW q \in Nat,
         NEW d \in {"readAvailable", "reserveAvailable", Now.after},
         Now' = [Now EXCEPT !.ask = q, !.pc = d],
         Reconciling(Now) /\ d = "reserveAvailable" => pending'[Now.batch] + q >= stock[Now.batch],
         Reconciling(Now) /\ d = Now.after =>
           \/ pending'[Now.batch] >= stock[Now.batch]
           \/ pending'[Now.batch] >= LineTotal(OpenItems(Now.batch) \ Now.todo, Now.batch)
  PROVE  ToppedUp(Now)'
<1>1. PICK c, p : c = [Now EXCEPT !.ask = q, !.pc = d] /\ p = pending'
  OBVIOUS
<1>2. /\ c.pc = d /\ c.ask = q /\ c.after = Now.after /\ c.todo = Now.todo /\ c.batch = Now.batch
      /\ c.left = Now.left
  BY <1>1, AskingNow DEF Call
<1>3. CASE Now.after = "write"
  BY <1>1, <1>2, <1>3, NotToppingUp DEF Reconciling, Reserving
<1>4. CASE Now.after = "reconcile" /\ Reconciling(Now)
  <2>1. Now.left = 0
    BY <1>4 DEF ToppedUp, Topped
  <2>2. LineTotal(OpenItems(c.batch) \ c.todo, c.batch) \in Nat
    BY OpenLines
  <2>3. c.left + LineTotal(OpenItems(c.batch) \ c.todo, c.batch) = LineTotal(OpenItems(c.batch) \ c.todo, c.batch)
    BY <1>2, <2>1, <2>2
  <2>4. Topped(c, p, stock, OpenItems(c.batch))
    BY <1>1, <1>2, <1>4, <2>1, <2>3 DEF Topped, Reserving
  <2> QED BY <1>1, <2>4, ToppingUp
<1> QED BY <1>3, <1>4, AskingNow

LEMMA ReserveLineTops ==
  ASSUME OneRequest, SerialInv, ToppedUp(Now), NEW r \in Request, ReserveLine(r)
  PROVE  ToppedUp(Now)'
<1>1. IInv /\ NonNegative(pending) /\ UNCHANGED <<stock, items, status>>
  BY NowFits DEF ToppedUp, ReserveLine
<1>2. Now.pc = "reserve" /\ Now.pc \in Reserving
  BY <1>1, ReserveLineNow DEF Reserving
<1>3. /\ Now \in Call /\ Now.batch \in Batch /\ Now.ask \in Nat
      /\ pending[Now.batch] \in Int /\ stock[Now.batch] \in Nat
      /\ Now.after \in {"write", "reconcile"}
  BY <1>2, AskingNow
<1>4. \A d : [Now EXCEPT !.pc = d] = [Now EXCEPT !.ask = Now.ask, !.pc = d]
  BY <1>3 DEF Call
<1>5. CASE ReserveRow(Now.batch, Now.ask) /\ Now' = [Now EXCEPT !.pc = Now.after]
  <2>1. NonNegative(pending') /\ pending'[Now.batch] = pending[Now.batch] + Now.ask
    BY <1>1, <1>3, <1>5, ReservedIsNonNegative
  <2>2. Reconciling(Now) => \/ pending'[Now.batch] >= stock[Now.batch]
                            \/ pending'[Now.batch] >= LineTotal(OpenItems(Now.batch) \ Now.todo, Now.batch)
    <3>1. Reconciling(Now) => \/ pending[Now.batch] >= stock[Now.batch]
                              \/ pending[Now.batch] + Now.ask
                                    >= LineTotal(OpenItems(Now.batch) \ Now.todo, Now.batch)
      BY <1>2 DEF ToppedUp, Topped
    <3> QED BY <1>3, <2>1, <3>1
  <2>3. Now' = [Now EXCEPT !.ask = Now.ask, !.pc = Now.after] /\ Now.after # "reserveAvailable"
    BY <1>3, <1>4, <1>5
  <2> QED BY <1>1, <1>2, <1>3, <2>1, <2>2, <2>3, ReservingTops
<1>6. CASE UNCHANGED pending /\ Now' = [Now EXCEPT !.pc = "readAvailable"]
  <2>1. NonNegative(pending')
    BY <1>1, <1>6 DEF NonNegative
  <2>2. Now' = [Now EXCEPT !.ask = Now.ask, !.pc = "readAvailable"] /\ Now.after # "readAvailable"
    BY <1>3, <1>4, <1>6
  <2> QED BY <1>1, <1>2, <1>3, <2>1, <2>2, ReservingTops
<1> QED BY <1>1, <1>5, <1>6, ReserveLineNow

LEMMA ReadAvailableTops ==
  ASSUME OneRequest, SerialInv, ToppedUp(Now), NEW r \in Request, ReadAvailable(r)
  PROVE  ToppedUp(Now)'
<1>1. IInv /\ NonNegative(pending) /\ UNCHANGED <<stock, pending, items, status>>
  BY NowFits DEF ToppedUp, ReadAvailable, rows
<1>2. Now.pc = "readAvailable" /\ Now.pc \in Reserving
  BY <1>1, ReadAvailableNow DEF Reserving
<1>3. /\ pending[Now.batch] \in Int /\ stock[Now.batch] \in Nat
      /\ Now.after \in {"write", "reconcile"}
  BY <1>2, AskingNow
<1>4. PICK q, d : /\ q = Pool(Now.batch) /\ d = (IF Pool(Now.batch) = 0 THEN Now.after ELSE "reserveAvailable")
  OBVIOUS
<1>5. Now' = [Now EXCEPT !.ask = q, !.pc = d]
  BY <1>1, <1>4, ReadAvailableNow
<1>6. /\ q \in Nat /\ q + pending[Now.batch] >= stock[Now.batch]
      /\ q = 0 => pending[Now.batch] >= stock[Now.batch]
  BY <1>3, <1>4 DEF Pool, Clamp
<1>7. pending[Now.batch] + q >= stock[Now.batch]
  BY <1>3, <1>6
<1>8. NonNegative(pending') /\ pending' = pending
  BY <1>1 DEF NonNegative
<1>9. d \in {"readAvailable", "reserveAvailable", Now.after} /\ (d = Now.after => q = 0)
  BY <1>3, <1>4
<1> QED BY <1>1, <1>2, <1>5, <1>6, <1>7, <1>8, <1>9, ReservingTops

LEMMA ReserveAvailableTops ==
  ASSUME OneRequest, SerialInv, ToppedUp(Now), NEW r \in Request, ReserveAvailable(r)
  PROVE  ToppedUp(Now)'
<1>1. IInv /\ NonNegative(pending) /\ UNCHANGED <<stock, items, status>>
  BY NowFits DEF ToppedUp, ReserveAvailable
<1>2. Now.pc = "reserveAvailable" /\ Now.pc \in Reserving
  BY <1>1, ReserveAvailableNow DEF Reserving
<1>3. /\ Now \in Call /\ Now.batch \in Batch /\ Now.ask \in Nat
      /\ pending[Now.batch] \in Int /\ stock[Now.batch] \in Nat
      /\ Now.after \in {"write", "reconcile"}
  BY <1>2, AskingNow
<1>4. CASE ReserveRow(Now.batch, Now.ask) /\ Now' = [Now EXCEPT !.pc = Now.after]
  <2>1. NonNegative(pending') /\ pending'[Now.batch] = pending[Now.batch] + Now.ask
    BY <1>1, <1>3, <1>4, ReservedIsNonNegative
  <2>2. Reconciling(Now) => pending'[Now.batch] >= stock[Now.batch]
    BY <1>2, <2>1 DEF ToppedUp, Topped
  <2>3. Now' = [Now EXCEPT !.ask = Now.ask, !.pc = Now.after] /\ Now.after # "reserveAvailable"
    BY <1>3, <1>4 DEF Call
  <2> QED BY <1>1, <1>2, <1>3, <2>1, <2>2, <2>3, ReservingTops
<1>5. CASE UNCHANGED pending /\ Now' = Idle
  BY <1>1, <1>5, NotToppingUp DEF NonNegative, Idle, Reconciling, Reserving
<1> QED BY <1>1, <1>4, <1>5, ReserveAvailableNow

LEMMA ReconcileTops ==
  ASSUME OneRequest, SerialInv, ToppedUp(Now), NEW r \in Request,
         ReadOpenLines(r) \/ ReadPending(r) \/ ReconcileEnds(r)
  PROVE  ToppedUp(Now)'
<1>1. IInv /\ Now \in Call /\ CallOK(Now) /\ NonNegative(pending) /\ UNCHANGED <<stock, pending, items, status>>
  BY NowFits DEF ToppedUp, ReadOpenLines, ReadPending, ReconcileEnds, rows
<1>2. NonNegative(pending')
  BY <1>1 DEF NonNegative
<1>3. CASE ReadOpenLines(r)
  <2>1. PICK c : c = [Now EXCEPT !.todo = OpenItems(Now.batch), !.pc = "readPending"]
    OBVIOUS
  <2>2. c.pc = "readPending" /\ c.todo = OpenItems(Now.batch) /\ c.batch = Now.batch /\ Now' = c
    BY <1>1, <1>3, <2>1, ReadOpenLinesNow DEF Call
  <2>3. Topped(c, pending, stock, OpenItems(c.batch))
    BY <2>2 DEF Topped, Reserving
  <2> QED BY <1>1, <2>2, <2>3, ToppingUp
<1>4. CASE ReadPending(r)
  <2>1. PICK c : c = [Now EXCEPT !.left = Clamp(pending[Now.batch]), !.pc = "reconcile"]
    OBVIOUS
  <2>2. /\ c.pc = "reconcile" /\ c.left = Clamp(pending[Now.batch]) /\ c.todo = Now.todo
        /\ c.batch = Now.batch /\ Now' = c
    BY <1>1, <1>4, <2>1, ReadPendingNow DEF Call
  <2>3. Now.pc = "readPending" /\ Now.todo = OpenItems(Now.batch) /\ Now.batch \in Batch
    BY <1>1, <1>4, ReadPendingNow DEF ToppedUp, Topped, CallOK, OnBatch
  <2>4. OpenItems(c.batch) \ c.todo = {}
    BY <2>2, <2>3
  <2>5. pending[c.batch] \in Int /\ pending[c.batch] >= 0 /\ c.left = pending[c.batch]
    BY <1>1, <2>2, <2>3, HoldingLines DEF NonNegative, Clamp
  <2>6. pending[c.batch] >= c.left + LineTotal(OpenItems(c.batch) \ c.todo, c.batch)
    BY <2>4, <2>5, LineTotalOfNone
  <2>7. Topped(c, pending, stock, OpenItems(c.batch))
    BY <2>2, <2>6 DEF Topped, Reserving
  <2> QED BY <1>1, <2>2, <2>7, ToppingUp
<1>5. CASE ReconcileEnds(r)
  <2>1. Now' = Idle
    BY <1>1, <1>5, FinishNow DEF ReconcileEnds
  <2> QED BY <1>2, <2>1, NotToppingUp DEF Idle, Reconciling, Reserving
<1> QED BY <1>3, <1>4, <1>5

\* The next line gets what is left of the reserved quantity, and asks for the rest.
LEMMA ReconcileLineTops ==
  ASSUME OneRequest, SerialInv, ToppedUp(Now), NEW r \in Request, ReconcileLine(r)
  PROVE  ToppedUp(Now)'
<1>1. IInv /\ Now \in Call /\ CallOK(Now) /\ BillOK(Now)
  BY NowFits
<1>2. Now.pc = "reconcile" /\ UNCHANGED <<stock, pending, items, status>>
  BY <1>1, ReconcileLineNow DEF rows
<1>3. PICK i, have :
        /\ i \in Now.todo /\ have = Allocated(i, Now.left)
        /\ Now' = [Now EXCEPT !.todo = @ \ {i}, !.left = @ - have, !.ask = i.qty - have,
                              !.after = "reconcile", !.pc = IF i.qty > have THEN "reserve" ELSE "reconcile"]
  BY <1>1, ReconcileLineNow
<1>4. PICK c : c = [Now EXCEPT !.todo = @ \ {i}, !.left = @ - have, !.ask = i.qty - have,
                           !.after = "reconcile", !.pc = IF i.qty > have THEN "reserve" ELSE "reconcile"]
  OBVIOUS
<1>5. /\ c.pc = IF i.qty > have THEN "reserve" ELSE "reconcile"
      /\ c.after = "reconcile" /\ c.todo = Now.todo \ {i} /\ c.batch = Now.batch
      /\ c.left = Now.left - have /\ c.ask = i.qty - have /\ Now' = c
  BY <1>1, <1>3, <1>4 DEF Call
<1>6. PICK x, O : x = Now.batch /\ O = OpenItems(Now.batch)
  OBVIOUS
<1>7. Now.todo \subseteq O /\ i \in O /\ i.batch = x /\ i \in Item
  BY <1>1, <1>2, <1>3, <1>6, NowFits DEF BillOK, Reconciling, OpenItems
<1>8. x \in Batch /\ pending[x] \in Int /\ stock[x] \in Nat /\ Now.left \in Nat /\ i.qty \in Nat
  BY <1>1, <1>2, <1>6, <1>7, HoldingLines DEF CallOK, OnBatch, Call, Item
<1>9. LineTotal(O \ c.todo, x) = LineTotal(O \ Now.todo, x) + i.qty /\ LineTotal(O \ Now.todo, x) \in Nat
  <2>1. O \ c.todo = (O \ Now.todo) \union {i} /\ i \notin O \ Now.todo
    BY <1>3, <1>5, <1>7
  <2>2. /\ O \ Now.todo \in SUBSET Item /\ IsFiniteSet(O \ Now.todo)
        /\ LineTotal(O \ Now.todo, x) \in Nat
    BY <1>6, OpenLines
  <2>3. LineTotal((O \ Now.todo) \union {i}, x) = LineTotal(O \ Now.todo, x) + i.qty
    BY <1>7, <2>1, <2>2, LineTotalWith
  <2> QED BY <2>1, <2>2, <2>3
<1>10. \/ pending[x] >= stock[x]
       \/ pending[x] >= Now.left + LineTotal(O \ Now.todo, x)
  BY <1>2, <1>6 DEF ToppedUp, Topped
<1>11. Topped(c, pending, stock, O)
  <2>1. CASE i.qty > have
    <3>1. have = Now.left /\ c.left = 0 /\ c.ask = i.qty - Now.left /\ c.pc = "reserve"
      BY <1>3, <1>5, <1>8, <2>1 DEF Allocated, Least
    <3>2. pending[x] >= stock[x] \/ pending[x] + c.ask >= LineTotal(O \ c.todo, x)
      BY <1>8, <1>9, <1>10, <3>1
    <3> QED BY <1>5, <1>6, <3>1, <3>2 DEF Topped
  <2>2. CASE ~(i.qty > have)
    <3>1. have = i.qty /\ c.left = Now.left - i.qty /\ c.pc = "reconcile"
      BY <1>3, <1>5, <1>8, <2>2 DEF Allocated, Least
    <3>2. pending[x] >= stock[x] \/ pending[x] >= c.left + LineTotal(O \ c.todo, x)
      BY <1>8, <1>9, <1>10, <3>1
    <3> QED BY <1>5, <1>6, <3>1, <3>2 DEF Topped, Reserving
  <2> QED BY <2>1, <2>2
<1>12. NonNegative(pending)
  BY DEF ToppedUp
<1> QED BY <1>2, <1>5, <1>6, <1>11, <1>12, ToppingUp

\* The other steps of a request end in a state that reconciles nothing.
LEMMA OtherCallsTop ==
  ASSUME OneRequest, SerialInv, ToppedUp(Now), NEW r \in Request,
         LoadLine(r) \/ ReleaseLine(r) \/ WriteLine(r) \/ ReleaseAllForBill(r) \/ SetStatus(r)
  PROVE  ToppedUp(Now)'
<1>1. IInv /\ Now \in Call /\ CallOK(Now) /\ NonNegative(pending) /\ Now.todo \in SUBSET Item
  BY NowFits DEF ToppedUp
<1>2. CASE LoadLine(r)
  <2>1. NonNegative(pending') /\ Now.pc = "load"
    BY <1>1, <1>2, LoadLineNow DEF rows, NonNegative
  <2>2. ASSUME NEW i, Now' = [Now EXCEPT !.old = i.qty, !.pc = "release"]
        PROVE  ToppedUp(Now)'
    <3>1. PICK c : c = [Now EXCEPT !.old = i.qty, !.pc = "release"]
      OBVIOUS
    <3>2. c.pc = "release"
      BY <1>1, <3>1 DEF Call
    <3> QED BY <2>1, <2>2, <3>1, <3>2, NotToppingUp DEF Reconciling, Reserving
  <2>3. ASSUME Now' = Idle PROVE ToppedUp(Now)'
    BY <2>1, <2>3, NotToppingUp DEF Idle, Reconciling, Reserving
  <2> QED BY <1>1, <1>2, <2>2, <2>3, LoadLineNow
<1>3. CASE ReleaseLine(r)
  <2>1. PICK c : c = [Now EXCEPT !.ask = Now.new, !.pc = IF Now.op = "remove" THEN "write" ELSE "reserve"]
    OBVIOUS
  <2>2. Now.pc = "release" /\ ReleaseRow(Now.batch, Now.old) /\ Now' = c
    BY <1>1, <1>3, <2>1, ReleaseLineNow
  <2>3. Now.batch \in Batch /\ Now.old \in Nat /\ Now.after = "write"
    BY <1>1, <2>2 DEF CallOK, OnBatch, Call
  <2>4. c.pc \in {"write", "reserve"} /\ c.after = "write"
    BY <1>1, <2>1, <2>3 DEF Call
  <2>5. NonNegative(pending')
    BY <1>1, <2>2, <2>3, ReleasedIsNonNegative
  <2> QED BY <2>2, <2>4, <2>5, NotToppingUp DEF Reconciling
<1>4. CASE WriteLine(r)
  <2>1. PICK w, c : /\ w = [id |-> Now.line, bill |-> Now.bill, batch |-> Now.batch, qty |-> Now.new]
                    /\ c = [Idle EXCEPT !.op = Now.op, !.pc = "readLines", !.bill = Now.bill, !.batch = Now.batch]
    OBVIOUS
  <2>2. NonNegative(pending') /\ (Now' = c \/ Now' = Idle)
    BY <1>1, <1>4, <2>1, WriteLineNow DEF rows, NonNegative
  <2>3. c.pc = "readLines" /\ Idle.pc = "idle"
    BY <2>1 DEF Idle
  <2>4. ASSUME Now' = c PROVE ToppedUp(Now)'
    BY <2>2, <2>3, <2>4, NotToppingUp DEF Reconciling, Reserving
  <2>5. ASSUME Now' = Idle PROVE ToppedUp(Now)'
    BY <2>2, <2>3, <2>5, NotToppingUp DEF Reconciling, Reserving
  <2> QED BY <2>2, <2>4, <2>5
<1>5. CASE ReleaseAllForBill(r)
  <2>1. PICK i \in Now.todo :
          /\ ReleaseRow(i.batch, i.qty)
          /\ Now' = [Now EXCEPT !.todo = @ \ {i}, !.pc = IF Now.todo = {i} THEN "setStatus" ELSE @]
    BY <1>1, <1>5, ReleaseAllNow
  <2>2. PICK c : c = [Now EXCEPT !.todo = @ \ {i}, !.pc = IF Now.todo = {i} THEN "setStatus" ELSE @]
    OBVIOUS
  <2>3. c.pc \in {"setStatus", "releaseAll"} /\ i \in Item
    BY <1>1, <1>5, <2>2, ReleaseAllNow DEF Call
  <2>4. NonNegative(pending')
    BY <1>1, <2>1, <2>3, ReleasedIsNonNegative DEF Item
  <2> QED BY <2>1, <2>2, <2>3, <2>4, NotToppingUp DEF Reconciling, Reserving
<1>6. CASE SetStatus(r)
  <2>1. PICK c : c = [Now EXCEPT !.pc = "enqueue"]
    OBVIOUS
  <2>2. c.pc = "enqueue" /\ Idle.pc = "idle" /\ (Now' = c \/ Now' = Idle) /\ NonNegative(pending')
    BY <1>1, <1>6, <2>1, SetStatusNow DEF Call, Idle, rows, NonNegative
  <2>3. ASSUME Now' = c PROVE ToppedUp(Now)'
    BY <2>2, <2>3, NotToppingUp DEF Reconciling, Reserving
  <2>4. ASSUME Now' = Idle PROVE ToppedUp(Now)'
    BY <2>2, <2>4, NotToppingUp DEF Reconciling, Reserving
  <2> QED BY <2>2, <2>3, <2>4
<1> QED BY <1>2, <1>3, <1>4, <1>5, <1>6

LEMMA StartTops ==
  ASSUME OneRequest, SerialInv, ToppedUp(Now), NEW r \in Request, StartRequest(r)
  PROVE  ToppedUp(Now)'
<1>1. PICK op, c : Begin(r, op, c) /\ Fresh(c)
  BY StartedCallFits DEF Fits
<1>2. Now' = c /\ UNCHANGED rows
  BY <1>1, BeginIsNow DEF SerialInv
<1>3. ~Reconciling(c)
  BY <1>1 DEF Fresh, Starts, Reconciling, Reserving
<1>4. NonNegative(pending')
  BY <1>2 DEF rows, NonNegative, ToppedUp
<1> QED BY <1>2, <1>3, <1>4, NotToppingUp

\* Nothing takes a job back, and no status becomes NEW again.
LEMMA JobsStay ==
  ASSUME SerialInv, [Next]_vars, NEW b \in Bill
  PROVE  job'[b] = "none" => job[b] = "none"
<1>1. job \in [Bill -> JobState]
  BY DEF SerialInv, IInv, TypeOK
<1>2. CASE UNCHANGED job
  BY <1>2
<1>3. ASSUME NEW r \in Request, StartRequest(r) PROVE UNCHANGED job
  <2>1. PICK op, c : Begin(r, op, c)
    BY <1>3 DEF StartRequest, AddLine, AddToLine, UpdateLineQty, RemoveLine, ShortageAlert, HoldBill, ResumeBill,
                CancelBill, SweepStaleBill, CleanupEmptyDraft, CompleteBill
  <2> QED BY <2>1 DEF Begin, bullmq
<1>4. ASSUME NEW r \in Request, ContinueRequest(r) PROVE job'[b] = "none" => job[b] = "none"
  <2>1. CASE Enqueue(r)
    BY <1>1, <2>1 DEF Enqueue, AddJob, bullmq
  <2>2. CASE ~Enqueue(r)
    BY <1>4, <2>2 DEF ContinueRequest, LoadLine, ReleaseLine, ReserveLine, ReadAvailable, ReserveAvailable,
                      WriteLine,
                      ReadOpenLines, ReadPending, ReconcileLine, ReconcileEnds, ReleaseAllForBill, SetStatus, bullmq
  <2> QED BY <2>1, <2>2
<1>5. CASE WorkerStep
  <2>1. CASE TakeJob \/ CompleteJob \/ FailJob
    BY <1>1, <2>1 DEF TakeJob, CompleteJob, FailJob, EndAttempt
  <2>2. CASE ~(TakeJob \/ CompleteJob \/ FailJob)
    BY <1>5, <2>2 DEF WorkerStep, MarkCommitting, BeginTransaction, CommitLine, Commit, InvoiceExists, SetFailed,
                      ReadBack, GiveBack, bullmq
  <2> QED BY <2>1, <2>2
<1>6. CASE WorkerFault \/ Crash
  BY <1>1, <1>6 DEF WorkerFault, Crash, EndAttempt, bullmq
<1>7. ASSUME NEW a \in Bill, CreateDraft(a) \/ PromoteJob(a) PROVE job'[b] = "none" => job[b] = "none"
  BY <1>1, <1>7 DEF CreateDraft, PromoteJob, AddJob, bullmq
<1>8. ASSUME NEW r \in Request, FailRequest(r) PROVE UNCHANGED job
  BY <1>8 DEF FailRequest, bullmq
<1>9. ASSUME NEW x \in Batch, \/ \E d \in Delta : AdjustStock(x, d)
                              \/ \E q \in Qty \union {0} : OverwriteStock(x, q)
      PROVE  UNCHANGED job
  BY <1>9 DEF AdjustStock, OverwriteStock, bullmq
<1> QED BY <1>2, <1>3, <1>4, <1>5, <1>6, <1>7, <1>8, <1>9 DEF Next, vars, bullmq

LEMMA BillsStayKnown ==
  ASSUME OneRequest, SerialInv, [Next]_vars, NEW b \in Bill
  PROVE  status'[b] = "NEW" => status[b] = "NEW"
<1>1. status \in [Bill -> Status] /\ IInv
  BY DEF SerialInv, IInv, TypeOK
<1>2. CASE UNCHANGED status
  BY <1>2
<1>3. ASSUME NEW r \in Request, StartRequest(r) PROVE UNCHANGED status
  <2>1. PICK op, c : Begin(r, op, c)
    BY <1>3 DEF StartRequest, AddLine, AddToLine, UpdateLineQty, RemoveLine, ShortageAlert, HoldBill, ResumeBill,
                CancelBill, SweepStaleBill, CleanupEmptyDraft, CompleteBill
  <2> QED BY <2>1 DEF Begin
<1>4. ASSUME NEW r \in Request, ContinueRequest(r) PROVE status'[b] = "NEW" => status[b] = "NEW"
  <2>1. CASE SetStatus(r)
    BY <1>1, <2>1, SetStatusNow DEF Target
  <2>2. CASE ~SetStatus(r)
    BY <1>4, <2>2 DEF ContinueRequest, LoadLine, ReleaseLine, ReserveLine, ReadAvailable, ReserveAvailable,
                      WriteLine,
                      ReadOpenLines, ReadPending, ReconcileLine, ReconcileEnds, ReleaseAllForBill, Enqueue
  <2> QED BY <2>1, <2>2
<1>5. CASE WorkerStep
  <2>1. CASE MarkCommitting \/ SetFailed \/ Commit
    BY <1>1, <2>1 DEF MarkCommitting, SetFailed, Commit
  <2>2. CASE ~(MarkCommitting \/ SetFailed \/ Commit)
    BY <1>5, <2>2 DEF WorkerStep, TakeJob, BeginTransaction, CommitLine, InvoiceExists, CompleteJob,
                      ReadBack, GiveBack, FailJob
  <2> QED BY <2>1, <2>2
<1>6. CASE WorkerFault \/ Crash
  BY <1>6 DEF WorkerFault, Crash
<1>7. ASSUME NEW a \in Bill, CreateDraft(a) \/ PromoteJob(a) PROVE status'[b] = "NEW" => status[b] = "NEW"
  BY <1>1, <1>7 DEF CreateDraft, PromoteJob
<1>8. ASSUME NEW r \in Request, FailRequest(r) PROVE UNCHANGED status
  BY <1>8 DEF FailRequest
<1>9. ASSUME NEW x \in Batch, \/ \E d \in Delta : AdjustStock(x, d)
                              \/ \E q \in Qty \union {0} : OverwriteStock(x, q)
      PROVE  UNCHANGED status
  BY <1>9 DEF AdjustStock, OverwriteStock
<1> QED BY <1>2, <1>3, <1>4, <1>5, <1>6, <1>7, <1>8, <1>9 DEF Next, vars

LEMMA LinesStay ==
  ASSUME [Next]_vars, \A r \in Request : ~WriteLine(r)
  PROVE  UNCHANGED items
<1>1. ASSUME NEW r \in Request, StartRequest(r) PROVE UNCHANGED items
  <2>1. PICK op, c : Begin(r, op, c)
    BY <1>1 DEF StartRequest, AddLine, AddToLine, UpdateLineQty, RemoveLine, ShortageAlert, HoldBill, ResumeBill,
                CancelBill, SweepStaleBill, CleanupEmptyDraft, CompleteBill
  <2> QED BY <2>1 DEF Begin
<1>2. ASSUME NEW r \in Request, ContinueRequest(r) \/ FailRequest(r) PROVE UNCHANGED items
  BY <1>2 DEF ContinueRequest, LoadLine, ReleaseLine, ReserveLine, ReadAvailable, ReserveAvailable, ReadOpenLines,
              ReadPending, ReconcileLine, ReconcileEnds, ReleaseAllForBill, SetStatus, Enqueue, FailRequest
<1>3. CASE WorkerStep
  BY <1>3 DEF WorkerStep, TakeJob, MarkCommitting, BeginTransaction, CommitLine, Commit, InvoiceExists, CompleteJob,
              SetFailed, ReadBack, GiveBack, FailJob
<1>4. ASSUME NEW b \in Bill, CreateDraft(b) \/ PromoteJob(b) PROVE UNCHANGED items
  BY <1>4 DEF CreateDraft, PromoteJob
<1>5. CASE WorkerFault \/ Crash
  BY <1>5 DEF WorkerFault, Crash
<1>6. ASSUME NEW x \in Batch, \/ \E d \in Delta : AdjustStock(x, d)
                              \/ \E q \in Qty \union {0} : OverwriteStock(x, q)
      PROVE  UNCHANGED items
  BY <1>6 DEF AdjustStock, OverwriteStock
<1> QED BY <1>1, <1>2, <1>3, <1>4, <1>5, <1>6 DEF Next, vars

\* A line is only ever written for a bill that has its row.
LEMMA LinesStayKnown == OneRequest /\ SerialInv /\ KnownLines /\ [Next]_vars => KnownLines'
<1> SUFFICES ASSUME OneRequest, SerialInv, KnownLines, [Next]_vars, NEW i \in items'
             PROVE  status'[i.bill] # "NEW"
  BY DEF KnownLines
<1>1. IInv /\ CallOK(Now) /\ EditOK(Now)
  BY NowFits
<1>2. i.bill \in Bill
  BY <1>1, NextInvariant DEF IInv, TypeOK, Item
<1>3. CASE i \in items
  BY <1>2, <1>3, BillsStayKnown DEF KnownLines
<1>4. CASE i \notin items
  <2>1. PICK r \in Request : WriteLine(r)
    BY <1>4, LinesStay
  <2>2. PICK w : w = [id |-> Now.line, bill |-> Now.bill, batch |-> Now.batch, qty |-> Now.new]
    OBVIOUS
  <2>3. i = w /\ Now.pc = "write"
    BY <1>1, <1>4, <2>1, <2>2, WriteLineNow
  <2>4. status[Now.bill] \in EDITABLE
    BY <1>1, <2>3 DEF EditOK, Editing
  <2> QED BY <1>2, <2>2, <2>3, <2>4, BillsStayKnown DEF EDITABLE
<1> QED BY <1>3, <1>4

LEMMA PoolStep == OneRequest /\ SerialInv /\ PoolInv /\ [Next]_vars => PoolInv'
<1> SUFFICES ASSUME OneRequest, SerialInv, PoolInv, [Next]_vars, Undisturbed', NoJobs'
             PROVE  ToppedUp(Now)'
  BY LinesStayKnown DEF PoolInv
<1>1. IInv /\ JobsOK /\ CallOK(Now)
  BY NowFits DEF SerialInv
<1>2. /\ Undisturbed /\ ~WorkerFault /\ ~Crash /\ \A r \in Request : ~FailRequest(r)
      /\ \A x \in Batch : /\ \A d \in Delta : ~AdjustStock(x, d)
                          /\ \A q \in Qty \union {0} : ~OverwriteStock(x, q)
  BY <1>1, UndisturbedBefore
<1>3. NoJobs
  BY JobsStay DEF NoJobs
<1>4. ToppedUp(Now) /\ KnownLines
  BY <1>2, <1>3 DEF PoolInv
<1>5. worker.pc = "idle"
  BY <1>1, <1>3 DEF NoJobs, JobsOK, IInv, TypeOK
<1>6. ~WorkerStep
  <2>1. ~TakeJob
    BY <1>1 DEF TakeJob, NoJobs, IInv, TypeOK
  <2> QED BY <1>5, <2>1 DEF WorkerStep, MarkCommitting, BeginTransaction, CommitLine, Commit, InvoiceExists,
                            CompleteJob, SetFailed, ReadBack, GiveBack, FailJob
<1>7. ASSUME NEW r \in Request, Enqueue(r) PROVE FALSE
  <2>1. Now.bill \in Bill /\ job[Now.bill] = "none" /\ AddJob(Now.bill)
    BY <1>1, <1>3, <1>7, EnqueueNow DEF CallOK, NoJobs
  <2> QED BY <1>1, <2>1 DEF AddJob, NoJobs, IInv, TypeOK
<1>8. ASSUME NEW b \in Bill PROVE ~PromoteJob(b)
  BY <1>3 DEF PromoteJob, NoJobs
<1>9. ASSUME OpenItems(Now.batch)' = OpenItems(Now.batch), UNCHANGED <<rows, req>>
      PROVE  ToppedUp(Now)'
  BY <1>4, <1>9 DEF ToppedUp, rows, Now, NonNegative
<1>10. ASSUME NEW b \in Bill, CreateDraft(b)
       PROVE  ToppedUp(Now)'
  <2>1. UNCHANGED <<rows, req, items>> /\ \A i \in items : i.bill # b
    BY <1>4, <1>10 DEF CreateDraft, KnownLines
  <2>2. \A i \in items : status'[i.bill] = status[i.bill]
    BY <1>1, <1>10, <2>1 DEF CreateDraft, IInv, TypeOK
  <2>3. OpenItems(Now.batch)' = OpenItems(Now.batch)
    BY <2>1, <2>2 DEF OpenItems, Now
  <2> QED BY <1>9, <2>1, <2>3
<1>11. CASE UNCHANGED vars
  <2>1. OpenItems(Now.batch)' = OpenItems(Now.batch)
    BY <1>11 DEF vars, OpenItems, Now
  <2> QED BY <1>9, <1>11, <2>1 DEF vars
<1>12. ASSUME NEW r \in Request, ContinueRequest(r)
       PROVE  ToppedUp(Now)'
  BY <1>4, <1>7, <1>12, ReserveLineTops, ReadAvailableTops, ReserveAvailableTops, ReconcileTops, ReconcileLineTops,
     OtherCallsTop DEF ContinueRequest
<1>13. CASE Next
  BY <1>2, <1>4, <1>6, <1>8, <1>10, <1>12, <1>13, StartTops DEF Next
<1> QED BY <1>11, <1>13

\* Only the end of a reconciliation takes a request from there to its end, unless it fails.
LEMMA ReconcilingEnds ==
  ASSUME OneRequest, SerialInv, [Next]_vars, Undisturbed', NEW r \in Request,
         req[r].pc = "reconcile", req'[r].pc = "idle"
  PROVE  ReconcileEnds(r)
<1>1. IInv /\ Now \in Call /\ \A s \in Request : s = r
  BY NowFits, OneCall
<1>2. Now.pc = "reconcile" /\ Now'.pc = "idle" /\ req # req'
  BY <1>1, OneCall DEF Now
<1>3. /\ ~WorkerFault /\ ~Crash /\ \A s \in Request : ~FailRequest(s)
      /\ \A x \in Batch : /\ \A d \in Delta : ~AdjustStock(x, d)
                          /\ \A q \in Qty \union {0} : ~OverwriteStock(x, q)
  BY <1>1, UndisturbedBefore
<1>4. ~StartRequest(r)
  BY <1>1, <1>2, StartedCallFits, BeginIsNow DEF Fits
<1>5. ~ReconcileLine(r)
  BY <1>1, <1>2, ReconcileLineNow DEF Call
<1>6. ~WorkerStep /\ \A b \in Bill : ~CreateDraft(b) /\ ~PromoteJob(b)
  BY <1>2 DEF WorkerStep, TakeJob, MarkCommitting, BeginTransaction, CommitLine, Commit, InvoiceExists, CompleteJob,
              SetFailed, ReadBack, GiveBack, FailJob, CreateDraft, PromoteJob
<1>7. ContinueRequest(r)
  BY <1>1, <1>2, <1>3, <1>4, <1>6 DEF Next, vars
<1>8. ReconcileLine(r) \/ ReconcileEnds(r)
  BY <1>7 DEF ContinueRequest, LoadLine, ReleaseLine, ReserveLine, ReadAvailable, ReserveAvailable, WriteLine,
              ReadOpenLines, ReadPending, ReleaseAllForBill, SetStatus, Enqueue
<1> QED BY <1>5, <1>8

\* While requests do not overlap, the end of an edit leaves no open line of its batch short
\* of stock that is free: the reconciliation hands out all there is, for any number of
\* lines and whatever their quantities, in whatever order it serves them.
THEOREM PoolIsUsedUp == OneRequest => (Spec => PoolIsUsed)
<1> SUFFICES ASSUME OneRequest PROVE Spec => PoolIsUsed
  OBVIOUS
<1> DEFINE Ends == \A r \in Request :
             /\ req[r].pc = "reconcile" /\ req'[r].pc = "idle"
             /\ Undisturbed' /\ \A b \in Bill : job[b] = "none"
             => LET x == req[r].batch IN
                \/ pending[x] >= stock[x]
                \/ pending[x] >= LineTotal(OpenItems(x), x)
<1>1. Init => SerialInv /\ PoolInv
  <2>1. Init => SerialInv
    BY SerialInit, InitInvariant, InitJobs DEF SerialInv
  <2>2. ASSUME Init PROVE PoolInv
    <3>1. Now = Idle /\ KnownLines
      BY <2>2, OneCall, InitInvariant DEF Init, Now, KnownLines
    <3>2. NonNegative(pending) /\ \A p, s, O : Topped(Idle, p, s, O)
      BY <2>2 DEF Init, NonNegative, Topped, Idle, Reconciling, Reserving
    <3> QED BY <3>1, <3>2 DEF PoolInv, ToppedUp
  <2> QED BY <2>1, <2>2
<1>2. SerialInv /\ PoolInv /\ [Next]_vars => (SerialInv /\ PoolInv)'
  BY SerialStep, PoolStep
<1>3. SerialInv /\ PoolInv /\ [Next]_vars => [Ends]_vars
  <2> SUFFICES ASSUME SerialInv, PoolInv, [Next]_vars, NEW r \in Request,
                      req[r].pc = "reconcile", req'[r].pc = "idle", Undisturbed', NoJobs, NEW x, x = req[r].batch
               PROVE  pending[x] >= stock[x] \/ pending[x] >= LineTotal(OpenItems(x), x)
    BY DEF NoJobs
  <2>1. ReconcileEnds(r) /\ IInv /\ Undisturbed
    BY ReconcilingEnds, UndisturbedBefore DEF SerialInv
  <2>2. Now = req[r] /\ Now \in Call /\ CallOK(Now)
    BY <2>1, OneCall DEF Now
  <2>3. /\ Now.pc = "reconcile" /\ Now.todo = {} /\ Now.batch = x /\ x \in Batch /\ Now.left \in Nat
    BY <2>1, <2>2 DEF ReconcileEnds, CallOK, OnBatch, Call
  <2>4. pending[x] >= stock[x] \/ pending[x] >= Now.left + LineTotal(OpenItems(x) \ Now.todo, x)
    BY <2>1, <2>3 DEF PoolInv, ToppedUp, Topped
  <2>5. OpenItems(x) \ {} = OpenItems(x) /\ LineTotal(OpenItems(x) \ {}, x) \in Nat /\ pending[x] \in Int
    BY <2>3, OpenLines, HoldingLines
  <2> QED BY <2>3, <2>4, <2>5
<1>4. PoolIsUsed <=> [][Ends]_vars
  BY DEF PoolIsUsed
<1> QED BY <1>1, <1>2, <1>3, <1>4, PTL DEF Spec
=============================================================================
