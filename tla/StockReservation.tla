-------------------------- MODULE StockReservation --------------------------
(***************************************************************************)
(* StockReservationService: the reservation steps that the request         *)
(* handlers share.  Each database transaction is one step; between two     *)
(* awaits every other actor may run.                                       *)
(***************************************************************************)
EXTENDS BillingState

\* max(0, n), as the code clamps what it subtracts.
Clamp(n) == IF n < 0 THEN 0 ELSE n
Least(m, n) == IF m < n THEN m ELSE n

\* The worker's transaction has taken the row with SELECT ... FOR UPDATE.
Locked(x) == worker.taken[x] > 0

Pool(x) == Clamp(stock[x] - pending[x])
CanReserve(x, q) == stock[x] - pending[x] >= q

\* (Faulty variant: the check of the free quantity is dropped.)
ReserveRowUnchecked(x, q) ==
  /\ ~Locked(x)
  /\ pending' = [pending EXCEPT ![x] = @ + q]

\* The transaction of reserve(): check and increment under the row lock.
ReserveRow(x, q) ==
  /\ ~Locked(x)
  /\ CanReserve(x, q)
  /\ pending' = [pending EXCEPT ![x] = @ + q]

\* (Faulty variant: the row is written without taking its lock.)
ReleaseRowUnlocked(x, q) == pending' = [pending EXCEPT ![x] = Clamp(@ - q)]

\* The transaction of release(): the caller's quantity, however much of it was
\* reserved, and never below zero.
ReleaseRow(x, q) ==
  /\ ~Locked(x)
  /\ pending' = [pending EXCEPT ![x] = Clamp(@ - q)]

-----------------------------------------------------------------------------
(* Reserving for one line: reserve(), and reserveAvailable() when that fails. *)

ReserveLine(r) ==
  /\ req[r].pc = "reserve"
  /\ \/ /\ ReserveRow(req[r].batch, req[r].ask)
        /\ Goto(r, req[r].after)
     \/ /\ ~Locked(req[r].batch) /\ ~CanReserve(req[r].batch, req[r].ask)
        /\ Goto(r, "readAvailable")
        /\ UNCHANGED pending
  /\ UNCHANGED <<stock, items, status, sales, bullmq, worker, spent>>

\* reserveAvailable() reads the row without a lock ...
ReadAvailable(r) ==
  /\ req[r].pc = "readAvailable"
  /\ LET free == Pool(req[r].batch) IN
     req' = [req EXCEPT ![r].ask = free,
                        ![r].pc = IF free = 0 THEN req[r].after ELSE "reserveAvailable"]
  /\ UNCHANGED <<rows, items, status, sales, bullmq, worker, spent>>

\* ... and reserves what it saw; if that is gone, the exception ends the request.
ReserveAvailable(r) ==
  /\ req[r].pc = "reserveAvailable"
  /\ \/ /\ ReserveRow(req[r].batch, req[r].ask)
        /\ Goto(r, req[r].after)
     \/ /\ ~Locked(req[r].batch) /\ ~CanReserve(req[r].batch, req[r].ask)
        /\ Finish(r)
        /\ UNCHANGED pending
  /\ UNCHANGED <<stock, items, status, sales, bullmq, worker, spent>>

-----------------------------------------------------------------------------
(* reconcileBatchOpenLines(): after a change of the pool, top up every open *)
(* line of the batch.                                                       *)

OpenItems(x) == {i \in items : i.batch = x /\ status[i.bill] \in EDITABLE}

ReadOpenLines(r) ==
  /\ req[r].pc = "readLines"
  /\ req' = [req EXCEPT ![r].todo = OpenItems(req[r].batch), ![r].pc = "readPending"]
  /\ UNCHANGED <<rows, items, status, sales, bullmq, worker, spent>>

\* All of pending_qty is handed out to the open lines, that of queued bills too.
ReadPending(r) ==
  /\ req[r].pc = "readPending"
  /\ req' = [req EXCEPT ![r].left = Clamp(pending[req[r].batch]), ![r].pc = "reconcile"]
  /\ UNCHANGED <<rows, items, status, sales, bullmq, worker, spent>>

\* What allocatePendingToOpenLines() gives line i of what is left.
Allocated(i, left) == Least(i.qty, left)

\* (Faulty variant: a line's gap is never asked for.)
ReconcileLineNoTopUp(r) ==
  /\ req[r].pc = "reconcile"
  /\ \E i \in req[r].todo :
       req' = [req EXCEPT ![r].todo = @ \ {i}, ![r].left = @ - Allocated(i, @)]
  /\ UNCHANGED <<rows, items, status, sales, bullmq, worker, spent>>

\* One turn of the loop: the next line gets its part, and asks for its gap.  The
\* code serves the oldest line first; here the order of the lines is left open.
ReconcileLine(r) ==
  /\ req[r].pc = "reconcile"
  /\ \E i \in req[r].todo :
       LET have == Allocated(i, req[r].left) IN
       req' = [req EXCEPT ![r].todo = @ \ {i},
                          ![r].left = @ - have,
                          ![r].ask = i.qty - have,
                          ![r].after = "reconcile",
                          ![r].pc = IF i.qty > have THEN "reserve" ELSE "reconcile"]
  /\ UNCHANGED <<rows, items, status, sales, bullmq, worker, spent>>

ReconcileEnds(r) ==
  /\ req[r].pc = "reconcile" /\ req[r].todo = {}
  /\ Finish(r)
  /\ UNCHANGED <<rows, items, status, sales, bullmq, worker, spent>>

-----------------------------------------------------------------------------
\* releaseAllForBill(): one release per item read earlier, then the status is set.
ReleaseAllForBill(r) ==
  /\ req[r].pc = "releaseAll"
  /\ \E i \in req[r].todo :
       /\ ReleaseRow(i.batch, i.qty)
       /\ req' = [req EXCEPT ![r].todo = @ \ {i},
                             ![r].pc = IF req[r].todo = {i} THEN "setStatus" ELSE @]
  /\ UNCHANGED <<stock, items, status, sales, bullmq, worker, spent>>
=============================================================================
