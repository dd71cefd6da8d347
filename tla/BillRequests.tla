---------------------------- MODULE BillRequests ----------------------------
(***************************************************************************)
(* BillingService and the sweep of ReservationCleanupService: the handlers *)
(* of one bill.  A handler loads the bill and checks its status once, at   *)
(* its start, and never again.  A request that is refused at its start     *)
(* changes nothing and is left out.  Access rights, prices and customers   *)
(* are not modelled here.                                                  *)
(***************************************************************************)
EXTENDS StockReservation

\* A handler starts: it leaves Idle with the values it has loaded.
Begin(r, op, call) ==
  /\ op \in Ops
  /\ req[r].pc = "idle"
  /\ Spend("request")
  /\ req' = [req EXCEPT ![r] = call]
  /\ UNCHANGED <<rows, items, status, sales, bullmq, worker>>

CreateDraft(b) ==
  /\ status[b] = "NEW"
  /\ status' = [status EXCEPT ![b] = "DRAFT"]
  /\ UNCHANGED <<rows, items, sales, req, bullmq, worker, spent>>

-----------------------------------------------------------------------------
(* Lines *)

\* addProductLine() and scanLine(): a batch with free stock, and a new line for it, l ...
AddLine(r, b, x, q, l) ==
  /\ status[b] \in EDITABLE
  /\ Pool(x) > 0
  /\ \A i \in ItemsOf(b) : i.batch # x
  /\ \A i \in items : i.id # l
  /\ \A s \in Request : req[s].line # l
  /\ Begin(r, "add", [Idle EXCEPT !.op = "add", !.pc = "reserve", !.bill = b, !.line = l,
                                  !.batch = x, !.new = q, !.ask = q])

\* ... or, when the bill has a line i of that batch, a change of its quantity, from
\* the quantity read here.
AddToLine(r, i, q) ==
  /\ status[i.bill] \in EDITABLE
  /\ Pool(i.batch) > 0
  /\ i.qty + q <= MaxQty
  /\ Begin(r, "add", [Idle EXCEPT !.op = "qty", !.pc = "load", !.bill = i.bill,
                                  !.line = i.id, !.batch = i.batch, !.new = i.qty + q])

\* changeLineQty() loads the bill again: the line's old quantity is read here.
LoadLine(r) ==
  /\ req[r].pc = "load"
  /\ \/ /\ status[req[r].bill] \in EDITABLE
        /\ \E i \in ItemsOf(req[r].bill) :
             /\ i.id = req[r].line
             /\ req' = [req EXCEPT ![r].old = i.qty, ![r].pc = "release"]
     \/ /\ \/ status[req[r].bill] \notin EDITABLE
           \/ \A i \in ItemsOf(req[r].bill) : i.id # req[r].line
        /\ Finish(r)
  /\ UNCHANGED <<rows, items, status, sales, bullmq, worker, spent>>

\* (Faulty variant: the status of the bill is not checked.)
UpdateLineQtyAnyStatus(r, i, q) ==
  Begin(r, "qty", [Idle EXCEPT !.op = "qty", !.pc = "release", !.bill = i.bill,
                               !.line = i.id, !.batch = i.batch, !.old = i.qty, !.new = q])

UpdateLineQty(r, i, q) ==
  /\ status[i.bill] \in EDITABLE
  /\ Begin(r, "qty", [Idle EXCEPT !.op = "qty", !.pc = "release", !.bill = i.bill,
                                  !.line = i.id, !.batch = i.batch, !.old = i.qty, !.new = q])

RemoveLine(r, i) ==
  /\ status[i.bill] \in EDITABLE
  /\ Begin(r, "remove", [Idle EXCEPT !.op = "remove", !.pc = "release", !.bill = i.bill,
                                     !.line = i.id, !.batch = i.batch, !.old = i.qty])

\* (Faulty variant: the old quantity is not given up.)
SkipRelease(r) ==
  /\ req[r].pc = "release"
  /\ req' = [req EXCEPT ![r].ask = req[r].new,
                        ![r].pc = IF req[r].op = "remove" THEN "write" ELSE "reserve"]
  /\ UNCHANGED <<rows, items, status, sales, bullmq, worker, spent>>

\* publishLineShortageAlert(): a client that types a quantity beyond the stock tells the
\* others, whatever the status of the bill; that ends in a reconciliation too.
ShortageAlert(r, i) ==
  Begin(r, "alert", [Idle EXCEPT !.op = "alert", !.pc = "readLines", !.bill = i.bill,
                                 !.batch = i.batch])

\* changeLineQty() and removeLine() first give up the line's whole quantity.
ReleaseLine(r) ==
  /\ req[r].pc = "release"
  /\ ReleaseRow(req[r].batch, req[r].old)
  /\ req' = [req EXCEPT ![r].ask = req[r].new,
                        ![r].pc = IF req[r].op = "remove" THEN "write" ELSE "reserve"]
  /\ UNCHANGED <<stock, items, status, sales, bullmq, worker, spent>>

\* billItem.create, update or delete; update and delete throw when the row is gone.
\* Then the totals are recalculated and the open lines of the batch reconciled.
WriteLine(r) ==
  /\ req[r].pc = "write"
  /\ LET c == req[r]
         row == {i \in items : i.id = c.line}
         written == [id |-> c.line, bill |-> c.bill, batch |-> c.batch, qty |-> c.new]
     IN \/ /\ c.op = "add" \/ row # {}
           /\ items' = (items \ row) \union (IF c.op = "remove" THEN {} ELSE {written})
           /\ req' = [req EXCEPT ![r] = [Idle EXCEPT !.op = c.op, !.pc = "readLines",
                                                     !.bill = c.bill, !.batch = c.batch]]
        \/ /\ c.op # "add" /\ row = {}
           /\ Finish(r)
           /\ UNCHANGED items
  /\ UNCHANGED <<rows, status, sales, bullmq, worker, spent>>

-----------------------------------------------------------------------------
(* The status of the bill: read when the handler starts, written later without *)
(* looking at it again.                                                        *)

HoldBill(r, b) ==
  /\ status[b] \in EDITABLE /\ ItemsOf(b) # {}
  /\ Begin(r, "hold", [Idle EXCEPT !.op = "hold", !.pc = "setStatus", !.bill = b])

ResumeBill(r, b) ==
  /\ status[b] = "HOLD"
  /\ Begin(r, "resume", [Idle EXCEPT !.op = "resume", !.pc = "setStatus", !.bill = b])

\* A bill that waits in the queue can be cancelled too; its job stays there.
CancelBill(r, b) ==
  /\ status[b] \in EDITABLE \union {"PENDING_COMMIT"}
  /\ Begin(r, "cancel", [Idle EXCEPT !.op = "cancel", !.bill = b, !.todo = ItemsOf(b),
                           !.pc = IF ItemsOf(b) = {} THEN "setStatus" ELSE "releaseAll"])

\* releaseStaleBillReservations(): an open bill that nobody has touched for
\* RESERVATION_INACTIVITY_MINUTES when the sweep reads it; its turn comes later.
SweepStaleBill(r, b) ==
  /\ status[b] \in EDITABLE /\ ItemsOf(b) # {}
  /\ \A s \in Request : req[s].bill # b
  /\ Begin(r, "sweep", [Idle EXCEPT !.op = "sweep", !.bill = b, !.todo = ItemsOf(b),
                                    !.pc = "releaseAll"])

CleanupEmptyDraft(r, b) ==
  /\ status[b] = "DRAFT" /\ ItemsOf(b) = {}
  /\ Begin(r, "tidy", [Idle EXCEPT !.op = "tidy", !.pc = "setStatus", !.bill = b])

\* completeBill(): payments are checked elsewhere (a refusal changes nothing).
CompleteBill(r, b) ==
  /\ status[b] \in EDITABLE /\ ItemsOf(b) # {}
  /\ Begin(r, "complete", [Idle EXCEPT !.op = "complete", !.pc = "setStatus", !.bill = b])

Target(op) ==
  CASE op = "hold" -> "HOLD"
    [] op = "resume" -> "DRAFT"
    [] op = "complete" -> "PENDING_COMMIT"
    [] OTHER -> "CANCELLED"

SetStatus(r) ==
  /\ req[r].pc = "setStatus"
  /\ status' = [status EXCEPT ![req[r].bill] = Target(req[r].op)]
  /\ IF req[r].op = "complete" THEN Goto(r, "enqueue") ELSE Finish(r)
  /\ UNCHANGED <<rows, items, sales, bullmq, worker, spent>>

\* An error of the database, of Redis or of the queue ends a handler where it stands.
FailRequest(r) ==
  /\ req[r].pc # "idle"
  /\ Spend("event")
  /\ Finish(r)
  /\ UNCHANGED <<rows, items, status, sales, bullmq, worker>>
=============================================================================
