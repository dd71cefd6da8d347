---------------------------- MODULE BillingState ----------------------------
(***************************************************************************)
(* The rows, the queue and the in-flight work that the billing modules     *)
(* share.  A quantity is a number of units: the decimal tolerances of the  *)
(* code (0.0001 and 0.001) lie below one unit, so its comparisons are      *)
(* exact here.                                                             *)
(***************************************************************************)
EXTENDS Integers, FiniteSets, Sequences

CONSTANTS
  Bill, Batch, Line,       \* identifiers of bills, batch_stock rows, bill_item rows
  Request,                 \* the API requests (and sweeps) that can be in flight at once
  Qty,                     \* the quantities a client asks for
  MaxQty,                  \* bound: no line grows beyond it
  Delta,                   \* the corrections a stock adjustment can make
  InitStock,               \* [Batch -> Nat]
  Attempts,                \* attempts of a commit job (queue.module.ts: 3)
  Ops,                     \* the operations the clients use
  Limit,                   \* bound: how many requests start, and how many other events
                           \* (adjustments, faults, crashes) happen
  NoBill, NoLine, NoBatch  \* "undefined" in the local state of a request

Op == {"add", "qty", "remove", "alert", "hold", "resume", "cancel", "sweep", "tidy", "complete"}
Kind == {"request", "event"}

ASSUME SetsAssumption ==
  /\ NoBill \notin Bill /\ NoLine \notin Line /\ NoBatch \notin Batch
  /\ Qty \subseteq Nat \ {0} /\ MaxQty \in Nat /\ Delta \subseteq Int /\ Ops \subseteq Op
ASSUME ValuesAssumption ==
  /\ InitStock \in [Batch -> Nat]
  /\ Attempts \in Nat \ {0}
  /\ Limit \in [Kind -> Nat]

VARIABLES
  stock,     \* batch_stock.stock_qty
  pending,   \* batch_stock.pending_qty: what bills hold of the stock
  items,     \* the bill_item rows
  status,    \* bill.status, "NEW" before the row exists
  invoiced,  \* the bills an invoice row refers to (invoice.bill_id is unique)
  moved,     \* the SALE_COMMIT stock movements, summed per bill and batch
  req,       \* the local state of each request in flight
  queue,     \* the waiting list of the bill-commit queue, oldest first
  job,       \* the state of the job `bill-<id>` in BullMQ
  attempts,  \* job.attemptsMade
  worker,    \* the local state of the only queue worker
  spent      \* how many requests and events there have been (bounds only)

rows     == <<stock, pending>>
sales    == <<invoiced, moved>>
bullmq   == <<queue, job, attempts>>
vars     == <<rows, items, status, sales, req, bullmq, worker, spent>>

Status == {"NEW", "DRAFT", "HOLD", "PENDING_COMMIT", "COMMITTING", "COMPLETED",
           "FAILED_STOCK", "CANCELLED"}
EDITABLE == {"DRAFT", "HOLD"}
Item == [id : Line, bill : Bill, batch : Batch, qty : Nat \ {0}]

\* A request: where its handler awaits, and the values it read before that await.
Call == [pc    : {"idle", "load", "release", "reserve", "readAvailable", "reserveAvailable",
                  "write", "readLines", "readPending", "reconcile", "releaseAll",
                  "setStatus", "enqueue"},
         op    : Op \union {"none"},
         bill  : Bill \union {NoBill},
         line  : Line \union {NoLine},
         batch : Batch \union {NoBatch},
         old   : Nat,              \* the line's quantity when the bill was loaded
         new   : Nat,              \* the quantity the line gets
         ask   : Nat,              \* the quantity to reserve
         after : {"write", "reconcile"},   \* where the reservation continues
         todo  : SUBSET Item,      \* rows read earlier and still to be handled
         left  : Nat]              \* pending (or free) quantity read earlier

Idle == [pc |-> "idle", op |-> "none", bill |-> NoBill, line |-> NoLine, batch |-> NoBatch,
         old |-> 0, new |-> 0, ask |-> 0, after |-> "write", todo |-> {}, left |-> 0]

JobState == {"none", "waiting", "delayed", "active", "completed", "failed"}

\* The worker: its place in process(), the items it read and, inside its
\* transaction, what it has taken so far of each batch row it holds a lock on.
Worker == [pc    : {"idle", "mark", "begin", "lines", "after", "fail", "readBack", "giveBack"},
           bill  : Bill \union {NoBill},
           todo  : SUBSET Item,
           taken : [Batch -> Nat]]

NoneTaken == [x \in Batch |-> 0]
Resting == [pc |-> "idle", bill |-> NoBill, todo |-> {}, taken |-> NoneTaken]

ItemsOf(b) == {i \in items : i.bill = b}

\* One more of kind k: a bound on the model, not on the program.
Spend(k) == spent[k] < Limit[k] /\ spent' = [spent EXCEPT ![k] = @ + 1]

\* Handlers go on at p, or end (an answer or an exception: both leave the rows as they are).
Goto(r, p) == req' = [req EXCEPT ![r].pc = p]
Finish(r) == req' = [req EXCEPT ![r] = Idle]
=============================================================================
