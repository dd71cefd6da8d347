------------------------------ MODULE Returns ------------------------------
(***************************************************************************)
(* ReturnsService: a return of lines of a completed bill is drafted, then  *)
(* completed or cancelled.  A handler reads and checks first and writes    *)
(* later; only the last part of completeReturn() is a transaction.         *)
(* Refunds, reasons and the bill look-up for display are left out.  No     *)
(* handler here looks at other stock, so the stock is that of the returns  *)
(* alone.                                                                  *)
(***************************************************************************)
EXTENDS Integers, FiniteSets, FiniteSetsExt

CONSTANTS
  BillItem,           \* the lines of completed bills
  Batch, Bill,
  Return,             \* identifiers of sales_return rows
  Request,            \* the API requests that can be in flight at once
  Sold,               \* [BillItem -> Nat \ {0}], bill_item.qty
  BillOf, BatchOf,    \* of a bill item
  InitStock,          \* [Batch -> Nat], after the sales
  Drafts,             \* the sets of lines that clients send
  NoReturn

\* A line of a request or of a draft; no is its place.
Line == [no : Nat, item : BillItem, qty : Nat \ {0}]

ASSUME ReturnsAssumption ==
  /\ Sold \in [BillItem -> Nat \ {0}]
  /\ BillOf \in [BillItem -> Bill] /\ BatchOf \in [BillItem -> Batch]
  /\ InitStock \in [Batch -> Nat]
  /\ Drafts \subseteq SUBSET Line
  /\ IsFiniteSet(BillItem) /\ \A d \in Drafts : IsFiniteSet(d)
  /\ NoReturn \notin Return

VARIABLES
  returns,   \* the sales_return rows with their items
  lastNo,    \* return_sequence.last_no
  stock,     \* batch_stock.stock_qty
  shelved,   \* the SALE_RETURN movements, summed per bill item
  req        \* the requests in flight

vars == <<returns, lastNo, stock, shelved, req>>

Type == {"FULL", "PARTIAL"}
Row == [status : {"none", "DRAFT", "COMPLETED", "CANCELLED"},
        type : Type, lines : SUBSET Line, returnNo : Nat]
Call == [pc : {"idle", "create", "check", "commit", "cancel"},
         ret : Return \union {NoReturn}, type : Type, lines : SUBSET Line]

NoRow == [status |-> "none", type |-> "PARTIAL", lines |-> {}, returnNo |-> 0]
Idle == [pc |-> "idle", ret |-> NoReturn, type |-> "PARTIAL", lines |-> {}]

Init ==
  /\ returns = [n \in Return |-> NoRow]
  /\ lastNo = 0
  /\ stock = InitStock
  /\ shelved = [i \in BillItem |-> 0]
  /\ req = [r \in Request |-> Idle]

-----------------------------------------------------------------------------
QtyOf(lines, i) == MapThenSumSet(LAMBDA l : l.qty, {l \in lines : l.item = i})

Completed == {n \in Return : returns[n].status = "COMPLETED"}

\* computeReturnableQty() of one bill item: what was sold less what completed returns,
\* other than those in except, took back.
Returnable(i, except) ==
  LET left == Sold[i] - MapThenSumSet(LAMBDA n : QtyOf(returns[n].lines, i), Completed \ except)
  IN IF left < 0 THEN 0 ELSE left

ItemsOf(b) == {i \in BillItem : BillOf[i] = b}

\* The line the code finds for a bill item: the first one.
FirstLine(lines, i) ==
  {l \in lines : l.item = i /\ \A k \in lines : k.item = i => l.no <= k.no}

\* (Faulty variant: a full return may leave items out.)
ValidPartialLines(b, type, lines) ==
  /\ lines # {}
  /\ \A l \in lines : l.item \in ItemsOf(b) /\ l.qty <= Returnable(l.item, {})

\* validateReturnLines(): each line by itself; FULL has to take all that is left.
ValidLines(b, type, lines) ==
  /\ lines # {}
  /\ \A l \in lines : l.item \in ItemsOf(b) /\ l.qty <= Returnable(l.item, {})
  /\ type = "FULL" =>
       \A i \in ItemsOf(b) : \E l \in FirstLine(lines, i) : l.qty >= Returnable(i, {})

\* The type the draft gets: FULL as asked, or when the lines take back whole items,
\* as many as the bill has.
DraftType(b, type, lines) ==
  IF \/ type = "FULL"
     \/ /\ Cardinality(lines) = Cardinality(ItemsOf(b))
        /\ \A l \in lines : l.qty >= Sold[l.item]
  THEN "FULL" ELSE "PARTIAL"

-----------------------------------------------------------------------------
(* createReturn() *)

CreateReturn(r, b, type, lines) ==
  /\ req[r].pc = "idle"
  /\ ValidLines(b, type, lines)
  /\ req' = [req EXCEPT ![r] = [Idle EXCEPT !.pc = "create", !.lines = lines,
                                            !.type = DraftType(b, type, lines)]]
  /\ UNCHANGED <<returns, lastNo, stock, shelved>>

InsertDraft(r) ==
  /\ req[r].pc = "create"
  /\ \E n \in Return :
       /\ returns[n].status = "none"
       /\ returns' = [returns EXCEPT ![n] = [NoRow EXCEPT !.status = "DRAFT", !.type = req[r].type,
                                                          !.lines = req[r].lines]]
  /\ req' = [req EXCEPT ![r] = Idle]
  /\ UNCHANGED <<lastNo, stock, shelved>>

-----------------------------------------------------------------------------
(* completeReturn(): the draft, then what is returnable, then the transaction. *)

CompleteReturn(r, n) ==
  /\ req[r].pc = "idle"
  /\ returns[n].status = "DRAFT"
  /\ req' = [req EXCEPT ![r] = [Idle EXCEPT !.pc = "check", !.ret = n, !.lines = returns[n].lines]]
  /\ UNCHANGED <<returns, lastNo, stock, shelved>>

\* (Faulty variant: what was checked when the draft was created is not checked again.)
CheckNothing(r) ==
  /\ req[r].pc = "check"
  /\ req' = [req EXCEPT ![r].pc = "commit"]
  /\ UNCHANGED <<returns, lastNo, stock, shelved>>

CheckReturnable(r) ==
  /\ req[r].pc = "check"
  /\ LET fits == \A l \in req[r].lines : l.qty <= Returnable(l.item, {req[r].ret}) IN
     req' = [req EXCEPT ![r] = IF fits THEN [@ EXCEPT !.pc = "commit"] ELSE Idle]
  /\ UNCHANGED <<returns, lastNo, stock, shelved>>

\* (Faulty variant: the sequence is read and not incremented.)
KeepReturnNo == IF lastNo = 0 THEN 1 ELSE lastNo

\* The upsert of the sequence.
NextReturnNo == lastNo + 1

\* (Faulty variant: of each batch only the first line is put back.)
FirstBatchQty(lines, x) ==
  LET ofBatch == {l \in lines : BatchOf[l.item] = x} IN
  MapThenSumSet(LAMBDA l : l.qty, {l \in ofBatch : \A k \in ofBatch : l.no <= k.no})

BatchQty(lines, x) == MapThenSumSet(LAMBDA l : l.qty, {l \in lines : BatchOf[l.item] = x})

\* (Faulty variant: qtyDelta has the sign of a sale.)
TakeFromShelf(lines) == stock' = [x \in Batch |-> stock[x] - BatchQty(lines, x)]

\* recordInTransaction() for each line.
Shelve(lines) == stock' = [x \in Batch |-> stock[x] + BatchQty(lines, x)]

CommitReturn(r) ==
  /\ req[r].pc = "commit"
  /\ lastNo' = NextReturnNo
  /\ Shelve(req[r].lines)
  /\ shelved' = [i \in BillItem |-> shelved[i] + QtyOf(req[r].lines, i)]
  /\ returns' = [returns EXCEPT ![req[r].ret].status = "COMPLETED",
                                ![req[r].ret].returnNo = NextReturnNo]
  /\ req' = [req EXCEPT ![r] = Idle]

-----------------------------------------------------------------------------
(* cancelReturn(): checked, then written without a condition. *)

\* (Faulty variant: the status is not checked.)
CancelAnyReturn(r, n) ==
  /\ req[r].pc = "idle"
  /\ returns[n].status # "none"
  /\ req' = [req EXCEPT ![r] = [Idle EXCEPT !.pc = "cancel", !.ret = n]]
  /\ UNCHANGED <<returns, lastNo, stock, shelved>>

CancelReturn(r, n) ==
  /\ req[r].pc = "idle"
  /\ returns[n].status = "DRAFT"
  /\ req' = [req EXCEPT ![r] = [Idle EXCEPT !.pc = "cancel", !.ret = n]]
  /\ UNCHANGED <<returns, lastNo, stock, shelved>>

WriteCancelled(r) ==
  /\ req[r].pc = "cancel"
  /\ returns' = [returns EXCEPT ![req[r].ret].status = "CANCELLED"]
  /\ req' = [req EXCEPT ![r] = Idle]
  /\ UNCHANGED <<lastNo, stock, shelved>>

\* An error, or a restart of the server, ends a handler between two awaits.
FailRequest(r) ==
  /\ req[r].pc # "idle"
  /\ req' = [req EXCEPT ![r] = Idle]
  /\ UNCHANGED <<returns, lastNo, stock, shelved>>

Next ==
  \E r \in Request :
    \/ \E b \in Bill, type \in Type, lines \in Drafts : CreateReturn(r, b, type, lines)
    \/ \E n \in Return : CompleteReturn(r, n) \/ CancelReturn(r, n)
    \/ InsertDraft(r) \/ CheckReturnable(r) \/ CommitReturn(r) \/ WriteCancelled(r)
    \/ FailRequest(r)

Spec == Init /\ [][Next]_vars

-----------------------------------------------------------------------------
\* The variables hold values of their types; the stock stays a natural number.
TypeOK ==
  /\ returns \in [Return -> Row]
  /\ lastNo \in Nat
  /\ stock \in [Batch -> Nat]
  /\ shelved \in [BillItem -> Nat]
  /\ req \in [Request -> Call]

\* No two returns have the same number: the sequence is incremented inside the
\* transaction, whatever completions overlap or are cut short.
ReturnNumbersUnique ==
  \A m, n \in Return :
    returns[m].returnNo = returns[n].returnNo /\ returns[m].returnNo # 0 => m = n

-----------------------------------------------------------------------------
(* While requests do not overlap *)

\* Nobody brings back more than was sold, whatever drafts are open side by side.
ReturnedWithinSold == \A i \in BillItem : shelved[i] <= Sold[i]

\* The stock, the movements and the completed returns tell the same story.
StockMatchesReturns ==
  /\ \A i \in BillItem :
       shelved[i] = MapThenSumSet(LAMBDA n : QtyOf(returns[n].lines, i), Completed)
  /\ \A x \in Batch :
       stock[x] = InitStock[x] + MapThenSumSet(LAMBDA i : shelved[i], {i \in BillItem : BatchOf[i] = x})

\* When a return that calls itself FULL is completed, nothing of its bill is left to
\* return, although other returns may have been completed since it was drafted.
FullReturnLeavesNothing ==
  \A n \in Completed : returns[n].type = "FULL" =>
    \A l \in returns[n].lines, i \in BillItem :
      BillOf[i] = BillOf[l.item] => Returnable(i, {}) = 0

\* A completed return stays as it is: its stock is on the shelf.
CompletedIsFinal ==
  [][\A n \in Return : returns[n].status = "COMPLETED" => returns'[n] = returns[n]]_vars
=============================================================================
