---------------------------- MODULE StockMirror ----------------------------
(***************************************************************************)
(* What Redis and the screens know of one batch: the pending counter of    *)
(* RedisService, the snapshots that StockReservationService publishes, the *)
(* gateway that hands them to the sockets, and the shortage alerts that    *)
(* stockSlice keeps of them at every counter.  Each counter has one bill   *)
(* with at most one line of the batch.  An operation is a chain of         *)
(* transactions and Redis calls and may break anywhere.                    *)
(***************************************************************************)
EXTENDS Integers, Sequences, FiniteSets, SequencesExt

CONSTANTS
  Counter,
  NoOne,
  Stock,       \* what the batch has at first
  MaxWant,
  MaxPushed    \* bound: snapshots under way to a screen when something new begins

ASSUME MirrorAssumption == NoOne \notin Counter /\ IsFiniteSet(Counter) /\ {Stock, MaxWant, MaxPushed} \subseteq Nat

VARIABLES
  row,       \* stock_qty and pending_qty of the batch
  want,      \* the quantity of each counter's open line; 0: no line
  oldest,    \* the lines in the order in which their bills were last changed
  mirror,    \* the pending counter in Redis
  op,        \* the operation under way
  pushed,    \* the snapshots on their way to a screen
  alerts,    \* batchShortageAlerts of each screen: the lines it holds to be short
  missed,    \* the screens that may have missed something: see Cut, Taken and Heartbeat
  said,      \* what the bill that each screen was last sent says of its line
  paying     \* the counters whose payment modal is open

payVars == <<said, paying>>
mirrorVars == <<row, want, oldest, mirror, op, pushed, alerts, missed, said, paying>>

NoOp == [who |-> NoOne, at |-> "idle", kind |-> "none", qty |-> 0, set |-> 0]
Free(r) == IF r.stock > r.pend THEN r.stock - r.pend ELSE 0
Lower(n, by) == IF n > by THEN n - by ELSE 0
Lesser(m, n) == IF m < n THEN m ELSE n

MirrorInit ==
  /\ row = [stock |-> Stock, pend |-> 0] /\ want = [c \in Counter |-> 0] /\ oldest = <<>>
  /\ mirror = 0 /\ op = NoOp
  /\ pushed = [c \in Counter |-> <<>>] /\ alerts = [c \in Counter |-> {}] /\ missed = {}
  /\ said = [c \in Counter |-> "none"] /\ paying = {}

-----------------------------------------------------------------------------
\* allocatePendingToOpenLines(): what the lines before c leave of the pending quantity.
Before(c) == {oldest[i] : i \in {j \in DOMAIN oldest : \E k \in DOMAIN oldest : oldest[k] = c /\ j < k}}
Asked(w, lines) == MapThenSumSet(LAMBDA b : w[b], lines)
Allocation(r, w, c) == Lesser(w[c], Lower(r.pend, Asked(w, Before(c))))

\* A line is short only when nothing is free: "shortageQty = 0" when the pool has some.
IsShort(r, w, c) == Free(r) = 0 /\ Allocation(r, w, c) < w[c]

\* broadcast() and publishLineStockState()
PoolNews(r) == [line |-> NoOne, short |-> FALSE, free |-> Free(r) > 0]
LineNews(r, w, c) == [line |-> c, short |-> IsShort(r, w, c), free |-> Free(r) > 0]

\* Redis hands a snapshot to the gateway, the gateway to every socket in the room "stock".
Publish(news) == pushed' = [c \in Counter |-> pushed[c] \o news]
Silent == UNCHANGED pushed

Room == \A c \in Counter : Len(pushed[c]) <= MaxPushed
Begin(c, kind, n) ==
  /\ op = NoOp /\ Room
  /\ op' = [who |-> c, at |-> IF want[c] > 0 THEN "release" ELSE "reserve", kind |-> kind, qty |-> n, set |-> 0]
SetNext(at, value) == op' = [op EXCEPT !.at = at, !.set = value]

\* A scan adds one piece, or a line of one; an edit sets a quantity; a removal ends the line.
Kinds(c, n) ==
  {k \in {"scan", "edit", "remove"} :
     CASE k = "scan" -> n = want[c] + 1
       [] k = "edit" -> n > 0 /\ want[c] > 0
       [] k = "remove" -> n = 0}

\* scanBarcode(), addProductLine(), changeLineQty() and removeLine(): the old quantity is given
\* back, the new one is reserved, then the open lines of the batch are topped up.
ChangeLine(c, n) ==
  /\ n # want[c] /\ c \notin paying /\ \E kind \in Kinds(c, n) : Begin(c, kind, n)
  /\ UNCHANGED <<row, want, oldest, mirror, pushed, alerts, missed>> /\ UNCHANGED payVars

\* The lines that a screen shows something of, or is about to.
Known(c) == {c} \union alerts[c] \union ({news.line : news \in ToSet(pushed[c])} \intersect Counter)

\* A bill that is written to without a change of stock becomes the one changed last, so that the
\* pending quantity is dealt out in another order, and nobody is told.
Touch(c) ==
  /\ want[c] > 0 /\ oldest' = RemoveFirst(oldest, c) \o <<c>>
  /\ UNCHANGED <<row, want, mirror, pushed, alerts>> /\ UNCHANGED payVars
  /\ missed' = missed \union {d \in Counter : \E e \in Known(d) :
                                Allocation(row, want, e) # Allocation(row, want, e)'}

\* heartbeatBill(), every minute for the bill that is shown.
Heartbeat(c) == op.who # c /\ Touch(c) /\ UNCHANGED op

\* changeLineDiscount()
ChangeDiscount(c) ==
  /\ c \notin paying /\ op = NoOp /\ Room /\ Touch(c)
  /\ op' = [NoOp EXCEPT !.who = c, !.at = "answer", !.kind = "edit"]

ReleaseOld ==
  /\ op.at = "release"
  /\ row' = [row EXCEPT !.pend = Lower(@, want[op.who])]
  /\ SetNext("released", row'.pend)
  /\ Silent /\ UNCHANGED <<want, oldest, mirror, alerts, missed>> /\ UNCHANGED payVars

\* syncPendingQty() with the value that the transaction returned.
SetMirror ==
  /\ op.at \in {"released", "reserved"} /\ mirror' = op.set
  /\ op' = [op EXCEPT !.at = IF @ = "released" THEN "reserve" ELSE "reconcile"]
  /\ Silent /\ UNCHANGED <<row, want, oldest, alerts, missed>> /\ UNCHANGED payVars

\* reserve(), else reserveAvailable(); the line is written and its bill is the latest.  A line
\* that is removed says so at once.
ReserveNew ==
  /\ op.at = "reserve"
  /\ LET c == op.who  n == op.qty
     IN /\ row' = [row EXCEPT !.pend = @ + Lesser(n, Free(row))]
        /\ want' = [want EXCEPT ![c] = n]
        /\ oldest' = RemoveFirst(oldest, c) \o (IF n > 0 THEN <<c>> ELSE <<>>)
        /\ Publish(IF n = 0 THEN <<LineNews(row, want', c)>>
                   ELSE IF Free(row) >= n THEN <<PoolNews(row')>> ELSE <<>>)
  /\ SetNext("reserved", row'.pend)
  /\ UNCHANGED <<mirror, alerts, missed>> /\ UNCHANGED payVars

\* The rows that the top-up leaves: every open line asks for its gap.
TopUp(p, c) == p + Lesser(want[c] - Allocation(row, want, c), Lower(row.stock, p))
ToppedUp ==
  LET pend[n \in 0 .. Len(oldest)] == IF n = 0 THEN row.pend ELSE TopUp(pend[n - 1], oldest[n])
  IN [row EXCEPT !.pend = pend[Len(oldest)]]

\* Every open line of the batch is published.
NewsOfLines(r) == [i \in DOMAIN oldest |-> LineNews(r, want, oldest[i])]

\* reconcileBatchOpenLines()
ReconcileOpenLines ==
  /\ op.at = "reconcile" /\ row' = ToppedUp /\ mirror' = row'.pend
  /\ Publish(NewsOfLines(row')) /\ op' = [op EXCEPT !.at = "answer"]
  /\ UNCHANGED <<want, oldest, alerts, missed>> /\ UNCHANGED payVars

\* mapBill(): the answer says of the line what publishLineStockState() would.
ShortInAnswer(c) == IsShort(row, want, c)

SaidAfter(c) ==
  [said EXCEPT ![c] = IF want[c] = 0 THEN "none" ELSE IF Free(row) > 0 THEN "free"
                      ELSE IF ShortInAnswer(c) THEN "short" ELSE "tight"]

\* syncBatchShortageAlertsFromBill(): after an edit the answer replaces what the screen knew of
\* the batch, after a removal of its only line, or a scan, it does not.
BillAnswer ==
  /\ op.at = "answer" /\ op' = NoOp
  /\ said' = SaidAfter(op.who)
  /\ IF op.kind = "edit"
     THEN /\ alerts' = [alerts EXCEPT ![op.who] = IF ShortInAnswer(op.who) THEN {op.who} ELSE {}]
          /\ missed' = IF pushed[op.who] = <<>> THEN missed \ {op.who} ELSE missed
     ELSE UNCHANGED <<alerts, missed>>
  /\ UNCHANGED <<row, want, oldest, mirror, pushed, paying>>

-----------------------------------------------------------------------------
\* A bill is closed.  If its line was not reserved in full, what it gave back or took was of
\* other lines, and nobody tells them.
Taken(c) == Allocation(row, want, c) < want[c]
Leaves(c) ==
  /\ want' = [want EXCEPT ![c] = 0] /\ oldest' = RemoveFirst(oldest, c)
  /\ said' = [said EXCEPT ![c] = "none"] /\ paying' = paying \ {c}
  /\ missed' = IF Taken(c) THEN Counter ELSE missed

\* releaseAllForBill() of a cancelled or swept bill: the open lines are not topped up.
CancelBill(c) ==
  /\ want[c] > 0 /\ op = NoOp /\ Room
  /\ row' = [row EXCEPT !.pend = Lower(@, want[c])] /\ mirror' = row'.pend
  /\ Publish(<<PoolNews(row')>>) /\ Leaves(c) /\ UNCHANGED <<op, alerts>>

\* batchShortageAppliesToLine(): an alert of the own line, or of a line of another counter.
AlertsOnLine(c) == alerts[c]

\* lineItemHasShortage(): no alert counts if something was free when the bill was sent.
Blocked(c) == said[c] = "short" \/ (said[c] = "tight" /\ AlertsOnLine(c) # {})

\* openPayment(): the bill that is fetched then is not looked at again.
StartPaying(c) ==
  /\ want[c] > 0 /\ c \notin paying /\ op.who # c /\ ~Blocked(c)
  /\ paying' = paying \union {c} /\ said' = SaidAfter(c)
  /\ UNCHANGED <<row, want, oldest, mirror, op, pushed, alerts, missed>>

StopPaying(c) ==
  /\ c \in paying /\ paying' = paying \ {c}
  /\ UNCHANGED <<row, want, oldest, mirror, op, pushed, alerts, missed, said>>

\* The commit of the worker takes the stock and what is pending of the batch, whose it may be.
CommitBill(c) ==
  /\ c \in paying /\ op = NoOp /\ Room /\ row.stock >= want[c] /\ row.pend >= want[c]
  /\ row' = [stock |-> row.stock - want[c], pend |-> row.pend - want[c]] /\ mirror' = row'.pend
  /\ Publish(<<PoolNews(row')>>) /\ Leaves(c) /\ UNCHANGED <<op, alerts>>

\* A failed commit gives back what the lines ask for, reserved or not; the counter is set, and
\* then decremented once more by releasePendingForBill().
FailCommit(c) ==
  /\ c \in paying /\ op = NoOp /\ Room
  /\ row' = [row EXCEPT !.pend = @ - want[c]] /\ mirror' = row'.pend - want[c]
  /\ Publish(<<PoolNews(row')>>) /\ Leaves(c) /\ UNCHANGED <<op, alerts>>

\* (Faulty variant: the comparison with the row is left out of the repair.)
RepairNothing == mirror

\* reconcileRedisPending(), every ten minutes, for batches with a pending quantity only; without
\* a difference it only publishes the pool once more, which is left out.
RepairValue == row.pend
RepairMirror ==
  /\ row.pend > 0 /\ mirror # row.pend
  /\ mirror' = RepairValue /\ Publish(<<PoolNews(row)>>)
  /\ UNCHANGED <<row, want, oldest, op, alerts, missed>> /\ UNCHANGED payVars

\* The server stops: the operation ends where it is, every socket is cut.
ServerStops ==
  /\ op # NoOp /\ op' = NoOp /\ missed' = Counter
  /\ pushed' = [c \in Counter |-> <<>>]
  /\ UNCHANGED <<row, want, oldest, mirror, alerts>> /\ UNCHANGED payVars

\* A socket is cut and comes back: nothing is sent again.
Cut(c) ==
  /\ pushed[c] # <<>> /\ pushed' = [pushed EXCEPT ![c] = <<>>] /\ missed' = missed \union {c}
  /\ UNCHANGED <<row, want, oldest, mirror, op, alerts>> /\ UNCHANGED payVars

-----------------------------------------------------------------------------
\* (Faulty variant: the alerts stay when the pool has some again.)
KeepAlerts(known, news) ==
  IF news.line = NoOne THEN known ELSE IF news.short THEN known \union {news.line} ELSE known

\* (Faulty variant: a snapshot of no line clears the batch, too.)
WipeOnPool(known, news) ==
  IF news.free \/ news.line = NoOne THEN {}
  ELSE IF news.short THEN known \union {news.line} ELSE known \ {news.line}

\* updateBatchStock(): a free pool clears the batch; a snapshot of no line changes nothing.
AlertsAfter(known, news) ==
  IF news.free THEN {}
  ELSE IF news.line = NoOne THEN known
  ELSE IF news.short THEN known \union {news.line} ELSE known \ {news.line}

Receive(c) ==
  /\ pushed[c] # <<>> /\ pushed' = [pushed EXCEPT ![c] = Tail(@)]
  /\ alerts' = [alerts EXCEPT ![c] = AlertsAfter(@, Head(pushed[c]))]
  /\ UNCHANGED <<row, want, oldest, mirror, op, missed>> /\ UNCHANGED payVars

MirrorNext ==
  \/ \E c \in Counter :
       \/ \E n \in 0 .. MaxWant : ChangeLine(c, n)
       \/ CancelBill(c) \/ CommitBill(c) \/ FailCommit(c) \/ Cut(c) \/ Receive(c)
       \/ StartPaying(c) \/ StopPaying(c) \/ Heartbeat(c) \/ ChangeDiscount(c)
  \/ ReleaseOld \/ SetMirror \/ ReserveNew \/ ReconcileOpenLines \/ BillAnswer
  \/ RepairMirror \/ ServerStops

MirrorFairness ==
  /\ WF_mirrorVars(RepairMirror) /\ WF_mirrorVars(ReleaseOld) /\ WF_mirrorVars(SetMirror)
  /\ WF_mirrorVars(ReserveNew) /\ WF_mirrorVars(ReconcileOpenLines) /\ WF_mirrorVars(BillAnswer)
  /\ \A c \in Counter : WF_mirrorVars(Receive(c))

MirrorSpec == MirrorInit /\ [][MirrorNext]_mirrorVars /\ MirrorFairness

-----------------------------------------------------------------------------
MirrorTypeOK ==
  /\ row.stock \in 0 .. Stock /\ row.pend \in Int /\ row.pend <= Stock /\ want \in [Counter -> 0 .. MaxWant]
  /\ ToSet(oldest) = {c \in Counter : want[c] > 0} /\ mirror \in Int
  /\ \A c \in Counter : alerts[c] \subseteq Counter
  /\ {missed, paying} \subseteq SUBSET Counter
  /\ said \in [Counter -> {"none", "free", "tight", "short"}]

\* A counter that has missed nothing, or has had an answer of its own since, and whose own line
\* is reserved, shows a shortage only of a line that is short: an alert that is over does not
\* keep its cashier from payment.
AlertsAreTrue ==
  op = NoOp => \A c \in Counter :
    c \notin missed /\ pushed[c] = <<>> /\ want[c] > 0 /\ Allocation(row, want, c) = want[c]
      => \A d \in alerts[c] : IsShort(row, want, d)

\* A cashier whose own line is short sees it, and cannot pay.
OwnShortageShown ==
  op = NoOp => \A c \in Counter :
    c \notin missed /\ pushed[c] = <<>> /\ IsShort(row, want, c) => c \in alerts[c]

\* A counter in Redis that differs from the row is put right, as long as something is reserved.
MirrorRepaired == mirror # row.pend ~> (mirror = row.pend \/ row.pend <= 0)
=============================================================================
