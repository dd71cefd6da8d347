----------------------------- MODULE BillTotals -----------------------------
(***************************************************************************)
(* The money of one bill: line discounts, bill discount, round-off, totals *)
(* and payment (billing-calc.util, billing-payment.util, the requests of   *)
(* BillingService that call them, discount.ts of the shared package) and   *)
(* the PaymentModal of the screens it is open on.  Amounts are in half     *)
(* rupees; every line has the same rate and the same discount of the       *)
(* product; tax is a constant part of the rate.  One step is one database  *)
(* command.  Stock is left to StockReservation.                            *)
(***************************************************************************)
EXTENDS Naturals, Sequences, FiniteSetsExt

CONSTANTS
  LineId,
  MaxQty,
  Rate,          \* of one unit, tax included
  PerUnit,       \* discount of the product for one unit
  Off,           \* amounts a cashier types as a discount
  Screen,
  Overlapping     \* requests of different screens may overlap

ASSUME TotalsAssumption ==
  /\ IsFiniteSet(LineId) /\ MaxQty \in Nat \ {0} /\ Rate \in Nat /\ PerUnit \in Nat /\ Off \subseteq Nat
  /\ Overlapping \in BOOLEAN

VARIABLES
  sale,      \* the bill row and its lines
  receipt,   \* its bill_payment rows, cashReceived and balanceReturn
  due,       \* the total each screen shows in its modal
  modal,     \* the screens whose payment modal is open
  ask        \* the request of each screen

totalsVars == <<sale, receipt, due, modal, ask>>

Least(a, b) == IF a < b THEN a ELSE b
Less(a, b) == IF a > b THEN a - b ELSE 0      \* Math.max(0, a - b)
EmptyLine == [qty |-> 0, off |-> 0]
NoReceipt == [mode |-> "none", parts |-> <<>>, cash |-> 0, change |-> 0]
NoAsk == [pc |-> "idle", line |-> CHOOSE l \in LineId : TRUE, put |-> EmptyLine, off |-> 0, sum |-> 0,
          near |-> FALSE, pay |-> NoReceipt]

TotalsInit ==
  /\ sale = [st |-> "DRAFT", lines |-> [l \in LineId |-> EmptyLine], off |-> 0, round |-> 0, grand |-> 0]
  /\ receipt = NoReceipt
  /\ due = [s \in Screen |-> 0] /\ modal = {}
  /\ ask = [s \in Screen |-> NoAsk]

-----------------------------------------------------------------------------
(* discount.ts and billing-calc.util.ts                                    *)
Gross(line) == line.qty * Rate
LineTotal(line) == Less(Gross(line), line.off)
MasterDiscount(qty) == Least(qty * PerUnit, qty * Rate)
ScaleDiscount(off, old, new) == (2 * off * new + old) \div (2 * old)
HalfOff(amount) == Least((amount + 1) \div 2, amount)      \* discountFromPercent(amount, 50)

\* DiscountField: an amount, cut to what the discount is taken from, or a percentage of it.
Discounts(gross) == {Least(off, gross) : off \in Off} \union {HalfOff(gross)}

Raw(lines) == MapThenSumSet(LAMBDA l : LineTotal(lines[l]), LineId)

\* (Faulty variant: a whole rupee is raised, too.)
NextRupee(amount) == 2 * (amount \div 2 + 1)

ToRupee(amount) == 2 * ((amount + 1) \div 2)

\* (Faulty variant: a discount outlives the quantity it was given for.)
KeepDiscount(line, new) ==
  IF line.qty = 0 \/ line.off = MasterDiscount(line.qty) THEN MasterDiscount(new) ELSE line.off

\* resolveLineDiscountForQty(): the product's discount stays the product's, one typed in is scaled.
DiscountForQty(line, new) ==
  IF line.qty = 0 \/ line.off = MasterDiscount(line.qty)
  THEN MasterDiscount(new) ELSE ScaleDiscount(line.off, line.qty, new)

-----------------------------------------------------------------------------
AskTo(s, pc) == ask' = [ask EXCEPT ![s].pc = pc]
MayAsk(s) == ask[s].pc = "idle" /\ (Overlapping \/ \A k \in Screen : ask[k].pc = "idle")
SaleEditable == sale.st = "DRAFT"

(* Editing: the lines, from the screen, the discount of the bill, from the *)
(* modal, and its round-off, from either.                                  *)
ChangeQty(s, l, qty) ==
  /\ MayAsk(s) /\ SaleEditable /\ s \notin modal /\ qty # sale.lines[l].qty
  /\ ask' = [ask EXCEPT ![s] = [NoAsk EXCEPT !.pc = "line", !.line = l,
               !.put = IF qty = 0 THEN EmptyLine
                       ELSE [qty |-> qty, off |-> DiscountForQty(sale.lines[l], qty)]]]
  /\ UNCHANGED <<sale, receipt, due, modal>>

ChangeLineDiscount(s, l, off) ==
  /\ MayAsk(s) /\ SaleEditable /\ s \notin modal
  /\ sale.lines[l] # EmptyLine /\ off <= Gross(sale.lines[l])
  /\ ask' = [ask EXCEPT ![s] = [NoAsk EXCEPT !.pc = "line", !.line = l,
               !.put = [sale.lines[l] EXCEPT !.off = off]]]
  /\ UNCHANGED <<sale, receipt, due, modal>>

\* A line removed meanwhile cannot be updated: the request ends with an error.
WriteBillLine(s) ==
  LET l == ask[s].line
  IN /\ ask[s].pc = "line"
     /\ sale' = [sale EXCEPT !.lines[l] = ask[s].put]
     /\ AskTo(s, "recalc") /\ UNCHANGED <<receipt, due, modal>>

SetBillDiscount(s, off) ==
  /\ MayAsk(s) /\ SaleEditable /\ s \in modal /\ off <= Raw(sale.lines)
  /\ ask' = [ask EXCEPT ![s] = [NoAsk EXCEPT !.pc = "discount", !.off = off]]
  /\ UNCHANGED <<sale, receipt, due, modal>>

WriteBillDiscount(s) ==
  /\ ask[s].pc = "discount"
  /\ sale' = [sale EXCEPT !.off = ask[s].off]
  /\ AskTo(s, "recalc") /\ UNCHANGED <<receipt, due, modal>>

\* setBillRoundOff() reads the bill, then its lines, and writes what it finds.
SetRoundOff(s, nearest) ==
  /\ MayAsk(s) /\ SaleEditable
  /\ ask' = [ask EXCEPT ![s] = [NoAsk EXCEPT !.pc = "roundSum", !.off = sale.off, !.near = nearest]]
  /\ UNCHANGED <<sale, receipt, due, modal>>

WriteRoundOff(s) ==
  LET exact == Less(ask[s].sum, ask[s].off)
      grand == IF ask[s].near THEN ToRupee(exact) ELSE exact
  IN /\ ask[s].pc = "round"
     /\ sale' = [sale EXCEPT !.round = grand - exact, !.grand = grand]
     /\ AskTo(s, "answer") /\ UNCHANGED <<receipt, due, modal>>

-----------------------------------------------------------------------------
(* recalcBill(): the bill is read, then its lines, then the totals written.*)
ReadBill(s) ==
  /\ ask[s].pc = "recalc"
  /\ ask' = [ask EXCEPT ![s].pc = "sum", ![s].off = sale.off]
  /\ UNCHANGED <<sale, receipt, due, modal>>

ReadLines(s) ==
  /\ ask[s].pc \in {"sum", "roundSum"}
  /\ ask' = [ask EXCEPT ![s].sum = Raw(sale.lines), ![s].pc = IF @ = "sum" THEN "totals" ELSE "round"]
  /\ UNCHANGED <<sale, receipt, due, modal>>

\* (Faulty variant: the round-off chosen before stays on the bill.)
WriteTotalsRounded(s) ==
  /\ ask[s].pc = "totals"
  /\ sale' = [sale EXCEPT !.off = ask[s].off, !.grand = Less(ask[s].sum, ask[s].off)]
  /\ AskTo(s, "answer") /\ UNCHANGED <<receipt, due, modal>>

WriteTotals(s) ==
  /\ ask[s].pc = "totals"
  /\ sale' = [sale EXCEPT !.off = ask[s].off, !.round = 0, !.grand = Less(ask[s].sum, ask[s].off)]
  /\ AskTo(s, "answer") /\ UNCHANGED <<receipt, due, modal>>

\* The answer brings the bill as it is by then; it may be lost.
AnswerTotals(s) ==
  /\ ask[s].pc = "answer"
  /\ modal' = IF SaleEditable THEN modal ELSE modal \ {s}
  /\ due' \in {due, [due EXCEPT ![s] = IF s \in modal' THEN sale.grand ELSE 0]}
  /\ ask' = [ask EXCEPT ![s] = NoAsk] /\ UNCHANGED <<sale, receipt>>

-----------------------------------------------------------------------------
(* Payment.                                                                *)

\* openPayment(): the bill is fetched again first.
OpenPayment(s) ==
  /\ s \notin modal /\ SaleEditable /\ \E l \in LineId : sale.lines[l] # EmptyLine
  /\ modal' = modal \union {s} /\ due' = [due EXCEPT ![s] = sale.grand]
  /\ UNCHANGED <<sale, receipt, ask>>

\* Escape closes it also while a request is under way.
ClosePayment(s) ==
  /\ s \in modal
  /\ modal' = modal \ {s} /\ due' = [due EXCEPT ![s] = 0]
  /\ UNCHANGED <<sale, receipt, ask>>

\* What the forms for cash and for a split payment let through: cash that covers what is due
\* and a little more, parts that add up to it.
CashTenders(total) == {[mode |-> "CASH", cash |-> c, splits |-> <<>>] : c \in total .. total + 1}
SplitTenders(total) ==
  {[mode |-> "SPLIT", cash |-> 0, splits |-> <<part, total - part>>] : part \in 1 .. Less(total, 1)}

\* validateAndPay(): CARD stands for every other mode, which names no amount.
Tenders(total) ==
  CashTenders(total) \union SplitTenders(total)
  \union {[mode |-> "CARD", cash |-> 0, splits |-> <<>>]}

\* (Faulty variant: the parts are taken as they come.)
ResolveUnchecked(dto, grand) ==
  CASE dto.mode = "SPLIT" -> grand > 0
    [] dto.mode = "CASH" -> grand > 0 /\ dto.cash >= grand
    [] OTHER -> grand > 0

\* resolvePayments(): what is refused.
Resolves(dto, grand) ==
  /\ grand > 0
  /\ dto.mode = "CASH" => dto.cash >= grand
  /\ dto.mode = "SPLIT" => dto.splits[1] + dto.splits[2] = grand

\* ... and what is recorded.
Resolved(dto, grand) ==
  [mode |-> dto.mode,
   parts |-> IF dto.mode = "SPLIT" THEN dto.splits ELSE <<grand>>,
   cash |-> dto.cash,
   change |-> IF dto.mode = "CASH" THEN dto.cash - grand ELSE 0]

\* completeBill(): checked against the bill that was loaded.
Complete(s, dto) ==
  /\ MayAsk(s) /\ s \in modal /\ due[s] > 0 /\ SaleEditable
  /\ \E l \in LineId : sale.lines[l] # EmptyLine
  /\ Resolves(dto, sale.grand)
  /\ ask' = [ask EXCEPT ![s] = [NoAsk EXCEPT !.pc = "pay", !.pay = Resolved(dto, sale.grand)]]
  /\ UNCHANGED <<sale, receipt, due, modal>>

WritePayment(s) ==
  /\ ask[s].pc = "pay"
  /\ receipt' = ask[s].pay /\ sale' = [sale EXCEPT !.st = "PENDING_COMMIT"]
  /\ AskTo(s, "answer") /\ UNCHANGED <<due, modal>>

-----------------------------------------------------------------------------
TotalsStep(s) ==
  \/ \E l \in LineId : \/ \E qty \in 0 .. MaxQty : ChangeQty(s, l, qty)
                       \/ \E off \in Discounts(Gross(sale.lines[l])) : ChangeLineDiscount(s, l, off)
  \/ \E off \in Discounts(Raw(sale.lines)) : SetBillDiscount(s, off)
  \/ \E nearest \in BOOLEAN : SetRoundOff(s, nearest)
  \/ \E dto \in Tenders(due[s]) : Complete(s, dto)
  \/ WriteBillLine(s) \/ WriteBillDiscount(s) \/ WriteRoundOff(s)
  \/ ReadBill(s) \/ ReadLines(s) \/ WriteTotals(s) \/ AnswerTotals(s)
  \/ OpenPayment(s) \/ ClosePayment(s) \/ WritePayment(s)

TotalsNext == \E s \in Screen : TotalsStep(s)
TotalsSpec == TotalsInit /\ [][TotalsNext]_totalsVars

-----------------------------------------------------------------------------
TotalsTypeOK ==
  /\ sale.st \in {"DRAFT", "PENDING_COMMIT"} /\ sale.off \in Nat /\ sale.grand \in Nat
  /\ sale.round \in {0, 1}
  /\ sale.lines \in [LineId -> [qty : 0 .. MaxQty, off : Nat]]
  /\ due \in [Screen -> Nat] /\ modal \subseteq Screen

AllAnswered == \A s \in Screen : ask[s].pc \in {"idle", "answer"}

\* Whatever was changed in which order, discount before line or round-off before discount,
\* the total is that of the lines less the discount, and a round-off leads to a whole rupee.
TotalsMatchLines ==
  AllAnswered =>
    /\ sale.grand = Less(Raw(sale.lines), sale.off) + sale.round
    /\ sale.round > 0 => sale.grand % 2 = 0

\* The payments of a completed bill come to its total, and the cash to the total and the
\* change, though every screen pays the total that it shows.
PaidInFull ==
  sale.st = "PENDING_COMMIT" =>
    /\ sale.grand > 0
    /\ IF receipt.mode = "SPLIT" THEN receipt.parts[1] + receipt.parts[2] = sale.grand
       ELSE receipt.parts = <<sale.grand>>
    /\ receipt.mode = "CASH" => receipt.cash = sale.grand + receipt.change

\* A line's discount, typed in or the product's, never exceeds the line, also after its
\* quantity has changed.
LineDiscountWithinLine ==
  AllAnswered => \A l \in LineId : sale.lines[l].off <= Gross(sale.lines[l])

=============================================================================
