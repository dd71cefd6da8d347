---------------------------- MODULE StockLedger ----------------------------
(***************************************************************************)
(* What the billing system promises about physical stock, with no          *)
(* reservations, queue or requests in sight: a batch's quantity on hand    *)
(* changes only when one bill is sold, once, whole and within the stock,   *)
(* or when stock is adjusted, never below zero.                            *)
(***************************************************************************)
EXTENDS Integers

CONSTANTS Bill, Batch, InitStock

VARIABLES
  onHand,    \* [Batch -> Nat], batch_stock.stock_qty
  sold,      \* [Bill -> [Batch -> Nat]], the SALE_COMMIT movements
  invoiced   \* the bills that have an invoice

vars == <<onHand, sold, invoiced>>

Init ==
  /\ onHand = InitStock
  /\ sold = [b \in Bill |-> [x \in Batch |-> 0]]
  /\ invoiced = {}

\* One bill leaves the shop: every batch gives what the bill took from it.
Sell(b) ==
  /\ b \notin invoiced
  /\ invoiced' = invoiced \union {b}
  /\ onHand' \in [Batch -> Nat]
  /\ \A x \in Batch : onHand'[x] <= onHand[x]
  /\ sold' = [sold EXCEPT ![b] = [x \in Batch |-> onHand[x] - onHand'[x]]]

\* Stock-taking corrects the quantity of one batch.
Adjust(x) ==
  /\ onHand' \in [Batch -> Nat]
  /\ \A y \in Batch \ {x} : onHand'[y] = onHand[y]
  /\ UNCHANGED <<sold, invoiced>>

Next == (\E b \in Bill : Sell(b)) \/ (\E x \in Batch : Adjust(x))

Spec == Init /\ [][Next]_vars
=============================================================================
