------------------------------ MODULE MCBilling ------------------------------
(* Small instances of BillingSystem for TLC. *)
EXTENDS BillingSystem, TLC

CONSTANTS StockOf, Requests, Events

MCInitStock == [x \in Batch |-> StockOf]
MCLimit == [k \in Kind |-> IF k = "request" THEN Requests ELSE Events]
AllOps == Op
LineEdits == {"add", "qty", "remove"}
AddAndComplete == {"add", "complete"}
Completing == {"add", "cancel", "complete"}
MCDelta == {-1, 1}

\* Identifiers are only compared: bills, lines, batches and requests can be swapped.
Symmetry == Permutations(Bill) \union Permutations(Line)
            \union Permutations(Batch) \union Permutations(Request)
=============================================================================
