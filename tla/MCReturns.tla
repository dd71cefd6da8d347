----------------------------- MODULE MCReturns -----------------------------
(* Small instances of Returns for TLC: a bill with two lines of one batch and a  *)
(* bill with one line of another.                                                *)
EXTENDS Returns, TLC

CONSTANTS i1, i2, i3, b1, b2, x1, x2

Place == i1 :> 1 @@ i2 :> 2 @@ i3 :> 3
MCSold == i1 :> 2 @@ i2 :> 1 @@ i3 :> 1
MCBillOf == i1 :> b1 @@ i2 :> b1 @@ i3 :> b2
MCBatchOf == i1 :> x1 @@ i2 :> x1 @@ i3 :> x2
MCInitStock == x1 :> 1 @@ x2 :> 0

\* The screen sends at most one line per item; MoreThanSold is there to be refused.
MoreThanSold == 3
MCDrafts == UNION {{{[no |-> Place[i], item |-> i, qty |-> f[i]] : i \in S} :
                      f \in [S -> 1..MoreThanSold]} : S \in SUBSET BillItem}

Symmetry == Permutations(Return) \union Permutations(Request)
=============================================================================
