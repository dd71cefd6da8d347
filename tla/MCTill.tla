------------------------------- MODULE MCTill -------------------------------
(* Small instances of the modules about the till and its screens.  They share no *)
(* state, so a behaviour follows one of them and the others rest.                *)
EXTENDS StaffNavigation, BillTotals, BillingScreen, LineEdits, OfflineQueue, StockMirror,
        ProductFinder, CreditSales, Invoices, TLC

VARIABLE part

Parts == {"navigation", "totals", "screen", "lines", "offline", "mirror", "finder", "credit",
          "invoices"}

\* An administrator, a cashier, two custom roles with a counter, without and with a page of the
\* back office, and an account whose role and role name differ.
MCProfile ==
  LET P(role, key, perms, seat) == [role |-> role, key |-> key, perms |-> perms, desk |-> seat]
  IN [admin |-> P("admin", "admin", {}, FALSE),
      cashier |-> P("cashier", "cashier", {"billing.access", "master.customer.view"}, TRUE),
      helper |-> P("cashier", "custom", {"master.customer.view"}, TRUE),
      store |-> P("cashier", "custom", {"master.product.view"}, TRUE),
      odd |-> P("cashier", "admin", {}, FALSE)]

\* Two masters of one product, which share a SKU, and a number that two of their batches share.
MCLabel == 1 :> [bar |-> "null", sku |-> "s", name |-> "pill"] @@ 2 :> [bar |-> "b", sku |-> "s", name |-> "pill"]
MCTag == 1 :> [of |-> 1, no |-> "n1", exp |-> 1] @@ 2 :> [of |-> 1, no |-> "n2", exp |-> 2]
         @@ 3 :> [of |-> 2, no |-> "n1", exp |-> 2]

\* A term that two customers are found by.
MCSearch == "a" :> {1, 2}

\* The customer of each bill.
MCBuyerOf == 1 :> 1 @@ 2 :> 2

\* A part that rests has one initial state, in which nothing is due.
NavRests == at = "/" /\ wanted = "/" /\ who = Nobody /\ booted = TRUE /\ loading = FALSE /\ cookies = {}

MCInit ==
  /\ part \in Parts
  /\ IF part = "navigation" THEN NavInit ELSE NavRests
  /\ TotalsInit /\ ScreenInit /\ LineInit /\ MirrorInit /\ FinderInit /\ CreditInit /\ InvoiceInit
  /\ QueueInit /\ (part = "offline" \/ online)

restOfNav == <<totalsVars, screenVars, lineVars, queueVars, mirrorVars, finderVars, creditVars,
             invoiceVars>>
restOfTotals == <<navVars, screenVars, lineVars, queueVars, mirrorVars, finderVars, creditVars, invoiceVars>>
restOfScreen == <<navVars, totalsVars, lineVars, queueVars, mirrorVars, finderVars, creditVars, invoiceVars>>
restOfLine == <<navVars, totalsVars, screenVars, queueVars, mirrorVars, finderVars, creditVars,
             invoiceVars>>
restOfQueue == <<navVars, totalsVars, screenVars, lineVars, mirrorVars, finderVars, creditVars, invoiceVars>>
restOfMirror == <<navVars, totalsVars, screenVars, lineVars, queueVars, finderVars, creditVars, invoiceVars>>
restOfFinder == <<navVars, totalsVars, screenVars, lineVars, queueVars, mirrorVars, creditVars, invoiceVars>>
restOfCredit == <<navVars, totalsVars, screenVars, lineVars, queueVars, mirrorVars, finderVars, invoiceVars>>
restOfInvoice == <<navVars, totalsVars, screenVars, lineVars, queueVars, mirrorVars, finderVars, creditVars>>

MCNext ==
  /\ UNCHANGED part
  /\ \/ part = "navigation" /\ NavNext /\ UNCHANGED restOfNav
     \/ part = "totals" /\ TotalsNext /\ UNCHANGED restOfTotals
     \/ part = "screen" /\ ScreenNext /\ UNCHANGED restOfScreen
     \/ part = "lines" /\ LineNext /\ UNCHANGED restOfLine
     \/ part = "offline" /\ QueueNext /\ UNCHANGED restOfQueue
     \/ part = "mirror" /\ MirrorNext /\ UNCHANGED restOfMirror
     \/ part = "finder" /\ FinderNext /\ UNCHANGED restOfFinder
     \/ part = "credit" /\ CreditNext /\ UNCHANGED restOfCredit
     \/ part = "invoices" /\ InvoiceNext /\ UNCHANGED restOfInvoice

tillVars == <<part, navVars, restOfNav>>
MCSpec == MCInit /\ [][MCNext]_tillVars

\* The parts whose timers and effects come to an end by themselves.
SettleInit == MCInit /\ part \in {"navigation", "mirror"}
SettleSpec == SettleInit /\ [][MCNext]_tillVars /\ NavFairness /\ MirrorFairness

\* One part alone, for what the code does not keep.
CreditInitOnly == MCInit /\ part = "credit"
CreditSpecOnly == CreditInitOnly /\ [][MCNext]_tillVars

\* Neither the screens of a bill nor the counters of a batch have an order; both are {a, b}.
Symmetry == Permutations(Screen)

\* The states of each module have the shape its comments give them.
TypesOK ==
  /\ NavTypeOK /\ TotalsTypeOK /\ ScreenTypeOK /\ LineTypeOK /\ QueueTypeOK /\ MirrorTypeOK
  /\ FinderTypeOK /\ CreditTypeOK /\ InvoiceTypeOK
=============================================================================
