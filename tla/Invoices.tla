------------------------------ MODULE Invoices ------------------------------
(***************************************************************************)
(* Invoices and their PDFs: the number a bill gets when it is committed,   *)
(* the files the worker and the requests write and read, the till with its *)
(* InvoicePrintModal, its BillReprintModal and its cache of PDFs, and the  *)
(* customer portal.  Of a PDF only the bill, the number and the format it  *)
(* shows are kept; a file is there whole or not at all.  The bills are    *)
(* those of one counter: assertCounterAccess() refuses the cashiers of the *)
(* others.                                                                 *)
(***************************************************************************)
EXTENDS Naturals, FiniteSets

CONSTANTS
  Sale,       \* bills
  BuyerOf,    \* bill -> its customer
  Buyer,      \* the customer who is signed in to the portal
  MaxPrints,  \* bound of the PDFs asked for
  MaxOpened   \* bound of the invoices asked for

ASSUME InvoiceAssumption ==
  /\ Sale \subseteq Nat \ {0} /\ IsFiniteSet(Sale) /\ MaxPrints \in Nat /\ MaxOpened \in Nat
  /\ DOMAIN BuyerOf = Sale

VARIABLES
  invoiceNo,  \* bill -> its number, 0 until it is committed
  files,      \* the files of the PDFs: what is stored under a path
  fetches,    \* the requests for a PDF that have no answer yet
  printer,    \* the till: the last bill completed, its timers, the invoices it waits for, the
              \* invoice of the modal, whether an action runs, and the bounds used up
  blobCache,  \* the PDFs the browser keeps
  running,    \* the actions of the modal that wait for a PDF
  copy        \* the copy that somebody gets in this step, if any
invoiceVars == <<invoiceNo, files, fetches, printer, blobCache, running, copy>>

Formats == {"a4", "thermal"}
Actions == {"a4", "thermal", "download"}
NoInvoice == [bill |-> 0, no |-> 0]
NoPdf == [bill |-> 0, no |-> 0, format |-> "a4"]
NoCopy == [to |-> "nobody", name |-> 0, asked |-> "a4", pdf |-> NoPdf]

InvoiceInit ==
  /\ invoiceNo = [b \in Sale |-> 0] /\ files = {} /\ fetches = {} /\ blobCache = {} /\ running = {}
  /\ printer = [last |-> 0, timers |-> 0, asked |-> {}, shows |-> NoInvoice, inFlight |-> FALSE,
                prints |-> 0, opened |-> 0]
  /\ copy = NoCopy

-----------------------------------------------------------------------------
(* The server.                                                             *)
Completed(b) == invoiceNo[b] # 0
Issued == {b \in Sale : Completed(b)}

\* assertCustomerOwnership()
OwnedBy(b) == BuyerOf[b] = Buyer /\ Completed(b)

MaySee(to, b) == to = "till" \/ OwnedBy(b)

\* mapDetail(): the invoice, of which a screen here shows the bill and the number.
Detail(b) == [bill |-> b, no |-> invoiceNo[b]]

\* The bills are numbered in the order they are paid in, and queued for the worker then.
Paid(b) == b <= printer.last

\* createInvoice(), inside the transaction that completes the bill: a number is never used twice
\* and none is left out.  A transaction that fails leaves the sequence alone.
CommitSale(b) ==
  /\ Paid(b) /\ ~Completed(b)
  /\ invoiceNo' = [invoiceNo EXCEPT ![b] = Cardinality(Issued) + 1]
  /\ UNCHANGED <<files, fetches, printer, blobCache, running>> /\ copy' = NoCopy

PdfPath(b, f) == <<b, f>>

\* What writeModernA4Pdf() and writeModernThermalPdf() draw.
A4Pdf(b) == [bill |-> b, no |-> invoiceNo[b], format |-> "a4"]
ThermalPdf(b) == [bill |-> b, no |-> invoiceNo[b], format |-> "thermal"]
Drawn(b, f) == IF f = "thermal" THEN ThermalPdf(b) ELSE A4Pdf(b)

Stored(path) == \E file \in files : file.path = path
Written(b, f) == files' = files \union {[path |-> PdfPath(b, f), pdf |-> Drawn(b, f)]}

\* generatePdfForBill(), after the commit, first for a page and then for a roll.  The worker
\* writes again what is there already.
WorkerWrites(b, f) ==
  /\ Completed(b) /\ (f = "thermal" => Stored(PdfPath(b, "a4")))
  /\ ~Stored(PdfPath(b, f)) /\ Written(b, f)
  /\ UNCHANGED <<invoiceNo, fetches, printer, blobCache, running>> /\ copy' = NoCopy

MayFetch(r) == MaySee(r.to, r.bill) /\ Completed(r.bill)

\* ensurePdf() and ensurePdfForCustomer(), when the file is not there.
RequestWrites(r) ==
  /\ r \in fetches /\ MayFetch(r) /\ ~Stored(PdfPath(r.bill, r.format)) /\ Written(r.bill, r.format)
  /\ UNCHANGED <<invoiceNo, fetches, printer, blobCache, running>> /\ copy' = NoCopy

-----------------------------------------------------------------------------
(* The invoices the till opens.                                            *)
\* handlePaymentComplete(): the bill goes to the queue, and 2.5 s later the invoice is opened.
CompletePayment ==
  /\ \E b \in Sale :
       /\ ~Paid(b) /\ \A c \in Sale : ~Paid(c) => c >= b
       /\ printer' = [printer EXCEPT !.last = b, !.timers = @ + 1]
  /\ UNCHANGED <<invoiceNo, files, fetches, blobCache, running>> /\ copy' = NoCopy

\* The timer asks for the bill completed last, whichever started it.
PrintTimer ==
  /\ printer.timers > 0 /\ printer.opened < MaxOpened
  /\ printer' = [printer EXCEPT !.timers = @ - 1, !.opened = @ + 1, !.asked = @ \union {printer.last}]
  /\ UNCHANGED <<invoiceNo, files, fetches, blobCache, running>> /\ copy' = NoCopy

\* lookupCompleted(): the rows of the BillReprintModal, those of them that match the term.  A bill
\* that is completed stays so, and an older list has only bills that are still found.
LookupRows == Issued

\* A row is picked, and the BillReprintModal closes.
PickInvoice(b) ==
  /\ b \in LookupRows /\ printer.opened < MaxOpened
  /\ printer' = [printer EXCEPT !.opened = @ + 1, !.asked = @ \union {b}]
  /\ UNCHANGED <<invoiceNo, files, fetches, blobCache, running>> /\ copy' = NoCopy

\* The answer of getByBillId(): it takes the modal, also from another invoice.
InvoiceOpens(b) ==
  /\ b \in printer.asked /\ Completed(b)
  /\ printer' = [printer EXCEPT !.asked = @ \ {b}, !.shows = Detail(b)]
  /\ UNCHANGED <<invoiceNo, files, fetches, blobCache, running>> /\ copy' = NoCopy

\* "Invoice not ready", or no answer: nothing asks again.
InvoiceNotReady(b) ==
  /\ b \in printer.asked
  /\ printer' = [printer EXCEPT !.asked = @ \ {b}]
  /\ UNCHANGED <<invoiceNo, files, fetches, blobCache, running>> /\ copy' = NoCopy

-----------------------------------------------------------------------------
(* The InvoicePrintModal.                                                  *)
ModalShown == printer.shows # NoInvoice

\* handleClose(): Esc closes while a PDF loads, and the next action may start.
CloseInvoice ==
  /\ ModalShown /\ printer' = [printer EXCEPT !.shows = NoInvoice, !.inFlight = FALSE]
  /\ UNCHANGED <<invoiceNo, files, fetches, blobCache, running>> /\ copy' = NoCopy

FormatOf(action) == IF action = "thermal" THEN "thermal" ELSE "a4"

\* (Faulty variant: the cache is keyed by the format alone.)
FormatKey(b, f) == <<0, f>>
CacheKey(b, f) == <<b, f>>

KeyOf(run) == CacheKey(run.bill, FormatOf(run.action))
Cached(key) == \E e \in blobCache : e.key = key
TillFetch(run) ==
  [to |-> "till", key |-> KeyOf(run), bill |-> run.bill, format |-> FormatOf(run.action), name |-> 0]
InflightKey(key) == \E r \in fetches : r.to = "till" /\ r.key = key

\* runAction() up to the PDF: the cache has it, a request for it is under way, or one is sent.
RunAction(action) ==
  LET run == [turn |-> printer.prints, action |-> action, again |-> FALSE,
              bill |-> printer.shows.bill, no |-> printer.shows.no]
  IN /\ ModalShown /\ ~printer.inFlight /\ printer.prints < MaxPrints
     /\ printer' = [printer EXCEPT !.inFlight = TRUE, !.prints = @ + 1]
     /\ running' = running \union {run}
     /\ fetches' = IF Cached(KeyOf(run)) \/ InflightKey(KeyOf(run)) THEN fetches
                   ELSE fetches \union {TillFetch(run)}
     /\ UNCHANGED <<invoiceNo, files, blobCache>> /\ copy' = NoCopy

\* The PDF comes and is kept for whoever asks for its bill and format.
TillPdfArrives(r) ==
  /\ r \in fetches /\ r.to = "till" /\ MayFetch(r)
  /\ \E file \in files :
       /\ file.path = PdfPath(r.bill, r.format)
       /\ blobCache' = {e \in blobCache : e.key # r.key} \union {[key |-> r.key, pdf |-> file.pdf]}
  /\ fetches' = fetches \ {r}
  /\ UNCHANGED <<invoiceNo, files, printer, running>> /\ copy' = NoCopy

\* The copy is saved under the number the modal showed, or opened in a tab; "noopener" gives no
\* window back, so that printing ends with "Popup blocked".  The modal is free again, whichever
\* invoice it shows now.
GiveCopy(run) ==
  /\ run \in running
  /\ \E e \in blobCache :
       /\ e.key = KeyOf(run)
       /\ copy' = [to |-> "till", name |-> run.no, asked |-> FormatOf(run.action), pdf |-> e.pdf]
  /\ running' = running \ {run} /\ printer' = [printer EXCEPT !.inFlight = FALSE]
  /\ UNCHANGED <<invoiceNo, files, fetches, blobCache>>

\* The request is refused, lost or over after 45 s: printing asks once more, for the tab.
TillPdfFails(r) ==
  LET waiting == {run \in running : KeyOf(run) = r.key}
      retried == {run \in waiting : run.action # "download" /\ ~run.again}
  IN /\ r \in fetches /\ r.to = "till"
     /\ running' = (running \ waiting) \union {[run EXCEPT !.again = TRUE] : run \in retried}
     /\ fetches' = IF retried = {} THEN fetches \ {r} ELSE fetches
     /\ printer' = [printer EXCEPT !.inFlight = @ /\ waiting = retried]
     /\ UNCHANGED <<invoiceNo, files, blobCache>> /\ copy' = NoCopy

\* 120 s after a PDF came; nobody waits for it any more.
CacheExpires(e) ==
  /\ e \in blobCache /\ \A run \in running : KeyOf(run) # e.key
  /\ blobCache' = blobCache \ {e}
  /\ UNCHANGED <<invoiceNo, files, fetches, printer, running>> /\ copy' = NoCopy

-----------------------------------------------------------------------------
(* The portal.                                                             *)
\* listBills(): the links of the page of all invoices.
PortalBills == {b \in Sale : OwnedBy(b)}

\* The page of an invoice, from getByBillIdForCustomer(), and its download, which goes on when the
\* page is left.
PageFetch(b) ==
  [to |-> "portal", key |-> <<b, "page">>, bill |-> b, format |-> "a4", name |-> Detail(b).no]
DownloadPdf(b) ==
  /\ b \in PortalBills /\ PageFetch(b) \notin fetches /\ fetches' = fetches \union {PageFetch(b)}
  /\ UNCHANGED <<invoiceNo, files, printer, blobCache, running>> /\ copy' = NoCopy

PortalPdfArrives(r) ==
  /\ r \in fetches /\ r.to = "portal" /\ MayFetch(r) /\ fetches' = fetches \ {r}
  /\ \E file \in files :
       /\ file.path = PdfPath(r.bill, r.format)
       /\ copy' = [to |-> "portal", name |-> r.name, asked |-> r.format, pdf |-> file.pdf]
  /\ UNCHANGED <<invoiceNo, files, printer, blobCache, running>>

PortalPdfFails(r) ==
  /\ r \in fetches /\ r.to = "portal" /\ fetches' = fetches \ {r}
  /\ UNCHANGED <<invoiceNo, files, printer, blobCache, running>> /\ copy' = NoCopy

InvoiceNext ==
  \/ CompletePayment \/ PrintTimer \/ CloseInvoice
  \/ \E b \in Sale : \/ CommitSale(b) \/ PickInvoice(b) \/ InvoiceOpens(b) \/ InvoiceNotReady(b)
                     \/ DownloadPdf(b)
                     \/ \E f \in Formats : WorkerWrites(b, f)
  \/ \E action \in Actions : RunAction(action)
  \/ \E r \in fetches : \/ RequestWrites(r) \/ TillPdfArrives(r) \/ TillPdfFails(r)
                        \/ PortalPdfArrives(r) \/ PortalPdfFails(r)
  \/ \E run \in running : GiveCopy(run)
  \/ \E e \in blobCache : CacheExpires(e)

InvoiceSpec == InvoiceInit /\ [][InvoiceNext]_invoiceVars

-----------------------------------------------------------------------------
InvoiceShape == [bill : Sale \union {0}, no : 0 .. Cardinality(Sale)]
PdfShape == [bill : Sale \union {0}, no : 0 .. Cardinality(Sale), format : Formats]

\* The shape of the state.
InvoiceTypeOK ==
  /\ invoiceNo \in [Sale -> 0 .. Cardinality(Sale)]
  /\ \A file \in files : file.pdf \in PdfShape
  /\ \A r \in fetches : r.to \in {"till", "portal"} /\ r.bill \in Sale /\ r.format \in Formats
  /\ \A run \in running : run.action \in Actions /\ run.bill \in Sale
  /\ printer.asked \subseteq Sale /\ printer.shows \in InvoiceShape /\ printer.inFlight \in BOOLEAN
  /\ copy.pdf \in PdfShape

\* Whoever saves, prints or downloads an invoice gets the bill whose number the copy is named
\* after, in the format asked for, and only a completed one, in the portal one of the own account:
\* also when Esc let a second action start beside the first, when two actions shared one request
\* or the cache, when the modal has gone over to another invoice, and whoever wrote the file.
CopiesBelong ==
  copy # NoCopy =>
    /\ copy.pdf.bill \in Issued /\ invoiceNo[copy.pdf.bill] = copy.name /\ copy.pdf.no = copy.name
    /\ copy.pdf.format = copy.asked /\ MaySee(copy.to, copy.pdf.bill)
=============================================================================
