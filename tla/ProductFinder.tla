--------------------------- MODULE ProductFinder ---------------------------
(***************************************************************************)
(* How a product gets on a bill: the catalogue (searchCatalog, catalog-    *)
(* merge.util), the scan field (handleScan, resolveCatalogScan), the       *)
(* ProductSearchModal and the requests that add a line (addProductLine,    *)
(* scanLine), beside the product and batch masters that change the rows.   *)
(* A term stands for every text that contains it; prices, taxes and        *)
(* amounts are left out.  Of stock only whether a batch has some free is   *)
(* kept, and anybody may change it.                                        *)
(***************************************************************************)
EXTENDS Naturals, Sequences, FiniteSets, SequencesExt

CONSTANTS
  Item,        \* products, in the order of their names
  Lot,         \* rows of batch_stock
  Label,       \* Item -> [bar, sku, name]
  Tag,         \* Lot -> [of, no, exp]: its product, its number, the day it expires
  NoCode,
  Typed,       \* what is typed into the modal
  Scanned,     \* what is scanned
  MaxLines,    \* bound of the lines of the bill
  LastDay,     \* bound of the days that pass
  MaxStir,     \* bound of the changes made by others
  MaxLooks     \* bound of the searches under way

ASSUME FinderAssumption ==
  /\ Item \subseteq Nat /\ IsFiniteSet(Item) /\ Lot \subseteq Nat /\ IsFiniteSet(Lot) /\ LastDay \in Nat /\ MaxStir \in Nat /\ MaxLooks \in Nat /\ MaxLines \in Nat
  /\ \A p \in Item : {"bar", "sku", "name"} \subseteq DOMAIN Label[p]
  /\ \A l \in Lot : Tag[l].of \in Item /\ Tag[l].exp \in Nat

VARIABLES
  shelf,    \* the rows: the products that are active, the batches that are, those with free stock
  day,      \* today, and the changes others have made
  finder,   \* the state of the modal
  look,     \* the searches under way: the modal's and the scan field's
  put,      \* the request that adds a line
  cart      \* the lines of the bill
finderVars == <<shelf, day, finder, look, put, cart>>

Closed == [open |-> FALSE, query |-> NoCode, found |-> <<>>, step |-> "products", picked |-> <<>>, focus |-> 1,
           asked |-> NoCode]
NoPut == [pc |-> "idle", item |-> 0, lot |-> 0, code |-> NoCode, had |-> FALSE]

FinderInit ==
  /\ shelf = [items |-> Item, lots |-> Lot, free |-> Lot]
  /\ day = [today |-> 0, stirs |-> 0]
  /\ finder = Closed /\ look = {} /\ put = NoPut /\ cart = <<>>

-----------------------------------------------------------------------------
(* The catalogue.                                                          *)
Sorted(S, Before(_, _)) ==
  CHOOSE s \in SetToSeqs(S) : \A i, j \in DOMAIN s : i < j => Before(s[i], s[j])

Earlier(l, k) == Tag[l].exp < Tag[k].exp \/ (Tag[l].exp = Tag[k].exp /\ l < k)
ByExpiry(lots) == Sorted(lots, Earlier)
LotsOf(p) == {l \in Lot : Tag[l].of = p}
OnOffer(p) == LotsOf(p) \intersect shelf.lots \intersect shelf.free

Matches(p, term) ==
  /\ p \in shelf.items
  /\ \/ term \in {Label[p].bar, Label[p].sku, Label[p].name}
     \/ \E l \in LotsOf(p) \intersect shelf.lots : Tag[l].no = term

\* catalogKey(): one row for each SKU, else for each barcode, else for each name.
CatalogKey(p) ==
  LET label == Label[p]
  IN IF label.sku # NoCode THEN <<"sku", label.sku>>
     ELSE IF label.bar # NoCode THEN <<"bc", label.bar>> ELSE <<"name", label.name>>

\* mergeCatalogProducts(): the row takes the name of the product with more batches and the batches of both.
MergeRow(row, p) ==
  LET primary == IF Cardinality(OnOffer(p)) > Cardinality(row.lots) THEN p ELSE row.id
      code(own) == IF own = NoCode THEN Label[p].bar ELSE own
  IN [id |-> primary, bar |-> code(IF primary = p THEN Label[p].bar ELSE row.bar),
      lots |-> row.lots \union OnOffer(p)]

FirstRow(p) == [id |-> p, bar |-> Label[p].bar, lots |-> OnOffer(p)]
MergedRow(ps) ==
  LET order == Sorted(ps, <)
      row[n \in DOMAIN order] == IF n = 1 THEN FirstRow(order[1]) ELSE MergeRow(row[n - 1], order[n])
  IN row[Len(order)]

\* searchCatalog(): the rows that are left with a batch, in the order of their names.
Catalogue(term) ==
  LET hits == {p \in Item : Matches(p, term)}
      rows == {MergedRow({q \in hits : CatalogKey(q) = CatalogKey(p)}) : p \in hits}
  IN Sorted({r \in rows : r.lots # {}}, LAMBDA r, s : r.id < s.id)

-----------------------------------------------------------------------------
(* The requests that add a line.  The screen waits for the answer.         *)
MayAdd == Len(cart) < MaxLines
Waiting == put.pc # "idle" \/ \E k \in look : k.for = "scan"

\* assertBatchSellable(): the date of expiry is over when its day begins.
Sellable(l) == l \in shelf.lots /\ Tag[l].exp > day.today

\* (Faulty variant: the batch is looked up by its id alone.)
ResolveAnyBatch(p, l) == Sellable(l) /\ l \in shelf.free

\* resolveBatch() with a batch ...
ResolveBatch(p, l) == l \in LotsOf(p) /\ Sellable(l) /\ l \in shelf.free
\* ... and without: pickFifoBatch().
FifoLots(p) ==
  LET lots == {l \in LotsOf(p) : Sellable(l) /\ l \in shelf.free}
  IN {l \in lots : \A k \in lots : l = k \/ Earlier(l, k)}

Request(p, l, code) == [pc |-> "line", item |-> p, lot |-> l, code |-> code, had |-> FALSE]

\* addProductLine(): the bill is read with its lines, then the product and the batch.
AddProductLine ==
  /\ put.pc = "line"
  /\ IF put.item \in shelf.items /\ ResolveBatch(put.item, put.lot)
     THEN put' = [put EXCEPT !.pc = "append", !.had = \E i \in DOMAIN cart : cart[i].lot = put.lot]
     ELSE put' = NoPut
  /\ UNCHANGED <<shelf, day, finder, look, cart>>

\* scanLine(): the product is found by its barcode, the batch is the one that expires first.
ScanLine ==
  /\ put.pc = "scan"
  /\ LET ps == {p \in shelf.items : Label[p].bar = put.code}
         lots == UNION {FifoLots(p) : p \in ps}
     IN IF lots = {} THEN put' = NoPut
        ELSE \E l \in lots :
               put' = [put EXCEPT !.pc = "append", !.item = Tag[l].of, !.lot = l,
                                  !.had = \E i \in DOMAIN cart : cart[i].lot = l]
  /\ UNCHANGED <<shelf, day, finder, look, cart>>

\* (Faulty variant: a batch that is on the bill gets a second line.)
AppendAlways ==
  /\ put.pc = "append" /\ put' = NoPut
  /\ cart' = Append(cart, [item |-> put.item, lot |-> put.lot, code |-> put.code])
  /\ UNCHANGED <<shelf, day, finder, look>>

\* appendBillLine(): one more of a line that is there, or a new line.
AppendBillLine ==
  /\ put.pc = "append" /\ put' = NoPut
  /\ cart' = IF put.had THEN cart ELSE Append(cart, [item |-> put.item, lot |-> put.lot, code |-> put.code])
  /\ UNCHANGED <<shelf, day, finder, look>>

RemoveCartLine(i) ==
  /\ ~Waiting /\ ~finder.open
  /\ cart' = RemoveAt(cart, i) /\ UNCHANGED <<shelf, day, finder, look, put>>

-----------------------------------------------------------------------------
(* The modal.                                                              *)
PickedLots == IF finder.picked = <<>> THEN <<>> ELSE ByExpiry(finder.picked[1].lots)

\* productCards: what was found last, once something is typed.
Cards == IF finder.query = NoCode THEN <<>> ELSE finder.found

\* The first batch that the screen does not show as expired: on its last day it is only "near expiry".
FirstSafe(lots) ==
  LET order == ByExpiry(lots)
      safe == {i \in DOMAIN order : Tag[order[i]].exp >= day.today}
  IN IF safe = {} THEN 1 ELSE CHOOSE i \in safe : \A j \in safe : i <= j

\* search(term): every answer is still used for the row it was asked for, the list is that of the last term.
Ask(term, sub) ==
  /\ Cardinality(look) < MaxLooks
  /\ look' = look \union {[for |-> "modal", term |-> term, sub |-> sub]}

NameOf(row) == Label[row.id].name
LotsShown(row) ==
  [finder EXCEPT !.open = TRUE, !.step = "batches", !.picked = <<row>>,
                 !.focus = FirstSafe(row.lots), !.asked = NameOf(row)]

\* What the two steps show, and can be done in them.
ProductStep == finder.open /\ finder.step = "products"
BatchStep == finder.open /\ finder.step = "batches"

OpenFinder ==
  /\ ~finder.open /\ ~Waiting
  /\ finder' = [Closed EXCEPT !.open = TRUE]
  /\ UNCHANGED <<shelf, day, look, put, cart>>

\* Escape: from the batches back to the products, from there out.
CloseFinder ==
  /\ finder.open
  /\ finder' = IF finder.step = "batches"
               THEN [finder EXCEPT !.step = "products", !.picked = <<>>, !.focus = 1] ELSE Closed
  /\ UNCHANGED <<shelf, day, look, put, cart>>

\* 280 ms after the last key the new text is searched for; until the answer the list is the one before.
TypeQuery(term) ==
  /\ ProductStep /\ term # finder.query
  /\ finder' = [finder EXCEPT !.query = term, !.asked = term, !.focus = 1]
  /\ Ask(term, 0) /\ UNCHANGED <<shelf, day, put, cart>>

MoveFocus(i) ==
  /\ finder.open /\ i # finder.focus
  /\ i \in IF finder.step = "batches" THEN DOMAIN PickedLots ELSE DOMAIN Cards
  /\ finder' = [finder EXCEPT !.focus = i] /\ UNCHANGED <<shelf, day, look, put, cart>>

\* confirmProducts(), openBatches(): the batches of the row in focus, which are fetched anew by name.
OpenLots ==
  /\ ProductStep /\ finder.focus \in DOMAIN Cards
  /\ LET row == Cards[finder.focus] IN finder' = LotsShown(row) /\ Ask(NameOf(row), row.id)
  /\ UNCHANGED <<shelf, day, put, cart>>

\* The timer of four seconds.
RefreshLots ==
  /\ BatchStep
  /\ finder' = [finder EXCEPT !.asked = NameOf(finder.picked[1])]
  /\ Ask(NameOf(finder.picked[1]), finder.picked[1].id) /\ UNCHANGED <<shelf, day, put, cart>>

\* Another row, or one that has changed its length, moves the focus; else it keeps its place.
FocusAfter(row) ==
  IF finder.step # "batches" THEN finder.focus
  ELSE IF finder.picked[1].id = row.id /\ Cardinality(finder.picked[1].lots) = Cardinality(row.lots)
       THEN finder.focus ELSE FirstSafe(row.lots)

\* An answer.  A late one shows the row it was asked for, though another has been opened since; a
\* row that is sold out, or has the id of another master by now, leaves the old one in place.
ModalFound(k) ==
  /\ k.for = "modal" /\ k \in look /\ look' = look \ {k}
  /\ LET rows == Catalogue(k.term)
         fresh == SelectInSeq(rows, LAMBDA r : r.id = k.sub)
         listed == IF finder.open /\ k.term = finder.asked THEN rows ELSE finder.found
         moved == finder.step = "products" /\ Len(listed) # Len(finder.found)
     IN finder' = [finder EXCEPT !.found = listed,
                     !.picked = IF fresh = 0 THEN @ ELSE <<rows[fresh]>>,
                     !.focus = IF moved THEN 1 ELSE IF fresh = 0 THEN @ ELSE FocusAfter(rows[fresh])]
  /\ UNCHANGED <<shelf, day, put, cart>>

\* confirmBatches(), addBatch(): the request goes out and the modal closes.
AddBatch ==
  /\ BatchStep /\ finder.focus \in DOMAIN PickedLots /\ ~Waiting /\ MayAdd
  /\ put' = Request(finder.picked[1].id, PickedLots[finder.focus], NoCode)
  /\ finder' = Closed /\ UNCHANGED <<shelf, day, look, cart>>

-----------------------------------------------------------------------------
(* The scan field.                                                         *)
SearchScan(code) ==
  /\ ~Waiting /\ ~finder.open /\ MayAdd
  /\ look' = look \union {[for |-> "scan", term |-> code, sub |-> 0]}
  /\ UNCHANGED <<shelf, day, finder, put, cart>>

\* The product of the code: by barcode, by SKU, then by the number of a batch.
ScannedRow(code, rows) ==
  LET bar == SelectInSeq(rows, LAMBDA r : r.bar = code)
      sku == SelectInSeq(rows, LAMBDA r : Label[r.id].sku = code)
      sticker == SelectInSeq(rows, LAMBDA r : \E l \in r.lots : Tag[l].no = code)
  IN IF bar # 0 THEN bar ELSE IF sku # 0 THEN sku ELSE sticker

\* resolveCatalogScan(): the one batch there is, the batch of the sticker, or the modal to pick from.
ResolveScan(k) ==
  LET code == k.term
      rows == Catalogue(code)
      i == ScannedRow(code, rows)
      named == code \in {rows[i].bar, Label[rows[i].id].sku}
      lots == {l \in rows[i].lots : named \/ Tag[l].no = code}
  IN /\ k.for = "scan" /\ k \in look
     /\ \/ /\ i = 0
           /\ put' = [NoPut EXCEPT !.pc = "scan", !.code = code]
           /\ look' = look \ {k} /\ UNCHANGED finder
        \/ /\ i # 0 /\ (Cardinality(lots) = 1 \/ ~named)
           /\ put' = Request(rows[i].id, ByExpiry(lots)[1], code)
           /\ look' = look \ {k} /\ UNCHANGED finder
        \/ /\ i # 0 /\ named /\ Cardinality(lots) > 1
           /\ finder' = LotsShown(rows[i])
           /\ look' = (look \ {k}) \union {[for |-> "modal", term |-> NameOf(rows[i]), sub |-> rows[i].id]}
           /\ UNCHANGED put
     /\ UNCHANGED <<shelf, day, cart>>

-----------------------------------------------------------------------------
(* Others: sales and receipts, the masters, and the calendar.              *)
Stirs == day.stirs < MaxStir /\ day' = [day EXCEPT !.stirs = @ + 1] /\ UNCHANGED <<finder, look, put, cart>>
Toggled(S, x) == IF x \in S THEN S \ {x} ELSE S \union {x}

SellOrReceive(l) == Stirs /\ shelf' = [shelf EXCEPT !.free = Toggled(@, l)]
SaveProduct(p) == Stirs /\ shelf' = [shelf EXCEPT !.items = Toggled(@, p)]
SaveBatch(l) == Stirs /\ shelf' = [shelf EXCEPT !.lots = Toggled(@, l)]

NextDay ==
  /\ day.today < LastDay /\ day' = [day EXCEPT !.today = @ + 1]
  /\ UNCHANGED <<shelf, finder, look, put, cart>>

-----------------------------------------------------------------------------
FinderNext ==
  \/ OpenFinder \/ CloseFinder \/ OpenLots \/ RefreshLots \/ AddBatch
  \/ AddProductLine \/ ScanLine \/ AppendBillLine \/ NextDay
  \/ \E term \in Typed : TypeQuery(term)
  \/ \E code \in Scanned : SearchScan(code)
  \/ \E k \in look : ModalFound(k) \/ ResolveScan(k)
  \/ \E i \in 1 .. Cardinality(Lot) : MoveFocus(i)
  \/ \E i \in DOMAIN cart : RemoveCartLine(i)
  \/ \E p \in Item : SaveProduct(p)
  \/ \E l \in Lot : SellOrReceive(l) \/ SaveBatch(l)

FinderSpec == FinderInit /\ [][FinderNext]_finderVars

-----------------------------------------------------------------------------
FinderTypeOK ==
  /\ shelf.items \subseteq Item /\ shelf.lots \subseteq Lot /\ shelf.free \subseteq Lot
  /\ day.today \in 0 .. LastDay /\ day.stirs \in 0 .. MaxStir
  /\ finder.step \in {"products", "batches"} /\ (finder.step = "batches" => finder.picked # <<>>)
  /\ finder.focus \in {1} \union (1 .. Cardinality(Lot))
  /\ put.pc \in {"idle", "line", "scan", "append"}

\* Though a row of the catalogue shows the batches of several masters, every line names the
\* product of its batch; a batch has one line; and a code that was scanned is one of the
\* batch, of its product or of a product with the same SKU.
LinesNameTheirBatch ==
  \A i \in DOMAIN cart :
    LET line == cart[i]
        alike == {p \in Item : CatalogKey(p) = CatalogKey(line.item)}
    IN /\ Tag[line.lot].of = line.item
       /\ \A j \in DOMAIN cart : cart[j].lot = line.lot => i = j
       /\ line.code # NoCode =>
            \/ Tag[line.lot].no = line.code
            \/ \E p \in alike : line.code \in {Label[p].bar, Label[p].sku}
=============================================================================
