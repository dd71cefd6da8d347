----------------------------- MODULE LineEdits -----------------------------
(***************************************************************************)
(* The line editor of the billing screen: BillingScreen.tsx from the       *)
(* selection of a line to the answer of an edit, with the keys of          *)
(* useKeyboardShortcuts.  A line edit does not block the screen, so        *)
(* several may be on their way; the server handles them in any order, each *)
(* answers with the whole bill, and the answers come in any order.  A scan *)
(* and a removal block the screen until they are answered.                 *)
(***************************************************************************)
EXTENDS Naturals, FiniteSets

CONSTANTS
  Line,        \* numbered in the order of the screen
  NoLine,
  MaxTyped,
  MaxSent      \* bound: line edits, scans and removals sent

ASSUME LineAssumption == Line \subseteq Nat /\ NoLine \notin Line /\ MaxTyped \in Nat \ {0} /\ MaxSent \in Nat

VARIABLES
  lines,      \* the quantities of the bill in the database; 0: not on the bill
  view,       \* the quantities on the screen
  selected,   \* selectedLineId
  draft,      \* lineQtyDraft, and the line it was read from or typed for
  sent,       \* line edits, scans and removals sent
  wire,       \* line edits on their way
  busy,       \* the scan or removal on its way: the screen is blocked
  taken       \* the latest edit whose answer is on the screen

lineVars == <<lines, view, selected, draft, sent, wire, busy, taken>>

NoDraft == [n |-> 0, of |-> NoLine]
Idle == [kind |-> "none", line |-> NoLine, got |-> <<>>]
OnBill(bill) == {l \in Line : bill[l] > 0}

LineInit ==
  /\ lines \in [Line -> {1}] /\ view = lines
  /\ selected = NoLine /\ draft = NoDraft
  /\ sent = 0 /\ wire = {} /\ busy = Idle /\ taken = 0

-----------------------------------------------------------------------------
\* (Faulty variant: the quantity typed for the line before stays.)
DraftStays(l) == IF l = NoLine THEN NoDraft ELSE IF draft = NoDraft THEN [n |-> view[l], of |-> l] ELSE draft

\* A new selection reads its quantity.
DraftFor(l) == IF l \notin OnBill(view) THEN NoDraft ELSE [n |-> view[l], of |-> l]

Select(l) ==
  /\ l \in OnBill(view) \ {selected} /\ busy = Idle
  /\ selected' = l /\ draft' = DraftFor(l)
  /\ UNCHANGED <<lines, view, sent, wire, busy, taken>>

\* The arrow keys: without a selection the last or the first line, else the neighbour.
Neighbours ==
  LET on == OnBill(view)
      before == {l \in on : l < selected}
      after == {l \in on : l > selected}
  IN IF selected \notin on THEN {l \in on : (\A m \in on : l <= m) \/ (\A m \in on : l >= m)}
     ELSE {l \in before : \A m \in before : m <= l} \union {l \in after : \A m \in after : l <= m}

MoveSelection == \E l \in Neighbours : Select(l)

TypeQty(n) ==
  /\ selected \in OnBill(view) /\ n > 0
  /\ draft' = [n |-> n, of |-> selected]
  /\ UNCHANGED <<lines, view, selected, sent, wire, busy, taken>>

\* deselectLine(): the answers that are on their way will be dropped.
Drop(edits) == {[e EXCEPT !.live = FALSE] : e \in edits}

DeselectLine ==
  /\ selected # NoLine \/ \E e \in wire : e.live
  /\ selected' = NoLine /\ draft' = NoDraft /\ wire' = Drop(wire)
  /\ UNCHANGED <<lines, view, sent, busy, taken>>

\* applyLineUpdate(): a later edit replaces the request whose answer counts.
SendEdit(kind, n) ==
  /\ sent < MaxSent /\ sent' = sent + 1
  /\ wire' = Drop(wire) \union
       {[kind |-> kind, line |-> selected, n |-> n, of |-> draft.of, no |-> sent + 1,
         live |-> TRUE, at |-> "sent", got |-> <<>>]}

\* finishLineEdit(): nothing is sent for a quantity that is the bill's already.
Done ==
  /\ selected \in OnBill(view) /\ draft # NoDraft /\ busy = Idle
  /\ IF draft.n # view[selected]
     THEN SendEdit("qty", draft.n) /\ UNCHANGED <<selected, draft>>
     ELSE selected' = NoLine /\ draft' = NoDraft /\ wire' = Drop(wire) /\ UNCHANGED sent
  /\ UNCHANGED <<lines, view, busy, taken>>

\* The discount of a line: the quantity stays.
SetDiscount ==
  /\ selected \in OnBill(view) /\ busy = Idle
  /\ SendEdit("discount", 0)
  /\ UNCHANGED <<lines, view, selected, draft, busy, taken>>

\* updateLine() of the server: a line that is gone is refused.
ServeEdit(e) ==
  /\ e \in wire /\ e.at = "sent"
  /\ LET changed == IF e.kind = "qty" THEN [lines EXCEPT ![e.line] = e.n] ELSE lines
     IN IF lines[e.line] > 0
        THEN /\ lines' = changed
             /\ wire' = (wire \ {e}) \union {[e EXCEPT !.at = "done", !.got = changed]}
        ELSE UNCHANGED lines /\ wire' = (wire \ {e}) \union {[e EXCEPT !.at = "refused"]}
  /\ UNCHANGED <<view, selected, draft, sent, busy, taken>>

\* (Faulty variant: every answer is put on the screen.)
CountsAlways(e) == e.at = "done"

\* An answer counts only if no edit was sent, and no line left, since.
Counts(e) == e.at = "done" /\ e.live

\* The answer of an edit; one of a quantity ends the editing, whatever is selected by then.
EditAnswer(e) ==
  /\ e \in wire /\ e.at \in {"done", "refused"}
  /\ IF Counts(e) THEN view' = e.got /\ taken' = e.no ELSE UNCHANGED <<view, taken>>
  /\ IF e.kind = "qty"
     THEN selected' = NoLine /\ draft' = NoDraft /\ wire' = Drop(wire \ {e})
     ELSE wire' = wire \ {e} /\ UNCHANGED <<selected, draft>>
  /\ UNCHANGED <<lines, sent, busy>>

-----------------------------------------------------------------------------
\* handleScan() and handleAddProduct(): a line more, or one piece more on the line.
Scan(l) ==
  /\ busy = Idle /\ lines[l] < MaxTyped /\ sent < MaxSent /\ sent' = sent + 1
  /\ busy' = [kind |-> "scan", line |-> l, got |-> <<>>]
  /\ UNCHANGED <<lines, view, selected, draft, wire, taken>>

\* handleRemoveLine(), and the Delete key: the selected line, else the last one.
RemoveLine ==
  /\ busy = Idle /\ sent < MaxSent /\ sent' = sent + 1
  /\ \E l \in OnBill(view) :
       /\ l = selected \/ (selected = NoLine /\ \A m \in OnBill(view) : m <= l)
       /\ busy' = [kind |-> "remove", line |-> l, got |-> <<>>]
  /\ UNCHANGED <<lines, view, selected, draft, wire, taken>>

ServeBusy ==
  /\ busy.kind \in {"scan", "remove"} /\ busy.got = <<>>
  /\ lines' = [lines EXCEPT ![busy.line] = IF busy.kind = "remove" THEN 0 ELSE IF @ < MaxTyped THEN @ + 1 ELSE @]
  /\ busy' = [busy EXCEPT !.got = lines']
  /\ UNCHANGED <<view, selected, draft, sent, wire, taken>>

BusyAnswer ==
  /\ busy.got # <<>> /\ busy' = Idle /\ view' = busy.got
  /\ IF busy.kind = "remove" /\ selected = busy.line
     THEN selected' = NoLine /\ draft' = NoDraft
     ELSE UNCHANGED <<selected, draft>>
  /\ UNCHANGED <<lines, sent, wire, taken>>

LineNext ==
  \/ \E l \in Line : Select(l) \/ Scan(l)
  \/ \E n \in 1 .. MaxTyped : TypeQty(n)
  \/ \E e \in wire : ServeEdit(e) \/ EditAnswer(e)
  \/ MoveSelection \/ DeselectLine \/ Done \/ SetDiscount \/ RemoveLine \/ ServeBusy \/ BusyAnswer

LineSpec == LineInit /\ [][LineNext]_lineVars

-----------------------------------------------------------------------------
LineTypeOK ==
  /\ lines \in [Line -> 0 .. MaxTyped] /\ view \in [Line -> 0 .. MaxTyped]
  /\ {selected, draft.of, busy.line} \subseteq Line \union {NoLine} /\ draft.n \in 0 .. MaxTyped
  /\ {sent, taken} \subseteq 0 .. MaxSent /\ {e.line : e \in wire} \subseteq Line

\* The answer to an older edit never replaces what a newer edit has put on the screen, in
\* whatever order the server handles them and the answers arrive.
EditsShownInOrder == [][taken' >= taken]_lineVars

\* A quantity is saved on the line it was typed for, though the answer of an earlier edit or a
\* move of the selection comes between the typing and the Done.
SavedWhereTyped == \A e \in wire : e.kind = "qty" => e.of = e.line
=============================================================================
