------------------------- MODULE TillScreens_proofs -------------------------
(***************************************************************************)
(* What TLAPS proves of the screens of the till: of the offline queue, the *)
(* line editor and the tabs of bills, for every set of scans, lines and    *)
(* bills; and of the routes, for every set of accounts.                    *)
(***************************************************************************)
EXTENDS OfflineQueue, LineEdits, BillingScreen, StaffNavigation, SequenceTheorems, WellFoundedInduction,
        TLAPS

-----------------------------------------------------------------------------
(* The offline queue.  While it is sent every scan of the list is still to  *)
(* send, has failed or is on the bill; what is about to be written to the   *)
(* list has all that the list has.                                          *)

QueueRecords ==
  /\ queue \in Seq(ScanNo)
  /\ adding \in [on : BOOLEAN, list : Seq(ScanNo)]
  /\ flush \in [on : BOOLEAN, todo : Seq(ScanNo), remaining : Seq(ScanNo)]

AddingKeepsList ==
  adding.on => /\ ~flush.on /\ adding.list # <<>>
               /\ Range(queue) \subseteq Range(adding.list)

FlushKeepsScans ==
  flush.on => Range(queue) \subseteq Range(flush.todo) \union Range(flush.remaining) \union applied

ScansInv == QueueRecords /\ AddingKeepsList /\ FlushKeepsScans /\ NoScanLost

\* What is in a list after one more is appended, and after its first is taken off.
LEMMA RangeOfAppend ==
  ASSUME NEW S, NEW s \in Seq(S), NEW x \in S
  PROVE  /\ Range(Append(s, x)) = Range(s) \union {x}
         /\ Append(s, x) \in Seq(S) /\ Append(s, x) # <<>>
         /\ Last(Append(s, x)) = x
<1>1. /\ DOMAIN s = 1 .. Len(s) /\ Len(s) \in Nat
      /\ DOMAIN Append(s, x) = 1 .. Len(s) + 1 /\ Len(Append(s, x)) = Len(s) + 1
      /\ \A n \in 1 .. Len(s) : Append(s, x)[n] = s[n]
      /\ Append(s, x)[Len(s) + 1] = x
      /\ Append(s, x) \in Seq(S)
  OBVIOUS
<1>2. Range(Append(s, x)) = Range(s) \union {x}
  BY <1>1 DEF Range
<1>3. Append(s, x) # <<>>
  BY <1>1
<1>4. Last(Append(s, x)) = x
  BY <1>1 DEF Last
<1> QED BY <1>1, <1>2, <1>3, <1>4

LEMMA RangeOfTail ==
  ASSUME NEW S, NEW s \in Seq(S), s # <<>>
  PROVE  /\ Range(s) = {Head(s)} \union Range(Tail(s))
         /\ Head(s) \in S /\ Tail(s) \in Seq(S)
<1>1. /\ DOMAIN s = 1 .. Len(s) /\ Len(s) \in Nat \ {0}
      /\ Head(s) = s[1] /\ Head(s) \in S /\ Tail(s) \in Seq(S)
      /\ DOMAIN Tail(s) = 1 .. Len(s) - 1
      /\ \A n \in 1 .. Len(s) - 1 : Tail(s)[n] = s[n + 1]
  OBVIOUS
<1>2. ASSUME NEW n \in DOMAIN s, n # 1
      PROVE  n - 1 \in DOMAIN Tail(s) /\ Tail(s)[n - 1] = s[n]
  <2>1. n - 1 \in 1 .. Len(s) - 1 /\ (n - 1) + 1 = n
    BY <1>1, <1>2
  <2> QED BY <1>1, <2>1
<1>3. \A n \in DOMAIN Tail(s) : n + 1 \in DOMAIN s /\ Tail(s)[n] = s[n + 1]
  BY <1>1
<1>4. 1 \in DOMAIN s
  BY <1>1
<1>5. Range(s) \subseteq {Head(s)} \union Range(Tail(s))
  BY <1>1, <1>2 DEF Range
<1>6. {Head(s)} \union Range(Tail(s)) \subseteq Range(s)
  BY <1>1, <1>3, <1>4 DEF Range
<1> QED BY <1>1, <1>5, <1>6

LEMMA RangeOfNone == Range(<<>>) = {}
  BY DEF Range

LEMMA LastInRange ==
  ASSUME NEW S, NEW s \in Seq(S), s # <<>>
  PROVE  Last(s) \in Range(s)
<1>1. DOMAIN s = 1 .. Len(s) /\ Len(s) \in Nat \ {0}
  OBVIOUS
<1> QED BY <1>1 DEF Last, Range

LEMMA ScansInit == QueueInit => ScansInv
  BY RangeOfNone
  DEF QueueInit, ScansInv, QueueRecords, AddingKeepsList, FlushKeepsScans, NoScanLost, NoAdd, NoFlush

LEMMA ReadToAddStep ==
  ASSUME ScansInv, ~ScanWhileFlushing, NEW s \in ScanNo, ReadToAdd(s)
  PROVE  ScansInv'
<1>1. queue \in Seq(ScanNo)
  BY DEF ScansInv, QueueRecords
<1>2. adding'.on /\ adding'.list = Append(queue, s) /\ ~flush.on
  BY DEF ReadToAdd
<1>3. QueueRecords'
  BY <1>1, RangeOfAppend DEF ScansInv, QueueRecords, ReadToAdd
<1>4. AddingKeepsList'
  BY <1>1, <1>2, RangeOfAppend DEF AddingKeepsList, ReadToAdd
<1>5. FlushKeepsScans' /\ NoScanLost'
  BY DEF ScansInv, FlushKeepsScans, NoScanLost, ReadToAdd
<1> QED BY <1>3, <1>4, <1>5 DEF ScansInv

LEMMA WriteAddedStep ==
  ASSUME ScansInv, WriteAdded
  PROVE  ScansInv'
<1>1. /\ adding.list \in Seq(ScanNo) /\ adding.list # <<>> /\ ~flush.on
      /\ Range(queue) \subseteq Range(adding.list)
  BY DEF ScansInv, QueueRecords, AddingKeepsList, WriteAdded
<1>2. Last(adding.list) \in Range(adding.list)
  BY <1>1, LastInRange
<1>3. QueueRecords' /\ AddingKeepsList'
  BY <1>1 DEF ScansInv, QueueRecords, AddingKeepsList, WriteAdded, NoAdd
<1>4. FlushKeepsScans'
  BY <1>1 DEF FlushKeepsScans, WriteAdded
<1>5. NoScanLost'
  BY <1>1, <1>2 DEF ScansInv, NoScanLost, WriteAdded
<1> QED BY <1>3, <1>4, <1>5 DEF ScansInv

LEMMA StartFlushStep ==
  ASSUME ScansInv, ~ScanWhileFlushing, StartFlush, UNCHANGED <<queue, adding, accepted, applied>>
  PROVE  ScansInv'
<1>1. ~adding.on
  BY DEF StartFlush
<1>2. flush'.todo = queue
  BY DEF StartFlush
<1> QED BY <1>1, <1>2 DEF ScansInv, QueueRecords, AddingKeepsList, FlushKeepsScans, NoScanLost, StartFlush

\* A scan that was sent is on the bill; one that failed, even if it arrived, is kept.
LEMMA SendNextStep ==
  ASSUME ScansInv, SendNext
  PROVE  ScansInv'
<1> DEFINE s == Head(flush.todo)
<1>1. /\ flush.todo \in Seq(ScanNo) /\ flush.todo # <<>> /\ flush.remaining \in Seq(ScanNo)
      /\ flush.on /\ ~adding.on
  BY DEF ScansInv, QueueRecords, AddingKeepsList, SendNext
<1>2. PICK arrives, failed \in BOOLEAN :
        /\ ~arrives => failed
        /\ applied' = applied \union (IF arrives THEN {s} ELSE {})
        /\ flush' = [flush EXCEPT !.todo = Tail(@), !.remaining = Remaining(s, failed)]
  BY DEF SendNext
<1>3. /\ s \in ScanNo /\ Tail(flush.todo) \in Seq(ScanNo)
      /\ Range(flush.todo) = {s} \union Range(Tail(flush.todo))
  BY <1>1, RangeOfTail
<1>4. /\ Remaining(s, failed) \in Seq(ScanNo)
      /\ Range(Remaining(s, failed)) = Range(flush.remaining) \union (IF failed THEN {s} ELSE {})
  BY <1>1, <1>3, RangeOfAppend DEF Remaining
<1>5. /\ flush' \in [on : BOOLEAN, todo : Seq(ScanNo), remaining : Seq(ScanNo)]
      /\ flush'.todo = Tail(flush.todo) /\ flush'.remaining = Remaining(s, failed)
  BY <1>2, <1>3, <1>4 DEF ScansInv, QueueRecords
<1> HIDE DEF s
<1>6. UNCHANGED <<queue, adding, accepted>>
  BY DEF SendNext
<1>7. QueueRecords' /\ AddingKeepsList'
  BY <1>1, <1>5, <1>6 DEF ScansInv, QueueRecords, AddingKeepsList
<1>8. FlushKeepsScans'
  BY <1>1, <1>2, <1>3, <1>4, <1>5, <1>6 DEF ScansInv, FlushKeepsScans
<1>9. NoScanLost'
  BY <1>2, <1>6 DEF ScansInv, NoScanLost
<1> QED BY <1>7, <1>8, <1>9 DEF ScansInv

LEMMA FinishFlushStep ==
  ASSUME ScansInv, FinishFlush
  PROVE  ScansInv'
<1>1. Range(flush.todo) = {} /\ flush.remaining \in Seq(ScanNo) /\ ~adding.on
  BY RangeOfNone DEF ScansInv, QueueRecords, AddingKeepsList, FinishFlush
<1>2. QueueRecords' /\ AddingKeepsList' /\ FlushKeepsScans'
  BY <1>1 DEF ScansInv, QueueRecords, AddingKeepsList, FlushKeepsScans, FinishFlush, NoFlush
<1>3. NoScanLost'
  BY <1>1 DEF ScansInv, FlushKeepsScans, NoScanLost, FinishFlush
<1> QED BY <1>2, <1>3 DEF ScansInv

LEMMA ScansNext == ~ScanWhileFlushing /\ ScansInv /\ [QueueNext]_queueVars => ScansInv'
<1> SUFFICES ASSUME ~ScanWhileFlushing, ScansInv, [QueueNext]_queueVars PROVE ScansInv'
  OBVIOUS
<1>1. ASSUME UNCHANGED <<queue, adding, flush, accepted, applied>>
      PROVE  ScansInv'
  BY <1>1 DEF ScansInv, QueueRecords, AddingKeepsList, FlushKeepsScans, NoScanLost
<1>2. CASE SyncEffect
  BY <1>1, <1>2, StartFlushStep DEF SyncEffect
<1>3. CASE SyncNow
  BY <1>3, StartFlushStep DEF SyncNow
<1>4. CASE ReloadPage
  BY <1>4 DEF ReloadPage, NoAdd, NoFlush, ScansInv, QueueRecords, AddingKeepsList, FlushKeepsScans,
              NoScanLost
<1>5. CASE SwitchNetwork \/ UNCHANGED queueVars
  BY <1>1, <1>5 DEF SwitchNetwork, queueVars
<1> QED BY <1>2, <1>3, <1>4, <1>5, ReadToAddStep, WriteAddedStep, SendNextStep, FinishFlushStep
        DEF QueueNext

\* A scan taken without a network is never lost, through failures, lost answers and reloads of
\* the page, as long as no scan is queued while the queue is sent.
THEOREM ScansAreKept == ~ScanWhileFlushing => (QueueSpec => []NoScanLost)
<1> SUFFICES ASSUME ~ScanWhileFlushing PROVE QueueSpec => []NoScanLost
  OBVIOUS
<1>1. ScansInv /\ [QueueNext]_queueVars => ScansInv'
  BY ScansNext
<1>2. ScansInv => NoScanLost
  BY DEF ScansInv
<1> QED BY <1>1, <1>2, ScansInit, PTL DEF QueueSpec

\* The types of the list do not depend on when scans are queued: what is written to it is never empty.
QueueFlags == online \in BOOLEAN /\ syncDue \in BOOLEAN
QueueScans == count \in Nat /\ accepted \subseteq ScanNo /\ applied \subseteq ScanNo
WritesSome == adding.on => adding.list # <<>>

QueueInv == QueueRecords /\ QueueFlags /\ QueueScans /\ WritesSome

LEMMA QueueInitInv == QueueInit => QueueInv
<1> SUFFICES ASSUME QueueInit PROVE QueueInv
  OBVIOUS
<1>1. QueueFlags
  BY DEF QueueInit, QueueFlags
<1>2. QueueRecords /\ QueueScans /\ WritesSome
  BY DEF QueueInit, QueueRecords, QueueScans, WritesSome, NoAdd, NoFlush
<1> QED BY <1>1, <1>2 DEF QueueInv

LEMMA QueueStep == QueueInv /\ [QueueNext]_queueVars => QueueInv'
<1> SUFFICES ASSUME QueueInv, [QueueNext]_queueVars PROVE QueueInv'
  OBVIOUS
<1> DEFINE Rest == QueueRecords /\ QueueScans /\ WritesSome
<1>0. QueueFlags'
  BY Zenon DEF QueueInv, QueueFlags, QueueNext, queueVars, ReadToAdd, WriteAdded, SwitchNetwork, SyncEffect, SyncNow,
         StartFlush, SendNext, FinishFlush, ReloadPage
<1>1. \A s \in Seq(ScanNo) : Len(s) \in Nat
  OBVIOUS
<1>2. ASSUME NEW s \in ScanNo, ReadToAdd(s) PROVE Rest'
  <2>1. Append(queue, s) \in Seq(ScanNo) /\ Append(queue, s) # <<>>
    BY RangeOfAppend DEF QueueInv, QueueRecords
  <2> QED BY <1>2, <2>1 DEF ReadToAdd, QueueInv, QueueRecords, QueueScans, WritesSome
<1>3. ASSUME WriteAdded PROVE Rest'
  <2>1. adding.list \in Seq(ScanNo) /\ adding.list # <<>>
    BY <1>3 DEF WriteAdded, QueueInv, QueueRecords, WritesSome
  <2>2. Last(adding.list) \in ScanNo
    BY <2>1 DEF Last
  <2> QED BY <1>3, <2>1, <2>2 DEF WriteAdded, NoAdd, QueueInv, QueueRecords, QueueScans, WritesSome
<1>4. ASSUME SwitchNetwork \/ ReloadPage PROVE Rest'
  <2>1. count' = Len(queue) /\ UNCHANGED <<queue, accepted, applied>>
    BY <1>4 DEF SwitchNetwork, ReloadPage
  <2>2. UNCHANGED <<adding, flush>> \/ (adding' = NoAdd /\ flush' = NoFlush)
    BY <1>4 DEF SwitchNetwork, ReloadPage
  <2>3. /\ NoAdd \in [on : BOOLEAN, list : Seq(ScanNo)] /\ ~NoAdd.on
        /\ NoFlush \in [on : BOOLEAN, todo : Seq(ScanNo), remaining : Seq(ScanNo)]
    BY DEF NoAdd, NoFlush
  <2>4. QueueRecords'
    BY <2>1, <2>2, <2>3 DEF QueueInv, QueueRecords
  <2>5. QueueScans'
    BY <1>1, <2>1 DEF QueueInv, QueueRecords, QueueScans
  <2>6. WritesSome'
    BY <2>2, <2>3 DEF QueueInv, WritesSome
  <2> QED BY <2>4, <2>5, <2>6
<1>5. ASSUME SyncEffect \/ SyncNow PROVE Rest'
  <2>1. UNCHANGED <<queue, adding, count, accepted, applied>>
    BY <1>5 DEF SyncEffect, SyncNow
  <2>2. UNCHANGED flush \/ flush' = [on |-> TRUE, todo |-> queue, remaining |-> <<>>]
    BY <1>5 DEF SyncEffect, SyncNow, StartFlush
  <2>3. [on |-> TRUE, todo |-> queue, remaining |-> <<>>]
          \in [on : BOOLEAN, todo : Seq(ScanNo), remaining : Seq(ScanNo)]
    BY DEF QueueInv, QueueRecords
  <2>4. QueueRecords'
    BY <2>1, <2>2, <2>3 DEF QueueInv, QueueRecords
  <2> QED BY <2>1, <2>4 DEF QueueInv, QueueScans, WritesSome
<1>6. ASSUME SendNext PROVE Rest'
  <2>1. Head(flush.todo) \in ScanNo /\ Tail(flush.todo) \in Seq(ScanNo)
    BY <1>6, RangeOfTail DEF SendNext, QueueInv, QueueRecords
  <2>2. \A failed \in BOOLEAN : Remaining(Head(flush.todo), failed) \in Seq(ScanNo)
    BY <2>1 DEF Remaining, QueueInv, QueueRecords
  <2> QED BY <1>6, <2>1, <2>2 DEF SendNext, QueueInv, QueueRecords, QueueScans, WritesSome
<1>7. ASSUME FinishFlush PROVE Rest'
  BY <1>1, <1>7 DEF FinishFlush, NoFlush, QueueInv, QueueRecords, QueueScans, WritesSome
<1>8. ASSUME UNCHANGED queueVars PROVE Rest'
  BY <1>8 DEF queueVars, QueueInv, QueueRecords, QueueScans, WritesSome
<1> QED BY <1>0, <1>2, <1>3, <1>4, <1>5, <1>6, <1>7, <1>8 DEF QueueNext, QueueInv

\* The types of the offline queue.
THEOREM QueueTypes == QueueSpec => []QueueTypeOK
<1>1. QueueInv => QueueTypeOK
  <2>1. \A s \in Seq(ScanNo) : Range(s) \subseteq ScanNo
    BY DEF Range
  <2> QED BY <2>1 DEF QueueInv, QueueRecords, QueueFlags, QueueScans, QueueTypeOK
<1> QED BY <1>1, QueueInitInv, QueueStep, PTL DEF QueueSpec

-----------------------------------------------------------------------------
(* The line editor.  What is typed belongs to the selected line; of the     *)
(* edits on their way at most the last one sent still counts.               *)

Qty == 0 .. MaxTyped
Edit == [kind : {"qty", "discount"}, line : Line, n : Qty, of : Line \union {NoLine}, no : Nat,
         live : BOOLEAN, at : {"sent", "done", "refused"}, got : {<<>>} \union [Line -> Qty]]

\* An edit that is done has the bill as it was then.
AnsweredInRange(edits) == \A e \in edits : e.at = "done" => e.got \in [Line -> Qty]

EditRecords ==
  /\ lines \in [Line -> Qty] /\ view \in [Line -> Qty] /\ selected \in Line \union {NoLine}
  /\ draft \in [n : Qty, of : Line \union {NoLine}]
  /\ sent \in 0 .. MaxSent /\ taken \in Nat
  /\ wire \subseteq Edit
  /\ AnsweredInRange(wire)
  /\ busy \in [kind : {"none", "scan", "remove"}, line : Line \union {NoLine},
               got : {<<>>} \union [Line -> Qty]]
  /\ busy.kind # "none" => busy.line \in Line
  /\ busy.got # <<>> => busy.got \in [Line -> Qty]

DraftIsOfSelected == draft = NoDraft \/ draft.of = selected

NoneIsNewer == taken <= sent /\ \A e \in wire : e.no <= sent
LiveIsNewest == \A e \in wire : e.live => e.no >= taken
LiveIsOne == \A e, f \in wire : e.live /\ f.live => e = f

EditsInv ==
  /\ EditRecords /\ DraftIsOfSelected /\ SavedWhereTyped
  /\ NoneIsNewer /\ LiveIsNewest /\ LiveIsOne

LEMMA ZeroAndOne == 0 \in Qty /\ 1 \in Qty /\ Qty \subseteq Nat
  BY LineAssumption DEF Qty

LEMMA EditsInit == LineInit => EditsInv
<1> SUFFICES ASSUME LineInit PROVE EditsInv
  OBVIOUS
<1>1. EditRecords
  BY ZeroAndOne, LineAssumption DEF LineInit, EditRecords, NoDraft, Idle, AnsweredInRange
<1>2. DraftIsOfSelected /\ SavedWhereTyped /\ NoneIsNewer /\ LiveIsNewest /\ LiveIsOne
  BY DEF LineInit, DraftIsOfSelected, SavedWhereTyped, NoneIsNewer, LiveIsNewest, LiveIsOne
<1> QED BY <1>1, <1>2 DEF EditsInv

\* Dropping edits leaves all of them but their answers to count.
LEMMA DropKeeps ==
  ASSUME NEW S \in SUBSET Edit
  PROVE  /\ Drop(S) \subseteq Edit
         /\ \A d \in Drop(S) : ~ d.live
         /\ \A d \in Drop(S) : \E e \in S : d.kind = e.kind /\ d.of = e.of /\ d.line = e.line /\ d.no = e.no
  BY DEF Drop, Edit

LEMMA DropAnswered ==
  ASSUME NEW S \in SUBSET Edit, AnsweredInRange(S)
  PROVE  AnsweredInRange(Drop(S))
  BY DEF Drop, Edit, AnsweredInRange

\* A step that touches no edit and shows no answer of one.
LEMMA WireKept ==
  ASSUME EditsInv, EditRecords', DraftIsOfSelected', UNCHANGED <<wire, taken>>, sent' \in Nat, sent' >= sent
  PROVE  EditsInv'
  <1>1. \A e \in wire : e.no \in Nat
  BY DEF EditsInv, EditRecords, Edit
<1>2. sent \in Nat /\ taken \in Nat
  BY DEF EditsInv, EditRecords
<1>3. NoneIsNewer' /\ LiveIsNewest' /\ LiveIsOne' /\ SavedWhereTyped'
  BY <1>1, <1>2 DEF EditsInv, SavedWhereTyped, NoneIsNewer, LiveIsNewest, LiveIsOne
<1> QED BY <1>3 DEF EditsInv

\* A step that drops edits that were on their way.
LEMMA WireDropped ==
  ASSUME EditsInv, EditRecords', DraftIsOfSelected', NEW S \in SUBSET wire, wire' = Drop(S),
         UNCHANGED sent, taken' \in Nat, taken' <= sent
  PROVE  EditsInv'
<1>1. S \subseteq Edit
  BY DEF EditsInv, EditRecords
<1>2. \A d \in wire' : ~ d.live /\ \E e \in S : d.kind = e.kind /\ d.of = e.of /\ d.line = e.line /\ d.no = e.no
  BY <1>1, DropKeeps
<1>3. SavedWhereTyped'
  BY <1>2 DEF EditsInv, SavedWhereTyped
<1>4. NoneIsNewer' /\ LiveIsNewest' /\ LiveIsOne'
  BY <1>2 DEF EditsInv, NoneIsNewer, LiveIsNewest, LiveIsOne
<1> QED BY <1>3, <1>4 DEF EditsInv

LEMMA SelectStep ==
  ASSUME EditsInv, NEW l \in Line, Select(l)
  PROVE  EditsInv'
<1>1. l \in OnBill(view)
  BY DEF Select
<1>2. draft' = [n |-> view[l], of |-> l] /\ selected' = l
  BY <1>1 DEF Select, DraftFor
<1>3. EditRecords' /\ DraftIsOfSelected'
  BY <1>2 DEF EditsInv, EditRecords, DraftIsOfSelected, Select
<1> QED BY <1>3, WireKept DEF Select, EditsInv, EditRecords

LEMMA TypeQtyStep ==
  ASSUME EditsInv, NEW n \in 1 .. MaxTyped, TypeQty(n)
  PROVE  EditsInv'
<1>1. selected \in Line /\ n \in Qty
  BY DEF TypeQty, OnBill, Qty
<1>2. draft' = [n |-> n, of |-> selected] /\ selected' = selected
  BY DEF TypeQty
<1>3. EditRecords' /\ DraftIsOfSelected'
  BY <1>1, <1>2 DEF EditsInv, EditRecords, DraftIsOfSelected, TypeQty, Qty
<1> QED BY <1>3, WireKept DEF TypeQty, EditsInv, EditRecords

LEMMA NoDraftIsFine == NoDraft \in [n : Qty, of : Line \union {NoLine}]
  BY ZeroAndOne DEF NoDraft

LEMMA DeselectLineStep ==
  ASSUME EditsInv, DeselectLine
  PROVE  EditsInv'
<1>1. /\ wire' = Drop(wire) /\ wire' \subseteq Edit /\ draft' = NoDraft
      /\ AnsweredInRange(wire')
  BY DropKeeps, DropAnswered DEF DeselectLine, EditsInv, EditRecords
<1>2. EditRecords' /\ DraftIsOfSelected'
  BY <1>1, NoDraftIsFine DEF EditsInv, EditRecords, DraftIsOfSelected, DeselectLine
<1> QED BY <1>1, <1>2, WireDropped DEF DeselectLine, EditsInv, EditRecords, NoneIsNewer

\* Sending an edit for the selected line: it is the only one that counts, and the newest.
LEMMA SendEditStep ==
  ASSUME EditsInv, NEW kind \in {"qty", "discount"}, NEW n \in Qty, SendEdit(kind, n),
         selected \in Line, kind = "qty" => draft.of = selected,
         UNCHANGED <<lines, view, selected, draft, busy, taken>>
  PROVE  EditsInv'
<1> DEFINE e == [kind |-> kind, line |-> selected, n |-> n, of |-> draft.of, no |-> sent + 1,
                 live |-> TRUE, at |-> "sent", got |-> <<>>]
<1>1. wire \subseteq Edit /\ sent \in Nat /\ taken \in Nat /\ draft.of \in Line \union {NoLine}
  BY DEF EditsInv, EditRecords
<1>2. e \in Edit
  BY <1>1 DEF Edit
<1>3. e.no = sent + 1 /\ (e.kind = "qty" => e.of = e.line) /\ e.at = "sent"
  OBVIOUS
<1>4. wire' = Drop(wire) \union {e} /\ sent' = sent + 1 /\ sent' \in 0 .. MaxSent
  BY LineAssumption DEF SendEdit, EditsInv, EditRecords
<1> HIDE DEF e
<1>5. /\ Drop(wire) \subseteq Edit
      /\ \A d \in Drop(wire) : ~ d.live
      /\ \A d \in Drop(wire) : \E f \in wire : d.kind = f.kind /\ d.of = f.of /\ d.line = f.line /\ d.no = f.no
      /\ AnsweredInRange(Drop(wire))
  BY <1>1, DropKeeps, DropAnswered DEF EditsInv, EditRecords
<1>6. EditRecords' /\ DraftIsOfSelected'
  BY <1>1, <1>2, <1>3, <1>4, <1>5 DEF EditsInv, EditRecords, DraftIsOfSelected, AnsweredInRange
<1>7. SavedWhereTyped'
  BY <1>3, <1>4, <1>5 DEF EditsInv, SavedWhereTyped
<1>8. \A d \in Drop(wire) : d.no \in Nat /\ d.no <= sent
  BY <1>5 DEF EditsInv, NoneIsNewer, Edit
<1>9. NoneIsNewer'
  BY <1>1, <1>3, <1>4, <1>8 DEF EditsInv, NoneIsNewer
<1>10. LiveIsNewest' /\ LiveIsOne'
  BY <1>1, <1>3, <1>4, <1>5 DEF EditsInv, NoneIsNewer, LiveIsNewest, LiveIsOne
<1> QED BY <1>6, <1>7, <1>9, <1>10 DEF EditsInv

LEMMA DoneStep ==
  ASSUME EditsInv, Done
  PROVE  EditsInv'
<1>1. selected \in Line /\ draft.of = selected /\ draft.n \in Qty
  BY DEF Done, OnBill, EditsInv, DraftIsOfSelected, EditRecords
<1>2. CASE draft.n # view[selected]
  BY <1>1, <1>2, SendEditStep DEF Done
<1>3. CASE draft.n = view[selected]
  <2>1. /\ wire' = Drop(wire) /\ wire' \subseteq Edit /\ draft' = NoDraft
        /\ AnsweredInRange(wire')
    BY <1>3, DropKeeps, DropAnswered DEF Done, EditsInv, EditRecords
  <2>2. EditRecords' /\ DraftIsOfSelected'
    BY <1>3, <2>1, NoDraftIsFine DEF EditsInv, EditRecords, DraftIsOfSelected, Done
  <2> QED BY <1>3, <2>1, <2>2, WireDropped DEF Done, EditsInv, EditRecords, NoneIsNewer
<1> QED BY <1>2, <1>3

LEMMA SetDiscountStep ==
  ASSUME EditsInv, SetDiscount
  PROVE  EditsInv'
  BY SendEditStep, ZeroAndOne DEF SetDiscount, OnBill

\* The server's answer leaves of an edit what it was.
LEMMA ServeEditStep ==
  ASSUME EditsInv, NEW e \in wire, ServeEdit(e)
  PROVE  EditsInv'
<1>1. e \in Edit /\ lines \in [Line -> Qty]
  BY DEF EditsInv, EditRecords
<1>2. PICK a \in Edit :
        /\ wire' = (wire \ {e}) \union {a} /\ lines' \in [Line -> Qty]
        /\ a.kind = e.kind /\ a.of = e.of /\ a.line = e.line /\ a.no = e.no /\ a.live = e.live
        /\ a.at = "done" => a.got \in [Line -> Qty]
  <2> DEFINE changed == IF e.kind = "qty" THEN [lines EXCEPT ![e.line] = e.n] ELSE lines
             yes == [e EXCEPT !.at = "done", !.got = changed]
             no == [e EXCEPT !.at = "refused"]
  <2>1. changed \in [Line -> Qty]
    BY <1>1 DEF Edit
  <2> HIDE DEF changed
  <2>2. /\ yes \in Edit /\ yes.kind = e.kind /\ yes.of = e.of /\ yes.line = e.line /\ yes.no = e.no
        /\ yes.live = e.live /\ yes.got \in [Line -> Qty]
    BY <1>1, <2>1 DEF Edit
  <2>3. /\ no \in Edit /\ no.kind = e.kind /\ no.of = e.of /\ no.line = e.line /\ no.no = e.no
        /\ no.live = e.live /\ no.at = "refused"
    BY <1>1 DEF Edit
  <2>4. \/ lines' = changed /\ wire' = (wire \ {e}) \union {yes}
        \/ lines' = lines /\ wire' = (wire \ {e}) \union {no}
    BY DEF ServeEdit, changed
  <2> HIDE DEF yes, no
  <2> QED BY <1>1, <2>1, <2>2, <2>3, <2>4
<1>3. UNCHANGED <<view, selected, draft, sent, busy, taken>>
  BY DEF ServeEdit
<1>4. EditRecords' /\ DraftIsOfSelected'
  BY <1>2, <1>3 DEF EditsInv, EditRecords, DraftIsOfSelected, AnsweredInRange
<1>5. SavedWhereTyped' /\ NoneIsNewer' /\ LiveIsNewest'
  BY <1>2, <1>3 DEF EditsInv, SavedWhereTyped, NoneIsNewer, LiveIsNewest
<1>6. LiveIsOne'
  BY <1>2 DEF EditsInv, LiveIsOne
<1> QED BY <1>4, <1>5, <1>6 DEF EditsInv

\* The answer that counts is that of the newest edit.
LEMMA EditAnswerStep ==
  ASSUME EditsInv, NEW e \in wire, EditAnswer(e)
  PROVE  EditsInv' /\ taken' >= taken
<1>1. e \in Edit /\ wire \subseteq Edit /\ taken \in Nat /\ sent \in Nat
  BY DEF EditsInv, EditRecords
<1>2. /\ taken' \in Nat /\ taken' <= sent /\ taken' >= taken
      /\ taken' = taken \/ (e.live /\ taken' = e.no)
  BY <1>1 DEF EditAnswer, Counts, EditsInv, NoneIsNewer, LiveIsNewest, Edit
<1>3. view' \in [Line -> Qty]
  <2>1. CASE Counts(e)
    <3>1. view' = e.got /\ e.at = "done"
      BY <2>1 DEF EditAnswer, Counts
    <3>2. e.got \in [Line -> Qty]
      BY <1>1, <3>1 DEF EditsInv, EditRecords, AnsweredInRange
    <3> QED BY <3>1, <3>2
  <2>2. CASE ~ Counts(e)
    BY <2>2 DEF EditAnswer, EditsInv, EditRecords
  <2> QED BY <2>1, <2>2
<1>4. UNCHANGED <<lines, sent, busy>>
  BY DEF EditAnswer
<1>5. CASE e.kind = "qty"
  <2>0. wire \ {e} \in SUBSET Edit /\ AnsweredInRange(wire \ {e})
    BY <1>1 DEF EditsInv, EditRecords, AnsweredInRange
  <2>1. /\ wire' = Drop(wire \ {e}) /\ draft' = NoDraft /\ selected' = NoLine /\ wire' \subseteq Edit
        /\ AnsweredInRange(wire')
    BY <1>5, <2>0, DropKeeps, DropAnswered DEF EditAnswer
  <2>2. EditRecords' /\ DraftIsOfSelected'
    BY <1>2, <1>3, <1>4, <2>1, NoDraftIsFine DEF EditsInv, EditRecords, DraftIsOfSelected
  <2> QED BY <1>2, <1>4, <2>1, <2>2, WireDropped
<1>6. CASE e.kind # "qty"
  <2>1. wire' = wire \ {e} /\ UNCHANGED <<selected, draft>>
    BY <1>6 DEF EditAnswer
  <2>2. EditRecords' /\ DraftIsOfSelected'
    BY <1>2, <1>3, <1>4, <2>1 DEF EditsInv, EditRecords, DraftIsOfSelected, AnsweredInRange
  <2>3. SavedWhereTyped' /\ NoneIsNewer' /\ LiveIsOne'
    BY <1>2, <1>4, <2>1 DEF EditsInv, SavedWhereTyped, NoneIsNewer, LiveIsOne
  <2>4. LiveIsNewest'
    BY <1>2, <2>1 DEF EditsInv, LiveIsNewest, LiveIsOne
  <2> QED BY <1>2, <2>2, <2>3, <2>4 DEF EditsInv
<1> QED BY <1>2, <1>5, <1>6

LEMMA BusyStarts ==
  ASSUME EditsInv, \/ \E l \in Line : Scan(l)
                   \/ RemoveLine
  PROVE  EditsInv'
<1>1. PICK kind \in {"scan", "remove"}, l \in Line : busy' = [kind |-> kind, line |-> l, got |-> <<>>]
  BY DEF Scan, RemoveLine, OnBill
<1>2. /\ sent' \in 0 .. MaxSent /\ sent' \in Nat /\ sent' >= sent
      /\ UNCHANGED <<lines, view, selected, draft, wire, taken>>
  BY LineAssumption DEF Scan, RemoveLine, EditsInv, EditRecords
<1>3. EditRecords' /\ DraftIsOfSelected'
  BY <1>1, <1>2 DEF EditsInv, EditRecords, DraftIsOfSelected
<1> QED BY <1>2, <1>3, WireKept

LEMMA ServeBusyStep ==
  ASSUME EditsInv, ServeBusy
  PROVE  EditsInv'
<1>1. busy.line \in Line /\ lines \in [Line -> Qty] /\ MaxTyped \in Nat
  BY LineAssumption DEF ServeBusy, EditsInv, EditRecords
<1>2. lines' \in [Line -> Qty]
  BY <1>1 DEF ServeBusy, Qty
<1>3. busy' = [busy EXCEPT !.got = lines'] /\ UNCHANGED <<view, selected, draft, sent, wire, taken>>
  BY DEF ServeBusy
<1>4. EditRecords' /\ DraftIsOfSelected'
  BY <1>2, <1>3 DEF EditsInv, EditRecords, DraftIsOfSelected
<1> QED BY <1>3, <1>4, WireKept DEF EditsInv, EditRecords

LEMMA BusyAnswerStep ==
  ASSUME EditsInv, BusyAnswer
  PROVE  EditsInv'
<1>1. view' \in [Line -> Qty]
  BY DEF BusyAnswer, EditsInv, EditRecords
<1>2. busy' = Idle /\ UNCHANGED <<lines, sent, wire, taken>>
  BY DEF BusyAnswer
<1>3. \/ UNCHANGED <<selected, draft>>
      \/ selected' = NoLine /\ draft' = NoDraft
  BY DEF BusyAnswer
<1>4. EditRecords' /\ DraftIsOfSelected'
  BY <1>1, <1>2, <1>3, NoDraftIsFine DEF EditsInv, EditRecords, DraftIsOfSelected, Idle
<1> QED BY <1>2, <1>4, WireKept DEF EditsInv, EditRecords

LEMMA LineStep == EditsInv /\ [LineNext]_lineVars => EditsInv' /\ taken' >= taken
<1> SUFFICES ASSUME EditsInv, [LineNext]_lineVars PROVE EditsInv' /\ taken' >= taken
  OBVIOUS
<1>1. taken \in Nat
  BY DEF EditsInv, EditRecords
<1>2. ASSUME NEW e \in wire, EditAnswer(e)
      PROVE  EditsInv' /\ taken' >= taken
  BY <1>2, EditAnswerStep
<1>3. CASE UNCHANGED lineVars
  BY <1>1, <1>3 DEF lineVars, EditsInv, EditRecords, DraftIsOfSelected, SavedWhereTyped, NoneIsNewer,
                    LiveIsNewest, LiveIsOne
<1>4. CASE MoveSelection
  <2>1. PICK l \in Neighbours : Select(l)
    BY <1>4 DEF MoveSelection
  <2>2. l \in Line /\ UNCHANGED taken
    BY <2>1 DEF Select, OnBill
  <2> QED BY <1>1, <2>1, <2>2, SelectStep
<1>5. ASSUME NEW l \in Line, Select(l) \/ Scan(l)
      PROVE  EditsInv' /\ taken' >= taken
  <2>1. UNCHANGED taken
    BY <1>5 DEF Select, Scan
  <2> QED BY <1>1, <1>5, <2>1, SelectStep, BusyStarts
<1>6. ASSUME NEW n \in 1 .. MaxTyped, TypeQty(n)
      PROVE  EditsInv' /\ taken' >= taken
  <2>1. UNCHANGED taken
    BY <1>6 DEF TypeQty
  <2> QED BY <1>1, <1>6, <2>1, TypeQtyStep
<1>7. ASSUME NEW e \in wire, ServeEdit(e)
      PROVE  EditsInv' /\ taken' >= taken
  <2>1. UNCHANGED taken
    BY <1>7 DEF ServeEdit
  <2> QED BY <1>1, <1>7, <2>1, ServeEditStep
<1>8. CASE DeselectLine \/ Done \/ SetDiscount \/ RemoveLine \/ ServeBusy \/ BusyAnswer
  <2>1. UNCHANGED taken
    BY <1>8 DEF DeselectLine, Done, SetDiscount, RemoveLine, ServeBusy, BusyAnswer
  <2> QED BY <1>1, <1>8, <2>1, DeselectLineStep, DoneStep, SetDiscountStep, BusyStarts, ServeBusyStep,
             BusyAnswerStep
<1> QED BY <1>2, <1>3, <1>4, <1>5, <1>6, <1>7, <1>8 DEF LineNext

\* A typed quantity is saved on the line it was typed for, whatever answers and moves of the
\* selection come between.
THEOREM QuantitiesStayOnTheirLine == LineSpec => []SavedWhereTyped
<1>1. EditsInv => SavedWhereTyped
  BY DEF EditsInv
<1> QED BY <1>1, EditsInit, LineStep, PTL DEF LineSpec

\* The screen never goes back to the answer of an older edit.
THEOREM AnswersNeverGoBack == LineSpec => EditsShownInOrder
<1>1. EditsInv /\ [LineNext]_lineVars => EditsInv'
  BY LineStep
<1>2. EditsInv /\ [LineNext]_lineVars => [taken' >= taken]_lineVars
  BY LineStep
<1> QED BY <1>1, <1>2, EditsInit, PTL DEF LineSpec, EditsShownInOrder

\* The types of the line editor: no quantity leaves what may be typed, and every edit on its way is of a line.
THEOREM LineTypes == LineSpec => []LineTypeOK
<1>1. EditsInv => LineTypeOK
  <2> SUFFICES ASSUME EditsInv PROVE LineTypeOK
    OBVIOUS
  <2>1. /\ lines \in [Line -> Qty] /\ view \in [Line -> Qty] /\ draft \in [n : Qty, of : Line \union {NoLine}]
        /\ selected \in Line \union {NoLine} /\ wire \subseteq Edit /\ sent \in 0 .. MaxSent /\ taken \in Nat /\ taken <= sent
        /\ busy.line \in Line \union {NoLine} 
    BY DEF EditsInv, EditRecords, NoneIsNewer
  <2> QED BY <2>1, LineAssumption DEF LineTypeOK, Qty, Edit
<1> QED BY <1>1, EditsInit, LineStep, PTL DEF LineSpec

-----------------------------------------------------------------------------
(* The tabs of bills.  A bill that was opened or started last stays on the   *)
(* screen because nothing that could take its place is under way, and        *)
(* because the list either has it or is known to lag behind.                 *)

Row == [st : {"none", "DRAFT", "HOLD", "closed", "away"}, items : BOOLEAN]
ShownBill == [id : Bill \union {NoBill}, st : {"none", "DRAFT", "HOLD"}, items : BOOLEAN]
OfABill == {"open", "hold", "cancel", "transfer", "complete"}
Verb == OfABill \union {"create", "createIfClosed", "cleanup", "clear", "relist", "bootlist"}
Command == {c \in [do : Verb, id : Bill \union {NoBill}, st : {"none", "DRAFT", "HOLD", "closed", "away"},
                   pin : BOOLEAN] : c.do \in OfABill => c.id \in Bill}
Relist == Call("relist", NoBill)

\* What is pinned is opened last, before the list is fetched.
Pinned(s) == \A n \in 1 .. Len(s) : s[n].pin => n + 1 = Len(s) /\ s[n + 1] = Relist

ScreenRecords ==
  /\ bill \in [Bill -> Row] /\ shown \in ShownBill /\ tabs \in [Bill -> Row]
  /\ listing = NoList \/ listing \in [Bill -> Row]
  /\ pend \in Bill \union {NoBill} /\ check \in Bill \union {NoBill}
  /\ payFor \in Bill \union {NoBill} /\ asked \in Bill \union {NoBill}
  /\ load \subseteq Bill

ScriptsOK ==
  /\ script \in [user : Seq(Command), effect : Seq(Command)]
  /\ Pinned(script.user)

\* The lists name bills that exist, and a list on its way has the open bills of the last one.
ListsNameBills ==
  \A b \in Bill :
    /\ tabs[b] # NoTab => bill[b].st # "none"
    /\ listing # NoList => (listing[b] # NoTab => bill[b].st # "none")
    /\ listing # NoList /\ IsOpen(b) /\ tabs[b] # NoTab => listing[b] # NoTab

\* Bill b is on the screen and nothing is under way that could take its place.
Rests(b) ==
  /\ shown.id = b /\ check = NoBill /\ script.effect = <<>>
  /\ script.user = <<>> \/ script.user = <<Relist>>
  /\ load \subseteq {b}
  /\ pend = b \/ (tabs[b] # NoTab /\ (listing # NoList => listing[b] # NoTab))

AskedRests ==
  asked # NoBill => /\ bill[asked].st # "none"
                    /\ IsOpen(asked) => Rests(asked)

\* While the payment modal is open nothing runs but the completion of the bill.
PayRests ==
  payFor # NoBill =>
    /\ shown.id = payFor /\ load = {} /\ script.effect = <<>>
    /\ script.user = <<>> \/ Head(script.user).do = "complete"

ScreenInv == ScreenRecords /\ ScriptsOK /\ ListsNameBills /\ AskedRests /\ PayRests

-----------------------------------------------------------------------------
(* Lemmas about rows, lists and scripts *)

LEMMA NoTabIsARow == NoTab \in Row /\ NoTab.st = "none" /\ NoScreen \in ShownBill /\ NoScreen.id = NoBill
  BY DEF NoTab, Row, NoScreen, ShownBill

LEMMA NoBillIsNone == \A b \in Bill : b # NoBill
  BY ScreenAssumption

\* Every set of bills that is not empty has a first.
LEMMA FirstOfBills ==
  ASSUME NEW S \in SUBSET Bill, S # {}
  PROVE  Min(S) \in S
<1>1. S \subseteq Nat
  BY ScreenAssumption
<1>2. PICK x \in S : \A y \in S : ~ (<<y, x>> \in OpToRel(<, Nat))
  BY <1>1, NatLessThanWellFounded, WFMin
<1>3. \A y \in S : x <= y
  <2> SUFFICES ASSUME NEW y \in S PROVE x <= y
    OBVIOUS
  <2>1. x \in Nat /\ y \in Nat
    BY <1>1
  <2>2. ~ (y < x)
    BY <1>2, <2>1 DEF OpToRel
  <2> QED BY <2>1, <2>2
<1> QED BY <1>3 DEF Min

LEMMA SyncShows ==
  ASSUME NEW b \in Bill, NEW row \in Row
  PROVE  /\ Sync(b, row) \in ShownBill
         /\ Sync(b, row).id \in {b, NoBill}
         /\ row.st \in {"DRAFT", "HOLD"} => Sync(b, row).id = b
         /\ Sync(b, row).id = NoBill => Sync(b, row) = NoScreen
  BY NoTabIsARow, NoBillIsNone DEF Sync, Row, ShownBill

LEMMA CallIsCommand ==
  ASSUME NEW do \in Verb, NEW b \in Bill \union {NoBill}, do \in OfABill => b \in Bill
  PROVE  Call(do, b) \in Command /\ ~ Call(do, b).pin /\ Call(do, b).do = do
  BY DEF Call, Command

LEMMA OpenIsCommand ==
  ASSUME NEW b \in Bill, NEW row \in Row, NEW pin \in BOOLEAN
  PROVE  OpenBill(b, row.st, pin) \in Command /\ OpenBill(b, row.st, pin).pin = pin
  BY DEF OpenBill, Command, OfABill, Verb, Row

LEMMA CreateIsCommand ==
  ASSUME NEW pin \in BOOLEAN
  PROVE  Create(pin) \in Command /\ Create(pin).pin = pin
  BY DEF Create, Command, OfABill, Verb

LEMMA RelistIsCommand == Relist \in Command /\ ~ Relist.pin /\ Relist.do = "relist" /\ Relist = Call("relist", NoBill)
  BY CallIsCommand DEF Relist, Verb, OfABill

LEMMA OpenLastIsPinned ==
  ASSUME NEW c \in Command
  PROVE  <<c, Relist>> \in Seq(Command) /\ Pinned(<<c, Relist>>)
  BY RelistIsCommand DEF Pinned

LEMMA StartNewIsPinned == StartNew \in Seq(Command) /\ Pinned(StartNew)
<1>1. Create(TRUE) \in Command
  BY CreateIsCommand
<1>2. StartNew = <<Create(TRUE), Relist>>
  BY DEF StartNew, Relist
<1> QED BY <1>1, <1>2, OpenLastIsPinned

LEMMA FreeIsPinned ==
  ASSUME NEW s \in Seq(Command), \A n \in 1 .. Len(s) : ~ s[n].pin
  PROVE  Pinned(s)
  BY DEF Pinned

LEMMA OneIsPinned ==
  ASSUME NEW c \in Command, ~ c.pin
  PROVE  <<c>> \in Seq(Command) /\ Pinned(<<c>>)
  BY DEF Pinned

LEMMA NoneIsPinned == <<>> \in Seq(Command) /\ Pinned(<<>>)
  BY DEF Pinned

\* Commands that pin nothing, before a script.
LEMMA ConcatIsPinned ==
  ASSUME NEW p \in Seq(Command), \A n \in 1 .. Len(p) : ~ p[n].pin,
         NEW s \in Seq(Command), Pinned(s)
  PROVE  p \o s \in Seq(Command) /\ Pinned(p \o s)
<1> DEFINE t == p \o s
<1>1. /\ t \in Seq(Command) /\ Len(p) \in Nat /\ Len(s) \in Nat /\ Len(t) = Len(p) + Len(s)
      /\ \A n \in 1 .. Len(p) : t[n] = p[n]
      /\ \A n \in 1 .. Len(s) : t[Len(p) + n] = s[n]
  BY ConcatProperties, LenProperties
<1> HIDE DEF t
<1>2. ASSUME NEW n \in 1 .. Len(t), t[n].pin
      PROVE  n + 1 = Len(t) /\ t[n + 1] = Relist
  <2>1. ~ (n \in 1 .. Len(p))
    BY <1>1, <1>2
  <2>2. PICK m \in 1 .. Len(s) : n = Len(p) + m
    <3>1. n - Len(p) \in 1 .. Len(s) /\ n = Len(p) + (n - Len(p))
      BY <1>1, <2>1
    <3> QED BY <3>1
  <2>3. s[m].pin
    BY <1>1, <1>2, <2>2
  <2>4. m + 1 = Len(s) /\ s[m + 1] = Relist
    BY <2>3 DEF Pinned
  <2>5. m + 1 \in 1 .. Len(s) /\ n + 1 = Len(p) + (m + 1)
    BY <1>1, <2>2, <2>4
  <2>6. t[Len(p) + (m + 1)] = s[m + 1]
    BY <1>1, <2>5
  <2>7. n + 1 = Len(t)
    BY <1>1, <2>4, <2>5
  <2> QED BY <2>4, <2>5, <2>6, <2>7
<1>3. Pinned(t)
  BY <1>2 DEF Pinned
<1> QED BY <1>1, <1>3 DEF t

\* One command less: what follows a pinned command is the fetch of the list alone.
LEMMA TailIsPinned ==
  ASSUME NEW s \in Seq(Command), s # <<>>, Pinned(s)
  PROVE  /\ Head(s) \in Command /\ Tail(s) \in Seq(Command) /\ Pinned(Tail(s))
         /\ Head(s).pin => Tail(s) = <<Relist>>
<1> DEFINE t == Tail(s)
<1>1. /\ Len(s) \in Nat \ {0} /\ Head(s) = s[1] /\ Head(s) \in Command
      /\ t \in Seq(Command) /\ Len(t) = Len(s) - 1
      /\ \A n \in 1 .. Len(s) - 1 : t[n] = s[n + 1]
  OBVIOUS
<1> HIDE DEF t
<1>2. Pinned(t)
  <2> SUFFICES ASSUME NEW n \in 1 .. Len(t), t[n].pin
               PROVE  n + 1 = Len(t) /\ t[n + 1] = Relist
    BY DEF Pinned
  <2>1. n + 1 \in 1 .. Len(s) /\ s[n + 1].pin
    BY <1>1
  <2>2. (n + 1) + 1 = Len(s) /\ s[(n + 1) + 1] = Relist
    BY <2>1 DEF Pinned
  <2>3. n + 1 \in 1 .. Len(s) - 1 /\ n + 1 = Len(t)
    BY <1>1, <2>2
  <2> QED BY <1>1, <2>2, <2>3
<1>3. ASSUME Head(s).pin
      PROVE  t = <<Relist>>
  <2>1. 1 \in 1 .. Len(s) /\ s[1].pin
    BY <1>1, <1>3
  <2>2. 1 + 1 = Len(s) /\ s[1 + 1] = Relist
    BY <2>1 DEF Pinned
  <2>3. Len(t) = 1 /\ t[1] = Relist
    <3> DEFINE l == Len(s)
    <3>1. l \in Nat
      BY <1>1
    <3>2. l = 1 + 1
      BY <2>2
    <3> HIDE DEF l
    <3>3. l - 1 = 1 /\ 1 \in 1 .. l - 1
      BY <3>1, <3>2
    <3>4. Len(s) - 1 = 1 /\ 1 \in 1 .. Len(s) - 1
      BY <3>3 DEF l
    <3>5. t[1] = s[1 + 1]
      BY <1>1, <3>4
    <3> QED BY <1>1, <2>2, <3>4, <3>5
  <2>4. <<Relist>> \in Seq(Command) /\ Len(<<Relist>>) = 1 /\ <<Relist>>[1] = Relist
    BY RelistIsCommand
  <2>5. \A n \in 1 .. Len(t) : t[n] = <<Relist>>[n]
    BY <2>3, <2>4
  <2> QED BY <1>1, <2>3, <2>4, <2>5, SeqEqual
<1> QED BY <1>1, <1>2, <1>3 DEF t

LEMMA TwoAreFree ==
  ASSUME NEW c \in Command, NEW d \in Command, ~ c.pin, ~ d.pin
  PROVE  /\ <<c, d>> \in Seq(Command) /\ Pinned(<<c, d>>)
         /\ \A n \in 1 .. Len(<<c, d>>) : ~ <<c, d>>[n].pin
<1> DEFINE s == <<c, d>>
<1>1. s \in Seq(Command) /\ Len(s) = 2 /\ s[1] = c /\ s[2] = d
  OBVIOUS
<1> HIDE DEF s
<1>2. \A n \in 1 .. Len(s) : ~ s[n].pin
  BY <1>1
<1> QED BY <1>1, <1>2, FreeIsPinned DEF s

LEMMA BootScriptIsFree ==
  ASSUME NEW list \in [Bill -> Row]
  PROVE  BootScript(list) \in Seq(Command) /\ Pinned(BootScript(list))
<1>1. CASE Listed(list) = {}
  BY <1>1, CreateIsCommand, OneIsPinned DEF BootScript
<1>2. CASE Listed(list) # {}
  <2> DEFINE drafts == {b \in Listed(list) : list[b].st = "DRAFT"}
             pick == Min(IF drafts # {} THEN drafts ELSE Listed(list))
  <2>1. pick \in Bill
    BY <1>2, FirstOfBills DEF Listed
  <2>2. BootScript(list) = <<OpenBill(pick, list[pick].st, FALSE), Call("createIfClosed", NoBill)>>
    BY <1>2 DEF BootScript
  <2> HIDE DEF pick
  <2>3. /\ OpenBill(pick, list[pick].st, FALSE) \in Command /\ ~ OpenBill(pick, list[pick].st, FALSE).pin
        /\ Call("createIfClosed", NoBill) \in Command /\ ~ Call("createIfClosed", NoBill).pin
    BY <2>1, OpenIsCommand, CallIsCommand DEF Verb, OfABill
  <2> QED BY <2>2, <2>3, TwoAreFree
<1> QED BY <1>1, <1>2

LEMMA AfterListIsPinned ==
  ASSUME NEW s \in Seq(Command), listing \in [Bill -> Row]
  PROVE  /\ AfterList(s) \in Seq(Command)
         /\ Pinned(s) => Pinned(AfterList(s))
<1>1. CASE ~ AwaitsList(s)
  BY <1>1 DEF AfterList
<1>2. CASE AwaitsList(s)
  <2>1. s # <<>>
    BY <1>2 DEF AwaitsList
  <2>2. CASE Head(s).do = "bootlist"
    BY <1>2, <2>2, BootScriptIsFree DEF AfterList
  <2>3. CASE Head(s).do # "bootlist"
    <3>1. AfterList(s) = Tail(s)
      BY <1>2, <2>3 DEF AfterList
    <3>2. Tail(s) \in Seq(Command)
      BY <2>1
    <3> QED BY <2>1, <3>1, <3>2, TailIsPinned
  <2> QED BY <2>2, <2>3
<1> QED BY <1>1, <1>2

-----------------------------------------------------------------------------
(* What every step leaves: the bills that exist, and the parts of the        *)
(* invariant that it does not touch.                                         *)

\* No bill is forgotten, and one that is open afterwards was open or is new.
BillsGoOn ==
  /\ bill' \in [Bill -> Row]
  /\ \A b \in Bill : /\ bill[b].st # "none" => bill'[b].st # "none"
                     /\ bill'[b].st \in {"DRAFT", "HOLD"} => IsOpen(b) \/ bill[b].st = "none"

LEMMA BillsStay == ScreenRecords /\ UNCHANGED bill => BillsGoOn
  BY DEF ScreenRecords, BillsGoOn, IsOpen

\* One row is written: that of an open bill, or of a new one.
LEMMA OneRowGoesOn ==
  ASSUME ScreenRecords, NEW b \in Bill, NEW row \in Row, Bills(b, row),
         row.st \notin {"none", "DRAFT", "HOLD"} \/ row = bill[b]
         \/ (row.st \in {"DRAFT", "HOLD"} /\ (IsOpen(b) \/ bill[b].st = "none"))
  PROVE  BillsGoOn
<1>1. bill' = [bill EXCEPT ![b] = row] /\ bill \in [Bill -> Row]
  BY DEF Bills, ScreenRecords
<1>2. bill' \in [Bill -> Row] /\ bill'[b] = row /\ \A c \in Bill \ {b} : bill'[c] = bill[c]
  BY <1>1
<1>3. \A c \in Bill : /\ bill[c].st # "none" => bill'[c].st # "none"
                      /\ bill'[c].st \in {"DRAFT", "HOLD"} => IsOpen(c) \/ bill[c].st = "none"
  <2> SUFFICES ASSUME NEW c \in Bill
               PROVE  /\ bill[c].st # "none" => bill'[c].st # "none"
                      /\ bill'[c].st \in {"DRAFT", "HOLD"} => IsOpen(c) \/ bill[c].st = "none"
    OBVIOUS
  <2>1. CASE c = b
    BY <1>2, <2>1 DEF IsOpen
  <2>2. CASE c # b
    BY <1>2, <2>2 DEF IsOpen
  <2> QED BY <2>1, <2>2
<1> QED BY <1>2, <1>3 DEF BillsGoOn

LEMMA ListsKept ==
  ASSUME ListsNameBills, BillsGoOn, UNCHANGED <<tabs, listing>>
  PROVE  ListsNameBills'
<1> SUFFICES ASSUME NEW b \in Bill
             PROVE  /\ tabs[b] # NoTab => bill'[b].st # "none"
                    /\ listing # NoList => (listing[b] # NoTab => bill'[b].st # "none")
                    /\ listing # NoList /\ IsOpen(b)' /\ tabs[b] # NoTab => listing[b] # NoTab
  BY DEF ListsNameBills
<1>1. /\ tabs[b] # NoTab => bill[b].st # "none"
      /\ listing # NoList => (listing[b] # NoTab => bill[b].st # "none")
      /\ listing # NoList /\ IsOpen(b) /\ tabs[b] # NoTab => listing[b] # NoTab
  BY DEF ListsNameBills
<1>2. /\ bill[b].st # "none" => bill'[b].st # "none"
      /\ IsOpen(b)' => IsOpen(b) \/ bill[b].st = "none"
  BY DEF BillsGoOn, IsOpen
<1> QED BY <1>1, <1>2

\* The list is asked for: it has the open bills.
LEMMA ListsAskedFor ==
  ASSUME ScreenRecords, ListsNameBills, UNCHANGED <<bill, tabs>>, listing' = OpenBills
  PROVE  listing' \in [Bill -> Row] /\ ListsNameBills'
         /\ \A b \in Bill : IsOpen(b) => listing'[b] # NoTab
<1>1. \A b \in Bill : listing'[b] = IF IsOpen(b) THEN bill[b] ELSE NoTab
  BY DEF OpenBills
<1>2. \A b \in Bill : IsOpen(b) => bill[b] # NoTab /\ bill[b].st # "none"
  BY NoTabIsARow DEF IsOpen
<1>3. listing' \in [Bill -> Row]
  BY NoTabIsARow DEF OpenBills, ScreenRecords
<1>4. ListsNameBills'
  BY <1>1, <1>2 DEF ListsNameBills, IsOpen
<1> QED BY <1>1, <1>2, <1>3, <1>4

\* The bill that was asked for last rests if it does not change, or rests again.
LEMMA AskedKept ==
  ASSUME ScreenInv, BillsGoOn, asked' \in {NoBill, asked},
         \A b \in Bill : asked' = b /\ IsOpen(b) /\ Rests(b) => Rests(b)'
  PROVE  AskedRests'
<1> SUFFICES ASSUME asked' # NoBill
             PROVE  bill'[asked'].st # "none" /\ (IsOpen(asked)' => Rests(asked)')
  BY DEF AskedRests
<1>1. asked' = asked /\ asked \in Bill /\ bill[asked].st # "none" /\ (IsOpen(asked) => Rests(asked))
  BY DEF ScreenInv, ScreenRecords, AskedRests
<1>2. bill'[asked'].st # "none" /\ (IsOpen(asked)' => IsOpen(asked))
  BY <1>1 DEF BillsGoOn, IsOpen
<1>3. PICK b \in Bill : b = asked
  BY <1>1
<1>4. ASSUME IsOpen(asked)'
      PROVE  Rests(asked)'
  <2>1. IsOpen(b) /\ Rests(b)
    BY <1>1, <1>2, <1>3, <1>4
  <2>2. asked' = b
    BY <1>1, <1>3
  <2>3. Rests(b)'
    BY <2>1, <2>2
  <2> QED BY <2>2, <2>3 DEF Rests
<1> QED BY <1>2, <1>4

LEMMA PayKept ==
  ASSUME PayRests, UNCHANGED <<payFor, shown, load, script>>
  PROVE  PayRests'
  BY DEF PayRests

\* What Show leaves, when the bill on the screen becomes next.
LEMMA ShowEffect ==
  ASSUME ScreenRecords, NEW next \in ShownBill, Show(next)
  PROVE  /\ shown' = next /\ load' \subseteq Bill
         /\ load' \subseteq load \union ({next.id} \ {shown.id})
         /\ payFor' \in {NoBill, payFor}
         /\ payFor = NoBill => payFor' = NoBill
         /\ next.id = NoBill => payFor' = NoBill
  BY DEF Show, PayAfter, ShownBill, ScreenRecords

LEMMA PendAfterType ==
  ASSUME NEW p \in Bill \union {NoBill}, NEW next, NEW list
  PROVE  /\ PendAfter(p, next, list) \in Bill \union {NoBill}
         /\ PendAfter(p, next, list) = p \/ (p \in Bill /\ PendAfter(p, next, list) = NoBill /\ list[p] # NoTab)
  BY DEF PendAfter

-----------------------------------------------------------------------------
(* The steps *)

LEMMA ScreenInitInv == ScreenInit => ScreenInv
<1> SUFFICES ASSUME ScreenInit PROVE ScreenInv
  OBVIOUS
<1>1. ScreenRecords
  BY NoTabIsARow DEF ScreenInit, Mounted, ScreenRecords
<1>2. ScriptsOK
  BY NoneIsPinned DEF ScreenInit, Mounted, ScriptsOK
<1>3. ListsNameBills /\ AskedRests /\ PayRests
  BY DEF ScreenInit, Mounted, ListsNameBills, AskedRests, PayRests
<1> QED BY <1>1, <1>2, <1>3 DEF ScreenInv

LEMMA RefreshStep ==
  ASSUME ScreenInv, Refresh
  PROVE  ScreenInv'
<1>1. /\ listing' = OpenBills
      /\ UNCHANGED <<bill, shown, tabs, pend, mount, load, check, script, payFor, notice, asked>>
  BY DEF Refresh
<1>2. /\ listing' \in [Bill -> Row] /\ ListsNameBills'
      /\ \A b \in Bill : IsOpen(b) => listing'[b] # NoTab
  BY <1>1, ListsAskedFor DEF ScreenInv
<1>3. ScreenRecords'
  BY <1>1, <1>2 DEF ScreenInv, ScreenRecords
<1>4. \A b \in Bill : IsOpen(b) /\ Rests(b) => Rests(b)'
  BY <1>1, <1>2 DEF Rests
<1>5. AskedRests'
  BY <1>1, <1>4, AskedKept, BillsStay DEF ScreenInv
<1>6. ScriptsOK' /\ PayRests'
  BY <1>1, PayKept DEF ScreenInv, ScriptsOK
<1> QED BY <1>2, <1>3, <1>5, <1>6 DEF ScreenInv

\* The shown bill is missing: it is not the one that rests.
LEMMA LookAgainStep ==
  ASSUME ScreenInv, LookAgain
  PROVE  ScreenInv'
<1>1. /\ shown.id # NoBill /\ tabs[shown.id] = NoTab /\ pend # shown.id
      /\ check' = shown.id /\ (listing' = OpenBills \/ listing' = listing)
      /\ UNCHANGED <<bill, shown, tabs, pend, mount, load, script, payFor, notice, asked>>
  BY DEF LookAgain, LostDue
<1>2. listing' = NoList \/ listing' \in [Bill -> Row]
  BY <1>1, ListsAskedFor DEF ScreenInv, ScreenRecords
<1>3. ListsNameBills'
  BY <1>1, ListsAskedFor, ListsKept, BillsStay DEF ScreenInv
<1>4. ScreenRecords'
  BY <1>1, <1>2 DEF ScreenInv, ScreenRecords, ShownBill
<1>5. \A b \in Bill : ~ Rests(b)
  BY <1>1 DEF Rests
<1>6. AskedRests'
  BY <1>1, <1>5, AskedKept, BillsStay DEF ScreenInv
<1>7. ScriptsOK' /\ PayRests'
  BY <1>1, PayKept DEF ScreenInv, ScriptsOK
<1> QED BY <1>3, <1>4, <1>6, <1>7 DEF ScreenInv

\* Only a bill of the database changes.
LEMMA OnlyBillStep ==
  ASSUME ScreenInv, BillsGoOn,
         UNCHANGED <<shown, tabs, listing, pend, load, check, script, payFor, asked>>
  PROVE  ScreenInv'
<1>1. ScreenRecords' /\ ScriptsOK'
  BY DEF ScreenInv, ScreenRecords, ScriptsOK, BillsGoOn
<1>2. ListsNameBills'
  BY ListsKept DEF ScreenInv
<1>3. \A b \in Bill : Rests(b) => Rests(b)'
  BY DEF Rests
<1>4. AskedRests'
  BY <1>3, AskedKept
<1>5. PayRests'
  BY PayKept DEF ScreenInv
<1> QED BY <1>1, <1>2, <1>4, <1>5 DEF ScreenInv

LEMMA FreshAreNew ==
  ASSUME NEW b \in Fresh
  PROVE  b \in Bill /\ bill[b].st = "none"
<1> DEFINE free == {c \in Bill : bill[c].st = "none"}
<1>1. free # {} /\ b = Min(free)
  BY DEF Fresh
<1>2. Min(free) \in free
  BY <1>1, FirstOfBills
<1> QED BY <1>1, <1>2

LEMMA CloseElsewhereStep ==
  ASSUME ScreenInv, NEW b \in Bill, CloseElsewhere(b)
  PROVE  ScreenInv'
<1> DEFINE row == [bill[b] EXCEPT !.st = "closed"]
<1>1. row \in Row /\ row.st = "closed"
  BY DEF ScreenInv, ScreenRecords, Row
<1>2. Bills(b, row)
  BY DEF CloseElsewhere
<1> HIDE DEF row
<1>3. BillsGoOn
  BY <1>1, <1>2, OneRowGoesOn DEF ScreenInv
<1> QED BY <1>3, OnlyBillStep DEF CloseElsewhere

LEMMA ArriveStep ==
  ASSUME ScreenInv, Arrive
  PROVE  ScreenInv'
<1> DEFINE row == [st |-> "HOLD", items |-> TRUE]
<1>1. row \in Row /\ row.st = "HOLD"
  BY DEF Row
<1>2. PICK b \in Fresh : Bills(b, row)
  BY DEF Arrive
<1> HIDE DEF row
<1>3. BillsGoOn
  BY <1>1, <1>2, FreshAreNew, OneRowGoesOn DEF ScreenInv
<1> QED BY <1>3, OnlyBillStep DEF Arrive

LEMMA ClosePayStep ==
  ASSUME ScreenInv, ClosePay
  PROVE  ScreenInv'
<1>1. payFor' = NoBill /\ UNCHANGED <<bill, shown, tabs, listing, pend, mount, load, check, script, notice, asked>>
  BY DEF ClosePay
<1>2. ScreenRecords' /\ ScriptsOK' /\ PayRests'
  BY <1>1 DEF ScreenInv, ScreenRecords, ScriptsOK, PayRests
<1>3. BillsGoOn /\ ListsNameBills'
  BY <1>1, BillsStay, ListsKept DEF ScreenInv
<1>4. \A b \in Bill : Rests(b) => Rests(b)'
  BY <1>1 DEF Rests
<1>5. AskedRests'
  BY <1>1, <1>3, <1>4, AskedKept
<1> QED BY <1>2, <1>3, <1>5 DEF ScreenInv

\* The screen is loaded anew.
LEMMA ReloadStep ==
  ASSUME ScreenInv, Reload
  PROVE  ScreenInv'
<1>1. /\ tabs' = [b \in Bill |-> NoTab] /\ listing' = NoList /\ pend' = NoBill /\ check' = NoBill
      /\ payFor' = NoBill /\ asked' = NoBill /\ UNCHANGED <<bill, shown>>
      /\ load' = {shown.id} \ {NoBill} /\ script' = [user |-> <<>>, effect |-> <<>>]
  BY DEF Reload
<1>2. ScreenRecords'
  BY <1>1, NoTabIsARow DEF ScreenInv, ScreenRecords, ShownBill
<1>3. ScriptsOK'
  BY <1>1, NoneIsPinned DEF ScriptsOK
<1>4. ListsNameBills' /\ AskedRests' /\ PayRests'
  BY <1>1 DEF ListsNameBills, AskedRests, PayRests
<1> QED BY <1>2, <1>3, <1>4 DEF ScreenInv

LEMMA BootStep ==
  ASSUME ScreenInv, Boot
  PROVE  ScreenInv'
<1>1. shown.id = NoBill /\ script' = [script EXCEPT !.effect = <<Call("bootlist", NoBill)>>]
  BY DEF Boot, BootDue
<1>2. UNCHANGED <<bill, shown, tabs, listing, pend, load, check, payFor, notice, asked>>
  BY DEF Boot
<1>3. <<Call("bootlist", NoBill)>> \in Seq(Command)
  BY CallIsCommand DEF Verb, OfABill
<1>4. ScreenRecords'
  BY <1>2 DEF ScreenInv, ScreenRecords
<1>5. ScriptsOK'
  BY <1>1, <1>3 DEF ScreenInv, ScriptsOK
<1>6. BillsGoOn /\ ListsNameBills'
  BY <1>2, BillsStay, ListsKept DEF ScreenInv
<1>7. \A b \in Bill : ~ Rests(b)
  BY <1>1, NoBillIsNone DEF Rests
<1>8. AskedRests'
  BY <1>2, <1>6, <1>7, AskedKept
<1>9. payFor = NoBill
  BY <1>1 DEF ScreenInv, PayRests
<1>10. PayRests'
  BY <1>2, <1>9 DEF PayRests
<1> QED BY <1>4, <1>5, <1>6, <1>8, <1>10 DEF ScreenInv

\* The list arrives.  What rests is on the list, or stays pinned until a later list has it.
LEMMA ListAnswerStep ==
  ASSUME ScreenInv, ListAnswer
  PROVE  ScreenInv'
<1>1. /\ listing \in [Bill -> Row] /\ listing # NoList /\ tabs' = listing /\ listing' = NoList
      /\ check' = NoBill /\ UNCHANGED <<bill, asked>> /\ tabs \in [Bill -> Row]
  BY DEF ListAnswer, ScreenInv, ScreenRecords
<1>2. BillsGoOn
  BY <1>1, BillsStay DEF ScreenInv
<1>3. ListsNameBills'
  BY <1>1 DEF ScreenInv, ListsNameBills
<1>4. /\ script.user \in Seq(Command) /\ script.effect \in Seq(Command) /\ Pinned(script.user)
      /\ AfterList(script.user) \in Seq(Command) /\ Pinned(AfterList(script.user))
      /\ AfterList(script.effect) \in Seq(Command)
  BY <1>1, AfterListIsPinned DEF ScreenInv, ScriptsOK
<1> DEFINE next == Listed(listing)
           look == IF next = {} THEN <<>>
                   ELSE <<OpenBill(Min(next), tabs[Min(next)].st, TRUE), Relist>>
<1>5. \/ /\ check # NoBill /\ shown.id = check /\ Show(NoScreen) /\ pend' = NoBill
         /\ script' = [user |-> AfterList(script.user), effect |-> look]
      \/ /\ KeepScreen /\ pend' = PendAfter(pend, shown, listing)
         /\ script' = [user |-> AfterList(script.user), effect |-> AfterList(script.effect)]
  BY DEF ListAnswer, Relist
<1>6. look \in Seq(Command)
  <2>1. CASE next = {}
    BY <2>1, NoneIsPinned
  <2>2. CASE next # {}
    <3>1. Min(next) \in Bill
      BY <2>2, FirstOfBills DEF Listed
    <3>2. OpenBill(Min(next), tabs[Min(next)].st, TRUE) \in Command
      BY <1>1, <3>1, OpenIsCommand
    <3> QED BY <2>2, <3>2, OpenLastIsPinned
  <2> QED BY <2>1, <2>2
<1> HIDE DEF next, look
<1>7. CASE /\ check # NoBill /\ shown.id = check /\ Show(NoScreen) /\ pend' = NoBill
           /\ script' = [user |-> AfterList(script.user), effect |-> look]
  <2>1. shown' = NoScreen /\ load' \subseteq Bill /\ payFor' = NoBill
    BY <1>7, ShowEffect, NoTabIsARow DEF ScreenInv
  <2>2. ScreenRecords'
    BY <1>1, <1>7, <2>1, NoTabIsARow DEF ScreenInv, ScreenRecords
  <2>3. ScriptsOK'
    BY <1>4, <1>6, <1>7 DEF ScriptsOK
  <2>4. \A b \in Bill : ~ Rests(b)
    BY <1>7 DEF Rests
  <2>5. AskedRests'
    BY <1>1, <1>2, <2>4, AskedKept
  <2>6. PayRests'
    BY <2>1 DEF PayRests
  <2> QED BY <1>3, <2>2, <2>3, <2>5, <2>6 DEF ScreenInv
<1>8. CASE /\ KeepScreen /\ pend' = PendAfter(pend, shown, listing)
           /\ script' = [user |-> AfterList(script.user), effect |-> AfterList(script.effect)]
  <2>1. UNCHANGED <<shown, load, payFor>>
    BY <1>8 DEF KeepScreen
  <2>2. /\ pend' \in Bill \union {NoBill}
        /\ pend' = pend \/ (pend' = NoBill /\ listing[pend] # NoTab)
    BY <1>8, PendAfterType DEF ScreenInv, ScreenRecords
  <2>3. ScreenRecords'
    BY <1>1, <2>1, <2>2 DEF ScreenInv, ScreenRecords
  <2>4. ScriptsOK'
    BY <1>4, <1>8 DEF ScriptsOK
  <2>5. AfterList(<<>>) = <<>> /\ AfterList(<<Relist>>) = <<>>
    <3>1. AfterList(<<>>) = <<>>
      BY DEF AfterList, AwaitsList
    <3>2. Head(<<Relist>>).do = "relist" /\ Tail(<<Relist>>) = <<>> /\ <<Relist>> # <<>>
      BY RelistIsCommand
    <3>3. AfterList(<<Relist>>) = <<>>
      BY <3>2 DEF AfterList, AwaitsList
    <3> QED BY <3>1, <3>3
  <2>6. ASSUME NEW b \in Bill, Rests(b)
        PROVE  Rests(b)'
    <3>1. shown.id = b /\ script.effect = <<>> /\ (script.user = <<>> \/ script.user = <<Relist>>)
      BY <2>6 DEF Rests
    <3>2. script'.effect = <<>> /\ script'.user = <<>>
      BY <1>8, <2>5, <3>1
    <3>3. pend' = b \/ tabs'[b] # NoTab
      BY <1>1, <2>2, <2>6 DEF Rests
    <3> QED BY <1>1, <2>1, <2>6, <3>1, <3>2, <3>3 DEF Rests
  <2>7. AskedRests'
    BY <1>1, <1>2, <2>6, AskedKept
  <2>8. PayRests'
    <3> SUFFICES ASSUME payFor' # NoBill
                 PROVE  /\ shown'.id = payFor' /\ load' = {} /\ script'.effect = <<>>
                        /\ script'.user = <<>> \/ Head(script'.user).do = "complete"
      BY DEF PayRests
    <3>1. /\ shown.id = payFor /\ load = {} /\ script.effect = <<>>
          /\ script.user = <<>> \/ Head(script.user).do = "complete"
      BY <2>1 DEF ScreenInv, PayRests
    <3>2. AfterList(script.user) = script.user
      BY <3>1 DEF AfterList, AwaitsList
    <3> QED BY <1>8, <2>1, <2>5, <3>1, <3>2
  <2> QED BY <1>3, <2>3, <2>4, <2>7, <2>8 DEF ScreenInv
<1> QED BY <1>5, <1>7, <1>8

\* The bill that rests is fetched again, or the fetch fails and nothing was asked for.
LEMMA LoadStep ==
  ASSUME ScreenInv, NEW c \in Bill, Load(c)
  PROVE  ScreenInv'
<1>1. PICK failed \in BOOLEAN :
        LET next == IF failed THEN NoScreen ELSE Sync(c, bill[c])
        IN /\ shown' = next /\ payFor' = PayAfter(next)
           /\ load' = (load \ {c}) \union ({next.id} \ {shown.id, NoBill})
           /\ pend' = PendAfter(pend, next, tabs)
           /\ asked' = IF failed THEN NoBill ELSE asked
  BY DEF Load
<1> DEFINE next == IF failed THEN NoScreen ELSE Sync(c, bill[c])
<1>2. c \in load /\ UNCHANGED <<bill, tabs, listing, check, script>>
  BY DEF Load
<1>3. /\ shown' = next /\ payFor' = PayAfter(next)
      /\ load' = (load \ {c}) \union ({next.id} \ {shown.id, NoBill})
      /\ pend' = PendAfter(pend, next, tabs)
      /\ asked' = IF failed THEN NoBill ELSE asked
  BY <1>1
<1>4. bill[c] \in Row
  BY DEF ScreenInv, ScreenRecords
<1>5. /\ next \in ShownBill /\ next.id \in {c, NoBill}
      /\ ~failed /\ IsOpen(c) => next.id = c
  BY <1>4, SyncShows, NoTabIsARow DEF IsOpen
<1> HIDE DEF next
<1>6. payFor = NoBill /\ payFor' = NoBill
  BY <1>2, <1>3 DEF ScreenInv, PayRests, PayAfter
<1>7. /\ pend' \in Bill \union {NoBill}
      /\ pend' = pend \/ (pend' = NoBill /\ tabs[pend] # NoTab)
  BY <1>3, PendAfterType DEF ScreenInv, ScreenRecords
<1>8. ScreenRecords'
  BY <1>2, <1>3, <1>5, <1>6, <1>7 DEF ScreenInv, ScreenRecords
<1>9. ScriptsOK' /\ PayRests'
  BY <1>2, <1>6 DEF ScreenInv, ScriptsOK, PayRests
<1>10. BillsGoOn /\ ListsNameBills'
  BY <1>2, BillsStay, ListsKept DEF ScreenInv
<1>11. ASSUME NEW b \in Bill, asked' = b, IsOpen(b), Rests(b)
       PROVE  Rests(b)'
  <2>1. ~failed /\ b = c /\ shown.id = b
    BY <1>2, <1>3, <1>11, NoBillIsNone DEF Rests
  <2>2. shown'.id = b /\ load' \subseteq {b}
    BY <1>3, <1>5, <1>11, <2>1 DEF Rests
  <2>3. pend' = b \/ (tabs[b] # NoTab /\ (listing # NoList => listing[b] # NoTab))
    <3>1. CASE pend = b
      <4>1. pend' = b \/ tabs[b] # NoTab
        BY <1>7, <3>1
      <4> QED BY <1>11, <4>1 DEF ScreenInv, ListsNameBills
    <3>2. CASE pend # b
      BY <1>11, <3>2 DEF Rests
    <3> QED BY <3>1, <3>2
  <2> QED BY <1>2, <1>11, <2>2, <2>3 DEF Rests
<1>12. asked' \in {NoBill, asked}
  BY <1>3
<1>13. AskedRests'
  BY <1>10, <1>11, <1>12, AskedKept
<1> QED BY <1>8, <1>9, <1>10, <1>13 DEF ScreenInv

\* An operation starts: nothing was asked for any more.
LEMMA StartsStep ==
  ASSUME ScreenInv, NEW s \in Seq(Command), Pinned(s), Starts(s),
         payFor = NoBill \/ Head(s).do = "complete"
  PROVE  ScreenInv'
<1>1. script' = [script EXCEPT !.user = s] /\ asked' = NoBill
  BY DEF Starts
<1>2. UNCHANGED <<bill, shown, tabs, listing, pend, mount, load, check, payFor>>
  BY DEF Starts
<1>3. ScreenRecords'
  BY <1>1, <1>2 DEF ScreenInv, ScreenRecords
<1>4. ScriptsOK' /\ script'.effect = script.effect /\ script'.user = s
  BY <1>1 DEF ScreenInv, ScriptsOK
<1>5. ListsNameBills'
  BY <1>2, BillsStay, ListsKept DEF ScreenInv
<1>6. AskedRests'
  BY <1>1 DEF AskedRests
<1>7. PayRests'
  BY <1>2, <1>4 DEF ScreenInv, PayRests
<1> QED BY <1>3, <1>4, <1>5, <1>6, <1>7 DEF ScreenInv

LEMMA ParkIsFree ==
  ASSUME ScreenInv
  PROVE  Park \in Seq(Command) /\ \A n \in 1 .. Len(Park) : ~ Park[n].pin
<1>1. CASE Park = <<>>
  BY <1>1
<1>2. CASE Park = <<Call("hold", shown.id)>> /\ shown.id # NoBill
  <2>1. Call("hold", shown.id) \in Command /\ ~ Call("hold", shown.id).pin
    BY <1>2, CallIsCommand DEF ScreenInv, ScreenRecords, ShownBill, Verb, OfABill
  <2> QED BY <1>2, <2>1
<1> QED BY <1>1, <1>2 DEF Park

LEMMA SwitchToBillStep ==
  ASSUME ScreenInv, NEW b \in Bill, SwitchToBill(b)
  PROVE  ScreenInv'
<1> DEFINE s == <<OpenBill(b, tabs[b].st, TRUE), Relist>>
<1>1. tabs[b] \in Row
  BY DEF ScreenInv, ScreenRecords
<1>2. s \in Seq(Command) /\ Pinned(s)
  BY <1>1, OpenIsCommand, OpenLastIsPinned
<1>3. Starts(Park \o s) /\ payFor = NoBill
  BY DEF SwitchToBill, CanAct, Relist
<1> HIDE DEF s
<1>4. Park \o s \in Seq(Command) /\ Pinned(Park \o s)
  BY <1>2, ParkIsFree, ConcatIsPinned
<1> QED BY <1>3, <1>4, StartsStep

LEMMA ParkAndNewStep ==
  ASSUME ScreenInv, ParkAndNew
  PROVE  ScreenInv'
<1> DEFINE p == IF shown.items THEN <<Call("hold", shown.id), Call("relist", NoBill)>> ELSE <<>>
<1>1. Starts(p \o StartNew) /\ payFor = NoBill /\ shown.id \in Bill
  BY DEF ParkAndNew, NewAllowed, CanAct, ScreenInv, ScreenRecords, ShownBill
<1>2. p \in Seq(Command) /\ \A n \in 1 .. Len(p) : ~ p[n].pin
  <2>1. CASE p = <<>>
    BY <2>1
  <2>2. CASE p = <<Call("hold", shown.id), Call("relist", NoBill)>>
    <3>1. /\ Call("hold", shown.id) \in Command /\ ~ Call("hold", shown.id).pin
          /\ Call("relist", NoBill) \in Command /\ ~ Call("relist", NoBill).pin
      BY <1>1, CallIsCommand DEF Verb, OfABill
    <3> HIDE DEF p
    <3> QED BY <2>2, <3>1, TwoAreFree
  <2> QED BY <2>1, <2>2
<1> HIDE DEF p
<1>3. p \o StartNew \in Seq(Command) /\ Pinned(p \o StartNew)
  BY <1>2, StartNewIsPinned, ConcatIsPinned
<1> QED BY <1>1, <1>3, StartsStep

LEMMA OneIsFree ==
  ASSUME NEW c \in Command, ~ c.pin
  PROVE  <<c>> \in Seq(Command) /\ \A n \in 1 .. Len(<<c>>) : ~ <<c>>[n].pin
  OBVIOUS

LEMMA NextAfterIsPinned ==
  ASSUME ScreenInv, NEW b \in Bill
  PROVE  NextAfter(b) \in Seq(Command) /\ Pinned(NextAfter(b))
<1> DEFINE rest == Listed(tabs) \ {b}
           s == IF rest = {} THEN StartNew ELSE <<OpenBill(Min(rest), tabs[Min(rest)].st, FALSE)>>
           c == Call("clear", NoBill)
<1>1. NextAfter(b) = IF b # shown.id THEN <<>> ELSE <<c>> \o s
  BY DEF NextAfter
<1>2. s \in Seq(Command) /\ Pinned(s)
  <2>1. CASE rest = {}
    BY <2>1, StartNewIsPinned
  <2>2. CASE rest # {}
    <3>1. Min(rest) \in Bill
      BY <2>2, FirstOfBills DEF Listed
    <3>2. tabs[Min(rest)] \in Row
      BY <3>1 DEF ScreenInv, ScreenRecords
    <3>3. /\ OpenBill(Min(rest), tabs[Min(rest)].st, FALSE) \in Command
          /\ ~ OpenBill(Min(rest), tabs[Min(rest)].st, FALSE).pin
      BY <3>1, <3>2, OpenIsCommand
    <3> QED BY <2>2, <3>3, OneIsPinned
  <2> QED BY <2>1, <2>2
<1>3. c \in Command /\ ~ c.pin
  BY CallIsCommand DEF Verb, OfABill
<1> HIDE DEF s, c
<1>4. <<c>> \in Seq(Command) /\ \A n \in 1 .. Len(<<c>>) : ~ <<c>>[n].pin
  BY <1>3, OneIsFree
<1>5. <<c>> \o s \in Seq(Command) /\ Pinned(<<c>> \o s)
  BY <1>2, <1>4, ConcatIsPinned
<1> QED BY <1>1, <1>5, NoneIsPinned

LEMMA CloseOrTransferStep ==
  ASSUME ScreenInv, NEW b \in Bill, CloseTab(b) \/ TransferBill(b)
  PROVE  ScreenInv'
<1>1. PICK do \in {"cancel", "transfer"} : Starts(<<Call(do, b)>> \o NextAfter(b))
  BY DEF CloseTab, TransferBill
<1>2. payFor = NoBill
  BY DEF CloseTab, TransferBill, CanAct
<1>3. Call(do, b) \in Command /\ ~ Call(do, b).pin
  BY CallIsCommand DEF Verb, OfABill
<1>4. <<Call(do, b)>> \in Seq(Command) /\ \A n \in 1 .. Len(<<Call(do, b)>>) : ~ <<Call(do, b)>>[n].pin
  BY <1>3, OneIsFree
<1>5. <<Call(do, b)>> \o NextAfter(b) \in Seq(Command) /\ Pinned(<<Call(do, b)>> \o NextAfter(b))
  BY <1>4, NextAfterIsPinned, ConcatIsPinned
<1> QED BY <1>1, <1>2, <1>5, StartsStep

LEMMA CleanupEmptyStep ==
  ASSUME ScreenInv, CleanupEmpty
  PROVE  ScreenInv'
<1> DEFINE c == Call("cleanup", shown.id)
<1>1. Starts(<<c, Relist>>) /\ payFor = NoBill
  BY DEF CleanupEmpty, CanAct, Relist
<1>2. c \in Command
  BY CallIsCommand DEF ScreenInv, ScreenRecords, ShownBill, Verb, OfABill
<1> HIDE DEF c
<1> QED BY <1>1, <1>2, OpenLastIsPinned, StartsStep

LEMMA PayBillStep ==
  ASSUME ScreenInv, PayBill
  PROVE  ScreenInv'
<1> DEFINE c == Call("complete", shown.id)
           d == Call("clear", NoBill)
<1>1. Starts(<<c, d>> \o StartNew) /\ shown.id \in Bill
  BY DEF PayBill, ScreenInv, ScreenRecords, ShownBill
<1>2. c \in Command /\ ~ c.pin /\ c.do = "complete" /\ d \in Command /\ ~ d.pin
  BY <1>1, CallIsCommand DEF Verb, OfABill
<1> HIDE DEF c, d
<1>3. <<c, d>> \in Seq(Command) /\ \A n \in 1 .. Len(<<c, d>>) : ~ <<c, d>>[n].pin
  BY <1>2, TwoAreFree
<1>4. <<c, d>> \o StartNew \in Seq(Command) /\ Pinned(<<c, d>> \o StartNew)
  BY <1>3, StartNewIsPinned, ConcatIsPinned
<1>5. Head(<<c, d>> \o StartNew) = c
  BY <1>2, StartNewIsPinned
<1> QED BY <1>1, <1>2, <1>4, <1>5, StartsStep

\* A line is added to the shown bill, or the bill turns out to be closed.
LEMMA EditBillStep ==
  ASSUME ScreenInv, NEW items \in BOOLEAN, EditBill(items)
  PROVE  ScreenInv'
<1> DEFINE row == [bill[shown.id] EXCEPT !.items = items]
<1>1. /\ shown.id \in Bill /\ payFor = NoBill
      /\ UNCHANGED <<tabs, listing, pend, check, script, asked>>
  BY DEF EditBill, CanAct, ScreenInv, ScreenRecords, ShownBill
<1>2. bill[shown.id] \in Row
  BY <1>1 DEF ScreenInv, ScreenRecords
<1>3. row \in Row /\ row.st = bill[shown.id].st
  BY <1>2 DEF Row
<1>4. \/ IsOpen(shown.id) /\ Bills(shown.id, row) /\ Show(Sync(shown.id, row))
      \/ bill[shown.id].st = "closed" /\ Show(NoScreen) /\ UNCHANGED bill
      \/ KeepScreen /\ UNCHANGED bill
  BY DEF EditBill, Editable
<1> HIDE DEF row
<1>5. BillsGoOn
  <2>1. CASE UNCHANGED bill
    BY <2>1, BillsStay DEF ScreenInv
  <2>2. CASE IsOpen(shown.id) /\ Bills(shown.id, row)
    BY <1>1, <1>3, <2>2, OneRowGoesOn DEF ScreenInv, IsOpen
  <2> QED BY <1>4, <2>1, <2>2
<1>6. /\ shown' \in ShownBill /\ load' \subseteq Bill /\ payFor' = NoBill
      /\ IsOpen(shown.id) => shown'.id = shown.id /\ load' \subseteq load
  <2>1. CASE IsOpen(shown.id) /\ Bills(shown.id, row) /\ Show(Sync(shown.id, row))
    <3>1. Sync(shown.id, row) \in ShownBill /\ Sync(shown.id, row).id = shown.id
      BY <1>1, <1>3, <2>1, SyncShows DEF IsOpen
    <3> QED BY <1>1, <2>1, <3>1, ShowEffect DEF ScreenInv
  <2>2. CASE bill[shown.id].st = "closed" /\ Show(NoScreen)
    BY <1>1, <2>2, ShowEffect, NoTabIsARow DEF ScreenInv, IsOpen
  <2>3. CASE KeepScreen
    BY <1>1, <2>3 DEF KeepScreen, ScreenInv, ScreenRecords
  <2> QED BY <1>4, <2>1, <2>2, <2>3
<1>7. ScreenRecords' /\ ScriptsOK' /\ PayRests'
  BY <1>1, <1>5, <1>6 DEF ScreenInv, ScreenRecords, ScriptsOK, PayRests, BillsGoOn
<1>8. ListsNameBills'
  BY <1>1, <1>5, ListsKept DEF ScreenInv
<1>9. \A b \in Bill : IsOpen(b) /\ Rests(b) => Rests(b)'
  BY <1>1, <1>6 DEF Rests
<1>10. AskedRests'
  BY <1>1, <1>5, <1>9, AskedKept
<1> QED BY <1>7, <1>8, <1>10 DEF ScreenInv

\* The payment modal opens for the bill that has just been fetched.
LEMMA OpenPayStep ==
  ASSUME ScreenInv, OpenPay
  PROVE  ScreenInv'
<1> DEFINE next == Sync(shown.id, bill[shown.id])
<1>1. /\ shown.id \in Bill /\ script.user = <<>> /\ script.effect = <<>> /\ load = {}
      /\ UNCHANGED <<bill, tabs, listing, pend, mount, load, check, script, asked>>
  BY DEF OpenPay, CanAct, Quiet, Settled, ScreenInv, ScreenRecords, ShownBill
<1>2. shown' = next /\ payFor' = next.id
  BY DEF OpenPay
<1>3. /\ next \in ShownBill /\ next.id \in {shown.id, NoBill}
      /\ IsOpen(shown.id) => next.id = shown.id
  BY <1>1, SyncShows DEF ScreenInv, ScreenRecords, IsOpen
<1> HIDE DEF next
<1>4. ScreenRecords' /\ ScriptsOK' /\ PayRests'
  BY <1>1, <1>2, <1>3 DEF ScreenInv, ScreenRecords, ScriptsOK, PayRests
<1>5. BillsGoOn /\ ListsNameBills'
  BY <1>1, BillsStay, ListsKept DEF ScreenInv
<1>6. \A b \in Bill : IsOpen(b) /\ Rests(b) => Rests(b)'
  BY <1>1, <1>2, <1>3 DEF Rests
<1>7. AskedRests'
  BY <1>1, <1>5, <1>6, AskedKept
<1> QED BY <1>4, <1>5, <1>7 DEF ScreenInv

-----------------------------------------------------------------------------
(* The commands of a script *)

LEMMA GoesScripts ==
  ASSUME ScreenInv, NEW w \in {"user", "effect"}, NEW s \in Seq(Command), Goes(w, s),
         w = "user" => Pinned(s)
  PROVE  /\ ScriptsOK'
         /\ w = "user" => script'.user = s /\ script'.effect = script.effect
         /\ w = "effect" => script'.effect = s /\ script'.user = script.user
  BY DEF Goes, ScreenInv, ScriptsOK

LEMMA HeadOfScript ==
  ASSUME ScreenInv, NEW w \in {"user", "effect"}, script[w] # <<>>
  PROVE  /\ Head(script[w]) \in Command /\ Tail(script[w]) \in Seq(Command)
         /\ w = "user" => Pinned(Tail(script[w])) /\ (Head(script[w]).pin => Tail(script[w]) = <<Relist>>)
<1>1. script[w] \in Seq(Command) /\ (w = "user" => Pinned(script[w]))
  BY DEF ScreenInv, ScriptsOK
<1>2. Head(script[w]) \in Command /\ Tail(script[w]) \in Seq(Command)
  BY <1>1
<1> QED BY <1>1, <1>2, TailIsPinned

\* While a bill rests, no command runs but the fetch of the list; with the modal open, none
\* but the completion.
LEMMA CommandsDisturb ==
  ASSUME ScreenInv, NEW w \in {"user", "effect"}, script[w] # <<>>
  PROVE  /\ Head(script[w]).do # "relist" => \A b \in Bill : ~ Rests(b)
         /\ Head(script[w]).do # "complete" => payFor = NoBill
         /\ payFor # NoBill => w = "user"
  BY RelistIsCommand DEF ScreenInv, PayRests, Rests

\* A command that leaves the screen to what is on it.
LEMMA CommandStep ==
  ASSUME ScreenInv, NEW w \in {"user", "effect"}, script[w] # <<>>,
         Head(script[w]).do \notin {"relist", "bootlist"},
         NEW s \in Seq(Command), Goes(w, s), w = "user" => Pinned(s),
         BillsGoOn, UNCHANGED <<tabs, listing, check>>,
         shown' \in ShownBill, load' \subseteq Bill, pend' \in Bill \union {NoBill},
         asked' \in {NoBill, asked},
         \/ payFor' = NoBill
         \/ payFor' = payFor /\ s = <<>> /\ UNCHANGED <<shown, load>>
  PROVE  ScreenInv'
<1>1. /\ ScriptsOK'
      /\ w = "user" => script'.user = s /\ script'.effect = script.effect
  BY GoesScripts
<1>2. ScreenRecords'
  BY DEF ScreenInv, ScreenRecords, BillsGoOn
<1>3. ListsNameBills'
  BY ListsKept DEF ScreenInv
<1>4. AskedRests'
  BY CommandsDisturb, AskedKept
<1>5. PayRests'
  <2>1. CASE payFor' = NoBill
    BY <2>1 DEF PayRests
  <2>2. CASE payFor' = payFor /\ payFor # NoBill /\ s = <<>> /\ UNCHANGED <<shown, load>>
    BY <1>1, <2>2, CommandsDisturb DEF ScreenInv, PayRests
  <2> QED BY <2>1, <2>2
<1> QED BY <1>1, <1>2, <1>3, <1>4, <1>5 DEF ScreenInv

\* A bill is opened or made: when the cashier asked for it and nothing else is under way, it
\* rests from here on.
LEMMA OpenedStep ==
  ASSUME ScreenInv, NEW w \in {"user", "effect"}, script[w] # <<>>,
         Head(script[w]).do \notin {"relist", "bootlist", "complete"},
         NEW b \in Bill, NEW row \in Row, Bills(b, row), Opened(w, Head(script[w]), b, row),
         row = bill[b] \/ (row.st \in {"DRAFT", "HOLD"} /\ (IsOpen(b) \/ bill[b].st = "none")),
         UNCHANGED <<tabs, listing, check>>
  PROVE  ScreenInv'
<1> DEFINE cmd == Head(script[w])
           next == Sync(b, row)
           rest == IF cmd.pin /\ next.id = NoBill THEN <<>> ELSE Tail(script[w])
           p == IF cmd.pin /\ next.id # NoBill THEN b ELSE pend
<1>1. /\ Show(next) /\ pend' = PendAfter(p, next, tabs) /\ Goes(w, rest)
      /\ asked' = IF w = "user" /\ cmd.pin /\ Settled THEN next.id ELSE asked
  BY DEF Opened
<1>2. /\ next \in ShownBill /\ next.id \in {b, NoBill}
      /\ next.id # NoBill => row.st \in {"DRAFT", "HOLD"}
  BY SyncShows DEF Sync, NoScreen
<1>3. BillsGoOn /\ bill' = [bill EXCEPT ![b] = row]
  BY OneRowGoesOn DEF ScreenInv, Bills
<1>4. rest \in Seq(Command) /\ (w = "user" => Pinned(rest))
  BY HeadOfScript, NoneIsPinned
<1>5. w = "user" /\ cmd.pin /\ next.id # NoBill => rest = <<Relist>>
  BY HeadOfScript
<1>6. p \in Bill \union {NoBill} /\ (cmd.pin /\ next.id # NoBill => p = b)
  BY DEF ScreenInv, ScreenRecords
<1>7. cmd.do \notin {"relist", "bootlist", "complete"}
  OBVIOUS
<1> HIDE DEF next, rest, p
<1>8. pend' \in Bill \union {NoBill} /\ (pend' = p \/ tabs[p] # NoTab)
  BY <1>1, <1>6, PendAfterType
<1>9. payFor = NoBill
  BY <1>7, CommandsDisturb
<1>10. /\ shown' = next /\ load' \subseteq Bill /\ load' \subseteq load \union {next.id} /\ payFor' = NoBill
  BY <1>1, <1>2, <1>9, ShowEffect DEF ScreenInv
<1> HIDE DEF cmd
<1>11. CASE asked' \in {NoBill, asked}
  BY <1>1, <1>2, <1>3, <1>4, <1>8, <1>10, <1>11, CommandStep DEF cmd
<1>12. CASE asked' \notin {NoBill, asked}
  <2>1. w = "user" /\ cmd.pin /\ Settled /\ next.id = b /\ next.id # NoBill /\ asked' = b
    BY <1>1, <1>2, <1>12
  <2>2. /\ ScriptsOK' /\ script'.user = <<Relist>> /\ script'.effect = <<>>
        /\ check' = NoBill /\ load' \subseteq {b}
    BY <1>1, <1>4, <1>5, <1>10, <2>1, GoesScripts DEF Settled
  <2>3. pend' = b \/ (tabs[b] # NoTab /\ (listing # NoList => listing[b] # NoTab))
    <3>1. CASE tabs[b] # NoTab
      <4>1. bill[b].st # "none"
        BY <3>1 DEF ScreenInv, ListsNameBills
      <4>2. IsOpen(b)
        BY <1>2, <2>1, <4>1 DEF IsOpen
      <4> QED BY <3>1, <4>2 DEF ScreenInv, ListsNameBills
    <3>2. CASE tabs[b] = NoTab
      BY <1>6, <1>8, <2>1, <3>2
    <3> QED BY <3>1, <3>2
  <2>4. Rests(b)'
    BY <1>10, <2>1, <2>2, <2>3 DEF Rests
  <2>5. bill'[b].st # "none"
    BY <1>2, <1>3, <2>1 DEF ScreenInv, ScreenRecords
  <2>6. AskedRests'
    BY <2>1, <2>4, <2>5 DEF AskedRests, Rests
  <2>7. ScreenRecords'
    BY <1>2, <1>3, <1>8, <1>10, <2>1 DEF ScreenInv, ScreenRecords, BillsGoOn
  <2>8. ListsNameBills' /\ PayRests'
    BY <1>3, <1>10, ListsKept DEF ScreenInv, PayRests
  <2> QED BY <2>2, <2>6, <2>7, <2>8 DEF ScreenInv
<1> QED BY <1>11, <1>12

LEMMA RunOpenStep ==
  ASSUME ScreenInv, NEW w \in {"user", "effect"}, script[w] # <<>>, RunOpen(w, Head(script[w])),
         UNCHANGED <<tabs, listing, check>>
  PROVE  ScreenInv'
<1> DEFINE cmd == Head(script[w])
           row == IF cmd.st = "HOLD" THEN [bill[cmd.id] EXCEPT !.st = "DRAFT"] ELSE bill[cmd.id]
<1>1. cmd.do = "open" /\ CanOpen(cmd) /\ Bills(cmd.id, row) /\ Opened(w, cmd, cmd.id, row)
  BY DEF RunOpen
<1>2. cmd.id \in Bill
  BY <1>1, HeadOfScript DEF Command, OfABill
<1>3. bill[cmd.id] \in Row
  BY <1>2 DEF ScreenInv, ScreenRecords
<1>4. row \in Row
  BY <1>3 DEF Row
<1>5. row = bill[cmd.id] \/ (row.st \in {"DRAFT", "HOLD"} /\ (IsOpen(cmd.id) \/ bill[cmd.id].st = "none"))
  BY <1>1, <1>3 DEF CanOpen, CanResume, IsOpen, Row
<1> HIDE DEF row
<1> QED BY <1>1, <1>2, <1>4, <1>5, OpenedStep

LEMMA RunCreateStep ==
  ASSUME ScreenInv, NEW w \in {"user", "effect"}, script[w] # <<>>, RunCreate(w, Head(script[w])),
         UNCHANGED <<tabs, listing, check>>
  PROVE  ScreenInv'
<1> DEFINE row == [st |-> "DRAFT", items |-> FALSE]
<1>1. Head(script[w]).do \in {"create", "createIfClosed"}
  BY DEF RunCreate
<1>2. PICK b \in Fresh \union Empties : Bills(b, row) /\ Opened(w, Head(script[w]), b, row)
  BY DEF RunCreate
<1>3. b \in Bill /\ (bill[b].st = "none" \/ row = bill[b])
  BY FreshAreNew DEF Empties
<1>4. row \in Row /\ row.st = "DRAFT"
  BY DEF Row
<1> HIDE DEF row
<1> QED BY <1>1, <1>2, <1>3, <1>4, OpenedStep

LEMMA RunChangeStep ==
  ASSUME ScreenInv, NEW w \in {"user", "effect"}, script[w] # <<>>, RunChange(w, Head(script[w])),
         UNCHANGED <<tabs, listing, check>>
  PROVE  ScreenInv'
<1> DEFINE cmd == Head(script[w])
<1>1. /\ cmd.do \in {"hold", "transfer", "complete", "cancel"} /\ Bills(cmd.id, RowAfter(cmd))
      /\ Editable(cmd.id)
      /\ payFor' = (IF cmd.do = "complete" THEN NoBill ELSE payFor)
      /\ Goes(w, Tail(script[w])) /\ UNCHANGED <<shown, load, mount, pend, asked>>
  BY DEF RunChange, CanHold, CanTransfer, CanComplete, CanCancel
<1>2. cmd.id \in Bill /\ Tail(script[w]) \in Seq(Command) /\ (w = "user" => Pinned(Tail(script[w])))
  BY <1>1, HeadOfScript DEF Command, OfABill
<1>3. bill[cmd.id] \in Row
  BY <1>2 DEF ScreenInv, ScreenRecords
<1>4. RowAfter(cmd) \in Row /\ RowAfter(cmd).st # "none"
  BY <1>3 DEF RowAfter, Row
<1>5. IsOpen(cmd.id)
  BY <1>1 DEF Editable
<1>6. BillsGoOn
  BY <1>1, <1>2, <1>4, <1>5, OneRowGoesOn DEF ScreenInv
<1>7. payFor' = NoBill
  BY <1>1, CommandsDisturb
<1>8. shown \in ShownBill /\ load \subseteq Bill /\ pend \in Bill \union {NoBill}
  BY DEF ScreenInv, ScreenRecords
<1> QED BY <1>1, <1>2, <1>6, <1>7, <1>8, CommandStep

LEMMA RunCleanupStep ==
  ASSUME ScreenInv, NEW w \in {"user", "effect"}, script[w] # <<>>, RunCleanup(w, Head(script[w])),
         UNCHANGED <<tabs, listing, check>>
  PROVE  ScreenInv'
<1> DEFINE cmd == Head(script[w])
<1>1. /\ cmd.do = "cleanup" /\ Goes(w, Tail(script[w]))
      /\ UNCHANGED <<shown, load, mount, payFor, pend, asked>>
      /\ bill' = [b \in Bill |-> IF b \in Empties \ {cmd.id} THEN [bill[b] EXCEPT !.st = "closed"] ELSE bill[b]]
  BY DEF RunCleanup, KeepScreen
<1>2. Tail(script[w]) \in Seq(Command) /\ (w = "user" => Pinned(Tail(script[w])))
  BY HeadOfScript
<1>3. \A b \in Bill : bill[b] \in Row
  BY DEF ScreenInv, ScreenRecords
<1>4. \A b \in Bill : /\ bill'[b] \in Row
                      /\ bill'[b] = bill[b] \/ bill'[b].st = "closed"
  BY <1>1, <1>3 DEF Row
<1>5. BillsGoOn
  BY <1>1, <1>4 DEF BillsGoOn, IsOpen
<1>6. payFor' = NoBill
  BY <1>1, CommandsDisturb
<1>7. shown \in ShownBill /\ load \subseteq Bill /\ pend \in Bill \union {NoBill}
  BY DEF ScreenInv, ScreenRecords
<1> QED BY <1>1, <1>2, <1>5, <1>6, <1>7, CommandStep

LEMMA RunLocalStep ==
  ASSUME ScreenInv, NEW w \in {"user", "effect"}, script[w] # <<>>, RunLocal(w, Head(script[w])),
         UNCHANGED <<tabs, listing, check>>
  PROVE  ScreenInv'
<1> DEFINE cmd == Head(script[w])
<1>1. /\ Show(NoScreen) \/ KeepScreen
      /\ Goes(w, Tail(script[w])) /\ UNCHANGED <<bill, pend, asked>>
  BY DEF RunLocal
<1>2. cmd.do \in {"clear", "createIfClosed"}
  BY DEF RunLocal
<1>3. Tail(script[w]) \in Seq(Command) /\ (w = "user" => Pinned(Tail(script[w])))
  BY HeadOfScript
<1>4. payFor = NoBill
  BY <1>2, CommandsDisturb
<1>5. shown' \in ShownBill /\ load' \subseteq Bill /\ payFor' = NoBill
  BY <1>1, <1>4, ShowEffect, NoTabIsARow DEF KeepScreen, ScreenInv, ScreenRecords
<1>6. BillsGoOn /\ pend \in Bill \union {NoBill}
  BY <1>1, BillsStay DEF ScreenInv, ScreenRecords
<1> QED BY <1>1, <1>2, <1>3, <1>5, <1>6, CommandStep

LEMMA FailsStep ==
  ASSUME ScreenInv, NEW w \in {"user", "effect"}, script[w] # <<>>, Fails(w, Head(script[w])),
         Head(script[w]).do \notin {"relist", "bootlist"}, UNCHANGED <<tabs, listing, check>>
  PROVE  ScreenInv'
<1>1. /\ Goes(w, <<>>) /\ asked' = NoBill /\ UNCHANGED <<bill, shown, load, payFor>>
      /\ pend' \in {NoBill, pend}
  BY DEF Fails
<1>2. shown \in ShownBill /\ load \subseteq Bill /\ pend' \in Bill \union {NoBill}
  BY <1>1 DEF ScreenInv, ScreenRecords
<1>3. BillsGoOn
  BY <1>1, BillsStay DEF ScreenInv
<1> QED BY <1>1, <1>2, <1>3, NoneIsPinned, CommandStep

LEMMA RunStep ==
  ASSUME ScreenInv, NEW w \in {"user", "effect"}, Run(w)
  PROVE  ScreenInv'
<1>1. script[w] # <<>>
  BY DEF Run
<1>2. CASE Head(script[w]).do \in {"relist", "bootlist"}
  BY <1>2, RefreshStep DEF Run
<1>3. CASE Head(script[w]).do \notin {"relist", "bootlist"}
  <2>1. UNCHANGED <<tabs, listing, check>>
    BY <1>3 DEF Run
  <2>2. \/ RunOpen(w, Head(script[w])) \/ RunCreate(w, Head(script[w])) \/ RunChange(w, Head(script[w]))
        \/ RunCleanup(w, Head(script[w])) \/ RunLocal(w, Head(script[w])) \/ Fails(w, Head(script[w]))
    BY <1>3 DEF Run
  <2> QED BY <1>1, <1>3, <2>1, <2>2, RunOpenStep, RunCreateStep, RunChangeStep, RunCleanupStep,
             RunLocalStep, FailsStep
<1> QED BY <1>2, <1>3

LEMMA ScreenStep == ScreenInv /\ [ScreenNext]_screenVars => ScreenInv'
<1> SUFFICES ASSUME ScreenInv, [ScreenNext]_screenVars PROVE ScreenInv'
  OBVIOUS
<1>1. CASE UNCHANGED screenVars
  BY <1>1, BillsStay, OnlyBillStep DEF screenVars, ScreenInv
<1>2. CASE ScreenNext
  BY <1>2, RefreshStep, ListAnswerStep, LookAgainStep, BootStep, ArriveStep, ReloadStep, LoadStep,
     SwitchToBillStep, CloseOrTransferStep, CloseElsewhereStep, RunStep, EditBillStep,
     ParkAndNewStep, CleanupEmptyStep, OpenPayStep, ClosePayStep, PayBillStep
  DEF ScreenNext
<1> QED BY <1>1, <1>2

LEMMA ScreenInvariant == ScreenSpec => []ScreenInv
  BY ScreenInitInv, ScreenStep, PTL DEF ScreenSpec

\* The payment modal never passes to another bill than the one it was opened for, whatever
\* closes that bill elsewhere and whatever the effects of the screen do.
THEOREM PayKeepsItsBill == ScreenSpec => []PayStaysOnBill
<1>1. ScreenInv => PayStaysOnBill
  BY DEF ScreenInv, PayRests, PayStaysOnBill
<1> QED BY <1>1, ScreenInvariant, PTL

\* A bill that was opened or started stays on the screen while it is open, however old the
\* list of bills is that arrives next.
THEOREM OpenedBillsStay == ScreenSpec => []OpenedBillStays
<1>1. ScreenInv => OpenedBillStays
  BY DEF ScreenInv, AskedRests, Rests, OpenedBillStays
<1> QED BY <1>1, ScreenInvariant, PTL

\* The bootstrap and the message, which the tabs do not need.
MountOK == mount = [ready |-> mount.ready, boot |-> mount.boot] /\ mount.boot \in {"idle", "loading", "done"}
NoticeOK == notice \in BOOLEAN

\* What a step does to the bootstrap.
MountMoves ==
  \/ UNCHANGED mount
  \/ \E to \in {"idle", "loading", "done"} : mount' = [mount EXCEPT !.boot = to]
  \/ mount' = [mount EXCEPT !.ready = TRUE]
  \/ \E ready \in BOOLEAN, to \in {"idle", "loading", "done"} : mount' = [ready |-> ready, boot |-> to]

LEMMA MountStep ==
  ASSUME [ScreenNext]_screenVars
  PROVE  MountMoves
<1>1. \A next : Show(next) => MountMoves
  BY DEF Show, MountMoves
<1>2. CASE UNCHANGED mount
  BY <1>2 DEF MountMoves
<1>3. ASSUME NEW w \in {"user", "effect"}, Run(w) PROVE MountMoves
  <2> DEFINE cmd == Head(script[w])
  <2>1. CASE Refresh
    BY <1>2, <2>1 DEF Refresh
  <2>2. CASE RunOpen(w, cmd) \/ RunCreate(w, cmd)
    BY <1>1, <2>2 DEF RunOpen, RunCreate, Opened
  <2>3. CASE RunChange(w, cmd) \/ RunCleanup(w, cmd)
    BY <1>2, <2>3 DEF RunChange, RunCleanup, KeepScreen
  <2>4. CASE RunLocal(w, cmd)
    BY <1>1, <1>2, <2>4 DEF RunLocal, KeepScreen
  <2>5. CASE Fails(w, cmd)
    BY <2>5 DEF Fails, MountMoves
  <2> QED BY <1>3, <2>1, <2>2, <2>3, <2>4, <2>5 DEF Run
<1>4. CASE ListAnswer
  BY <1>1, <1>2, <1>4 DEF ListAnswer, KeepScreen
<1>5. ASSUME NEW items \in BOOLEAN, EditBill(items) PROVE MountMoves
  BY <1>1, <1>2, <1>5 DEF EditBill, KeepScreen
<1>6. CASE Boot \/ Reload \/ \E b \in Bill : Load(b)
  BY <1>6 DEF Boot, Reload, Load, MountMoves
<1>7. CASE \/ Refresh \/ LookAgain \/ Arrive \/ ParkAndNew \/ CleanupEmpty \/ OpenPay \/ ClosePay \/ PayBill
           \/ \E b \in Bill : SwitchToBill(b) \/ CloseTab(b) \/ TransferBill(b) \/ CloseElsewhere(b)
  BY <1>2, <1>7 DEF Refresh, LookAgain, Arrive, ParkAndNew, CleanupEmpty, OpenPay, ClosePay, PayBill, SwitchToBill,
     CloseTab, TransferBill, CloseElsewhere, Starts
<1> QED BY <1>2, <1>3, <1>4, <1>5, <1>6, <1>7 DEF ScreenNext, screenVars

LEMMA NoticeStep ==
  ASSUME NoticeOK, [ScreenNext]_screenVars
  PROVE  NoticeOK'
  BY Zenon DEF NoticeOK, screenVars, ScreenNext, Refresh, ListAnswer, LookAgain, Boot, Arrive, Reload, Load, SwitchToBill,
     CloseTab, TransferBill, CloseElsewhere, Run, EditBill, ParkAndNew, CleanupEmpty, OpenPay, ClosePay, PayBill, Starts

\* The types of the screen: in particular no list, script or fetch brings a bill that does not exist.
THEOREM ScreenTypes == ScreenSpec => []ScreenTypeOK
<1>1. ScreenInit => MountOK /\ NoticeOK
  <2> SUFFICES ASSUME ScreenInit PROVE MountOK /\ NoticeOK
    OBVIOUS
  <2>1. NoticeOK
    BY DEF ScreenInit, Mounted, NoticeOK
  <2>2. MountOK
    BY DEF ScreenInit, Mounted, MountOK, NoScreen
  <2> QED BY <2>1, <2>2
<1>2. MountOK /\ NoticeOK /\ [ScreenNext]_screenVars => MountOK' /\ NoticeOK'
  BY MountStep, NoticeStep DEF MountMoves, MountOK
<1>3. ScreenInv /\ MountOK /\ NoticeOK => ScreenTypeOK
  BY DEF ScreenInv, ScreenRecords, MountOK, NoticeOK, ScreenTypeOK, Row, ShownBill
<1> QED BY <1>1, <1>2, <1>3, ScreenInvariant, PTL DEF ScreenSpec

-----------------------------------------------------------------------------
(* StaffNavigation.  Where the guards send a tab they let it stay: the home *)
(* of an account is a page that it may see.                                 *)

LEMMA HomeIsOpen ==
  ASSUME NEW u \in Staff
  PROVE  /\ HomeRoute(u) \in {"/billing", "/dashboard"}
         /\ HomeRoute(u) = "/dashboard" => HasNonCounterAccess(u)
         /\ HomeRoute(u) = "/billing" => CanAccessBilling(u)
<1>1. /\ Profile[u].role \in RoleKey /\ Profile[u].key \in RoleKey \union {"custom"}
      /\ Profile[u].desk \/ Profile[u].role # "cashier" \/ Profile[u].key \in {"super_admin", "admin"}
  BY NavigationAssumption DEF ProfileRecord
<1>2. HomeRoute(u) \in {"/billing", "/dashboard"}
  BY DEF HomeRoute
<1>3. HomeRoute(u) = "/dashboard" => HasNonCounterAccess(u)
  BY <1>1 DEF HomeRoute, IsCounterOnly, HasNonCounterAccess, IsAdminUser, EffectiveRole, RoleKey
<1>4. HomeRoute(u) = "/billing" => CanAccessBilling(u)
  BY <1>1 DEF HomeRoute, IsCounterOnly, HasNonCounterAccess, IsAdminUser, EffectiveRole, RoleKey, CanAccessBilling
<1> QED BY <1>2, <1>3, <1>4

LEMMA TargetIsARoute ==
  ASSUME NavTypeOK
  PROVE  Target \in Route
<1>1. IsStaff(who) => HomeRoute(who) \in Route
  BY HomeIsOpen DEF IsStaff, Route, AdminRoute
<1>2. who # Nobody /\ who # ACustomer => IsStaff(who)
  BY DEF NavTypeOK, IsStaff
<1>3. HomeRedirect \in Route /\ GuestGuard \in Route /\ AuthGuard \in Route /\ CustomerAuthGuard \in Route
  BY <1>1, <1>2 DEF HomeRedirect, GuestGuard, AuthGuard, CustomerAuthGuard, NavTypeOK, Route
<1> QED BY <1>3 DEF Target, NavTypeOK

LEMMA GotoStays ==
  ASSUME NavTypeOK, NEW r \in Route, Goto(r)
  PROVE  at' \in Route /\ wanted' \in Route
  BY DEF Goto, NavTypeOK, Route

\* A redirect is the last: no guard turns the tab away from where one has sent it.
LEMMA RedirectIsLast ==
  ASSUME NavTypeOK, Redirect
  PROVE  (Target = at)'
<1>1. who' = who /\ at' = Target /\ at' # at
  BY DEF Redirect, Goto
<1>2. IsStaff(who) => /\ HomeRoute(who) \in {"/billing", "/dashboard"}
                      /\ HomeRoute(who) = "/dashboard" => HasNonCounterAccess(who)
  BY HomeIsOpen DEF IsStaff
<1>3. (who = Nobody => ~IsStaff(who)) /\ (who = ACustomer => ~IsStaff(who)) /\ Nobody # ACustomer
      /\ (who # Nobody /\ who # ACustomer => IsStaff(who))
  BY NavigationAssumption DEF NavTypeOK, IsStaff
<1>4. \/ ~IsStaff(who) /\ at' = "/login"
      \/ who = ACustomer /\ at' = "/customer/dashboard"
      \/ who # ACustomer /\ at' = "/customer/login"
      \/ IsStaff(who) /\ at' = HomeRoute(who)
  BY <1>1, <1>3 DEF Target, HomeRedirect, GuestGuard, AuthGuard, CustomerAuthGuard
<1>5. CASE ~IsStaff(who) /\ at' = "/login"
  BY <1>1, <1>5 DEF Target, GuestGuard, IsStaff
<1>6. CASE who = ACustomer /\ at' = "/customer/dashboard"
  BY <1>1, <1>6 DEF Target, CustomerAuthGuard
<1>7. CASE who # ACustomer /\ at' = "/customer/login"
  BY <1>1, <1>7 DEF Target
<1>8. CASE IsStaff(who) /\ at' = HomeRoute(who)
  <2>1. IsStaff(who)' /\ at' \in {"/billing", "/dashboard"} /\ (at' \in AdminRoute => HasNonCounterAccess(who)')
    BY <1>1, <1>2, <1>8 DEF IsStaff, AdminRoute, HasNonCounterAccess, IsAdminUser, EffectiveRole
  <2> QED BY <2>1 DEF Target, AuthGuard
<1> QED BY <1>4, <1>5, <1>6, <1>7, <1>8

LEMMA NavInitInv == NavInit => NavTypeOK
  BY DEF NavInit, NavTypeOK, Route, AdminRoute

LEMMA NavStep == NavTypeOK /\ [NavNext]_navVars => NavTypeOK'
<1> SUFFICES ASSUME NavTypeOK, [NavNext]_navVars PROVE NavTypeOK'
  OBVIOUS
<1>1. CASE Redirect
  <2>1. at' \in Route /\ wanted' \in Route
    BY <1>1, TargetIsARoute, GotoStays DEF Redirect
  <2> QED BY <1>1, <2>1 DEF Redirect, NavTypeOK
<1>2. CASE StopLoading \/ SessionLost \/ UNCHANGED navVars
  BY <1>2 DEF StopLoading, SessionLost, NavTypeOK, navVars
<1>3. CASE RestoreSession
  BY <1>3 DEF RestoreSession, NavTypeOK
<1>4. ASSUME NEW u \in Staff, SignInStaff(u) PROVE NavTypeOK'
  <2>1. PostLoginPath(u, wanted) \in Route /\ HomeRoute(u) \in Route
    BY HomeIsOpen DEF PostLoginPath, NavTypeOK, Route, AdminRoute
  <2>2. at' \in Route /\ wanted' \in Route
    BY <1>4, <2>1, GotoStays DEF SignInStaff
  <2> QED BY <1>4, <2>2 DEF SignInStaff, NavTypeOK
<1>5. CASE SignInCustomer
  <2>1. at' \in Route /\ wanted' \in Route
    BY <1>5, GotoStays DEF SignInCustomer, Route
  <2> QED BY <1>5, <2>1 DEF SignInCustomer, NavTypeOK
<1>6. CASE SignOutTab
  <2>1. at' \in Route /\ wanted' \in Route
    BY <1>6, GotoStays DEF SignOutTab, Route
  <2> QED BY <1>6, <2>1 DEF SignOutTab, NavTypeOK
<1>7. CASE Follow
  <2>1. Links \subseteq Route
    BY DEF Links, Route, AdminRoute
  <2>2. at' \in Route /\ wanted' \in Route
    BY <1>7, <2>1, GotoStays DEF Follow
  <2> QED BY <1>7, <2>2 DEF Follow, NavTypeOK
<1>8. ASSUME NEW r \in Route, Visit(r) PROVE NavTypeOK'
  BY <1>8 DEF Visit, NavTypeOK, Route
<1> QED BY <1>1, <1>2, <1>3, <1>4, <1>5, <1>6, <1>7, <1>8 DEF NavNext

\* The types of the tabs of staff.
THEOREM NavigationTypes == NavSpec => []NavTypeOK
  BY NavInitInv, NavStep, PTL DEF NavSpec

\* No guard turns a tab away from where a redirect has sent it, nor does it find the billing
\* screen there without a counter.
OneRedirect == [][Redirect => (Target = at)' /\ (at' = "/billing" => CanAccessBilling(who))]_navVars

\* Redirects do not chain, let alone go round in circles, whatever the role, the extra permissions
\* and the counter of an account: the home of an account is a page that lets it in.
THEOREM RedirectsEnd == NavSpec => OneRedirect
<1>1. NavTypeOK /\ [NavNext]_navVars => [Redirect => (Target = at)' /\ (at' = "/billing" => CanAccessBilling(who))]_navVars
  <2> SUFFICES ASSUME NavTypeOK, Redirect PROVE (Target = at)' /\ (at' = "/billing" => CanAccessBilling(who))
    OBVIOUS
  <2>1. ASSUME at' = "/billing" PROVE IsStaff(who) /\ HomeRoute(who) = "/billing"
    <3>1. Target = "/billing" /\ at # "/billing"
      BY <2>1 DEF Redirect, Goto
    <3>2. who = Nobody \/ who = ACustomer \/ IsStaff(who)
      BY DEF NavTypeOK, IsStaff
    <3> QED BY <3>1, <3>2 DEF Target, HomeRedirect, GuestGuard, AuthGuard, CustomerAuthGuard
  <2> QED BY <2>1, RedirectIsLast, HomeIsOpen DEF IsStaff
<1> QED BY <1>1, NavigationTypes, PTL DEF NavSpec, OneRedirect
=============================================================================
