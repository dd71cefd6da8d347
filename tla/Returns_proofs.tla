--------------------------- MODULE Returns_proofs ---------------------------
(***************************************************************************)
(* What TLAPS proves of Returns for every set of items, lines and returns: *)
(* the types and the numbers, whatever requests overlap; the stock, what   *)
(* is left to return and that completed returns stay, for one request at a *)
(* time.                                                                   *)
(***************************************************************************)
EXTENDS Returns, SetLemmas, FiniteSetTheorems, TLAPS

\* The rows and the requests have their types, and a request that goes on has a return.
RowsOK ==
  /\ returns \in [Return -> Row]
  /\ lastNo \in Nat
  /\ req \in [Request -> Call]
  /\ \A r \in Request : req[r].pc \in {"check", "commit", "cancel"} => req[r].ret \in Return

\* The sequence is never behind a number that a return carries.
SequenceAhead == \A n \in Return : returns[n].returnNo <= lastNo

NumbersInv == RowsOK /\ SequenceAhead /\ ReturnNumbersUnique

LEMMA IdleCall == Idle \in Call
  BY DEF Idle, Call, Type

LEMMA NumbersInit == Init => NumbersInv
<1> SUFFICES ASSUME Init PROVE NumbersInv
  OBVIOUS
<1>1. NoRow \in Row
  BY DEF NoRow, Row, Type
<1>2. RowsOK
  BY <1>1, IdleCall DEF Init, RowsOK, Idle
<1>3. SequenceAhead /\ ReturnNumbersUnique
  BY DEF Init, SequenceAhead, ReturnNumbersUnique, NoRow
<1> QED BY <1>2, <1>3 DEF NumbersInv

\* A step that leaves every return its number, and the sequence alone.
LEMMA NumbersKept ==
  ASSUME NumbersInv, RowsOK', UNCHANGED lastNo,
         \A n \in Return : returns'[n].returnNo = returns[n].returnNo
  PROVE  NumbersInv'
  BY DEF NumbersInv, SequenceAhead, ReturnNumbersUnique

\* A step of one request that takes the state c and touches no row.
LEMMA CallStep ==
  ASSUME NumbersInv, NEW r \in Request, NEW c \in Call,
         c.pc \in {"check", "commit", "cancel"} => c.ret \in Return,
         req' = [req EXCEPT ![r] = c], UNCHANGED <<returns, lastNo>>
  PROVE  NumbersInv'
<1>1. RowsOK'
  BY DEF NumbersInv, RowsOK
<1> QED BY <1>1, NumbersKept

LEMMA CreateReturnStep ==
  ASSUME NumbersInv, NEW r \in Request, NEW b \in Bill, NEW type \in Type, NEW lines \in Drafts,
         CreateReturn(r, b, type, lines)
  PROVE  NumbersInv'
<1> DEFINE c == [Idle EXCEPT !.pc = "create", !.lines = lines, !.type = DraftType(b, type, lines)]
<1>1. lines \in SUBSET Line
  BY ReturnsAssumption
<1>2. DraftType(b, type, lines) \in Type
  BY DEF DraftType, Type
<1>3. c \in Call /\ c.pc = "create"
  BY <1>1, <1>2, IdleCall DEF Idle, Call
<1>4. req' = [req EXCEPT ![r] = c] /\ UNCHANGED <<returns, lastNo>>
  BY DEF CreateReturn
<1> HIDE DEF c
<1> QED BY <1>3, <1>4, CallStep

LEMMA InsertDraftStep ==
  ASSUME NumbersInv, NEW r \in Request, InsertDraft(r)
  PROVE  NumbersInv'
<1>1. PICK n \in Return :
        /\ returns[n].status = "none"
        /\ returns' = [returns EXCEPT ![n] = [NoRow EXCEPT !.status = "DRAFT", !.type = req[r].type,
                                                           !.lines = req[r].lines]]
  BY DEF InsertDraft
<1> DEFINE d == [NoRow EXCEPT !.status = "DRAFT", !.type = req[r].type, !.lines = req[r].lines]
<1>2. req[r] \in Call
  BY DEF NumbersInv, RowsOK
<1>3. d \in Row /\ d.returnNo = 0
  BY <1>2 DEF NoRow, Row, Call
<1>4. returns' = [returns EXCEPT ![n] = d]
  BY <1>1
<1>5. RowsOK'
  BY <1>3, <1>4, IdleCall DEF NumbersInv, RowsOK, InsertDraft, Idle
<1>6. \A m \in Return : returns'[m].returnNo = returns[m].returnNo \/ returns'[m].returnNo = 0
  BY <1>3, <1>4 DEF NumbersInv, RowsOK
<1>7. SequenceAhead' /\ ReturnNumbersUnique'
  BY <1>6 DEF NumbersInv, RowsOK, SequenceAhead, ReturnNumbersUnique, InsertDraft
<1> QED BY <1>5, <1>7 DEF NumbersInv

LEMMA CompleteReturnStep ==
  ASSUME NumbersInv, NEW r \in Request, NEW n \in Return, CompleteReturn(r, n)
  PROVE  NumbersInv'
<1> DEFINE c == [Idle EXCEPT !.pc = "check", !.ret = n, !.lines = returns[n].lines]
<1>1. returns[n].lines \in SUBSET Line
  BY DEF NumbersInv, RowsOK, Row
<1>2. c \in Call /\ c.ret \in Return
  BY <1>1 DEF Idle, Call, Type
<1>3. req' = [req EXCEPT ![r] = c] /\ UNCHANGED <<returns, lastNo>>
  BY DEF CompleteReturn
<1> HIDE DEF c
<1> QED BY <1>2, <1>3, CallStep

LEMMA CheckReturnableStep ==
  ASSUME NumbersInv, NEW r \in Request, CheckReturnable(r)
  PROVE  NumbersInv'
<1> DEFINE go == [req[r] EXCEPT !.pc = "commit"]
<1>1. req[r] \in Call /\ req[r].ret \in Return
  BY DEF NumbersInv, RowsOK, CheckReturnable
<1>2. go \in Call /\ go.ret \in Return
  BY <1>1 DEF Call
<1>3. Idle.pc = "idle"
  BY DEF Idle
<1>4. \/ req' = [req EXCEPT ![r] = go]
      \/ req' = [req EXCEPT ![r] = Idle]
  BY <1>1 DEF CheckReturnable, NumbersInv, RowsOK
<1>5. UNCHANGED <<returns, lastNo>>
  BY DEF CheckReturnable
<1> HIDE DEF go
<1>6. CASE req' = [req EXCEPT ![r] = go]
  BY <1>2, <1>5, <1>6, CallStep
<1>7. CASE req' = [req EXCEPT ![r] = Idle]
  BY <1>3, <1>5, <1>7, IdleCall, CallStep
<1> QED BY <1>4, <1>6, <1>7

\* The only step that gives a number: one above all numbers there are.
LEMMA CommitReturnStep ==
  ASSUME NumbersInv, NEW r \in Request, CommitReturn(r)
  PROVE  NumbersInv'
<1> DEFINE n == req[r].ret
<1>1. n \in Return
  BY DEF NumbersInv, RowsOK, CommitReturn
<1>2. lastNo' = lastNo + 1 /\ lastNo \in Nat
  BY DEF CommitReturn, NextReturnNo, NumbersInv, RowsOK
<1>3. returns' = [returns EXCEPT ![n].status = "COMPLETED", ![n].returnNo = lastNo']
  BY DEF CommitReturn
<1>4. /\ returns'[n].returnNo = lastNo'
      /\ \A m \in Return \ {n} : returns'[m] = returns[m]
      /\ returns' \in [Return -> Row]
  BY <1>1, <1>2, <1>3 DEF NumbersInv, RowsOK, Row
<1>5. RowsOK'
  BY <1>2, <1>4, IdleCall DEF NumbersInv, RowsOK, CommitReturn, Idle
<1>6. \A m \in Return \ {n} : returns'[m].returnNo \in Nat /\ returns'[m].returnNo < lastNo'
  BY <1>2, <1>4 DEF NumbersInv, RowsOK, SequenceAhead, Row
<1>7. SequenceAhead'
  BY <1>2, <1>4, <1>6 DEF SequenceAhead
<1>8. ReturnNumbersUnique'
  BY <1>2, <1>4, <1>6 DEF NumbersInv, ReturnNumbersUnique
<1> QED BY <1>5, <1>7, <1>8 DEF NumbersInv

LEMMA CancelReturnStep ==
  ASSUME NumbersInv, NEW r \in Request, NEW n \in Return, CancelReturn(r, n)
  PROVE  NumbersInv'
<1> DEFINE c == [Idle EXCEPT !.pc = "cancel", !.ret = n]
<1>1. c \in Call /\ c.ret \in Return
  BY DEF Idle, Call, Type
<1>2. req' = [req EXCEPT ![r] = c] /\ UNCHANGED <<returns, lastNo>>
  BY DEF CancelReturn
<1> HIDE DEF c
<1> QED BY <1>1, <1>2, CallStep

LEMMA WriteCancelledStep ==
  ASSUME NumbersInv, NEW r \in Request, WriteCancelled(r)
  PROVE  NumbersInv'
<1>1. RowsOK' /\ UNCHANGED lastNo
  BY IdleCall DEF NumbersInv, RowsOK, WriteCancelled, Row, Idle
<1>2. \A n \in Return : returns'[n].returnNo = returns[n].returnNo
  BY DEF NumbersInv, RowsOK, WriteCancelled, Row
<1> QED BY <1>1, <1>2, NumbersKept

LEMMA FailRequestStep ==
  ASSUME NumbersInv, NEW r \in Request, FailRequest(r)
  PROVE  NumbersInv'
<1>1. Idle.pc = "idle"
  BY DEF Idle
<1> QED BY <1>1, IdleCall, CallStep DEF FailRequest

LEMMA NumbersNext == NumbersInv /\ [Next]_vars => NumbersInv'
<1> SUFFICES ASSUME NumbersInv, [Next]_vars PROVE NumbersInv'
  OBVIOUS
<1>1. CASE UNCHANGED vars
  BY <1>1 DEF vars, NumbersInv, RowsOK, SequenceAhead, ReturnNumbersUnique
<1>2. CASE Next
  BY <1>2, CreateReturnStep, InsertDraftStep, CompleteReturnStep, CheckReturnableStep,
     CommitReturnStep, CancelReturnStep, WriteCancelledStep, FailRequestStep DEF Next
<1> QED BY <1>1, <1>2

\* No two returns ever have the same number, however completions, cancellations and
\* failures overlap: nextReturnNo() increments inside the transaction.
THEOREM ReturnNumbersNeverClash == Spec => []ReturnNumbersUnique
<1>1. NumbersInv => ReturnNumbersUnique
  BY DEF NumbersInv
<1> QED BY <1>1, NumbersInit, NumbersNext, PTL DEF Spec

-----------------------------------------------------------------------------
(* The sums of the module, over lines, returns and items, as SetLemmas has   *)
(* them.                                                                   *)

LEMMA QtyOfIsASum ==
  ASSUME NEW lines \in SUBSET Line, IsFiniteSet(lines), NEW i
  PROVE  /\ QtyOf(lines, i) = SumOf([l \in lines |-> l.qty], {l \in lines : l.item = i})
         /\ QtyOf(lines, i) \in Nat
<1> DEFINE f == [l \in lines |-> l.qty]
           S == {l \in lines : l.item = i}
           h == CHOOSE h : h = [s \in SUBSET S |-> IF s = {} THEN 0
                                 ELSE (CHOOSE x \in s : TRUE).qty + h[s \ {CHOOSE x \in s : TRUE}]]
<1>1. \A l \in lines : f[l] \in Nat
  BY DEF Line
<1>2. f \in [lines -> Int] /\ IsFiniteSet(S) /\ S \in SUBSET lines
  BY <1>1, FS_Subset
<1>3. QtyOf(lines, i) = h[S]
  BY DEF QtyOf, MapThenSumSet, MapThenFoldSet
<1>4. \A s \in SUBSET S : s # {} => f[Some(s)] = Some(s).qty
  BY SomeIsOne
<1> HIDE DEF f, S
<1>5. PICK g : AddsUp(f, S, g)
  BY <1>2, SumExists
<1>6. g = [s \in SUBSET S |-> IF s = {} THEN 0 ELSE f[Some(s)] + g[s \ {Some(s)}]]
  BY <1>5 DEF AddsUp
<1>7. g = [s \in SUBSET S |-> IF s = {} THEN 0
            ELSE (CHOOSE x \in s : TRUE).qty + g[s \ {CHOOSE x \in s : TRUE}]]
  <2>1. \A s \in SUBSET S : (IF s = {} THEN 0 ELSE f[Some(s)] + g[s \ {Some(s)}])
                              = IF s = {} THEN 0 ELSE Some(s).qty + g[s \ {Some(s)}]
    BY <1>4
  <2>2. g = [s \in SUBSET S |-> IF s = {} THEN 0 ELSE Some(s).qty + g[s \ {Some(s)}]]
    BY <1>6, <2>1
  <2> QED BY ONLY <2>2 DEF Some
<1>8. h = [s \in SUBSET S |-> IF s = {} THEN 0
            ELSE (CHOOSE x \in s : TRUE).qty + h[s \ {CHOOSE x \in s : TRUE}]]
  BY ONLY <1>7
<1> HIDE DEF h
<1>9. AddsUp(f, S, h)
  <2>1. h = [s \in SUBSET S |-> IF s = {} THEN 0 ELSE Some(s).qty + h[s \ {Some(s)}]]
    BY ONLY <1>8 DEF Some
  <2>2. \A s \in SUBSET S : (IF s = {} THEN 0 ELSE f[Some(s)] + h[s \ {Some(s)}])
                              = IF s = {} THEN 0 ELSE Some(s).qty + h[s \ {Some(s)}]
    BY <1>4
  <2> QED BY <2>1, <2>2 DEF AddsUp
<1>10. SumOf(f, S) = h[S] /\ SumOf(f, S) \in Nat
  BY <1>1, <1>2, <1>9, SumIs, SumIsNatural
<1> QED BY <1>3, <1>10 DEF f, S

LEMMA BatchQtyIsASum ==
  ASSUME NEW lines \in SUBSET Line, IsFiniteSet(lines), NEW x
  PROVE  /\ BatchQty(lines, x) = SumOf([l \in lines |-> l.qty], {l \in lines : BatchOf[l.item] = x})
         /\ BatchQty(lines, x) \in Nat
<1> DEFINE f == [l \in lines |-> l.qty]
           S == {l \in lines : BatchOf[l.item] = x}
           h == CHOOSE h : h = [s \in SUBSET S |-> IF s = {} THEN 0
                                 ELSE (CHOOSE y \in s : TRUE).qty + h[s \ {CHOOSE y \in s : TRUE}]]
<1>1. \A l \in lines : f[l] \in Nat
  BY DEF Line
<1>2. f \in [lines -> Int] /\ IsFiniteSet(S) /\ S \in SUBSET lines
  BY <1>1, FS_Subset
<1>3. BatchQty(lines, x) = h[S]
  BY DEF BatchQty, MapThenSumSet, MapThenFoldSet
<1>4. \A s \in SUBSET S : s # {} => f[Some(s)] = Some(s).qty
  BY SomeIsOne
<1> HIDE DEF f, S
<1>5. PICK g : AddsUp(f, S, g)
  BY <1>2, SumExists
<1>6. g = [s \in SUBSET S |-> IF s = {} THEN 0 ELSE f[Some(s)] + g[s \ {Some(s)}]]
  BY <1>5 DEF AddsUp
<1>7. g = [s \in SUBSET S |-> IF s = {} THEN 0
            ELSE (CHOOSE y \in s : TRUE).qty + g[s \ {CHOOSE y \in s : TRUE}]]
  <2>1. \A s \in SUBSET S : (IF s = {} THEN 0 ELSE f[Some(s)] + g[s \ {Some(s)}])
                              = IF s = {} THEN 0 ELSE Some(s).qty + g[s \ {Some(s)}]
    BY <1>4
  <2>2. g = [s \in SUBSET S |-> IF s = {} THEN 0 ELSE Some(s).qty + g[s \ {Some(s)}]]
    BY <1>6, <2>1
  <2> QED BY ONLY <2>2 DEF Some
<1>8. h = [s \in SUBSET S |-> IF s = {} THEN 0
            ELSE (CHOOSE y \in s : TRUE).qty + h[s \ {CHOOSE y \in s : TRUE}]]
  BY ONLY <1>7
<1> HIDE DEF h
<1>9. AddsUp(f, S, h)
  <2>1. h = [s \in SUBSET S |-> IF s = {} THEN 0 ELSE Some(s).qty + h[s \ {Some(s)}]]
    BY ONLY <1>8 DEF Some
  <2>2. \A s \in SUBSET S : (IF s = {} THEN 0 ELSE f[Some(s)] + h[s \ {Some(s)}])
                              = IF s = {} THEN 0 ELSE Some(s).qty + h[s \ {Some(s)}]
    BY <1>4
  <2> QED BY <2>1, <2>2 DEF AddsUp
<1>10. SumOf(f, S) = h[S] /\ SumOf(f, S) \in Nat
  BY <1>1, <1>2, <1>9, SumIs, SumIsNatural
<1> QED BY <1>3, <1>10 DEF f, S

\* What returns, of which only finitely many are counted, take back of an item.
TakenBack(rows, i, S) == SumOf([n \in Return |-> QtyOf(rows[n].lines, i)], S)

LEMMA TakenBackIsASum ==
  ASSUME NEW rows, \A n \in Return : rows[n].lines \in SUBSET Line /\ IsFiniteSet(rows[n].lines),
         NEW S \in SUBSET Return, IsFiniteSet(S), NEW i
  PROVE  /\ MapThenSumSet(LAMBDA n : QtyOf(rows[n].lines, i), S) = TakenBack(rows, i, S)
         /\ TakenBack(rows, i, S) \in Nat
         /\ [n \in Return |-> QtyOf(rows[n].lines, i)] \in [Return -> Int]
<1> DEFINE f == [n \in Return |-> QtyOf(rows[n].lines, i)]
           h == CHOOSE h : h = [s \in SUBSET S |-> IF s = {} THEN 0
                                 ELSE QtyOf(rows[CHOOSE x \in s : TRUE].lines, i)
                                      + h[s \ {CHOOSE x \in s : TRUE}]]
<1>1. \A n \in Return : f[n] \in Nat
  BY QtyOfIsASum
<1>2. f \in [Return -> Int]
  BY <1>1
<1>3. MapThenSumSet(LAMBDA n : QtyOf(rows[n].lines, i), S) = h[S]
  BY DEF MapThenSumSet, MapThenFoldSet
<1>4. \A s \in SUBSET S : s # {} => f[Some(s)] = QtyOf(rows[CHOOSE x \in s : TRUE].lines, i)
  BY SomeIsOne DEF Some
<1> HIDE DEF f
<1>5. PICK g : AddsUp(f, S, g)
  BY <1>2, SumExists
<1>6. g = [s \in SUBSET S |-> IF s = {} THEN 0 ELSE f[Some(s)] + g[s \ {Some(s)}]]
  BY <1>5 DEF AddsUp
<1>7. g = [s \in SUBSET S |-> IF s = {} THEN 0
            ELSE QtyOf(rows[CHOOSE x \in s : TRUE].lines, i) + g[s \ {CHOOSE x \in s : TRUE}]]
  BY <1>4, <1>6 DEF Some
<1>8. h = [s \in SUBSET S |-> IF s = {} THEN 0
            ELSE QtyOf(rows[CHOOSE x \in s : TRUE].lines, i) + h[s \ {CHOOSE x \in s : TRUE}]]
  BY <1>7
<1> HIDE DEF h
<1>9. AddsUp(f, S, h)
  BY <1>4, <1>8 DEF AddsUp, Some
<1>10. SumOf(f, S) = h[S] /\ SumOf(f, S) \in Nat
  BY <1>1, <1>2, <1>9, SumIs, SumIsNatural
<1> QED BY <1>2, <1>3, <1>10 DEF f, TakenBack

\* What the movements of the items of a batch come to.
LEMMA ShelvedIsASum ==
  ASSUME NEW moved \in [BillItem -> Nat], NEW S \in SUBSET BillItem
  PROVE  MapThenSumSet(LAMBDA i : moved[i], S) = SumOf(moved, S)
  BY DEF SumOf

\* A batch takes back what its items take back.
LEMMA BatchTakesItsItems ==
  ASSUME NEW lines \in SUBSET Line, IsFiniteSet(lines), NEW x
  PROVE  SumOf([i \in BillItem |-> QtyOf(lines, i)], {i \in BillItem : BatchOf[i] = x}) = BatchQty(lines, x)
<1> DEFINE f == [l \in lines |-> l.qty]
           of == [l \in lines |-> l.item]
           h == [i \in BillItem |-> QtyOf(lines, i)]
           G == {i \in BillItem : BatchOf[i] = x}
<1>a. \A l \in lines : l.qty \in Int /\ l.item \in BillItem
  BY DEF Line
<1>b. ASSUME NEW i \in BillItem PROVE QtyOf(lines, i) \in Int
  <2>1. QtyOf(lines, i) \in Nat
    BY QtyOfIsASum
  <2> QED BY <2>1
<1>1. f \in [lines -> Int] /\ of \in [lines -> BillItem] /\ h \in [BillItem -> Int]
  BY <1>a, <1>b
<1>2. IsFiniteSet(G) /\ G \in SUBSET BillItem /\ lines \in SUBSET lines
  BY ReturnsAssumption, FS_Subset
<1>3. ASSUME NEW i \in BillItem PROVE h[i] = SumOf(f, {l \in lines : of[l] = i})
  <2>1. {l \in lines : of[l] = i} = {l \in lines : l.item = i}
    OBVIOUS
  <2> QED BY <2>1, QtyOfIsASum
<1>4. {l \in lines : of[l] \in G} = {l \in lines : BatchOf[l.item] = x}
  BY DEF Line
<1>5. BatchQty(lines, x) = SumOf(f, {l \in lines : BatchOf[l.item] = x})
  BY BatchQtyIsASum
<1> HIDE DEF f, of, h, G
<1>6. SumOf(h, G) = SumOf(f, {l \in lines : of[l] \in G})
  BY <1>1, <1>2, <1>3, SumByGroups
<1> QED BY <1>4, <1>5, <1>6 DEF h, G

-----------------------------------------------------------------------------
(* The types.  Every set of lines is one that a client sent, or none.      *)

LinesSent ==
  /\ \A n \in Return : returns[n].lines \in Drafts \union {{}}
  /\ \A r \in Request : req[r].lines \in Drafts \union {{}}

StockIsCounted == stock \in [Batch -> Nat] /\ shelved \in [BillItem -> Nat]

TypeInv == NumbersInv /\ LinesSent /\ StockIsCounted

LEMMA SentLines == \A d \in Drafts \union {{}} : d \in SUBSET Line /\ IsFiniteSet(d)
  BY ReturnsAssumption, FS_EmptySet

LEMMA TypeInit == Init => TypeInv
<1> SUFFICES ASSUME Init PROVE TypeInv
  OBVIOUS
<1>1. NoRow.lines = {} /\ Idle.lines = {}
  BY DEF NoRow, Idle
<1> QED BY <1>1, NumbersInit, ReturnsAssumption DEF Init, TypeInv, LinesSent, StockIsCounted

\* The rows keep their lines but where a draft is inserted.
LEMMA LinesSentStep == TypeInv /\ [Next]_vars => LinesSent'
<1> SUFFICES ASSUME TypeInv, [Next]_vars PROVE LinesSent'
  OBVIOUS
<1>1. /\ returns \in [Return -> Row] /\ req \in [Request -> Call]
      /\ \A n \in Return : returns[n].lines \in Drafts \union {{}}
      /\ \A r \in Request : req[r].lines \in Drafts \union {{}}
  BY DEF TypeInv, NumbersInv, RowsOK, LinesSent
<1>2. Idle.lines = {} /\ Idle \in Call
  BY IdleCall DEF Idle
<1>3. CASE UNCHANGED vars
  BY <1>1, <1>3 DEF vars, LinesSent
<1>4. ASSUME NEW r \in Request, NEW b \in Bill, NEW type \in Type, NEW lines \in Drafts,
             CreateReturn(r, b, type, lines)
      PROVE  LinesSent'
  <2> DEFINE c == [Idle EXCEPT !.pc = "create", !.lines = lines, !.type = DraftType(b, type, lines)]
  <2>1. c.lines = lines
    BY DEF Idle
  <2>2. req' = [req EXCEPT ![r] = c] /\ UNCHANGED returns
    BY <1>4 DEF CreateReturn
  <2> HIDE DEF c
  <2> QED BY <1>1, <2>1, <2>2 DEF LinesSent
<1>5. ASSUME NEW r \in Request, InsertDraft(r) PROVE LinesSent'
  <2>1. PICK n \in Return :
          returns' = [returns EXCEPT ![n] = [NoRow EXCEPT !.status = "DRAFT", !.type = req[r].type,
                                                             !.lines = req[r].lines]]
    BY <1>5 DEF InsertDraft
  <2> DEFINE d == [NoRow EXCEPT !.status = "DRAFT", !.type = req[r].type, !.lines = req[r].lines]
  <2>2. d.lines = req[r].lines
    BY DEF NoRow
  <2>3. returns' = [returns EXCEPT ![n] = d] /\ req' = [req EXCEPT ![r] = Idle]
    BY <1>5, <2>1 DEF InsertDraft
  <2> HIDE DEF d
  <2> QED BY <1>1, <1>2, <2>2, <2>3 DEF LinesSent
<1>6. ASSUME NEW r \in Request, NEW n \in Return, CompleteReturn(r, n) PROVE LinesSent'
  <2> DEFINE c == [Idle EXCEPT !.pc = "check", !.ret = n, !.lines = returns[n].lines]
  <2>1. c.lines = returns[n].lines
    BY DEF Idle
  <2>2. req' = [req EXCEPT ![r] = c] /\ UNCHANGED returns
    BY <1>6 DEF CompleteReturn
  <2> HIDE DEF c
  <2> QED BY <1>1, <2>1, <2>2 DEF LinesSent
<1>7. ASSUME NEW r \in Request, NEW n \in Return, CancelReturn(r, n) PROVE LinesSent'
  <2> DEFINE c == [Idle EXCEPT !.pc = "cancel", !.ret = n]
  <2>1. c.lines = {}
    BY DEF Idle
  <2>2. req' = [req EXCEPT ![r] = c] /\ UNCHANGED returns
    BY <1>7 DEF CancelReturn
  <2> HIDE DEF c
  <2> QED BY <1>1, <2>1, <2>2 DEF LinesSent
<1>8. ASSUME NEW r \in Request, CheckReturnable(r) PROVE LinesSent'
  <2>1. [req[r] EXCEPT !.pc = "commit"].lines = req[r].lines
    BY <1>1 DEF Call
  <2>2. UNCHANGED returns /\ req' \in {[req EXCEPT ![r] = [req[r] EXCEPT !.pc = "commit"]], [req EXCEPT ![r] = Idle]}
    BY <1>1, <1>8 DEF CheckReturnable
  <2> QED BY <1>1, <1>2, <2>1, <2>2 DEF LinesSent
<1>9. ASSUME NEW r \in Request, CommitReturn(r) \/ WriteCancelled(r) PROVE LinesSent'
  <2>1. \A n \in Return : returns'[n].lines = returns[n].lines
    BY <1>1, <1>9 DEF CommitReturn, WriteCancelled, Row
  <2>2. req' = [req EXCEPT ![r] = Idle]
    BY <1>9 DEF CommitReturn, WriteCancelled
  <2> QED BY <1>1, <1>2, <2>1, <2>2 DEF LinesSent
<1>10. ASSUME NEW r \in Request, FailRequest(r) PROVE LinesSent'
  BY <1>1, <1>2, <1>10 DEF FailRequest, LinesSent
<1> QED BY <1>3, <1>4, <1>5, <1>6, <1>7, <1>8, <1>9, <1>10 DEF Next

LEMMA StockIsCountedStep == TypeInv /\ [Next]_vars => StockIsCounted'
<1> SUFFICES ASSUME TypeInv, [Next]_vars PROVE StockIsCounted'
  OBVIOUS
<1>1. ASSUME NEW r \in Request, CommitReturn(r) PROVE StockIsCounted'
  <2>1. req[r].lines \in SUBSET Line /\ IsFiniteSet(req[r].lines)
    BY SentLines DEF TypeInv, LinesSent
  <2>2. /\ \A x : BatchQty(req[r].lines, x) \in Nat
        /\ \A i : QtyOf(req[r].lines, i) \in Nat
    BY <2>1, QtyOfIsASum, BatchQtyIsASum
  <2>3. stock' = [x \in Batch |-> stock[x] + BatchQty(req[r].lines, x)]
        /\ shelved' = [i \in BillItem |-> shelved[i] + QtyOf(req[r].lines, i)]
    BY <1>1 DEF CommitReturn, Shelve
  <2> QED BY <2>2, <2>3 DEF TypeInv, StockIsCounted
<1>2. CASE UNCHANGED <<stock, shelved>>
  BY <1>2 DEF TypeInv, StockIsCounted
<1>3. UNCHANGED <<stock, shelved>> \/ \E r \in Request : CommitReturn(r)
  BY DEF Next, vars, CreateReturn, InsertDraft, CompleteReturn, CheckReturnable, CancelReturn, WriteCancelled,
         FailRequest
<1> QED BY <1>1, <1>2, <1>3

LEMMA TypeInvariant == Spec => []TypeInv
<1>1. TypeInv /\ [Next]_vars => TypeInv'
  BY NumbersNext, LinesSentStep, StockIsCountedStep DEF TypeInv
<1> QED BY <1>1, TypeInit, PTL DEF Spec

\* The variables keep their types for every set of returns and overlapping requests; what is on
\* the shelf is never less than nothing.
THEOREM ReturnTypes == Spec => []TypeOK
<1>1. TypeInv => TypeOK
  BY DEF TypeInv, NumbersInv, RowsOK, StockIsCounted, TypeOK
<1> QED BY <1>1, TypeInvariant, PTL

-----------------------------------------------------------------------------
(* While requests do not overlap.  The handlers check first and write      *)
(* later, so the rest needs one request at a time; MCReturnsOverlap shows  *)
(* what two of them do.                                                    *)

OneRequest == \A r, s \in Request : r = s

\* A request that goes on has a draft, and the lines it checked are those of the draft.
DraftsAwait ==
  \A r \in Request :
    /\ req[r].pc \in {"check", "commit", "cancel"} => returns[req[r].ret].status = "DRAFT"
    /\ req[r].pc \in {"check", "commit"} => req[r].lines = returns[req[r].ret].lines

SerialInv == TypeInv /\ DraftsAwait /\ IsFiniteSet(Completed)

\* Of the steps only the commit touches the stock; no step touches a completed return.
Quiet ==
  /\ Completed' = Completed
  /\ \A n \in Completed : returns'[n] = returns[n]
  /\ UNCHANGED <<stock, shelved>>

Commits(r) ==
  /\ req[r].pc = "commit"
  /\ req[r].ret \in Return \ Completed
  /\ req[r].lines = returns[req[r].ret].lines
  /\ Completed' = Completed \union {req[r].ret}
  /\ \A n \in Completed : returns'[n] = returns[n]
  /\ returns'[req[r].ret].lines = req[r].lines
  /\ returns'[req[r].ret].type = returns[req[r].ret].type
  /\ stock' = [x \in Batch |-> stock[x] + BatchQty(req[r].lines, x)]
  /\ shelved' = [i \in BillItem |-> shelved[i] + QtyOf(req[r].lines, i)]

LEMMA CommitStep ==
  ASSUME SerialInv, NEW r \in Request, CommitReturn(r)
  PROVE  Commits(r)
<1> DEFINE n == req[r].ret
<1>1. /\ n \in Return /\ returns \in [Return -> Row]
      /\ returns[n].status = "DRAFT" /\ req[r].lines = returns[n].lines
  BY DEF SerialInv, TypeInv, NumbersInv, RowsOK, DraftsAwait, CommitReturn
<1>2. returns' = [returns EXCEPT ![n].status = "COMPLETED", ![n].returnNo = NextReturnNo]
  BY DEF CommitReturn
<1>3. /\ returns'[n].status = "COMPLETED" /\ returns'[n].lines = returns[n].lines
      /\ returns'[n].type = returns[n].type
      /\ \A m \in Return \ {n} : returns'[m] = returns[m]
  BY <1>1, <1>2 DEF Row
<1>4. Completed' = Completed \union {n} /\ n \notin Completed /\ n \in Return
  BY <1>1, <1>3 DEF Completed
<1>5. \A m \in Completed : returns'[m] = returns[m]
  BY <1>3, <1>4 DEF Completed
<1> QED BY <1>1, <1>3, <1>4, <1>5 DEF Commits, CommitReturn, Shelve

\* The writes that are no commit: a draft, or the cancellation of one.
LEMMA QuietWrite ==
  ASSUME SerialInv, NEW n \in Return, returns[n].status # "COMPLETED", NEW d, d.status # "COMPLETED",
         returns' = [returns EXCEPT ![n] = d], UNCHANGED <<stock, shelved>>
  PROVE  Quiet
<1>1. returns \in [Return -> Row]
  BY DEF SerialInv, TypeInv, NumbersInv, RowsOK
<1>2. returns'[n] = d /\ \A m \in Return \ {n} : returns'[m] = returns[m]
  BY <1>1
<1> QED BY <1>2 DEF Quiet, Completed

LEMMA InsertIsQuiet ==
  ASSUME SerialInv, NEW r \in Request, InsertDraft(r)
  PROVE  Quiet
<1>1. PICK n \in Return :
        /\ returns[n].status = "none"
        /\ returns' = [returns EXCEPT ![n] = [NoRow EXCEPT !.status = "DRAFT", !.type = req[r].type,
                                                           !.lines = req[r].lines]]
  BY DEF InsertDraft
<1> DEFINE d == [NoRow EXCEPT !.status = "DRAFT", !.type = req[r].type, !.lines = req[r].lines]
<1>2. d.status # "COMPLETED"
  BY DEF NoRow
<1>3. returns' = [returns EXCEPT ![n] = d] /\ UNCHANGED <<stock, shelved>>
  BY <1>1 DEF InsertDraft
<1> HIDE DEF d
<1> QED BY <1>1, <1>2, <1>3, QuietWrite

LEMMA CancelIsQuiet ==
  ASSUME SerialInv, NEW r \in Request, WriteCancelled(r)
  PROVE  Quiet
<1> DEFINE n == req[r].ret
           d == [returns[n] EXCEPT !.status = "CANCELLED"]
<1>1. n \in Return /\ returns[n] \in Row /\ returns[n].status = "DRAFT"
  BY DEF SerialInv, TypeInv, NumbersInv, RowsOK, DraftsAwait, WriteCancelled
<1>2. d.status # "COMPLETED"
  BY <1>1 DEF Row
<1>3. returns' = [returns EXCEPT ![n] = d] /\ UNCHANGED <<stock, shelved>>
  BY DEF WriteCancelled
<1> HIDE DEF d
<1> QED BY <1>1, <1>2, <1>3, QuietWrite

LEMMA QuietOrCommit ==
  ASSUME SerialInv, [Next]_vars
  PROVE  Quiet \/ \E r \in Request : CommitReturn(r) /\ Commits(r)
<1>1. CASE UNCHANGED <<returns, stock, shelved>>
  BY <1>1 DEF Quiet, Completed
<1>2. \/ UNCHANGED <<returns, stock, shelved>>
      \/ \E r \in Request : InsertDraft(r) \/ CommitReturn(r) \/ WriteCancelled(r)
  BY DEF Next, vars, CreateReturn, CompleteReturn, CheckReturnable, CancelReturn, FailRequest
<1> QED BY <1>1, <1>2, CommitStep, InsertIsQuiet, CancelIsQuiet

LEMMA DraftsAwaitStep ==
  ASSUME OneRequest, SerialInv, [Next]_vars
  PROVE  DraftsAwait'
<1>1. returns \in [Return -> Row] /\ req \in [Request -> Call]
  BY DEF SerialInv, TypeInv, NumbersInv, RowsOK
<1>2. Idle.pc = "idle"
  BY DEF Idle
<1>3. ASSUME NEW r \in Request, req' = [req EXCEPT ![r] = Idle] PROVE DraftsAwait'
  <2>1. \A s \in Request : req'[s].pc = "idle"
    BY <1>1, <1>2, <1>3 DEF OneRequest
  <2> QED BY <2>1 DEF DraftsAwait
<1>4. CASE UNCHANGED vars
  BY <1>4 DEF vars, SerialInv, DraftsAwait
<1>5. ASSUME NEW r \in Request, NEW b \in Bill, NEW type \in Type, NEW lines \in Drafts,
             CreateReturn(r, b, type, lines)
      PROVE  DraftsAwait'
  <2> DEFINE c == [Idle EXCEPT !.pc = "create", !.lines = lines, !.type = DraftType(b, type, lines)]
  <2>1. c.pc = "create" /\ req' = [req EXCEPT ![r] = c]
    BY <1>5 DEF Idle, CreateReturn
  <2> HIDE DEF c
  <2>2. \A s \in Request : req'[s].pc = "create"
    BY <1>1, <2>1 DEF OneRequest
  <2> QED BY <2>2 DEF DraftsAwait
<1>6. ASSUME NEW r \in Request, NEW n \in Return, CompleteReturn(r, n) PROVE DraftsAwait'
  <2> DEFINE c == [Idle EXCEPT !.pc = "check", !.ret = n, !.lines = returns[n].lines]
  <2>1. c.ret = n /\ c.lines = returns[n].lines
    BY DEF Idle
  <2>2. req' = [req EXCEPT ![r] = c] /\ UNCHANGED returns /\ returns[n].status = "DRAFT"
    BY <1>6 DEF CompleteReturn
  <2> HIDE DEF c
  <2>3. \A s \in Request : req'[s] = c
    BY <1>1, <2>2 DEF OneRequest
  <2> QED BY <2>1, <2>2, <2>3 DEF DraftsAwait
<1>7. ASSUME NEW r \in Request, NEW n \in Return, CancelReturn(r, n) PROVE DraftsAwait'
  <2> DEFINE c == [Idle EXCEPT !.pc = "cancel", !.ret = n]
  <2>1. c.ret = n /\ c.pc = "cancel"
    BY DEF Idle
  <2>2. req' = [req EXCEPT ![r] = c] /\ UNCHANGED returns /\ returns[n].status = "DRAFT"
    BY <1>7 DEF CancelReturn
  <2> HIDE DEF c
  <2>3. \A s \in Request : req'[s] = c
    BY <1>1, <2>2 DEF OneRequest
  <2> QED BY <2>1, <2>2, <2>3 DEF DraftsAwait
<1>8. ASSUME NEW r \in Request, CheckReturnable(r) PROVE DraftsAwait'
  <2> DEFINE go == [req[r] EXCEPT !.pc = "commit"]
  <2>1. go.ret = req[r].ret /\ go.lines = req[r].lines
    BY <1>1 DEF Call
  <2>2. /\ UNCHANGED returns
        /\ returns[req[r].ret].status = "DRAFT" /\ req[r].lines = returns[req[r].ret].lines
        /\ req' \in {[req EXCEPT ![r] = go], [req EXCEPT ![r] = Idle]}
    BY <1>1, <1>8 DEF CheckReturnable, SerialInv, DraftsAwait
  <2> HIDE DEF go
  <2>3. CASE req' = [req EXCEPT ![r] = go]
    <3>1. \A s \in Request : s = r /\ req'[s] = go
      BY <1>1, <2>3 DEF OneRequest
    <3> QED BY <2>1, <2>2, <3>1 DEF DraftsAwait
  <2> QED BY <1>3, <2>2, <2>3
<1>9. ASSUME NEW r \in Request, InsertDraft(r) \/ CommitReturn(r) \/ WriteCancelled(r) \/ FailRequest(r)
      PROVE  DraftsAwait'
  BY <1>3, <1>9 DEF InsertDraft, CommitReturn, WriteCancelled, FailRequest
<1> QED BY <1>4, <1>5, <1>6, <1>7, <1>8, <1>9 DEF Next

LEMMA SerialInvariant == OneRequest => (Spec => []SerialInv)
<1> SUFFICES ASSUME OneRequest PROVE Spec => []SerialInv
  OBVIOUS
<1>1. Init => SerialInv
  <2> SUFFICES ASSUME Init PROVE SerialInv
    OBVIOUS
  <2>1. Completed = {}
    BY DEF Init, Completed, NoRow
  <2>2. DraftsAwait
    BY DEF Init, DraftsAwait, Idle
  <2> QED BY <2>1, <2>2, TypeInit, FS_EmptySet DEF SerialInv
<1>2. SerialInv /\ [Next]_vars => SerialInv'
  <2> SUFFICES ASSUME SerialInv, [Next]_vars PROVE SerialInv'
    OBVIOUS
  <2>1. TypeInv'
    BY NumbersNext, LinesSentStep, StockIsCountedStep DEF SerialInv, TypeInv
  <2>2. IsFiniteSet(Completed')
    BY QuietOrCommit, FS_AddElement DEF SerialInv, Quiet, Commits
  <2> QED BY <2>1, <2>2, DraftsAwaitStep DEF SerialInv
<1> QED BY <1>1, <1>2, PTL DEF Spec

\* Once a return is completed, its stock is on the shelf and no handler changes its row: a
\* cancellation that was checked earlier could, if it overlapped the completion.
THEOREM CompletedReturnsStay == OneRequest => (Spec => CompletedIsFinal)
<1> SUFFICES ASSUME OneRequest PROVE Spec => CompletedIsFinal
  OBVIOUS
<1>1. SerialInv /\ [Next]_vars =>
        [\A n \in Return : returns[n].status = "COMPLETED" => returns'[n] = returns[n]]_vars
  BY QuietOrCommit DEF Quiet, Commits, Completed
<1> QED BY <1>1, SerialInvariant, PTL DEF Spec, CompletedIsFinal

-----------------------------------------------------------------------------
(* The stock, the movements and the completed returns                      *)

\* The two parts of StockMatchesReturns as sums of SetLemmas.
MovementsOfReturns == \A i \in BillItem : shelved[i] = TakenBack(returns, i, Completed)
StockOfMovements ==
  \A x \in Batch : stock[x] = InitStock[x] + SumOf(shelved, {i \in BillItem : BatchOf[i] = x})

CountInv == SerialInv /\ MovementsOfReturns /\ StockOfMovements

LEMMA RowsHaveLines ==
  ASSUME TypeInv
  PROVE  \A n \in Return : returns[n].lines \in SUBSET Line /\ IsFiniteSet(returns[n].lines)
  BY SentLines DEF TypeInv, LinesSent

LEMMA RequestsHaveLines ==
  ASSUME TypeInv
  PROVE  \A r \in Request : req[r].lines \in SUBSET Line /\ IsFiniteSet(req[r].lines)
  BY SentLines DEF TypeInv, LinesSent

\* What completed returns took back depends on their rows only.
LEMMA SameRowsTakeSame ==
  ASSUME TypeInv, TypeInv', IsFiniteSet(Completed), \A n \in Completed : returns'[n] = returns[n], NEW i
  PROVE  TakenBack(returns', i, Completed) = TakenBack(returns, i, Completed)
<1> DEFINE f == [n \in Return |-> QtyOf(returns[n].lines, i)]
           g == [n \in Return |-> QtyOf(returns'[n].lines, i)]
<1>1. Completed \in SUBSET Return
  BY DEF Completed
<1>2. f \in [Return -> Int]
  BY <1>1, RowsHaveLines, TakenBackIsASum
<1>3. \A n \in Return : returns'[n].lines \in SUBSET Line /\ IsFiniteSet(returns'[n].lines)
  BY RowsHaveLines, SentLines DEF TypeInv, LinesSent
<1>4. g \in [Return -> Int]
  BY <1>1, <1>3, TakenBackIsASum
<1>5. \A n \in Completed : f[n] = g[n]
  BY <1>1
<1> HIDE DEF f, g
<1>6. SumOf(f, Completed) = SumOf(g, Completed)
  BY <1>1, <1>2, <1>4, <1>5, SumOfSame
<1> QED BY <1>6 DEF f, g, TakenBack

LEMMA CountInit == Init => CountInv
<1> SUFFICES ASSUME Init PROVE CountInv
  OBVIOUS
<1>1. Completed = {}
  BY DEF Init, Completed, NoRow
<1>2. DraftsAwait
  BY DEF Init, DraftsAwait, Idle
<1>3. SerialInv
  BY <1>1, <1>2, TypeInit, FS_EmptySet DEF SerialInv
<1>4. MovementsOfReturns
  BY <1>1, SumOfNone DEF Init, MovementsOfReturns, TakenBack
<1>5. ASSUME NEW x \in Batch PROVE stock[x] = InitStock[x] + SumOf(shelved, {i \in BillItem : BatchOf[i] = x})
  <2> DEFINE G == {i \in BillItem : BatchOf[i] = x}
  <2>1. G \in SUBSET BillItem /\ IsFiniteSet(G)
    BY ReturnsAssumption, FS_Subset
  <2>2. shelved \in [BillItem -> Int] /\ \A i \in BillItem : shelved[i] = 0
    BY DEF Init
  <2>3. SumOf(shelved, G) = 0
    BY <2>1, <2>2, SumOfZeros
  <2>4. stock[x] = InitStock[x] /\ InitStock[x] \in Nat
    BY ReturnsAssumption DEF Init
  <2> QED BY <2>3, <2>4
<1> QED BY <1>3, <1>4, <1>5 DEF CountInv, StockOfMovements

\* The commit adds the lines to the movements, and the return to the completed ones.
LEMMA CommitCountsMovements ==
  ASSUME CountInv, SerialInv', NEW r \in Request, Commits(r)
  PROVE  MovementsOfReturns'
<1> DEFINE n == req[r].ret
           C == Completed
<1>1. /\ n \in Return /\ n \notin C /\ C \in SUBSET Return /\ IsFiniteSet(C)
      /\ Completed' = C \union {n}
      /\ TypeInv /\ TypeInv'
  BY DEF Commits, CountInv, SerialInv, Completed
<1>2. \A m \in Return : returns'[m].lines \in SUBSET Line /\ IsFiniteSet(returns'[m].lines)
  BY <1>1, RowsHaveLines, SentLines DEF TypeInv, LinesSent
<1>3. ASSUME NEW i \in BillItem PROVE shelved'[i] = TakenBack(returns', i, Completed')
  <2> DEFINE g == [m \in Return |-> QtyOf(returns'[m].lines, i)]
  <2>1. g \in [Return -> Int]
    BY <1>1, <1>2, TakenBackIsASum
  <2>2. g[n] = QtyOf(req[r].lines, i)
    BY <1>1 DEF Commits
  <2>3. TakenBack(returns', i, C) = SumOf(g, C)
    BY DEF TakenBack
  <2>4. TakenBack(returns', i, C \union {n}) = SumOf(g, C \union {n})
    BY DEF TakenBack
  <2> HIDE DEF g
  <2>5. SumOf(g, C \union {n}) = g[n] + SumOf(g, C)
    BY <1>1, <2>1, SumWithOneMore
  <2>6. TakenBack(returns', i, C) = TakenBack(returns, i, C)
    BY <1>1, SameRowsTakeSame DEF Commits
  <2>7. shelved[i] = TakenBack(returns, i, C)
    BY DEF CountInv, MovementsOfReturns
  <2>8. shelved'[i] = shelved[i] + QtyOf(req[r].lines, i) /\ shelved[i] \in Nat
    BY <1>1 DEF Commits, TypeInv, StockIsCounted
  <2>9. QtyOf(req[r].lines, i) \in Nat
    BY <1>1, RequestsHaveLines, QtyOfIsASum
  <2>10. Completed' = C \union {n}
    BY <1>1
  <2> QED BY <2>2, <2>3, <2>4, <2>5, <2>6, <2>7, <2>8, <2>9, <2>10
<1> QED BY <1>3 DEF MovementsOfReturns

\* A batch gets what its items get.
LEMMA CommitCountsStock ==
  ASSUME CountInv, NEW r \in Request, Commits(r)
  PROVE  StockOfMovements'
<1>1. req[r].lines \in SUBSET Line /\ IsFiniteSet(req[r].lines)
  BY RequestsHaveLines DEF CountInv, SerialInv
<1>2. shelved \in [BillItem -> Int] /\ stock \in [Batch -> Nat] /\ \A i \in BillItem : shelved[i] \in Int
  BY DEF CountInv, SerialInv, TypeInv, StockIsCounted
<1>3. ASSUME NEW x \in Batch
      PROVE  stock'[x] = InitStock[x] + SumOf(shelved', {i \in BillItem : BatchOf[i] = x})
  <2> DEFINE G == {i \in BillItem : BatchOf[i] = x}
             q == [i \in BillItem |-> QtyOf(req[r].lines, i)]
  <2>1. G \in SUBSET BillItem /\ IsFiniteSet(G)
    BY ReturnsAssumption, FS_Subset
  <2>2. ASSUME NEW i \in BillItem PROVE q[i] \in Int
    <3>1. QtyOf(req[r].lines, i) \in Nat
      BY <1>1, QtyOfIsASum
    <3> QED BY <3>1
  <2>3. q \in [BillItem -> Int]
    BY <2>2
  <2>4. SumOf(q, G) = BatchQty(req[r].lines, x)
    BY <1>1, BatchTakesItsItems
  <2>5. shelved' = [i \in BillItem |-> shelved[i] + q[i]] /\ stock'[x] = stock[x] + BatchQty(req[r].lines, x)
    BY DEF Commits
  <2> HIDE DEF q, G
  <2>6. shelved' \in [BillItem -> Int] /\ \A i \in G : shelved'[i] = shelved[i] + q[i]
    BY <1>2, <2>1, <2>2, <2>5
  <2>7. SumOf(shelved', G) = SumOf(shelved, G) + SumOf(q, G)
    BY <1>2, <2>1, <2>3, <2>6, SumOfSums
  <2>8. stock[x] = InitStock[x] + SumOf(shelved, G)
    BY DEF CountInv, StockOfMovements, G
  <2>9. SumOf(shelved, G) \in Int /\ SumOf(q, G) \in Int /\ InitStock[x] \in Int
    BY <1>2, <2>1, <2>3, SumIsInteger, ReturnsAssumption
  <2>10. stock'[x] = InitStock[x] + SumOf(shelved', G)
    BY <2>4, <2>5, <2>7, <2>8, <2>9
  <2> QED BY <2>10 DEF G
<1> QED BY <1>3 DEF StockOfMovements

LEMMA CountInvStep ==
  ASSUME OneRequest, CountInv, [Next]_vars
  PROVE  CountInv'
<1>1. SerialInv'
  <2>1. TypeInv'
    BY NumbersNext, LinesSentStep, StockIsCountedStep DEF CountInv, SerialInv, TypeInv
  <2>2. IsFiniteSet(Completed')
    BY QuietOrCommit, FS_AddElement DEF CountInv, SerialInv, Quiet, Commits
  <2> QED BY <2>1, <2>2, DraftsAwaitStep DEF CountInv, SerialInv
<1>2. CASE Quiet
  <2>1. \A i \in BillItem : TakenBack(returns', i, Completed) = TakenBack(returns, i, Completed)
    BY <1>1, <1>2, SameRowsTakeSame DEF CountInv, SerialInv, Quiet
  <2>2. MovementsOfReturns'
    BY <1>2, <2>1 DEF CountInv, MovementsOfReturns, Quiet
  <2>3. StockOfMovements'
    BY <1>2 DEF CountInv, StockOfMovements, Quiet
  <2> QED BY <1>1, <2>2, <2>3 DEF CountInv
<1>3. ASSUME NEW r \in Request, Commits(r) PROVE CountInv'
  BY <1>1, <1>3, CommitCountsMovements, CommitCountsStock DEF CountInv
<1> QED BY <1>2, <1>3, QuietOrCommit DEF CountInv

LEMMA CountInvariant == OneRequest => (Spec => []CountInv)
<1> SUFFICES ASSUME OneRequest PROVE Spec => []CountInv
  OBVIOUS
<1>1. CountInv /\ [Next]_vars => CountInv'
  BY CountInvStep
<1> QED BY <1>1, CountInit, PTL DEF Spec

\* What CountInv says is what StockMatchesReturns says.
LEMMA CountsMatch == CountInv => StockMatchesReturns
<1> SUFFICES ASSUME CountInv PROVE StockMatchesReturns
  OBVIOUS
<1>1. TypeInv /\ IsFiniteSet(Completed) /\ Completed \in SUBSET Return
  BY DEF CountInv, SerialInv, Completed
<1>2. shelved \in [BillItem -> Nat]
  BY <1>1 DEF TypeInv, StockIsCounted
<1>3. ASSUME NEW i \in BillItem
      PROVE  shelved[i] = MapThenSumSet(LAMBDA n : QtyOf(returns[n].lines, i), Completed)
  <2>1. shelved[i] = TakenBack(returns, i, Completed)
    BY DEF CountInv, MovementsOfReturns
  <2> QED BY <1>1, <2>1, RowsHaveLines, TakenBackIsASum
<1>4. ASSUME NEW x \in Batch
      PROVE  stock[x] = InitStock[x] + MapThenSumSet(LAMBDA i : shelved[i], {i \in BillItem : BatchOf[i] = x})
  <2>1. stock[x] = InitStock[x] + SumOf(shelved, {i \in BillItem : BatchOf[i] = x})
    BY DEF CountInv, StockOfMovements
  <2> QED BY <1>2, <2>1, ShelvedIsASum
<1> QED BY <1>3, <1>4 DEF StockMatchesReturns

\* Stock, movements and completed returns agree for every number of items, lines and returns: the
\* transaction of completeReturn() writes all three or none.
THEOREM StockTellsTheReturns == OneRequest => (Spec => []StockMatchesReturns)
<1> SUFFICES ASSUME OneRequest PROVE Spec => []StockMatchesReturns
  OBVIOUS
<1> QED BY CountsMatch, CountInvariant, PTL

-----------------------------------------------------------------------------
(* What is left to return: each line is checked by itself, so this needs   *)
(* lists with one line per item, which is what the screen sends.           *)

OneLinePerItem == \A d \in Drafts : \A k, l \in d : k.item = l.item => k = l

\* What was checked still fits: nothing else is committed between the check and the commit.
CheckedLinesFit ==
  \A r \in Request : req[r].pc = "commit" =>
    \A l \in req[r].lines : l.qty <= Sold[l.item] - shelved[l.item]

\* The lines take all that is left of each item of their bills.
TakesAll(lines, moved) ==
  \A l \in lines, i \in BillItem : BillOf[i] = BillOf[l.item] =>
    \E k \in lines : k.item = i /\ k.qty >= Sold[i] - moved[i]

FullDraftsTakeAll ==
  /\ \A r \in Request : req[r].pc = "create" /\ req[r].type = "FULL" => TakesAll(req[r].lines, shelved)
  /\ \A n \in Return : returns[n].status = "DRAFT" /\ returns[n].type = "FULL" =>
       TakesAll(returns[n].lines, shelved)

\* Of the bill of a completed full return everything came back.
FullReturnsTookAll ==
  \A n \in Completed : returns[n].type = "FULL" =>
    \A l \in returns[n].lines, i \in BillItem : BillOf[i] = BillOf[l.item] => shelved[i] = Sold[i]

LeftInv == CountInv /\ ReturnedWithinSold /\ CheckedLinesFit /\ FullDraftsTakeAll /\ FullReturnsTookAll

LEMMA CountTypes ==
  ASSUME CountInv
  PROVE  /\ returns \in [Return -> Row] /\ req \in [Request -> Call]
         /\ shelved \in [BillItem -> Nat] /\ stock \in [Batch -> Nat]
         /\ \A r \in Request : req[r].lines \in SUBSET Line
         /\ \A n \in Return : returns[n].lines \in SUBSET Line
  BY RowsHaveLines, RequestsHaveLines DEF CountInv, SerialInv, TypeInv, NumbersInv, RowsOK, StockIsCounted

\* What computeReturnableQty() finds is what was sold less what came back.
LEMMA ReturnableIsLeft ==
  ASSUME CountInv, ReturnedWithinSold, NEW i \in BillItem, NEW e, e \intersect Completed = {}
  PROVE  Returnable(i, e) = Sold[i] - shelved[i]
<1>1. Completed \ e = Completed /\ Completed \in SUBSET Return /\ IsFiniteSet(Completed) /\ TypeInv
  BY DEF CountInv, SerialInv, Completed
<1>2. MapThenSumSet(LAMBDA n : QtyOf(returns[n].lines, i), Completed) = TakenBack(returns, i, Completed)
  BY <1>1, RowsHaveLines, TakenBackIsASum
<1>3. TakenBack(returns, i, Completed) = shelved[i]
  BY DEF CountInv, MovementsOfReturns
<1>4. Sold[i] \in Nat /\ shelved[i] \in Nat /\ shelved[i] <= Sold[i]
  BY <1>1, ReturnsAssumption DEF TypeInv, StockIsCounted, ReturnedWithinSold
<1>5. Returnable(i, e) = IF Sold[i] - shelved[i] < 0 THEN 0 ELSE Sold[i] - shelved[i]
  BY <1>1, <1>2, <1>3 DEF Returnable
<1> QED BY <1>4, <1>5

\* With one line per item, an item comes back with its line or not at all.
LEMMA OneLineIsTheQty ==
  ASSUME NEW lines \in SUBSET Line, IsFiniteSet(lines), \A k, l \in lines : k.item = l.item => k = l
  PROVE  /\ \A l \in lines : QtyOf(lines, l.item) = l.qty
         /\ \A i : (\A l \in lines : l.item # i) => QtyOf(lines, i) = 0
<1> DEFINE f == [l \in lines |-> l.qty]
<1>1. \A l \in lines : l.qty \in Int
  BY DEF Line
<1>2. f \in [lines -> Int]
  BY <1>1
<1>3. ASSUME NEW l \in lines PROVE QtyOf(lines, l.item) = l.qty
  <2>1. {k \in lines : k.item = l.item} = {} \union {l}
    OBVIOUS
  <2>2. QtyOf(lines, l.item) = SumOf(f, {} \union {l})
    BY <2>1, QtyOfIsASum
  <2>3. f[l] = l.qty
    OBVIOUS
  <2> HIDE DEF f
  <2>4. IsFiniteSet({}) /\ {} \in SUBSET lines /\ l \notin {}
    BY FS_EmptySet
  <2>5. SumOf(f, {} \union {l}) = f[l] + SumOf(f, {})
    BY <1>2, <2>4, SumWithOneMore
  <2>6. SumOf(f, {}) = 0
    BY SumOfNone
  <2> QED BY <1>1, <2>2, <2>3, <2>5, <2>6
<1>4. ASSUME NEW i, \A l \in lines : l.item # i PROVE QtyOf(lines, i) = 0
  <2>1. {k \in lines : k.item = i} = {}
    BY <1>4
  <2>2. QtyOf(lines, i) = SumOf(f, {})
    BY <2>1, QtyOfIsASum
  <2> QED BY <2>2, SumOfNone
<1> QED BY <1>3, <1>4

LEMMA LinesOfOneItem ==
  ASSUME OneLinePerItem, TypeInv
  PROVE  /\ \A r \in Request : \A k, l \in req[r].lines : k.item = l.item => k = l
         /\ \A n \in Return : \A k, l \in returns[n].lines : k.item = l.item => k = l
  BY DEF OneLinePerItem, TypeInv, LinesSent

\* A list that takes all keeps doing so as less is left.
LEMMA TakesAllStays ==
  ASSUME NEW lines \in SUBSET Line, NEW moved \in [BillItem -> Nat], NEW more \in [BillItem -> Nat],
         \A i \in BillItem : moved[i] <= more[i], TakesAll(lines, moved)
  PROVE  TakesAll(lines, more)
<1>1. \A i \in BillItem : Sold[i] \in Nat /\ moved[i] \in Nat /\ more[i] \in Nat
  BY ReturnsAssumption
<1>2. \A k \in lines : k.qty \in Nat
  BY DEF Line
<1> QED BY <1>1, <1>2 DEF TakesAll

\* What validateReturnLines() and the type of the draft say of a full return.
LEMMA FullDraftTakesAll ==
  ASSUME OneLinePerItem, CountInv, ReturnedWithinSold, NEW b \in Bill, NEW type \in Type, NEW lines \in Drafts,
         ValidLines(b, type, lines), DraftType(b, type, lines) = "FULL"
  PROVE  TakesAll(lines, shelved)
<1>1. lines \in SUBSET Line /\ IsFiniteSet(lines)
  BY ReturnsAssumption
<1>2. \A l \in lines : l.item \in BillItem /\ BillOf[l.item] = b /\ l.item \in ItemsOf(b) /\ l.qty \in Nat
  BY <1>1 DEF ValidLines, ItemsOf, Line
<1>3. \A i \in BillItem : Sold[i] \in Nat /\ shelved[i] \in Nat
  BY CountTypes, ReturnsAssumption
<1>4. SUFFICES ASSUME NEW i \in BillItem, BillOf[i] = b
               PROVE  \E k \in lines : k.item = i /\ k.qty >= Sold[i] - shelved[i]
  BY <1>2 DEF TakesAll
<1>5. i \in ItemsOf(b)
  BY <1>4 DEF ItemsOf
<1>6. CASE type = "FULL"
  <2>1. PICK l \in FirstLine(lines, i) : l.qty >= Returnable(i, {})
    BY <1>5, <1>6 DEF ValidLines
  <2>2. Returnable(i, {}) = Sold[i] - shelved[i]
    BY ReturnableIsLeft
  <2> QED BY <2>1, <2>2 DEF FirstLine
<1>7. CASE type # "FULL"
  <2>1. Cardinality(lines) = Cardinality(ItemsOf(b)) /\ \A l \in lines : l.qty >= Sold[l.item]
    BY <1>7 DEF DraftType
  <2> DEFINE of == [l \in lines |-> l.item]
             items == {l.item : l \in lines}
  <2>2. IsFiniteSet(ItemsOf(b)) /\ items \in SUBSET ItemsOf(b)
    BY <1>2, ReturnsAssumption, FS_Subset DEF ItemsOf
  <2>3. of \in Bijection(lines, items)
    BY DEF Bijection, Injection, Surjection, IsInjective, OneLinePerItem
  <2>4. IsFiniteSet(items) /\ Cardinality(items) = Cardinality(lines)
    BY <1>1, <2>3, FS_Bijection DEF ExistsBijection
  <2>5. items = ItemsOf(b)
    BY <2>1, <2>2, <2>4, FS_Subset
  <2>6. PICK k \in lines : k.item = i
    BY <1>5, <2>5
  <2> QED BY <1>2, <1>3, <2>1, <2>6
<1> QED BY <1>6, <1>7

LEMMA LeftInit == Init => LeftInv
<1> SUFFICES ASSUME Init PROVE LeftInv
  OBVIOUS
<1>1. Completed = {} /\ \A n \in Return : returns[n].status = "none"
  BY DEF Init, Completed, NoRow
<1>2. \A r \in Request : req[r].pc = "idle"
  BY DEF Init, Idle
<1>3. \A i \in BillItem : shelved[i] = 0 /\ Sold[i] \in Nat
  BY ReturnsAssumption DEF Init
<1>4. ReturnedWithinSold
  BY <1>3 DEF ReturnedWithinSold
<1>5. CheckedLinesFit /\ FullDraftsTakeAll /\ FullReturnsTookAll
  BY <1>1, <1>2 DEF CheckedLinesFit, FullDraftsTakeAll, FullReturnsTookAll
<1> QED BY <1>4, <1>5, CountInit DEF LeftInv

\* The commit, of lines that fit: no item gets more than its one line.
LEMMA CommitStaysWithin ==
  ASSUME OneLinePerItem, LeftInv, NEW r \in Request, Commits(r)
  PROVE  /\ ReturnedWithinSold'
         /\ \A i \in BillItem : shelved[i] <= shelved'[i]
         /\ \A l \in req[r].lines : l.item \in BillItem /\ shelved'[l.item] = shelved[l.item] + l.qty
<1> DEFINE lines == req[r].lines
<1>1. /\ lines \in SUBSET Line /\ IsFiniteSet(lines)
      /\ \A k, l \in lines : k.item = l.item => k = l
  BY RequestsHaveLines, LinesOfOneItem DEF LeftInv, CountInv, SerialInv
<1>2. /\ \A l \in lines : QtyOf(lines, l.item) = l.qty
      /\ \A i : (\A l \in lines : l.item # i) => QtyOf(lines, i) = 0
  BY <1>1, OneLineIsTheQty
<1>3. \A l \in lines : l.item \in BillItem /\ l.qty \in Nat /\ l.qty <= Sold[l.item] - shelved[l.item]
  BY <1>1 DEF LeftInv, CheckedLinesFit, Commits, Line
<1>4. \A i \in BillItem : /\ shelved[i] \in Nat /\ Sold[i] \in Nat /\ shelved[i] <= Sold[i]
                          /\ shelved'[i] = shelved[i] + QtyOf(lines, i)
  BY CountTypes, ReturnsAssumption DEF LeftInv, ReturnedWithinSold, Commits
<1> HIDE DEF lines
<1>5. ASSUME NEW i \in BillItem PROVE shelved[i] <= shelved'[i] /\ shelved'[i] <= Sold[i]
  <2>1. CASE \A l \in lines : l.item # i
    BY <1>2, <1>4, <2>1
  <2>2. CASE \E l \in lines : l.item = i
    BY <1>2, <1>3, <1>4, <2>2
  <2> QED BY <2>1, <2>2
<1>6. \A l \in lines : l.item \in BillItem /\ shelved'[l.item] = shelved[l.item] + l.qty
  BY <1>2, <1>3, <1>4
<1> QED BY <1>5, <1>6 DEF lines, ReturnedWithinSold

\* A full return that is committed leaves nothing; the earlier ones keep what they have.
LEMMA CommitTakesAll ==
  ASSUME OneLinePerItem, LeftInv, CountInv', NEW r \in Request, Commits(r)
  PROVE  FullReturnsTookAll'
<1> DEFINE n == req[r].ret
           lines == req[r].lines
<1>1. /\ ReturnedWithinSold'
      /\ \A i \in BillItem : shelved[i] <= shelved'[i]
      /\ \A l \in lines : l.item \in BillItem /\ shelved'[l.item] = shelved[l.item] + l.qty
  BY CommitStaysWithin
<1>2. /\ n \in Return /\ returns[n].status = "DRAFT" /\ lines = returns[n].lines
      /\ \A l \in lines : l.qty \in Nat /\ l.qty <= Sold[l.item] - shelved[l.item]
  BY CountTypes DEF LeftInv, CountInv, SerialInv, DraftsAwait, CheckedLinesFit, Commits, Line
<1>3. \A i \in BillItem : shelved[i] \in Nat /\ shelved'[i] \in Nat /\ Sold[i] \in Nat /\ shelved'[i] <= Sold[i]
  BY <1>1, CountTypes, ReturnsAssumption DEF LeftInv, CountInv, SerialInv, TypeInv, StockIsCounted, ReturnedWithinSold
<1>4. /\ Completed' = Completed \union {n}
      /\ \A m \in Completed : returns'[m] = returns[m]
      /\ returns'[n].lines = lines /\ returns'[n].type = returns[n].type
  BY DEF Commits
<1>5. ASSUME NEW m \in Completed, returns[m].type = "FULL", NEW l \in returns[m].lines,
             NEW i \in BillItem, BillOf[i] = BillOf[l.item]
      PROVE  shelved'[i] = Sold[i]
  <2>1. shelved[i] = Sold[i]
    BY <1>5 DEF LeftInv, FullReturnsTookAll
  <2>2. shelved[i] <= shelved'[i] /\ shelved'[i] <= Sold[i]
    BY <1>1, <1>3
  <2> QED BY <1>3, <2>1, <2>2
<1>6. ASSUME returns[n].type = "FULL", NEW l \in lines, NEW i \in BillItem, BillOf[i] = BillOf[l.item]
      PROVE  shelved'[i] = Sold[i]
  <2>1. PICK k \in lines : k.item = i /\ k.qty >= Sold[i] - shelved[i]
    BY <1>2, <1>6 DEF LeftInv, FullDraftsTakeAll, TakesAll
  <2>2. k.qty \in Nat /\ k.qty <= Sold[i] - shelved[i] /\ shelved'[i] = shelved[i] + k.qty
    BY <1>1, <1>2, <2>1
  <2> QED BY <1>3, <2>1, <2>2
<1> HIDE DEF n, lines
<1> QED BY <1>4, <1>5, <1>6 DEF FullReturnsTookAll

\* A step after which no request is under way, and of each draft the row was there before.
LEMMA LeftIdleStep ==
  ASSUME LeftInv, CountInv', \A i \in BillItem : shelved[i] <= shelved'[i],
         \A r \in Request : req'[r].pc = "idle",
         \A n \in Return : returns'[n].status = "DRAFT" /\ returns'[n].type = "FULL" =>
           TakesAll(returns'[n].lines, shelved)
  PROVE  CheckedLinesFit' /\ FullDraftsTakeAll'
<1>1. CheckedLinesFit'
  BY DEF CheckedLinesFit
<1>2. shelved \in [BillItem -> Nat] /\ shelved' \in [BillItem -> Nat]
  BY DEF LeftInv, CountInv, SerialInv, TypeInv, StockIsCounted
<1>3. \A n \in Return : returns'[n].lines \in SUBSET Line
  BY SentLines DEF CountInv, SerialInv, TypeInv, LinesSent
<1>4. \A n \in Return : returns'[n].status = "DRAFT" /\ returns'[n].type = "FULL" =>
        TakesAll(returns'[n].lines, shelved')
  BY <1>2, <1>3, TakesAllStays
<1> QED BY <1>1, <1>4 DEF FullDraftsTakeAll

\* A step that only gives a request the state c.
LEMMA LeftCallStep ==
  ASSUME OneRequest, LeftInv, NEW r \in Request, NEW c, req' = [req EXCEPT ![r] = c],
         UNCHANGED <<returns, shelved>>,
         c.pc = "commit" => \A l \in c.lines : l.qty <= Sold[l.item] - shelved[l.item],
         c.pc = "create" /\ c.type = "FULL" => TakesAll(c.lines, shelved)
  PROVE  CheckedLinesFit' /\ FullDraftsTakeAll'
<1>1. \A s \in Request : req'[s] = c
  BY CountTypes DEF LeftInv, OneRequest
<1> QED BY <1>1 DEF LeftInv, CheckedLinesFit, FullDraftsTakeAll

LEMMA LeftStep ==
  ASSUME OneRequest, OneLinePerItem, LeftInv, CountInv', [Next]_vars
  PROVE  CheckedLinesFit' /\ FullDraftsTakeAll'
<1>1. /\ returns \in [Return -> Row] /\ req \in [Request -> Call]
      /\ \A i \in BillItem : shelved[i] \in Nat
  BY CountTypes DEF LeftInv
<1>2. Idle.pc = "idle"
  BY DEF Idle
<1>3. ASSUME NEW r \in Request, req' = [req EXCEPT ![r] = Idle] PROVE \A s \in Request : req'[s].pc = "idle"
  BY <1>1, <1>2, <1>3 DEF OneRequest
<1>4. CASE UNCHANGED vars
  BY <1>4 DEF vars, LeftInv, CheckedLinesFit, FullDraftsTakeAll
<1>5. ASSUME NEW r \in Request, NEW b \in Bill, NEW type \in Type, NEW lines \in Drafts,
             CreateReturn(r, b, type, lines)
      PROVE  CheckedLinesFit' /\ FullDraftsTakeAll'
  <2> DEFINE c == [Idle EXCEPT !.pc = "create", !.lines = lines, !.type = DraftType(b, type, lines)]
  <2>1. c.pc = "create" /\ c.lines = lines /\ c.type = DraftType(b, type, lines)
    BY DEF Idle
  <2>2. req' = [req EXCEPT ![r] = c] /\ UNCHANGED <<returns, shelved>> /\ ValidLines(b, type, lines)
    BY <1>5 DEF CreateReturn
  <2> HIDE DEF c
  <2>3. c.type = "FULL" => TakesAll(c.lines, shelved)
    BY <2>1, <2>2, FullDraftTakesAll DEF LeftInv
  <2> QED BY <2>1, <2>2, <2>3, LeftCallStep
<1>6. ASSUME NEW r \in Request, NEW n \in Return, CompleteReturn(r, n) \/ CancelReturn(r, n)
      PROVE  CheckedLinesFit' /\ FullDraftsTakeAll'
  <2> DEFINE c == [Idle EXCEPT !.pc = "check", !.ret = n, !.lines = returns[n].lines]
             d == [Idle EXCEPT !.pc = "cancel", !.ret = n]
  <2>1. c.pc = "check" /\ d.pc = "cancel"
    BY DEF Idle
  <2>2. (req' = [req EXCEPT ![r] = c] \/ req' = [req EXCEPT ![r] = d]) /\ UNCHANGED <<returns, shelved>>
    BY <1>6 DEF CompleteReturn, CancelReturn
  <2> HIDE DEF c, d
  <2> QED BY <2>1, <2>2, LeftCallStep
<1>7. ASSUME NEW r \in Request, CheckReturnable(r) PROVE CheckedLinesFit' /\ FullDraftsTakeAll'
  <2> DEFINE go == [req[r] EXCEPT !.pc = "commit"]
             fits == \A l \in req[r].lines : l.qty <= Returnable(l.item, {req[r].ret})
  <2>1. go.lines = req[r].lines /\ go.pc = "commit"
    BY <1>1 DEF Call
  <2>2. req[r].pc = "check" /\ UNCHANGED <<returns, shelved>>
    BY <1>7 DEF CheckReturnable
  <2>3. req' = [req EXCEPT ![r] = IF fits THEN go ELSE Idle]
    BY <1>1, <1>7 DEF CheckReturnable
  <2>4. returns[req[r].ret].status = "DRAFT"
    BY <2>2 DEF LeftInv, CountInv, SerialInv, DraftsAwait
  <2>5. {req[r].ret} \intersect Completed = {}
    BY <2>4 DEF Completed
  <2>6. \A l \in req[r].lines : l.item \in BillItem
    BY CountTypes DEF LeftInv, Line
  <2>7. \A l \in req[r].lines : Returnable(l.item, {req[r].ret}) = Sold[l.item] - shelved[l.item]
    BY <2>5, <2>6, ReturnableIsLeft DEF LeftInv
  <2>8. fits => \A l \in go.lines : l.qty <= Sold[l.item] - shelved[l.item]
    BY <2>1, <2>7
  <2> HIDE DEF go, fits
  <2>9. CASE fits
    BY <2>1, <2>2, <2>3, <2>8, <2>9, LeftCallStep
  <2>10. CASE ~fits
    BY <1>2, <2>2, <2>3, <2>10, LeftCallStep
  <2> QED BY <2>9, <2>10
<1>8. ASSUME NEW r \in Request, InsertDraft(r) PROVE CheckedLinesFit' /\ FullDraftsTakeAll'
  <2>1. PICK n \in Return :
          returns' = [returns EXCEPT ![n] = [NoRow EXCEPT !.status = "DRAFT", !.type = req[r].type,
                                                             !.lines = req[r].lines]]
    BY <1>8 DEF InsertDraft
  <2> DEFINE d == [NoRow EXCEPT !.status = "DRAFT", !.type = req[r].type, !.lines = req[r].lines]
  <2>2. d.lines = req[r].lines /\ d.type = req[r].type
    BY DEF NoRow
  <2>3. /\ returns' = [returns EXCEPT ![n] = d] /\ req' = [req EXCEPT ![r] = Idle]
        /\ UNCHANGED shelved /\ req[r].pc = "create"
    BY <1>8, <2>1 DEF InsertDraft
  <2> HIDE DEF d
  <2>4. \A m \in Return : returns'[m].status = "DRAFT" /\ returns'[m].type = "FULL" =>
          TakesAll(returns'[m].lines, shelved)
    BY <1>1, <2>2, <2>3 DEF LeftInv, FullDraftsTakeAll
  <2>5. \A i \in BillItem : shelved[i] <= shelved'[i]
    BY <1>1, <2>3
  <2>6. \A s \in Request : req'[s].pc = "idle"
    BY <1>3, <2>3
  <2> QED BY <2>4, <2>5, <2>6, LeftIdleStep
<1>9. ASSUME NEW r \in Request, CommitReturn(r), Commits(r) PROVE CheckedLinesFit' /\ FullDraftsTakeAll'
  <2>1. \A i \in BillItem : shelved[i] <= shelved'[i]
    BY <1>9, CommitStaysWithin
  <2>2. req' = [req EXCEPT ![r] = Idle]
    BY <1>9 DEF CommitReturn
  <2>3. \A m \in Return : returns'[m].status = "DRAFT" => returns'[m] = returns[m]
    BY <1>1, <1>9 DEF CommitReturn, Row
  <2>4. \A m \in Return : returns'[m].status = "DRAFT" /\ returns'[m].type = "FULL" =>
          TakesAll(returns'[m].lines, shelved)
    BY <2>3 DEF LeftInv, FullDraftsTakeAll
  <2> QED BY <1>3, <2>1, <2>2, <2>4, LeftIdleStep
<1>10. ASSUME NEW r \in Request, WriteCancelled(r) PROVE CheckedLinesFit' /\ FullDraftsTakeAll'
  <2>1. UNCHANGED shelved /\ req' = [req EXCEPT ![r] = Idle]
    BY <1>10 DEF WriteCancelled
  <2>2. \A m \in Return : returns'[m].status = "DRAFT" => returns'[m] = returns[m]
    BY <1>1, <1>10 DEF WriteCancelled, Row
  <2>3. \A m \in Return : returns'[m].status = "DRAFT" /\ returns'[m].type = "FULL" =>
          TakesAll(returns'[m].lines, shelved)
    BY <2>2 DEF LeftInv, FullDraftsTakeAll
  <2>4. \A i \in BillItem : shelved[i] <= shelved'[i]
    BY <1>1, <2>1
  <2>5. \A s \in Request : req'[s].pc = "idle"
    BY <1>3, <2>1
  <2> QED BY <2>3, <2>4, <2>5, LeftIdleStep
<1>11. ASSUME NEW r \in Request, FailRequest(r) PROVE CheckedLinesFit' /\ FullDraftsTakeAll'
  BY <1>2, <1>11, LeftCallStep DEF FailRequest
<1>12. ASSUME NEW r \in Request, CommitReturn(r) PROVE Commits(r)
  BY <1>12, CommitStep DEF LeftInv, CountInv
<1> QED BY <1>4, <1>5, <1>6, <1>7, <1>8, <1>9, <1>10, <1>11, <1>12 DEF Next

LEMMA LeftInvariant == OneRequest /\ OneLinePerItem => (Spec => []LeftInv)
<1> SUFFICES ASSUME OneRequest, OneLinePerItem PROVE Spec => []LeftInv
  OBVIOUS
<1>1. LeftInv /\ [Next]_vars => LeftInv'
  <2> SUFFICES ASSUME LeftInv, [Next]_vars PROVE LeftInv'
    OBVIOUS
  <2>1. CountInv'
    BY CountInvStep DEF LeftInv
  <2>2. CheckedLinesFit' /\ FullDraftsTakeAll'
    BY <2>1, LeftStep
  <2>3. CASE Quiet
    <3>1. ReturnedWithinSold'
      BY <2>3 DEF Quiet, LeftInv, ReturnedWithinSold
    <3>2. FullReturnsTookAll'
      BY <2>3 DEF Quiet, LeftInv, FullReturnsTookAll
    <3> QED BY <2>1, <2>2, <3>1, <3>2 DEF LeftInv
  <2>4. ASSUME NEW r \in Request, Commits(r) PROVE LeftInv'
    BY <2>1, <2>2, <2>4, CommitStaysWithin, CommitTakesAll DEF LeftInv
  <2> QED BY <2>3, <2>4, QuietOrCommit DEF LeftInv, CountInv
<1> QED BY <1>1, LeftInit, PTL DEF Spec

\* Nobody brings back more than was bought, however many drafts were open side by side when they
\* were checked: completeReturn() checks each draft against what is left by then.
THEOREM ReturnsStayWithinSales == OneRequest /\ OneLinePerItem => (Spec => []ReturnedWithinSold)
<1> SUFFICES ASSUME OneRequest, OneLinePerItem PROVE Spec => []ReturnedWithinSold
  OBVIOUS
<1>1. LeftInv => ReturnedWithinSold
  BY DEF LeftInv
<1> QED BY <1>1, LeftInvariant, PTL

\* A completed return that calls itself FULL left nothing of its bill to return, also when it is FULL
\* only because it had as many lines as the bill, and although other returns came in between.
THEOREM FullReturnsLeaveNothing == OneRequest /\ OneLinePerItem => (Spec => []FullReturnLeavesNothing)
<1> SUFFICES ASSUME OneRequest, OneLinePerItem PROVE Spec => []FullReturnLeavesNothing
  OBVIOUS
<1>1. LeftInv => FullReturnLeavesNothing
  <2> SUFFICES ASSUME LeftInv, NEW n \in Completed, returns[n].type = "FULL",
                      NEW l \in returns[n].lines, NEW i \in BillItem, BillOf[i] = BillOf[l.item]
               PROVE  Returnable(i, {}) = 0
    BY DEF FullReturnLeavesNothing
  <2>1. shelved[i] = Sold[i] /\ Sold[i] \in Nat
    BY ReturnsAssumption DEF LeftInv, FullReturnsTookAll
  <2>2. Returnable(i, {}) = Sold[i] - shelved[i]
    BY ReturnableIsLeft DEF LeftInv
  <2> QED BY <2>1, <2>2
<1> QED BY <1>1, LeftInvariant, PTL
=============================================================================
