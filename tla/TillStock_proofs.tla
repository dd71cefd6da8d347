-------------------------- MODULE TillStock_proofs --------------------------
(***************************************************************************)
(* Proofs about what the till knows of products and stock: which shortages *)
(* the screens show (StockMirror), for every finite set of counters, and   *)
(* what batch a line names (ProductFinder), for all finite catalogues; and *)
(* that what is proved of the parts of the till holds of them together.    *)
(***************************************************************************)
EXTENDS MCTill, TillScreens_proofs, TillMoney_proofs, SetLemmas, FiniteSetTheorems, SequenceTheorems,
        WellFoundedInduction, TLAPS

-----------------------------------------------------------------------------
(* The order of the open lines.                                            *)

Distinct(s) == \A i, j \in DOMAIN s : s[i] = s[j] => i = j
Precedes(s, b, c) == \E j, k \in DOMAIN s : s[j] = b /\ s[k] = c /\ j < k

LEMMA BeforeIs ==
  ASSUME NEW c PROVE Before(c) = {b \in ToSet(oldest) : Precedes(oldest, b, c)}
  BY DEF Before, Precedes, ToSet

LEMMA RemoveAtIs ==
  ASSUME NEW S, NEW s \in Seq(S), NEW n \in DOMAIN s
  PROVE  /\ RemoveAt(s, n) \in Seq(S)
         /\ DOMAIN RemoveAt(s, n) = 1 .. Len(s) - 1 /\ Len(RemoveAt(s, n)) = Len(s) - 1
         /\ \A i \in 1 .. Len(s) - 1 : RemoveAt(s, n)[i] = IF i < n THEN s[i] ELSE s[i + 1]
<1> DEFINE a == SubSeq(s, 1, n - 1)
           b == SubSeq(s, n + 1, Len(s))
<1>1. Len(s) \in Nat /\ DOMAIN s = 1 .. Len(s) /\ n \in 1 .. Len(s) /\ \A i \in 1 .. Len(s) : s[i] \in S
  OBVIOUS
<1>2. /\ a \in Seq(S) /\ Len(a) = n - 1
      /\ \A i \in 1 .. n - 1 : a[i] = s[i]
  <2>1. 1 \in Int /\ n - 1 \in Int /\ \A i \in 1 .. n - 1 : s[i] \in S
    BY <1>1
  <2>2. /\ a \in Seq(S) /\ Len(a) = IF 1 <= n - 1 THEN (n - 1) - 1 + 1 ELSE 0
        /\ \A i \in 1 .. (n - 1) - 1 + 1 : a[i] = s[1 + i - 1]
    BY <2>1, SubSeqProperties
  <2> QED BY <1>1, <2>2
<1>3. /\ b \in Seq(S) /\ Len(b) = Len(s) - n
      /\ \A i \in 1 .. Len(s) - n : b[i] = s[n + i]
  <2>1. n + 1 \in Int /\ Len(s) \in Int /\ \A i \in n + 1 .. Len(s) : s[i] \in S
    BY <1>1
  <2>2. /\ b \in Seq(S) /\ Len(b) = IF n + 1 <= Len(s) THEN Len(s) - (n + 1) + 1 ELSE 0
        /\ \A i \in 1 .. Len(s) - (n + 1) + 1 : b[i] = s[(n + 1) + i - 1]
    BY <2>1, SubSeqProperties
  <2>3. Len(s) - (n + 1) + 1 = Len(s) - n /\ Len(b) = Len(s) - n
    BY <1>1, <2>2
  <2>4. ASSUME NEW i \in 1 .. Len(s) - n PROVE b[i] = s[n + i]
    <3>1. (n + 1) + i - 1 = n + i
      BY <1>1
    <3> QED BY <2>2, <2>3, <3>1
  <2> QED BY <2>2, <2>3, <2>4
<1> HIDE DEF a, b
<1>4. RemoveAt(s, n) = a \o b
  BY DEF RemoveAt, a, b
<1>5. /\ a \o b \in Seq(S) /\ Len(a \o b) = Len(s) - 1
      /\ \A i \in 1 .. Len(s) - 1 : (a \o b)[i] = IF i <= n - 1 THEN a[i] ELSE b[i - (n - 1)]
  <2>1. Len(a) + Len(b) = Len(s) - 1
    BY <1>1, <1>2, <1>3
  <2>2. /\ a \o b \in Seq(S) /\ Len(a \o b) = Len(a) + Len(b)
        /\ \A i \in 1 .. Len(a) + Len(b) : (a \o b)[i] = IF i <= Len(a) THEN a[i] ELSE b[i - Len(a)]
    BY <1>2, <1>3, ConcatProperties
  <2> QED BY <1>2, <2>1, <2>2
<1>6. ASSUME NEW i \in 1 .. Len(s) - 1
      PROVE  (a \o b)[i] = IF i < n THEN s[i] ELSE s[i + 1]
  <2>1. CASE i < n
    BY <1>1, <1>2, <1>5, <2>1
  <2>2. CASE ~(i < n)
    <3>1. i - (n - 1) \in 1 .. Len(s) - n /\ n + (i - (n - 1)) = i + 1
      BY <1>1, <2>2
    <3> QED BY <1>1, <1>3, <1>5, <2>2, <3>1
  <2> QED BY <2>1, <2>2
<1>7. DOMAIN (a \o b) = 1 .. Len(s) - 1
  BY <1>5, LenProperties
<1> QED BY <1>4, <1>5, <1>6, <1>7

\* The first place of c, and the sequence without c.
LEMMA RemoveFirstIs ==
  ASSUME NEW S, NEW s \in Seq(S), NEW c, c \in ToSet(s)
  PROVE  \E n \in DOMAIN s : s[n] = c /\ RemoveFirst(s, c) = RemoveAt(s, n)
<1> DEFINE I == {i \in 1 .. Len(s) : s[i] = c}
<1>1. Len(s) \in Nat /\ DOMAIN s = 1 .. Len(s) /\ I # {} /\ I \in SUBSET Nat
  BY DEF ToSet
<1>2. Min(I) \in I
  <2>1. \E n \in I : \A m \in I : n <= m
    BY <1>1, SmallestNumber
  <2> QED BY <2>1 DEF Min
<1>3. RemoveFirst(s, c) = RemoveAt(s, Min(I))
  BY <1>1 DEF RemoveFirst, SelectInSeq
<1> QED BY <1>1, <1>2, <1>3

LEMMA WithoutFirst ==
  ASSUME NEW S, NEW s \in Seq(S), Distinct(s), NEW c, NEW t, t = RemoveFirst(s, c)
  PROVE  /\ t \in Seq(S) /\ Distinct(t) /\ ToSet(t) = ToSet(s) \ {c}
         /\ \A a, b : Precedes(t, a, b) <=> Precedes(s, a, b) /\ a # c /\ b # c
<1>1. CASE c \notin ToSet(s)
  <2>1. t = s
    BY <1>1 DEF RemoveFirst, ToSet
  <2>2. \A a, b : Precedes(s, a, b) => a # c /\ b # c
    BY <1>1 DEF Precedes, ToSet
  <2> QED BY <1>1, <2>1, <2>2
<1>2. CASE c \in ToSet(s)
  <2>1. PICK n \in DOMAIN s : s[n] = c /\ t = RemoveAt(s, n)
    BY <1>2, RemoveFirstIs
  <2>2. /\ t \in Seq(S) /\ DOMAIN t = 1 .. Len(s) - 1
        /\ \A i \in 1 .. Len(s) - 1 : t[i] = IF i < n THEN s[i] ELSE s[i + 1]
    BY <2>1, RemoveAtIs
  <2>3. Len(s) \in Nat /\ DOMAIN s = 1 .. Len(s) /\ n \in 1 .. Len(s)
    OBVIOUS
  <2> DEFINE from(i) == IF i < n THEN i ELSE i + 1      \* where t[i] is in s ...
             to(j) == IF j < n THEN j ELSE j - 1      \* ... and s[j] in t
  <2>4. \A i \in DOMAIN t : from(i) \in DOMAIN s /\ from(i) # n /\ t[i] = s[from(i)]
    BY <2>2, <2>3
  <2>5. \A j \in DOMAIN s : j # n => to(j) \in DOMAIN t /\ from(to(j)) = j
    BY <2>2, <2>3
  <2>6. \A i, k \in DOMAIN t : (i < k <=> from(i) < from(k)) /\ (from(i) = from(k) => i = k)
    BY <2>2, <2>3
  <2>7. \A j \in DOMAIN s : s[j] = c => j = n
    BY <2>1 DEF Distinct
  <2>8. \A j \in DOMAIN s : j # n => to(j) \in DOMAIN t /\ t[to(j)] = s[j]
    BY <2>4, <2>5
  <2>9. \A j, k \in DOMAIN s : j # n /\ k # n /\ j < k => to(j) < to(k)
    BY <2>3
  <2> HIDE DEF from, to
  <2>10. Distinct(t)
    BY <2>4, <2>6 DEF Distinct
  <2>11. ToSet(t) = ToSet(s) \ {c}
    BY <2>1, <2>4, <2>7, <2>8 DEF ToSet
  <2>12. ASSUME NEW a, NEW b, Precedes(t, a, b) PROVE Precedes(s, a, b) /\ a # c /\ b # c
    <3>1. PICK i, k \in DOMAIN t : t[i] = a /\ t[k] = b /\ i < k
      BY <2>12 DEF Precedes
    <3>2. from(i) \in DOMAIN s /\ from(k) \in DOMAIN s /\ s[from(i)] = a /\ s[from(k)] = b /\ from(i) < from(k)
      BY <2>4, <2>6, <3>1
    <3>3. a # c /\ b # c
      BY <2>4, <2>7, <3>1
    <3> QED BY <3>2, <3>3 DEF Precedes
  <2>13. ASSUME NEW a, NEW b, Precedes(s, a, b), a # c, b # c PROVE Precedes(t, a, b)
    <3>1. PICK j, k \in DOMAIN s : s[j] = a /\ s[k] = b /\ j < k
      BY <2>13 DEF Precedes
    <3>2. j # n /\ k # n
      BY <2>1, <2>13, <3>1
    <3>3. to(j) \in DOMAIN t /\ to(k) \in DOMAIN t /\ t[to(j)] = a /\ t[to(k)] = b /\ to(j) < to(k)
      BY <2>8, <2>9, <3>1, <3>2
    <3> QED BY <3>3 DEF Precedes
  <2> QED BY <2>2, <2>10, <2>11, <2>12, <2>13
<1> QED BY <1>1, <1>2

LEMMA WithLast ==
  ASSUME NEW S, NEW s \in Seq(S), Distinct(s), NEW c \in S, c \notin ToSet(s)
  PROVE  s \o <<c>> \in Seq(S) /\ Distinct(s \o <<c>>) /\ ToSet(s \o <<c>>) = ToSet(s) \union {c}
<1> DEFINE t == s \o <<c>>
<1>1. /\ Len(s) \in Nat /\ DOMAIN s = 1 .. Len(s)
      /\ t \in Seq(S) /\ DOMAIN t = 1 .. Len(s) + 1
      /\ \A i \in DOMAIN t : t[i] = IF i = Len(s) + 1 THEN c ELSE s[i]
  OBVIOUS
<1> HIDE DEF t
<1>2. \A i \in DOMAIN t : i # Len(s) + 1 => i \in DOMAIN s
  BY <1>1
<1>3. Distinct(t)
  BY <1>1, <1>2 DEF Distinct, ToSet
<1>4. ToSet(t) = ToSet(s) \union {c}
  <2>1. Len(s) + 1 \in DOMAIN t /\ \A i \in DOMAIN s : i \in DOMAIN t /\ i # Len(s) + 1
    BY <1>1
  <2> QED BY <1>1, <1>2, <2>1 DEF ToSet
<1> QED BY <1>1, <1>3, <1>4 DEF t

-----------------------------------------------------------------------------
(* StockMirror.  Its types: every operation works for a counter, and the   *)
(* pending quantity never exceeds what is in stock.                        *)

News == [line : Counter \union {NoOne}, short : BOOLEAN, free : BOOLEAN]
OpRecord == [who : Counter \union {NoOne}, at : {"idle", "release", "released", "reserve", "reserved", "reconcile", "answer"},
             kind : {"none", "scan", "edit", "remove"}, qty : 0 .. MaxWant, set : Int]

RowOK == row \in [stock : 0 .. Stock, pend : Int] /\ row.pend <= row.stock
LinesOK ==
  /\ want \in [Counter -> 0 .. MaxWant]
  /\ oldest \in Seq(Counter) /\ Distinct(oldest) /\ ToSet(oldest) = {c \in Counter : want[c] > 0}
OpOK ==
  /\ op \in OpRecord
  /\ op # NoOp => op.who \in Counter /\ op.at # "idle"
ScreensOK ==
  /\ pushed \in [Counter -> Seq(News)] /\ alerts \in [Counter -> SUBSET Counter]
  /\ missed \in SUBSET Counter /\ paying \in SUBSET Counter
  /\ said \in [Counter -> {"none", "free", "tight", "short"}]

MirrorRecords == RowOK /\ LinesOK /\ OpOK /\ ScreensOK /\ mirror \in Int

\* What a screen will show of d when it has received all that is on its way: what the last
\* snapshot that says something of d makes of it, or else what it shows now.
Tells(news, d) == news.free \/ news.line = d
Shows(known, ns, d) ==
  LET last == {i \in DOMAIN ns : Tells(ns[i], d)}
  IN IF last = {} THEN d \in known
     ELSE \E i \in last : (\A j \in last : j <= i) /\ ~ns[i].free /\ ns[i].short
WillShow(c) == {d \in Counter : Shows(alerts[c], pushed[c], d)}

\* No operation is between its transactions.
OpAtRest == op.at \in {"idle", "answer"}

\* A screen that has missed nothing comes to show open lines only, ...
ShowsOpenLines == \A c \in Counter \ missed : WillShow(c) \subseteq {d \in Counter : want[d] > 0}
\* ... its own line if that is short, and no line that is not short.
ShowsOwnShortage == OpAtRest => \A c \in Counter \ missed : IsShort(row, want, c) => c \in WillShow(c)
ShowsTrueShortages == OpAtRest => \A c \in Counter \ missed : \A d \in WillShow(c) : IsShort(row, want, d)

MirrorInv == MirrorRecords /\ ShowsOpenLines /\ ShowsOwnShortage /\ ShowsTrueShortages

-----------------------------------------------------------------------------
(* What a screen will show, as snapshots are published and received.       *)

\* Of finitely many numbers there is a last.
LEMMA LastOfSome ==
  ASSUME NEW n \in Nat, NEW I \in SUBSET (1 .. n), I # {}
  PROVE  \E i \in I : \A j \in I : j <= i
<1> DEFINE Bad == {n - i : i \in I}
<1>1. Bad \in SUBSET Nat /\ Bad # {}
  <2>1. \A i \in I : n - i \in Nat
    OBVIOUS
  <2> QED BY <2>1
<1> HIDE DEF Bad
<1>2. PICK m \in Bad : \A k \in Bad : m <= k
  BY <1>1, SmallestNumber
<1>3. PICK i \in I : m = n - i
  BY <1>2 DEF Bad
<1>4. \A j \in I : n - i <= n - j
  BY <1>2, <1>3 DEF Bad
<1>5. \A j \in I : j <= i
  BY <1>4
<1> QED BY <1>5

\* Snapshots that are added decide of the lines they tell something of.
LEMMA ShowsAfterPush ==
  ASSUME NEW known, NEW ns \in Seq(News), NEW ms \in Seq(News), NEW d
  PROVE  Shows(known, ns \o ms, d)
           <=> IF \E i \in DOMAIN ms : Tells(ms[i], d) THEN Shows({}, ms, d) ELSE Shows(known, ns, d)
<1> DEFINE t == ns \o ms
           n == Len(ns)
           told == {i \in DOMAIN t : Tells(t[i], d)}
           early == {i \in DOMAIN ns : Tells(ns[i], d)}
           late == {i \in DOMAIN ms : Tells(ms[i], d)}
<1>1. /\ n \in Nat /\ Len(ms) \in Nat /\ DOMAIN ns = 1 .. n /\ DOMAIN ms = 1 .. Len(ms)
      /\ DOMAIN t = 1 .. n + Len(ms)
      /\ \A i \in 1 .. n : t[i] = ns[i]
      /\ \A i \in 1 .. Len(ms) : t[n + i] = ms[i]
  <2>1. /\ t \in Seq(News) /\ Len(t) = n + Len(ms)
        /\ \A i \in 1 .. n + Len(ms) : t[i] = IF i <= n THEN ns[i] ELSE ms[i - n]
    BY ConcatProperties
  <2>2. n \in Nat /\ Len(ms) \in Nat /\ DOMAIN ns = 1 .. n /\ DOMAIN ms = 1 .. Len(ms) /\ DOMAIN t = 1 .. Len(t)
    BY <2>1, LenProperties
  <2>3. ASSUME NEW i \in 1 .. Len(ms) PROVE t[n + i] = ms[i]
    <3>1. n + i \in 1 .. n + Len(ms) /\ ~(n + i <= n) /\ (n + i) - n = i
      BY <2>2
    <3> QED BY <2>1, <3>1
  <2> QED BY <2>1, <2>2, <2>3
<1> HIDE DEF t, n
<1>2. told = early \union {n + i : i \in late}
  <2>1. \A j \in DOMAIN t : (j \in 1 .. n) \/ (j - n \in 1 .. Len(ms) /\ n + (j - n) = j)
    BY <1>1
  <2>2. 1 .. n \subseteq DOMAIN t /\ \A i \in 1 .. Len(ms) : n + i \in DOMAIN t
    BY <1>1
  <2>3. told \subseteq early \union {n + i : i \in late}
    <3> SUFFICES ASSUME NEW j \in told PROVE j \in early \union {n + i : i \in late}
      OBVIOUS
    <3>1. CASE j \in 1 .. n
      BY <1>1, <3>1
    <3>2. CASE j - n \in 1 .. Len(ms) /\ n + (j - n) = j
      <4>1. t[j] = ms[j - n]
        BY <1>1, <3>2
      <4>2. j - n \in late
        BY <1>1, <3>2, <4>1
      <4> QED BY <3>2, <4>2
    <3> QED BY <2>1, <3>1, <3>2
  <2>4. early \subseteq told
    BY <1>1, <2>2
  <2>5. {n + i : i \in late} \subseteq told
    BY <1>1, <2>2
  <2> QED BY <2>3, <2>4, <2>5
<1>3. /\ early \in SUBSET (1 .. n) /\ late \in SUBSET (1 .. Len(ms))
      /\ \A i \in early : t[i] = ns[i]
      /\ \A i \in late : t[n + i] = ms[i]
  BY <1>1
<1>4. Shows(known, ns \o ms, d) <=> IF told = {} THEN d \in known
                                   ELSE \E i \in told : (\A j \in told : j <= i) /\ ~t[i].free /\ t[i].short
  BY DEF Shows, t
<1>5. Shows(known, ns, d) <=> IF early = {} THEN d \in known
                              ELSE \E i \in early : (\A j \in early : j <= i) /\ ~ns[i].free /\ ns[i].short
  BY DEF Shows
<1>6. late # {} => (Shows({}, ms, d) <=> \E i \in late : (\A j \in late : j <= i) /\ ~ms[i].free /\ ms[i].short)
  BY DEF Shows
<1>7. late # {} <=> \E i \in DOMAIN ms : Tells(ms[i], d)
  OBVIOUS
<1> HIDE DEF told, early, late
<1>8. CASE late = {}
  <2>1. told = early
    BY <1>2, <1>8
  <2> QED BY <1>3, <1>4, <1>5, <1>7, <1>8, <2>1
<1>9. CASE late # {}
  <2>1. PICK k \in late : \A j \in late : j <= k
    BY <1>1, <1>3, <1>9, LastOfSome
  <2>2. n + k \in told /\ \A j \in told : j <= n + k
    BY <1>1, <1>2, <1>3, <2>1
  <2>3. \A i \in told : (\A j \in told : j <= i) => i = n + k
    BY <1>1, <1>2, <1>3, <2>2
  <2>4. \A i \in late : (\A j \in late : j <= i) => i = k
    BY <1>1, <1>3, <2>1
  <2>5. t[n + k] = ms[k]
    BY <1>3, <2>1
  <2>6. Shows(known, ns \o ms, d) <=> ~ms[k].free /\ ms[k].short
    BY <1>4, <2>2, <2>3, <2>5
  <2>7. Shows({}, ms, d) <=> ~ms[k].free /\ ms[k].short
    BY <1>6, <1>9, <2>1, <2>4
  <2> QED BY <1>7, <1>9, <2>6, <2>7
<1> QED BY <1>8, <1>9

LEMMA ShowsOne ==
  ASSUME NEW known, NEW m \in News, NEW d
  PROVE  Shows(known, <<m>>, d) <=> IF Tells(m, d) THEN ~m.free /\ m.short ELSE d \in known
<1>1. DOMAIN <<m>> = {1} /\ <<m>>[1] = m
  OBVIOUS
<1>2. CASE Tells(m, d)
  <2>1. {i \in DOMAIN <<m>> : Tells(<<m>>[i], d)} = {1}
    BY <1>1, <1>2
  <2> QED BY <1>1, <1>2, <2>1 DEF Shows
<1>3. CASE ~Tells(m, d)
  <2>1. {i \in DOMAIN <<m>> : Tells(<<m>>[i], d)} = {}
    BY <1>1, <1>3
  <2> QED BY <1>1, <1>3, <2>1 DEF Shows
<1> QED BY <1>2, <1>3

\* One snapshot more.
LEMMA ShowsAfterOne ==
  ASSUME NEW known, NEW ns \in Seq(News), NEW m \in News, NEW d
  PROVE  Shows(known, ns \o <<m>>, d) <=> IF Tells(m, d) THEN ~m.free /\ m.short ELSE Shows(known, ns, d)
<1>1. <<m>> \in Seq(News) /\ DOMAIN <<m>> = {1} /\ <<m>>[1] = m
  OBVIOUS
<1>2. Shows({}, <<m>>, d) <=> IF Tells(m, d) THEN ~m.free /\ m.short ELSE FALSE
  BY ShowsOne
<1> QED BY <1>1, <1>2, ShowsAfterPush

\* What a screen makes of a snapshot was foreseen.
LEMMA ShowsAfterReceipt ==
  ASSUME NEW known, NEW ns \in Seq(News), ns # <<>>, NEW d \in Counter
  PROVE  Shows(AlertsAfter(known, Head(ns)), Tail(ns), d) <=> Shows(known, ns, d)
<1> DEFINE m == Head(ns)
<1>1. m \in News /\ Tail(ns) \in Seq(News) /\ ns = <<m>> \o Tail(ns) /\ <<m>> \in Seq(News)
  <2>1. m \in News /\ Tail(ns) \in Seq(News) /\ <<m>> \in Seq(News)
    BY HeadTailProperties
  <2>2. ns = <<m>> \o Tail(ns)
    <3>1. <<m>> \o Tail(ns) \in Seq(News) /\ Len(<<m>> \o Tail(ns)) = Len(ns)
      BY <2>1
    <3>2. \A i \in 1 .. Len(ns) : ns[i] = (<<m>> \o Tail(ns))[i]
      OBVIOUS
    <3> QED BY <3>1, <3>2, SeqEqual
  <2> QED BY <2>1, <2>2
<1> HIDE DEF m
<1>2. NoOne # d
  BY MirrorAssumption
<1>3. d \in AlertsAfter(known, m) <=> IF Tells(m, d) THEN ~m.free /\ m.short ELSE d \in known
  BY <1>1, <1>2 DEF AlertsAfter, Tells, News
<1>4. Shows(known, <<m>>, d) <=> d \in AlertsAfter(known, m)
  BY <1>1, <1>3, ShowsOne
<1>5. Shows(known, ns, d) <=> IF \E i \in DOMAIN Tail(ns) : Tells(Tail(ns)[i], d)
                              THEN Shows({}, Tail(ns), d) ELSE d \in AlertsAfter(known, m)
  <2> DEFINE r == Tail(ns)
  <2>1. r \in Seq(News) /\ ns = <<m>> \o r
    BY <1>1
  <2> HIDE DEF r
  <2>2. Shows(known, <<m>> \o r, d) <=> IF \E i \in DOMAIN r : Tells(r[i], d)
                                       THEN Shows({}, r, d) ELSE Shows(known, <<m>>, d)
    BY <1>1, <2>1, ShowsAfterPush
  <2>3. Shows(known, ns, d) <=> IF \E i \in DOMAIN r : Tells(r[i], d)
                                THEN Shows({}, r, d) ELSE d \in AlertsAfter(known, m)
    BY <1>4, <2>1, <2>2
  <2> QED BY <2>3 DEF r
<1>6. Shows(AlertsAfter(known, m), Tail(ns), d) <=> IF \E i \in DOMAIN Tail(ns) : Tells(Tail(ns)[i], d)
                              THEN Shows({}, Tail(ns), d) ELSE d \in AlertsAfter(known, m)
  BY DEF Shows
<1> QED BY <1>5, <1>6 DEF m

LEMMA ShowsNoNews == \A known, d : Shows(known, <<>>, d) <=> d \in known
  BY DEF Shows

\* A screen comes to show only lines that it knows of.
LEMMA WillShowKnown ==
  ASSUME MirrorRecords, NEW c \in Counter
  PROVE  WillShow(c) \subseteq Known(c)
<1> SUFFICES ASSUME NEW d \in Counter, Shows(alerts[c], pushed[c], d), d \notin alerts[c]
             PROVE  d \in Known(c)
  BY DEF WillShow, Known
<1>1. PICK i \in DOMAIN pushed[c] : Tells(pushed[c][i], d) /\ ~pushed[c][i].free
  BY DEF Shows
<1>2. pushed[c][i].line = d /\ pushed[c][i] \in ToSet(pushed[c])
  BY <1>1 DEF Tells, ToSet
<1> QED BY <1>2 DEF Known

-----------------------------------------------------------------------------
(* How the pending quantity is dealt out, with the order of the lines as a *)
(* parameter: the lemmas are used before and after a step.                 *)

Ahead(s, c) == {b \in ToSet(s) : Precedes(s, b, c)}
Dealt(s, p, w, c) == Lesser(w[c], Lower(p, SumOf(w, Ahead(s, c))))
LinesIn(s, w) ==
  /\ s \in Seq(Counter) /\ Distinct(s) /\ w \in [Counter -> Nat]
  /\ ToSet(s) = {c \in Counter : w[c] > 0}

LEMMA AskedIsSum == \A w, S : Asked(w, S) = SumOf(w, S)
  BY DEF Asked, SumOf

LEMMA AllocationIsDealt ==
  ASSUME NEW r, NEW w, NEW c
  PROVE  Allocation(r, w, c) = Dealt(oldest, r.pend, w, c)
  BY BeforeIs, AskedIsSum DEF Allocation, Dealt, Ahead

LEMMA NextAllocationIsDealt ==
  ASSUME NEW c
  PROVE  Allocation(row, want, c)' = Dealt(oldest', row'.pend, want', c)
<1>1. Before(c)' = Ahead(oldest', c)
  BY DEF Before, Ahead, Precedes, ToSet
<1> QED BY <1>1, AskedIsSum DEF Allocation, Dealt

LEMMA AheadIs ==
  ASSUME NEW s, NEW w, LinesIn(s, w), NEW c
  PROVE  /\ Ahead(s, c) \in SUBSET Counter /\ IsFiniteSet(Ahead(s, c))
         /\ SumOf(w, Ahead(s, c)) \in Nat /\ w \in [Counter -> Int]
<1>1. Ahead(s, c) \in SUBSET Counter
  BY DEF Ahead, LinesIn
<1>2. IsFiniteSet(Ahead(s, c))
  BY <1>1, FS_Subset, MirrorAssumption
<1>3. w \in [Counter -> Int] /\ \A x \in Ahead(s, c) : w[x] >= 0
  BY <1>1 DEF LinesIn
<1> QED BY <1>1, <1>2, <1>3, SumIsNatural

LEMMA DealtBounds ==
  ASSUME NEW s, NEW w, LinesIn(s, w), NEW c \in Counter, NEW p \in Int
  PROVE  Dealt(s, p, w, c) \in Nat /\ Dealt(s, p, w, c) <= w[c]
<1>1. SumOf(w, Ahead(s, c)) \in Nat /\ w[c] \in Nat
  BY AheadIs DEF LinesIn
<1> QED BY <1>1 DEF Dealt, Lesser, Lower

\* The sum of more lines is not less.
LEMMA SumOfMoreLines ==
  ASSUME NEW w \in [Counter -> Nat], NEW S \in SUBSET Counter, NEW T \in SUBSET S
  PROVE  SumOf(w, T) \in Nat /\ SumOf(w, S) \in Nat /\ SumOf(w, T) <= SumOf(w, S)
<1>1. /\ w \in [Counter -> Int] /\ \A x \in Counter : w[x] >= 0
      /\ IsFiniteSet(S) /\ IsFiniteSet(T) /\ IsFiniteSet(S \ T)
      /\ S \in SUBSET Counter /\ T \in SUBSET Counter /\ S \ T \in SUBSET Counter
  BY MirrorAssumption, FS_Subset
<1>2. SumOf(w, T) \in Nat /\ SumOf(w, S \ T) \in Nat
  BY <1>1, SumIsNatural
<1>3. SumOf(w, T \union (S \ T)) = SumOf(w, T) + SumOf(w, S \ T)
  BY <1>1, SumOfUnion
<1>4. T \union (S \ T) = S
  OBVIOUS
<1>5. SumOf(w, S) = SumOf(w, T) + SumOf(w, S \ T)
  BY <1>3, <1>4
<1> QED BY <1>2, <1>5

\* Of two open lines one is ahead of the other, with all that is ahead of it.
LEMMA OneIsAhead ==
  ASSUME NEW s, NEW w, LinesIn(s, w), NEW c \in ToSet(s), NEW e \in ToSet(s), e # c, c \notin Ahead(s, e)
  PROVE  e \in Ahead(s, c) /\ Ahead(s, e) \subseteq Ahead(s, c) \ {e}
<1>1. PICK i \in DOMAIN s : s[i] = c
  BY DEF ToSet
<1>2. PICK j \in DOMAIN s : s[j] = e
  BY DEF ToSet
<1>3. DOMAIN s \in SUBSET Nat /\ s \in Seq(Counter)
  BY DEF LinesIn
<1>4. ~(i < j) /\ i # j
  BY <1>1, <1>2 DEF Ahead, Precedes
<1>5. j < i
  BY <1>3, <1>4
<1>6. e \in Ahead(s, c)
  BY <1>1, <1>2, <1>5 DEF Ahead, Precedes
<1>7. ASSUME NEW b \in Ahead(s, e) PROVE b \in Ahead(s, c) \ {e}
  <2>1. PICK k, m \in DOMAIN s : s[k] = b /\ s[m] = e /\ k < m
    BY <1>7 DEF Ahead, Precedes
  <2>2. m = j
    BY <1>2, <2>1 DEF LinesIn, Distinct
  <2>3. k < i /\ k # j
    BY <1>3, <1>5, <2>1, <2>2
  <2>4. b # e
    BY <1>2, <2>1, <2>3 DEF LinesIn, Distinct
  <2> QED BY <1>1, <1>7, <2>1, <2>3, <2>4 DEF Ahead, Precedes
<1> QED BY <1>6, <1>7

\* A line that is reserved in full and goes takes with it just what was its own.
LEMMA FullLineTakesItsOwn ==
  ASSUME NEW s, NEW w, LinesIn(s, w), NEW p \in Int, NEW c \in ToSet(s), Dealt(s, p, w, c) = w[c],
         NEW e \in Counter, e # c
  PROVE  /\ p >= w[c]
         /\ Dealt(RemoveFirst(s, c), p - w[c], [w EXCEPT ![c] = 0], e) = Dealt(s, p, w, e)
<1> DEFINE t == RemoveFirst(s, c)
           v == [w EXCEPT ![c] = 0]
           P == SumOf(w, Ahead(s, c))
           Q == SumOf(w, Ahead(s, e))
<1>1. /\ c \in Counter /\ w[c] \in Nat \ {0} /\ w[e] \in Nat /\ v \in [Counter -> Nat]
      /\ v[e] = w[e] /\ v[c] = 0 /\ \A x \in Counter : x # c => v[x] = w[x]
  BY DEF LinesIn
<1>2. P \in Nat /\ Q \in Nat
  BY AheadIs
<1>3. p - P >= w[c]
  BY <1>1, <1>2 DEF Dealt, Lesser, Lower
<1>4. /\ t \in Seq(Counter) /\ Distinct(t) /\ ToSet(t) = ToSet(s) \ {c}
      /\ \A a, b : Precedes(t, a, b) <=> Precedes(s, a, b) /\ a # c /\ b # c
  BY WithoutFirst DEF LinesIn
<1>5. Ahead(t, e) = Ahead(s, e) \ {c}
  BY <1>4 DEF Ahead
<1>6. SumOf(v, Ahead(t, e)) = SumOf(w, Ahead(s, e) \ {c})
  <2>1. /\ Ahead(s, e) \ {c} \in SUBSET Counter /\ IsFiniteSet(Ahead(s, e) \ {c})
        /\ w \in [Counter -> Int] /\ v \in [Counter -> Int]
    BY <1>1, AheadIs, FS_Subset
  <2>2. \A x \in Ahead(s, e) \ {c} : v[x] = w[x]
    BY <1>1, <2>1
  <2> HIDE DEF v
  <2>3. SumOf(v, Ahead(s, e) \ {c}) = SumOf(w, Ahead(s, e) \ {c})
    BY <2>1, <2>2, SumOfSame
  <2> QED BY <1>5, <2>3
<1> HIDE DEF t, v
<1>7. Dealt(t, p - w[c], v, e) = Lesser(w[e], Lower(p - w[c], SumOf(w, Ahead(s, e) \ {c})))
  BY <1>1, <1>6 DEF Dealt
<1>8. Dealt(s, p, w, e) = Lesser(w[e], Lower(p, Q))
  BY DEF Dealt
<1> HIDE DEF P, Q
<1>9. CASE c \in Ahead(s, e)
  <2>1. Q = w[c] + SumOf(w, Ahead(s, e) \ {c})
    BY <1>9, AheadIs, SumTakesAny DEF Q
  <2>2. SumOf(w, Ahead(s, e) \ {c}) = Q - w[c]
    <3>1. SumOf(w, Ahead(s, e) \ {c}) \in Nat
      BY <1>1, SumOfMoreLines, AheadIs DEF LinesIn
    <3> QED BY <1>1, <1>2, <2>1, <3>1
  <2>3. Lower(p - w[c], Q - w[c]) = Lower(p, Q)
    BY <1>1, <1>2 DEF Lower
  <2> QED BY <1>1, <1>2, <1>3, <1>7, <1>8, <2>2, <2>3 DEF t, v
<1>10. CASE c \notin Ahead(s, e) /\ e \in ToSet(s)
  <2>1. e \in Ahead(s, c) /\ Ahead(s, e) \subseteq Ahead(s, c) \ {e}
    BY <1>10, OneIsAhead
  <2>2. P = w[e] + SumOf(w, Ahead(s, c) \ {e})
    BY <2>1, AheadIs, SumTakesAny DEF P
  <2>3. /\ SumOf(w, Ahead(s, c) \ {e}) \in Nat
        /\ Q <= SumOf(w, Ahead(s, c) \ {e})
    <3>1. Ahead(s, c) \ {e} \in SUBSET Counter /\ Ahead(s, e) \in SUBSET (Ahead(s, c) \ {e}) /\ w \in [Counter -> Nat]
      BY <2>1, AheadIs DEF LinesIn
    <3> QED BY <3>1, SumOfMoreLines DEF Q
  <2>4. P >= w[e] + Q
    BY <1>1, <1>2, <2>2, <2>3
  <2>5. Ahead(s, e) \ {c} = Ahead(s, e)
    BY <1>10
  <2>6. Lower(p - w[c], Q) >= w[e] /\ Lower(p, Q) >= w[e] /\ Lower(p, Q) \in Nat /\ Lower(p - w[c], Q) \in Nat
    BY <1>1, <1>2, <1>3, <2>4 DEF Lower
  <2>7. Lesser(w[e], Lower(p - w[c], Q)) = w[e] /\ Lesser(w[e], Lower(p, Q)) = w[e]
    BY <1>1, <2>6 DEF Lesser
  <2>8. SumOf(w, Ahead(s, e) \ {c}) = Q
    BY <2>5 DEF Q
  <2> QED BY <1>1, <1>2, <1>3, <1>7, <1>8, <2>7, <2>8 DEF t, v
<1>11. CASE e \notin ToSet(s)
  <2>1. w[e] = 0
    BY <1>1, <1>11 DEF LinesIn
  <2>2. SumOf(w, Ahead(s, e) \ {c}) \in Nat
    BY <1>1, SumOfMoreLines, AheadIs DEF LinesIn
  <2>3. Lesser(w[e], Lower(p - w[c], SumOf(w, Ahead(s, e) \ {c}))) = 0 /\ Lesser(w[e], Lower(p, Q)) = 0
    BY <1>1, <1>2, <2>1, <2>2 DEF Lesser, Lower
  <2> QED BY <1>1, <1>2, <1>3, <1>7, <1>8, <2>3 DEF t, v
<1> QED BY <1>9, <1>10, <1>11

-----------------------------------------------------------------------------
(* The top-up.                                                             *)

LEMMA AllocationBounds ==
  ASSUME MirrorRecords, NEW c \in Counter
  PROVE  Allocation(row, want, c) \in Nat /\ Allocation(row, want, c) <= want[c] /\ want[c] \in Nat
<1>1. LinesIn(oldest, want) /\ row.pend \in Int /\ want[c] \in Nat
  BY MirrorAssumption DEF MirrorRecords, LinesOK, RowOK, LinesIn
<1> QED BY <1>1, AllocationIsDealt, DealtBounds

LEMMA TopUpBounds ==
  ASSUME MirrorRecords, NEW c \in Counter, NEW p \in Int, p <= row.stock
  PROVE  TopUp(p, c) \in Int /\ TopUp(p, c) <= row.stock
<1>1. row.stock \in Nat /\ want[c] - Allocation(row, want, c) \in Int
  BY AllocationBounds, MirrorAssumption DEF MirrorRecords, RowOK
<1> QED BY <1>1 DEF TopUp, Lesser, Lower

\* What is pending after the first n open lines.
Within(stock) == {p \in Int : p <= stock}
ChainTo(n, g) == g = [m \in 0 .. n |-> IF m = 0 THEN row.pend ELSE TopUp(g[m - 1], oldest[m])]

LEMMA ChainsExist ==
  ASSUME MirrorRecords, NEW n \in 0 .. Len(oldest)
  PROVE  \E g \in [0 .. n -> Within(row.stock)] : ChainTo(n, g)
<1> DEFINE Bad == {k \in 0 .. Len(oldest) : ~ \E g \in [0 .. k -> Within(row.stock)] : ChainTo(k, g)}
<1> SUFFICES ASSUME Bad # {} PROVE FALSE
  OBVIOUS
<1>1. Len(oldest) \in Nat /\ \A i \in 1 .. Len(oldest) : oldest[i] \in Counter
  BY DEF MirrorRecords, LinesOK
<1>2. Bad \in SUBSET Nat
  BY <1>1
<1>3. PICK k \in Bad : \A m \in Bad : k <= m
  BY <1>2, SmallestNumber
<1>4. CASE k = 0
  <2> DEFINE g == [m \in 0 .. 0 |-> row.pend]
  <2>1. row.pend \in Within(row.stock)
    BY DEF MirrorRecords, RowOK, Within
  <2>2. g \in [0 .. 0 -> Within(row.stock)]
    BY <2>1
  <2>3. ChainTo(0, g)
    BY DEF ChainTo
  <2> QED BY <1>3, <1>4, <2>2, <2>3
<1>5. CASE k # 0
  <2>1. k - 1 \in 0 .. Len(oldest) /\ k \in 1 .. Len(oldest) /\ ~(k <= k - 1)
    BY <1>1, <1>3, <1>5
  <2>2. k - 1 \notin Bad
    BY <1>3, <2>1
  <2>3. PICK g \in [0 .. k - 1 -> Within(row.stock)] : ChainTo(k - 1, g)
    BY <2>1, <2>2
  <2> DEFINE last == TopUp(g[k - 1], oldest[k])
             h == [m \in 0 .. k |-> IF m = k THEN last ELSE g[m]]
  <2>4. last \in Within(row.stock)
    <3>1. k - 1 \in 0 .. k - 1
      BY <2>1
    <3>2. g[k - 1] \in Int /\ g[k - 1] <= row.stock
      BY <2>3, <3>1 DEF Within
    <3> QED BY <1>1, <2>1, <3>2, TopUpBounds DEF Within
  <2>5. \A m \in 0 .. k : m # k => m \in 0 .. k - 1
    BY <2>1
  <2> HIDE DEF last
  <2>6. h \in [0 .. k -> Within(row.stock)]
    BY <2>3, <2>4, <2>5
  <2>7. ASSUME NEW m \in 0 .. k
        PROVE  h[m] = IF m = 0 THEN row.pend ELSE TopUp(h[m - 1], oldest[m])
    <3>1. CASE m = 0
      <4>1. m # k /\ m \in 0 .. k - 1
        BY <2>1, <3>1
      <4> QED BY <2>3, <3>1, <4>1 DEF ChainTo
    <3>2. CASE m = k
      <4>1. k - 1 \in 0 .. k /\ k - 1 # k /\ k # 0
        BY <2>1
      <4>2. h[k - 1] = g[k - 1]
        BY <4>1
      <4> QED BY <3>2, <4>1, <4>2 DEF last
    <3>3. CASE m # 0 /\ m # k
      <4>1. m \in 0 .. k - 1 /\ m - 1 \in 0 .. k /\ m - 1 # k /\ m - 1 \in 0 .. k - 1
        BY <2>1, <3>3
      <4>2. g[m] = TopUp(g[m - 1], oldest[m])
        BY <2>3, <3>3, <4>1 DEF ChainTo
      <4> QED BY <3>3, <4>1, <4>2
    <3> QED BY <3>1, <3>2, <3>3
  <2>8. ChainTo(k, h)
    <3>1. h = [m \in 0 .. k |-> h[m]]
      OBVIOUS
    <3> HIDE DEF h
    <3> QED BY <2>7, <3>1 DEF ChainTo
  <2> QED BY <1>3, <2>6, <2>8
<1> QED BY <1>4, <1>5

LEMMA ToppedUpIs ==
  ASSUME MirrorRecords
  PROVE  ToppedUp \in [stock : 0 .. Stock, pend : Int] /\ ToppedUp.stock = row.stock /\ ToppedUp.pend <= row.stock
<1> DEFINE N == Len(oldest)
           sums == CHOOSE g : g = [m \in 0 .. N |-> IF m = 0 THEN row.pend ELSE TopUp(g[m - 1], oldest[m])]
           Bad == {m \in 0 .. N : sums[m] \notin Within(row.stock)}
<1>1. N \in Nat /\ \A i \in 1 .. N : oldest[i] \in Counter
  BY DEF MirrorRecords, LinesOK
<1>2. \E g : g = [m \in 0 .. N |-> IF m = 0 THEN row.pend ELSE TopUp(g[m - 1], oldest[m])]
  <2>1. N \in 0 .. Len(oldest)
    BY <1>1
  <2> HIDE DEF N
  <2>2. PICK g : ChainTo(N, g)
    BY <2>1, ChainsExist
  <2> QED BY ONLY <2>2 DEF ChainTo
<1>3. sums = [m \in 0 .. N |-> IF m = 0 THEN row.pend ELSE TopUp(sums[m - 1], oldest[m])]
  BY <1>2
<1>4. ToppedUp = [row EXCEPT !.pend = sums[N]]
  BY DEF ToppedUp
<1> HIDE DEF sums
<1>5. Bad = {}
  <2> SUFFICES ASSUME Bad # {} PROVE FALSE
    OBVIOUS
  <2>1. Bad \in SUBSET Nat
    BY <1>1
  <2> HIDE DEF N
  <2>2. PICK k \in Bad : \A m \in Bad : k <= m
    BY <2>1, SmallestNumber
  <2>3. CASE k = 0
    <3>1. sums[0] = row.pend
      BY <1>1, <1>3
    <3> QED BY <2>2, <2>3, <3>1 DEF MirrorRecords, RowOK, Within
  <2>4. CASE k # 0
    <3>1. k \in 1 .. N /\ k - 1 \in 0 .. N /\ ~(k <= k - 1)
      BY <1>1, <2>2, <2>4
    <3>2. sums[k - 1] \in Int /\ sums[k - 1] <= row.stock
      BY <2>2, <3>1 DEF Within
    <3>3. sums[k] = TopUp(sums[k - 1], oldest[k])
      BY <1>3, <2>4, <3>1
    <3> QED BY <1>1, <2>2, <3>1, <3>2, <3>3, TopUpBounds DEF Within
  <2> QED BY <2>3, <2>4
<1>6. sums[N] \in Int /\ sums[N] <= row.stock
  BY <1>1, <1>5 DEF Within
<1> QED BY <1>4, <1>6 DEF MirrorRecords, RowOK

-----------------------------------------------------------------------------
(* The records after each step.                                            *)

Open(w) == {c \in Counter : w[c] > 0}

LEMMA MirrorInitRecords == MirrorInit => MirrorRecords
<1> SUFFICES ASSUME MirrorInit PROVE MirrorRecords
  OBVIOUS
<1>1. Stock \in Nat /\ MaxWant \in Nat
  BY MirrorAssumption
<1>2. RowOK
  BY <1>1 DEF MirrorInit, RowOK
<1>3. LinesOK
  <2>1. want = [c \in Counter |-> 0] /\ oldest = <<>> /\ want \in [Counter -> 0 .. MaxWant]
    BY <1>1 DEF MirrorInit
  <2>2. oldest \in Seq(Counter) /\ Distinct(oldest) /\ ToSet(oldest) = {}
    BY <2>1 DEF Distinct, ToSet
  <2> QED BY <2>1, <2>2 DEF LinesOK
<1>4. OpOK
  BY <1>1 DEF MirrorInit, OpOK, OpRecord, NoOp
<1>5. ScreensOK
  BY DEF MirrorInit, ScreensOK
<1> QED BY <1>2, <1>3, <1>4, <1>5 DEF MirrorRecords, MirrorInit

LEMMA PoolNewsIs ==
  ASSUME NEW r
  PROVE  PoolNews(r) \in News /\ PoolNews(r).free = (Free(r) > 0) /\ PoolNews(r).short = FALSE /\ PoolNews(r).line = NoOne
  BY DEF PoolNews, News

LEMMA LineNewsIs ==
  ASSUME NEW r, NEW w, NEW c \in Counter
  PROVE  /\ LineNews(r, w, c) \in News /\ LineNews(r, w, c).free = (Free(r) > 0)
         /\ LineNews(r, w, c).short = IsShort(r, w, c) /\ LineNews(r, w, c).line = c
<1>1. IsShort(r, w, c) \in BOOLEAN /\ (Free(r) > 0) \in BOOLEAN
  BY DEF IsShort
<1> QED BY <1>1 DEF LineNews, News

LEMMA OneInSeq == ASSUME NEW S, NEW x \in S PROVE <<x>> \in Seq(S)
  OBVIOUS

LEMMA PublishKeepsType ==
  ASSUME MirrorRecords, NEW ms \in Seq(News), Publish(ms)
  PROVE  pushed' \in [Counter -> Seq(News)]
<1>1. \A c \in Counter : pushed[c] \in Seq(News)
  BY DEF MirrorRecords, ScreensOK
<1>2. \A c \in Counter : pushed[c] \o ms \in Seq(News)
  BY <1>1, ConcatProperties
<1> QED BY <1>2 DEF Publish

LEMMA FreeIs ==
  ASSUME MirrorRecords
  PROVE  /\ row.stock \in Nat /\ row.pend \in Int /\ row.pend <= row.stock
         /\ Free(row) \in Nat /\ Free(row) = row.stock - row.pend
         /\ \A c \in Counter : want[c] \in Nat
<1>1. row.stock \in Nat /\ row.pend \in Int /\ row.pend <= row.stock
  BY MirrorAssumption DEF MirrorRecords, RowOK
<1>2. \A c \in Counter : want[c] \in Nat
  BY MirrorAssumption DEF MirrorRecords, LinesOK
<1> QED BY <1>1, <1>2 DEF Free

\* The orders that the steps leave.
LEMMA LeavesLines ==
  ASSUME MirrorRecords, NEW c \in Counter, want' = [want EXCEPT ![c] = 0], oldest' = RemoveFirst(oldest, c)
  PROVE  LinesOK'
<1>1. /\ want \in [Counter -> 0 .. MaxWant]
      /\ oldest \in Seq(Counter) /\ Distinct(oldest) /\ ToSet(oldest) = {b \in Counter : want[b] > 0}
  BY DEF MirrorRecords, LinesOK
<1>2. oldest' \in Seq(Counter) /\ Distinct(oldest') /\ ToSet(oldest') = ToSet(oldest) \ {c}
  BY <1>1, WithoutFirst
<1>3. want' \in [Counter -> 0 .. MaxWant]
  BY <1>1, MirrorAssumption
<1>4. \A b \in Counter : want'[b] = IF b = c THEN 0 ELSE want[b]
  BY <1>1
<1>5. ToSet(oldest') = {b \in Counter : want'[b] > 0}
  BY <1>1, <1>2, <1>4
<1>6. ToSet(oldest)' = ToSet(oldest') /\ Distinct(oldest)' = Distinct(oldest')
  BY DEF ToSet, Distinct
<1> QED BY <1>2, <1>3, <1>5, <1>6 DEF LinesOK

LEMMA BecomesLatest ==
  ASSUME MirrorRecords, NEW c \in Counter, NEW n \in 0 .. MaxWant, n > 0, want' = [want EXCEPT ![c] = n],
         oldest' = RemoveFirst(oldest, c) \o <<c>>
  PROVE  LinesOK'
<1> DEFINE t == RemoveFirst(oldest, c)
<1>1. /\ want \in [Counter -> 0 .. MaxWant]
      /\ oldest \in Seq(Counter) /\ Distinct(oldest) /\ ToSet(oldest) = {b \in Counter : want[b] > 0}
  BY DEF MirrorRecords, LinesOK
<1>2. t \in Seq(Counter) /\ Distinct(t) /\ ToSet(t) = ToSet(oldest) \ {c}
  BY <1>1, WithoutFirst
<1> HIDE DEF t
<1>3. oldest' \in Seq(Counter) /\ Distinct(oldest') /\ ToSet(oldest') = ToSet(t) \union {c}
  <2>1. c \notin ToSet(t) /\ oldest' = t \o <<c>>
    BY <1>2 DEF t
  <2>2. t \o <<c>> \in Seq(Counter) /\ Distinct(t \o <<c>>) /\ ToSet(t \o <<c>>) = ToSet(t) \union {c}
    BY <1>2, <2>1, WithLast
  <2> QED BY <2>1, <2>2
<1>4. want' \in [Counter -> 0 .. MaxWant] /\ \A b \in Counter : want'[b] = IF b = c THEN n ELSE want[b]
  BY <1>1
<1>5. ToSet(oldest') = {b \in Counter : want'[b] > 0}
  BY <1>1, <1>2, <1>3, <1>4
<1>6. ToSet(oldest)' = ToSet(oldest') /\ Distinct(oldest)' = Distinct(oldest')
  BY DEF ToSet, Distinct
<1> QED BY <1>3, <1>4, <1>5, <1>6 DEF LinesOK

LEMMA SameLines ==
  ASSUME MirrorRecords, UNCHANGED <<want, oldest>>
  PROVE  LinesOK'
  BY DEF MirrorRecords, LinesOK, ToSet, Distinct

LEMMA NewRow ==
  ASSUME MirrorRecords, NEW s \in 0 .. Stock, NEW p \in Int, p <= s, row' = [stock |-> s, pend |-> p]
  PROVE  RowOK'
  BY DEF RowOK

\* A screen keeps its types when what it was sent is all that changes.
LEMMA SaidAfterIs ==
  ASSUME MirrorRecords, NEW c \in Counter
  PROVE  SaidAfter(c) \in [Counter -> {"none", "free", "tight", "short"}]
  BY DEF MirrorRecords, ScreensOK, SaidAfter

LEMMA AlertsAfterIs ==
  ASSUME NEW known \in SUBSET Counter, NEW news \in News
  PROVE  AlertsAfter(known, news) \in SUBSET Counter
  BY DEF AlertsAfter, News

LEMMA RecordsStep ==
  ASSUME MirrorRecords, MirrorNext
  PROVE  MirrorRecords'
<1> DEFINE OpSame == OpOK' /\ mirror' \in Int
<1>0. /\ row = [stock |-> row.stock, pend |-> row.pend] /\ row.stock \in 0 .. Stock
      /\ row.stock \in Nat /\ row.pend \in Int /\ row.pend <= row.stock /\ Free(row) \in Nat
      /\ Free(row) = row.stock - row.pend /\ mirror \in Int
      /\ want \in [Counter -> 0 .. MaxWant] /\ \A c \in Counter : want[c] \in Nat
      /\ op \in OpRecord /\ (op # NoOp => op.who \in Counter /\ op.at # "idle")
      /\ pushed \in [Counter -> Seq(News)] /\ alerts \in [Counter -> SUBSET Counter]
      /\ missed \in SUBSET Counter /\ paying \in SUBSET Counter
      /\ said \in [Counter -> {"none", "free", "tight", "short"}]
      /\ MaxWant \in Nat /\ Stock \in Nat
  BY FreeIs, MirrorAssumption DEF MirrorRecords, RowOK, LinesOK, OpOK, ScreensOK
<1> DEFINE RowSame == UNCHANGED row => RowOK'
<1>r. RowSame
  BY DEF MirrorRecords, RowOK
<1>o. UNCHANGED op => OpOK'
  BY DEF MirrorRecords, OpOK
<1>p. op' = NoOp => OpOK'
  BY <1>0 DEF OpOK, OpRecord, NoOp
<1> HIDE DEF RowSame
<1>1. ASSUME NEW c \in Counter, NEW n \in 0 .. MaxWant, ChangeLine(c, n) PROVE MirrorRecords'
  <2>1. UNCHANGED <<row, want, oldest, mirror, pushed, alerts, missed, said, paying>>
    BY <1>1 DEF ChangeLine, payVars
  <2>2. OpOK'
    <3>1. PICK kind \in {"scan", "edit", "remove"} :
            op' = [who |-> c, at |-> IF want[c] > 0 THEN "release" ELSE "reserve", kind |-> kind, qty |-> n, set |-> 0]
      BY <1>1 DEF ChangeLine, Begin, Kinds
    <3> QED BY <1>1, <3>1 DEF OpOK, OpRecord, NoOp
  <2> QED BY <1>0, <1>r, <2>1, <2>2, SameLines DEF MirrorRecords, ScreensOK, RowSame
<1>2. ASSUME NEW c \in Counter, CancelBill(c) \/ CommitBill(c) \/ FailCommit(c) PROVE MirrorRecords'
  <2>1. /\ Publish(<<PoolNews(row')>>) /\ Leaves(c) /\ UNCHANGED <<op, alerts>>
    BY <1>2 DEF CancelBill, CommitBill, FailCommit
  <2>2. RowOK' /\ mirror' \in Int
    <3>1. CASE CancelBill(c)
      <4>1. row' = [stock |-> row.stock, pend |-> Lower(row.pend, want[c])] /\ mirror' = row'.pend
        BY <1>0, <3>1 DEF CancelBill
      <4>2. Lower(row.pend, want[c]) \in Int /\ Lower(row.pend, want[c]) <= row.stock
        BY <1>0 DEF Lower
      <4> QED BY <1>0, <4>1, <4>2, NewRow
    <3>2. CASE CommitBill(c)
      <4>1. row' = [stock |-> row.stock - want[c], pend |-> row.pend - want[c]] /\ mirror' = row'.pend
             /\ row.stock >= want[c]
        BY <3>2 DEF CommitBill
      <4>2. row.stock - want[c] \in 0 .. Stock /\ row.pend - want[c] \in Int /\ row.pend - want[c] <= row.stock - want[c]
        BY <1>0, <4>1
      <4> QED BY <1>0, <4>1, <4>2, NewRow
    <3>3. CASE FailCommit(c)
      <4>1. row' = [stock |-> row.stock, pend |-> row.pend - want[c]] /\ mirror' = row'.pend - want[c]
        BY <1>0, <3>3 DEF FailCommit
      <4>2. row.pend - want[c] \in Int /\ row.pend - want[c] <= row.stock /\ want[c] \in Int
        BY <1>0
      <4> QED BY <1>0, <4>1, <4>2, NewRow
    <3> QED BY <1>2, <3>1, <3>2, <3>3
  <2>3. LinesOK'
    BY <2>1, LeavesLines DEF Leaves
  <2>4. pushed' \in [Counter -> Seq(News)]
    <3>1. <<PoolNews(row')>> \in Seq(News)
      BY PoolNewsIs, OneInSeq
    <3> QED BY <2>1, <3>1, PublishKeepsType
  <2>5. ScreensOK'
    BY <1>0, <2>1, <2>4 DEF Leaves, ScreensOK
  <2> QED BY <1>o, <2>1, <2>2, <2>3, <2>5 DEF MirrorRecords
<1>3. ASSUME NEW c \in Counter, Cut(c) PROVE MirrorRecords'
  <2>1. UNCHANGED <<row, want, oldest, mirror, op, alerts, said, paying>>
        /\ pushed' = [pushed EXCEPT ![c] = <<>>] /\ missed' = missed \union {c}
    BY <1>3 DEF Cut, payVars
  <2>2. pushed' \in [Counter -> Seq(News)]
    BY <1>0, <2>1
  <2> QED BY <1>0, <1>r, <1>o, <2>1, <2>2, SameLines DEF MirrorRecords, ScreensOK, RowSame
<1>4. ASSUME NEW c \in Counter, Receive(c) PROVE MirrorRecords'
  <2>1. UNCHANGED <<row, want, oldest, mirror, op, missed, said, paying>>
        /\ pushed[c] # <<>> /\ pushed' = [pushed EXCEPT ![c] = Tail(pushed[c])]
        /\ alerts' = [alerts EXCEPT ![c] = AlertsAfter(alerts[c], Head(pushed[c]))]
    BY <1>4 DEF Receive, payVars
  <2>2. Tail(pushed[c]) \in Seq(News) /\ Head(pushed[c]) \in News
    BY <1>0, <2>1, HeadTailProperties
  <2>3. AlertsAfter(alerts[c], Head(pushed[c])) \in SUBSET Counter
    BY <1>0, <2>2, AlertsAfterIs
  <2>4. pushed' \in [Counter -> Seq(News)] /\ alerts' \in [Counter -> SUBSET Counter]
    BY <1>0, <2>1, <2>2, <2>3
  <2> QED BY <1>0, <1>r, <1>o, <2>1, <2>4, SameLines DEF MirrorRecords, ScreensOK, RowSame
<1>5. ASSUME NEW c \in Counter, StartPaying(c) \/ StopPaying(c) PROVE MirrorRecords'
  <2>1. UNCHANGED <<row, want, oldest, mirror, op, pushed, alerts, missed>>
        /\ paying' \in SUBSET Counter /\ said' \in {said, SaidAfter(c)}
    BY <1>0, <1>5 DEF StartPaying, StopPaying
  <2> QED BY <1>0, <1>r, <1>o, <2>1, SameLines, SaidAfterIs DEF MirrorRecords, ScreensOK, RowSame
<1>6. ASSUME NEW c \in Counter, Heartbeat(c) \/ ChangeDiscount(c) PROVE MirrorRecords'
  <2>1. /\ want[c] > 0 /\ oldest' = RemoveFirst(oldest, c) \o <<c>> /\ missed' \in SUBSET Counter
        /\ UNCHANGED <<row, want, mirror, pushed, alerts, said, paying>>
    BY <1>0, <1>6 DEF Heartbeat, ChangeDiscount, Touch, payVars
  <2>2. OpOK'
    <3>1. CASE Heartbeat(c)
      BY <1>o, <3>1 DEF Heartbeat
    <3>2. CASE ChangeDiscount(c)
      <4>1. op' = [who |-> c, at |-> "answer", kind |-> "edit", qty |-> 0, set |-> 0]
        BY <3>2 DEF ChangeDiscount, NoOp
      <4> QED BY <1>0, <4>1 DEF OpOK, OpRecord, NoOp
    <3> QED BY <1>6, <3>1, <3>2
  <2>3. LinesOK'
    <3>1. want' = [want EXCEPT ![c] = want[c]] /\ want[c] \in 0 .. MaxWant
      BY <1>0, <2>1
    <3> QED BY <2>1, <3>1, BecomesLatest
  <2> QED BY <1>0, <1>r, <2>1, <2>2, <2>3 DEF MirrorRecords, ScreensOK, RowSame
<1>7. ASSUME ReleaseOld PROVE MirrorRecords'
  <2>1. op # NoOp /\ op.who \in Counter
    BY <1>0, <1>7 DEF ReleaseOld, NoOp
  <2>2. UNCHANGED <<want, oldest, mirror, alerts, missed, said, paying, pushed>>
    BY <1>7 DEF ReleaseOld, payVars, Silent
  <2>3. row' = [stock |-> row.stock, pend |-> Lower(row.pend, want[op.who])]
        /\ op' = [op EXCEPT !.at = "released", !.set = row'.pend]
    BY <1>0, <1>7 DEF ReleaseOld, SetNext
  <2>4. Lower(row.pend, want[op.who]) \in Int /\ Lower(row.pend, want[op.who]) <= row.stock
    BY <1>0, <2>1 DEF Lower
  <2>5. RowOK'
    BY <1>0, <2>3, <2>4, NewRow
  <2>6. OpOK'
    <3>1. row'.pend \in Int
      BY <2>3, <2>4
    <3>2. op' \in OpRecord /\ op'.who = op.who /\ op'.at = "released"
      BY <1>0, <2>3, <3>1 DEF OpRecord
    <3> QED BY <2>1, <3>2 DEF OpOK
  <2> QED BY <1>0, <2>2, <2>5, <2>6, SameLines DEF MirrorRecords, ScreensOK
<1>8. ASSUME SetMirror PROVE MirrorRecords'
  <2>1. op # NoOp /\ op.who \in Counter /\ op.set \in Int
    BY <1>0, <1>8 DEF SetMirror, NoOp, OpRecord
  <2>2. /\ UNCHANGED <<row, want, oldest, alerts, missed, said, paying, pushed>> /\ mirror' = op.set
        /\ op' = [op EXCEPT !.at = IF op.at = "released" THEN "reserve" ELSE "reconcile"]
    BY <1>8 DEF SetMirror, payVars, Silent
  <2>3. OpOK'
    <3>1. op' \in OpRecord /\ op'.who = op.who /\ op'.at # "idle"
      BY <1>0, <2>2 DEF OpRecord
    <3> QED BY <2>1, <3>1 DEF OpOK
  <2> QED BY <1>0, <1>r, <2>1, <2>2, <2>3, SameLines DEF MirrorRecords, ScreensOK, RowSame
<1>9. ASSUME ReserveNew PROVE MirrorRecords'
  <2> DEFINE c == op.who
             n == op.qty
  <2>1. op # NoOp /\ c \in Counter /\ n \in 0 .. MaxWant
    BY <1>0, <1>9 DEF ReserveNew, NoOp, OpRecord
  <2>2. /\ row' = [row EXCEPT !.pend = @ + Lesser(n, Free(row))] /\ want' = [want EXCEPT ![c] = n]
        /\ oldest' = RemoveFirst(oldest, c) \o (IF n > 0 THEN <<c>> ELSE <<>>)
        /\ Publish(IF n = 0 THEN <<LineNews(row, want', c)>>
                   ELSE IF Free(row) >= n THEN <<PoolNews(row')>> ELSE <<>>)
        /\ op' = [op EXCEPT !.at = "reserved", !.set = row'.pend]
        /\ UNCHANGED <<mirror, alerts, missed, said, paying>>
    BY <1>9 DEF ReserveNew, SetNext, payVars
  <2> HIDE DEF c, n
  <2>3. row' = [stock |-> row.stock, pend |-> row.pend + Lesser(n, Free(row))]
    BY <1>0, <2>2
  <2>4. row.pend + Lesser(n, Free(row)) \in Int /\ row.pend + Lesser(n, Free(row)) <= row.stock
    BY <1>0, <2>1 DEF Lesser
  <2>5. RowOK'
    BY <1>0, <2>3, <2>4, NewRow
  <2>6. OpOK'
    <3>1. row'.pend \in Int
      BY <2>3, <2>4
    <3>2. op' \in OpRecord /\ op'.who = op.who /\ op'.at = "reserved"
      BY <1>0, <2>2, <3>1 DEF OpRecord
    <3> QED BY <2>1, <3>2 DEF OpOK, c
  <2>7. LinesOK'
    <3>1. CASE n > 0
      BY <2>1, <2>2, <3>1, BecomesLatest
    <3>2. CASE ~(n > 0)
      <4>1. n = 0
        BY <2>1, <3>2
      <4>2. oldest \in Seq(Counter) /\ Distinct(oldest)
        BY DEF MirrorRecords, LinesOK
      <4>3. RemoveFirst(oldest, c) \in Seq(Counter)
        BY <4>2, WithoutFirst
      <4>4. oldest' = RemoveFirst(oldest, c)
        BY <2>2, <3>2, <4>3, ConcatEmptySeq
      <4> QED BY <2>1, <2>2, <4>1, <4>4, LeavesLines
    <3> QED BY <3>1, <3>2
  <2>8. pushed' \in [Counter -> Seq(News)]
    <3>1. /\ <<LineNews(row, want', c)>> \in Seq(News) /\ <<PoolNews(row')>> \in Seq(News) /\ <<>> \in Seq(News)
      <4>1. <<LineNews(row, want', c)>> \in Seq(News)
        BY <2>1, LineNewsIs, OneInSeq
      <4>2. <<PoolNews(row')>> \in Seq(News)
        BY PoolNewsIs, OneInSeq
      <4>3. <<>> \in Seq(News)
        BY EmptySeq
      <4> QED BY <4>1, <4>2, <4>3
    <3> QED BY <2>2, <3>1, PublishKeepsType
  <2> QED BY <1>0, <2>2, <2>5, <2>6, <2>7, <2>8 DEF MirrorRecords, ScreensOK
<1>10. ASSUME ReconcileOpenLines PROVE MirrorRecords'
  <2>1. op # NoOp /\ op.who \in Counter
    BY <1>0, <1>10 DEF ReconcileOpenLines, NoOp
  <2>2. /\ row' = ToppedUp /\ mirror' = row'.pend /\ Publish(NewsOfLines(row'))
        /\ op' = [op EXCEPT !.at = "answer"] /\ UNCHANGED <<want, oldest, alerts, missed, said, paying>>
    BY <1>10 DEF ReconcileOpenLines, payVars
  <2>3. RowOK' /\ mirror' \in Int
    BY <2>2, ToppedUpIs DEF RowOK
  <2>4. OpOK'
    <3>1. op' \in OpRecord /\ op'.who = op.who /\ op'.at = "answer"
      BY <1>0, <2>2 DEF OpRecord
    <3> QED BY <2>1, <3>1 DEF OpOK
  <2>5. NewsOfLines(row') \in Seq(News)
    <3>1. Len(oldest) \in Nat /\ DOMAIN oldest = 1 .. Len(oldest) /\ \A i \in DOMAIN oldest : oldest[i] \in Counter
      BY DEF MirrorRecords, LinesOK
    <3>2. \A i \in DOMAIN oldest : LineNews(row', want, oldest[i]) \in News
      BY <3>1, LineNewsIs
    <3>3. NewsOfLines(row') \in [1 .. Len(oldest) -> News]
      BY <3>1, <3>2 DEF NewsOfLines
    <3> QED BY <3>1, <3>3
  <2> QED BY <1>0, <2>2, <2>3, <2>4, <2>5, SameLines, PublishKeepsType DEF MirrorRecords, ScreensOK
<1>11. ASSUME BillAnswer PROVE MirrorRecords'
  <2>1. op # NoOp /\ op.who \in Counter
    BY <1>0, <1>11 DEF BillAnswer, NoOp
  <2>2. /\ UNCHANGED <<row, want, oldest, mirror, pushed, paying>> /\ op' = NoOp /\ said' = SaidAfter(op.who)
    BY <1>11 DEF BillAnswer
  <2>3. alerts' \in [Counter -> SUBSET Counter] /\ missed' \in SUBSET Counter
    <3>1. (IF ShortInAnswer(op.who) THEN {op.who} ELSE {}) \in SUBSET Counter
      BY <2>1
    <3> QED BY <1>0, <1>11, <3>1 DEF BillAnswer
  <2> QED BY <1>0, <1>r, <1>p, <2>1, <2>2, <2>3, SameLines, SaidAfterIs DEF MirrorRecords, ScreensOK, RowSame
<1>12. ASSUME RepairMirror PROVE MirrorRecords'
  <2>1. UNCHANGED <<row, want, oldest, op, alerts, missed, said, paying>> /\ mirror' = row.pend /\ Publish(<<PoolNews(row)>>)
    BY <1>12 DEF RepairMirror, RepairValue, payVars
  <2>2. <<PoolNews(row)>> \in Seq(News)
    BY PoolNewsIs, OneInSeq
  <2> QED BY <1>0, <1>r, <1>o, <2>1, <2>2, SameLines, PublishKeepsType DEF MirrorRecords, ScreensOK, RowSame
<1>13. ASSUME ServerStops PROVE MirrorRecords'
  <2>1. UNCHANGED <<row, want, oldest, mirror, alerts, said, paying>> /\ op' = NoOp /\ missed' = Counter
        /\ pushed' = [c \in Counter |-> <<>>]
    BY <1>13 DEF ServerStops, payVars
  <2>2. pushed' \in [Counter -> Seq(News)]
    BY <2>1
  <2> QED BY <1>0, <1>r, <1>p, <2>1, <2>2, SameLines DEF MirrorRecords, ScreensOK, RowSame
<1> QED BY <1>1, <1>2, <1>3, <1>4, <1>5, <1>6, <1>7, <1>8, <1>9, <1>10, <1>11, <1>12, <1>13 DEF MirrorNext

-----------------------------------------------------------------------------
(* What the screens show after each step.                                  *)

ShowsInv == ShowsOpenLines /\ ShowsOwnShortage /\ ShowsTrueShortages

LEMMA ShortIs ==
  ASSUME NEW c
  PROVE  /\ IsShort(row, want, c) <=> Free(row) = 0 /\ Dealt(oldest, row.pend, want, c) < want[c]
         /\ IsShort(row, want, c)' <=> Free(row') = 0 /\ Dealt(oldest', row'.pend, want', c) < want'[c]
<1>1. Free(row)' = Free(row')
  BY DEF Free
<1> QED BY <1>1, AllocationIsDealt, NextAllocationIsDealt DEF IsShort

LEMMA WillShowNext == ASSUME NEW c PROVE WillShow(c)' = {d \in Counter : Shows(alerts'[c], pushed'[c], d)}
  BY DEF WillShow

LEMMA OpAtRestNext == OpAtRest' <=> op'.at \in {"idle", "answer"}
  BY DEF OpAtRest

\* A line that is short is open.
LEMMA ShortIsOpen ==
  ASSUME MirrorRecords, NEW c \in Counter, IsShort(row, want, c)
  PROVE  want[c] > 0
  BY AllocationBounds DEF IsShort

\* The lines stay, and screens come to show what they would have shown.
LEMMA ShowsTheSame ==
  ASSUME MirrorInv, UNCHANGED <<row, want, oldest>>, missed \subseteq missed', OpAtRest' => OpAtRest,
         \A c \in Counter \ missed' : WillShow(c)' = WillShow(c)
  PROVE  ShowsInv'
<1>1. \A c : IsShort(row, want, c)' <=> IsShort(row, want, c)
  BY ShortIs
<1>2. \A c \in Counter \ missed' : c \in Counter \ missed
  OBVIOUS
<1>3. ShowsOpenLines'
  BY <1>2 DEF MirrorInv, ShowsOpenLines
<1>4. ShowsOwnShortage'
  BY <1>1, <1>2 DEF MirrorInv, ShowsOwnShortage
<1>5. ShowsTrueShortages'
  BY <1>1, <1>2 DEF MirrorInv, ShowsTrueShortages
<1> QED BY <1>3, <1>4, <1>5 DEF ShowsInv

\* Something is free, and screens come to show nothing.
LEMMA ShowsNothing ==
  ASSUME Free(row') > 0, \A c \in Counter \ missed' : WillShow(c)' = {}
  PROVE  ShowsInv'
<1>1. \A c : ~IsShort(row, want, c)'
  BY ShortIs
<1> QED BY <1>1 DEF ShowsInv, ShowsOpenLines, ShowsOwnShortage, ShowsTrueShortages

\* A snapshot of the pool clears the screens or leaves them as they are.
LEMMA PoolPushed ==
  ASSUME MirrorRecords, NEW r, Publish(<<PoolNews(r)>>), UNCHANGED alerts, NEW c \in Counter
  PROVE  WillShow(c)' = IF Free(r) > 0 THEN {} ELSE WillShow(c)
<1> DEFINE m == PoolNews(r)
<1>1. m \in News /\ m.free = (Free(r) > 0) /\ m.line = NoOne
  BY PoolNewsIs
<1>2. pushed[c] \in Seq(News) /\ pushed'[c] = pushed[c] \o <<m>> /\ alerts'[c] = alerts[c]
  BY DEF MirrorRecords, ScreensOK, Publish
<1> HIDE DEF m
<1>3. \A d : Shows(alerts'[c], pushed'[c], d) <=> IF Tells(m, d) THEN ~m.free /\ m.short ELSE Shows(alerts[c], pushed[c], d)
  BY <1>1, <1>2, ShowsAfterOne
<1>4. \A d \in Counter : Tells(m, d) <=> m.free
  BY <1>1, MirrorAssumption DEF Tells
<1>5. WillShow(c)' = {d \in Counter : Shows(alerts'[c], pushed'[c], d)}
  BY WillShowNext
<1> QED BY <1>1, <1>3, <1>4, <1>5 DEF WillShow

LEMMA LinePushed ==
  ASSUME MirrorRecords, NEW r, NEW w, NEW e \in Counter, Publish(<<LineNews(r, w, e)>>), UNCHANGED alerts,
         NEW c \in Counter, ~IsShort(r, w, e)
  PROVE  WillShow(c)' \subseteq WillShow(c) \ {e}
<1> DEFINE m == LineNews(r, w, e)
<1>1. m \in News /\ m.line = e /\ m.short = FALSE
  BY LineNewsIs
<1>2. pushed[c] \in Seq(News) /\ pushed'[c] = pushed[c] \o <<m>> /\ alerts'[c] = alerts[c]
  BY DEF MirrorRecords, ScreensOK, Publish
<1> HIDE DEF m
<1>3. \A d : Shows(alerts'[c], pushed'[c], d) <=> IF Tells(m, d) THEN ~m.free /\ m.short ELSE Shows(alerts[c], pushed[c], d)
  BY <1>1, <1>2, ShowsAfterOne
<1>4. Tells(m, e)
  BY <1>1 DEF Tells
<1>5. WillShow(c)' = {d \in Counter : Shows(alerts'[c], pushed'[c], d)}
  BY WillShowNext
<1> QED BY <1>1, <1>3, <1>4, <1>5 DEF WillShow

\* The top-up tells every screen of every open line.
LEMMA LinesPushed ==
  ASSUME MirrorInv, NEW r, Free(r) \in Nat, Publish(NewsOfLines(r)), UNCHANGED alerts,
         NewsOfLines(r) \in Seq(News), NEW c \in Counter, c \notin missed
  PROVE  WillShow(c)' = {d \in Counter : want[d] > 0 /\ IsShort(r, want, d)}
<1> DEFINE ms == NewsOfLines(r)
<1>1. /\ oldest \in Seq(Counter) /\ Distinct(oldest) /\ ToSet(oldest) = {d \in Counter : want[d] > 0}
      /\ pushed[c] \in Seq(News) /\ pushed'[c] = pushed[c] \o ms /\ alerts'[c] = alerts[c]
  BY DEF MirrorInv, MirrorRecords, LinesOK, ScreensOK, Publish
<1>2. /\ DOMAIN ms = DOMAIN oldest /\ \A i \in DOMAIN oldest : oldest[i] \in Counter
      /\ \A i \in DOMAIN oldest : ms[i] = LineNews(r, want, oldest[i])
  BY <1>1 DEF NewsOfLines
<1>3. \A i \in DOMAIN oldest : /\ ms[i].free = (Free(r) > 0) /\ ms[i].line = oldest[i]
                               /\ ms[i].short = IsShort(r, want, oldest[i])
  BY <1>2, LineNewsIs
<1>4. WillShow(c)' = {d \in Counter : Shows(alerts'[c], pushed'[c], d)}
  BY WillShowNext
<1>5. ms \in Seq(News)
  OBVIOUS
<1> HIDE DEF ms
<1>6. \A d : Shows(alerts'[c], pushed'[c], d)
               <=> IF \E i \in DOMAIN ms : Tells(ms[i], d) THEN Shows({}, ms, d) ELSE Shows(alerts[c], pushed[c], d)
  <2>1. \A d : Shows(alerts[c], pushed[c] \o ms, d)
               <=> IF \E i \in DOMAIN ms : Tells(ms[i], d) THEN Shows({}, ms, d) ELSE Shows(alerts[c], pushed[c], d)
    BY <1>1, <1>5, ShowsAfterPush
  <2> QED BY <1>1, <2>1
<1>7. \A d : (\E i \in DOMAIN ms : Tells(ms[i], d)) =>
        (Shows({}, ms, d) <=> \E i \in DOMAIN ms : /\ Tells(ms[i], d) /\ ~ms[i].free /\ ms[i].short
                                                   /\ \A j \in DOMAIN ms : Tells(ms[j], d) => j <= i)
  BY DEF Shows
<1>8. ASSUME NEW d \in Counter
      PROVE  Shows(alerts'[c], pushed'[c], d) <=> want[d] > 0 /\ IsShort(r, want, d)
  <2>1. CASE \E i \in DOMAIN ms : ms[i].free
    <3>1. Free(r) > 0
      BY <1>2, <1>3, <2>1
    <3>2. (\A i \in DOMAIN ms : ms[i].free) /\ (\E i \in DOMAIN ms : Tells(ms[i], d)) /\ ~IsShort(r, want, d)
      BY <1>2, <1>3, <2>1, <3>1 DEF Tells, IsShort
    <3> QED BY <1>6, <1>7, <3>2
  <2>2. CASE (\A i \in DOMAIN ms : ~ms[i].free) /\ want[d] > 0
    <3>1. PICK i \in DOMAIN oldest : oldest[i] = d
      BY <1>1, <2>2 DEF ToSet
    <3>2. \A j \in DOMAIN ms : Tells(ms[j], d) <=> j = i
      BY <1>1, <1>2, <1>3, <2>2, <3>1 DEF Tells, Distinct
    <3>3. i <= i
      BY <1>1, <3>1
    <3>4. Shows({}, ms, d) <=> IsShort(r, want, d)
      BY <1>2, <1>3, <1>7, <2>2, <3>1, <3>2, <3>3
    <3> QED BY <1>2, <1>6, <2>2, <3>1, <3>2, <3>4
  <2>3. CASE (\A i \in DOMAIN ms : ~ms[i].free) /\ ~(want[d] > 0)
    <3>1. \A i \in DOMAIN ms : oldest[i] # d
      BY <1>1, <1>2, <2>3 DEF ToSet
    <3>2. \A i \in DOMAIN ms : ~Tells(ms[i], d)
      BY <1>2, <1>3, <2>3, <3>1 DEF Tells
    <3>3. ~Shows(alerts[c], pushed[c], d)
      BY <2>3 DEF MirrorInv, ShowsOpenLines, WillShow
    <3> QED BY <1>6, <2>3, <3>2, <3>3
  <2> QED BY <2>1, <2>2, <2>3
<1> QED BY <1>4, <1>8

LEMMA LinesInAre ==
  ASSUME MirrorRecords PROVE LinesIn(oldest, want) /\ row.pend \in Int
  BY MirrorAssumption DEF MirrorRecords, LinesOK, RowOK, LinesIn

LEMMA LinesInNext ==
  ASSUME MirrorRecords'
  PROVE  LinesIn(oldest', want') /\ row'.pend \in Int /\ Free(row') \in Nat /\ Free(row') = row'.stock - row'.pend
<1>1. Stock \in Nat /\ MaxWant \in Nat
  BY MirrorAssumption
<1>2. /\ want' \in [Counter -> 0 .. MaxWant] /\ oldest' \in Seq(Counter) /\ Distinct(oldest')
      /\ ToSet(oldest') = {c \in Counter : want'[c] > 0}
  BY DEF MirrorRecords, LinesOK, Distinct, ToSet
<1>3. row'.stock \in 0 .. Stock /\ row'.pend \in Int /\ row'.pend <= row'.stock
  BY DEF MirrorRecords, RowOK
<1> QED BY <1>1, <1>2, <1>3 DEF LinesIn, Free

\* A bill is closed: a line that was reserved in full goes with what was its own.
LEMMA LeavesStep ==
  ASSUME MirrorInv, MirrorRecords', op = NoOp, NEW c \in Counter, Leaves(c), Publish(<<PoolNews(row')>>),
         UNCHANGED <<op, alerts>>,
         ~Taken(c) => /\ row'.pend = row.pend - want[c]
                      /\ row'.stock - row'.pend >= row.stock - row.pend
  PROVE  ShowsInv'
<1>1. MirrorRecords
  BY DEF MirrorInv
<1>2. \A b \in Counter : WillShow(b)' = IF Free(row') > 0 THEN {} ELSE WillShow(b)
  BY <1>1, PoolPushed
<1>3. CASE Free(row') > 0
  BY <1>2, <1>3, ShowsNothing
<1>4. CASE Taken(c)
  <2>1. missed' = Counter
    BY <1>4 DEF Leaves
  <2> QED BY <2>1 DEF ShowsInv, ShowsOpenLines, ShowsOwnShortage, ShowsTrueShortages
<1>5. CASE ~(Free(row') > 0) /\ ~Taken(c)
  <2>1. Free(row) = 0 /\ Free(row') = 0
    BY <1>1, <1>5, FreeIs, LinesInNext
  <2>2. /\ missed' = missed /\ \A b \in Counter : WillShow(b)' = WillShow(b)
        /\ want' = [want EXCEPT ![c] = 0] /\ oldest' = RemoveFirst(oldest, c)
    BY <1>2, <1>5 DEF Leaves
  <2>3. LinesIn(oldest, want) /\ LinesIn(oldest', want') /\ row.pend \in Int /\ row'.pend \in Int
    BY <1>1, LinesInAre, LinesInNext
  <2>4. Dealt(oldest, row.pend, want, c) = want[c]
    <3>1. Dealt(oldest, row.pend, want, c) \in Nat /\ Dealt(oldest, row.pend, want, c) <= want[c] /\ want[c] \in Nat
      BY <2>3, DealtBounds DEF LinesIn
    <3>2. ~(Dealt(oldest, row.pend, want, c) < want[c])
      BY <1>5, AllocationIsDealt DEF Taken
    <3> QED BY <3>1, <3>2
  <2>5. \A e \in Counter : e # c => want'[e] = want[e]
    BY <2>2, <2>3 DEF LinesIn
  <2>6. want'[c] = 0
    BY <2>2, <2>3 DEF LinesIn
  <2>7. ASSUME NEW e \in Counter, e # c
        PROVE  Dealt(oldest', row'.pend, want', e) = Dealt(oldest, row.pend, want, e)
    <3>1. CASE c \in ToSet(oldest)
      <4>1. Dealt(RemoveFirst(oldest, c), row.pend - want[c], [want EXCEPT ![c] = 0], e) = Dealt(oldest, row.pend, want, e)
        BY <2>3, <2>4, <2>7, <3>1, FullLineTakesItsOwn
      <4> QED BY <1>5, <2>2, <4>1
    <3>2. CASE c \notin ToSet(oldest)
      <4>1. want[c] = 0
        BY <2>3, <3>2 DEF LinesIn
      <4>2. want' = want
        BY <2>2, <2>3, <4>1 DEF LinesIn
      <4>3. oldest' = oldest
        BY <2>2, <3>2 DEF RemoveFirst, ToSet
      <4>4. row'.pend = row.pend
        BY <1>5, <2>3, <4>1
      <4> QED BY <4>2, <4>3, <4>4
    <3> QED BY <3>1, <3>2
  <2>8. ~IsShort(row, want, c) /\ ~IsShort(row, want, c)'
    <3>1. Dealt(oldest', row'.pend, want', c) \in Nat
      BY <2>3, DealtBounds
    <3>2. want[c] \in Nat
      BY <2>3 DEF LinesIn
    <3> QED BY <2>4, <2>6, <3>1, <3>2, ShortIs
  <2>9. \A e \in Counter : IsShort(row, want, e)' <=> IsShort(row, want, e)
    BY <2>1, <2>5, <2>7, <2>8, ShortIs
  <2>10. OpAtRest
    BY DEF OpAtRest, NoOp
  <2>11. \A b \in Counter \ missed : \A d \in WillShow(b) : d \in Counter /\ IsShort(row, want, d) /\ d # c
    BY <2>8, <2>10 DEF MirrorInv, ShowsTrueShortages, WillShow
  <2>12. ShowsOpenLines'
    BY <2>2, <2>5, <2>11 DEF MirrorInv, ShowsOpenLines
  <2>13. ShowsOwnShortage'
    BY <2>2, <2>9, <2>10 DEF MirrorInv, ShowsOwnShortage
  <2>14. ShowsTrueShortages'
    BY <2>2, <2>9, <2>11 DEF ShowsTrueShortages
  <2> QED BY <2>12, <2>13, <2>14 DEF ShowsInv
<1> QED BY <1>3, <1>4, <1>5

LEMMA BillsClose ==
  ASSUME MirrorInv, MirrorRecords', NEW c \in Counter, CancelBill(c) \/ CommitBill(c) \/ FailCommit(c)
  PROVE  ShowsInv'
<1>1. /\ op = NoOp /\ Leaves(c) /\ Publish(<<PoolNews(row')>>) /\ UNCHANGED <<op, alerts>>
  BY DEF CancelBill, CommitBill, FailCommit
<1>2. MirrorRecords
  BY DEF MirrorInv
<1>3. /\ row.stock \in Nat /\ row.pend \in Int /\ want[c] \in Nat
      /\ row = [stock |-> row.stock, pend |-> row.pend]
  BY <1>2, FreeIs DEF MirrorRecords, RowOK
<1>4. ASSUME ~Taken(c)
      PROVE  row'.pend = row.pend - want[c] /\ row'.stock - row'.pend >= row.stock - row.pend
  <2>1. CASE CancelBill(c)
    <3>1. row' = [row EXCEPT !.pend = Lower(@, want[c])] /\ want[c] > 0
      BY <2>1 DEF CancelBill
    <3>2. row'.pend = Lower(row.pend, want[c]) /\ row'.stock = row.stock
      BY <1>3, <3>1
    <3>3. row.pend >= want[c]
      <4>1. SumOf(want, Ahead(oldest, c)) \in Nat
        BY <1>2, LinesInAre, AheadIs
      <4>2. ~(Lesser(want[c], Lower(row.pend, SumOf(want, Ahead(oldest, c)))) < want[c])
        BY <1>4, AllocationIsDealt DEF Taken, Dealt
      <4> QED BY <1>3, <3>1, <4>1, <4>2 DEF Lesser, Lower
    <3>4. row'.pend = row.pend - want[c]
      BY <1>3, <3>2, <3>3 DEF Lower
    <3> QED BY <1>3, <3>2, <3>4
  <2>2. CASE CommitBill(c)
    <3>1. row'.pend = row.pend - want[c] /\ row'.stock = row.stock - want[c]
      BY <2>2 DEF CommitBill
    <3> QED BY <1>3, <3>1
  <2>3. CASE FailCommit(c)
    <3>1. row' = [row EXCEPT !.pend = @ - want[c]]
      BY <2>3 DEF FailCommit
    <3>2. row'.pend = row.pend - want[c] /\ row'.stock = row.stock
      BY <1>3, <3>1
    <3> QED BY <1>3, <3>2
  <2> QED BY <2>1, <2>2, <2>3
<1> QED BY <1>1, <1>4, LeavesStep

\* The order of the lines changes: whoever knows of a line whose share changes has missed it.
LEMMA TouchStep ==
  ASSUME MirrorInv, MirrorRecords', NEW c \in Counter, Touch(c), OpAtRest' => OpAtRest
  PROVE  ShowsInv'
<1>1. UNCHANGED <<row, want, pushed, alerts>> /\ MirrorRecords /\ missed \subseteq missed'
  BY DEF Touch, MirrorInv
<1>2. \A b \in Counter : WillShow(b)' = WillShow(b)
  BY <1>1, WillShowNext DEF WillShow
<1>3. ASSUME NEW b \in Counter, b \notin missed', NEW e \in Counter, e \in WillShow(b) \/ e = b
      PROVE  IsShort(row, want, e)' <=> IsShort(row, want, e)
  <2>1. e \in Known(b)
    BY <1>1, <1>3, WillShowKnown DEF Known
  <2>2. Allocation(row, want, e)' = Allocation(row, want, e)
    BY <1>3, <2>1 DEF Touch
  <2>3. Dealt(oldest', row'.pend, want', e) = Dealt(oldest, row.pend, want, e)
    BY <2>2, AllocationIsDealt, NextAllocationIsDealt
  <2> QED BY <1>1, <2>3, ShortIs
<1>4. ShowsOpenLines'
  BY <1>1, <1>2 DEF MirrorInv, ShowsOpenLines
<1>5. ShowsOwnShortage'
  BY <1>1, <1>2, <1>3 DEF MirrorInv, ShowsOwnShortage
<1>6. ShowsTrueShortages'
  <2>1. \A b \in Counter : WillShow(b) \subseteq Counter
    BY DEF WillShow
  <2> QED BY <1>1, <1>2, <1>3, <2>1 DEF MirrorInv, ShowsTrueShortages
<1> QED BY <1>4, <1>5, <1>6 DEF ShowsInv

LEMMA ReserveStep ==
  ASSUME MirrorInv, MirrorRecords', ReserveNew
  PROVE  ShowsInv'
<1> DEFINE c == op.who
           n == op.qty
<1>1. MirrorRecords /\ c \in Counter /\ n \in 0 .. MaxWant /\ MaxWant \in Nat
  BY MirrorAssumption DEF MirrorInv, MirrorRecords, OpOK, OpRecord, ReserveNew, NoOp
<1>2. /\ want' = [want EXCEPT ![c] = n] /\ UNCHANGED <<alerts, missed>> /\ op'.at = "reserved"
      /\ Publish(IF n = 0 THEN <<LineNews(row, want', c)>>
                 ELSE IF Free(row) >= n THEN <<PoolNews(row')>> ELSE <<>>)
  BY <1>1 DEF ReserveNew, SetNext, MirrorRecords, OpOK, OpRecord
<1> HIDE DEF c, n
<1>3. ~OpAtRest'
  BY <1>2, OpAtRestNext
<1>4. want \in [Counter -> 0 .. MaxWant] /\ \A b \in Counter : want'[b] = IF b = c THEN n ELSE want[b]
  BY <1>1, <1>2 DEF MirrorRecords, LinesOK
<1>5. ASSUME NEW b \in Counter
      PROVE  WillShow(b)' \subseteq WillShow(b) /\ (n = 0 => c \notin WillShow(b)')
  <2>1. CASE n = 0
    <3>1. ~IsShort(row, want', c)
      <4>1. IsShort(row, want', c) => Dealt(oldest, row.pend, want', c) < want'[c]
        BY AllocationIsDealt DEF IsShort
      <4>2. want'[c] = 0
        BY <1>1, <1>4, <2>1
      <4>3. Dealt(oldest, row.pend, want', c) \in Nat
        <5>1. Ahead(oldest, c) \in SUBSET Counter /\ IsFiniteSet(Ahead(oldest, c)) /\ row.pend \in Int
          BY <1>1, LinesInAre, AheadIs
        <5>2. want' \in [Counter -> Int] /\ \A x \in Ahead(oldest, c) : want'[x] >= 0
          BY <1>1, <1>2, <1>4, <5>1
        <5>3. SumOf(want', Ahead(oldest, c)) \in Nat
          BY <5>1, <5>2, SumIsNatural
        <5> QED BY <4>2, <5>1, <5>3 DEF Dealt, Lesser, Lower
      <4> QED BY <4>1, <4>2, <4>3
    <3>2. Publish(<<LineNews(row, want', c)>>)
      BY <1>2, <2>1
    <3> QED BY <1>1, <1>2, <2>1, <3>1, <3>2, LinePushed
  <2>2. CASE n # 0 /\ Free(row) >= n
    <3>1. Publish(<<PoolNews(row')>>)
      BY <1>2, <2>2
    <3> QED BY <1>1, <1>2, <2>2, <3>1, PoolPushed
  <2>3. CASE n # 0 /\ ~(Free(row) >= n)
    <3>1. pushed'[b] = pushed[b] \o <<>> /\ pushed[b] \in Seq(News)
      BY <1>1, <1>2, <2>3 DEF Publish, MirrorRecords, ScreensOK
    <3>2. pushed'[b] = pushed[b]
      BY <3>1, ConcatEmptySeq
    <3> QED BY <1>2, <2>3, <3>2, WillShowNext DEF WillShow
  <2> QED BY <2>1, <2>2, <2>3
<1>6. ShowsOpenLines'
  <2>1. ASSUME NEW b \in Counter, b \notin missed, NEW d \in WillShow(b)' PROVE d \in Counter /\ want'[d] > 0
    <3>1. d \in Counter /\ want[d] > 0 /\ (n = 0 => d # c)
      BY <1>5, <2>1 DEF MirrorInv, ShowsOpenLines
    <3> QED BY <1>1, <1>4, <3>1
  <2> QED BY <1>2, <2>1 DEF ShowsOpenLines
<1> QED BY <1>3, <1>6 DEF ShowsInv, ShowsOwnShortage, ShowsTrueShortages

LEMMA ReconcileStep ==
  ASSUME MirrorInv, MirrorRecords', ReconcileOpenLines
  PROVE  ShowsInv'
<1>1. /\ UNCHANGED <<want, oldest, alerts, missed>> /\ Publish(NewsOfLines(row')) /\ MirrorRecords
  BY DEF ReconcileOpenLines, MirrorInv
<1>2. Free(row') \in Nat
  BY LinesInNext
<1>3. NewsOfLines(row') \in Seq(News)
  <2>1. Len(oldest) \in Nat /\ DOMAIN oldest = 1 .. Len(oldest) /\ \A i \in DOMAIN oldest : oldest[i] \in Counter
    BY <1>1 DEF MirrorRecords, LinesOK
  <2>2. \A i \in DOMAIN oldest : LineNews(row', want, oldest[i]) \in News
    BY <2>1, LineNewsIs
  <2>3. NewsOfLines(row') \in [1 .. Len(oldest) -> News]
    BY <2>1, <2>2 DEF NewsOfLines
  <2> QED BY <2>1, <2>3
<1>4. \A d : IsShort(row, want, d)' <=> IsShort(row', want, d)
  <2>1. ASSUME NEW d PROVE IsShort(row', want, d) <=> Free(row') = 0 /\ Dealt(oldest, row'.pend, want, d) < want[d]
    BY AllocationIsDealt DEF IsShort
  <2> QED BY <1>1, <2>1, ShortIs
<1>5. \A b \in Counter \ missed : WillShow(b)' = {d \in Counter : want[d] > 0 /\ IsShort(row', want, d)}
  BY <1>1, <1>2, <1>3, LinesPushed
<1>6. \A d \in Counter : IsShort(row, want, d)' => want[d] > 0
  <2>1. ASSUME NEW d \in Counter, IsShort(row, want, d)' PROVE want[d] > 0
    <3>1. Dealt(oldest', row'.pend, want', d) < want'[d]
      BY <2>1, ShortIs
    <3>2. Dealt(oldest', row'.pend, want', d) \in Nat /\ want'[d] \in Nat
      BY LinesInNext, DealtBounds DEF LinesIn
    <3> QED BY <1>1, <3>1, <3>2
  <2> QED BY <2>1
<1>7. ShowsOpenLines'
  BY <1>1, <1>5 DEF ShowsOpenLines
<1>8. ShowsOwnShortage'
  BY <1>1, <1>4, <1>5, <1>6 DEF ShowsOwnShortage
<1>9. ShowsTrueShortages'
  BY <1>1, <1>4, <1>5 DEF ShowsTrueShortages
<1> QED BY <1>7, <1>8, <1>9 DEF ShowsInv

\* The answer of an edit: what is on its way decides, and else the own line alone is known.
LEMMA AnswerStep ==
  ASSUME MirrorInv, MirrorRecords', BillAnswer
  PROVE  ShowsInv'
<1>0. PICK c \in Counter : c = op.who
  BY DEF BillAnswer, MirrorInv, MirrorRecords, OpOK, NoOp
<1> DEFINE own == IF ShortInAnswer(c) THEN {c} ELSE {}
<1>1. /\ op.at = "answer" /\ UNCHANGED <<row, want, oldest, pushed>> /\ MirrorRecords
  BY DEF BillAnswer, MirrorInv
<1>2. OpAtRest
  BY <1>1 DEF OpAtRest
<1>3. CASE op.kind # "edit"
  <2>1. UNCHANGED <<alerts, missed>>
    BY <1>3 DEF BillAnswer
  <2>2. \A b \in Counter : WillShow(b)' = WillShow(b)
    BY <1>1, <2>1, WillShowNext DEF WillShow
  <2> QED BY <1>1, <1>2, <2>1, <2>2, ShowsTheSame
<1>4. CASE op.kind = "edit"
  <2>1. /\ alerts' = [alerts EXCEPT ![c] = own]
        /\ missed' = IF pushed[c] = <<>> THEN missed \ {c} ELSE missed
    BY <1>0, <1>4 DEF BillAnswer
  <2>2. alerts \in [Counter -> SUBSET Counter]
    BY <1>1 DEF MirrorRecords, ScreensOK
  <2> DEFINE short(d) == IsShort(row, want, d)
  <2>3. ShortInAnswer(c) <=> short(c)
    BY DEF ShortInAnswer
  <2>4. \A b \in Counter : b # c => WillShow(b)' = WillShow(b)
    BY <1>1, <2>1, <2>2, WillShowNext DEF WillShow
  <2>5. ASSUME c \notin missed'
        PROVE  (short(c) => c \in WillShow(c)') /\ (\A d \in WillShow(c)' : d \in Counter /\ short(d))
    <3>1. \A d : d \in WillShow(c)' <=> d \in Counter /\ Shows(own, pushed[c], d)
      <4>1. alerts'[c] = own /\ pushed'[c] = pushed[c]
        BY <1>1, <2>1, <2>2
      <4> HIDE DEF own
      <4> QED BY <4>1, WillShowNext
    <3>2. CASE pushed[c] = <<>>
      <4>1. \A d : Shows(own, pushed[c], d) <=> d = c /\ short(c)
        BY <2>3, <3>2, ShowsNoNews
      <4> QED BY <1>1, <3>1, <4>1
    <3>3. CASE pushed[c] # <<>>
      <4>1. c \notin missed
        BY <2>1, <2>5, <3>3
      <4>2. (short(c) => c \in WillShow(c)) /\ (\A d \in WillShow(c) : d \in Counter /\ short(d))
        BY <1>1, <1>2, <4>1 DEF MirrorInv, ShowsOwnShortage, ShowsTrueShortages, WillShow
      <4>3. ASSUME NEW d, \E i \in DOMAIN pushed[c] : Tells(pushed[c][i], d)
            PROVE  Shows(own, pushed[c], d) <=> Shows(alerts[c], pushed[c], d)
        BY <4>3 DEF Shows
      <4>4. ASSUME NEW d, ~ \E i \in DOMAIN pushed[c] : Tells(pushed[c][i], d)
            PROVE  Shows(own, pushed[c], d) <=> d = c /\ short(c)
        BY <2>3, <4>4 DEF Shows
      <4>5. short(c) => c \in WillShow(c)'
        BY <1>1, <3>1, <4>2, <4>3, <4>4 DEF WillShow
      <4>6. ASSUME NEW d \in WillShow(c)' PROVE d \in Counter /\ short(d)
        BY <3>1, <4>2, <4>3, <4>4, <4>6 DEF WillShow
      <4> QED BY <4>5, <4>6
    <3> QED BY <3>2, <3>3
  <2>6. \A d : IsShort(row, want, d)' <=> short(d)
    BY <1>1, ShortIs
  <2> HIDE DEF short, own
  <2>7. \A b \in Counter : b # c /\ b \notin missed' => b \notin missed
    BY <2>1
  <2>8. ShowsOpenLines'
    <3>1. \A d \in Counter : short(d) => want[d] > 0
      BY <1>1, ShortIsOpen DEF short
    <3>2. ASSUME NEW b \in Counter \ missed' PROVE WillShow(b)' \subseteq {d \in Counter : want[d] > 0}
      <4>1. CASE b = c
        BY <2>5, <3>1, <3>2, <4>1
      <4>2. CASE b # c
        BY <2>4, <2>7, <3>2, <4>2 DEF MirrorInv, ShowsOpenLines
      <4> QED BY <4>1, <4>2
    <3> QED BY <1>1, <3>2 DEF ShowsOpenLines
  <2>9. ShowsOwnShortage'
    <3>1. ASSUME NEW b \in Counter \ missed', short(b) PROVE b \in WillShow(b)'
      <4>1. CASE b = c
        BY <2>5, <3>1, <4>1
      <4>2. CASE b # c
        BY <1>2, <2>4, <2>7, <3>1, <4>2 DEF MirrorInv, ShowsOwnShortage, short
      <4> QED BY <4>1, <4>2
    <3> QED BY <2>6, <3>1 DEF ShowsOwnShortage
  <2>10. ShowsTrueShortages'
    <3>1. ASSUME NEW b \in Counter \ missed', NEW d \in WillShow(b)' PROVE short(d)
      <4>1. CASE b = c
        BY <2>5, <3>1, <4>1
      <4>2. CASE b # c
        BY <1>2, <2>4, <2>7, <3>1, <4>2 DEF MirrorInv, ShowsTrueShortages, short
      <4> QED BY <4>1, <4>2
    <3> QED BY <2>6, <3>1 DEF ShowsTrueShortages
  <2> QED BY <2>8, <2>9, <2>10 DEF ShowsInv
<1> QED BY <1>3, <1>4

-----------------------------------------------------------------------------
(* The theorems.                                                           *)

LEMMA MirrorInitInv == MirrorInit => MirrorInv
<1> SUFFICES ASSUME MirrorInit PROVE MirrorInv
  OBVIOUS
<1>1. MirrorRecords
  BY MirrorInitRecords
<1>2. \A c \in Counter : WillShow(c) = {}
  <2>1. \A c \in Counter : pushed[c] = <<>> /\ alerts[c] = {}
    BY DEF MirrorInit
  <2> QED BY <2>1, ShowsNoNews DEF WillShow
<1>3. \A c \in Counter : ~IsShort(row, want, c)
  <2>1. \A c \in Counter : want[c] = 0
    BY DEF MirrorInit
  <2> QED BY <1>1, <2>1, ShortIsOpen
<1> QED BY <1>1, <1>2, <1>3 DEF MirrorInv, ShowsOpenLines, ShowsOwnShortage, ShowsTrueShortages

LEMMA MirrorStep ==
  ASSUME MirrorInv, [MirrorNext]_mirrorVars
  PROVE  MirrorInv'
<1>1. CASE UNCHANGED mirrorVars
  <2>1. UNCHANGED <<row, want, oldest, mirror, op, pushed, alerts, missed, said, paying>>
    BY <1>1 DEF mirrorVars
  <2>2. MirrorRecords'
    BY <2>1 DEF MirrorInv, MirrorRecords, RowOK, LinesOK, OpOK, ScreensOK, Distinct, ToSet
  <2>3. ShowsInv'
    <3>1. \A c \in Counter : WillShow(c)' = WillShow(c)
      BY <2>1, WillShowNext DEF WillShow
    <3>2. OpAtRest' => OpAtRest
      BY <2>1 DEF OpAtRest
    <3> QED BY <2>1, <3>1, <3>2, ShowsTheSame
  <2> QED BY <2>2, <2>3 DEF MirrorInv, ShowsInv
<1>2. CASE MirrorNext
  <2>1. MirrorRecords' /\ MirrorRecords
    BY <1>2, RecordsStep DEF MirrorInv
  <2>2. ASSUME UNCHANGED <<row, want, oldest, pushed, alerts, missed>>, OpAtRest' => OpAtRest
        PROVE  ShowsInv'
    <3>1. \A c \in Counter : WillShow(c)' = WillShow(c)
      BY <2>2, WillShowNext DEF WillShow
    <3> QED BY <2>2, <3>1, ShowsTheSame
  <2>3. ASSUME NEW c \in Counter, NEW n \in 0 .. MaxWant, ChangeLine(c, n) PROVE ShowsInv'
    <3>1. OpAtRest
      BY <2>3 DEF ChangeLine, Begin, OpAtRest, NoOp
    <3> QED BY <2>2, <2>3, <3>1 DEF ChangeLine
  <2>4. ASSUME NEW c \in Counter, Cut(c) PROVE ShowsInv'
    <3>1. \A b \in Counter \ missed' : WillShow(b)' = WillShow(b)
      <4>1. \A b \in Counter : b # c => pushed'[b] = pushed[b]
        BY <2>1, <2>4 DEF Cut, MirrorRecords, ScreensOK
      <4>2. c \in missed' /\ alerts' = alerts
        BY <2>4 DEF Cut
      <4> QED BY <4>1, <4>2, WillShowNext DEF WillShow
    <3>2. UNCHANGED <<row, want, oldest, op>> /\ missed \subseteq missed'
      BY <2>4 DEF Cut
    <3> QED BY <3>1, <3>2, ShowsTheSame DEF OpAtRest
  <2>5. ASSUME NEW c \in Counter, Receive(c) PROVE ShowsInv'
    <3>1. /\ UNCHANGED <<row, want, oldest, op, missed>> /\ pushed[c] # <<>> /\ pushed[c] \in Seq(News)
          /\ pushed' = [pushed EXCEPT ![c] = Tail(pushed[c])]
          /\ alerts' = [alerts EXCEPT ![c] = AlertsAfter(alerts[c], Head(pushed[c]))]
          /\ DOMAIN pushed = Counter /\ DOMAIN alerts = Counter
      BY <2>1, <2>5 DEF Receive, MirrorRecords, ScreensOK
    <3>2. ASSUME NEW b \in Counter PROVE WillShow(b)' = WillShow(b)
      <4>1. CASE b = c
        <5>1. pushed'[c] = Tail(pushed[c]) /\ alerts'[c] = AlertsAfter(alerts[c], Head(pushed[c]))
          BY <3>1
        <5>2. \A d \in Counter : Shows(alerts'[c], pushed'[c], d) <=> Shows(alerts[c], pushed[c], d)
          BY <3>1, <5>1, ShowsAfterReceipt
        <5> QED BY <4>1, <5>2, WillShowNext DEF WillShow
      <4>2. CASE b # c
        BY <3>1, <4>2, WillShowNext DEF WillShow
      <4> QED BY <4>1, <4>2
    <3> QED BY <3>1, <3>2, ShowsTheSame DEF OpAtRest
  <2>6. ASSUME NEW c \in Counter, StartPaying(c) \/ StopPaying(c) PROVE ShowsInv'
    BY <2>2, <2>6 DEF StartPaying, StopPaying, OpAtRest
  <2>7. ASSUME NEW c \in Counter, Heartbeat(c) \/ ChangeDiscount(c) PROVE ShowsInv'
    <3>1. Touch(c)
      BY <2>7 DEF Heartbeat, ChangeDiscount
    <3>2. OpAtRest' => OpAtRest
      BY <2>7 DEF Heartbeat, ChangeDiscount, OpAtRest, NoOp
    <3> QED BY <2>1, <3>1, <3>2, TouchStep
  <2>8. ASSUME ReleaseOld \/ SetMirror PROVE ShowsInv'
    <3>1. ~OpAtRest'
      BY <2>1, <2>8, OpAtRestNext DEF ReleaseOld, SetMirror, SetNext, MirrorRecords, OpOK, OpRecord
    <3>2. UNCHANGED <<want, pushed, alerts, missed>>
      BY <2>8 DEF ReleaseOld, SetMirror, Silent
    <3>3. \A b \in Counter : WillShow(b)' = WillShow(b)
      BY <3>2, WillShowNext DEF WillShow
    <3>4. ShowsOpenLines'
      BY <3>2, <3>3 DEF MirrorInv, ShowsOpenLines
    <3> QED BY <3>1, <3>4 DEF ShowsInv, ShowsOwnShortage, ShowsTrueShortages
  <2>9. ASSUME RepairMirror PROVE ShowsInv'
    <3>1. UNCHANGED <<row, want, oldest, op, alerts, missed>> /\ Publish(<<PoolNews(row)>>)
      BY <2>9 DEF RepairMirror
    <3>2. \A b \in Counter : WillShow(b)' = IF Free(row) > 0 THEN {} ELSE WillShow(b)
      BY <2>1, <3>1, PoolPushed
    <3>3. CASE Free(row) > 0
      BY <3>1, <3>2, <3>3, ShowsNothing
    <3>4. CASE ~(Free(row) > 0)
      BY <3>1, <3>2, <3>4, ShowsTheSame DEF OpAtRest
    <3> QED BY <3>3, <3>4
  <2>10. ASSUME ServerStops PROVE ShowsInv'
    <3>1. missed' = Counter
      BY <2>10 DEF ServerStops
    <3> QED BY <3>1 DEF ShowsInv, ShowsOpenLines, ShowsOwnShortage, ShowsTrueShortages
  <2>11. ShowsInv'
    BY <1>2, <2>1, <2>3, <2>4, <2>5, <2>6, <2>7, <2>8, <2>9, <2>10, BillsClose, ReserveStep, ReconcileStep, AnswerStep
    DEF MirrorNext
  <2> QED BY <2>1, <2>11 DEF MirrorInv, ShowsInv
<1> QED BY <1>1, <1>2

LEMMA MirrorRecordsType == MirrorRecords => MirrorTypeOK
  BY MirrorAssumption DEF MirrorRecords, RowOK, LinesOK, OpOK, ScreensOK, MirrorTypeOK

\* The types: what is reserved of the batch is never more than what is on hand, and the order
\* of the open lines names each of them.
THEOREM MirrorTypes == MirrorSpec => []MirrorTypeOK
<1>1. MirrorInv => MirrorTypeOK
  BY MirrorRecordsType DEF MirrorInv
<1> QED BY <1>1, MirrorInitInv, MirrorStep, PTL DEF MirrorSpec

\* The screens show shortages that are over to nobody who missed nothing and whose own line is
\* reserved: what the top-up, the closing of bills and the answers publish is enough for it,
\* whatever order the snapshots, the edits of other counters and the repairs come in.
THEOREM NoShortageOutlivesItself == MirrorSpec => []AlertsAreTrue
<1>1. MirrorInv => AlertsAreTrue
  <2> SUFFICES ASSUME MirrorInv, op = NoOp, NEW c \in Counter, c \notin missed, pushed[c] = <<>>, NEW d \in alerts[c]
               PROVE  IsShort(row, want, d)
    BY DEF AlertsAreTrue
  <2>1. OpAtRest
    BY DEF OpAtRest, NoOp
  <2>2. d \in Counter
    BY DEF MirrorInv, MirrorRecords, ScreensOK
  <2>3. d \in WillShow(c)
    BY <2>2, ShowsNoNews DEF WillShow
  <2> QED BY <2>1, <2>3 DEF MirrorInv, ShowsTrueShortages
<1> QED BY <1>1, MirrorInitInv, MirrorStep, PTL DEF MirrorSpec

\* A counter whose own line is short is shown it.
THEOREM OwnShortagesAreShown == MirrorSpec => []OwnShortageShown
<1>1. MirrorInv => OwnShortageShown
  <2> SUFFICES ASSUME MirrorInv, op = NoOp, NEW c \in Counter, c \notin missed, pushed[c] = <<>>, IsShort(row, want, c)
               PROVE  c \in alerts[c]
    BY DEF OwnShortageShown
  <2>1. OpAtRest
    BY DEF OpAtRest, NoOp
  <2>2. c \in WillShow(c)
    BY <2>1 DEF MirrorInv, ShowsOwnShortage
  <2> QED BY <2>2, ShowsNoNews DEF WillShow
<1> QED BY <1>1, MirrorInitInv, MirrorStep, PTL DEF MirrorSpec

-----------------------------------------------------------------------------
(* ProductFinder.  The catalogue: what its rows show of which products.    *)

RowsOf(ps) == [id : ps, bar : {Label[q].bar : q \in ps}, lots : SUBSET Lot]

LEMMA MinIs == ASSUME NEW I \in SUBSET Nat, I # {} PROVE Min(I) \in I
  BY SmallestNumber DEF Min

LEMMA NumbersSorted ==
  ASSUME NEW S \in SUBSET Item
  PROVE  Sorted(S, <) \in SetToSeqs(S)
<1> DEFINE R == {xy \in S \X S : xy[1] < xy[2]}
<1>1. IsFiniteSet(S) /\ S \subseteq Nat
  BY FinderAssumption, FS_Subset
<1>2. \A x, y \in S : <<x, y>> \in R <=> x < y
  OBVIOUS
<1> HIDE DEF R
<1>3. Orders(R, S)
  BY <1>1, <1>2 DEF Orders
<1>4. PICK s \in SetToSeqs(S) : InOrder(R, s)
  BY <1>1, <1>3, SortedExists
<1>5. \A i \in DOMAIN s : s[i] \in S
  BY DEF SetToSeqs
<1>6. \A i, j \in DOMAIN s : i < j => s[i] < s[j]
  BY <1>2, <1>4, <1>5 DEF InOrder
<1> QED BY <1>6 DEF Sorted

LEMMA ByExpiryIs ==
  ASSUME NEW S \in SUBSET Lot
  PROVE  /\ ByExpiry(S) \in Seq(S) /\ DOMAIN ByExpiry(S) = 1 .. Cardinality(S)
         /\ Cardinality(S) \in Nat /\ Cardinality(Lot) \in Nat /\ Cardinality(S) <= Cardinality(Lot)
         /\ S # {} => ByExpiry(S)[1] \in S
<1> DEFINE R == {xy \in S \X S : Earlier(xy[1], xy[2])}
<1>1. IsFiniteSet(S) /\ S \subseteq Nat /\ \A l \in S : Tag[l].exp \in Nat
  BY FinderAssumption, FS_Subset
<1>2. \A x, y \in S : <<x, y>> \in R <=> Earlier(x, y)
  OBVIOUS
<1> HIDE DEF R
<1>3. Orders(R, S)
  <2>1. \A x, y \in S : x # y => Earlier(x, y) \/ Earlier(y, x)
    BY <1>1 DEF Earlier
  <2>2. \A x, y, z \in S : Earlier(x, y) /\ Earlier(y, z) => Earlier(x, z)
    BY <1>1 DEF Earlier
  <2> QED BY <1>2, <2>1, <2>2 DEF Orders
<1>4. PICK s \in SetToSeqs(S) : InOrder(R, s)
  BY <1>1, <1>3, SortedExists
<1>5. \A i \in DOMAIN s : s[i] \in S
  BY DEF SetToSeqs
<1>6. \A i, j \in DOMAIN s : i < j => Earlier(s[i], s[j])
  BY <1>2, <1>4, <1>5 DEF InOrder
<1>7. ByExpiry(S) \in SetToSeqs(S)
  BY <1>6 DEF ByExpiry, Sorted
<1>8. /\ ByExpiry(S) \in Seq(S) /\ DOMAIN ByExpiry(S) = 1 .. Cardinality(S)
      /\ Cardinality(S) \in Nat /\ (S # {} => Cardinality(S) \in Nat \ {0})
  BY <1>1, <1>7, SequencesOf
<1>9. Cardinality(Lot) \in Nat /\ Cardinality(S) <= Cardinality(Lot)
  BY FinderAssumption, FS_Subset, FS_CardinalityType
<1>10. S # {} => 1 \in DOMAIN ByExpiry(S)
  BY <1>8
<1> QED BY <1>8, <1>9, <1>10

LEMMA MergeRowIs ==
  ASSUME NEW ps \in SUBSET Item, NEW r \in RowsOf(ps), NEW p \in ps
  PROVE  MergeRow(r, p) \in RowsOf(ps) /\ FirstRow(p) \in RowsOf(ps)
<1>1. OnOffer(p) \in SUBSET Lot
  BY DEF OnOffer, LotsOf
<1>2. r.id \in ps /\ r.bar \in {Label[q].bar : q \in ps} /\ r.lots \in SUBSET Lot
  BY DEF RowsOf
<1>3. Label[p].bar \in {Label[q].bar : q \in ps}
  OBVIOUS
<1>4. \A b \in {Label[q].bar : q \in ps} : (IF b = NoCode THEN Label[p].bar ELSE b) \in {Label[q].bar : q \in ps}
  BY <1>3
<1>5. MergeRow(r, p) \in RowsOf(ps)
  BY <1>1, <1>2, <1>3, <1>4 DEF MergeRow, RowsOf
<1> QED BY <1>1, <1>3, <1>5 DEF FirstRow, RowsOf

LEMMA FirstRowIs ==
  ASSUME NEW ps \in SUBSET Item, NEW p \in ps
  PROVE  FirstRow(p) \in RowsOf(ps)
  BY DEF FirstRow, RowsOf, OnOffer, LotsOf

\* Of the products that are shown as one, a row has the name of one and the code of one.
LEMMA MergedRowIs ==
  ASSUME NEW ps \in SUBSET Item, ps # {}
  PROVE  MergedRow(ps) \in RowsOf(ps)
<1> DEFINE order == Sorted(ps, <)
           N == Cardinality(ps)
           line == CHOOSE g : g = [n \in DOMAIN order |-> IF n = 1 THEN FirstRow(order[1]) ELSE MergeRow(g[n - 1], order[n])]
           next == [n \in 1 .. N |-> [r \in RowsOf(ps) |-> MergeRow(r, order[n])]]
           Bad == {n \in 1 .. N : line[n] \notin RowsOf(ps)}
<1>1. MergedRow(ps) = line[Len(order)]
  BY DEF MergedRow
<1>2. /\ order \in Seq(ps) /\ Len(order) = N /\ DOMAIN order = 1 .. N /\ N \in Nat \ {0}
  <2>1. IsFiniteSet(ps) /\ order \in SetToSeqs(ps)
    BY NumbersSorted, FinderAssumption, FS_Subset
  <2> QED BY <2>1, SequencesOf
<1> HIDE DEF order, N
<1>3. \A n \in 1 .. N : order[n] \in ps
  BY <1>2
<1>4. FirstRow(order[1]) \in RowsOf(ps)
  BY <1>2, <1>3, FirstRowIs
<1>5. next \in [1 .. N -> [RowsOf(ps) -> RowsOf(ps)]]
  BY <1>3, MergeRowIs
<1>6. \E g : g = [n \in DOMAIN order |-> IF n = 1 THEN FirstRow(order[1]) ELSE MergeRow(g[n - 1], order[n])]
  <2>1. PICK g \in [1 .. N -> RowsOf(ps)] : Steps(N, FirstRow(order[1]), next, g)
    <3> HIDE DEF next
    <3>1. N \in Nat /\ N <= N
      BY <1>2
    <3> QED BY <3>1, <1>4, <1>5, StepsExist
  <2>2. ASSUME NEW n \in 1 .. N
        PROVE  g[n] = IF n = 1 THEN FirstRow(order[1]) ELSE MergeRow(g[n - 1], order[n])
    <3>1. g[n] = IF n = 1 THEN FirstRow(order[1]) ELSE next[n][g[n - 1]]
      BY <2>1 DEF Steps
    <3>2. n # 1 => g[n - 1] \in RowsOf(ps)
      <4>1. n # 1 => n - 1 \in 1 .. N
        BY <1>2
      <4> QED BY <4>1
    <3>3. n # 1 => next[n][g[n - 1]] = MergeRow(g[n - 1], order[n])
      BY <3>2
    <3> QED BY <3>1, <3>3
  <2>3. g = [n \in DOMAIN order |-> g[n]]
    BY <1>2
  <2> QED BY <1>2, <2>2, <2>3
<1>7. line = [n \in DOMAIN order |-> IF n = 1 THEN FirstRow(order[1]) ELSE MergeRow(line[n - 1], order[n])]
  BY <1>6
<1> HIDE DEF line
<1>8. Bad = {}
  <2> SUFFICES ASSUME Bad # {} PROVE FALSE
    OBVIOUS
  <2>1. Bad \in SUBSET Nat
    BY <1>2
  <2> HIDE DEF Bad
  <2>2. PICK k \in Bad : \A m \in Bad : k <= m
    BY <2>1, SmallestNumber
  <2>3. k \in 1 .. N /\ line[k] \notin RowsOf(ps)
    BY <2>2 DEF Bad
  <2>4. k # 1
    BY <1>2, <1>4, <1>7, <2>3
  <2>5. k - 1 \in 1 .. N /\ ~(k <= k - 1)
    BY <1>2, <2>3, <2>4
  <2>6. line[k - 1] \in RowsOf(ps)
    BY <2>2, <2>5 DEF Bad
  <2>7. line[k] = MergeRow(line[k - 1], order[k])
    BY <1>2, <1>7, <2>3, <2>4
  <2> QED BY <1>3, <2>3, <2>6, <2>7, MergeRowIs
<1>9. N \in 1 .. N
  BY <1>2
<1> QED BY <1>1, <1>2, <1>8, <1>9

\* The rows are of products with one key each, and of the products with that key the name is
\* one's and the barcode is one's.
CatRow == [id : Item, bar : {Label[q].bar : q \in Item}, lots : SUBSET Lot]
OneKey(r) == \E q \in Item : r.bar = Label[q].bar /\ CatalogKey(q) = CatalogKey(r.id)

LEMMA CatalogueIs ==
  ASSUME NEW term
  PROVE  /\ Catalogue(term) \in Seq(CatRow)
         /\ \A i \in DOMAIN Catalogue(term) : OneKey(Catalogue(term)[i]) /\ Catalogue(term)[i].lots # {}
<1> DEFINE hits == {p \in Item : Matches(p, term)}
           alike(p) == {q \in hits : CatalogKey(q) = CatalogKey(p)}
           rows == {MergedRow({q \in hits : CatalogKey(q) = CatalogKey(p)}) : p \in hits}
           S == {r \in rows : r.lots # {}}
           R == {xy \in S \X S : xy[1].id < xy[2].id}
<1>1. \A p \in hits : alike(p) \in SUBSET Item /\ alike(p) # {}
  OBVIOUS
<1>2. \A p \in hits : MergedRow(alike(p)) \in RowsOf(alike(p))
  BY <1>1, MergedRowIs
<1>3. ASSUME NEW r \in rows
      PROVE  \E p \in hits : r = MergedRow(alike(p)) /\ r \in RowsOf(alike(p))
  BY <1>2
<1> HIDE DEF hits
<1>4. hits \in SUBSET Item
  BY DEF hits
<1>5. ASSUME NEW r \in rows PROVE r \in CatRow /\ OneKey(r) /\ r.id \in Nat
  <2>1. PICK p \in hits : r \in RowsOf(alike(p))
    BY <1>3
  <2>2. /\ r = [id |-> r.id, bar |-> r.bar, lots |-> r.lots]
        /\ r.id \in alike(p) /\ r.lots \in SUBSET Lot
        /\ \E q \in alike(p) : r.bar = Label[q].bar
    BY <2>1 DEF RowsOf
  <2>3. PICK q \in alike(p) : r.bar = Label[q].bar
    BY <2>2
  <2>4. q \in Item /\ r.id \in Item /\ CatalogKey(q) = CatalogKey(r.id)
    BY <1>4, <2>2, <2>3
  <2> QED BY <2>2, <2>3, <2>4, FinderAssumption DEF CatRow, OneKey
<1>6. IsFiniteSet(S)
  <2>1. IsFiniteSet(hits)
    BY <1>4, FinderAssumption, FS_Subset
  <2>2. IsFiniteSet(rows)
    <3> DEFINE f == [p \in hits |-> MergedRow(alike(p))]
    <3>1. f \in [hits -> rows] /\ \A r \in rows : \E p \in hits : f[p] = r
      OBVIOUS
    <3> HIDE DEF f, rows
    <3>2. f \in Surjection(hits, rows)
      BY <3>1 DEF Surjection
    <3> QED BY <2>1, <3>2, FS_Surjection
  <2> QED BY <2>2, FS_Subset
<1>7. ASSUME NEW r \in rows, NEW s \in rows, r.id = s.id PROVE r = s
  <2>1. PICK p \in hits : r = MergedRow(alike(p)) /\ r \in RowsOf(alike(p))
    BY <1>3
  <2>2. PICK q \in hits : s = MergedRow(alike(q)) /\ s \in RowsOf(alike(q))
    BY <1>3
  <2>3. r.id \in alike(p) /\ s.id \in alike(q)
    BY <2>1, <2>2 DEF RowsOf
  <2>4. CatalogKey(p) = CatalogKey(q)
    BY <1>7, <2>3
  <2>5. alike(p) = alike(q)
    BY <2>4
  <2> QED BY <2>1, <2>2, <2>5
<1> HIDE DEF rows
<1>8. \A x, y \in S : <<x, y>> \in R <=> x.id < y.id
  OBVIOUS
<1> HIDE DEF R
<1>9. Orders(R, S)
  <2>1. \A x, y \in S : x # y => x.id < y.id \/ y.id < x.id
    BY <1>5, <1>7
  <2>2. \A x, y, z \in S : x.id < y.id /\ y.id < z.id => x.id < z.id
    BY <1>5
  <2> QED BY <1>8, <2>1, <2>2 DEF Orders
<1>10. PICK s \in SetToSeqs(S) : InOrder(R, s)
  BY <1>6, <1>9, SortedExists
<1>11. \A i \in DOMAIN s : s[i] \in S
  BY DEF SetToSeqs
<1>12. \A i, j \in DOMAIN s : i < j => s[i].id < s[j].id
  BY <1>8, <1>10, <1>11 DEF InOrder
<1>13. Catalogue(term) \in SetToSeqs(S)
  BY <1>12 DEF Catalogue, Sorted, rows, hits
<1>14. Catalogue(term) \in Seq(S)
  BY <1>6, <1>13, SequencesOf
<1>15. \A r \in S : r \in CatRow /\ OneKey(r) /\ r.lots # {}
  BY <1>5
<1> HIDE DEF S
<1>16. Catalogue(term) \in Seq(CatRow)
  BY <1>14, <1>15, SeqMonotonic
<1>17. \A i \in DOMAIN Catalogue(term) : Catalogue(term)[i] \in S
  BY <1>14
<1> QED BY <1>15, <1>16, <1>17

-----------------------------------------------------------------------------
(* The invariant of the requests: what is appended is of the batch that    *)
(* was resolved, and nothing leaves the bill while an answer is awaited.   *)

Codes == {NoCode} \union Scanned
CartLine == [item : Item, lot : Lot, code : Codes]

\* A code that was scanned is one of the batch, or of a product with the key of the line's.
CodeFits(x) ==
  x.code # NoCode =>
    \/ Tag[x.lot].no = x.code
    \/ \E p \in Item : CatalogKey(p) = CatalogKey(x.item) /\ x.code \in {Label[p].bar, Label[p].sku}

ShelfOK ==
  /\ shelf = [items |-> shelf.items, lots |-> shelf.lots, free |-> shelf.free]
  /\ shelf.items \subseteq Item /\ shelf.lots \subseteq Lot /\ shelf.free \subseteq Lot
  /\ day = [today |-> day.today, stirs |-> day.stirs]
  /\ day.today \in 0 .. LastDay /\ day.stirs \in 0 .. MaxStir

ModalOK ==
  /\ finder = [open |-> finder.open, query |-> finder.query, found |-> finder.found, step |-> finder.step,
               picked |-> finder.picked, focus |-> finder.focus, asked |-> finder.asked]
  /\ finder.found \in Seq(CatRow) /\ finder.picked \in Seq(CatRow)
  /\ finder.step \in {"products", "batches"} /\ (finder.step = "batches" => finder.picked # <<>>)
  /\ finder.focus \in {1} \union (1 .. Cardinality(Lot))

RequestOK ==
  /\ \A k \in look : k.for = "scan" => k.term \in Scanned
  /\ put = [pc |-> put.pc, item |-> put.item, lot |-> put.lot, code |-> put.code, had |-> put.had]
  /\ put.pc \in {"idle", "line", "scan", "append"} /\ put.code \in Codes
  /\ put.pc = "line" => CodeFits(put)
  /\ put.pc = "append" => /\ put.item \in Item /\ put.lot \in Lot /\ Tag[put.lot].of = put.item /\ CodeFits(put)
                          /\ put.had <=> \E i \in DOMAIN cart : cart[i].lot = put.lot

CartOK ==
  /\ cart \in Seq(CartLine)
  /\ \A i \in DOMAIN cart : Tag[cart[i].lot].of = cart[i].item /\ CodeFits(cart[i])
  /\ \A i, j \in DOMAIN cart : cart[i].lot = cart[j].lot => i = j

FinderInv == ShelfOK /\ ModalOK /\ RequestOK /\ CartOK

LEMMA FinderInitInv == FinderInit => FinderInv
<1> SUFFICES ASSUME FinderInit PROVE FinderInv
  OBVIOUS
<1>1. ShelfOK
  BY FinderAssumption DEF FinderInit, ShelfOK
<1>2. ModalOK
  BY DEF FinderInit, ModalOK, Closed
<1>3. RequestOK
  BY DEF FinderInit, RequestOK, NoPut, Codes
<1>4. CartOK
  BY DEF FinderInit, CartOK
<1> QED BY <1>1, <1>2, <1>3, <1>4 DEF FinderInv

\* What changes neither the bill nor the request nor the scans under way.
LEMMA SameRequest ==
  ASSUME FinderInv, UNCHANGED <<put, cart>>, \A k \in look' : k.for = "scan" => k.term \in Scanned
  PROVE  RequestOK' /\ CartOK'
  BY DEF FinderInv, RequestOK, CartOK, CodeFits

LEMMA SameShelf == ASSUME FinderInv, UNCHANGED <<shelf, day>> PROVE ShelfOK'
  BY DEF FinderInv, ShelfOK

LEMMA SameModal == ASSUME FinderInv, UNCHANGED finder PROVE ModalOK'
  BY DEF FinderInv, ModalOK

LEMMA FirstSafeIs ==
  ASSUME NEW S \in SUBSET Lot
  PROVE  FirstSafe(S) \in {1} \union (1 .. Cardinality(Lot))
<1> DEFINE order == ByExpiry(S)
           safe == {i \in DOMAIN order : Tag[order[i]].exp >= day.today}
<1>1. safe \in SUBSET (1 .. Cardinality(Lot)) /\ safe \in SUBSET Nat
  BY ByExpiryIs
<1>2. CASE safe = {}
  BY <1>2 DEF FirstSafe
<1>3. CASE safe # {}
  <2>1. FirstSafe(S) = CHOOSE i \in safe : \A j \in safe : i <= j
    BY <1>3 DEF FirstSafe
  <2> HIDE DEF safe
  <2>2. \E i \in safe : \A j \in safe : i <= j
    BY <1>1, <1>3, SmallestNumber
  <2> QED BY <1>1, <2>1, <2>2
<1> QED BY <1>2, <1>3

LEMMA LotsShownIs ==
  ASSUME FinderInv, NEW r \in CatRow, finder' = LotsShown(r)
  PROVE  ModalOK'
<1>1. r.lots \in SUBSET Lot
  BY DEF CatRow
<1>2. FirstSafe(r.lots) \in {1} \union (1 .. Cardinality(Lot))
  BY <1>1, FirstSafeIs
<1>3. <<r>> \in Seq(CatRow) /\ <<r>> # <<>>
  OBVIOUS
<1> QED BY <1>2, <1>3 DEF FinderInv, ModalOK, LotsShown

\* The modal.
LEMMA FinderModalStep ==
  ASSUME FinderInv, NEW k,
         \/ OpenFinder \/ CloseFinder \/ OpenLots \/ RefreshLots
         \/ \E term \in Typed : TypeQuery(term)
         \/ \E i \in 1 .. Cardinality(Lot) : MoveFocus(i)
         \/ ModalFound(k)
  PROVE  FinderInv'
<1>1. UNCHANGED <<shelf, day, put, cart>>
  BY DEF OpenFinder, CloseFinder, OpenLots, RefreshLots, TypeQuery, MoveFocus, ModalFound
<1>2. \A q \in look' : q \in look \/ q.for = "modal"
  <2>1. ASSUME NEW term, NEW sub, Ask(term, sub) PROVE \A q \in look' : q \in look \/ q.for = "modal"
    BY <2>1 DEF Ask
  <2>2. \/ UNCHANGED look \/ look' = look \ {k} \/ \E term, sub : Ask(term, sub)
    BY DEF OpenFinder, CloseFinder, OpenLots, RefreshLots, TypeQuery, MoveFocus, ModalFound
  <2> QED BY <2>1, <2>2
<1>3. RequestOK' /\ CartOK'
  BY <1>1, <1>2, SameRequest DEF FinderInv, RequestOK
<1>4. ModalOK'
  <2>0. <<>> \in Seq(CatRow)
    BY EmptySeq
  <2>1. CASE OpenFinder
    <3>1. finder' = [open |-> TRUE, query |-> NoCode, found |-> <<>>, step |-> "products", picked |-> <<>>,
                     focus |-> 1, asked |-> NoCode]
      BY <2>1 DEF OpenFinder, Closed
    <3> QED BY <2>0, <3>1 DEF ModalOK
  <2>2. CASE CloseFinder
    <3>1. CASE finder.step = "batches"
      <4>1. finder' = [finder EXCEPT !.step = "products", !.picked = <<>>, !.focus = 1]
        BY <2>2, <3>1 DEF CloseFinder
      <4> QED BY <2>0, <4>1 DEF ModalOK, FinderInv
    <3>2. CASE finder.step # "batches"
      <4>1. finder' = [open |-> FALSE, query |-> NoCode, found |-> <<>>, step |-> "products", picked |-> <<>>,
                       focus |-> 1, asked |-> NoCode]
        BY <2>2, <3>2 DEF CloseFinder, Closed
      <4> QED BY <2>0, <4>1 DEF ModalOK
    <3> QED BY <3>1, <3>2
  <2>3. CASE OpenLots
    <3>1. PICK r : r = Cards[finder.focus] /\ finder' = LotsShown(r) /\ finder.focus \in DOMAIN Cards
      BY <2>3 DEF OpenLots
    <3>2. Cards \in Seq(CatRow)
      BY DEF Cards, FinderInv, ModalOK
    <3>3. r \in CatRow
      BY <3>1, <3>2
    <3> QED BY <3>1, <3>3, LotsShownIs
  <2>4. CASE RefreshLots
    BY <2>4 DEF RefreshLots, ModalOK, FinderInv
  <2>5. CASE \E term \in Typed : TypeQuery(term)
    BY <2>5 DEF TypeQuery, ModalOK, FinderInv
  <2>6. CASE \E i \in 1 .. Cardinality(Lot) : MoveFocus(i)
    BY <2>6 DEF MoveFocus, ModalOK, FinderInv
  <2>7. CASE ModalFound(k)
    <3> DEFINE cat == Catalogue(k.term)
               fresh == SelectInSeq(cat, LAMBDA r : r.id = k.sub)
               listed == IF finder.open /\ k.term = finder.asked THEN cat ELSE finder.found
               moved == finder.step = "products" /\ Len(listed) # Len(finder.found)
    <3>1. finder' = [finder EXCEPT !.found = listed,
                     !.picked = IF fresh = 0 THEN @ ELSE <<cat[fresh]>>,
                     !.focus = IF moved THEN 1 ELSE IF fresh = 0 THEN @ ELSE FocusAfter(cat[fresh])]
      BY <2>7 DEF ModalFound
    <3>2. cat \in Seq(CatRow)
      BY CatalogueIs
    <3>3. fresh # 0 => fresh \in DOMAIN cat
      <4> DEFINE I == {i \in 1 .. Len(cat) : cat[i].id = k.sub}
      <4>1. fresh = IF I # {} THEN Min(I) ELSE 0
        BY DEF SelectInSeq
      <4>2. I # {} => Min(I) \in I
        <5>1. I \in SUBSET Nat
          OBVIOUS
        <5> HIDE DEF I
        <5> QED BY <5>1, MinIs
      <4> QED BY <3>2, <4>1, <4>2
    <3> HIDE DEF fresh, cat
    <3>4. fresh # 0 => cat[fresh] \in CatRow
      BY <3>2, <3>3
    <3>5. listed \in Seq(CatRow)
      BY <3>2 DEF FinderInv, ModalOK
    <3>6. \A r \in CatRow : FocusAfter(r) \in {1} \union (1 .. Cardinality(Lot))
      <4>1. \A r \in CatRow : FirstSafe(r.lots) \in {1} \union (1 .. Cardinality(Lot))
        BY FirstSafeIs DEF CatRow
      <4> QED BY <4>1 DEF FocusAfter, FinderInv, ModalOK
    <3> DEFINE picked == IF fresh = 0 THEN finder.picked ELSE <<cat[fresh]>>
    <3>7. picked \in Seq(CatRow) /\ (finder.step = "batches" => picked # <<>>)
      BY <3>4 DEF FinderInv, ModalOK
    <3> DEFINE focus == IF moved THEN 1 ELSE IF fresh = 0 THEN finder.focus ELSE FocusAfter(cat[fresh])
    <3>8. focus \in {1} \union (1 .. Cardinality(Lot))
      BY <3>4, <3>6 DEF FinderInv, ModalOK
    <3>9. finder' = [finder EXCEPT !.found = listed, !.picked = picked, !.focus = focus]
      BY <3>1
    <3> HIDE DEF picked, focus, listed, moved
    <3> QED BY <3>5, <3>7, <3>8, <3>9 DEF FinderInv, ModalOK
  <2> QED BY <2>1, <2>2, <2>3, <2>4, <2>5, <2>6, <2>7
<1> QED BY <1>1, <1>3, <1>4, SameShelf DEF FinderInv

-----------------------------------------------------------------------------
(* The requests.                                                           *)

LEMMA AddBatchStep ==
  ASSUME FinderInv, AddBatch
  PROVE  FinderInv'
<1>1. /\ UNCHANGED <<shelf, day, look, cart>> /\ finder' = Closed
      /\ put' = Request(finder.picked[1].id, PickedLots[finder.focus], NoCode)
  BY DEF AddBatch
<1>2. ModalOK'
  BY <1>1, EmptySeq DEF Closed, ModalOK
<1>3. RequestOK'
  <2>1. /\ put'.pc = "line" /\ put'.code = NoCode
        /\ put' = [pc |-> put'.pc, item |-> put'.item, lot |-> put'.lot, code |-> put'.code, had |-> put'.had]
    BY <1>1 DEF Request
  <2> QED BY <1>1, <2>1 DEF FinderInv, RequestOK, CodeFits, Codes
<1>4. CartOK'
  BY <1>1 DEF FinderInv, CartOK, CodeFits
<1> QED BY <1>1, <1>2, <1>3, <1>4, SameShelf DEF FinderInv

LEMMA SearchScanStep ==
  ASSUME FinderInv, NEW code \in Scanned, SearchScan(code)
  PROVE  FinderInv'
<1>1. UNCHANGED <<shelf, day, finder, put, cart>>
      /\ look' = look \union {[for |-> "scan", term |-> code, sub |-> 0]}
  BY DEF SearchScan
<1>2. \A k \in look' : k.for = "scan" => k.term \in Scanned
  BY <1>1 DEF FinderInv, RequestOK
<1> QED BY <1>1, <1>2, SameRequest, SameShelf, SameModal DEF FinderInv

\* A row that was found by a code: the code is one of a product with the key of the row, or
\* it is the number of the batch that is taken.
LEMMA ResolveScanStep ==
  ASSUME FinderInv, NEW k \in look, ResolveScan(k)
  PROVE  FinderInv'
<1> DEFINE code == k.term
           cat == Catalogue(code)
           i == ScannedRow(code, cat)
           named == code \in {cat[i].bar, Label[cat[i].id].sku}
           lots == {l \in cat[i].lots : named \/ Tag[l].no = code}
<1>1. /\ k.for = "scan" /\ UNCHANGED <<shelf, day, cart>>
      /\ \/ /\ i = 0
            /\ put' = [NoPut EXCEPT !.pc = "scan", !.code = code]
            /\ look' = look \ {k} /\ UNCHANGED finder
         \/ /\ i # 0 /\ (Cardinality(lots) = 1 \/ ~named)
            /\ put' = Request(cat[i].id, ByExpiry(lots)[1], code)
            /\ look' = look \ {k} /\ UNCHANGED finder
         \/ /\ i # 0 /\ named /\ Cardinality(lots) > 1
            /\ finder' = LotsShown(cat[i])
            /\ look' = (look \ {k}) \union {[for |-> "modal", term |-> NameOf(cat[i]), sub |-> cat[i].id]}
            /\ UNCHANGED put
  BY DEF ResolveScan
<1>2. code \in Scanned
  BY <1>1 DEF FinderInv, RequestOK
<1>3. cat \in Seq(CatRow) /\ \A j \in DOMAIN cat : OneKey(cat[j]) /\ cat[j].lots # {}
  BY CatalogueIs
<1>4. i # 0 => i \in DOMAIN cat /\ (~named => \E l \in cat[i].lots : Tag[l].no = code)
  <2> DEFINE I1 == {j \in 1 .. Len(cat) : cat[j].bar = code}
             I2 == {j \in 1 .. Len(cat) : Label[cat[j].id].sku = code}
             I3 == {j \in 1 .. Len(cat) : \E l \in cat[j].lots : Tag[l].no = code}
  <2>1. i = IF (IF I1 # {} THEN Min(I1) ELSE 0) # 0 THEN (IF I1 # {} THEN Min(I1) ELSE 0)
            ELSE IF (IF I2 # {} THEN Min(I2) ELSE 0) # 0 THEN (IF I2 # {} THEN Min(I2) ELSE 0)
            ELSE (IF I3 # {} THEN Min(I3) ELSE 0)
    BY DEF ScannedRow, SelectInSeq
  <2>2. I1 \in SUBSET Nat /\ I2 \in SUBSET Nat /\ I3 \in SUBSET Nat
    OBVIOUS
  <2>3. (i \in I1 \/ i \in I2 \/ i \in I3) \/ i = 0
    <3> HIDE DEF I1, I2, I3, i
    <3> QED BY <2>1, <2>2, MinIs
  <2>4. DOMAIN cat = 1 .. Len(cat)
    BY <1>3
  <2> HIDE DEF i, cat
  <2> QED BY <2>3, <2>4
<1> HIDE DEF cat, i
<1>5. \A q \in look' : q.for = "scan" => q.term \in Scanned
  BY <1>1 DEF FinderInv, RequestOK
<1>6. CASE i = 0
  <2>1. put' = [pc |-> "scan", item |-> 0, lot |-> 0, code |-> code, had |-> FALSE] /\ UNCHANGED finder
    BY <1>1, <1>6 DEF NoPut
  <2>2. RequestOK'
    BY <1>2, <1>5, <2>1 DEF RequestOK, Codes
  <2>3. CartOK'
    BY <1>1 DEF FinderInv, CartOK, CodeFits
  <2> QED BY <1>1, <2>1, <2>2, <2>3, SameShelf, SameModal DEF FinderInv
<1>7. CASE i # 0 /\ (Cardinality(lots) = 1 \/ ~named) /\ put' = Request(cat[i].id, ByExpiry(lots)[1], code) /\ UNCHANGED finder
  <2>1. cat[i] \in CatRow /\ OneKey(cat[i])
    BY <1>3, <1>4, <1>7
  <2>2. put' = [pc |-> "line", item |-> cat[i].id, lot |-> ByExpiry(lots)[1], code |-> code, had |-> FALSE]
    BY <1>7 DEF Request
  <2>3. named => \E p \in Item : CatalogKey(p) = CatalogKey(cat[i].id) /\ code \in {Label[p].bar, Label[p].sku}
    BY <2>1 DEF OneKey, CatRow
  <2>4. ~named => Tag[ByExpiry(lots)[1]].no = code
    <3> SUFFICES ASSUME ~named PROVE Tag[ByExpiry(lots)[1]].no = code
      OBVIOUS
    <3>1. lots \in SUBSET Lot /\ lots # {} /\ \A l \in lots : Tag[l].no = code
      BY <1>4, <1>7, <2>1 DEF CatRow
    <3> HIDE DEF lots
    <3> QED BY <3>1, ByExpiryIs
  <2>5. CodeFits(put)'
    <3> HIDE DEF named, lots
    <3> QED BY <2>2, <2>3, <2>4 DEF CodeFits
  <2>6. RequestOK'
    <3> HIDE DEF named, lots
    <3> QED BY <1>2, <1>5, <2>2, <2>5 DEF RequestOK, Codes
  <2>7. CartOK'
    BY <1>1 DEF FinderInv, CartOK, CodeFits
  <2> QED BY <1>1, <1>7, <2>6, <2>7, SameShelf, SameModal DEF FinderInv
<1>8. CASE i # 0 /\ finder' = LotsShown(cat[i]) /\ UNCHANGED put
  <2>1. ModalOK'
    BY <1>3, <1>4, <1>8, LotsShownIs
  <2> QED BY <1>1, <1>5, <1>8, <2>1, SameRequest, SameShelf DEF FinderInv
<1> QED BY <1>1, <1>6, <1>7, <1>8

\* addProductLine() and scanLine() resolve the batch ...
LEMMA AddProductLineStep ==
  ASSUME FinderInv, AddProductLine
  PROVE  FinderInv'
<1>1. put.pc = "line" /\ UNCHANGED <<shelf, day, finder, look, cart>>
  BY DEF AddProductLine
<1>2. CASE put' = NoPut
  BY <1>1, <1>2, SameShelf, SameModal DEF FinderInv, RequestOK, CartOK, CodeFits, NoPut, Codes
<1>3. CASE put.item \in shelf.items /\ ResolveBatch(put.item, put.lot)
           /\ put' = [put EXCEPT !.pc = "append", !.had = \E j \in DOMAIN cart : cart[j].lot = put.lot]
  <2> DEFINE had == \E j \in DOMAIN cart : cart[j].lot = put.lot
  <2>1. put.item \in Item /\ put.lot \in Lot /\ Tag[put.lot].of = put.item
    BY <1>3 DEF FinderInv, ShelfOK, ResolveBatch, LotsOf
  <2>2. put' = [pc |-> "append", item |-> put.item, lot |-> put.lot, code |-> put.code, had |-> had]
    <3> HIDE DEF had
    <3> QED BY <1>3 DEF FinderInv, RequestOK, had
  <2> HIDE DEF had
  <2>3. CodeFits(put)'
    BY <1>1, <2>2 DEF FinderInv, RequestOK, CodeFits
  <2>4. RequestOK'
    BY <1>1, <2>1, <2>2, <2>3 DEF FinderInv, RequestOK, had
  <2>5. CartOK'
    BY <1>1 DEF FinderInv, CartOK, CodeFits
  <2> QED BY <1>1, <2>4, <2>5, SameShelf, SameModal DEF FinderInv
<1> QED BY <1>2, <1>3 DEF AddProductLine

LEMMA ScanLineStep ==
  ASSUME FinderInv, ScanLine
  PROVE  FinderInv'
<1>1. put.pc = "scan" /\ UNCHANGED <<shelf, day, finder, look, cart>>
  BY DEF ScanLine
<1>2. CASE put' = NoPut
  BY <1>1, <1>2, SameShelf, SameModal DEF FinderInv, RequestOK, CartOK, CodeFits, NoPut, Codes
<1>3. ASSUME NEW p \in {q \in shelf.items : Label[q].bar = put.code}, NEW l \in FifoLots(p),
             put' = [put EXCEPT !.pc = "append", !.item = Tag[l].of, !.lot = l,
                                !.had = \E j \in DOMAIN cart : cart[j].lot = l]
      PROVE  FinderInv'
  <2> DEFINE had == \E j \in DOMAIN cart : cart[j].lot = l
  <2>1. p \in Item /\ l \in Lot /\ Tag[l].of = p /\ Label[p].bar = put.code
    BY <1>3 DEF FinderInv, ShelfOK, FifoLots, LotsOf
  <2>2. put' = [pc |-> "append", item |-> p, lot |-> l, code |-> put.code, had |-> had]
    <3> HIDE DEF had
    <3> QED BY <1>3, <2>1 DEF FinderInv, RequestOK, had
  <2> HIDE DEF had
  <2>3. CodeFits(put)'
    BY <2>1, <2>2 DEF CodeFits
  <2>4. RequestOK'
    BY <1>1, <2>1, <2>2, <2>3 DEF FinderInv, RequestOK, had
  <2>5. CartOK'
    BY <1>1 DEF FinderInv, CartOK, CodeFits
  <2> QED BY <1>1, <2>4, <2>5, SameShelf, SameModal DEF FinderInv
<1> DEFINE ps == {p \in shelf.items : Label[p].bar = put.code}
           lots == UNION {FifoLots(p) : p \in ps}
<1>4. \/ put' = NoPut
      \/ \E l \in lots : put' = [put EXCEPT !.pc = "append", !.item = Tag[l].of, !.lot = l,
                                            !.had = \E j \in DOMAIN cart : cart[j].lot = l]
  BY DEF ScanLine
<1>5. \A l \in lots : \E p \in ps : l \in FifoLots(p)
  OBVIOUS
<1> HIDE DEF lots
<1> QED BY <1>2, <1>3, <1>4, <1>5

\* ... and appendBillLine() appends it, unless the bill has a line of it.
LEMMA AppendBillLineStep ==
  ASSUME FinderInv, AppendBillLine
  PROVE  FinderInv'
<1> DEFINE line == [item |-> put.item, lot |-> put.lot, code |-> put.code]
<1>1. put.pc = "append" /\ put' = NoPut /\ UNCHANGED <<shelf, day, finder, look>>
      /\ cart' = IF put.had THEN cart ELSE Append(cart, line)
  BY DEF AppendBillLine
<1>2. RequestOK'
  BY <1>1 DEF FinderInv, RequestOK, NoPut, Codes
<1>3. CASE put.had
  BY <1>1, <1>2, <1>3, SameShelf, SameModal DEF FinderInv, CartOK, CodeFits
<1>4. CASE ~put.had
  <2>1. /\ line \in CartLine /\ Tag[line.lot].of = line.item /\ CodeFits(line)
        /\ \A j \in DOMAIN cart : cart[j].lot # line.lot
    BY <1>1, <1>4 DEF FinderInv, RequestOK, CodeFits, CartLine
  <2>2. cart \in Seq(CartLine)
    BY DEF FinderInv, CartOK
  <2> HIDE DEF line
  <2>3. /\ cart' \in Seq(CartLine) /\ Len(cart) \in Nat /\ DOMAIN cart = 1 .. Len(cart)
        /\ DOMAIN cart' = 1 .. Len(cart) + 1
        /\ \A j \in 1 .. Len(cart) : cart'[j] = cart[j]
        /\ cart'[Len(cart) + 1] = line
    BY <1>1, <1>4, <2>1, <2>2
  <2>4. \A j \in DOMAIN cart' : j = Len(cart) + 1 \/ j \in DOMAIN cart
    BY <2>3
  <2>5. CartOK'
    <3>1. \A j \in DOMAIN cart' : Tag[cart'[j].lot].of = cart'[j].item /\ CodeFits(cart'[j])
      BY <2>1, <2>3, <2>4 DEF FinderInv, CartOK
    <3>2. \A i, j \in DOMAIN cart' : cart'[i].lot = cart'[j].lot => i = j
      BY <2>1, <2>3, <2>4 DEF FinderInv, CartOK
    <3> QED BY <2>3, <3>1, <3>2 DEF CartOK, CodeFits
  <2> QED BY <1>1, <1>2, <2>5, SameShelf, SameModal DEF FinderInv
<1> QED BY <1>3, <1>4

LEMMA RemoveCartLineStep ==
  ASSUME FinderInv, NEW n \in DOMAIN cart, RemoveCartLine(n)
  PROVE  FinderInv'
<1>1. cart' = RemoveAt(cart, n) /\ put.pc = "idle" /\ UNCHANGED <<shelf, day, finder, look, put>>
  BY DEF RemoveCartLine, Waiting
<1>2. RequestOK'
  BY <1>1 DEF FinderInv, RequestOK
<1>3. CartOK'
  <2>1. cart \in Seq(CartLine) /\ Len(cart) \in Nat /\ DOMAIN cart = 1 .. Len(cart)
    BY DEF FinderInv, CartOK
  <2>2. /\ cart' \in Seq(CartLine) /\ DOMAIN cart' = 1 .. Len(cart) - 1
        /\ \A i \in 1 .. Len(cart) - 1 : cart'[i] = IF i < n THEN cart[i] ELSE cart[i + 1]
    BY <1>1, <2>1, RemoveAtIs
  <2> DEFINE from(i) == IF i < n THEN i ELSE i + 1
  <2>3. \A i \in DOMAIN cart' : from(i) \in DOMAIN cart /\ cart'[i] = cart[from(i)]
    BY <2>1, <2>2
  <2>4. \A i, j \in DOMAIN cart' : from(i) = from(j) => i = j
    BY <2>1, <2>2
  <2> HIDE DEF from
  <2>5. \A i \in DOMAIN cart' : Tag[cart'[i].lot].of = cart'[i].item /\ CodeFits(cart'[i])
    BY <2>3 DEF FinderInv, CartOK
  <2>6. \A i, j \in DOMAIN cart' : cart'[i].lot = cart'[j].lot => i = j
    BY <2>3, <2>4 DEF FinderInv, CartOK
  <2> QED BY <2>2, <2>5, <2>6 DEF CartOK, CodeFits
<1> QED BY <1>1, <1>2, <1>3, SameShelf, SameModal DEF FinderInv

\* What others do.
LEMMA OthersStep ==
  ASSUME FinderInv,
         \/ NextDay \/ \E p \in Item : SaveProduct(p)
         \/ \E l \in Lot : SellOrReceive(l) \/ SaveBatch(l)
  PROVE  FinderInv'
<1>1. UNCHANGED <<finder, look, put, cart>>
  BY DEF NextDay, SaveProduct, SellOrReceive, SaveBatch, Stirs
<1>2. RequestOK' /\ CartOK' /\ ModalOK'
  BY <1>1, SameRequest, SameModal DEF FinderInv, RequestOK
<1>3. ShelfOK'
  <2>1. /\ shelf = [items |-> shelf.items, lots |-> shelf.lots, free |-> shelf.free]
        /\ shelf.items \subseteq Item /\ shelf.lots \subseteq Lot /\ shelf.free \subseteq Lot
        /\ day = [today |-> day.today, stirs |-> day.stirs]
        /\ day.today \in 0 .. LastDay /\ day.stirs \in 0 .. MaxStir /\ LastDay \in Nat /\ MaxStir \in Nat
    BY FinderAssumption DEF FinderInv, ShelfOK
  <2>2. CASE NextDay
    <3>1. day' = [today |-> day.today + 1, stirs |-> day.stirs] /\ day.today < LastDay /\ shelf' = shelf
      BY <2>1, <2>2 DEF NextDay
    <3>2. day.today + 1 \in 0 .. LastDay
      BY <2>1, <3>1
    <3> QED BY <2>1, <3>1, <3>2 DEF ShelfOK
  <2>3. CASE Stirs /\ shelf' = [items |-> shelf'.items, lots |-> shelf'.lots, free |-> shelf'.free]
             /\ shelf'.items \subseteq Item /\ shelf'.lots \subseteq Lot /\ shelf'.free \subseteq Lot
    <3>1. day' = [today |-> day.today, stirs |-> day.stirs + 1] /\ day.stirs < MaxStir
      BY <2>1, <2>3 DEF Stirs
    <3>2. day.stirs + 1 \in 0 .. MaxStir
      BY <2>1, <3>1
    <3> QED BY <2>1, <2>3, <3>1, <3>2 DEF ShelfOK
  <2>4. ASSUME NEW p \in Item, SaveProduct(p) PROVE ShelfOK'
    <3>1. Stirs /\ shelf' = [items |-> Toggled(shelf.items, p), lots |-> shelf.lots, free |-> shelf.free]
      BY <2>1, <2>4 DEF SaveProduct
    <3> QED BY <2>1, <2>3, <3>1 DEF Toggled
  <2>5. ASSUME NEW l \in Lot, SellOrReceive(l) \/ SaveBatch(l) PROVE ShelfOK'
    <3>1. CASE SellOrReceive(l)
      <4>1. Stirs /\ shelf' = [items |-> shelf.items, lots |-> shelf.lots, free |-> Toggled(shelf.free, l)]
        BY <2>1, <3>1 DEF SellOrReceive
      <4> QED BY <2>1, <2>3, <4>1 DEF Toggled
    <3>2. CASE SaveBatch(l)
      <4>1. Stirs /\ shelf' = [items |-> shelf.items, lots |-> Toggled(shelf.lots, l), free |-> shelf.free]
        BY <2>1, <3>2 DEF SaveBatch
      <4> QED BY <2>1, <2>3, <4>1 DEF Toggled
    <3> QED BY <2>5, <3>1, <3>2
  <2> QED BY <2>2, <2>4, <2>5
<1> QED BY <1>2, <1>3 DEF FinderInv

-----------------------------------------------------------------------------
(* The theorems.                                                           *)

LEMMA FinderStep ==
  ASSUME FinderInv, [FinderNext]_finderVars
  PROVE  FinderInv'
<1>1. CASE UNCHANGED finderVars
  BY <1>1, SameShelf, SameModal, SameRequest DEF FinderInv, RequestOK, finderVars
<1>2. CASE FinderNext
  BY <1>2, FinderModalStep, AddBatchStep, SearchScanStep, ResolveScanStep, AddProductLineStep, ScanLineStep,
     AppendBillLineStep, RemoveCartLineStep, OthersStep DEF FinderNext
<1> QED BY <1>1, <1>2

\* The types: the focus of the modal stays within what there is to choose from.
THEOREM FinderTypes == FinderSpec => []FinderTypeOK
<1>1. FinderInv => FinderTypeOK
  BY DEF FinderInv, ShelfOK, ModalOK, RequestOK, FinderTypeOK
<1> QED BY <1>1, FinderInitInv, FinderStep, PTL DEF FinderSpec

\* A line names the product of its batch, a batch has one line, and a scanned code is one of
\* the batch or of a product of the same key, however rows are merged, whatever is sold, saved
\* or expires between the search and the request, and however late an answer is.
THEOREM LinesAreOfTheirBatch == FinderSpec => []LinesNameTheirBatch
<1>1. FinderInv => LinesNameTheirBatch
  BY DEF FinderInv, CartOK, CodeFits, LinesNameTheirBatch
<1> QED BY <1>1, FinderInitInv, FinderStep, PTL DEF FinderSpec

-----------------------------------------------------------------------------
(* Side by side.  A behaviour of the modules of the till that are checked  *)
(* together is one of each of them, so that what is proved of a part holds *)
(* of the whole.                                                           *)

\* One part moves and the others rest.
LEMMA TillPartsStep ==
  [MCNext]_tillVars =>
    /\ [NavNext]_navVars /\ [TotalsNext]_totalsVars /\ [ScreenNext]_screenVars
    /\ [LineNext]_lineVars /\ [QueueNext]_queueVars /\ [MirrorNext]_mirrorVars
    /\ [FinderNext]_finderVars /\ [CreditNext]_creditVars /\ [InvoiceNext]_invoiceVars
<1> SUFFICES ASSUME [MCNext]_tillVars
             PROVE  /\ [NavNext]_navVars /\ [TotalsNext]_totalsVars /\ [ScreenNext]_screenVars
                    /\ [LineNext]_lineVars /\ [QueueNext]_queueVars /\ [MirrorNext]_mirrorVars
                    /\ [FinderNext]_finderVars /\ [CreditNext]_creditVars /\ [InvoiceNext]_invoiceVars
  OBVIOUS
<1>1. CASE UNCHANGED tillVars
  BY <1>1 DEF tillVars, restOfNav
<1>2. CASE NavNext /\ UNCHANGED restOfNav
  BY <1>2 DEF restOfNav
<1>3. CASE TotalsNext /\ UNCHANGED restOfTotals
  BY <1>3 DEF restOfTotals
<1>4. CASE ScreenNext /\ UNCHANGED restOfScreen
  BY <1>4 DEF restOfScreen
<1>5. CASE LineNext /\ UNCHANGED restOfLine
  BY <1>5 DEF restOfLine
<1>6. CASE QueueNext /\ UNCHANGED restOfQueue
  BY <1>6 DEF restOfQueue
<1>7. CASE MirrorNext /\ UNCHANGED restOfMirror
  BY <1>7 DEF restOfMirror
<1>8. CASE FinderNext /\ UNCHANGED restOfFinder
  BY <1>8 DEF restOfFinder
<1>9. CASE CreditNext /\ UNCHANGED restOfCredit
  BY <1>9 DEF restOfCredit
<1>10. CASE InvoiceNext /\ UNCHANGED restOfInvoice
  BY <1>10 DEF restOfInvoice
<1> QED
  BY <1>1, <1>2, <1>3, <1>4, <1>5, <1>6, <1>7, <1>8, <1>9, <1>10 DEF MCNext

LEMMA TillPartsInit ==
  MCInit => /\ NavTypeOK /\ TotalsInit /\ ScreenInit /\ LineInit /\ QueueInit /\ MirrorInit
            /\ FinderInit /\ CreditInit /\ InvoiceInit
<1>1. NavRests => NavTypeOK
  BY DEF NavRests, NavTypeOK, Route
<1> QED BY <1>1, NavInitInv DEF MCInit

\* The types of all parts of the till hold where they are checked side by side: a run there is one
\* of each part's own specification, and of the routes and the mirror but for their fairness.
THEOREM TillTypesTogether == MCSpec => []TypesOK
<1>1. MCSpec => TotalsSpec /\ ScreenSpec /\ LineSpec /\ QueueSpec /\ FinderSpec /\ CreditSpec /\ InvoiceSpec
  BY TillPartsInit, TillPartsStep, PTL
     DEF MCSpec, TotalsSpec, ScreenSpec, LineSpec, QueueSpec, FinderSpec, CreditSpec, InvoiceSpec
<1>2. MCSpec => []NavTypeOK
  BY TillPartsInit, TillPartsStep, NavStep, PTL DEF MCSpec
<1>3. MirrorInv => MirrorTypeOK
  BY MirrorRecordsType DEF MirrorInv
<1>4. MCSpec => []MirrorTypeOK
  BY <1>3, TillPartsInit, TillPartsStep, MirrorInitInv, MirrorStep, PTL DEF MCSpec
<1>5. NavTypeOK /\ TotalsTypeOK /\ ScreenTypeOK /\ LineTypeOK /\ QueueTypeOK /\ MirrorTypeOK
        /\ FinderTypeOK /\ CreditTypeOK /\ InvoiceTypeOK => TypesOK
  BY DEF TypesOK
<1> QED
  BY <1>1, <1>2, <1>4, <1>5, TotalsTypes, ScreenTypes, LineTypes, QueueTypes, FinderTypes, CreditTypes,
     InvoiceTypes, PTL
=============================================================================
