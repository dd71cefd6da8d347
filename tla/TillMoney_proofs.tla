-------------------------- MODULE TillMoney_proofs --------------------------
(***************************************************************************)
(* Proofs about the money of a bill: who is charged for a sale on credit   *)
(* (CreditSales), whose invoice somebody gets (Invoices), and what is paid *)
(* (BillTotals).                                                           *)
(***************************************************************************)
EXTENDS CreditSales, Invoices, BillTotals, SetLemmas, FiniteSetTheorems, TLAPS

-----------------------------------------------------------------------------
(* Sales on credit.  While the payment modal is open the screen shows the  *)
(* customer of the bill: nothing but the screen itself changes that one,   *)
(* and the modal opens only with the answer that brings it.                *)

CreditRecords ==
  /\ slip = [no |-> slip.no, st |-> slip.st, client |-> slip.client]
  /\ desk = [no |-> desk.no, client |-> desk.client, pay |-> desk.pay, tab |-> desk.tab,
             filled |-> desk.filled]
  /\ picker = [open |-> picker.open, form |-> picker.form, term |-> picker.term,
               list |-> picker.list, focus |-> picker.focus]
  /\ task = [do |-> task.do, at |-> task.at, client |-> task.client, limit |-> task.limit]

\* The modal, whose overlay and whose customer are those of the bill.
PaysForSlip == desk.pay => /\ ~picker.open /\ task.do \in {"idle", "complete"}
                           /\ desk.client = slip.client

\* The request that precedes it: nothing else is under way, and the answer is up to date.
FetchesSlip == task.do = "bill" => /\ ~picker.open /\ ~desk.pay
                                   /\ task.at = "done" => task.client = slip.client

TasksRest ==
  /\ task.at # "idle" => task.do # "idle"
  /\ task.do = "complete" => desk.pay
  /\ picker.open => task.do \in {"idle", "new"}

CreditInv == CreditRecords /\ PaysForSlip /\ FetchesSlip /\ TasksRest /\ CreditToShownCustomer

LEMMA CreditInitInv == CreditInit => CreditInv
<1> SUFFICES ASSUME CreditInit PROVE CreditInv
  OBVIOUS
<1>1. CreditRecords
  BY DEF CreditInit, CreditRecords, NewSlip, NewDesk, NoPicker, NoTask
<1>2. task.do = "idle" /\ task.at = "idle" /\ ~desk.pay /\ ~picker.open /\ onCredit = {}
  BY DEF CreditInit, NewDesk, NoPicker, NoTask
<1> QED
  BY <1>1, <1>2 DEF CreditInv, PaysForSlip, FetchesSlip, TasksRest, CreditToShownCustomer

\* The modal of the customers.
LEMMA PickerStep ==
  ASSUME CreditInv,
         \/ OpenPicker \/ ClosePicker \/ Found \/ SwitchForm
         \/ \E t \in DOMAIN Search : TypeTerm(t)
         \/ \E i \in 1 .. Cardinality(Client) + 1 : MoveFocusTo(i)
  PROVE  CreditInv'
<1>1. UNCHANGED <<slip, desk, task, onCredit>> /\ (picker'.open => picker.open \/ OpenPicker)
  BY DEF OpenPicker, ClosePicker, Found, SwitchForm, TypeTerm, MoveFocusTo, NoPicker, CreditInv, CreditRecords
<1>2. picker' = [open |-> picker'.open, form |-> picker'.form, term |-> picker'.term,
                 list |-> picker'.list, focus |-> picker'.focus]
  BY DEF OpenPicker, ClosePicker, Found, SwitchForm, TypeTerm, MoveFocusTo, NoPicker, CreditInv, CreditRecords
<1>3. picker'.open => picker.open \/ (task = NoTask /\ ~desk.pay)
  BY <1>1 DEF OpenPicker, Calm
<1> QED
  BY <1>1, <1>2, <1>3 DEF CreditInv, CreditRecords, PaysForSlip, FetchesSlip, TasksRest, NoTask,
                          CreditToShownCustomer

\* A request goes out, or its answer comes back: the bill stays.
LEMMA ScreenTaskStep ==
  ASSUME CreditInv,
         \/ ConfirmSelection \/ Failed \/ NewCustomerSaved \/ CustomerChanged \/ OpenPaymentFor
         \/ BillFetched \/ Pay \/ \E c \in Client, limit \in Limit : SaveNewCustomer(c, limit)
  PROVE  CreditInv'
<1>1. CASE ConfirmSelection
  <2>1. /\ task'.do = "customer" /\ task'.at = "sent" /\ picker' = NoPicker
        /\ UNCHANGED <<slip, desk, onCredit>>
        /\ task' = [do |-> task'.do, at |-> task'.at, client |-> task'.client, limit |-> task'.limit]
    BY <1>1 DEF ConfirmSelection, Send
  <2>2. ~desk.pay
    BY <1>1 DEF ConfirmSelection, Searching, CreditInv, PaysForSlip
  <2>3. ~picker'.open
    BY <2>1 DEF NoPicker
  <2> QED BY <2>1, <2>2, <2>3 DEF NoPicker, CreditInv, CreditRecords, PaysForSlip, FetchesSlip, TasksRest,
                            CreditToShownCustomer
<1>2. CASE Failed
  BY <1>2 DEF Failed, NoTask, CreditInv, CreditRecords, PaysForSlip, FetchesSlip, TasksRest, CreditToShownCustomer
<1>3. CASE NewCustomerSaved
  BY <1>3 DEF NewCustomerSaved, Send, NoPicker, CreditInv, CreditRecords, PaysForSlip, FetchesSlip, TasksRest,
              CreditToShownCustomer
<1>4. CASE CustomerChanged
  BY <1>4 DEF CustomerChanged, NoTask, CreditInv, CreditRecords, PaysForSlip, FetchesSlip, TasksRest,
              CreditToShownCustomer
<1>5. CASE OpenPaymentFor
  <2>1. ~desk.pay /\ ~picker.open /\ task = NoTask /\ UNCHANGED <<slip, desk, onCredit>>
    BY <1>5 DEF OpenPaymentFor, Calm
  <2>2. CASE desk.client = WalkIn
    <3>1. picker' = [NoPicker EXCEPT !.open = TRUE] /\ UNCHANGED task
      BY <1>5, <2>2 DEF OpenPaymentFor
    <3> QED BY <2>1, <3>1 DEF NoPicker, NoTask, CreditInv, CreditRecords, PaysForSlip, FetchesSlip,
                              TasksRest, CreditToShownCustomer
  <2>3. CASE desk.client # WalkIn
    <3>1. task' = [do |-> "bill", at |-> "sent", client |-> 0, limit |-> 0] /\ UNCHANGED picker
      BY <1>5, <2>3 DEF OpenPaymentFor, Send
    <3> QED BY <2>1, <3>1 DEF CreditInv, CreditRecords, PaysForSlip, FetchesSlip, TasksRest,
                              CreditToShownCustomer
  <2> QED BY <2>2, <2>3
<1>6. CASE BillFetched
  BY <1>6 DEF BillFetched, NoTask, CreditInv, CreditRecords, PaysForSlip, FetchesSlip, TasksRest,
              CreditToShownCustomer
<1>7. CASE Pay
  BY <1>7 DEF Pay, Send, NoTask, CreditInv, CreditRecords, PaysForSlip, FetchesSlip, TasksRest,
              CreditToShownCustomer
<1>8. ASSUME NEW c \in Client, NEW limit \in Limit, SaveNewCustomer(c, limit) PROVE CreditInv'
  BY <1>8 DEF SaveNewCustomer, Send, NoTask, CreditInv, CreditRecords, PaysForSlip, FetchesSlip, TasksRest,
              CreditToShownCustomer
<1> QED BY <1>1, <1>2, <1>3, <1>4, <1>5, <1>6, <1>7, <1>8

\* What the server does with a request.
LEMMA ServerStep ==
  ASSUME CreditInv, CreateCustomer \/ SetBillCustomer \/ GetBill \/ CompleteBill \/ Lose
  PROVE  CreditInv'
<1>1. CASE CreateCustomer
  BY <1>1 DEF CreateCustomer, Answered, CreditInv, CreditRecords, PaysForSlip, FetchesSlip, TasksRest,
              CreditToShownCustomer
<1>2. CASE SetBillCustomer
  BY <1>2 DEF SetBillCustomer, Answered, Refused, CreditInv, CreditRecords, PaysForSlip, FetchesSlip, TasksRest,
              CreditToShownCustomer
<1>3. CASE GetBill
  BY <1>3 DEF GetBill, CreditInv, CreditRecords, PaysForSlip, FetchesSlip, TasksRest, CreditToShownCustomer
<1>4. CASE CompleteBill
  <2>1. desk.client = slip.client
    BY <1>4 DEF CompleteBill, CreditInv, TasksRest, PaysForSlip
  <2>2. CreditToShownCustomer'
    BY <1>4, <2>1 DEF CompleteBill, CreditInv, CreditToShownCustomer
  <2> QED
    BY <1>4, <2>2 DEF CompleteBill, Answered, Refused, CreditInv, CreditRecords, PaysForSlip, FetchesSlip, TasksRest
<1>5. CASE Lose
  BY <1>5 DEF Lose, Refused, CreditInv, CreditRecords, PaysForSlip, FetchesSlip, TasksRest, CreditToShownCustomer
<1> QED BY <1>1, <1>2, <1>3, <1>4, <1>5

\* The payment modal, the next bill, and the changes others make in the master.
LEMMA DeskStep ==
  ASSUME CreditInv,
         \/ FillDetails \/ LeavePayment \/ NextBill \/ \E m \in Modes : ChooseMode(m)
         \/ \E c \in Client, limit \in Limit, on \in BOOLEAN : EditCustomer(c, on, limit)
  PROVE  CreditInv'
<1>1. CASE FillDetails \/ \E m \in Modes : ChooseMode(m)
  BY <1>1 DEF FillDetails, ChooseMode, CreditInv, CreditRecords, PaysForSlip, FetchesSlip, TasksRest,
              CreditToShownCustomer
<1>2. CASE LeavePayment
  BY <1>2 DEF LeavePayment, NewDesk, NoTask, CreditInv, CreditRecords, PaysForSlip, FetchesSlip, TasksRest,
              CreditToShownCustomer
<1>3. CASE NextBill
  BY <1>3 DEF NextBill, NewDesk, NewSlip, NoTask, NoPicker, CreditInv, CreditRecords, PaysForSlip, FetchesSlip,
              TasksRest, CreditToShownCustomer
<1>4. CASE \E c \in Client, limit \in Limit, on \in BOOLEAN : EditCustomer(c, on, limit)
  BY <1>4 DEF EditCustomer, CreditInv, CreditRecords, PaysForSlip, FetchesSlip, TasksRest, CreditToShownCustomer
<1> QED BY <1>1, <1>2, <1>3, <1>4

LEMMA CreditStep == CreditInv /\ [CreditNext]_creditVars => CreditInv'
<1> SUFFICES ASSUME CreditInv, [CreditNext]_creditVars PROVE CreditInv'
  OBVIOUS
<1>1. CASE UNCHANGED creditVars
  BY <1>1 DEF creditVars, CreditInv, CreditRecords, PaysForSlip, FetchesSlip, TasksRest, CreditToShownCustomer
<1>2. CASE CreditNext
  BY <1>2, PickerStep, ScreenTaskStep, ServerStep, DeskStep DEF CreditNext
<1> QED BY <1>1, <1>2

\* A sale on credit is charged to the customer whom the screen showed when it was paid, for every
\* number of customers, searches and lost requests.
THEOREM CreditGoesToTheCustomerShown == CreditSpec => []CreditToShownCustomer
<1>1. CreditInv => CreditToShownCustomer
  BY DEF CreditInv
<1> QED BY <1>1, CreditInitInv, CreditStep, PTL DEF CreditSpec

\* What the typing rests on: the list has customers only, at most all of them, and a request is for
\* one of them, a new customer's for a real one.
CreditTyped ==
  /\ picker.list \in Seq(Client) /\ Len(picker.list) <= Cardinality(Client)
  /\ task.client \in Client \union {WalkIn} /\ task.limit \in Nat
  /\ task.do = "new" => task.client \in Client
  /\ master = [known |-> master.known, on |-> master.on, limit |-> master.limit, edits |-> master.edits]

LEMMA NobodyListed ==
  /\ NoPicker.list = <<>> /\ NoPicker.focus = 1
  /\ [NoPicker EXCEPT !.open = TRUE].list = <<>> /\ [NoPicker EXCEPT !.open = TRUE].focus = 1
  /\ <<>> \in Seq(Client) /\ Len(<<>>) = 0
<1>1. NoPicker.list = <<>> /\ NoPicker.focus = 1
  BY DEF NoPicker
<1>2. [NoPicker EXCEPT !.open = TRUE].list = NoPicker.list /\ [NoPicker EXCEPT !.open = TRUE].focus = NoPicker.focus
  BY DEF NoPicker
<1>3. <<>> \in Seq(Client) /\ Len(<<>>) = 0
  OBVIOUS
<1> QED BY <1>1, <1>2, <1>3

LEMMA FewFirstMatches ==
  ASSUME NEW term, NEW list \in Seq(Client)
  PROVE  FirstMatch(term, list) \in 1 .. Cardinality(Client) + 1
<1>1. Cardinality(Client) \in Nat /\ (Client # {} => Cardinality(Client) # 0)
  BY CreditAssumption, FS_CardinalityType, FS_EmptySet
<1>2. CASE list = <<>>
  <2>1. FirstMatch(term, list) = 1
    BY <1>2 DEF FirstMatch
  <2> QED BY <1>1, <2>1
<1>3. CASE list # <<>>
  <2>1. list[1] \in Client
    BY <1>3
  <2>2. Cardinality(Client) # 0
    BY <1>1, <2>1
  <2>3. FirstMatch(term, list) \in {1, 2}
    BY DEF FirstMatch
  <2> QED BY <1>1, <2>2, <2>3
<1> QED BY <1>2, <1>3

LEMMA ByNameTypes ==
  ASSUME NEW S \in SUBSET Client
  PROVE  ByName(S) \in Seq(Client) /\ Len(ByName(S)) <= Cardinality(Client)
<1> DEFINE R == {p \in Nat \X Nat : p[1] < p[2]}
<1>1. IsFiniteSet(S) /\ S \subseteq Nat /\ Cardinality(S) <= Cardinality(Client)
  BY CreditAssumption, FS_Subset
<1>2. \A x, y \in Nat : <<x, y>> \in R <=> x < y
  OBVIOUS
<1>3. Orders(R, S)
  BY <1>1, <1>2 DEF Orders
<1> HIDE DEF R
<1>4. PICK s \in SetToSeqs(S) : InOrder(R, s)
  BY <1>1, <1>3, SortedExists
<1>5. ASSUME NEW t \in SetToSeqs(S)
      PROVE  t \in Seq(S) /\ Len(t) = Cardinality(S) /\ DOMAIN t = 1 .. Cardinality(S)
  BY <1>1, SequencesOf
<1>6. ASSUME NEW i \in DOMAIN s, NEW j \in DOMAIN s, i < j PROVE s[i] < s[j]
  <2>1. <<s[i], s[j]>> \in R
    BY <1>4, <1>6 DEF InOrder
  <2>2. s \in Seq(S)
    BY <1>4, <1>5
  <2>3. DOMAIN s = 1 .. Len(s) /\ i \in 1 .. Len(s) /\ j \in 1 .. Len(s)
    BY <1>6, <2>2
  <2>4. s[i] \in S /\ s[j] \in S
    BY <2>2, <2>3
  <2>5. s[i] \in Nat /\ s[j] \in Nat
    BY <1>1, <2>4
  <2> QED BY <1>2, <2>1, <2>5
<1>7. ByName(S) \in SetToSeqs(S)
  BY <1>4, <1>6 DEF ByName
<1>8. ByName(S) \in Seq(S) /\ Len(ByName(S)) = Cardinality(S)
  BY <1>5, <1>7
<1>9. ByName(S) \in Seq(Client)
  BY <1>8
<1> QED BY <1>1, <1>8, <1>9

LEMMA CreditTypesInit == CreditInit => CreditTyped /\ CreditTypeOK
<1> SUFFICES ASSUME CreditInit PROVE CreditTyped /\ CreditTypeOK
  OBVIOUS
<1>1. Cardinality(Client) \in Nat
  BY CreditAssumption, FS_CardinalityType
<1>2. /\ master = [known |-> Registered, on |-> Registered, limit |-> [c \in Client |-> 0], edits |-> 0]
      /\ slip = NewSlip(1) /\ desk = NewDesk(1)
      /\ picker = NoPicker /\ task = NoTask /\ onCredit = {}
  BY DEF CreditInit
<1>3. picker.list = <<>> /\ picker.focus = 1 /\ Len(picker.list) = 0 /\ picker.list \in Seq(Client)
  BY <1>2, NobodyListed
<1>4. task.client = WalkIn /\ task.limit = 0 /\ task.do = "idle" /\ task.at = "idle"
  BY <1>2, CreditAssumption DEF NoTask
<1>5. CreditTyped
  BY <1>1, <1>2, <1>3, <1>4 DEF CreditTyped
<1>6. /\ master.on \subseteq master.known /\ master.known \subseteq Client
      /\ master.limit \in [Client -> Nat] /\ master.edits \in 0 .. MaxEdits
  BY <1>2, CreditAssumption
<1>7. 1 \in 1 .. MaxBills
  BY CreditAssumption
<1>8. slip \in [no : 1 .. MaxBills, st : {"DRAFT", "PENDING_COMMIT"}, client : Client \union {WalkIn}]
  BY <1>2, <1>7 DEF NewSlip
<1>9. desk \in [no : 1 .. MaxBills, client : Client \union {WalkIn}, pay : BOOLEAN, tab : Modes,
               filled : SUBSET Modes]
  BY <1>2, <1>7 DEF NewDesk, Modes
<1> QED BY <1>1, <1>2, <1>3, <1>4, <1>5, <1>6, <1>8, <1>9 DEF CreditTypeOK

LEMMA PickerTypes ==
  ASSUME CreditInv, CreditTyped, CreditTypeOK,
         \/ OpenPicker \/ ClosePicker \/ Found \/ SwitchForm
         \/ \E t \in DOMAIN Search : TypeTerm(t)
         \/ \E i \in 1 .. Cardinality(Client) + 1 : MoveFocusTo(i)
  PROVE  (CreditTyped /\ CreditTypeOK)'
<1>1. UNCHANGED <<master, slip, desk, task, onCredit>>
  BY DEF OpenPicker, ClosePicker, Found, SwitchForm, TypeTerm, MoveFocusTo
<1>2. Cardinality(Client) \in Nat
  BY CreditAssumption, FS_CardinalityType
<1> DEFINE ListFits == /\ picker'.list \in Seq(Client) /\ Len(picker'.list) <= Cardinality(Client)
                       /\ picker'.focus \in 1 .. Cardinality(Client) + 1
<1>3. ListFits
  <2>1. CASE OpenPicker \/ ClosePicker
    <3>1. picker' = NoPicker \/ picker' = [NoPicker EXCEPT !.open = TRUE]
      BY <2>1 DEF OpenPicker, ClosePicker
    <3>2. picker'.list = <<>> /\ picker'.focus = 1
      BY <3>1, NobodyListed
    <3>3. picker'.list \in Seq(Client) /\ Len(picker'.list) = 0
      BY <3>2, NobodyListed
    <3> QED BY <1>2, <3>2, <3>3
  <2>2. CASE Found
    <3>1. PICK seen \in SUBSET Client :
            LET list == ByName(seen)
            IN picker' = [picker EXCEPT !.list = list,
                            !.focus = IF Len(list) = Len(picker.list) THEN @
                                      ELSE FirstMatch(picker.term, list)]
      BY <2>2 DEF Found, CreditTypeOK
    <3>2. picker'.list = ByName(seen)
          /\ picker'.focus \in {picker.focus, FirstMatch(picker.term, ByName(seen))}
      BY <3>1 DEF CreditInv, CreditRecords
    <3> QED BY <3>2, ByNameTypes, FewFirstMatches DEF CreditTypeOK
  <2>3. CASE SwitchForm
    <3>1. picker'.list = picker.list /\ picker'.focus \in {1, FirstMatch(picker.term, picker.list)}
      BY <2>3 DEF SwitchForm, CreditInv, CreditRecords
    <3> QED BY <1>2, <3>1, FewFirstMatches DEF CreditTyped
  <2>4. ASSUME NEW t \in DOMAIN Search, TypeTerm(t)
        PROVE  ListFits
    <3>1. picker'.list = picker.list /\ picker'.focus = FirstMatch(t, picker.list)
      BY <2>4 DEF TypeTerm, CreditInv, CreditRecords
    <3> QED BY <3>1, FewFirstMatches DEF CreditTyped
  <2>5. ASSUME NEW i \in 1 .. Cardinality(Client) + 1, MoveFocusTo(i)
        PROVE  ListFits
    BY <2>5 DEF MoveFocusTo, CreditInv, CreditRecords, CreditTyped
  <2> QED BY <2>1, <2>2, <2>3, <2>4, <2>5
<1> QED BY <1>1, <1>3 DEF CreditTyped, CreditTypeOK

\* What the screen chooses or hears of.
LEMMA TaskTypes ==
  ASSUME CreditInv, CreditTyped, CreditTypeOK,
         \/ ConfirmSelection \/ Failed \/ NewCustomerSaved \/ CustomerChanged \/ OpenPaymentFor
         \/ BillFetched \/ Pay \/ \E c \in Client, limit \in Limit : SaveNewCustomer(c, limit)
  PROVE  (CreditTyped /\ CreditTypeOK)'
<1>1. UNCHANGED <<master, slip, onCredit>>
  BY DEF ConfirmSelection, Failed, NewCustomerSaved, CustomerChanged, OpenPaymentFor, BillFetched, Pay,
         SaveNewCustomer
<1>2. Cardinality(Client) \in Nat
  BY CreditAssumption, FS_CardinalityType
<1>3. \/ picker' = picker
      \/ picker'.list = <<>> /\ picker'.focus = 1
  <2>1. \/ picker' \in {picker, NoPicker}
        \/ picker' = [NoPicker EXCEPT !.open = TRUE]
    BY DEF ConfirmSelection, Failed, NewCustomerSaved, CustomerChanged, OpenPaymentFor, BillFetched, Pay,
           SaveNewCustomer
  <2> QED BY <2>1, NobodyListed
<1>4. \/ desk' = desk
      \/ desk' = [desk EXCEPT !.client = task.client]
      \/ desk' = [desk EXCEPT !.client = task.client, !.pay = TRUE, !.tab = "CASH", !.filled = {"CASH"}]
  BY DEF ConfirmSelection, Failed, NewCustomerSaved, CustomerChanged, OpenPaymentFor, BillFetched, Pay,
         SaveNewCustomer
<1> DEFINE TaskFits == /\ task'.at \in {"idle", "sent", "done", "failed"}
                       /\ task'.client \in Client \union {WalkIn} /\ task'.limit \in Nat
                       /\ task'.do = "new" => task'.client \in Client
<1>5. TaskFits
  <2>1. CASE ConfirmSelection
    <3>1. task' = [do |-> "customer", at |-> "sent", client |-> Options[picker.focus], limit |-> 0]
          /\ picker.focus \in DOMAIN Options
      BY <2>1 DEF ConfirmSelection, Send
    <3>2. Options \in Seq(Client \union {WalkIn})
      <4> DEFINE T == Client \union {WalkIn}
                 rest == IF picker.term = "" THEN <<>> ELSE picker.list
      <4>1. picker.list \in Seq(T)
        BY DEF CreditTyped
      <4>2. <<>> \in Seq(T)
        OBVIOUS
      <4>3. rest \in Seq(T) /\ WalkIn \in T
        BY <4>1, <4>2
      <4>4. Options = <<WalkIn>> \o rest
        BY DEF Options
      <4> HIDE DEF T, rest
      <4>5. Options \in Seq(T)
        BY <4>3, <4>4
      <4> QED BY <4>5 DEF T
    <3>3. Options[picker.focus] \in Client \union {WalkIn}
      BY <3>1, <3>2
    <3> QED BY <3>1, <3>3
  <2>2. CASE Failed \/ CustomerChanged \/ BillFetched
    BY <2>2, CreditAssumption DEF Failed, CustomerChanged, BillFetched, NoTask
  <2>3. CASE NewCustomerSaved
    BY <2>3 DEF NewCustomerSaved, Send, CreditTyped
  <2>4. CASE OpenPaymentFor \/ Pay
    <3>1. \/ task' = [do |-> "bill", at |-> "sent", client |-> 0, limit |-> 0]
          \/ task' = [do |-> "complete", at |-> "sent", client |-> 0, limit |-> 0]
          \/ UNCHANGED task
      BY <2>4 DEF OpenPaymentFor, Pay, Send
    <3>2. CASE UNCHANGED task
      BY <3>2 DEF CreditTyped, CreditTypeOK
    <3> QED BY <3>1, <3>2, CreditAssumption
  <2>5. ASSUME NEW c \in Client, NEW limit \in Limit, SaveNewCustomer(c, limit) PROVE TaskFits
    BY <2>5, CreditAssumption DEF SaveNewCustomer, Send
  <2> QED BY <2>1, <2>2, <2>3, <2>4, <2>5
<1>6. CreditTyped'
  <2>1. picker'.list \in Seq(Client) /\ Len(picker'.list) <= Cardinality(Client)
    <3>1. CASE picker' = picker
      BY <3>1 DEF CreditTyped
    <3>2. CASE picker'.list = <<>>
      BY <1>2, <3>2
    <3> QED BY <1>3, <3>1, <3>2
  <2> QED BY <1>1, <1>5, <2>1 DEF CreditTyped
<1>7. picker'.focus \in 1 .. Cardinality(Client) + 1
  BY <1>2, <1>3 DEF CreditTypeOK
<1>8. desk' \in [no : 1 .. MaxBills, client : Client \union {WalkIn}, pay : BOOLEAN, tab : Modes,
                filled : SUBSET Modes]
  <2>1. /\ task.client \in Client \union {WalkIn}
        /\ desk \in [no : 1 .. MaxBills, client : Client \union {WalkIn}, pay : BOOLEAN, tab : Modes,
                     filled : SUBSET Modes]
    BY DEF CreditTyped, CreditTypeOK
  <2>2. "CASH" \in Modes /\ {"CASH"} \in SUBSET Modes
    BY DEF Modes
  <2>3. CASE desk' = desk
    BY <2>1, <2>3
  <2>4. CASE desk' = [desk EXCEPT !.client = task.client]
    BY <2>1, <2>4
  <2>5. CASE desk' = [desk EXCEPT !.client = task.client, !.pay = TRUE, !.tab = "CASH", !.filled = {"CASH"}]
    BY <2>1, <2>2, <2>5
  <2> QED BY <1>4, <2>3, <2>4, <2>5
<1> QED BY <1>1, <1>5, <1>6, <1>7, <1>8 DEF CreditTypeOK

\* What the server does with a request.
LEMMA ServerTypes ==
  ASSUME CreditInv, CreditTyped, CreditTypeOK, CreateCustomer \/ SetBillCustomer \/ GetBill \/ CompleteBill \/ Lose
  PROVE  (CreditTyped /\ CreditTypeOK)'
<1>1. UNCHANGED <<desk, picker>>
  BY DEF CreateCustomer, SetBillCustomer, GetBill, CompleteBill, Lose
<1>2. /\ task'.at \in {"sent", "done", "failed"} /\ task'.limit = task.limit /\ task'.do = task.do
      /\ task'.client = task.client \/ (task.do = "bill" /\ task'.client = slip.client)
  BY DEF CreateCustomer, SetBillCustomer, GetBill, CompleteBill, Lose, Answered, Refused, CreditInv, CreditRecords
<1>3. slip.client \in Client \union {WalkIn}
  BY DEF CreditTypeOK
<1>4. CreditTyped'
  <2>1. master' = [known |-> master'.known, on |-> master'.on, limit |-> master'.limit, edits |-> master'.edits]
    BY DEF CreateCustomer, SetBillCustomer, GetBill, CompleteBill, Lose, CreditTyped
  <2>2. UNCHANGED <<picker.list, task.limit>>
    BY <1>1, <1>2
  <2>3. task'.client \in Client \union {WalkIn} /\ (task'.do = "new" => task'.client \in Client)
    BY <1>2, <1>3 DEF CreditTyped
  <2> QED BY <2>1, <2>2, <2>3 DEF CreditTyped
<1>5. CASE CreateCustomer
  <2>1. task.client \in Client /\ task.limit \in Nat /\ UNCHANGED <<slip, onCredit>>
    BY <1>5 DEF CreateCustomer, CreditTyped
  <2>2. master' = [master EXCEPT !.known = @ \union {task.client}, !.on = @ \union {task.client},
                                 !.limit[task.client] = task.limit]
    BY <1>5 DEF CreateCustomer
  <2>3. master'.known = master.known \union {task.client} /\ master'.on = master.on \union {task.client}
        /\ master'.limit = [master.limit EXCEPT ![task.client] = task.limit] /\ master'.edits = master.edits
    BY <2>2 DEF CreditTyped
  <2> QED BY <1>1, <1>2, <1>4, <2>1, <2>3 DEF CreditTypeOK
<1>6. CASE SetBillCustomer
  <2>1. slip' \in {slip, [slip EXCEPT !.client = task.client]} /\ UNCHANGED <<master, onCredit>>
    BY <1>6 DEF SetBillCustomer
  <2>2. task.client \in Client \union {WalkIn}
    BY DEF CreditTyped
  <2> QED BY <1>1, <1>2, <1>4, <2>1, <2>2 DEF CreditTypeOK
<1>7. CASE CompleteBill
  <2>1. slip' \in {slip, [slip EXCEPT !.st = "PENDING_COMMIT"]} /\ UNCHANGED master
    BY <1>7 DEF CompleteBill
  <2>2. \A c \in onCredit' : c.client \in Client
    BY <1>7 DEF CompleteBill, MayBuyOnCredit, CreditTypeOK
  <2> QED BY <1>1, <1>2, <1>4, <2>1, <2>2 DEF CreditTypeOK
<1>8. CASE GetBill \/ Lose
  BY <1>1, <1>2, <1>4, <1>8 DEF GetBill, Lose, CreditTypeOK
<1> QED BY <1>4, <1>5, <1>6, <1>7, <1>8

LEMMA DeskTypes ==
  ASSUME CreditInv, CreditTyped, CreditTypeOK,
         \/ FillDetails \/ LeavePayment \/ NextBill \/ \E m \in Modes : ChooseMode(m)
         \/ \E c \in Client, limit \in Limit, on \in BOOLEAN : EditCustomer(c, on, limit)
  PROVE  (CreditTyped /\ CreditTypeOK)'
<1>1. Cardinality(Client) \in Nat
  BY CreditAssumption, FS_CardinalityType
<1>2. CASE FillDetails \/ \E m \in Modes : ChooseMode(m)
  <2>1. UNCHANGED <<master, slip, picker, task, onCredit>>
    BY <1>2 DEF FillDetails, ChooseMode
  <2>2. desk' = [desk EXCEPT !.filled = @ \union {desk.tab}] \/ (\E m \in Modes : desk' = [desk EXCEPT !.tab = m])
    BY <1>2 DEF FillDetails, ChooseMode
  <2>3. desk' \in [no : 1 .. MaxBills, client : Client \union {WalkIn}, pay : BOOLEAN, tab : Modes,
                  filled : SUBSET Modes]
    BY <2>2 DEF CreditTypeOK
  <2> QED BY <2>1, <2>3 DEF CreditTyped, CreditTypeOK
<1>3. CASE LeavePayment
  <2>1. desk' = [no |-> desk.no, client |-> desk.client, pay |-> FALSE, tab |-> "CASH", filled |-> {"CASH"}]
        /\ UNCHANGED <<master, slip, picker, task, onCredit>>
    BY <1>3 DEF LeavePayment, NewDesk
  <2>2. desk' \in [no : 1 .. MaxBills, client : Client \union {WalkIn}, pay : BOOLEAN, tab : Modes,
                  filled : SUBSET Modes]
    BY <2>1 DEF CreditTypeOK, Modes
  <2> QED BY <2>1, <2>2 DEF CreditTyped, CreditTypeOK
<1>4. CASE NextBill
  <2>1. slip.no + 1 \in 1 .. MaxBills
    BY <1>4, CreditAssumption DEF NextBill, CreditTypeOK
  <2>2. /\ slip' = NewSlip(slip.no + 1) /\ desk' = NewDesk(slip.no + 1)
        /\ task' = NoTask /\ picker' = NoPicker /\ UNCHANGED <<master, onCredit>>
    BY <1>4 DEF NextBill
  <2>3. slip' \in [no : 1 .. MaxBills, st : {"DRAFT", "PENDING_COMMIT"}, client : Client \union {WalkIn}]
    BY <2>1, <2>2 DEF NewSlip
  <2>4. desk' \in [no : 1 .. MaxBills, client : Client \union {WalkIn}, pay : BOOLEAN, tab : Modes,
                  filled : SUBSET Modes]
    BY <2>1, <2>2 DEF NewDesk, Modes
  <2>5. task'.client = WalkIn /\ task'.limit = 0 /\ task'.do = "idle" /\ task'.at = "idle"
    BY <2>2, CreditAssumption DEF NoTask
  <2>6. picker'.list \in Seq(Client) /\ Len(picker'.list) = 0 /\ picker'.focus = 1
    BY <2>2, NobodyListed
  <2>7. master' = master /\ onCredit' = onCredit
    BY <2>2
  <2>8. CreditTyped'
    BY <1>1, <2>5, <2>6, <2>7 DEF CreditTyped
  <2>9. CreditTypeOK'
    BY <1>1, <2>3, <2>4, <2>5, <2>6, <2>7 DEF CreditTypeOK
  <2> QED BY <2>8, <2>9
<1>5. ASSUME NEW c \in Client, NEW limit \in Limit, NEW on \in BOOLEAN, EditCustomer(c, on, limit)
      PROVE  (CreditTyped /\ CreditTypeOK)'
  <2>1. UNCHANGED <<slip, desk, picker, task, onCredit>> /\ limit \in Nat
        /\ master' = [known |-> master'.known, on |-> master'.on, limit |-> master'.limit, edits |-> master'.edits]
    BY <1>5, CreditAssumption DEF EditCustomer
  <2>2. /\ master'.known = master.known \union {c} /\ master'.limit = [master.limit EXCEPT ![c] = limit]
        /\ master'.on \in {master.on \union {c}, master.on \ {c}}
        /\ master'.edits = master.edits + 1 /\ master.edits < MaxEdits
    BY <1>5 DEF EditCustomer
  <2>3. /\ master'.on \subseteq master'.known /\ master'.known \subseteq Client
        /\ master'.limit \in [Client -> Nat] /\ master'.edits \in 0 .. MaxEdits
    BY <2>1, <2>2, CreditAssumption DEF CreditTypeOK
  <2> QED BY <2>1, <2>3 DEF CreditTyped, CreditTypeOK
<1> QED BY <1>2, <1>3, <1>4, <1>5

LEMMA CreditTypesStep ==
  CreditInv /\ CreditTyped /\ CreditTypeOK /\ [CreditNext]_creditVars => (CreditTyped /\ CreditTypeOK)'
<1> SUFFICES ASSUME CreditInv, CreditTyped, CreditTypeOK, [CreditNext]_creditVars
             PROVE  (CreditTyped /\ CreditTypeOK)'
  OBVIOUS
<1>1. CASE UNCHANGED creditVars
  BY <1>1 DEF creditVars, CreditTyped, CreditTypeOK
<1>2. CASE CreditNext
  BY <1>2, PickerTypes, TaskTypes, ServerTypes, DeskTypes DEF CreditNext
<1> QED BY <1>1, <1>2

\* The list of the modal and its focus, the bill, the screen, the requests and the master stay of
\* their types; nobody but a registered customer has bought on credit.
THEOREM CreditTypes == CreditSpec => []CreditTypeOK
<1>1. CreditInit => CreditInv /\ CreditTyped /\ CreditTypeOK
  BY CreditInitInv, CreditTypesInit
<1>2. (CreditInv /\ CreditTyped /\ CreditTypeOK) /\ [CreditNext]_creditVars
        => (CreditInv /\ CreditTyped /\ CreditTypeOK)'
  BY CreditStep, CreditTypesStep
<1> QED BY <1>1, <1>2, PTL DEF CreditSpec

-----------------------------------------------------------------------------
(* Invoices.  A number stays once a bill has it; every file, every PDF in  *)
(* the cache, every request and every action of the modal belongs to one   *)
(* completed bill, and is found under that bill and its format alone.      *)

NumberedRows == invoiceNo \in [Sale -> Nat]

PdfOf(b, f) == [bill |-> b, no |-> invoiceNo[b], format |-> f]
FilesAreOfBills ==
  \A file \in files : \E b \in Sale, f \in Formats :
    invoiceNo[b] # 0 /\ file.path = <<b, f>> /\ file.pdf = PdfOf(b, f)
CacheIsOfBills ==
  \A e \in blobCache : \E b \in Sale, f \in Formats :
    invoiceNo[b] # 0 /\ e.key = <<b, f>> /\ e.pdf = PdfOf(b, f)

FetchesAreOfBills ==
  \A r \in fetches :
    /\ r.bill \in Sale /\ r.format \in Formats
    /\ \/ r.to = "till" /\ r.key = <<r.bill, r.format>>
       \/ r.to = "portal" /\ r.name = invoiceNo[r.bill] /\ r.name # 0

ActionsAreOfBills ==
  \A run \in running :
    /\ run = [turn |-> run.turn, action |-> run.action, again |-> run.again, bill |-> run.bill,
              no |-> run.no]
    /\ run.action \in Actions /\ run.bill \in Sale
    /\ run.no = invoiceNo[run.bill] /\ run.no # 0

ModalIsOfABill ==
  /\ printer = [last |-> printer.last, timers |-> printer.timers, asked |-> printer.asked,
                shows |-> printer.shows, inFlight |-> printer.inFlight, prints |-> printer.prints,
                opened |-> printer.opened]
  /\ \/ printer.shows = NoInvoice
     \/ \E b \in Sale : invoiceNo[b] # 0 /\ printer.shows = [bill |-> b, no |-> invoiceNo[b]]

InvoiceInv ==
  /\ NumberedRows /\ FilesAreOfBills /\ CacheIsOfBills /\ FetchesAreOfBills /\ ActionsAreOfBills
  /\ ModalIsOfABill /\ CopiesBelong

\* Whether and as what a bill was invoiced does not change.
NumbersStay == invoiceNo' \in [Sale -> Nat] /\ \A b \in Sale : invoiceNo[b] # 0 => invoiceNo'[b] = invoiceNo[b]

LEMMA InvoiceInitInv == InvoiceInit => InvoiceInv
<1> SUFFICES ASSUME InvoiceInit PROVE InvoiceInv
  OBVIOUS
<1>1. ModalIsOfABill
  BY DEF InvoiceInit, ModalIsOfABill
<1>2. NumberedRows /\ files = {} /\ fetches = {} /\ blobCache = {} /\ running = {} /\ copy = NoCopy
  BY DEF InvoiceInit, NumberedRows
<1> QED
  BY <1>1, <1>2 DEF InvoiceInv, FilesAreOfBills, CacheIsOfBills, FetchesAreOfBills, ActionsAreOfBills,
                    CopiesBelong

\* What was true of the bills is true still when no more than their numbers are added.
LEMMA OthersStay ==
  ASSUME InvoiceInv, NumbersStay
  PROVE  /\ NumberedRows' /\ (UNCHANGED files => FilesAreOfBills')
         /\ UNCHANGED blobCache => CacheIsOfBills'
         /\ UNCHANGED fetches => FetchesAreOfBills'
         /\ UNCHANGED running => ActionsAreOfBills'
         /\ UNCHANGED printer => ModalIsOfABill'
<1>1. NumberedRows'
  BY DEF NumbersStay, NumberedRows
<1>2. ASSUME NEW b \in Sale, NEW f \in Formats, invoiceNo[b] # 0
      PROVE  invoiceNo'[b] # 0 /\ PdfOf(b, f)' = PdfOf(b, f)
  BY <1>2 DEF NumbersStay, PdfOf
<1>3. ASSUME UNCHANGED files PROVE FilesAreOfBills'
  BY <1>2, <1>3 DEF InvoiceInv, FilesAreOfBills
<1>4. ASSUME UNCHANGED blobCache PROVE CacheIsOfBills'
  BY <1>2, <1>4 DEF InvoiceInv, CacheIsOfBills
<1>5. ASSUME UNCHANGED running PROVE ActionsAreOfBills'
  BY <1>5 DEF InvoiceInv, ActionsAreOfBills, NumbersStay
<1>6. ASSUME UNCHANGED printer PROVE ModalIsOfABill'
  BY <1>6 DEF InvoiceInv, ModalIsOfABill, NumbersStay
<1>7. ASSUME UNCHANGED fetches PROVE FetchesAreOfBills'
  BY <1>7 DEF InvoiceInv, FetchesAreOfBills, NumbersStay
<1> QED BY <1>1, <1>3, <1>4, <1>5, <1>6, <1>7

LEMMA NobodyGetsACopy == copy' = NoCopy => CopiesBelong'
  BY DEF CopiesBelong

LEMMA SameNumbersStay == InvoiceInv /\ UNCHANGED invoiceNo => NumbersStay
  BY DEF InvoiceInv, NumberedRows, NumbersStay

LEMMA CommitSaleStep ==
  ASSUME InvoiceInv, NEW b \in Sale, CommitSale(b)
  PROVE  InvoiceInv'
<1>1. IsFiniteSet(Issued) /\ Cardinality(Issued) \in Nat
  BY InvoiceAssumption, FS_Subset, FS_CardinalityType DEF Issued
<1>2. NumbersStay
  BY <1>1 DEF CommitSale, Completed, InvoiceInv, NumberedRows, NumbersStay
<1> QED BY <1>2, OthersStay, NobodyGetsACopy DEF CommitSale, InvoiceInv

\* Only the file of a completed bill is written, and with what its number is.
LEMMA WrittenStep ==
  ASSUME InvoiceInv, NEW b \in Sale, NEW f \in Formats, Completed(b), Written(b, f),
         UNCHANGED <<invoiceNo, fetches, printer, blobCache, running>>, copy' = NoCopy
  PROVE  InvoiceInv'
<1>1. NumbersStay
  BY SameNumbersStay
<1>2. Drawn(b, f) = PdfOf(b, f) /\ PdfOf(b, f)' = PdfOf(b, f)
  BY DEF Drawn, ThermalPdf, A4Pdf, PdfOf, Formats
<1>3. \A c \in Sale, g \in Formats : PdfOf(c, g)' = PdfOf(c, g)
  BY DEF PdfOf
<1>4. files' = files \union {[path |-> <<b, f>>, pdf |-> PdfOf(b, f)]} /\ invoiceNo[b] # 0
  BY <1>2 DEF Written, PdfPath, Completed
<1>5. FilesAreOfBills'
  BY <1>3, <1>4 DEF InvoiceInv, FilesAreOfBills
<1> QED BY <1>1, <1>5, OthersStay, NobodyGetsACopy DEF InvoiceInv

LEMMA WriterStep ==
  ASSUME InvoiceInv,
         \/ \E b \in Sale, f \in Formats : WorkerWrites(b, f)
         \/ \E r \in fetches : RequestWrites(r)
  PROVE  InvoiceInv'
<1>1. ASSUME NEW b \in Sale, NEW f \in Formats, WorkerWrites(b, f) PROVE InvoiceInv'
  BY <1>1, WrittenStep DEF WorkerWrites
<1>2. ASSUME NEW r \in fetches, RequestWrites(r) PROVE InvoiceInv'
  <2>1. r.bill \in Sale /\ r.format \in Formats
    BY DEF InvoiceInv, FetchesAreOfBills
  <2> QED BY <1>2, <2>1, WrittenStep DEF RequestWrites, MayFetch
<1> QED BY <1>1, <1>2

\* The till opens an invoice or closes it; its modal shows one with the number it has.
LEMMA PrintModalStep ==
  ASSUME InvoiceInv,
         \/ CompletePayment \/ PrintTimer \/ CloseInvoice
         \/ \E b \in Sale : PickInvoice(b) \/ InvoiceOpens(b) \/ InvoiceNotReady(b)
  PROVE  InvoiceInv'
<1>1. UNCHANGED <<invoiceNo, files, fetches, blobCache, running>> /\ copy' = NoCopy
  BY DEF CompletePayment, PrintTimer, CloseInvoice, PickInvoice, InvoiceOpens, InvoiceNotReady
<1>2. /\ printer' = [last |-> printer'.last, timers |-> printer'.timers, asked |-> printer'.asked,
                     shows |-> printer'.shows, inFlight |-> printer'.inFlight,
                     prints |-> printer'.prints, opened |-> printer'.opened]
      /\ \/ printer'.shows \in {NoInvoice, printer.shows}
         \/ \E b \in Sale : invoiceNo[b] # 0 /\ printer'.shows = [bill |-> b, no |-> invoiceNo[b]]
  BY DEF CompletePayment, PrintTimer, CloseInvoice, PickInvoice, InvoiceOpens, InvoiceNotReady,
         Completed, Detail, InvoiceInv, ModalIsOfABill
<1>3. ModalIsOfABill'
  BY <1>1, <1>2 DEF ModalIsOfABill, InvoiceInv
<1> QED BY <1>1, <1>3, OthersStay, SameNumbersStay, NobodyGetsACopy DEF InvoiceInv

\* An action of the modal starts for the invoice shown, and asks for what it needs.
LEMMA RunActionStep ==
  ASSUME InvoiceInv, NEW action \in Actions, RunAction(action)
  PROVE  InvoiceInv'
<1> DEFINE run == [turn |-> printer.prints, action |-> action, again |-> FALSE,
                   bill |-> printer.shows.bill, no |-> printer.shows.no]
<1>1. /\ ModalShown /\ printer' = [printer EXCEPT !.inFlight = TRUE, !.prints = @ + 1]
      /\ running' = running \union {run}
      /\ fetches' \in {fetches, fetches \union {TillFetch(run)}}
      /\ UNCHANGED <<invoiceNo, files, blobCache>> /\ copy' = NoCopy
  BY DEF RunAction
<1>2. run.bill \in Sale /\ run.no = invoiceNo[run.bill] /\ run.no # 0 /\ run.action \in Actions
  BY <1>1 DEF InvoiceInv, ModalIsOfABill, ModalShown
<1>3. ActionsAreOfBills'
  BY <1>1, <1>2 DEF InvoiceInv, ActionsAreOfBills
<1>4. FormatOf(run.action) \in Formats
  BY DEF FormatOf, Formats
<1>5. FetchesAreOfBills'
  BY <1>1, <1>2, <1>4 DEF InvoiceInv, FetchesAreOfBills, TillFetch, KeyOf, CacheKey
<1>6. ModalIsOfABill'
  BY <1>1 DEF InvoiceInv, ModalIsOfABill
<1> QED BY <1>1, <1>3, <1>5, <1>6, OthersStay, SameNumbersStay, NobodyGetsACopy DEF InvoiceInv

\* A PDF comes: the file of the path, hence of the bill and the format, and is kept under these.
LEMMA TillPdfArrivesStep ==
  ASSUME InvoiceInv, NEW r \in fetches, TillPdfArrives(r)
  PROVE  InvoiceInv'
<1>1. PICK file \in files :
        /\ file.path = <<r.bill, r.format>>
        /\ blobCache' = {e \in blobCache : e.key # r.key} \union {[key |-> r.key, pdf |-> file.pdf]}
  BY DEF TillPdfArrives, PdfPath
<1>2. /\ r.to = "till" /\ fetches' = fetches \ {r} /\ UNCHANGED <<invoiceNo, files, printer, running>>
      /\ copy' = NoCopy
  BY DEF TillPdfArrives
<1>3. r.bill \in Sale /\ r.format \in Formats /\ r.key = <<r.bill, r.format>>
  BY <1>2 DEF InvoiceInv, FetchesAreOfBills
<1>4. invoiceNo[r.bill] # 0 /\ file.pdf = PdfOf(r.bill, r.format)
  <2>1. PICK b \in Sale, f \in Formats :
          invoiceNo[b] # 0 /\ file.path = <<b, f>> /\ file.pdf = PdfOf(b, f)
    BY DEF InvoiceInv, FilesAreOfBills
  <2> QED BY <1>1, <2>1
<1>5. \A b \in Sale, f \in Formats : PdfOf(b, f)' = PdfOf(b, f)
  BY <1>2 DEF PdfOf
<1>6. CacheIsOfBills'
  BY <1>1, <1>2, <1>3, <1>4, <1>5 DEF InvoiceInv, CacheIsOfBills
<1>7. FetchesAreOfBills'
  BY <1>2 DEF InvoiceInv, FetchesAreOfBills
<1> QED BY <1>2, <1>6, <1>7, OthersStay, SameNumbersStay, NobodyGetsACopy DEF InvoiceInv

\* The copy is the cached PDF of the bill and the format of the action, and named after that bill.
LEMMA GiveCopyStep ==
  ASSUME InvoiceInv, NEW run \in running, GiveCopy(run)
  PROVE  InvoiceInv'
<1>1. PICK e \in blobCache :
        /\ e.key = KeyOf(run)
        /\ copy' = [to |-> "till", name |-> run.no, asked |-> FormatOf(run.action), pdf |-> e.pdf]
  BY DEF GiveCopy
<1>2. /\ running' = running \ {run} /\ printer' = [printer EXCEPT !.inFlight = FALSE]
      /\ UNCHANGED <<invoiceNo, files, fetches, blobCache>>
  BY DEF GiveCopy
<1>3. run.bill \in Sale /\ run.no = invoiceNo[run.bill] /\ run.no # 0
  BY DEF InvoiceInv, ActionsAreOfBills
<1>4. e.pdf = PdfOf(run.bill, FormatOf(run.action))
  <2>1. PICK b \in Sale, f \in Formats : e.key = <<b, f>> /\ e.pdf = PdfOf(b, f)
    BY DEF InvoiceInv, CacheIsOfBills
  <2>2. b = run.bill /\ f = FormatOf(run.action)
    BY <1>1, <2>1 DEF KeyOf, CacheKey
  <2> QED BY <2>1, <2>2
<1>5. CopiesBelong'
  BY <1>1, <1>2, <1>3, <1>4 DEF CopiesBelong, PdfOf, Issued, Completed, MaySee
<1>6. ActionsAreOfBills' /\ ModalIsOfABill'
  BY <1>2 DEF InvoiceInv, ActionsAreOfBills, ModalIsOfABill
<1> QED BY <1>2, <1>5, <1>6, OthersStay, SameNumbersStay DEF InvoiceInv

\* A request of the till fails: those who print ask once more, and nobody's bill changes.
LEMMA TillPdfFailsStep ==
  ASSUME InvoiceInv, NEW r \in fetches, TillPdfFails(r)
  PROVE  InvoiceInv'
<1> DEFINE waiting == {run \in running : KeyOf(run) = r.key}
           retried == {run \in waiting : run.action # "download" /\ ~run.again}
<1>1. /\ running' = (running \ waiting) \union {[run EXCEPT !.again = TRUE] : run \in retried}
      /\ fetches' \in {fetches, fetches \ {r}}
      /\ printer' = [printer EXCEPT !.inFlight = @ /\ waiting = retried]
      /\ UNCHANGED <<invoiceNo, files, blobCache>> /\ copy' = NoCopy
  BY DEF TillPdfFails
<1>2. retried \subseteq running
  OBVIOUS
<1> HIDE DEF waiting, retried
<1>3. ASSUME NEW run \in running'
      PROVE  /\ run = [turn |-> run.turn, action |-> run.action, again |-> run.again,
                       bill |-> run.bill, no |-> run.no]
             /\ run.action \in Actions /\ run.bill \in Sale
             /\ run.no = invoiceNo[run.bill] /\ run.no # 0
  <2>1. PICK old \in running : run \in {old, [old EXCEPT !.again = TRUE]}
    BY <1>1, <1>2, <1>3
  <2>2. /\ old = [turn |-> old.turn, action |-> old.action, again |-> old.again, bill |-> old.bill,
                  no |-> old.no]
        /\ old.action \in Actions /\ old.bill \in Sale /\ old.no = invoiceNo[old.bill] /\ old.no # 0
    BY DEF InvoiceInv, ActionsAreOfBills
  <2>3. CASE run = old
    BY <2>2, <2>3
  <2>4. CASE run = [old EXCEPT !.again = TRUE]
    BY <2>2, <2>4
  <2> QED BY <2>1, <2>3, <2>4
<1>4. ActionsAreOfBills'
  BY <1>1, <1>3 DEF ActionsAreOfBills
<1>5. FetchesAreOfBills' /\ ModalIsOfABill'
  BY <1>1 DEF InvoiceInv, FetchesAreOfBills, ModalIsOfABill
<1> QED BY <1>1, <1>4, <1>5, OthersStay, SameNumbersStay, NobodyGetsACopy DEF InvoiceInv

LEMMA CacheExpiresStep ==
  ASSUME InvoiceInv, NEW e \in blobCache, CacheExpires(e)
  PROVE  InvoiceInv'
<1>1. \A b \in Sale, f \in Formats : PdfOf(b, f)' = PdfOf(b, f)
  BY DEF CacheExpires, PdfOf
<1>2. CacheIsOfBills'
  BY <1>1 DEF CacheExpires, InvoiceInv, CacheIsOfBills
<1> QED BY <1>2, OthersStay, SameNumbersStay, NobodyGetsACopy DEF CacheExpires, InvoiceInv

\* The portal asks for bills of its customer and gets their copies.
LEMMA PortalStep ==
  ASSUME InvoiceInv,
         \/ \E b \in Sale : DownloadPdf(b)
         \/ \E r \in fetches : PortalPdfArrives(r) \/ PortalPdfFails(r)
  PROVE  InvoiceInv'
<1>1. ASSUME NEW b \in Sale, DownloadPdf(b) PROVE InvoiceInv'
  <2>1. PageFetch(b).bill = b /\ PageFetch(b).format \in Formats /\ PageFetch(b).to = "portal"
        /\ PageFetch(b).name = invoiceNo[b] /\ invoiceNo[b] # 0
    BY <1>1 DEF DownloadPdf, PageFetch, Detail, Formats, PortalBills, OwnedBy, Completed
  <2>2. FetchesAreOfBills'
    BY <1>1, <2>1 DEF DownloadPdf, InvoiceInv, FetchesAreOfBills
  <2> QED BY <1>1, <2>2, OthersStay, SameNumbersStay, NobodyGetsACopy DEF DownloadPdf, InvoiceInv
<1>2. ASSUME NEW r \in fetches, PortalPdfArrives(r) PROVE InvoiceInv'
  <2>1. /\ r.to = "portal" /\ MayFetch(r) /\ fetches' = fetches \ {r}
        /\ UNCHANGED <<invoiceNo, files, printer, blobCache, running>>
    BY <1>2 DEF PortalPdfArrives
  <2>2. PICK file \in files :
          /\ file.path = <<r.bill, r.format>>
          /\ copy' = [to |-> "portal", name |-> r.name, asked |-> r.format, pdf |-> file.pdf]
    BY <1>2 DEF PortalPdfArrives, PdfPath
  <2>3. r.bill \in Sale /\ r.format \in Formats /\ r.name = invoiceNo[r.bill] /\ r.name # 0
    BY <2>1 DEF InvoiceInv, FetchesAreOfBills
  <2>4. file.pdf = PdfOf(r.bill, r.format)
    <3>1. PICK b \in Sale, f \in Formats : file.path = <<b, f>> /\ file.pdf = PdfOf(b, f)
      BY DEF InvoiceInv, FilesAreOfBills
    <3> QED BY <2>2, <3>1
  <2>5. MaySee("portal", r.bill)' /\ r.bill \in Issued'
    BY <2>1, <2>3 DEF MayFetch, MaySee, OwnedBy, Issued, Completed
  <2>6. CopiesBelong'
    BY <2>1, <2>2, <2>3, <2>4, <2>5 DEF CopiesBelong, PdfOf
  <2>7. FetchesAreOfBills'
    BY <2>1 DEF InvoiceInv, FetchesAreOfBills
  <2> QED BY <2>1, <2>6, <2>7, OthersStay, SameNumbersStay DEF InvoiceInv
<1>3. ASSUME NEW r \in fetches, PortalPdfFails(r) PROVE InvoiceInv'
  <2>1. FetchesAreOfBills'
    BY <1>3 DEF PortalPdfFails, InvoiceInv, FetchesAreOfBills
  <2> QED BY <1>3, <2>1, OthersStay, SameNumbersStay, NobodyGetsACopy DEF PortalPdfFails, InvoiceInv
<1> QED BY <1>1, <1>2, <1>3

LEMMA InvoiceStep == InvoiceInv /\ [InvoiceNext]_invoiceVars => InvoiceInv'
<1> SUFFICES ASSUME InvoiceInv, [InvoiceNext]_invoiceVars PROVE InvoiceInv'
  OBVIOUS
<1>1. CASE UNCHANGED invoiceVars
  <2>1. CopiesBelong'
    BY <1>1 DEF invoiceVars, InvoiceInv, CopiesBelong, Issued, Completed, MaySee, OwnedBy
  <2> QED BY <1>1, <2>1, OthersStay, SameNumbersStay DEF invoiceVars, InvoiceInv
<1>2. CASE InvoiceNext
  BY <1>2, CommitSaleStep, WriterStep, PrintModalStep, RunActionStep, TillPdfArrivesStep, TillPdfFailsStep,
     GiveCopyStep, CacheExpiresStep, PortalStep
  DEF InvoiceNext
<1> QED BY <1>1, <1>2

LEMMA InvoiceInvariant == InvoiceSpec => []InvoiceInv
  BY InvoiceInitInv, InvoiceStep, PTL DEF InvoiceSpec

\* Whoever saves, prints or downloads an invoice gets the bill and the format that were asked for,
\* in the portal one of the own account, for every number of bills, actions and requests.
THEOREM CopiesAreOfTheirBill == InvoiceSpec => []CopiesBelong
<1>1. InvoiceInv => CopiesBelong
  BY DEF InvoiceInv
<1> QED BY <1>1, InvoiceInvariant, PTL

\* The numbers that are given out: one each, from 1 on, and none left out.
NumberedInOrder ==
  /\ {invoiceNo[b] : b \in Issued} = 1 .. Cardinality(Issued)
  /\ \A b, c \in Issued : invoiceNo[b] = invoiceNo[c] => b = c

LEMMA IssuedIsFinite ==
  /\ IsFiniteSet(Issued) /\ Cardinality(Issued) \in Nat
  /\ IsFiniteSet(Sale) /\ Cardinality(Sale) \in Nat /\ Cardinality(Issued) <= Cardinality(Sale)
  BY InvoiceAssumption, FS_Subset, FS_CardinalityType DEF Issued

LEMMA NumberedInit == InvoiceInit => NumberedInOrder
<1> SUFFICES ASSUME InvoiceInit PROVE NumberedInOrder
  OBVIOUS
<1>1. Issued = {}
  BY DEF InvoiceInit, Issued, Completed
<1>2. Cardinality(Issued) = 0
  BY <1>1, FS_EmptySet
<1> QED BY <1>1, <1>2 DEF NumberedInOrder

LEMMA NumberedStep ==
  ASSUME NumberedRows, NumberedInOrder, [InvoiceNext]_invoiceVars
  PROVE  NumberedInOrder'
<1>1. CASE UNCHANGED invoiceNo
  BY <1>1 DEF NumberedInOrder, Issued, Completed
<1>2. ASSUME NEW b \in Sale, CommitSale(b) PROVE NumberedInOrder'
  <2> DEFINE n == Cardinality(Issued)
  <2>1. n \in Nat /\ b \notin Issued /\ IsFiniteSet(Issued)
    BY <1>2, IssuedIsFinite DEF CommitSale, Issued
  <2>2. \A c \in Sale : invoiceNo'[c] = IF c = b THEN n + 1 ELSE invoiceNo[c]
    BY <1>2 DEF CommitSale, NumberedRows
  <2>3. Issued' = Issued \union {b}
    BY <2>1, <2>2 DEF Issued, Completed
  <2>4. Cardinality(Issued') = n + 1
    BY <2>1, <2>3, FS_AddElement
  <2>5. \A c \in Issued : invoiceNo[c] \in 1 .. n /\ c \in Sale /\ c # b
    BY <2>1 DEF NumberedInOrder, Issued
  <2>6. {invoiceNo'[c] : c \in Issued'} = {invoiceNo[c] : c \in Issued} \union {n + 1}
    BY <2>2, <2>3, <2>5
  <2>7. (1 .. n) \union {n + 1} = 1 .. n + 1
    BY <2>1
  <2>8. \A c, d \in Issued' : invoiceNo'[c] = invoiceNo'[d] => c = d
    <3> HIDE DEF n
    <3> QED BY <2>1, <2>2, <2>3, <2>5 DEF NumberedInOrder
  <2> QED BY <2>4, <2>6, <2>7, <2>8 DEF NumberedInOrder
<1> QED BY <1>1, <1>2 DEF InvoiceNext, invoiceVars, CompletePayment, PrintTimer, CloseInvoice, PickInvoice, InvoiceOpens,
     InvoiceNotReady, DownloadPdf, WorkerWrites, RunAction, RequestWrites, TillPdfArrives, TillPdfFails,
     PortalPdfArrives, PortalPdfFails, GiveCopy, CacheExpires

\* No two bills get the same invoice number and none is left out, in whatever order the worker
\* completes the bills that wait.
THEOREM NumbersWithoutGaps == InvoiceSpec => []NumberedInOrder
<1>1. InvoiceInv => NumberedRows
  BY DEF InvoiceInv
<1> QED BY <1>1, NumberedInit, NumberedStep, InvoiceInvariant, PTL DEF InvoiceSpec

\* What the types ask for beyond that: the invoices a timer asks for, and the shape of a copy.
PrinterOK ==
  /\ printer.asked \subseteq Sale /\ printer.inFlight \in BOOLEAN
  /\ printer.timers \in Nat /\ (printer.timers > 0 => printer.last \in Sale)
CopyOK == copy = NoCopy \/ \E b \in Sale, f \in Formats : invoiceNo[b] # 0 /\ copy.pdf = PdfOf(b, f)

LEMMA PrinterStep ==
  ASSUME InvoiceInv, PrinterOK, [InvoiceNext]_invoiceVars
  PROVE  PrinterOK'
<1>0. printer = [last |-> printer.last, timers |-> printer.timers, asked |-> printer.asked,
                 shows |-> printer.shows, inFlight |-> printer.inFlight, prints |-> printer.prints,
                 opened |-> printer.opened]
  BY DEF InvoiceInv, ModalIsOfABill
<1>1. CASE UNCHANGED printer
  BY <1>1 DEF PrinterOK
<1>2. CASE CompletePayment
  BY <1>0, <1>2 DEF CompletePayment, PrinterOK
<1>3. CASE PrintTimer
  BY <1>0, <1>3 DEF PrintTimer, PrinterOK
<1>4. ASSUME NEW b \in Sale, PickInvoice(b) \/ InvoiceOpens(b) \/ InvoiceNotReady(b) PROVE PrinterOK'
  BY <1>0, <1>4 DEF PickInvoice, InvoiceOpens, InvoiceNotReady, PrinterOK
<1>5. CASE CloseInvoice \/ \E action \in Actions : RunAction(action)
  BY <1>0, <1>5 DEF CloseInvoice, RunAction, PrinterOK
<1>6. ASSUME NEW run \in running, GiveCopy(run) PROVE PrinterOK'
  BY <1>0, <1>6 DEF GiveCopy, PrinterOK
<1>7. ASSUME NEW r \in fetches, TillPdfFails(r) PROVE PrinterOK'
  BY <1>0, <1>7 DEF TillPdfFails, PrinterOK
<1> QED BY <1>1, <1>2, <1>3, <1>4, <1>5, <1>6, <1>7 DEF InvoiceNext, invoiceVars, CommitSale, DownloadPdf, WorkerWrites,
     RequestWrites, TillPdfArrives, PortalPdfArrives, PortalPdfFails, CacheExpires

LEMMA CopyStep ==
  ASSUME InvoiceInv, CopyOK, [InvoiceNext]_invoiceVars
  PROVE  CopyOK'
<1>1. CASE copy' = NoCopy
  BY <1>1 DEF CopyOK
<1>2. CASE UNCHANGED invoiceVars
  BY <1>2 DEF invoiceVars, CopyOK, PdfOf
<1>3. ASSUME NEW pdf, copy'.pdf = pdf, UNCHANGED invoiceNo,
             \E b \in Sale, f \in Formats : invoiceNo[b] # 0 /\ pdf = PdfOf(b, f)
      PROVE  CopyOK'
  BY <1>3 DEF CopyOK, PdfOf
<1>4. ASSUME NEW run \in running, GiveCopy(run) PROVE CopyOK'
  <2>1. PICK e \in blobCache : copy'.pdf = e.pdf
    BY <1>4 DEF GiveCopy
  <2>2. \E b \in Sale, f \in Formats : invoiceNo[b] # 0 /\ e.pdf = PdfOf(b, f)
    BY DEF InvoiceInv, CacheIsOfBills
  <2> QED BY <1>3, <1>4, <2>1, <2>2 DEF GiveCopy
<1>5. ASSUME NEW r \in fetches, PortalPdfArrives(r) PROVE CopyOK'
  <2>1. PICK file \in files : copy'.pdf = file.pdf
    BY <1>5 DEF PortalPdfArrives
  <2>2. \E b \in Sale, f \in Formats : invoiceNo[b] # 0 /\ file.pdf = PdfOf(b, f)
    BY DEF InvoiceInv, FilesAreOfBills
  <2> QED BY <1>3, <1>5, <2>1, <2>2 DEF PortalPdfArrives
<1> QED BY <1>1, <1>2, <1>4, <1>5 DEF InvoiceNext, CompletePayment, PrintTimer, CloseInvoice, PickInvoice, InvoiceOpens,
     InvoiceNotReady, DownloadPdf, WorkerWrites, RunAction, RequestWrites, TillPdfArrives, TillPdfFails,
     PortalPdfFails, CacheExpires, CommitSale

LEMMA ShapesOfBills ==
  ASSUME NumberedRows, NumberedInOrder, NEW b \in Sale
  PROVE  invoiceNo[b] \in 0 .. Cardinality(Sale) /\ \A f \in Formats : PdfOf(b, f) \in PdfShape
<1>1. invoiceNo[b] \in 0 .. Cardinality(Issued)
  BY IssuedIsFinite DEF NumberedRows, NumberedInOrder, Issued, Completed
<1>2. invoiceNo[b] \in 0 .. Cardinality(Sale)
  BY <1>1, IssuedIsFinite
<1> QED BY <1>2 DEF PdfOf, PdfShape

\* The types of numbers, files, requests and copies: a number never exceeds the number of bills, and
\* only invoices of bills are asked for, whichever timer runs out.
THEOREM InvoiceTypes == InvoiceSpec => []InvoiceTypeOK
<1>1. InvoiceInit => PrinterOK /\ CopyOK
  BY DEF InvoiceInit, PrinterOK, CopyOK
<1>2. InvoiceInv /\ PrinterOK /\ CopyOK /\ [InvoiceNext]_invoiceVars => PrinterOK' /\ CopyOK'
  BY PrinterStep, CopyStep
<1>3. InvoiceInv /\ NumberedInOrder /\ PrinterOK /\ CopyOK => InvoiceTypeOK
  <2> SUFFICES ASSUME InvoiceInv, NumberedInOrder, PrinterOK, CopyOK PROVE InvoiceTypeOK
    OBVIOUS
  <2>1. NumberedRows
    BY DEF InvoiceInv
  <2>2. invoiceNo \in [Sale -> 0 .. Cardinality(Sale)]
    BY <2>1, ShapesOfBills DEF NumberedRows
  <2>3. \A file \in files : file.pdf \in PdfShape
    BY <2>1, ShapesOfBills DEF InvoiceInv, FilesAreOfBills
  <2>4. printer.shows \in InvoiceShape
    BY <2>1, ShapesOfBills, IssuedIsFinite DEF InvoiceInv, ModalIsOfABill, InvoiceShape, NoInvoice
  <2>5. copy.pdf \in PdfShape
    BY <2>1, ShapesOfBills, IssuedIsFinite DEF CopyOK, PdfShape, NoCopy, NoPdf, Formats
  <2>6. (\A r \in fetches : r.to \in {"till", "portal"} /\ r.bill \in Sale /\ r.format \in Formats)
        /\ \A run \in running : run.action \in Actions /\ run.bill \in Sale
    BY DEF InvoiceInv, FetchesAreOfBills, ActionsAreOfBills
  <2> QED BY <2>2, <2>3, <2>4, <2>5, <2>6 DEF InvoiceTypeOK, PrinterOK
<1> QED BY <1>1, <1>2, <1>3, InvoiceInvariant, NumbersWithoutGaps, PTL DEF InvoiceSpec

-----------------------------------------------------------------------------
(* The lines and their discounts.  A request writes a line as a whole, with *)
(* a discount that fits the quantity it writes, so that this holds although *)
(* requests of several screens overlap.                                    *)

BillLine == [qty : 0 .. MaxQty, off : Nat]
Fits(line) == line.off <= Gross(line)

SaleRecord ==
  sale \in [st : {"DRAFT", "PENDING_COMMIT"}, lines : [LineId -> BillLine], off : Nat, round : {0, 1},
            grand : Nat]

Receipts == [mode : {"none", "CASH", "SPLIT", "CARD"}, parts : Seq(Nat), cash : Nat, change : Nat]
AskRecord ==
  [pc : {"idle", "line", "recalc", "discount", "sum", "totals", "roundSum", "round", "answer", "pay"},
   line : LineId \union {NoAsk.line}, put : BillLine, off : Nat, sum : Nat, near : BOOLEAN,
   pay : Receipts]
AskOk(a) == a \in AskRecord /\ (a.pc = "line" => a.line \in LineId /\ Fits(a.put))

LinesInv ==
  /\ SaleRecord /\ due \in [Screen -> Nat]
  /\ ask \in [Screen -> AskRecord] /\ \A s \in Screen : AskOk(ask[s])
  /\ \A l \in LineId : Fits(sale.lines[l])

\* What the lines come to, as a sum that can be reasoned about.
LEMMA RawIsASum ==
  ASSUME NEW lines \in [LineId -> BillLine]
  PROVE  Raw(lines) = SumOf([l \in LineId |-> LineTotal(lines[l])], LineId) /\ Raw(lines) \in Nat
<1> DEFINE f == [l \in LineId |-> LineTotal(lines[l])]
           h == CHOOSE h : h = [s \in SUBSET LineId |-> IF s = {} THEN 0
                                 ELSE LineTotal(lines[CHOOSE x \in s : TRUE])
                                      + h[s \ {CHOOSE x \in s : TRUE}]]
<1>1. \A l \in LineId : LineTotal(lines[l]) \in Nat
  <2>1. ASSUME NEW l \in LineId PROVE LineTotal(lines[l]) \in Nat
    <3>1. lines[l].qty \in Nat /\ lines[l].off \in Nat /\ Rate \in Nat
      BY TotalsAssumption DEF BillLine
    <3>2. lines[l].qty * Rate \in Nat
      BY <3>1
    <3> QED BY <3>1, <3>2 DEF LineTotal, Less, Gross
  <2> QED BY <2>1
<1>2. f \in [LineId -> Int] /\ IsFiniteSet(LineId) /\ LineId \in SUBSET LineId
  BY <1>1, TotalsAssumption
<1>3. Raw(lines) = h[LineId]
  BY DEF Raw, MapThenSumSet, MapThenFoldSet
<1>4. \A s \in SUBSET LineId : s # {} => f[Some(s)] = LineTotal(lines[CHOOSE x \in s : TRUE])
  BY SomeIsOne DEF Some
<1>5. PICK g : AddsUp(f, LineId, g)
  BY <1>2, SumExists
<1>6. g = [s \in SUBSET LineId |-> IF s = {} THEN 0
            ELSE LineTotal(lines[CHOOSE x \in s : TRUE]) + g[s \ {CHOOSE x \in s : TRUE}]]
  <2>1. g = [s \in SUBSET LineId |-> IF s = {} THEN 0 ELSE f[Some(s)] + g[s \ {Some(s)}]]
    BY <1>5 DEF AddsUp
  <2> HIDE DEF f
  <2> QED BY <1>4, <2>1 DEF Some
<1>7. h = [s \in SUBSET LineId |-> IF s = {} THEN 0
            ELSE LineTotal(lines[CHOOSE x \in s : TRUE]) + h[s \ {CHOOSE x \in s : TRUE}]]
  BY <1>6
<1> HIDE DEF h, f
<1>8. AddsUp(f, LineId, h)
  BY <1>4, <1>7 DEF AddsUp, Some
<1>9. SumOf(f, LineId) = h[LineId]
  BY <1>2, <1>8, SumIs
<1>10. SumOf(f, LineId) \in Nat
  BY <1>1, <1>2, SumIsNatural DEF f
<1> QED BY <1>3, <1>9, <1>10 DEF f

-----------------------------------------------------------------------------
(* The discounts of discount.ts.                                           *)

LEMMA Quotient ==
  ASSUME NEW a \in Nat, NEW b \in Nat \ {0}, NEW k \in Nat, a < b * (k + 1)
  PROVE  a \div b \in Nat /\ a \div b <= k
<1> DEFINE q == a \div b
<1>1. q \in Nat /\ b * q <= a
  OBVIOUS
<1>2. ASSUME q >= k + 1 PROVE FALSE
  <2>1. PICK d \in Nat : q = (k + 1) + d
    <3>1. q - (k + 1) \in Nat /\ q = (k + 1) + (q - (k + 1))
      BY <1>1, <1>2
    <3> QED BY <3>1
  <2>2. b * q = b * (k + 1) + b * d
    BY <2>1
  <2>3. b * d \in Nat /\ b * (k + 1) \in Nat /\ b * q \in Nat
    BY <1>1
  <2> HIDE DEF q
  <2> QED BY <1>1, <2>2, <2>3
<1> HIDE DEF q
<1>3. q <= k
  BY <1>1, <1>2
<1> QED BY <1>1, <1>3 DEF q

\* A discount that is within its line is within it still when it is scaled to another quantity.
LEMMA ScaledFits ==
  ASSUME NEW off \in Nat, NEW old \in Nat \ {0}, NEW new \in Nat, off <= old * Rate
  PROVE  ScaleDiscount(off, old, new) \in Nat /\ ScaleDiscount(off, old, new) <= new * Rate
<1>1. Rate \in Nat /\ new * Rate \in Nat /\ 2 * old \in Nat \ {0} /\ old * Rate \in Nat
  BY TotalsAssumption
<1>2. PICK d \in Nat : old * Rate = off + d
  <2>1. old * Rate - off \in Nat /\ old * Rate = off + (old * Rate - off)
    BY <1>1
  <2> QED BY <2>1
<1>3. (old * Rate) * new = off * new + d * new /\ off * new \in Nat /\ d * new \in Nat
  BY <1>2
<1>4. (old * Rate) * new = old * (new * Rate)
  BY <1>1
<1>5. (2 * old) * (new * Rate + 1) = 2 * (old * (new * Rate)) + 2 * old
  BY <1>1
<1>6. 2 * off * new = 2 * (off * new)
  OBVIOUS
<1>7. old * (new * Rate) \in Nat
  BY <1>1
<1>8. 2 * off * new + old \in Nat /\ 2 * off * new + old < (2 * old) * (new * Rate + 1)
  BY <1>3, <1>4, <1>5, <1>6, <1>7
<1> QED BY <1>1, <1>8, Quotient DEF ScaleDiscount

LEMMA DiscountForQtyFits ==
  ASSUME NEW line \in BillLine, Fits(line), NEW new \in Nat
  PROVE  DiscountForQty(line, new) \in Nat /\ DiscountForQty(line, new) <= new * Rate
<1>1. /\ line.qty \in Nat /\ line.off \in Nat /\ line.off <= line.qty * Rate
      /\ new * Rate \in Nat /\ new * PerUnit \in Nat
  BY TotalsAssumption DEF BillLine, Fits, Gross
<1>2. MasterDiscount(new) \in Nat /\ MasterDiscount(new) <= new * Rate
  BY <1>1 DEF MasterDiscount, Least
<1>3. CASE line.qty = 0 \/ line.off = MasterDiscount(line.qty)
  BY <1>2, <1>3 DEF DiscountForQty
<1>4. CASE ~(line.qty = 0 \/ line.off = MasterDiscount(line.qty))
  <2>1. DiscountForQty(line, new) = ScaleDiscount(line.off, line.qty, new) /\ line.qty \in Nat \ {0}
    BY <1>1, <1>4 DEF DiscountForQty
  <2> QED BY <1>1, <2>1, ScaledFits
<1> QED BY <1>3, <1>4

-----------------------------------------------------------------------------
(* The steps, for the lines.                                               *)

LEMMA NoAskIsIdle == NoAsk \in AskRecord /\ NoAsk.pc = "idle" /\ AskOk(NoAsk)
<1>1. EmptyLine \in BillLine
  BY TotalsAssumption DEF EmptyLine, BillLine
<1>2. NoReceipt \in Receipts
  BY DEF NoReceipt, Receipts
<1>3. NoAsk.pc = "idle"
  BY DEF NoAsk
<1>4. NoAsk \in AskRecord
  <2> DEFINE line == CHOOSE l \in LineId : TRUE
  <2>1. NoAsk = [pc |-> "idle", line |-> line, put |-> EmptyLine, off |-> 0, sum |-> 0, near |-> FALSE,
                 pay |-> NoReceipt]
    BY DEF NoAsk
  <2> HIDE DEF line
  <2>2. NoAsk.line = line
    BY <2>1
  <2> QED BY <1>1, <1>2, <2>1, <2>2 DEF AskRecord
<1> QED BY <1>3, <1>4 DEF AskOk

LEMMA LinesInitInv == TotalsInit => LinesInv
<1> SUFFICES ASSUME TotalsInit PROVE LinesInv
  OBVIOUS
<1>1. SaleRecord
  BY TotalsAssumption DEF TotalsInit, SaleRecord, BillLine, EmptyLine
<1>2. ask = [s \in Screen |-> NoAsk] /\ due \in [Screen -> Nat]
  BY DEF TotalsInit
<1>3. \A l \in LineId : sale.lines[l].qty = 0 /\ sale.lines[l].off = 0
  BY DEF TotalsInit, EmptyLine
<1>4. \A l \in LineId : Fits(sale.lines[l])
  BY <1>3, TotalsAssumption DEF Fits, Gross
<1> QED BY <1>1, <1>2, <1>4, NoAskIsIdle DEF LinesInv

\* A request that changes no line.
LEMMA NoLineStep ==
  ASSUME LinesInv, NEW s \in Screen, NEW a, AskOk(a), ask' = [ask EXCEPT ![s] = a],
         SaleRecord', sale'.lines = sale.lines, due' \in [Screen -> Nat]
  PROVE  LinesInv'
<1>1. \A t \in Screen : ask'[t] = IF t = s THEN a ELSE ask[t]
  BY DEF LinesInv
<1>2. ask' \in [Screen -> AskRecord]
  BY DEF LinesInv, AskOk
<1>3. \A t \in Screen : AskOk(ask'[t])
  BY <1>1 DEF LinesInv
<1>4. \A t \in Screen : AskOk(ask[t])'
  BY <1>3 DEF AskOk, Fits, Gross
<1>5. \A l \in LineId : Fits(sale'.lines[l])
  BY DEF LinesInv
<1> QED BY <1>2, <1>4, <1>5 DEF LinesInv, Fits, Gross

LEMMA DiscountsAreNatural == ASSUME NEW gross \in Nat, NEW off \in Discounts(gross) PROVE off \in Nat
<1>1. (gross + 1) \div 2 \in Nat /\ HalfOff(gross) \in Nat
  BY DEF HalfOff, Least
<1>2. \A o \in Off : Least(o, gross) \in Nat
  BY TotalsAssumption DEF Least
<1> QED BY <1>1, <1>2 DEF Discounts

\* The requests that change a line, up to what they write.
LEMMA LineAskStep ==
  ASSUME LinesInv, NEW s \in Screen, NEW l \in LineId,
         \/ \E qty \in 0 .. MaxQty : ChangeQty(s, l, qty)
         \/ \E off \in Discounts(Gross(sale.lines[l])) : ChangeLineDiscount(s, l, off)
  PROVE  /\ LinesInv'
         /\ \E put \in BillLine : ask' = [ask EXCEPT ![s] = [NoAsk EXCEPT !.pc = "line", !.line = l, !.put = put]]
<1>1. sale.lines[l] \in BillLine /\ Fits(sale.lines[l]) /\ UNCHANGED <<sale, due>>
  BY DEF LinesInv, SaleRecord, ChangeQty, ChangeLineDiscount
<1>2. PICK put \in BillLine :
        Fits(put) /\ ask' = [ask EXCEPT ![s] = [NoAsk EXCEPT !.pc = "line", !.line = l, !.put = put]]
  <2>1. ASSUME NEW qty \in 0 .. MaxQty, ChangeQty(s, l, qty)
        PROVE  \E put \in BillLine :
          Fits(put) /\ ask' = [ask EXCEPT ![s] = [NoAsk EXCEPT !.pc = "line", !.line = l, !.put = put]]
    <3> DEFINE put == IF qty = 0 THEN EmptyLine ELSE [qty |-> qty, off |-> DiscountForQty(sale.lines[l], qty)]
    <3>1. qty \in Nat
      BY TotalsAssumption
    <3>2. EmptyLine \in BillLine /\ Fits(EmptyLine)
      BY TotalsAssumption DEF EmptyLine, BillLine, Fits, Gross
    <3>3. put \in BillLine /\ Fits(put)
      BY <1>1, <3>1, <3>2, DiscountForQtyFits DEF BillLine, Fits, Gross
    <3>4. ask' = [ask EXCEPT ![s] = [NoAsk EXCEPT !.pc = "line", !.line = l, !.put = put]]
      BY <2>1 DEF ChangeQty
    <3> HIDE DEF put
    <3> QED BY <3>3, <3>4
  <2>2. ASSUME NEW off \in Discounts(Gross(sale.lines[l])), ChangeLineDiscount(s, l, off)
        PROVE  \E put \in BillLine :
          Fits(put) /\ ask' = [ask EXCEPT ![s] = [NoAsk EXCEPT !.pc = "line", !.line = l, !.put = put]]
    <3> DEFINE put == [sale.lines[l] EXCEPT !.off = off]
    <3>1. Gross(sale.lines[l]) \in Nat
      BY <1>1, TotalsAssumption DEF Gross, BillLine
    <3>2. off \in Nat
      BY <3>1, DiscountsAreNatural
    <3>3. off <= Gross(sale.lines[l])
      BY <2>2 DEF ChangeLineDiscount
    <3>4. put \in BillLine /\ Fits(put)
      BY <1>1, <3>2, <3>3 DEF BillLine, Fits, Gross
    <3>5. ask' = [ask EXCEPT ![s] = [NoAsk EXCEPT !.pc = "line", !.line = l, !.put = put]]
      BY <2>2 DEF ChangeLineDiscount
    <3> HIDE DEF put
    <3> QED BY <3>4, <3>5
  <2> QED BY <2>1, <2>2
<1> DEFINE a == [NoAsk EXCEPT !.pc = "line", !.line = l, !.put = put]
<1>3. a \in AskRecord /\ a.line = l /\ a.put = put
  BY NoAskIsIdle DEF AskRecord
<1> HIDE DEF a
<1>4. AskOk(a)
  BY <1>2, <1>3 DEF AskOk
<1>5. ask' = [ask EXCEPT ![s] = a] /\ SaleRecord' /\ sale'.lines = sale.lines /\ due' \in [Screen -> Nat]
  BY <1>1, <1>2 DEF a, LinesInv, SaleRecord
<1> QED BY <1>2, <1>4, <1>5, NoLineStep

LEMMA WriteBillLineStep ==
  ASSUME LinesInv, NEW s \in Screen, WriteBillLine(s)
  PROVE  LinesInv'
<1> DEFINE l == ask[s].line
           a == [ask[s] EXCEPT !.pc = "recalc"]
<1>1. ask[s] \in AskRecord /\ l \in LineId /\ ask[s].put \in BillLine /\ Fits(ask[s].put)
  BY DEF WriteBillLine, LinesInv, AskOk, AskRecord
<1>2. sale' = [sale EXCEPT !.lines[l] = ask[s].put] /\ ask' = [ask EXCEPT ![s].pc = "recalc"] /\ UNCHANGED due
  BY DEF WriteBillLine, AskTo
<1>3. SaleRecord' /\ \A k \in LineId : sale'.lines[k] = IF k = l THEN ask[s].put ELSE sale.lines[k]
  BY <1>1, <1>2 DEF LinesInv, SaleRecord
<1>4. \A k \in LineId : Fits(sale'.lines[k])
  BY <1>1, <1>3 DEF LinesInv
<1>5. a \in AskRecord /\ a.pc = "recalc" /\ ask' = [ask EXCEPT ![s] = a]
  BY <1>1, <1>2 DEF AskRecord, LinesInv
<1> HIDE DEF a, l
<1>6. ask' \in [Screen -> AskRecord] /\ \A t \in Screen : AskOk(ask[t])'
  BY <1>5 DEF LinesInv, AskOk, Fits, Gross
<1> QED BY <1>2, <1>3, <1>4, <1>6 DEF LinesInv, Fits, Gross

\* The other requests, and the answers.
LEMMA OtherAskStep ==
  ASSUME LinesInv, NEW s \in Screen,
         \/ \E off \in Discounts(Raw(sale.lines)) : SetBillDiscount(s, off)
         \/ \E nearest \in BOOLEAN : SetRoundOff(s, nearest)
         \/ ReadBill(s) \/ ReadLines(s) \/ AnswerTotals(s)
  PROVE  LinesInv' /\ UNCHANGED sale
<1>1. UNCHANGED sale
  BY DEF SetBillDiscount, SetRoundOff, ReadBill, ReadLines, AnswerTotals
<1>2. /\ SaleRecord' /\ sale'.lines = sale.lines /\ sale.off \in Nat /\ sale.grand \in Nat
      /\ Raw(sale.lines) \in Nat
  BY <1>1, RawIsASum DEF LinesInv, SaleRecord
<1>3. due' \in [Screen -> Nat]
  <2>1. CASE UNCHANGED due
    BY <2>1 DEF LinesInv
  <2>2. CASE due' = [due EXCEPT ![s] = IF s \in modal' THEN sale.grand ELSE 0]
    BY <1>2, <2>2 DEF LinesInv
  <2> QED BY <2>1, <2>2 DEF SetBillDiscount, SetRoundOff, ReadBill, ReadLines, AnswerTotals
<1>4. ask[s] \in AskRecord
  BY DEF LinesInv
<1>5. \E a : AskOk(a) /\ ask' = [ask EXCEPT ![s] = a]
  <2>1. ASSUME NEW off \in Discounts(Raw(sale.lines)), SetBillDiscount(s, off)
        PROVE  \E a : AskOk(a) /\ ask' = [ask EXCEPT ![s] = a]
    <3> DEFINE a == [NoAsk EXCEPT !.pc = "discount", !.off = off]
    <3>1. off \in Nat
      BY <1>2, DiscountsAreNatural
    <3>2. a \in AskRecord /\ a.pc = "discount"
      BY <3>1, NoAskIsIdle DEF AskRecord
    <3>3. ask' = [ask EXCEPT ![s] = a]
      BY <2>1 DEF SetBillDiscount
    <3> QED BY <3>2, <3>3 DEF AskOk
  <2>2. ASSUME NEW nearest \in BOOLEAN, SetRoundOff(s, nearest)
        PROVE  \E a : AskOk(a) /\ ask' = [ask EXCEPT ![s] = a]
    <3> DEFINE a == [NoAsk EXCEPT !.pc = "roundSum", !.off = sale.off, !.near = nearest]
    <3>1. a \in AskRecord /\ a.pc = "roundSum"
      BY <1>2, NoAskIsIdle DEF AskRecord
    <3>2. ask' = [ask EXCEPT ![s] = a]
      BY <2>2 DEF SetRoundOff
    <3> QED BY <3>1, <3>2 DEF AskOk
  <2>3. CASE ReadBill(s)
    <3> DEFINE a == [ask[s] EXCEPT !.pc = "sum", !.off = sale.off]
    <3>1. a \in AskRecord /\ a.pc = "sum"
      BY <1>2, <1>4 DEF AskRecord
    <3>2. ask' = [ask EXCEPT ![s] = a]
      BY <2>3 DEF ReadBill, LinesInv
    <3> QED BY <3>1, <3>2 DEF AskOk
  <2>4. CASE ReadLines(s)
    <3> DEFINE next == IF ask[s].pc = "sum" THEN "totals" ELSE "round"
               a == [ask[s] EXCEPT !.sum = Raw(sale.lines), !.pc = next]
    <3>1. a \in AskRecord /\ a.pc # "line"
      BY <1>2, <1>4 DEF AskRecord
    <3>2. ask' = [ask EXCEPT ![s] = a]
      BY <2>4 DEF ReadLines, LinesInv, AskRecord
    <3>3. AskOk(a)
      BY <3>1 DEF AskOk
    <3> HIDE DEF a
    <3> QED BY <3>2, <3>3
  <2>5. CASE AnswerTotals(s)
    BY <2>5, NoAskIsIdle DEF AnswerTotals
  <2> QED BY <2>1, <2>2, <2>3, <2>4, <2>5
<1> QED BY <1>1, <1>2, <1>3, <1>5, NoLineStep

\* A payment goes out: what is recorded of it.
LEMMA ResolvedIsAReceipt ==
  ASSUME NEW total \in Nat, NEW dto \in Tenders(total), NEW grand \in Nat, Resolves(dto, grand)
  PROVE  Resolved(dto, grand) \in Receipts
<1>1. \/ dto.mode = "CASH" /\ dto.cash \in Nat
      \/ dto.mode = "SPLIT" /\ dto.cash = 0 /\ dto.splits \in Seq(Nat)
      \/ dto.mode = "CARD" /\ dto.cash = 0
  <2>1. ASSUME NEW c \in total .. total + 1, dto = [mode |-> "CASH", cash |-> c, splits |-> <<>>]
        PROVE  dto.mode = "CASH" /\ dto.cash \in Nat
    BY <2>1
  <2>2. ASSUME NEW part \in 1 .. Less(total, 1),
               dto = [mode |-> "SPLIT", cash |-> 0, splits |-> <<part, total - part>>]
        PROVE  dto.mode = "SPLIT" /\ dto.cash = 0 /\ dto.splits \in Seq(Nat)
    <3>1. part \in Nat /\ total - part \in Nat
      BY <2>2 DEF Less
    <3> QED BY <2>2, <3>1
  <2>3. dto = [mode |-> "CARD", cash |-> 0, splits |-> <<>>] => dto.mode = "CARD" /\ dto.cash = 0
    OBVIOUS
  <2> QED BY <2>1, <2>2, <2>3 DEF Tenders, CashTenders, SplitTenders
<1> DEFINE parts == IF dto.mode = "SPLIT" THEN dto.splits ELSE <<grand>>
           change == IF dto.mode = "CASH" THEN dto.cash - grand ELSE 0
<1>2. parts \in Seq(Nat) /\ change \in Nat /\ dto.cash \in Nat
      /\ dto.mode \in {"none", "CASH", "SPLIT", "CARD"}
  BY <1>1 DEF Resolves
<1>3. Resolved(dto, grand) = [mode |-> dto.mode, parts |-> parts, cash |-> dto.cash, change |-> change]
  BY DEF Resolved
<1> HIDE DEF parts, change
<1> QED BY <1>2, <1>3 DEF Receipts

LEMMA CompleteStep ==
  ASSUME LinesInv, NEW s \in Screen, NEW dto \in Tenders(due[s]), Complete(s, dto)
  PROVE  LinesInv' /\ UNCHANGED sale
<1>1. UNCHANGED <<sale, due>> /\ Resolves(dto, sale.grand)
  BY DEF Complete
<1>2. due[s] \in Nat /\ sale.grand \in Nat /\ SaleRecord' /\ due' \in [Screen -> Nat]
  BY <1>1 DEF LinesInv, SaleRecord
<1>3. Resolved(dto, sale.grand) \in Receipts
  BY <1>1, <1>2, ResolvedIsAReceipt
<1> DEFINE a == [NoAsk EXCEPT !.pc = "pay", !.pay = Resolved(dto, sale.grand)]
<1>4. a \in AskRecord /\ a.pc = "pay"
  BY <1>3, NoAskIsIdle DEF AskRecord
<1>5. ask' = [ask EXCEPT ![s] = a]
  BY DEF Complete
<1>6. AskOk(a)
  BY <1>4 DEF AskOk
<1> HIDE DEF a
<1> QED BY <1>1, <1>2, <1>5, <1>6, NoLineStep

\* What the requests write into the bill itself.
LEMMA BillRowStep ==
  ASSUME LinesInv, NEW s \in Screen,
         WriteBillDiscount(s) \/ WriteRoundOff(s) \/ WriteTotals(s) \/ WritePayment(s)
  PROVE  LinesInv' /\ sale'.lines = sale.lines
<1>1. ask[s] \in AskRecord /\ ask[s].off \in Nat /\ ask[s].sum \in Nat
  BY DEF LinesInv, AskRecord
<1>2. PICK pc \in {"recalc", "answer"} : ask' = [ask EXCEPT ![s].pc = pc]
  BY DEF WriteBillDiscount, WriteRoundOff, WriteTotals, WritePayment, AskTo
<1> DEFINE a == [ask[s] EXCEPT !.pc = pc]
<1>3. ask' = [ask EXCEPT ![s] = a] /\ a \in AskRecord /\ a.pc # "line"
  BY <1>1, <1>2 DEF LinesInv, AskRecord
<1>4. AskOk(a)
  BY <1>3 DEF AskOk
<1> HIDE DEF a
<1>5. Less(ask[s].sum, ask[s].off) \in Nat
  BY <1>1 DEF Less
<1>6. SaleRecord' /\ sale'.lines = sale.lines
  <2>1. CASE WriteBillDiscount(s) \/ WritePayment(s)
    BY <1>1, <2>1 DEF WriteBillDiscount, WritePayment, LinesInv, SaleRecord
  <2>2. CASE WriteTotals(s)
    BY <1>1, <1>5, <2>2 DEF WriteTotals, LinesInv, SaleRecord
  <2>3. CASE WriteRoundOff(s)
    <3> DEFINE exact == Less(ask[s].sum, ask[s].off)
               grand == IF ask[s].near THEN ToRupee(exact) ELSE exact
    <3>1. sale' = [sale EXCEPT !.round = grand - exact, !.grand = grand]
      BY <2>3 DEF WriteRoundOff
    <3>2. grand \in Nat /\ grand - exact \in {0, 1}
      BY <1>5 DEF ToRupee
    <3> HIDE DEF grand, exact
    <3> QED BY <3>1, <3>2 DEF LinesInv, SaleRecord
  <2> QED BY <2>1, <2>2, <2>3
<1>7. due' \in [Screen -> Nat]
  BY DEF WriteBillDiscount, WriteRoundOff, WriteTotals, WritePayment, LinesInv
<1> QED BY <1>3, <1>4, <1>6, <1>7, NoLineStep

LEMMA ModalsStep ==
  ASSUME LinesInv, NEW s \in Screen, OpenPayment(s) \/ ClosePayment(s)
  PROVE  LinesInv' /\ UNCHANGED <<sale, receipt, ask>>
<1>1. UNCHANGED <<sale, receipt, ask>>
  BY DEF OpenPayment, ClosePayment
<1>2. due' \in [Screen -> Nat]
  BY DEF OpenPayment, ClosePayment, LinesInv, SaleRecord
<1> QED BY <1>1, <1>2 DEF LinesInv, SaleRecord, AskOk, Fits, Gross

LEMMA LinesStep == LinesInv /\ [TotalsNext]_totalsVars => LinesInv'
<1> SUFFICES ASSUME LinesInv, [TotalsNext]_totalsVars PROVE LinesInv'
  OBVIOUS
<1>1. CASE UNCHANGED totalsVars
  BY <1>1 DEF totalsVars, LinesInv, SaleRecord, AskOk, Fits, Gross
<1>2. ASSUME NEW s \in Screen, TotalsStep(s) PROVE LinesInv'
  BY <1>2, LineAskStep, WriteBillLineStep, OtherAskStep, CompleteStep, BillRowStep, ModalsStep DEF TotalsStep
<1> QED BY <1>1, <1>2 DEF TotalsNext

LEMMA LinesInvariant == TotalsSpec => []LinesInv
  BY LinesInitInv, LinesStep, PTL DEF TotalsSpec

\* A line's discount never exceeds the line, whichever discounts and quantities were typed before
\* and on however many screens at once: scaling a discount rounds it, but never above the line.
THEOREM DiscountsStayWithinLines == TotalsSpec => []LineDiscountWithinLine
<1>1. LinesInv => LineDiscountWithinLine
  BY DEF LinesInv, LineDiscountWithinLine, Fits
<1> QED BY <1>1, LinesInvariant, PTL

\* The types of the bill: no quantity leaves what may be typed and a round-off is at most half a
\* rupee, also while requests of several screens overlap.
THEOREM TotalsTypes == TotalsSpec => []TotalsTypeOK
<1>1. LinesInv /\ modal \subseteq Screen => TotalsTypeOK
  BY DEF LinesInv, SaleRecord, BillLine, TotalsTypeOK
<1>2. TotalsInit => modal \subseteq Screen
  BY DEF TotalsInit
<1>3. modal \subseteq Screen /\ [TotalsNext]_totalsVars => (modal \subseteq Screen)'
  BY DEF totalsVars, TotalsNext, TotalsStep, ChangeQty, ChangeLineDiscount, SetBillDiscount, SetRoundOff, Complete,
     WriteBillLine, WriteBillDiscount, WriteRoundOff, ReadBill, ReadLines, WriteTotals, AnswerTotals, OpenPayment,
     ClosePayment, WritePayment
<1> QED BY <1>1, <1>2, <1>3, LinesInvariant, PTL DEF TotalsSpec

-----------------------------------------------------------------------------
(* The totals and the payment, while requests do not overlap.  One request *)
(* at a time reads and writes the bill; what it has read of it is true     *)
(* until it writes, and only between a change and the recalculation that   *)
(* follows does the total not match the lines.                             *)

TotalsFit(row) ==
  /\ row.grand = Less(Raw(row.lines), row.off) + row.round
  /\ row.round > 0 => row.grand % 2 = 0

\* What is recorded of a payment comes to the total.
Covers(pay, grand) ==
  /\ grand > 0
  /\ IF pay.mode = "SPLIT" THEN pay.parts[1] + pay.parts[2] = grand ELSE pay.parts = <<grand>>
  /\ pay.mode = "CASH" => pay.cash = grand + pay.change

\* A request a on its way, and the bill.
UpToDate(a, row) ==
  a.pc # "idle" =>
    /\ a.pc \notin {"recalc", "sum", "totals"} => TotalsFit(row)
    /\ a.pc # "answer" => row.st = "DRAFT"
    /\ a.pc \in {"sum", "totals", "roundSum", "round"} => a.off = row.off
    /\ a.pc \in {"totals", "round"} => a.sum = Raw(row.lines)
    /\ a.pc = "pay" => Covers(a.pay, row.grand)

OneAsks == \A s, t \in Screen : ask[s].pc # "idle" /\ ask[t].pc # "idle" => s = t

MoneyInv ==
  /\ OneAsks /\ \A s \in Screen : UpToDate(ask[s], sale)
  /\ TotalsMatchLines /\ (sale.st = "PENDING_COMMIT" => Covers(receipt, sale.grand))

LEMMA MoneyInitInv == TotalsInit => MoneyInv
<1> SUFFICES ASSUME TotalsInit PROVE MoneyInv
  OBVIOUS
<1>1. ask = [s \in Screen |-> NoAsk]
  BY DEF TotalsInit
<1>2. \A s \in Screen : ask[s].pc = "idle"
  BY <1>1, NoAskIsIdle
<1>3. sale.st = "DRAFT" /\ sale.off = 0 /\ sale.round = 0 /\ sale.grand = 0
      /\ sale.lines = [l \in LineId |-> EmptyLine]
  BY DEF TotalsInit
<1> DEFINE f == [l \in LineId |-> LineTotal(sale.lines[l])]
<1>4. sale.lines \in [LineId -> BillLine] /\ \A l \in LineId : LineTotal(sale.lines[l]) = 0
  BY <1>3, TotalsAssumption DEF EmptyLine, BillLine, LineTotal, Gross, Less
<1>5. f \in [LineId -> Int] /\ (\A l \in LineId : f[l] = 0) /\ IsFiniteSet(LineId) /\ LineId \in SUBSET LineId
  BY <1>4, TotalsAssumption
<1> HIDE DEF f
<1>6. Raw(sale.lines) = 0
  BY <1>4, <1>5, RawIsASum, SumOfZeros DEF f
<1> QED BY <1>2, <1>3, <1>6 DEF MoneyInv, OneAsks, UpToDate, TotalsMatchLines, Less

\* A step of the one request there is.
LEMMA OneAskStep ==
  ASSUME LinesInv, MoneyInv, NEW s \in Screen, NEW a, ask' = [ask EXCEPT ![s] = a],
         \A t \in Screen : t # s => ask[t].pc = "idle",
         UpToDate(a, sale'), a.pc = "idle" => TotalsFit(sale'),
         sale'.st = "PENDING_COMMIT" => Covers(receipt', sale'.grand)
  PROVE  MoneyInv'
<1>1. \A t \in Screen : ask'[t] = IF t = s THEN a ELSE ask[t]
  BY DEF LinesInv
<1>2. OneAsks' /\ \A t \in Screen : UpToDate(ask'[t], sale')
  BY <1>1 DEF OneAsks, UpToDate
<1>3. TotalsMatchLines'
  BY <1>1 DEF TotalsMatchLines, AllAnswered, UpToDate, TotalsFit
<1> QED BY <1>2, <1>3 DEF MoneyInv, UpToDate, TotalsFit, Covers

\* While requests do not overlap one starts when nothing else is under way.
LEMMA AskAlone ==
  ASSUME ~Overlapping, MoneyInv, NEW s \in Screen, MayAsk(s)
  PROVE  (\A t \in Screen : ask[t].pc = "idle") /\ TotalsFit(sale)
  BY DEF MayAsk, MoneyInv, TotalsMatchLines, AllAnswered, TotalsFit

LEMMA RunsAlone ==
  ASSUME MoneyInv, NEW s \in Screen, ask[s].pc # "idle"
  PROVE  (\A t \in Screen : t # s => ask[t].pc = "idle") /\ UpToDate(ask[s], sale)
  BY DEF MoneyInv, OneAsks

LEMMA LineAsked ==
  ASSUME ~Overlapping, LinesInv, MoneyInv, NEW s \in Screen, NEW l \in LineId,
         \/ \E qty \in 0 .. MaxQty : ChangeQty(s, l, qty)
         \/ \E off \in Discounts(Gross(sale.lines[l])) : ChangeLineDiscount(s, l, off)
  PROVE  MoneyInv'
<1>1. MayAsk(s) /\ sale.st = "DRAFT" /\ UNCHANGED <<sale, receipt>>
  BY DEF ChangeQty, ChangeLineDiscount, SaleEditable
<1>2. PICK put \in BillLine : ask' = [ask EXCEPT ![s] = [NoAsk EXCEPT !.pc = "line", !.line = l, !.put = put]]
  BY LineAskStep
<1> DEFINE a == [NoAsk EXCEPT !.pc = "line", !.line = l, !.put = put]
<1>3. a.pc = "line"
  BY NoAskIsIdle DEF AskRecord
<1>4. ask' = [ask EXCEPT ![s] = a]
  BY <1>2
<1> HIDE DEF a
<1>5. UpToDate(a, sale')
  BY <1>1, <1>3, AskAlone DEF UpToDate
<1> QED BY <1>1, <1>3, <1>4, <1>5, AskAlone, OneAskStep

LEMMA TotalsAsked ==
  ASSUME ~Overlapping, LinesInv, MoneyInv, NEW s \in Screen,
         \/ \E off \in Discounts(Raw(sale.lines)) : SetBillDiscount(s, off)
         \/ \E nearest \in BOOLEAN : SetRoundOff(s, nearest)
  PROVE  MoneyInv'
<1>1. MayAsk(s) /\ sale.st = "DRAFT" /\ UNCHANGED <<sale, receipt>>
  BY DEF SetBillDiscount, SetRoundOff, SaleEditable
<1>2. \E a : /\ ask' = [ask EXCEPT ![s] = a]
             /\ a.pc = "discount" \/ (a.pc = "roundSum" /\ a.off = sale.off)
  <2>1. ASSUME NEW off \in Discounts(Raw(sale.lines)), SetBillDiscount(s, off)
        PROVE  \E a : /\ ask' = [ask EXCEPT ![s] = a]
                      /\ a.pc = "discount" \/ (a.pc = "roundSum" /\ a.off = sale.off)
    <3>1. [NoAsk EXCEPT !.pc = "discount", !.off = off].pc = "discount"
      BY NoAskIsIdle DEF AskRecord
    <3> QED BY <2>1, <3>1 DEF SetBillDiscount
  <2>2. ASSUME NEW nearest \in BOOLEAN, SetRoundOff(s, nearest)
        PROVE  \E a : /\ ask' = [ask EXCEPT ![s] = a]
                      /\ a.pc = "discount" \/ (a.pc = "roundSum" /\ a.off = sale.off)
    <3> DEFINE a == [NoAsk EXCEPT !.pc = "roundSum", !.off = sale.off, !.near = nearest]
    <3>1. a.pc = "roundSum" /\ a.off = sale.off
      BY NoAskIsIdle DEF AskRecord
    <3>2. ask' = [ask EXCEPT ![s] = a]
      BY <2>2 DEF SetRoundOff
    <3> HIDE DEF a
    <3> QED BY <3>1, <3>2
  <2> QED BY <2>1, <2>2
<1>3. PICK a : /\ ask' = [ask EXCEPT ![s] = a]
               /\ a.pc = "discount" \/ (a.pc = "roundSum" /\ a.off = sale.off)
  BY <1>2
<1>4. UpToDate(a, sale')
  BY <1>1, <1>3, AskAlone DEF UpToDate
<1> QED BY <1>1, <1>3, <1>4, AskAlone, OneAskStep

LEMMA LineWritten ==
  ASSUME LinesInv, MoneyInv, NEW s \in Screen, WriteBillLine(s) \/ WriteBillDiscount(s)
  PROVE  MoneyInv'
<1> DEFINE a == [ask[s] EXCEPT !.pc = "recalc"]
<1>1. ask[s].pc \in {"line", "discount"} /\ ask[s] \in AskRecord
  BY DEF WriteBillLine, WriteBillDiscount, LinesInv
<1>2. sale.st = "DRAFT" /\ \A t \in Screen : t # s => ask[t].pc = "idle"
  BY <1>1, RunsAlone DEF UpToDate
<1>3. sale'.st = "DRAFT"
  BY <1>2 DEF WriteBillLine, WriteBillDiscount, LinesInv, SaleRecord
<1>4. ask' = [ask EXCEPT ![s] = a] /\ a.pc = "recalc"
  BY <1>1 DEF WriteBillLine, WriteBillDiscount, AskTo, LinesInv, AskRecord
<1> HIDE DEF a
<1>5. UpToDate(a, sale')
  BY <1>3, <1>4 DEF UpToDate
<1> QED BY <1>2, <1>3, <1>4, <1>5, OneAskStep

LEMMA BillRead ==
  ASSUME LinesInv, MoneyInv, NEW s \in Screen, ReadBill(s) \/ ReadLines(s)
  PROVE  MoneyInv'
<1>1. ask[s].pc \in {"recalc", "sum", "roundSum"} /\ UNCHANGED <<sale, receipt>> /\ ask[s] \in AskRecord
  BY DEF ReadBill, ReadLines, LinesInv
<1>2. /\ sale.st = "DRAFT" /\ \A t \in Screen : t # s => ask[t].pc = "idle"
      /\ ask[s].pc \in {"sum", "roundSum"} => ask[s].off = sale.off
      /\ ask[s].pc = "roundSum" => TotalsFit(sale)
  BY <1>1, RunsAlone DEF UpToDate
<1>3. CASE ReadBill(s)
  <2> DEFINE a == [ask[s] EXCEPT !.pc = "sum", !.off = sale.off]
  <2>1. a.pc = "sum" /\ a.off = sale.off
    BY <1>1 DEF AskRecord
  <2>2. ask' = [ask EXCEPT ![s] = a]
    BY <1>3 DEF ReadBill, LinesInv
  <2> HIDE DEF a
  <2>3. UpToDate(a, sale')
    BY <1>1, <1>2, <2>1 DEF UpToDate
  <2> QED BY <1>1, <1>2, <2>1, <2>2, <2>3, OneAskStep
<1>4. CASE ReadLines(s)
  <2> DEFINE next == IF ask[s].pc = "sum" THEN "totals" ELSE "round"
             a == [ask[s] EXCEPT !.sum = Raw(sale.lines), !.pc = next]
  <2>1. a.pc = next /\ a.off = ask[s].off /\ a.sum = Raw(sale.lines)
    BY <1>1 DEF AskRecord
  <2>2. ask' = [ask EXCEPT ![s] = a]
    BY <1>4 DEF ReadLines, LinesInv
  <2>3. ask[s].pc \in {"sum", "roundSum"}
    BY <1>4 DEF ReadLines
  <2> HIDE DEF a
  <2>4. UpToDate(a, sale')
    BY <1>1, <1>2, <2>1, <2>3 DEF UpToDate
  <2> QED BY <1>1, <1>2, <2>1, <2>2, <2>3, <2>4, OneAskStep
<1> QED BY <1>3, <1>4 DEF ReadBill, ReadLines

LEMMA TotalsWritten ==
  ASSUME LinesInv, MoneyInv, NEW s \in Screen, WriteTotals(s) \/ WriteRoundOff(s)
  PROVE  MoneyInv'
<1> DEFINE a == [ask[s] EXCEPT !.pc = "answer"]
           exact == Less(ask[s].sum, ask[s].off)
<1>1. ask[s].pc \in {"totals", "round"} /\ ask[s] \in AskRecord /\ ask[s].off \in Nat /\ ask[s].sum \in Nat
  BY DEF WriteTotals, WriteRoundOff, LinesInv, AskRecord
<1>2. /\ sale.st = "DRAFT" /\ \A t \in Screen : t # s => ask[t].pc = "idle"
      /\ ask[s].off = sale.off /\ ask[s].sum = Raw(sale.lines)
  BY <1>1, RunsAlone DEF UpToDate
<1>3. ask' = [ask EXCEPT ![s] = a] /\ a.pc = "answer" /\ sale'.st = "DRAFT"
  BY <1>1, <1>2 DEF WriteTotals, WriteRoundOff, AskTo, LinesInv, AskRecord, SaleRecord
<1>4. exact \in Nat
  BY <1>1 DEF Less
<1>5. TotalsFit(sale')
  <2>1. CASE WriteTotals(s)
    <3>1. sale' = [sale EXCEPT !.off = ask[s].off, !.round = 0, !.grand = exact]
      BY <2>1 DEF WriteTotals
    <3>2. sale'.lines = sale.lines /\ sale'.off = ask[s].off /\ sale'.round = 0 /\ sale'.grand = exact
      BY <3>1 DEF LinesInv, SaleRecord
    <3>3. exact = Less(Raw(sale'.lines), sale'.off)
      BY <1>2, <3>2
    <3> HIDE DEF exact
    <3> QED BY <1>4, <3>2, <3>3 DEF TotalsFit
  <2>2. CASE WriteRoundOff(s)
    <3> DEFINE grand == IF ask[s].near THEN ToRupee(exact) ELSE exact
    <3>1. sale' = [sale EXCEPT !.round = grand - exact, !.grand = grand]
      BY <2>2 DEF WriteRoundOff
    <3>2. grand \in Nat /\ (grand # exact => grand % 2 = 0)
      <4> HIDE DEF exact
      <4>1. ToRupee(exact) \in Nat /\ ToRupee(exact) % 2 = 0
        BY <1>4 DEF ToRupee
      <4> QED BY <1>4, <4>1
    <3> HIDE DEF grand
    <3>3. /\ sale'.lines = sale.lines /\ sale'.off = sale.off /\ sale'.round = grand - exact
          /\ sale'.grand = grand
      BY <3>1 DEF LinesInv, SaleRecord
    <3>4. exact = Less(Raw(sale'.lines), sale'.off)
      BY <1>2, <3>3
    <3> HIDE DEF exact
    <3> QED BY <1>4, <3>2, <3>3, <3>4 DEF TotalsFit
  <2> QED BY <2>1, <2>2
<1> HIDE DEF a, exact
<1>6. UpToDate(a, sale')
  BY <1>3, <1>5 DEF UpToDate
<1> QED BY <1>2, <1>3, <1>5, <1>6, OneAskStep

LEMMA TotalsAnswered ==
  ASSUME LinesInv, MoneyInv, NEW s \in Screen, AnswerTotals(s)
  PROVE  MoneyInv'
<1>1. ask[s].pc = "answer" /\ ask' = [ask EXCEPT ![s] = NoAsk] /\ UNCHANGED <<sale, receipt>>
  BY DEF AnswerTotals
<1>2. TotalsFit(sale) /\ \A t \in Screen : t # s => ask[t].pc = "idle"
  BY <1>1, RunsAlone DEF UpToDate
<1>3. UpToDate(NoAsk, sale')
  BY NoAskIsIdle DEF UpToDate
<1>4. sale.st = "PENDING_COMMIT" => Covers(receipt, sale.grand)
  BY DEF MoneyInv
<1> QED BY <1>1, <1>2, <1>3, <1>4, OneAskStep

\* What is checked against the total is what is recorded: the bill is the one that was checked.
LEMMA PaymentAsked ==
  ASSUME ~Overlapping, LinesInv, MoneyInv, NEW s \in Screen, NEW dto \in Tenders(due[s]), Complete(s, dto)
  PROVE  MoneyInv'
<1>1. MayAsk(s) /\ sale.st = "DRAFT" /\ UNCHANGED <<sale, receipt>> /\ Resolves(dto, sale.grand)
  BY DEF Complete, SaleEditable
<1> DEFINE pay == Resolved(dto, sale.grand)
           a == [NoAsk EXCEPT !.pc = "pay", !.pay = pay]
<1>2. a.pc = "pay" /\ a.pay = pay
  BY NoAskIsIdle DEF AskRecord
<1>3. ask' = [ask EXCEPT ![s] = a]
  BY DEF Complete
<1>4. sale.grand \in Nat /\ due[s] \in Nat
  BY DEF LinesInv, SaleRecord
<1>5. dto.mode = "CASH" => dto.cash \in Int
  BY <1>4 DEF Tenders, CashTenders, SplitTenders
<1>6. Covers(pay, sale.grand)
  <2>1. /\ pay.mode = dto.mode /\ pay.cash = dto.cash
        /\ pay.parts = IF dto.mode = "SPLIT" THEN dto.splits ELSE <<sale.grand>>
        /\ pay.change = IF dto.mode = "CASH" THEN dto.cash - sale.grand ELSE 0
    BY DEF Resolved
  <2> HIDE DEF pay
  <2>2. pay.mode = "CASH" => pay.cash = sale.grand + pay.change
    BY <1>4, <1>5, <2>1
  <2> QED BY <1>1, <1>4, <2>1, <2>2 DEF Covers, Resolves
<1> HIDE DEF a, pay
<1>7. UpToDate(a, sale')
  BY <1>1, <1>2, <1>6, AskAlone DEF UpToDate
<1> QED BY <1>1, <1>2, <1>3, <1>7, AskAlone, OneAskStep

LEMMA PaymentWritten ==
  ASSUME LinesInv, MoneyInv, NEW s \in Screen, WritePayment(s)
  PROVE  MoneyInv'
<1> DEFINE a == [ask[s] EXCEPT !.pc = "answer"]
<1>1. /\ ask[s].pc = "pay" /\ receipt' = ask[s].pay /\ sale' = [sale EXCEPT !.st = "PENDING_COMMIT"]
      /\ ask[s] \in AskRecord
  BY DEF WritePayment, LinesInv
<1>2. /\ TotalsFit(sale) /\ Covers(ask[s].pay, sale.grand)
      /\ \A t \in Screen : t # s => ask[t].pc = "idle"
  BY <1>1, RunsAlone DEF UpToDate
<1>3. ask' = [ask EXCEPT ![s] = a] /\ a.pc = "answer"
  BY <1>1 DEF WritePayment, AskTo, LinesInv, AskRecord
<1>4. /\ sale'.lines = sale.lines /\ sale'.off = sale.off /\ sale'.round = sale.round
      /\ sale'.grand = sale.grand
  BY <1>1 DEF LinesInv, SaleRecord
<1> HIDE DEF a
<1>5. TotalsFit(sale') /\ Covers(receipt', sale'.grand)
  BY <1>1, <1>2, <1>4 DEF TotalsFit, Covers
<1>6. UpToDate(a, sale')
  BY <1>3, <1>5 DEF UpToDate
<1> QED BY <1>2, <1>3, <1>5, <1>6, OneAskStep

\* The modals, and steps of nobody.
LEMMA BillRests ==
  ASSUME MoneyInv, UNCHANGED <<sale, receipt, ask>>
  PROVE  MoneyInv'
  BY DEF MoneyInv, OneAsks, UpToDate, TotalsFit, Covers, TotalsMatchLines, AllAnswered

LEMMA MoneyStep == ~Overlapping /\ LinesInv /\ MoneyInv /\ [TotalsNext]_totalsVars => MoneyInv'
<1> SUFFICES ASSUME ~Overlapping, LinesInv, MoneyInv, [TotalsNext]_totalsVars PROVE MoneyInv'
  OBVIOUS
<1>1. CASE UNCHANGED totalsVars
  BY <1>1, BillRests DEF totalsVars
<1>2. ASSUME NEW s \in Screen, TotalsStep(s) PROVE MoneyInv'
  BY <1>2, LineAsked, TotalsAsked, LineWritten, BillRead, TotalsWritten, TotalsAnswered, PaymentAsked,
     PaymentWritten, ModalsStep, BillRests
  DEF TotalsStep
<1> QED BY <1>1, <1>2 DEF TotalsNext

LEMMA MoneyInvariant == ~Overlapping => (TotalsSpec => [](LinesInv /\ MoneyInv))
<1> SUFFICES ASSUME ~Overlapping PROVE TotalsSpec => [](LinesInv /\ MoneyInv)
  OBVIOUS
<1>1. LinesInv /\ MoneyInv /\ [TotalsNext]_totalsVars => (LinesInv /\ MoneyInv)'
  BY LinesStep, MoneyStep
<1>2. TotalsInit => LinesInv /\ MoneyInv
  BY LinesInitInv, MoneyInitInv
<1> QED BY <1>1, <1>2, PTL DEF TotalsSpec

\* While requests do not overlap the total is that of the lines less the discount, and a round-off
\* leads to a whole rupee, whatever was changed in which order.
THEOREM TotalsAlwaysMatchLines == ~Overlapping => (TotalsSpec => []TotalsMatchLines)
<1>1. MoneyInv => TotalsMatchLines
  BY DEF MoneyInv
<1> QED BY <1>1, MoneyInvariant, PTL

\* While requests do not overlap the payments of a completed bill come to its total, and the cash
\* to the total and the change, whatever total the screens show.
THEOREM CompletedBillsArePaidInFull == ~Overlapping => (TotalsSpec => []PaidInFull)
<1>1. MoneyInv => PaidInFull
  BY DEF MoneyInv, PaidInFull, Covers
<1> QED BY <1>1, MoneyInvariant, PTL
=============================================================================
