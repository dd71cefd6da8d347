---------------------------- MODULE CreditSales ----------------------------
(***************************************************************************)
(* The customer of a bill, and sales on credit: the CustomerSearchModal    *)
(* with its form for a new customer, the requests that set the customer    *)
(* and complete the bill, the choice of the payment mode, and the customer *)
(* master, which others use meanwhile.  One screen works on the bill; the  *)
(* server serves its requests one at a time, but a request or its answer   *)
(* may be lost.  Whoever bills waits for the overlay of an operation and   *)
(* for a new customer to be saved.  Of a bill only its customer and        *)
(* whether it is a sale on credit are kept; every bill has one total.      *)
(***************************************************************************)
EXTENDS Naturals, Sequences, FiniteSets, SequencesExt

CONSTANTS
  Client,      \* customers, in the order of their names
  Registered,  \* those the master has at first
  WalkIn,      \* WALK_IN_CUSTOMER_ID
  Search,      \* term -> the customers it is found in
  Limit,       \* credit limits somebody types
  BillTotal,
  MaxBills,    \* bound of the bills
  MaxEdits     \* bound of the changes in the master

ASSUME CreditAssumption ==
  /\ Client \subseteq Nat \ {0} /\ WalkIn = 0 /\ Registered \subseteq Client /\ Limit \subseteq Nat
  /\ IsFiniteSet(Client) /\ BillTotal \in Nat /\ MaxBills \in Nat \ {0} /\ MaxEdits \in Nat
  /\ \A t \in DOMAIN Search : Search[t] \subseteq Client

VARIABLES
  master,   \* the rows of the customers, and the changes so far
  slip,     \* the bill in the database
  desk,     \* the bill and the customer on the screen, and its payment modal: the mode, and the
            \* modes whose details are filled in
  picker,   \* the state of the CustomerSearchModal
  task,     \* the request of the screen
  onCredit  \* the sales on credit: the customer, the one the screen showed, the limit then
creditVars == <<master, slip, desk, picker, task, onCredit>>

Modes == {"CASH", "CARD", "CREDIT"}     \* all but CREDIT are alike here
NoPicker == [open |-> FALSE, form |-> FALSE, term |-> "", list |-> <<>>, focus |-> 1]
NoTask == [do |-> "idle", at |-> "idle", client |-> 0, limit |-> 0]
NewSlip(no) == [no |-> no, st |-> "DRAFT", client |-> WalkIn]
NewDesk(no) == [no |-> no, client |-> WalkIn, pay |-> FALSE, tab |-> "CASH", filled |-> {"CASH"}]

CreditInit ==
  /\ master = [known |-> Registered, on |-> Registered, limit |-> [c \in Client |-> 0], edits |-> 0]
  /\ slip = NewSlip(1) /\ desk = NewDesk(1)
  /\ picker = NoPicker /\ task = NoTask /\ onCredit = {}

Calm == task = NoTask /\ ~desk.pay /\ ~picker.open
SlipEditable == slip.st = "DRAFT"
Send(do, client, limit) == task' = [do |-> do, at |-> "sent", client |-> client, limit |-> limit]

-----------------------------------------------------------------------------
(* The modal.                                                              *)
Searching == picker.open /\ ~picker.form
Options == <<WalkIn>> \o (IF picker.term = "" THEN <<>> ELSE picker.list)

\* The effect on a new term or a new length of the list: the first match, if there is one.
FirstMatch(term, list) == IF term # "" /\ list # <<>> THEN 2 ELSE 1

OpenPicker ==
  /\ Calm /\ picker' = [NoPicker EXCEPT !.open = TRUE]
  /\ UNCHANGED <<master, slip, desk, task, onCredit>>

ClosePicker ==
  /\ picker.open /\ task = NoTask /\ picker' = NoPicker
  /\ UNCHANGED <<master, slip, desk, task, onCredit>>

\* 280 ms after the last key; until the answer the list is the one of the term before.
TypeTerm(t) ==
  /\ Searching /\ task = NoTask /\ t # picker.term
  /\ picker' = [picker EXCEPT !.term = t, !.focus = FirstMatch(t, picker.list)]
  /\ UNCHANGED <<master, slip, desk, task, onCredit>>

ByName(found) == CHOOSE s \in SetToSeqs(found) : \A i, j \in DOMAIN s : i < j => s[i] < s[j]

\* The answer, or an older one that RTK Query has kept: some of the customers may be missing.
Found ==
  /\ Searching /\ picker.term # ""
  /\ \E seen \in SUBSET (Search[picker.term] \intersect master.known) :
       LET list == ByName(seen)
       IN picker' = [picker EXCEPT !.list = list,
                       !.focus = IF Len(list) = Len(picker.list) THEN @ ELSE FirstMatch(picker.term, list)]
  /\ UNCHANGED <<master, slip, desk, task, onCredit>>

MoveFocusTo(i) ==
  /\ Searching /\ i \in DOMAIN Options /\ i # picker.focus
  /\ picker' = [picker EXCEPT !.focus = i] /\ UNCHANGED <<master, slip, desk, task, onCredit>>

SwitchForm ==
  /\ picker.open /\ task = NoTask
  /\ picker' = [picker EXCEPT !.form = ~@,
                  !.focus = IF picker.form THEN FirstMatch(picker.term, picker.list) ELSE 1]
  /\ UNCHANGED <<master, slip, desk, task, onCredit>>

\* confirmSelection(), handleCustomerSelect(): the request goes out and the modal closes.
ConfirmSelection ==
  /\ Searching /\ task = NoTask /\ picker.focus \in DOMAIN Options
  /\ Send("customer", Options[picker.focus], 0) /\ picker' = NoPicker
  /\ UNCHANGED <<master, slip, desk, onCredit>>

\* handleCreate()
SaveNewCustomer(c, limit) ==
  /\ picker.open /\ picker.form /\ task = NoTask /\ c \notin master.known
  /\ Send("new", c, limit) /\ UNCHANGED <<master, slip, desk, picker, onCredit>>

-----------------------------------------------------------------------------
(* The requests.                                                           *)
Answered == task' = [task EXCEPT !.at = "done"]
Refused == task' = [task EXCEPT !.at = "failed"]

CreateCustomer ==
  /\ task.do = "new" /\ task.at = "sent" /\ Answered
  /\ master' = [master EXCEPT !.known = @ \union {task.client}, !.on = @ \union {task.client},
                              !.limit[task.client] = task.limit]
  /\ UNCHANGED <<slip, desk, picker, onCredit>>

\* Only customers that are active; the walk-in customer is one.
MaySet(c) == SlipEditable /\ c \in master.on \union {WalkIn}
SetBillCustomer ==
  /\ task.do = "customer" /\ task.at = "sent"
  /\ IF MaySet(task.client) THEN slip' = [slip EXCEPT !.client = task.client] /\ Answered
     ELSE Refused /\ UNCHANGED slip
  /\ UNCHANGED <<master, desk, picker, onCredit>>

\* getBill(): the answer has the customer of the bill.
GetBill ==
  /\ task.do = "bill" /\ task.at = "sent"
  /\ task' = [task EXCEPT !.at = IF SlipEditable THEN "done" ELSE "failed", !.client = slip.client]
  /\ UNCHANGED <<master, slip, desk, picker, onCredit>>

\* A limit of zero is no limit.
WithinLimit(c) == master.limit[c] > 0 => BillTotal <= master.limit[c]
MayBuyOnCredit(c) == c # WalkIn /\ c \in master.on /\ WithinLimit(c)

CompleteBill ==
  /\ task.do = "complete" /\ task.at = "sent"
  /\ IF SlipEditable /\ (desk.tab = "CREDIT" => MayBuyOnCredit(slip.client))
     THEN /\ slip' = [slip EXCEPT !.st = "PENDING_COMMIT"] /\ Answered
          /\ onCredit' = IF desk.tab # "CREDIT" THEN onCredit
               ELSE onCredit \union {[client |-> slip.client, shown |-> desk.client,
                                      limit |-> master.limit[slip.client]]}
     ELSE Refused /\ UNCHANGED <<slip, onCredit>>
  /\ UNCHANGED <<master, desk, picker>>

\* The request does not arrive, or its answer does not.
Lose ==
  /\ task.at \in {"sent", "done"} /\ Refused
  /\ UNCHANGED <<master, slip, desk, picker, onCredit>>

-----------------------------------------------------------------------------
(* The answers.                                                            *)
Failed ==
  /\ task.at = "failed" /\ task' = NoTask
  /\ UNCHANGED <<master, slip, desk, picker, onCredit>>

\* The new customer is chosen for the bill.
NewCustomerSaved ==
  /\ task.do = "new" /\ task.at = "done"
  /\ Send("customer", task.client, 0) /\ picker' = NoPicker
  /\ UNCHANGED <<master, slip, desk, onCredit>>

CustomerChanged ==
  /\ task.do = "customer" /\ task.at = "done" /\ task' = NoTask
  /\ desk' = [desk EXCEPT !.client = task.client]
  /\ UNCHANGED <<master, slip, picker, onCredit>>

\* (Faulty variant: the modal opens with what the screen has.)
OpenPaymentAsShown ==
  /\ Calm /\ desk.client # WalkIn
  /\ desk' = [desk EXCEPT !.pay = TRUE, !.tab = "CASH", !.filled = {"CASH"}]
  /\ UNCHANGED <<master, slip, picker, task, onCredit>>

\* openPayment(): without a customer to choose one first, else the bill is fetched anew.
OpenPaymentFor ==
  /\ Calm
  /\ IF desk.client = WalkIn
     THEN picker' = [NoPicker EXCEPT !.open = TRUE] /\ UNCHANGED task
     ELSE Send("bill", 0, 0) /\ UNCHANGED picker
  /\ UNCHANGED <<master, slip, desk, onCredit>>

\* syncFromBill(), and the modal opens for cash.
BillFetched ==
  /\ task.do = "bill" /\ task.at = "done" /\ task' = NoTask
  /\ desk' = [desk EXCEPT !.client = task.client, !.pay = TRUE, !.tab = "CASH", !.filled = {"CASH"}]
  /\ UNCHANGED <<master, slip, picker, onCredit>>

\* Another mode, by a key or its button.
ChooseMode(m) ==
  /\ desk.pay /\ task = NoTask /\ m # desk.tab
  /\ desk' = [desk EXCEPT !.tab = m] /\ UNCHANGED <<master, slip, picker, task, onCredit>>

\* validatePaymentAudit(): every mode but cash asks for some details, credit for its terms or a date.
DetailsDone == desk.tab \in desk.filled
FillDetails ==
  /\ desk.pay /\ task = NoTask /\ ~DetailsDone
  /\ desk' = [desk EXCEPT !.filled = @ \union {desk.tab}]
  /\ UNCHANGED <<master, slip, picker, task, onCredit>>

\* The mode and the details are forgotten when the modal opens again.
LeavePayment ==
  /\ desk.pay /\ task = NoTask
  /\ desk' = [NewDesk(desk.no) EXCEPT !.client = desk.client] /\ UNCHANGED <<master, slip, picker, task, onCredit>>

Pay ==
  /\ desk.pay /\ task = NoTask /\ DetailsDone /\ Send("complete", 0, 0)
  /\ UNCHANGED <<master, slip, desk, picker, onCredit>>

\* The bill is completed, or it is no longer in the list of the tabs, and a new one begins.
NextBill ==
  /\ ~SlipEditable /\ slip.no < MaxBills
  /\ task = NoTask \/ (task.do = "complete" /\ task.at = "done")
  /\ slip' = NewSlip(slip.no + 1) /\ desk' = NewDesk(slip.no + 1)
  /\ task' = NoTask /\ picker' = NoPicker /\ UNCHANGED <<master, onCredit>>

-----------------------------------------------------------------------------
(* The customer master.                                                    *)
EditCustomer(c, on, limit) ==
  /\ master.edits < MaxEdits
  /\ master' = [known |-> master.known \union {c}, limit |-> [master.limit EXCEPT ![c] = limit],
                on |-> IF on THEN master.on \union {c} ELSE master.on \ {c}, edits |-> master.edits + 1]
  /\ UNCHANGED <<slip, desk, picker, task, onCredit>>

-----------------------------------------------------------------------------
CreditNext ==
  \/ OpenPicker \/ ClosePicker \/ Found \/ SwitchForm \/ ConfirmSelection
  \/ CreateCustomer \/ SetBillCustomer \/ GetBill \/ CompleteBill \/ Lose
  \/ Failed \/ NewCustomerSaved \/ CustomerChanged
  \/ OpenPaymentFor \/ BillFetched \/ FillDetails \/ LeavePayment \/ Pay \/ NextBill
  \/ \E t \in DOMAIN Search : TypeTerm(t)
  \/ \E i \in 1 .. Cardinality(Client) + 1 : MoveFocusTo(i)
  \/ \E m \in Modes : ChooseMode(m)
  \/ \E c \in Client, limit \in Limit : SaveNewCustomer(c, limit)
  \/ \E c \in Client, limit \in Limit, on \in BOOLEAN : EditCustomer(c, on, limit)

CreditSpec == CreditInit /\ [][CreditNext]_creditVars

-----------------------------------------------------------------------------
CreditTypeOK ==
  /\ master.on \subseteq master.known /\ master.known \subseteq Client
  /\ master.limit \in [Client -> Nat] /\ master.edits \in 0 .. MaxEdits
  /\ slip \in [no : 1 .. MaxBills, st : {"DRAFT", "PENDING_COMMIT"}, client : Client \union {WalkIn}]
  /\ desk \in [no : 1 .. MaxBills, client : Client \union {WalkIn}, pay : BOOLEAN, tab : Modes,
              filled : SUBSET Modes]
  /\ task.at \in {"idle", "sent", "done", "failed"} /\ picker.focus \in 1 .. Cardinality(Client) + 1
  /\ \A c \in onCredit : c.client \in Client

\* A sale on credit is charged to the customer whom the screen showed when it was paid, though
\* a request that changed the customer, or its answer, was lost before.
CreditToShownCustomer == \A c \in onCredit : c.client = c.shown

\* What the form for a new customer says of the limit: "0 = no credit".
ZeroLimitMeansNoCredit == \A c \in onCredit : c.limit > 0
=============================================================================
