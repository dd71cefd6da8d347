--------------------------- MODULE BillingScreen ---------------------------
(***************************************************************************)
(* The tabs of the billing screen: BillingScreen.tsx with billingStore and *)
(* BillTabs, for one cashier, and the bills of the counter as the server   *)
(* has them.  An operation is a script of calls that run one after the     *)
(* other; the effects of the screen run scripts of their own beside it.  A *)
(* call and its answer are one step, but for the list of the tabs, which   *)
(* may be old when it arrives.  The draft in IndexedDB is saved and        *)
(* cleared with the store and adds nothing to it.  Whoever bills waits for *)
(* the overlay of an operation and for the bill to be loaded.              *)
(***************************************************************************)
EXTENDS Naturals, Sequences, FiniteSetsExt

CONSTANTS
  Bill,       \* in the order in which they are created
  NoBill,
  Faults      \* a call may fail

ASSUME ScreenAssumption == Bill \subseteq Nat /\ NoBill \notin Bill /\ Faults \in BOOLEAN

VARIABLES
  bill,      \* the bills of the counter in the database
  shown,     \* the bill of billingStore, kept in localStorage
  tabs,      \* the list of open bills as the screen has it
  listing,   \* the list that is on its way, or none
  pend,      \* pendingBillIdRef
  mount,     \* draftReady and bootstrapRef
  load,      \* the bills the screen is fetching because the shown bill has changed
  check,     \* the shown bill that is missing in the list: it is looked for once more
  script,    \* what remains of the operation and of what the effects do
  payFor,    \* the bill whose payment modal is open
  notice,    \* the message that tells to use + New
  asked      \* the bill that was opened or started last, once nothing else was under way

screenVars == <<bill, shown, tabs, listing, pend, mount, load, check, script, payFor, notice, asked>>

NoTab == [st |-> "none", items |-> FALSE]
NoScreen == [id |-> NoBill, st |-> "none", items |-> FALSE]
NoList == <<>>
IsOpen(b) == bill[b].st \in {"DRAFT", "HOLD"}

\* listOpenBills()
OpenBills == [b \in Bill |-> IF IsOpen(b) THEN bill[b] ELSE NoTab]
Listed(list) == {b \in Bill : list[b] # NoTab}

\* The commands of a script.
Call(do, b) == [do |-> do, id |-> b, st |-> "none", pin |-> FALSE]
OpenBill(b, st, pin) == [do |-> "open", id |-> b, st |-> st, pin |-> pin]
Create(pin) == [do |-> "create", id |-> NoBill, st |-> "none", pin |-> pin]
StartNew == <<Create(TRUE), Call("relist", NoBill)>>

Mounted(s) ==
  /\ tabs = [b \in Bill |-> NoTab] /\ listing = NoList /\ pend = NoBill
  /\ mount = [ready |-> s.id = NoBill, boot |-> IF s.id = NoBill THEN "idle" ELSE "done"]
  /\ load = {s.id} \ {NoBill} /\ check = NoBill
  /\ script = [user |-> <<>>, effect |-> <<>>]
  /\ payFor = NoBill /\ notice = FALSE /\ asked = NoBill

ScreenInit ==
  /\ bill = [b \in Bill |-> NoTab] /\ shown = NoScreen /\ Mounted(NoScreen)

-----------------------------------------------------------------------------
\* syncFromBill(): a closed bill empties the store.
Sync(b, row) == IF row.st \in {"DRAFT", "HOLD"} THEN [id |-> b, st |-> row.st, items |-> row.items] ELSE NoScreen

\* (Faulty variant: the modal stays open.)
PayStays(next) == payFor

\* Without an editable bill the modal closes.
PayAfter(next) == IF next.id = NoBill THEN NoBill ELSE payFor

\* What follows from a new bill on the screen: it is fetched once more, the bootstrap is over.
Show(next) ==
  /\ shown' = next
  /\ load' = IF next.id \in {shown.id, NoBill} THEN load ELSE load \union {next.id}
  /\ mount' = IF next.id # NoBill THEN [mount EXCEPT !.boot = "done"] ELSE mount
  /\ payFor' = PayAfter(next)

\* A bill that the list has need not be waited for.
PendAfter(p, next, list) == IF p # NoBill /\ p = next.id /\ list[p] # NoTab THEN NoBill ELSE p

KeepScreen == UNCHANGED <<shown, load, mount, payFor>>
Settled == script.effect = <<>> /\ load = {} /\ check = NoBill
Quiet == script.user = <<>> /\ Settled
BootDue == mount.ready /\ shown.id = NoBill /\ mount.boot = "idle"
LostDue == mount.ready /\ shown.id # NoBill /\ tabs[shown.id] = NoTab /\ pend # shown.id
CanAct == Quiet /\ mount.ready /\ ~BootDue /\ payFor = NoBill

-----------------------------------------------------------------------------
(* The list of tabs: a request that is under way is joined.                *)
Refresh ==
  /\ listing = NoList /\ listing' = OpenBills
  /\ UNCHANGED <<bill, shown, tabs, pend, mount, load, check, script, payFor, notice, asked>>

AwaitsList(s) == s # <<>> /\ Head(s).do \in {"relist", "bootlist"}

\* The bootstrap opens a draft, else a parked bill, else makes one.
BootScript(list) ==
  IF Listed(list) = {} THEN <<Create(FALSE)>>
  ELSE LET drafts == {b \in Listed(list) : list[b].st = "DRAFT"}
           pick == Min(IF drafts # {} THEN drafts ELSE Listed(list))
       IN <<OpenBill(pick, list[pick].st, FALSE), Call("createIfClosed", NoBill)>>

AfterList(s) ==
  IF ~AwaitsList(s) THEN s
  ELSE IF Head(s).do = "bootlist" THEN BootScript(listing) ELSE Tail(s)

\* The list arrives; if the shown bill is missing for the second time the screen leaves it for
\* the first of the list, unless the effect was cancelled because the tabs have changed.
ListAnswer ==
  /\ listing # NoList /\ tabs' = listing /\ listing' = NoList /\ check' = NoBill
  /\ \E cancelled \in {FALSE} \union {listing # tabs} :
       LET lost == check # NoBill /\ ~cancelled /\ shown.id = check /\ listing[check] = NoTab
           user == AfterList(script.user)
           next == Listed(listing)
       IN IF lost
          THEN /\ Show(NoScreen) /\ pend' = NoBill
               /\ script' = [user |-> user, effect |->
                    IF next = {} THEN <<>>
                    ELSE <<OpenBill(Min(next), tabs[Min(next)].st, TRUE), Call("relist", NoBill)>>]
          ELSE /\ KeepScreen /\ pend' = PendAfter(pend, shown, listing)
               /\ script' = [user |-> user, effect |-> AfterList(script.effect)]
  /\ UNCHANGED <<bill, notice, asked>>

LookAgain ==
  /\ LostDue /\ check = NoBill /\ script.effect = <<>>
  /\ check' = shown.id /\ listing' = IF listing = NoList THEN OpenBills ELSE listing
  /\ UNCHANGED <<bill, shown, tabs, pend, mount, load, script, payFor, notice, asked>>

\* "Bootstrap once: open latest today tab, or create one bill"
Boot ==
  /\ BootDue /\ script.effect = <<>>
  /\ mount' = [mount EXCEPT !.boot = "loading"]
  /\ script' = [script EXCEPT !.effect = <<Call("bootlist", NoBill)>>]
  /\ UNCHANGED <<bill, shown, tabs, listing, pend, load, check, payFor, notice, asked>>

\* The fetch that follows a change of the shown bill; a failure empties the screen.
Load(b) ==
  /\ b \in load
  /\ \E failed \in {bill[b].st = "away"} \union (IF Faults THEN {TRUE} ELSE {}) :
       LET next == IF failed THEN NoScreen ELSE Sync(b, bill[b])
       IN /\ shown' = next /\ payFor' = PayAfter(next)
          /\ load' = (load \ {b}) \union ({next.id} \ {shown.id, NoBill})
          /\ notice' = IF ~failed /\ next = NoScreen THEN TRUE ELSE notice
          /\ pend' = PendAfter(pend, next, tabs)
          /\ asked' = IF failed THEN NoBill ELSE asked
  /\ mount' = [mount EXCEPT !.ready = TRUE]
  /\ UNCHANGED <<bill, tabs, listing, check, script>>

-----------------------------------------------------------------------------
(* The commands of a script.                                               *)
Editable(b) == IsOpen(b)

\* What the server asks of a bill: a bill of another counter is nobody's here, a hold, a transfer
\* and a payment need an item, a cancellation does not.
CanRead(b) == bill[b].st # "away"
CanHold(b) == Editable(b) /\ bill[b].items
CanResume(b) == bill[b].st = "HOLD"
CanCancel(b) == Editable(b)
CanTransfer(b) == Editable(b) /\ bill[b].items
CanComplete(b) == Editable(b) /\ bill[b].items
CanOpen(cmd) == IF cmd.st = "HOLD" THEN CanResume(cmd.id) ELSE CanRead(cmd.id)

Bills(b, row) == bill' = [bill EXCEPT ![b] = row]

\* A new bill is the first that is free; an empty draft is used again, unless it has a customer.
Fresh == LET free == {b \in Bill : bill[b].st = "none"} IN IF free = {} THEN {} ELSE {Min(free)}
Empties == {b \in Bill : bill[b] = [st |-> "DRAFT", items |-> FALSE]}

Goes(who, rest) == script' = [script EXCEPT ![who] = rest]

\* The screen after a bill was opened or made; pin: the list may lag behind.
Opened(who, cmd, b, row) ==
  LET next == Sync(b, row)
  IN /\ Show(next)
     /\ pend' = PendAfter(IF cmd.pin /\ next.id # NoBill THEN b ELSE pend, next, tabs)
     /\ asked' = IF who = "user" /\ cmd.pin /\ Settled THEN next.id ELSE asked
     /\ Goes(who, IF cmd.pin /\ next.id = NoBill THEN <<>> ELSE Tail(script[who]))

RunOpen(who, cmd) ==
  /\ cmd.do = "open"
  /\ CanOpen(cmd)
  /\ LET row == IF cmd.st = "HOLD" THEN [bill[cmd.id] EXCEPT !.st = "DRAFT"] ELSE bill[cmd.id]
     IN Bills(cmd.id, row) /\ Opened(who, cmd, cmd.id, row)

\* (Faulty variant: a new bill is not waited for in the list.)
CreateUnpinned(who, cmd) ==
  /\ cmd.do = "create" \/ (cmd.do = "createIfClosed" /\ shown.id = NoBill)
  /\ \E b \in Fresh \union Empties :
       LET row == [st |-> "DRAFT", items |-> FALSE]
       IN /\ Bills(b, row) /\ Show(Sync(b, row)) /\ pend' = pend
          /\ asked' = IF who = "user" /\ Settled THEN b ELSE asked
          /\ Goes(who, Tail(script[who]))

RunCreate(who, cmd) ==
  /\ cmd.do = "create" \/ (cmd.do = "createIfClosed" /\ shown.id = NoBill)
  /\ \E b \in Fresh \union Empties :
       LET row == [st |-> "DRAFT", items |-> FALSE]
       IN Bills(b, row) /\ Opened(who, cmd, b, row)

\* Hold, cancel, transfer, complete and the cleaning of empty drafts.
RowAfter(cmd) ==
  CASE cmd.do = "hold" -> [bill[cmd.id] EXCEPT !.st = "HOLD"]
    [] cmd.do = "transfer" -> [bill[cmd.id] EXCEPT !.st = "away"]
    [] OTHER -> [bill[cmd.id] EXCEPT !.st = "closed"]

RunChange(who, cmd) ==
  /\ \/ cmd.do = "hold" /\ CanHold(cmd.id)
     \/ cmd.do = "transfer" /\ CanTransfer(cmd.id)
     \/ cmd.do = "complete" /\ CanComplete(cmd.id)
     \/ cmd.do = "cancel" /\ CanCancel(cmd.id)
  /\ Bills(cmd.id, RowAfter(cmd))
  /\ payFor' = IF cmd.do = "complete" THEN NoBill ELSE payFor
  /\ Goes(who, Tail(script[who])) /\ UNCHANGED <<shown, load, mount, pend, asked>>

RunCleanup(who, cmd) ==
  /\ cmd.do = "cleanup"
  /\ bill' = [b \in Bill |-> IF b \in Empties \ {cmd.id} THEN [bill[b] EXCEPT !.st = "closed"] ELSE bill[b]]
  /\ Goes(who, Tail(script[who])) /\ KeepScreen /\ UNCHANGED <<pend, asked>>

\* What needs no call: the store is cleared, or the bootstrap has its bill.
RunLocal(who, cmd) ==
  /\ \/ cmd.do = "clear" /\ Show(NoScreen)
     \/ cmd.do = "createIfClosed" /\ shown.id # NoBill /\ KeepScreen
  /\ Goes(who, Tail(script[who])) /\ UNCHANGED <<bill, pend, asked>>

Refuses(cmd) ==
  CASE cmd.do = "open" -> ~CanOpen(cmd)
    [] cmd.do = "hold" -> ~CanHold(cmd.id)
    [] cmd.do = "transfer" -> ~CanTransfer(cmd.id)
    [] cmd.do = "complete" -> ~CanComplete(cmd.id)
    [] cmd.do = "cancel" -> ~CanCancel(cmd.id)
    [] OTHER -> FALSE

\* A call that fails ends its script with a message; a failed bootstrap is idle again.
Fails(who, cmd) ==
  /\ Refuses(cmd) \/ (Faults /\ cmd.do \notin {"clear", "relist"})
  /\ Goes(who, <<>>)
  /\ pend' = IF cmd.do = "open" /\ cmd.pin /\ pend = cmd.id THEN NoBill ELSE pend
  /\ mount' = IF mount.boot = "loading" THEN [mount EXCEPT !.boot = "idle"] ELSE mount
  /\ asked' = NoBill /\ UNCHANGED <<bill, shown, load, payFor>>

Run(who) ==
  LET cmd == Head(script[who])
  IN /\ script[who] # <<>>
     /\ IF cmd.do \in {"relist", "bootlist"}
        THEN Refresh
        ELSE /\ \/ RunOpen(who, cmd) \/ RunCreate(who, cmd) \/ RunChange(who, cmd)
                \/ RunCleanup(who, cmd) \/ RunLocal(who, cmd) \/ Fails(who, cmd)
             /\ UNCHANGED <<tabs, listing, check, notice>>

-----------------------------------------------------------------------------
(* The operations.                                                         *)
Starts(commands) ==
  /\ script' = [script EXCEPT !.user = commands] /\ asked' = NoBill /\ notice' = FALSE
  /\ UNCHANGED <<bill, shown, tabs, listing, pend, mount, load, check, payFor>>

\* parkCurrentIfNeeded()
Park == IF shown.id # NoBill /\ shown.items /\ shown.st # "HOLD" THEN <<Call("hold", shown.id)>> ELSE <<>>

SwitchToBill(b) ==
  /\ CanAct /\ b \in Listed(tabs) \ {shown.id}
  /\ Starts(Park \o <<OpenBill(b, tabs[b].st, TRUE), Call("relist", NoBill)>>)

\* handleParkAndNew(): "Bill not ready" without a bill.
NewAllowed == shown.id # NoBill
ParkAndNew ==
  /\ CanAct /\ NewAllowed
  /\ Starts((IF shown.items THEN <<Call("hold", shown.id), Call("relist", NoBill)>> ELSE <<>>) \o StartNew)

\* What follows when the shown bill is closed or given away: the next tab, or a new bill.
NextAfter(b) ==
  LET rest == Listed(tabs) \ {b}
  IN IF b # shown.id THEN <<>>
     ELSE <<Call("clear", NoBill)>> \o
          (IF rest = {} THEN StartNew ELSE <<OpenBill(Min(rest), tabs[Min(rest)].st, FALSE)>>)

\* canCloseTab: a tab that looks like an empty draft.
EmptyTabs == {b \in Listed(tabs) : tabs[b] = [st |-> "DRAFT", items |-> FALSE]}

\* handleCloseTab()
CloseTab(b) ==
  /\ CanAct /\ b \in EmptyTabs
  /\ Starts(<<Call("cancel", b)>> \o NextAfter(b))

TransferBill(b) ==
  /\ CanAct /\ b \in Listed(tabs) /\ tabs[b].items
  /\ Starts(<<Call("transfer", b)>> \o NextAfter(b))

CleanupEmpty ==
  /\ CanAct /\ Cardinality(EmptyTabs) > 1
  /\ Starts(<<Call("cleanup", shown.id), Call("relist", NoBill)>>)

\* handleScan() and the edits of a line; an error that says the bill is closed dismisses it.
EditBill(items) ==
  /\ CanAct /\ shown.id # NoBill
  /\ IF Editable(shown.id)
     THEN LET row == [bill[shown.id] EXCEPT !.items = items]
          IN Bills(shown.id, row) /\ Show(Sync(shown.id, row)) /\ notice' = FALSE
     ELSE IF bill[shown.id].st = "closed"
          THEN Show(NoScreen) /\ notice' = TRUE /\ UNCHANGED bill
          ELSE KeepScreen /\ notice' = FALSE /\ UNCHANGED bill
  /\ UNCHANGED <<tabs, listing, pend, check, script, asked>>

\* openPayment(): the bill is fetched first.
OpenPay ==
  /\ CanAct /\ shown.id # NoBill /\ shown.items /\ bill[shown.id].st # "away"
  /\ LET next == Sync(shown.id, bill[shown.id])
     IN shown' = next /\ payFor' = next.id
  /\ notice' = FALSE /\ UNCHANGED <<bill, tabs, listing, pend, mount, load, check, script, asked>>

ClosePay ==
  /\ payFor # NoBill /\ payFor' = NoBill
  /\ UNCHANGED <<bill, shown, tabs, listing, pend, mount, load, check, script, notice, asked>>

\* handlePaymentComplete(): the bill of the store is completed.
PayBill ==
  /\ payFor # NoBill /\ script.user = <<>> /\ shown.id # NoBill
  /\ Starts(<<Call("complete", shown.id), Call("clear", NoBill)>> \o StartNew)

Reload ==
  /\ shown' = shown
  /\ tabs' = [b \in Bill |-> NoTab] /\ listing' = NoList /\ pend' = NoBill
  /\ mount' = [ready |-> shown.id = NoBill, boot |-> IF shown.id = NoBill THEN "idle" ELSE "done"]
  /\ load' = {shown.id} \ {NoBill} /\ check' = NoBill
  /\ script' = [user |-> <<>>, effect |-> <<>>]
  /\ payFor' = NoBill /\ notice' = FALSE /\ asked' = NoBill /\ UNCHANGED bill

\* Another session, or the sweep of stale bills, closes a bill; a bill comes from another counter.
CloseElsewhere(b) ==
  /\ IsOpen(b) /\ Bills(b, [bill[b] EXCEPT !.st = "closed"])
  /\ UNCHANGED <<shown, tabs, listing, pend, mount, load, check, script, payFor, notice, asked>>

Arrive ==
  /\ \E b \in Fresh : Bills(b, [st |-> "HOLD", items |-> TRUE])
  /\ UNCHANGED <<shown, tabs, listing, pend, mount, load, check, script, payFor, notice, asked>>

ScreenNext ==
  \/ Refresh \/ ListAnswer \/ LookAgain \/ Boot \/ Arrive \/ Reload
  \/ \E b \in Bill : Load(b) \/ SwitchToBill(b) \/ CloseTab(b) \/ TransferBill(b) \/ CloseElsewhere(b)
  \/ \E who \in {"user", "effect"} : Run(who)
  \/ \E items \in BOOLEAN : EditBill(items)
  \/ ParkAndNew \/ CleanupEmpty \/ OpenPay \/ ClosePay \/ PayBill

ScreenSpec == ScreenInit /\ [][ScreenNext]_screenVars

-----------------------------------------------------------------------------
ScreenTypeOK ==
  /\ bill \in [Bill -> [st : {"none", "DRAFT", "HOLD", "closed", "away"}, items : BOOLEAN]]
  /\ shown.id \in Bill \union {NoBill} /\ shown.st \in {"none", "DRAFT", "HOLD"}
  /\ mount.boot \in {"idle", "loading", "done"} /\ load \subseteq Bill
  /\ {pend, check, payFor, asked} \subseteq Bill \union {NoBill} /\ notice \in BOOLEAN

\* The payment modal never passes to another bill than the one it was opened for, whatever
\* closes the bill elsewhere or takes the screen to another tab.
PayStaysOnBill == payFor # NoBill => shown.id = payFor

\* A bill that was opened or started stays on the screen as long as it is open, though the list
\* of tabs that arrives next may be older than the bill.
OpenedBillStays == asked # NoBill /\ IsOpen(asked) /\ script.user = <<>> => shown.id = asked

=============================================================================
