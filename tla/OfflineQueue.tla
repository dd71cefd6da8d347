---------------------------- MODULE OfflineQueue ----------------------------
(***************************************************************************)
(* The scans made without a network: offlineQueue.ts (a list in IndexedDB) *)
(* and useOfflineBillingSync, which sends them when the network is back.   *)
(* Adding to the list is a read and a write; sending reads the list, sends *)
(* one scan after the other and writes what has failed.                    *)
(***************************************************************************)
EXTENDS Naturals, Sequences, SequencesExt

CONSTANTS
  ScanNo,             \* the scans, numbered in their order
  ScanWhileFlushing   \* a scan may be queued while the queue is being sent

ASSUME QueueAssumption == ScanNo \subseteq Nat /\ ScanWhileFlushing \in BOOLEAN

VARIABLES
  online,     \* useOnlineStatus()
  queue,      \* the list in IndexedDB
  adding,     \* enqueueOfflineAction() between its read and its write: the list it will write
  flush,      \* flushQueue(): what is still to send and what has failed
  count,      \* pendingCount
  syncDue,        \* the effect that sends the queue has to run: count or online has changed
  accepted,   \* the scans the screen has taken
  applied     \* the scans that are on the bill

queueVars == <<online, queue, adding, flush, count, syncDue, accepted, applied>>

NoFlush == [on |-> FALSE, todo |-> <<>>, remaining |-> <<>>]
NoAdd == [on |-> FALSE, list |-> <<>>]

QueueInit ==
  /\ online \in BOOLEAN /\ queue = <<>> /\ adding = NoAdd /\ flush = NoFlush
  /\ count = 0 /\ syncDue = FALSE /\ accepted = {} /\ applied = {}

\* handleScan() without a network: the field is free again once the list is written.
ReadToAdd(s) ==
  /\ ~online /\ ~adding.on /\ s \notin accepted /\ \A t \in ScanNo : t < s => t \in accepted
  /\ flush.on => ScanWhileFlushing
  /\ adding' = [on |-> TRUE, list |-> Append(queue, s)]
  /\ UNCHANGED <<online, queue, flush, count, syncDue, accepted, applied>>

WriteAdded ==
  /\ adding.on /\ adding' = NoAdd /\ queue' = adding.list
  /\ accepted' = accepted \union {Last(adding.list)}
  /\ UNCHANGED <<online, flush, count, syncDue, applied>>

\* The network comes or goes: the queue is counted again.
SwitchNetwork ==
  /\ online' = ~online /\ count' = Len(queue) /\ syncDue' = TRUE
  /\ UNCHANGED <<queue, adding, flush, accepted, applied>>

StartFlush ==
  /\ ~flush.on /\ (adding.on => ScanWhileFlushing)
  /\ flush' = [on |-> TRUE, todo |-> queue, remaining |-> <<>>]

\* The effect of the hook: a flush that is under way is not repeated.
SyncEffect ==
  /\ syncDue /\ syncDue' = FALSE
  /\ IF online /\ count > 0 /\ ~flush.on THEN StartFlush ELSE UNCHANGED flush
  /\ UNCHANGED <<online, queue, adding, count, accepted, applied>>

\* "Sync now"
SyncNow ==
  /\ online /\ count > 0 /\ StartFlush
  /\ UNCHANGED <<online, queue, adding, count, syncDue, accepted, applied>>

\* (Faulty variant: a scan that fails is not kept.)
DropFailed(scan, failed) == flush.remaining

Remaining(scan, failed) == IF failed THEN Append(flush.remaining, scan) ELSE flush.remaining

\* One scan of the queue: sent, refused, lost on the way, or sent with its answer lost.
SendNext ==
  /\ flush.on /\ flush.todo # <<>>
  /\ \E arrives, failed \in BOOLEAN :
       /\ ~arrives => failed
       /\ arrives => online
       /\ applied' = applied \union (IF arrives THEN {Head(flush.todo)} ELSE {})
       /\ flush' = [flush EXCEPT !.todo = Tail(@), !.remaining = Remaining(Head(flush.todo), failed)]
  /\ UNCHANGED <<online, queue, adding, count, syncDue, accepted>>

FinishFlush ==
  /\ flush.on /\ flush.todo = <<>>
  /\ queue' = flush.remaining /\ flush' = NoFlush
  /\ syncDue' = (syncDue \/ count # Len(flush.remaining)) /\ count' = Len(flush.remaining)
  /\ UNCHANGED <<online, adding, accepted, applied>>

\* The page is loaded anew: what is in memory is gone, the list stays.
ReloadPage ==
  /\ adding' = NoAdd /\ flush' = NoFlush /\ count' = Len(queue) /\ syncDue' = TRUE
  /\ UNCHANGED <<online, queue, accepted, applied>>

QueueNext ==
  \/ \E s \in ScanNo : ReadToAdd(s)
  \/ WriteAdded \/ SwitchNetwork \/ SyncEffect \/ SyncNow \/ SendNext \/ FinishFlush \/ ReloadPage

QueueSpec == QueueInit /\ [][QueueNext]_queueVars

-----------------------------------------------------------------------------
QueueTypeOK ==
  /\ {online, adding.on, flush.on, syncDue} \subseteq BOOLEAN /\ count \in Nat
  /\ accepted \subseteq ScanNo /\ applied \subseteq ScanNo
  /\ \A list \in {queue, adding.list, flush.todo, flush.remaining} : Range(list) \subseteq ScanNo

\* A scan that the screen has taken without a network is in the list or on the bill: "scans and
\* edits are saved locally and will sync when connection returns".
NoScanLost == accepted \subseteq Range(queue) \union applied
=============================================================================
