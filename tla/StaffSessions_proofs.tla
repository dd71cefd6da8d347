------------------------ MODULE StaffSessions_proofs ------------------------
(***************************************************************************)
(* What TLAPS proves of StaffSessions for every set of users, counters,    *)
(* machines and calls: its types; that a tab that is signed in can         *)
(* refresh, however requests overlap; and, when the server works on one    *)
(* request of a user at a time, how counters are locked.                   *)
(***************************************************************************)
EXTENDS StaffSessions, TLAPS

(* The types, and what the records of requests hold at each place *)

\* A counter for everybody who locks one.
HasCounter(u, c) == u \in Admin \/ c \in Counter

TabOK(t) == t \in Tab /\ (t # SignedOut => t.user \in User /\ HasCounter(t.user, t.counter))

Acquiring == {"dropRead", "dropDel", "read", "extend", "setnx", "retry", "note"}

AuthOK(a) ==
  /\ a \in Auth
  /\ a.pc \notin {"idle", "lookup", "refused"} => a.user \in User
  /\ a.pc \in {"idle", "lookup"} => a.user = NoUser
  /\ a.pc \in Acquiring => a.counter \in Counter
  /\ a.pc \in {"issue", "answer"} => HasCounter(a.user, a.counter)
  /\ a.pc \in {"revoke", "answer"} => a.tok \in Token

CallOK(c) ==
  /\ c \in Call
  /\ c.pc # "idle" => c.user \in User
  /\ c.pc = "sent" => HasCounter(c.user, c.counter)
  /\ c.pc \in {"renewRead", "renewSet", "renewNote", "outRead", "outDel"} => c.counter \in Counter
  /\ c.pc \in {"revoke", "out", "outRead", "outDel", "outUser", "done"} => c.kind = "logout"

TokensOK == /\ token \in [Token -> [user : SomeUser, live : BOOLEAN]]
            /\ \A t \in Token : token[t].live => token[t].user \in User
TabsOK == tab \in [Machine -> Tab] /\ \A m \in Machine : TabOK(tab[m])
AuthsOK == auth \in [Machine -> Auth] /\ \A m \in Machine : AuthOK(auth[m])
CallsOK == /\ call = [m \in Machine |-> call[m]]
           /\ \A m \in Machine : call[m] \in [SlotsAt[m] -> Call]
           /\ \A m \in Machine : \A s \in SlotsAt[m] : CallOK(call[m][s])
KeysOK == holder \in [Counter -> SomeUser] /\ counterOf \in [User -> SomeCounter]
CookiesOK == cookie \in [Machine -> Token \union {NoToken}]

StaffRecords == KeysOK /\ TokensOK /\ CookiesOK /\ TabsOK /\ AuthsOK /\ CallsOK

-----------------------------------------------------------------------------
(* The tokens of a browser *)

\* The tokens that a machine's cookie and its requests name.
Names(m, t) == \/ cookie[m] = t
               \/ auth[m].tok = t
               \/ \E s \in SlotsAt[m] : call[m][s].tok = t

\* A token is named at one machine only, and only after it was issued.
TokensApart ==
  \A m \in Machine, t \in Token : Names(m, t) =>
    token[t] # NoRow /\ \A n \in Machine : Names(n, t) => n = m

\* The token of an answer on its way works and is nobody else's yet.
AnswerIsNew ==
  \A m \in Machine : auth[m].pc = "answer" =>
    /\ token[auth[m].tok].live
    /\ cookie[m] # auth[m].tok
    /\ \A s \in SlotsAt[m] : call[m][s].tok # auth[m].tok

RefreshInv == StaffRecords /\ TokensApart /\ AnswerIsNew /\ SignedInCanRefresh

-----------------------------------------------------------------------------
(* The locks *)

\* A name for the login or refresh of a machine among its calls.
AuthSlot == CHOOSE s : s \notin Slot
Works(m) == SlotsAt[m] \union {AuthSlot}
Work(m, s) == IF s = AuthSlot THEN auth[m] ELSE call[m][s]

Outside == {"idle", "answer", "refused", "sent", "done", "401", "403", "waiting"}
Serves(w, u) == w.user = u /\ w.pc \notin Outside

\* The server works on one request of a user at a time.
Serial ==
  \A u \in User, m, n \in Machine : \A s \in Works(m), k \in Works(n) :
    Serves(Work(m, s), u) /\ Serves(Work(n, k), u) => m = n /\ s = k

\* Every counter that u holds is the one u's own key names.
Noted(u) == \A c \in Counter : holder[c] = u => counterOf[u] = c

\* What the request w knows of the keys of its user where it stands.
Knows(w) ==
  /\ w.pc \notin {"read", "extend", "setnx", "retry", "note", "outUser"} => Noted(w.user)
  /\ w.pc \in {"read", "extend", "setnx", "retry", "note"} =>
       \A c \in Counter : holder[c] = w.user => c = w.counter
  /\ w.pc \in {"extend", "renewRead", "renewSet", "renewNote", "outDel"} => holder[w.counter] = w.user
  /\ w.pc = "dropDel" => counterOf[w.user] \in Counter /\ holder[counterOf[w.user]] = w.user
  /\ w.pc \in {"outRead", "outDel"} => counterOf[w.user] = w.counter
  /\ w.pc = "outUser" => \A c \in Counter : holder[c] # w.user

WorksKnow ==
  \A u \in User, m \in Machine : \A s \in Works(m) : Serves(Work(m, s), u) => Knows(Work(m, s))

LockInv == StaffRecords /\ Serial /\ WorksKnow /\ LockIsNoted

-----------------------------------------------------------------------------
(* Steps on the records *)

LEMMA IdleRecords ==
  /\ AuthOK(AuthIdle) /\ AuthIdle.pc = "idle" /\ AuthIdle.user = NoUser /\ AuthIdle.tok = NoToken
  /\ CallOK(CallIdle) /\ CallIdle.pc = "idle" /\ CallIdle.kind = "api" /\ CallIdle.tok = NoToken
  /\ TabOK(SignedOut)
  BY DEF AuthOK, AuthIdle, Auth, AuthPc, SomeUser, SomeCounter, Acquiring, CallOK, CallIdle, Call, CallPc,
         TabOK, SignedOut, Tab

\* The login or refresh of a machine takes the state a.
LEMMA AuthBecomes ==
  ASSUME AuthsOK, NEW m \in Machine, NEW a, AuthOK(a), auth' = [auth EXCEPT ![m] = a]
  PROVE  AuthsOK' /\ auth'[m] = a /\ \A n \in Machine \ {m} : auth'[n] = auth[n]
<1>1. a \in Auth
  BY DEF AuthOK
<1>2. auth' \in [Machine -> Auth] /\ auth'[m] = a /\ \A n \in Machine \ {m} : auth'[n] = auth[n]
  BY <1>1 DEF AuthsOK
<1> QED BY <1>2 DEF AuthsOK

LEMMA AuthGoes ==
  ASSUME AuthsOK, NEW m \in Machine, NEW pc, AuthTo(m, pc), AuthOK([auth[m] EXCEPT !.pc = pc])
  PROVE  /\ AuthsOK' /\ auth'[m] = [auth[m] EXCEPT !.pc = pc]
         /\ \A n \in Machine \ {m} : auth'[n] = auth[n]
<1>1. auth' = [auth EXCEPT ![m] = [auth[m] EXCEPT !.pc = pc]]
  BY DEF AuthTo, AuthsOK
<1> QED BY <1>1, AuthBecomes

\* The calls of a machine take the states f.
LEMMA CallsBecome ==
  ASSUME CallsOK, NEW m \in Machine, NEW f \in [SlotsAt[m] -> Call], \A s \in SlotsAt[m] : CallOK(f[s]),
         call' = [call EXCEPT ![m] = f]
  PROVE  CallsOK' /\ call'[m] = f /\ \A n \in Machine \ {m} : call'[n] = call[n]
<1>1. call' = [n \in Machine |-> IF n = m THEN f ELSE call[n]]
  BY DEF CallsOK
<1>2. call'[m] = f /\ \A n \in Machine \ {m} : call'[n] = call[n]
  BY <1>1
<1>3. call' = [n \in Machine |-> call'[n]]
  BY <1>1
<1> QED BY <1>2, <1>3 DEF CallsOK

LEMMA CallBecomes ==
  ASSUME CallsOK, NEW m \in Machine, NEW s \in SlotsAt[m], NEW c, CallOK(c), call' = [call EXCEPT ![m][s] = c]
  PROVE  /\ CallsOK' /\ call'[m][s] = c
         /\ \A n \in Machine : \A k \in SlotsAt[n] : n # m \/ k # s => call'[n][k] = call[n][k]
<1> DEFINE f == [call[m] EXCEPT ![s] = c]
<1>1. call' = [call EXCEPT ![m] = f]
  BY DEF CallsOK
<1>2. /\ f \in [SlotsAt[m] -> Call] /\ f[s] = c
      /\ \A k \in SlotsAt[m] : k # s => f[k] = call[m][k]
  BY DEF CallsOK, CallOK
<1>3. \A k \in SlotsAt[m] : CallOK(f[k])
  BY <1>2 DEF CallsOK
<1> HIDE DEF f
<1>4. CallsOK' /\ call'[m] = f /\ \A n \in Machine \ {m} : call'[n] = call[n]
  BY <1>1, <1>2, <1>3, CallsBecome
<1> QED BY <1>2, <1>4

LEMMA CallGoes ==
  ASSUME CallsOK, NEW m \in Machine, NEW s \in SlotsAt[m], NEW pc, CallTo(m, s, pc),
         CallOK([call[m][s] EXCEPT !.pc = pc])
  PROVE  /\ CallsOK' /\ call'[m][s] = [call[m][s] EXCEPT !.pc = pc]
         /\ \A n \in Machine : \A k \in SlotsAt[n] : n # m \/ k # s => call'[n][k] = call[n][k]
<1> DEFINE c == [call[m][s] EXCEPT !.pc = pc]
<1>1. call' = [call EXCEPT ![m][s] = c]
  BY DEF CallTo, CallsOK
<1>2. CallOK(c)
  OBVIOUS
<1> HIDE DEF c
<1>3. /\ CallsOK' /\ call'[m][s] = c
      /\ \A n \in Machine : \A k \in SlotsAt[n] : n # m \/ k # s => call'[n][k] = call[n][k]
  BY <1>1, <1>2, CallBecomes
<1> QED BY <1>3 DEF c

LEMMA RecordsInit == StaffInit => StaffRecords
<1> SUFFICES ASSUME StaffInit PROVE StaffRecords
  OBVIOUS
<1>1. KeysOK /\ CookiesOK
  BY DEF StaffInit, KeysOK, CookiesOK, SomeUser, SomeCounter
<1>2. TokensOK
  BY DEF StaffInit, TokensOK, NoRow, SomeUser
<1>3. TabsOK
  BY IdleRecords DEF StaffInit, TabsOK, TabOK
<1>4. AuthsOK
  BY IdleRecords DEF StaffInit, AuthsOK, AuthOK
<1>5. CallsOK
  BY IdleRecords DEF StaffInit, CallsOK, CallOK
<1> QED BY <1>1, <1>2, <1>3, <1>4, <1>5 DEF StaffRecords

\* The parts that only look at one variable.
LEMMA PartsKept ==
  /\ UNCHANGED <<holder, counterOf>> /\ KeysOK => KeysOK'
  /\ UNCHANGED token /\ TokensOK => TokensOK'
  /\ UNCHANGED cookie /\ CookiesOK => CookiesOK'
  /\ UNCHANGED tab /\ TabsOK => TabsOK'
  /\ UNCHANGED auth /\ AuthsOK => AuthsOK'
  /\ UNCHANGED call /\ CallsOK => CallsOK'
  BY DEF KeysOK, TokensOK, CookiesOK, TabsOK, AuthsOK, CallsOK

-----------------------------------------------------------------------------
(* Types: a login or a refresh *)

LEMMA StartRecords ==
  ASSUME StaffRecords, NEW m \in Machine, Bootstrap(m) \/ \E u \in User : Login(m, u)
  PROVE  StaffRecords'
<1>1. CASE Bootstrap(m)
  <2>1. AuthOK([AuthIdle EXCEPT !.pc = "lookup", !.tok = cookie[m]])
    BY IdleRecords DEF AuthOK, Auth, AuthPc, Acquiring, StaffRecords, CookiesOK, AuthIdle
  <2>2. AuthsOK'
    BY <1>1, <2>1, AuthBecomes DEF Bootstrap, StaffRecords
  <2> QED BY <1>1, <2>2, PartsKept DEF Bootstrap, StaffRecords
<1>2. ASSUME NEW u \in User, Login(m, u)
      PROVE  StaffRecords'
  <2>1. AuthOK([AuthIdle EXCEPT !.pc = "resolve", !.user = u])
    BY IdleRecords DEF AuthOK, Auth, AuthPc, Acquiring, AuthIdle, SomeUser
  <2>2. AuthsOK'
    BY <1>2, <2>1, AuthBecomes DEF Login, StaffRecords
  <2> QED BY <1>2, <2>2, PartsKept DEF Login, StaffRecords
<1> QED BY <1>1, <1>2

LEMMA CloseTabRecords ==
  ASSUME StaffRecords, NEW m \in Machine, CloseTab(m)
  PROVE  StaffRecords'
<1>1. TabsOK'
  BY IdleRecords DEF CloseTab, StaffRecords, TabsOK, TabOK
<1> QED BY <1>1, PartsKept DEF CloseTab, StaffRecords

LEMMA LookupRecords ==
  ASSUME StaffRecords, NEW m \in Machine, Lookup(m)
  PROVE  StaffRecords'
<1>1. AuthOK(auth[m]) /\ auth[m].pc = "lookup"
  BY DEF Lookup, AuthAt, StaffRecords, AuthsOK
<1>2. CASE AuthTo(m, "refused")
  <2>1. AuthOK([auth[m] EXCEPT !.pc = "refused"])
    BY <1>1 DEF AuthOK, Auth, AuthPc, Acquiring
  <2> QED BY <1>2, <2>1, AuthGoes, PartsKept DEF Lookup, StaffRecords
<1>3. CASE ~ AuthTo(m, "refused")
  <2> DEFINE t == auth[m].tok
             a == [auth[m] EXCEPT !.pc = "revoke", !.user = token[t].user]
  <2>1. t \in Token /\ token[t].live
    BY <1>1, <1>3 DEF Lookup, AuthOK, Auth
  <2>2. token[t].user \in User
    BY <2>1 DEF StaffRecords, TokensOK
  <2>3. AuthOK(a)
    BY <1>1, <2>1, <2>2 DEF AuthOK, Auth, AuthPc, Acquiring, SomeUser
  <2>4. auth' = [auth EXCEPT ![m] = a]
    BY <1>3 DEF Lookup, StaffRecords, AuthsOK
  <2> HIDE DEF a
  <2> QED BY <2>3, <2>4, AuthBecomes, PartsKept DEF Lookup, StaffRecords
<1> QED BY <1>2, <1>3

LEMMA RevokeRecords ==
  ASSUME StaffRecords, NEW m \in Machine, Revoke(m)
  PROVE  StaffRecords'
<1>1. AuthOK(auth[m]) /\ auth[m].pc = "revoke"
  BY DEF Revoke, AuthAt, StaffRecords, AuthsOK
<1>2. AuthOK([auth[m] EXCEPT !.pc = "resolve"])
  BY <1>1 DEF AuthOK, Auth, AuthPc, Acquiring
<1>3. TokensOK'
  BY DEF Revoke, StaffRecords, TokensOK
<1> QED BY <1>2, <1>3, AuthGoes, PartsKept DEF Revoke, StaffRecords

LEMMA ResolveRecords ==
  ASSUME StaffRecords, NEW m \in Machine, Resolve(m)
  PROVE  StaffRecords'
<1> DEFINE u == auth[m].user
           c == CounterAt[m]
<1>1. AuthOK(auth[m]) /\ auth[m].pc = "resolve" /\ u \in User /\ c \in Counter \union {NoCounter}
  BY StaffAssumption DEF Resolve, AuthAt, StaffRecords, AuthsOK, AuthOK
<1>2. CASE u \in Admin
  <2>1. AuthTo(m, "issue")
    BY <1>2 DEF Resolve, LocksCounter
  <2>2. AuthOK([auth[m] EXCEPT !.pc = "issue"])
    BY <1>1, <1>2 DEF AuthOK, Auth, AuthPc, Acquiring, HasCounter
  <2> QED BY <2>1, <2>2, AuthGoes, PartsKept DEF Resolve, StaffRecords
<1>3. CASE u \notin Admin /\ c = NoCounter
  <2>1. AuthTo(m, "refused")
    BY <1>3 DEF Resolve, LocksCounter
  <2>2. AuthOK([auth[m] EXCEPT !.pc = "refused"])
    BY <1>1 DEF AuthOK, Auth, AuthPc, Acquiring
  <2> QED BY <2>1, <2>2, AuthGoes, PartsKept DEF Resolve, StaffRecords
<1>4. CASE u \notin Admin /\ c # NoCounter
  <2> DEFINE pc == IF counterOf[u] \notin {c, NoCounter} THEN "dropRead" ELSE "read"
             a == [auth[m] EXCEPT !.counter = c, !.pc = pc]
  <2>1. auth' = [auth EXCEPT ![m] = a]
    BY <1>4 DEF Resolve, LocksCounter, StaffRecords, AuthsOK, Auth
  <2>2. AuthOK(a)
    BY <1>1, <1>4 DEF AuthOK, Auth, AuthPc, Acquiring, SomeCounter
  <2> HIDE DEF a
  <2> QED BY <2>1, <2>2, AuthBecomes, PartsKept DEF Resolve, StaffRecords
<1> QED BY <1>2, <1>3, <1>4

\* Between the counter's key and the user's: the request only goes on.
LEMMA AcquireGoes ==
  ASSUME StaffRecords, NEW m \in Machine, auth[m].pc \in Acquiring,
         NEW pc \in Acquiring \union {"issue", "refused"}
  PROVE  AuthOK([auth[m] EXCEPT !.pc = pc]) /\ auth[m].user \in User /\ auth[m].counter \in Counter
<1>1. AuthOK(auth[m])
  BY DEF StaffRecords, AuthsOK
<1> QED BY <1>1 DEF AuthOK, Auth, AuthPc, Acquiring, HasCounter

LEMMA AcquireRecords ==
  ASSUME StaffRecords, NEW m \in Machine,
         \/ DropRead(m) \/ DropDel(m) \/ ReadCounter(m) \/ Extend(m) \/ SetNx(m)
         \/ RetryRead(m) \/ NoteCounter(m)
  PROVE  StaffRecords'
<1>1. auth[m].pc \in Acquiring
  BY DEF DropRead, DropDel, ReadCounter, Extend, SetNx, RetryRead, NoteCounter, AuthAt, Acquiring
<1>2. \E pc \in Acquiring \union {"issue", "refused"} : AuthTo(m, pc)
  BY DEF DropRead, DropDel, ReadCounter, Extend, SetNx, RetryRead, NoteCounter, Acquiring
<1>3. AuthsOK' /\ auth[m].user \in User /\ auth[m].counter \in Counter
  BY <1>1, <1>2, AcquireGoes, AuthGoes DEF StaffRecords
<1>4. KeysOK'
  <2>1. CASE DropRead(m) \/ ReadCounter(m) \/ RetryRead(m)
    BY <2>1, PartsKept DEF DropRead, ReadCounter, RetryRead, StaffRecords
  <2>2. CASE DropDel(m)
    BY <2>2 DEF DropDel, StaffRecords, KeysOK, SomeUser
  <2>3. CASE Extend(m)
    BY <1>3, <2>3 DEF Extend, StaffRecords, KeysOK, SomeUser
  <2>4. CASE SetNx(m)
    BY <1>3, <2>4 DEF SetNx, StaffRecords, KeysOK, SomeUser
  <2>5. CASE NoteCounter(m)
    BY <1>3, <2>5 DEF NoteCounter, StaffRecords, KeysOK, SomeCounter
  <2> QED BY <2>1, <2>2, <2>3, <2>4, <2>5
<1>5. UNCHANGED <<token, cookie, tab, call>>
  BY DEF DropRead, DropDel, ReadCounter, Extend, SetNx, RetryRead, NoteCounter
<1> QED BY <1>3, <1>4, <1>5, PartsKept DEF StaffRecords

LEMMA IssueRecords ==
  ASSUME StaffRecords, NEW m \in Machine, IssueTokenPair(m)
  PROVE  StaffRecords'
<1>1. PICK t \in Token :
        /\ token' = [token EXCEPT ![t] = [user |-> auth[m].user, live |-> TRUE]]
        /\ auth' = [auth EXCEPT ![m].pc = "answer", ![m].tok = t]
  BY DEF IssueTokenPair
<1> DEFINE a == [auth[m] EXCEPT !.pc = "answer", !.tok = t]
<1>2. AuthOK(auth[m]) /\ auth[m].pc = "issue"
  BY DEF IssueTokenPair, AuthAt, StaffRecords, AuthsOK
<1>3. AuthOK(a) /\ auth[m].user \in User
  BY <1>2 DEF AuthOK, Auth, AuthPc, Acquiring
<1>4. auth' = [auth EXCEPT ![m] = a]
  BY <1>1 DEF StaffRecords, AuthsOK, Auth
<1>5. TokensOK'
  BY <1>1, <1>3 DEF StaffRecords, TokensOK, SomeUser
<1> HIDE DEF a
<1> QED BY <1>3, <1>4, <1>5, AuthBecomes, PartsKept DEF IssueTokenPair, StaffRecords

\* The calls that waited are sent again, or given up.
LEMMA WaitingRecords ==
  ASSUME StaffRecords, NEW m \in Machine
  PROVE  /\ GivenUp(m) \in [SlotsAt[m] -> Call] /\ \A s \in SlotsAt[m] : CallOK(GivenUp(m)[s])
         /\ auth[m].pc = "answer" =>
              /\ Resent(m) \in [SlotsAt[m] -> Call]
              /\ \A s \in SlotsAt[m] : CallOK(Resent(m)[s])
<1>1. \A s \in SlotsAt[m] : CallOK(call[m][s]) /\ call[m][s] \in Call
  BY DEF StaffRecords, CallsOK, CallOK
<1>2. AuthOK(auth[m])
  BY DEF StaffRecords, AuthsOK
<1>3. CallIdle \in Call
  BY IdleRecords DEF CallOK
<1>4. ASSUME auth[m].pc = "answer", NEW s \in SlotsAt[m]
      PROVE  CallOK(Resent(m)[s])
  <2>1. CASE call[m][s].pc = "waiting"
    BY <1>1, <1>2, <1>4, <2>1 DEF Resent, CallOK, Call, CallPc, AuthOK, Auth
  <2>2. CASE call[m][s].pc # "waiting"
    BY <1>1, <2>2 DEF Resent
  <2> QED BY <2>1, <2>2
<1>5. \A s \in SlotsAt[m] : CallOK(GivenUp(m)[s])
  BY <1>1, IdleRecords DEF GivenUp
<1>6. \A c : CallOK(c) => c \in Call
  BY DEF CallOK
<1>7. GivenUp(m) \in [SlotsAt[m] -> Call]
  BY <1>1, <1>3 DEF GivenUp
<1>8. auth[m].pc = "answer" => Resent(m) \in [SlotsAt[m] -> Call]
  BY <1>4, <1>6 DEF Resent
<1> QED BY <1>4, <1>5, <1>7, <1>8

LEMMA AnsweredRecords ==
  ASSUME StaffRecords, NEW m \in Machine, Answered(m)
  PROVE  StaffRecords'
<1>1. AuthOK(auth[m]) /\ auth[m].pc = "answer"
  BY DEF Answered, AuthAt, StaffRecords, AuthsOK
<1>2. TabOK([user |-> auth[m].user, counter |-> auth[m].counter, fresh |-> TRUE])
  BY <1>1 DEF AuthOK, Auth, Acquiring, TabOK, Tab
<1>3. TabsOK' /\ CookiesOK'
  BY <1>1, <1>2 DEF Answered, StaffRecords, TabsOK, TabOK, CookiesOK, AuthOK
<1>4. CallsOK'
  <2>1. call' = [call EXCEPT ![m] = Resent(m)] /\ CallsOK
    BY DEF Answered, StaffRecords
  <2>2. Resent(m) \in [SlotsAt[m] -> Call] /\ \A s \in SlotsAt[m] : CallOK(Resent(m)[s])
    BY <1>1, WaitingRecords
  <2> QED BY <2>1, <2>2, CallsBecome
<1>5. AuthsOK'
  BY AuthBecomes, IdleRecords DEF Answered, StaffRecords
<1> QED BY <1>3, <1>4, <1>5, PartsKept DEF Answered, StaffRecords

LEMMA RefusedRecords ==
  ASSUME StaffRecords, NEW m \in Machine, Refused(m)
  PROVE  StaffRecords'
<1>1. TabsOK'
  BY IdleRecords DEF Refused, StaffRecords, TabsOK, TabOK
<1>2. CallsOK' /\ AuthsOK'
  BY WaitingRecords, CallsBecome, AuthBecomes, IdleRecords DEF Refused, StaffRecords
<1> QED BY <1>1, <1>2, PartsKept DEF Refused, StaffRecords

-----------------------------------------------------------------------------
(* Types: a call of a tab *)

LEMMA SendRecords ==
  ASSUME StaffRecords, NEW m \in Machine, NEW s \in SlotsAt[m], NEW kind \in {"api", "logout"},
         Send(m, s, kind)
  PROVE  StaffRecords'
<1> DEFINE c == [pc |-> "sent", kind |-> kind, user |-> tab[m].user, counter |-> tab[m].counter,
                 tok |-> cookie[m], old |-> ~tab[m].fresh, again |-> FALSE]
<1>1. TabOK(tab[m]) /\ tab[m] # SignedOut /\ cookie[m] \in Token \union {NoToken}
  BY DEF Send, StaffRecords, TabsOK, CookiesOK
<1>2. CallOK(c)
  BY <1>1 DEF TabOK, Tab, CallOK, Call, CallPc
<1>3. call' = [call EXCEPT ![m][s] = c]
  BY DEF Send
<1> HIDE DEF c
<1>4. CallsOK'
  BY <1>2, <1>3, CallBecomes DEF StaffRecords
<1> QED BY <1>4, PartsKept DEF Send, StaffRecords

\* A call at one of these places goes on at pc without further conditions on its record.
LEMMA CallGoesOn ==
  ASSUME StaffRecords, NEW m \in Machine, NEW s \in SlotsAt[m], NEW pc \in CallPc,
         call[m][s].pc # "idle",
         pc \in {"renewSet", "renewNote"} => call[m][s].pc \in {"renewRead", "renewSet"},
         pc \notin {"sent", "renewRead", "outRead"}, pc = "outDel" => call[m][s].pc = "outRead",
         pc \in {"revoke", "out", "outDel", "outUser", "done"} => call[m][s].kind = "logout"
  PROVE  CallOK([call[m][s] EXCEPT !.pc = pc]) /\ CallOK(call[m][s]) /\ call[m][s].user \in User
<1>1. CallOK(call[m][s])
  BY DEF StaffRecords, CallsOK
<1> QED BY <1>1 DEF CallOK, Call, CallPc

LEMMA HandlerGoes ==
  ASSUME StaffRecords, NEW m \in Machine, NEW s \in SlotsAt[m], call[m][s].pc # "idle"
  PROVE  CallOK([call[m][s] EXCEPT !.pc = Handler(m, s)])
<1>1. Handler(m, s) \in {"revoke", "serve"} /\ (Handler(m, s) = "revoke" => call[m][s].kind = "logout")
  BY DEF Handler
<1> QED BY <1>1, CallGoesOn DEF CallPc

LEMMA ValidateRecords ==
  ASSUME StaffRecords, NEW m \in Machine, NEW s \in SlotsAt[m], Validate(m, s)
  PROVE  StaffRecords'
<1>1. CallOK(call[m][s]) /\ call[m][s].pc = "sent"
  BY DEF Validate, StaffRecords, CallsOK
<1>2. CASE CallTo(m, s, "401") \/ CallTo(m, s, "403") \/ CallTo(m, s, Handler(m, s))
  <2>1. CallsOK'
    BY <1>1, <1>2, CallGoesOn, HandlerGoes, CallGoes DEF StaffRecords, CallPc
  <2> QED BY <2>1, PartsKept DEF Validate, StaffRecords
<1>3. CASE CallTo(m, s, "renewRead") /\ LocksCounter(call[m][s].user)
  <2>1. CallOK([call[m][s] EXCEPT !.pc = "renewRead"])
    BY <1>1, <1>3 DEF LocksCounter, HasCounter, CallOK, Call, CallPc
  <2>2. CallsOK'
    BY <1>3, <2>1, CallGoes DEF StaffRecords
  <2> QED BY <2>2, PartsKept DEF Validate, StaffRecords
<1> QED BY <1>2, <1>3 DEF Validate

LEMMA RenewRecords ==
  ASSUME StaffRecords, NEW m \in Machine, NEW s \in SlotsAt[m],
         RenewRead(m, s) \/ RenewSet(m, s) \/ RenewNote(m, s)
  PROVE  StaffRecords'
<1>1. CallOK(call[m][s]) /\ call[m][s].pc \in {"renewRead", "renewSet", "renewNote"}
  BY DEF RenewRead, RenewSet, RenewNote, StaffRecords, CallsOK
<1>2. call[m][s].user \in User /\ call[m][s].counter \in Counter
  BY <1>1 DEF CallOK
<1>3. CallsOK'
  <2>1. CASE RenewRead(m, s)
    BY <2>1, CallGoesOn, HandlerGoes, CallGoes DEF RenewRead, StaffRecords, CallPc
  <2>2. CASE RenewSet(m, s)
    BY <2>2, CallGoesOn, CallGoes DEF RenewSet, StaffRecords, CallPc
  <2>3. CASE RenewNote(m, s)
    BY <2>3, HandlerGoes, CallGoes DEF RenewNote, StaffRecords
  <2> QED BY <2>1, <2>2, <2>3
<1>4. KeysOK'
  <2>1. CASE RenewRead(m, s)
    BY <2>1, PartsKept DEF RenewRead, StaffRecords
  <2>2. CASE RenewSet(m, s)
    BY <1>2, <2>2 DEF RenewSet, StaffRecords, KeysOK, SomeUser
  <2>3. CASE RenewNote(m, s)
    BY <1>2, <2>3 DEF RenewNote, StaffRecords, KeysOK, SomeCounter
  <2> QED BY <2>1, <2>2, <2>3
<1>5. UNCHANGED <<token, cookie, tab, auth>>
  BY DEF RenewRead, RenewSet, RenewNote
<1> QED BY <1>3, <1>4, <1>5, PartsKept DEF StaffRecords

\* The end of a call.
LEMMA EndRecords ==
  ASSUME StaffRecords, NEW m \in Machine, NEW s \in SlotsAt[m],
         Serve(m, s) \/ SignOut(m, s) \/ SecondFailure(m, s)
  PROVE  StaffRecords'
<1>1. call' = [call EXCEPT ![m][s] = CallIdle]
  BY DEF Serve, SignOut, SecondFailure
<1>2. CallsOK'
  BY <1>1, IdleRecords, CallBecomes DEF StaffRecords
<1>3. TabsOK' /\ CookiesOK'
  BY IdleRecords DEF Serve, SignOut, SecondFailure, StaffRecords, TabsOK, TabOK, CookiesOK
<1> QED BY <1>2, <1>3, PartsKept DEF Serve, SignOut, SecondFailure, StaffRecords

LEMMA LogoutKind ==
  ASSUME StaffRecords, NEW m \in Machine, NEW s \in SlotsAt[m],
         call[m][s].pc \in {"revoke", "out", "outRead", "outDel", "outUser", "done"}
  PROVE  /\ call[m][s].kind = "logout" /\ call[m][s].user \in User /\ call[m][s].pc # "idle"
         /\ CallOK(call[m][s])
<1>1. CallOK(call[m][s])
  BY DEF StaffRecords, CallsOK
<1> QED BY <1>1 DEF CallOK

LEMMA LogoutReadRecords ==
  ASSUME StaffRecords, NEW m \in Machine, NEW s \in SlotsAt[m], LogoutRead(m, s)
  PROVE  StaffRecords'
<1> DEFINE k == counterOf[call[m][s].user]
           c == [call[m][s] EXCEPT !.pc = IF k = NoCounter THEN "outUser" ELSE "outRead", !.counter = k]
<1>1. CallOK(call[m][s]) /\ call[m][s].pc = "out"
  BY DEF LogoutRead, StaffRecords, CallsOK
<1>2. k \in SomeCounter
  BY <1>1 DEF CallOK, StaffRecords, KeysOK
<1>3. CallOK(c)
  BY <1>1, <1>2 DEF CallOK, Call, CallPc, SomeCounter
<1>4. call' = [call EXCEPT ![m][s] = c]
  BY <1>1 DEF LogoutRead, StaffRecords, CallsOK, CallOK, Call
<1> HIDE DEF c
<1>5. CallsOK'
  BY <1>3, <1>4, CallBecomes DEF StaffRecords
<1> QED BY <1>5, PartsKept DEF LogoutRead, StaffRecords

LEMMA LogoutRecords ==
  ASSUME StaffRecords, NEW m \in Machine, NEW s \in SlotsAt[m],
         LogoutRevoke(m, s) \/ LogoutHolder(m, s) \/ LogoutDel(m, s) \/ LogoutUser(m, s)
  PROVE  StaffRecords'
<1>1. call[m][s].kind = "logout" /\ call[m][s].user \in User /\ call[m][s].pc # "idle"
  BY LogoutKind DEF LogoutRevoke, LogoutHolder, LogoutDel, LogoutUser
<1>2. CallsOK'
  <2>1. CASE LogoutRevoke(m, s) \/ LogoutDel(m, s) \/ LogoutUser(m, s)
    BY <1>1, <2>1, CallGoesOn, CallGoes DEF LogoutRevoke, LogoutDel, LogoutUser, StaffRecords, CallPc
  <2>2. CASE LogoutHolder(m, s)
    BY <1>1, <2>2, CallGoesOn, CallGoes DEF LogoutHolder, StaffRecords, CallPc
  <2> QED BY <2>1, <2>2
<1>3. KeysOK'
  <2>1. CASE LogoutRevoke(m, s) \/ LogoutHolder(m, s)
    BY <2>1, PartsKept DEF LogoutRevoke, LogoutHolder, StaffRecords
  <2>2. CASE LogoutDel(m, s)
    BY <2>2 DEF LogoutDel, StaffRecords, KeysOK, SomeUser
  <2>3. CASE LogoutUser(m, s)
    BY <2>3 DEF LogoutUser, StaffRecords, KeysOK, SomeCounter
  <2> QED BY <2>1, <2>2, <2>3
<1>4. TokensOK'
  BY DEF LogoutRevoke, LogoutHolder, LogoutDel, LogoutUser, StaffRecords, TokensOK
<1>5. UNCHANGED <<cookie, tab, auth>>
  BY DEF LogoutRevoke, LogoutHolder, LogoutDel, LogoutUser
<1> QED BY <1>2, <1>3, <1>4, <1>5, PartsKept DEF StaffRecords

LEMMA TryRefreshRecords ==
  ASSUME StaffRecords, NEW m \in Machine, NEW s \in SlotsAt[m], TryRefresh(m, s)
  PROVE  StaffRecords'
<1>1. CallsOK'
  BY CallGoesOn, CallGoes DEF TryRefresh, StaffRecords, CallPc
<1>2. AuthOK([AuthIdle EXCEPT !.pc = "lookup", !.tok = cookie[m]])
  BY IdleRecords DEF AuthOK, Auth, AuthPc, Acquiring, StaffRecords, CookiesOK, AuthIdle
<1>3. AuthsOK'
  BY <1>2, AuthBecomes, PartsKept DEF TryRefresh, StaffRecords
<1> QED BY <1>1, <1>3, PartsKept DEF TryRefresh, StaffRecords

LEMMA TimeRecords ==
  ASSUME StaffRecords,
         \/ \E m \in Machine : ExpireAccess(m)
         \/ \E c \in Counter : ExpireCounter(c)
         \/ \E u \in User : ExpireUser(u)
  PROVE  StaffRecords'
<1>1. ASSUME NEW m \in Machine, ExpireAccess(m)
      PROVE  StaffRecords'
  <2> DEFINE f == [s \in SlotsAt[m] |->
                    IF call[m][s].pc = "sent" THEN [call[m][s] EXCEPT !.old = TRUE] ELSE call[m][s]]
  <2>1. \A s \in SlotsAt[m] : CallOK(call[m][s]) /\ call[m][s] \in Call
    BY DEF StaffRecords, CallsOK, CallOK
  <2>2. \A s \in SlotsAt[m] : CallOK(f[s]) /\ f[s] \in Call
    BY <2>1 DEF CallOK, Call
  <2>3. f \in [SlotsAt[m] -> Call] /\ call' = [call EXCEPT ![m] = f]
    BY <1>1, <2>2 DEF ExpireAccess
  <2> HIDE DEF f
  <2>4. CallsOK'
    BY <2>2, <2>3, CallsBecome DEF StaffRecords
  <2>5. TabsOK'
    <3>1. tab' = [tab EXCEPT ![m].fresh = FALSE] /\ tab[m].fresh
      BY <1>1 DEF ExpireAccess
    <3>2. TabOK(tab[m]) /\ tab[m] # SignedOut
      BY <3>1 DEF StaffRecords, TabsOK, SignedOut
    <3>3. TabOK([tab[m] EXCEPT !.fresh = FALSE])
      BY <3>2 DEF TabOK, Tab
    <3> QED BY <3>1, <3>3 DEF StaffRecords, TabsOK, TabOK
  <2> QED BY <1>1, <2>4, <2>5, PartsKept DEF ExpireAccess, StaffRecords
<1>2. ASSUME NEW c \in Counter, ExpireCounter(c)
      PROVE  StaffRecords'
  <2>1. KeysOK'
    BY <1>2 DEF ExpireCounter, StaffRecords, KeysOK, SomeUser
  <2> QED BY <1>2, <2>1, PartsKept DEF ExpireCounter, StaffRecords
<1>3. ASSUME NEW u \in User, ExpireUser(u)
      PROVE  StaffRecords'
  <2>1. KeysOK'
    BY <1>3 DEF ExpireUser, StaffRecords, KeysOK, SomeCounter
  <2> QED BY <1>3, <2>1, PartsKept DEF ExpireUser, StaffRecords
<1> QED BY <1>1, <1>2, <1>3

LEMMA RecordsNext == StaffRecords /\ [StaffNext]_staffVars => StaffRecords'
<1> SUFFICES ASSUME StaffRecords, [StaffNext]_staffVars PROVE StaffRecords'
  OBVIOUS
<1>1. CASE UNCHANGED staffVars
  BY <1>1, PartsKept DEF staffVars, StaffRecords
<1>2. ASSUME NEW m \in Machine, AuthStep(m)
      PROVE  StaffRecords'
  BY <1>2, StartRecords, CloseTabRecords, LookupRecords, RevokeRecords, ResolveRecords, AcquireRecords,
     IssueRecords, AnsweredRecords, RefusedRecords DEF AuthStep
<1>3. ASSUME NEW m \in Machine, NEW s \in SlotsAt[m], CallStep(m, s)
      PROVE  StaffRecords'
  BY <1>3, SendRecords, ValidateRecords, RenewRecords, EndRecords, LogoutReadRecords, LogoutRecords,
     TryRefreshRecords DEF CallStep
<1> QED BY <1>1, <1>2, <1>3, TimeRecords DEF StaffNext

\* The keys in Redis, the rows of tokens, the tabs and the requests have their types.
THEOREM StaffTypes == StaffSpec => []StaffTypeOK
<1>1. StaffRecords => StaffTypeOK
  BY DEF StaffRecords, KeysOK, TokensOK, CookiesOK, TabsOK, AuthsOK, CallsOK, StaffTypeOK
<1> QED BY <1>1, RecordsInit, RecordsNext, PTL DEF StaffSpec

-----------------------------------------------------------------------------
(* The locks: what a step of one request means for the others *)

LEMMA AuthSlotIsNone == AuthSlot \notin Slot
  BY NoSetContainsEverything DEF AuthSlot

LEMMA WorkIs ==
  ASSUME NEW m \in Machine
  PROVE  /\ Work(m, AuthSlot) = auth[m] /\ AuthSlot \in Works(m) /\ AuthSlot \notin SlotsAt[m]
         /\ \A s \in SlotsAt[m] : Work(m, s) = call[m][s] /\ s \in Works(m) /\ s # AuthSlot
  BY AuthSlotIsNone, StaffAssumption DEF Work, Works

\* OnServer() counts both kinds of requests.
ServerWorks ==
  \A u \in User : OnServer(u) <=> \E m \in Machine : \E s \in Works(m) : Serves(Work(m, s), u)

LEMMA OnServerWorks == StaffRecords => ServerWorks
<1> SUFFICES ASSUME StaffRecords, NEW u \in User
             PROVE  OnServer(u) <=> \E m \in Machine : \E s \in Works(m) : Serves(Work(m, s), u)
  BY DEF ServerWorks
<1>1. ASSUME NEW m \in Machine
      PROVE  Serves(auth[m], u) <=> auth[m].user = u /\ auth[m].pc \notin {"idle", "answer", "refused"}
  <2>1. auth[m].pc \in AuthPc
    BY DEF StaffRecords, AuthsOK, Auth
  <2> QED BY <2>1 DEF Serves, Outside, AuthPc
<1>2. ASSUME NEW m \in Machine, NEW s \in SlotsAt[m]
      PROVE  Serves(call[m][s], u) <=>
               call[m][s].user = u /\ call[m][s].pc \notin {"idle", "sent", "done", "401", "403", "waiting"}
  <2>1. call[m][s].pc \in CallPc
    BY DEF StaffRecords, CallsOK, Call
  <2> QED BY <2>1 DEF Serves, Outside, CallPc
<1>3. ASSUME NEW m \in Machine, NEW s \in Works(m), Serves(Work(m, s), u)
      PROVE  OnServer(u)
  BY <1>1, <1>2, <1>3, WorkIs DEF OnServer, Works
<1>4. ASSUME OnServer(u)
      PROVE  \E m \in Machine : \E s \in Works(m) : Serves(Work(m, s), u)
  BY <1>1, <1>2, <1>4, WorkIs DEF OnServer
<1> QED BY <1>3, <1>4

LEMMA OnServerWorksNext == StaffRecords' => ServerWorks'
  BY OnServerWorks, PTL

\* The counters a request at one of these places names exist.
LEMMA WorkCounter ==
  ASSUME StaffRecords, NEW m \in Machine, NEW s \in Works(m),
         Work(m, s).pc \in {"extend", "renewRead", "renewSet", "renewNote", "outDel"}
  PROVE  Work(m, s).counter \in Counter
<1>1. CASE s = AuthSlot
  BY <1>1, WorkIs DEF StaffRecords, AuthsOK, AuthOK, Auth, AuthPc, Acquiring
<1>2. CASE s \in SlotsAt[m]
  BY <1>2, WorkIs DEF StaffRecords, CallsOK, CallOK, Call, CallPc
<1> QED BY <1>1, <1>2 DEF Works

\* The keys of a user are as they were.
KeysKept(v) ==
  /\ \A c \in Counter : holder'[c] = v <=> holder[c] = v
  /\ counterOf'[v] = counterOf[v]

LEMMA KnowsKept ==
  ASSUME StaffRecords, NEW n \in Machine, NEW k \in Works(n), NEW v \in User, Work(n, k).user = v,
         Work(n, k)' = Work(n, k), Knows(Work(n, k)), KeysKept(v)
  PROVE  Knows(Work(n, k))'
<1> PICK w : w = Work(n, k)
  OBVIOUS
<1>1. w.pc \in {"extend", "renewRead", "renewSet", "renewNote", "outDel"} => w.counter \in Counter
  BY WorkCounter
<1>2. Knows(w) /\ w.user = v
  OBVIOUS
<1>3. Knows(w)'
  BY <1>1, <1>2 DEF Knows, Noted, KeysKept
<1> QED BY <1>3 DEF Knows, Noted

\* A step of the request s of m, which the server works on for u or begins to: it may
\* change the keys of u only.
LEMMA ServerStep ==
  ASSUME LockInv, StaffRecords', NEW m \in Machine, NEW s \in Works(m), NEW u \in User,
         \A n \in Machine : \A k \in Works(n) : n # m \/ k # s => Work(n, k)' = Work(n, k),
         Serves(Work(m, s), u) \/ ~ OnServer(u),
         \A v \in User : Serves(Work(m, s), v) => v = u,
         \A v \in User : Serves(Work(m, s), v)' => v = u,
         \A v \in User \ {u} : KeysKept(v),
         Serves(Work(m, s), u)' => Knows(Work(m, s))',
         ~ Serves(Work(m, s), u)' => Noted(u)'
  PROVE  LockInv'
<1>1. \A n \in Machine : \A k \in Works(n) : n # m \/ k # s => ~ Serves(Work(n, k), u)
  BY OnServerWorks DEF ServerWorks, LockInv, Serial
<1>2. \A v \in User, n \in Machine : \A k \in Works(n) : n # m \/ k # s =>
        (Serves(Work(n, k), v)' <=> Serves(Work(n, k), v))
  BY DEF Serves
<1>3. \A v \in User \ {u} : ~ Serves(Work(m, s), v)'
  OBVIOUS
<1>4. Serial'
  <2> SUFFICES ASSUME NEW v \in User, NEW n \in Machine, NEW o \in Machine, NEW k \in Works(n),
                      NEW l \in Works(o), Serves(Work(n, k), v)', Serves(Work(o, l), v)'
               PROVE  n = o /\ k = l
    BY DEF Serial, Works
  <2>1. CASE v = u
    BY <1>1, <1>2, <2>1
  <2>2. CASE v # u
    BY <1>2, <1>3, <2>2 DEF LockInv, Serial
  <2> QED BY <2>1, <2>2
<1>5. WorksKnow'
  <2> SUFFICES ASSUME NEW v \in User, NEW n \in Machine, NEW k \in Works(n), Serves(Work(n, k), v)'
               PROVE  Knows(Work(n, k))'
    BY DEF WorksKnow, Works
  <2>1. CASE v = u
    BY <1>1, <1>2, <2>1
  <2>2. CASE v # u
    <3>1. (n # m \/ k # s) /\ Serves(Work(n, k), v)
      BY <1>2, <1>3, <2>2
    <3>2. Knows(Work(n, k)) /\ Work(n, k).user = v
      BY <3>1 DEF LockInv, WorksKnow, Serves
    <3> QED BY <2>2, <3>1, <3>2, KnowsKept DEF LockInv
  <2> QED BY <2>1, <2>2
<1>6. LockIsNoted'
  <2>1. ASSUME NEW v \in User, (~ OnServer(v))'
        PROVE  Noted(v)'
    <3>1. \A n \in Machine : \A k \in Works(n) : ~ Serves(Work(n, k), v)'
      BY <2>1, OnServerWorksNext DEF ServerWorks, Works
    <3>2. CASE v = u
      BY <3>1, <3>2
    <3>3. CASE v # u
      <4>1. \A n \in Machine : \A k \in Works(n) : ~ Serves(Work(n, k), v)
        BY <1>2, <3>1, <3>3
      <4>2. Noted(v)
        BY <4>1, OnServerWorks DEF ServerWorks, LockInv, LockIsNoted, Noted
      <4> QED BY <3>3, <4>2 DEF Noted, KeysKept
    <3> QED BY <3>2, <3>3
  <2> QED BY <2>1 DEF LockIsNoted, Noted
<1> QED BY <1>4, <1>5, <1>6 DEF LockInv

\* A step between the browser and the server: requests that the server does not work on.
LEMMA BrowserStep ==
  ASSUME LockInv, StaffRecords', UNCHANGED <<holder, counterOf>>,
         \A v \in User, n \in Machine : \A k \in Works(n) :
           /\ Serves(Work(n, k), v)' <=> Serves(Work(n, k), v)
           /\ Serves(Work(n, k), v) => Work(n, k)' = Work(n, k)
  PROVE  LockInv'
<1>1. Serial'
  BY DEF LockInv, Serial, Works
<1>2. WorksKnow'
  <2> SUFFICES ASSUME NEW v \in User, NEW n \in Machine, NEW k \in Works(n), Serves(Work(n, k), v)'
               PROVE  Knows(Work(n, k))'
    BY DEF WorksKnow, Works
  <2>1. Serves(Work(n, k), v) /\ Work(n, k)' = Work(n, k) /\ KeysKept(v)
    BY DEF KeysKept
  <2>2. Knows(Work(n, k)) /\ Work(n, k).user = v
    BY <2>1 DEF LockInv, WorksKnow, Serves
  <2> QED BY <2>1, <2>2, KnowsKept DEF LockInv
<1>3. LockIsNoted'
  <2> SUFFICES ASSUME NEW v \in User, (~ OnServer(v))'
               PROVE  Noted(v)'
    BY DEF LockIsNoted, Noted
  <2>1. \A n \in Machine : \A k \in Works(n) : ~ Serves(Work(n, k), v)
    BY OnServerWorksNext DEF ServerWorks, Works
  <2>2. Noted(v)
    BY <2>1, OnServerWorks DEF ServerWorks, LockInv, LockIsNoted, Noted
  <2> QED BY <2>2 DEF Noted
<1> QED BY <1>1, <1>2, <1>3 DEF LockInv

\* A key runs out while the server works on no request of its user.
LEMMA KeyStep ==
  ASSUME LockInv, StaffRecords', UNCHANGED <<auth, call>>, NEW u \in User, ~ OnServer(u),
         \A v \in User \ {u} : KeysKept(v), Noted(u)'
  PROVE  LockInv'
<1>2. \A n \in Machine : \A k \in Works(n) : Work(n, k)' = Work(n, k)
  BY DEF Work
<1>3. \A n \in Machine : \A k \in Works(n) : ~ Serves(Work(n, k), u)
  BY OnServerWorks DEF ServerWorks, LockInv
<1>4. Serial'
  BY <1>2 DEF LockInv, Serial, Works, Serves
<1>5. WorksKnow'
  <2> SUFFICES ASSUME NEW v \in User, NEW n \in Machine, NEW k \in Works(n), Serves(Work(n, k), v)'
               PROVE  Knows(Work(n, k))'
    BY DEF WorksKnow, Works
  <2>1. Serves(Work(n, k), v) /\ v # u
    BY <1>2, <1>3 DEF Serves
  <2>2. Knows(Work(n, k)) /\ Work(n, k).user = v
    BY <2>1 DEF LockInv, WorksKnow, Serves
  <2> QED BY <1>2, <2>1, <2>2, KnowsKept DEF LockInv
<1>6. LockIsNoted'
  <2> SUFFICES ASSUME NEW v \in User \ {u}, (~ OnServer(v))'
               PROVE  Noted(v)'
    BY DEF LockIsNoted, Noted
  <2>1. \A n \in Machine : \A k \in Works(n) : ~ Serves(Work(n, k), v)
    BY <1>2, OnServerWorksNext DEF ServerWorks, Works, Serves
  <2>2. Noted(v)
    BY <2>1, OnServerWorks DEF ServerWorks, LockInv, LockIsNoted, Noted
  <2> QED BY <2>2 DEF Noted, KeysKept
<1> QED BY <1>4, <1>5, <1>6 DEF LockInv

\* The same for a login or refresh, and for a call.
LEMMA AuthServerStep ==
  ASSUME LockInv, StaffRecords', NEW m \in Machine, NEW u \in User, UNCHANGED call,
         \A n \in Machine \ {m} : auth'[n] = auth[n],
         Serves(auth[m], u) \/ (~ OnServer(u) /\ auth[m].user = NoUser),
         \A v \in User : Serves(auth[m], v)' => v = u, \A v \in User \ {u} : KeysKept(v),
         Serves(auth[m], u)' => Knows(auth[m])', ~ Serves(auth[m], u)' => Noted(u)'
  PROVE  LockInv'
<1>1. \A n \in Machine : \A k \in Works(n) : n # m \/ k # AuthSlot => Work(n, k)' = Work(n, k)
  BY WorkIs DEF Work
<1>2. Work(m, AuthSlot) = auth[m] /\ Work(m, AuthSlot)' = auth'[m] /\ AuthSlot \in Works(m)
  BY WorkIs DEF Work
<1>3. \A v \in User : Serves(Work(m, AuthSlot), v) => v = u
  BY <1>2, StaffAssumption DEF Serves
<1>6. \A v \in User : Serves(Work(m, AuthSlot), v)' => v = u
  BY <1>2 DEF Serves
<1>4. Serves(Work(m, AuthSlot), u)' => Knows(Work(m, AuthSlot))'
  BY <1>2 DEF Serves, Knows, Noted
<1>5. ~ Serves(Work(m, AuthSlot), u)' => Noted(u)'
  BY <1>2 DEF Serves
<1> QED BY <1>1, <1>2, <1>3, <1>4, <1>5, <1>6, ServerStep

LEMMA CallServerStep ==
  ASSUME LockInv, StaffRecords', NEW m \in Machine, NEW s \in SlotsAt[m], NEW u \in User, UNCHANGED auth,
         \A n \in Machine : \A k \in SlotsAt[n] : n # m \/ k # s => call'[n][k] = call[n][k],
         Serves(call[m][s], u) \/ ~ OnServer(u), call[m][s].user = u,
         \A v \in User : Serves(call[m][s], v)' => v = u, \A v \in User \ {u} : KeysKept(v),
         Serves(call[m][s], u)' => Knows(call[m][s])', ~ Serves(call[m][s], u)' => Noted(u)'
  PROVE  LockInv'
<1>1. \A n \in Machine : \A k \in Works(n) : n # m \/ k # s => Work(n, k)' = Work(n, k)
  BY WorkIs DEF Work, Works
<1>2. Work(m, s) = call[m][s] /\ Work(m, s)' = call'[m][s] /\ s \in Works(m)
  BY WorkIs DEF Work
<1>3. \A v \in User : Serves(Work(m, s), v) => v = u
  BY <1>2 DEF Serves
<1>6. \A v \in User : Serves(Work(m, s), v)' => v = u
  BY <1>2 DEF Serves
<1>4. Serves(Work(m, s), u)' => Knows(Work(m, s))'
  BY <1>2 DEF Serves, Knows, Noted
<1>5. ~ Serves(Work(m, s), u)' => Noted(u)'
  BY <1>2 DEF Serves
<1> QED BY <1>1, <1>2, <1>3, <1>4, <1>5, <1>6, ServerStep

\* What a request does between the browser and the server alone.
Quiet(w, x) == w = x \/ \A v \in User : ~ Serves(w, v) /\ ~ Serves(x, v)

LEMMA QuietStep ==
  ASSUME LockInv, StaffRecords', UNCHANGED <<holder, counterOf>>,
         \A n \in Machine : Quiet(auth[n], auth'[n]),
         \A n \in Machine : \A s \in SlotsAt[n] : Quiet(call[n][s], call'[n][s])
  PROVE  LockInv'
<1>1. ASSUME NEW v \in User, NEW n \in Machine, NEW k \in Works(n)
      PROVE  /\ Serves(Work(n, k), v)' <=> Serves(Work(n, k), v)
             /\ Serves(Work(n, k), v) => Work(n, k)' = Work(n, k)
  <2>1. CASE k = AuthSlot
    <3>1. Work(n, k) = auth[n] /\ Work(n, k)' = auth'[n]
      BY <2>1, WorkIs DEF Work
    <3> QED BY <3>1 DEF Quiet, Serves
  <2>2. CASE k \in SlotsAt[n]
    <3>1. Work(n, k) = call[n][k] /\ Work(n, k)' = call'[n][k]
      BY <2>2, WorkIs DEF Work
    <3> QED BY <2>2, <3>1 DEF Quiet, Serves
  <2> QED BY <2>1, <2>2 DEF Works
<1> QED BY <1>1, BrowserStep

LEMMA AuthKnows ==
  ASSUME LockInv, NEW m \in Machine, auth[m].pc \notin {"idle", "lookup", "refused", "answer"}
  PROVE  auth[m].user \in User /\ Serves(auth[m], auth[m].user) /\ Knows(auth[m])
<1>1. AuthOK(auth[m]) /\ auth[m].pc \in AuthPc
  BY DEF LockInv, StaffRecords, AuthsOK, Auth
<1>2. auth[m].user \in User /\ Serves(auth[m], auth[m].user)
  BY <1>1 DEF AuthOK, Serves, Outside, AuthPc
<1> QED BY <1>2, WorkIs DEF LockInv, WorksKnow

LEMMA CallKnows ==
  ASSUME LockInv, NEW m \in Machine, NEW s \in SlotsAt[m], call[m][s].pc \notin Outside
  PROVE  call[m][s].user \in User /\ Serves(call[m][s], call[m][s].user) /\ Knows(call[m][s])
<1>1. CallOK(call[m][s])
  BY DEF LockInv, StaffRecords, CallsOK
<1>2. call[m][s].user \in User /\ Serves(call[m][s], call[m][s].user)
  BY <1>1 DEF CallOK, Serves, Outside
<1> QED BY <1>2, WorkIs DEF LockInv, WorksKnow

-----------------------------------------------------------------------------
(* The locks: a login or a refresh *)

\* The server begins to work for u, of whom it knows what holds between requests.
LEMMA BeginLocks ==
  ASSUME LockInv, StaffRecords', ~ Overlap, NEW m \in Machine, NEW u \in User, MayWorkFor(u),
         UNCHANGED <<holder, counterOf, call>>, auth[m].user = NoUser,
         \A n \in Machine \ {m} : auth'[n] = auth[n],
         auth'[m].user = u, auth'[m].pc \in {"revoke", "resolve"}
  PROVE  LockInv'
<1>1. ~ OnServer(u) /\ Noted(u)'
  BY DEF MayWorkFor, LockInv, LockIsNoted, Noted
<1>2. Knows(auth[m])'
  BY <1>1 DEF Knows, Noted
<1>3. \A v \in User : Serves(auth[m], v)' => v = u
  BY DEF Serves
<1> QED BY <1>1, <1>2, <1>3, AuthServerStep DEF KeysKept

LEMMA StartLocks ==
  ASSUME LockInv, StaffRecords', ~ Overlap, NEW m \in Machine,
         Bootstrap(m) \/ CloseTab(m) \/ \E u \in User : Login(m, u)
  PROVE  LockInv'
<1>1. CASE Bootstrap(m)
  <2>1. /\ auth[m] = AuthIdle /\ auth'[m].user = NoUser
        /\ \A n \in Machine \ {m} : auth'[n] = auth[n]
    BY <1>1, IdleRecords DEF Bootstrap, AtRest, LockInv, StaffRecords, AuthsOK, AuthIdle
  <2>2. \A n \in Machine : Quiet(auth[n], auth'[n])
    BY <2>1, IdleRecords, StaffAssumption DEF Quiet, Serves
  <2> QED BY <1>1, <2>2, QuietStep DEF Bootstrap, Quiet
<1>2. ASSUME NEW u \in User, Login(m, u)
      PROVE  LockInv'
  <2>1. /\ auth[m].user = NoUser /\ auth'[m].user = u /\ auth'[m].pc = "resolve"
        /\ \A n \in Machine \ {m} : auth'[n] = auth[n]
    BY <1>2, IdleRecords DEF Login, AtRest, LockInv, StaffRecords, AuthsOK, AuthIdle
  <2> QED BY <1>2, <2>1, BeginLocks DEF Login
<1>3. CASE CloseTab(m)
  BY <1>3, QuietStep DEF CloseTab, Quiet
<1> QED BY <1>1, <1>2, <1>3

LEMMA LookupLocks ==
  ASSUME LockInv, StaffRecords', ~ Overlap, NEW m \in Machine, Lookup(m)
  PROVE  LockInv'
<1>1. AuthOK(auth[m]) /\ auth[m].user = NoUser
  BY DEF Lookup, AuthAt, LockInv, StaffRecords, AuthsOK, AuthOK
<1>2. CASE AuthTo(m, "refused")
  <2>1. auth'[m].user = NoUser /\ \A n \in Machine \ {m} : auth'[n] = auth[n]
    BY <1>1, <1>2 DEF AuthTo, LockInv, StaffRecords, AuthsOK, Auth
  <2>2. \A n \in Machine : Quiet(auth[n], auth'[n])
    BY <1>1, <2>1, StaffAssumption DEF Quiet, Serves
  <2> QED BY <2>2, QuietStep DEF Lookup, Quiet
<1>3. CASE ~ AuthTo(m, "refused")
  <2>1. PICK u : u = token[auth[m].tok].user
    OBVIOUS
  <2>2. auth[m].tok \in Token /\ token[auth[m].tok].live
    BY <1>1, <1>3 DEF Lookup, AuthOK, Auth
  <2>3. u \in User /\ MayWorkFor(u)
    BY <1>3, <2>1, <2>2 DEF Lookup, LockInv, StaffRecords, TokensOK
  <2>4. /\ auth'[m].user = u /\ auth'[m].pc = "revoke"
        /\ \A n \in Machine \ {m} : auth'[n] = auth[n]
    BY <1>3, <2>1 DEF Lookup, LockInv, StaffRecords, AuthsOK, Auth
  <2> QED BY <1>1, <2>3, <2>4, BeginLocks DEF Lookup
<1> QED BY <1>2, <1>3

\* The steps between the first and the last command of the server for u.
LEMMA AuthWorkLocks ==
  ASSUME LockInv, StaffRecords', NEW m \in Machine, NEW u \in User, UNCHANGED call,
         auth[m].pc \notin {"idle", "lookup", "refused", "answer"}, auth[m].user = u,
         \A n \in Machine \ {m} : auth'[n] = auth[n], auth'[m].user = u,
         \A v \in User \ {u} : KeysKept(v),
         auth'[m].pc \in {"answer", "refused"} \/ Knows(auth[m])',
         auth'[m].pc \in {"answer", "refused"} => Noted(u)',
         auth'[m].pc # "idle"
  PROVE  LockInv'
<1>1. Serves(auth[m], u)
  BY AuthKnows
<1>2. \A v \in User : Serves(auth[m], v)' => v = u
  BY DEF Serves
<1>3. auth'[m].pc \in AuthPc
  BY DEF StaffRecords, AuthsOK, Auth
<1>4. Serves(auth[m], u)' <=> auth'[m].pc \notin {"answer", "refused"}
  BY <1>3 DEF Serves, Outside, AuthPc
<1> QED BY <1>1, <1>2, <1>4, AuthServerStep

LEMMA RevokeLocks ==
  ASSUME LockInv, StaffRecords', NEW m \in Machine, Revoke(m)
  PROVE  LockInv'
<1>1. PICK u \in User : u = auth[m].user /\ auth[m].pc = "revoke" /\ Knows(auth[m])
  BY AuthKnows DEF Revoke, AuthAt
<1>2. auth'[m] = [auth[m] EXCEPT !.pc = "resolve"] /\ \A n \in Machine \ {m} : auth'[n] = auth[n]
  BY DEF Revoke, AuthTo, LockInv, StaffRecords, AuthsOK
<1>3. auth'[m].user = u /\ auth'[m].pc = "resolve"
  BY <1>1, <1>2 DEF LockInv, StaffRecords, AuthsOK, Auth
<1>4. Noted(u)' /\ \A v \in User : KeysKept(v)
  BY <1>1 DEF Revoke, Knows, Noted, KeysKept
<1>5. Knows(auth[m])'
  BY <1>3, <1>4 DEF Knows
<1> QED BY <1>1, <1>2, <1>3, <1>4, <1>5, AuthWorkLocks DEF Revoke

LEMMA AuthToIs ==
  ASSUME LockInv, NEW m \in Machine, NEW pc, AuthTo(m, pc)
  PROVE  /\ auth'[m].pc = pc /\ auth'[m].user = auth[m].user /\ auth'[m].counter = auth[m].counter
         /\ \A n \in Machine \ {m} : auth'[n] = auth[n]
  BY DEF AuthTo, LockInv, StaffRecords, AuthsOK, Auth

LEMMA ResolveLocks ==
  ASSUME LockInv, StaffRecords', NEW m \in Machine, Resolve(m)
  PROVE  LockInv'
<1> DEFINE c == CounterAt[m]
<1>1. PICK u \in User : u = auth[m].user /\ auth[m].pc = "resolve" /\ Knows(auth[m])
  BY AuthKnows DEF Resolve, AuthAt
<1>2. Noted(u) /\ Noted(u)' /\ (\A v \in User : KeysKept(v)) /\ UNCHANGED <<holder, counterOf, call>>
  BY <1>1 DEF Resolve, Knows, Noted, KeysKept
<1>3. CASE AuthTo(m, "issue") \/ AuthTo(m, "refused")
  <2>1. /\ auth'[m].pc \in {"issue", "refused"} /\ auth'[m].user = u
        /\ \A n \in Machine \ {m} : auth'[n] = auth[n]
    BY <1>1, <1>3, AuthToIs
  <2>2. auth'[m].pc = "issue" => Knows(auth[m])'
    BY <1>2, <2>1 DEF Knows
  <2> QED BY <1>1, <1>2, <2>1, <2>2, AuthWorkLocks
<1>4. CASE ~ (AuthTo(m, "issue") \/ AuthTo(m, "refused"))
  <2>1. c # NoCounter /\ auth' = [auth EXCEPT ![m].counter = c,
          ![m].pc = IF counterOf[auth[m].user] \notin {c, NoCounter} THEN "dropRead" ELSE "read"]
    BY <1>4 DEF Resolve
  <2>2. /\ auth'[m].user = u /\ auth'[m].counter = c
        /\ auth'[m].pc = IF counterOf[u] \notin {c, NoCounter} THEN "dropRead" ELSE "read"
        /\ \A n \in Machine \ {m} : auth'[n] = auth[n]
    BY <1>1, <2>1 DEF LockInv, StaffRecords, AuthsOK, Auth
  <2>3. CASE counterOf[u] \notin {c, NoCounter}
    <3>1. Knows(auth[m])'
      BY <1>2, <2>2, <2>3 DEF Knows
    <3> QED BY <1>1, <1>2, <2>2, <2>3, <3>1, AuthWorkLocks
  <2>4. CASE counterOf[u] \in {c, NoCounter}
    <3>1. \A x \in Counter : holder[x] = u => x = c
      BY <1>2, <2>4, StaffAssumption DEF Noted
    <3>2. Knows(auth[m])'
      BY <1>2, <2>2, <2>4, <3>1 DEF Knows
    <3> QED BY <1>1, <1>2, <2>2, <2>4, <3>2, AuthWorkLocks
  <2> QED BY <2>3, <2>4
<1> QED BY <1>3, <1>4

LEMMA DropReadLocks ==
  ASSUME LockInv, StaffRecords', NEW m \in Machine, DropRead(m)
  PROVE  LockInv'
<1>1. PICK u \in User : u = auth[m].user /\ auth[m].pc = "dropRead" /\ Knows(auth[m])
  BY AuthKnows DEF DropRead, AuthAt
<1>2. Noted(u) /\ (\A v \in User : KeysKept(v)) /\ UNCHANGED <<holder, counterOf, call>>
  BY <1>1 DEF DropRead, Knows, KeysKept
<1>3. counterOf[u] \in Counter \union {NoCounter}
  BY DEF LockInv, StaffRecords, KeysOK, SomeCounter
<1>4. CASE counterOf[u] # NoCounter /\ holder[counterOf[u]] = u
  <2>1. /\ auth'[m].pc = "dropDel" /\ auth'[m].user = u
        /\ \A n \in Machine \ {m} : auth'[n] = auth[n]
    BY <1>1, <1>4, AuthToIs DEF DropRead
  <2>2. Knows(auth[m])'
    BY <1>2, <1>3, <1>4, <2>1 DEF Knows, Noted
  <2> QED BY <1>1, <1>2, <2>1, <2>2, AuthWorkLocks
<1>5. CASE ~ (counterOf[u] # NoCounter /\ holder[counterOf[u]] = u)
  <2>1. /\ auth'[m].pc = "read" /\ auth'[m].user = u
        /\ \A n \in Machine \ {m} : auth'[n] = auth[n]
    BY <1>1, <1>5, AuthToIs DEF DropRead
  <2>2. \A x \in Counter : holder[x] # u
    BY <1>2, <1>5, StaffAssumption DEF Noted
  <2>3. Knows(auth[m])'
    BY <1>2, <2>1, <2>2 DEF Knows
  <2> QED BY <1>1, <1>2, <2>1, <2>3, AuthWorkLocks
<1> QED BY <1>4, <1>5

LEMMA DropDelEffect ==
  ASSUME LockInv, NEW m \in Machine, DropDel(m)
  PROVE  /\ auth[m].pc = "dropDel" /\ auth[m].user \in User
         /\ \A x \in Counter : /\ holder[x] = auth[m].user => holder'[x] = NoUser
                               /\ holder[x] # auth[m].user => holder'[x] = holder[x]
<1>1. auth[m].pc = "dropDel" /\ auth[m].user \in User /\ Knows(auth[m])
  BY AuthKnows DEF DropDel, AuthAt
<1>2. Noted(auth[m].user) /\ holder[counterOf[auth[m].user]] = auth[m].user
  BY <1>1 DEF Knows
<1> QED BY <1>1, <1>2 DEF DropDel, Noted

LEMMA DropDelLocks ==
  ASSUME LockInv, StaffRecords', NEW m \in Machine, DropDel(m)
  PROVE  LockInv'
<1>1. PICK u \in User : u = auth[m].user /\ auth[m].pc = "dropDel"
  BY DropDelEffect
<1>2. \A x \in Counter : /\ holder[x] = u => holder'[x] = NoUser
                         /\ holder[x] # u => holder'[x] = holder[x]
  <2>1. \A x \in Counter : /\ holder[x] = auth[m].user => holder'[x] = NoUser
                           /\ holder[x] # auth[m].user => holder'[x] = holder[x]
    BY DropDelEffect
  <2> QED BY <1>1, <2>1
<1>5. NoUser \notin User
  BY StaffAssumption
<1>6. \A x \in Counter : holder'[x] # u
  BY <1>1, <1>2, <1>5
<1>7. \A v \in User \ {u} : KeysKept(v)
  BY <1>1, <1>2, <1>5 DEF DropDel, KeysKept
<1>3. auth'[m].pc = "read" /\ auth'[m].user = u /\ \A n \in Machine \ {m} : auth'[n] = auth[n]
  BY <1>1, AuthToIs DEF DropDel
<1>4. Knows(auth[m])'
  BY <1>6, <1>3 DEF Knows
<1> QED BY <1>1, <1>7, <1>3, <1>4, AuthWorkLocks DEF DropDel

LEMMA ReadCounterLocks ==
  ASSUME LockInv, StaffRecords', NEW m \in Machine, ReadCounter(m)
  PROVE  LockInv'
<1>1. PICK u \in User : u = auth[m].user /\ auth[m].pc = "read" /\ Knows(auth[m])
  BY AuthKnows DEF ReadCounter, AuthAt
<1> DEFINE c == auth[m].counter
<1>2. /\ \A x \in Counter : holder[x] = u => x = c
      /\ (\A v \in User : KeysKept(v)) /\ UNCHANGED <<holder, counterOf, call>>
  BY <1>1 DEF ReadCounter, Knows, KeysKept
<1>3. /\ auth'[m].pc = IF holder[c] = NoUser THEN "setnx" ELSE IF holder[c] = u THEN "extend" ELSE "refused"
      /\ auth'[m].user = u /\ auth'[m].counter = c
      /\ \A n \in Machine \ {m} : auth'[n] = auth[n]
  BY <1>1, AuthToIs DEF ReadCounter
<1>4. auth'[m].pc = "refused" => Noted(u)'
  BY <1>2, <1>3 DEF Noted
<1>5. auth'[m].pc # "refused" => Knows(auth[m])'
  BY <1>2, <1>3 DEF Knows
<1> QED BY <1>1, <1>2, <1>3, <1>4, <1>5, AuthWorkLocks

\* The three commands by which a counter comes to its user: it was free or the user's own.
LEMMA TakeEffect ==
  ASSUME LockInv, NEW m \in Machine, Extend(m) \/ SetNx(m)
  PROVE  /\ auth[m].user \in User /\ auth[m].counter \in Counter
         /\ \A x \in Counter : holder'[x] # holder[x] =>
              x = auth[m].counter /\ holder[x] = NoUser /\ holder'[x] = auth[m].user
<1>1. auth[m].pc \in {"extend", "setnx"}
  BY DEF Extend, SetNx, AuthAt
<1>2. auth[m].user \in User /\ auth[m].counter \in Counter /\ Knows(auth[m])
  BY <1>1, AuthKnows, AcquireGoes DEF Acquiring, LockInv
<1>3. CASE Extend(m)
  <2>1. holder[auth[m].counter] = auth[m].user
    BY <1>2, <1>3 DEF Extend, AuthAt, Knows
  <2> QED BY <1>2, <1>3, <2>1 DEF Extend, LockInv, StaffRecords, KeysOK
<1>4. CASE SetNx(m)
  BY <1>2, <1>4 DEF SetNx, LockInv, StaffRecords, KeysOK
<1> QED BY <1>3, <1>4

LEMMA TakeLocks ==
  ASSUME LockInv, StaffRecords', NEW m \in Machine, Extend(m) \/ SetNx(m)
  PROVE  LockInv'
<1>1. PICK u \in User : u = auth[m].user /\ auth[m].pc \in {"extend", "setnx"} /\ Knows(auth[m])
  BY AuthKnows DEF Extend, SetNx, AuthAt
<1> DEFINE c == auth[m].counter
<1>2. /\ \A x \in Counter : holder'[x] = u => x = c
      /\ \A v \in User \ {u} : KeysKept(v)
  <2>1. \A x \in Counter : holder[x] = u => x = c
    BY <1>1 DEF Knows
  <2> QED BY <1>1, <2>1, TakeEffect, StaffAssumption DEF Extend, SetNx, KeysKept
<1>3. /\ auth'[m].pc \in {"note", "retry"} /\ auth'[m].user = u /\ auth'[m].counter = c
      /\ \A n \in Machine \ {m} : auth'[n] = auth[n]
  BY <1>1, AuthToIs DEF Extend, SetNx
<1>4. Knows(auth[m])'
  BY <1>2, <1>3 DEF Knows
<1>5. UNCHANGED call
  BY DEF Extend, SetNx
<1> QED BY <1>1, <1>2, <1>3, <1>4, <1>5, AuthWorkLocks

LEMMA RetryReadLocks ==
  ASSUME LockInv, StaffRecords', NEW m \in Machine, RetryRead(m)
  PROVE  LockInv'
<1>1. PICK u \in User : u = auth[m].user /\ auth[m].pc = "retry" /\ Knows(auth[m])
  BY AuthKnows DEF RetryRead, AuthAt
<1> DEFINE c == auth[m].counter
<1>2. /\ \A x \in Counter : holder[x] = u => x = c
      /\ (\A v \in User : KeysKept(v)) /\ UNCHANGED <<holder, counterOf, call>>
  BY <1>1 DEF RetryRead, Knows, KeysKept
<1>3. /\ auth'[m].pc = IF holder[c] \in {NoUser, u} THEN "note" ELSE "refused"
      /\ auth'[m].user = u /\ auth'[m].counter = c
      /\ \A n \in Machine \ {m} : auth'[n] = auth[n]
  BY <1>1, AuthToIs DEF RetryRead
<1>4. auth'[m].pc = "refused" => Noted(u)'
  BY <1>2, <1>3 DEF Noted
<1>5. auth'[m].pc # "refused" => Knows(auth[m])'
  BY <1>2, <1>3 DEF Knows
<1> QED BY <1>1, <1>2, <1>3, <1>4, <1>5, AuthWorkLocks

LEMMA NoteCounterLocks ==
  ASSUME LockInv, StaffRecords', NEW m \in Machine, NoteCounter(m)
  PROVE  LockInv'
<1>1. PICK u \in User : u = auth[m].user /\ auth[m].pc = "note" /\ Knows(auth[m])
  BY AuthKnows DEF NoteCounter, AuthAt
<1>2. counterOf'[u] = auth[m].counter /\ \A v \in User \ {u} : KeysKept(v)
  BY <1>1 DEF NoteCounter, KeysKept, LockInv, StaffRecords, KeysOK
<1>3. Noted(u)'
  BY <1>1, <1>2 DEF Knows, Noted, NoteCounter
<1>4. auth'[m].pc = "issue" /\ auth'[m].user = u /\ \A n \in Machine \ {m} : auth'[n] = auth[n]
  BY <1>1, AuthToIs DEF NoteCounter
<1>5. Knows(auth[m])'
  BY <1>3, <1>4 DEF Knows
<1> QED BY <1>1, <1>2, <1>4, <1>5, AuthWorkLocks DEF NoteCounter

LEMMA IssueLocks ==
  ASSUME LockInv, StaffRecords', NEW m \in Machine, IssueTokenPair(m)
  PROVE  LockInv'
<1>1. PICK u \in User : u = auth[m].user /\ auth[m].pc = "issue" /\ Knows(auth[m])
  BY AuthKnows DEF IssueTokenPair, AuthAt
<1>2. Noted(u)' /\ \A v \in User : KeysKept(v)
  BY <1>1 DEF IssueTokenPair, Knows, Noted, KeysKept
<1>3. auth'[m].pc = "answer" /\ auth'[m].user = u /\ \A n \in Machine \ {m} : auth'[n] = auth[n]
  <2>1. PICK t \in Token : auth' = [auth EXCEPT ![m].pc = "answer", ![m].tok = t]
    BY DEF IssueTokenPair
  <2> QED BY <1>1, <2>1 DEF LockInv, StaffRecords, AuthsOK, Auth
<1> QED BY <1>1, <1>2, <1>3, AuthWorkLocks DEF IssueTokenPair

\* The answer reaches the tab: calls that waited are sent again or given up.
LEMMA AnswerLocks ==
  ASSUME LockInv, StaffRecords', NEW m \in Machine, Answered(m) \/ Refused(m)
  PROVE  LockInv'
<1>1. auth[m].pc \in {"answer", "refused"} /\ auth'[m] = AuthIdle /\ \A n \in Machine \ {m} : auth'[n] = auth[n]
  BY DEF Answered, Refused, AuthAt, LockInv, StaffRecords, AuthsOK
<1>2. \A n \in Machine : Quiet(auth[n], auth'[n])
  BY <1>1, IdleRecords DEF Quiet, Serves, Outside
<1>3. call' = [call EXCEPT ![m] = Resent(m)] \/ call' = [call EXCEPT ![m] = GivenUp(m)]
  BY DEF Answered, Refused
<1>4. /\ call'[m] = Resent(m) \/ call'[m] = GivenUp(m)
      /\ \A n \in Machine \ {m} : call'[n] = call[n]
  BY <1>3 DEF LockInv, StaffRecords, CallsOK
<1>5. ASSUME NEW s \in SlotsAt[m]
      PROVE  Quiet(call[m][s], call'[m][s])
  <2>1. CASE call[m][s].pc = "waiting"
    <3>1. call[m][s] \in Call
      BY DEF LockInv, StaffRecords, CallsOK
    <3>3. CASE call'[m] = Resent(m)
      <4>1. call'[m][s] = [call[m][s] EXCEPT !.pc = "sent", !.old = FALSE, !.again = TRUE, !.tok = auth[m].tok,
                             !.user = auth[m].user, !.counter = auth[m].counter]
        BY <2>1, <3>3 DEF Resent
      <4>2. call'[m][s].pc = "sent"
        BY <3>1, <4>1 DEF Call
      <4> QED BY <2>1, <4>2 DEF Quiet, Serves, Outside
    <3>4. CASE call'[m] = GivenUp(m)
      <4>1. call'[m][s].pc = "idle"
        BY <2>1, <3>4, IdleRecords DEF GivenUp
      <4> QED BY <2>1, <4>1 DEF Quiet, Serves, Outside
    <3> QED BY <1>4, <3>3, <3>4
  <2>2. CASE call[m][s].pc # "waiting"
    BY <1>4, <2>2 DEF Resent, GivenUp, Quiet
  <2> QED BY <2>1, <2>2
<1>6. \A n \in Machine : \A s \in SlotsAt[n] : Quiet(call[n][s], call'[n][s])
  BY <1>4, <1>5 DEF Quiet
<1> QED BY <1>2, <1>6, QuietStep DEF Answered, Refused

-----------------------------------------------------------------------------
(* The locks: a call of a tab *)

LEMMA CallToIs ==
  ASSUME LockInv, NEW m \in Machine, NEW s \in SlotsAt[m], NEW pc, CallTo(m, s, pc)
  PROVE  /\ call'[m][s].pc = pc /\ call'[m][s].user = call[m][s].user
         /\ call'[m][s].counter = call[m][s].counter
         /\ \A n \in Machine : \A k \in SlotsAt[n] : n # m \/ k # s => call'[n][k] = call[n][k]
<1>1. call[m][s] \in Call /\ call[m] \in [SlotsAt[m] -> Call] /\ call = [n \in Machine |-> call[n]]
  BY DEF LockInv, StaffRecords, CallsOK
<1>2. call'[m] = [call[m] EXCEPT ![s].pc = pc] /\ \A n \in Machine \ {m} : call'[n] = call[n]
  BY <1>1 DEF CallTo
<1>3. call'[m][s] = [call[m][s] EXCEPT !.pc = pc] /\ \A k \in SlotsAt[m] \ {s} : call'[m][k] = call[m][k]
  BY <1>1, <1>2
<1> QED BY <1>1, <1>2, <1>3 DEF Call

LEMMA CallSetIs ==
  ASSUME LockInv, NEW m \in Machine, NEW s \in SlotsAt[m], NEW c, call' = [call EXCEPT ![m][s] = c]
  PROVE  /\ call'[m][s] = c
         /\ \A n \in Machine : \A k \in SlotsAt[n] : n # m \/ k # s => call'[n][k] = call[n][k]
<1>1. call[m] \in [SlotsAt[m] -> Call] /\ call = [n \in Machine |-> call[n]]
  BY DEF LockInv, StaffRecords, CallsOK
<1>2. call'[m] = [call[m] EXCEPT ![s] = c] /\ \A n \in Machine \ {m} : call'[n] = call[n]
  BY <1>1
<1>3. call'[m][s] = c /\ \A k \in SlotsAt[m] \ {s} : call'[m][k] = call[m][k]
  BY <1>1, <1>2
<1> QED BY <1>2, <1>3

\* The call begins or ends outside the server.
LEMMA CallQuiet ==
  ASSUME LockInv, StaffRecords', NEW m \in Machine, NEW s \in SlotsAt[m], UNCHANGED <<holder, counterOf>>,
         \A n \in Machine : Quiet(auth[n], auth'[n]),
         \A n \in Machine : \A k \in SlotsAt[n] : n # m \/ k # s => call'[n][k] = call[n][k],
         call[m][s].pc \in Outside, call'[m][s].pc \in Outside
  PROVE  LockInv'
<1>1. \A n \in Machine : \A k \in SlotsAt[n] : Quiet(call[n][k], call'[n][k])
  BY DEF Quiet, Serves
<1> QED BY <1>1, QuietStep

\* The steps of a call that the server works on, or begins to work on, for u.
LEMMA CallWorkLocks ==
  ASSUME LockInv, StaffRecords', NEW m \in Machine, NEW s \in SlotsAt[m], NEW u \in User, UNCHANGED auth,
         \A n \in Machine : \A k \in SlotsAt[n] : n # m \/ k # s => call'[n][k] = call[n][k],
         call[m][s].pc \notin Outside \/ ~ OnServer(u), call[m][s].user = u,
         call'[m][s].user = u, \A v \in User \ {u} : KeysKept(v),
         call'[m][s].pc \notin Outside => Knows(call[m][s])',
         call'[m][s].pc \in Outside => Noted(u)'
  PROVE  LockInv'
<1>1. Serves(call[m][s], u) \/ ~ OnServer(u)
  BY DEF Serves
<1>2. \A v \in User : Serves(call[m][s], v)' => v = u
  BY DEF Serves
<1>3. Serves(call[m][s], u)' <=> call'[m][s].pc \notin Outside
  BY DEF Serves, Outside
<1> QED BY <1>1, <1>2, <1>3, CallServerStep

LEMMA SendLocks ==
  ASSUME LockInv, StaffRecords', NEW m \in Machine, NEW s \in SlotsAt[m], NEW kind, Send(m, s, kind)
  PROVE  LockInv'
<1> DEFINE c == [pc |-> "sent", kind |-> kind, user |-> tab[m].user, counter |-> tab[m].counter,
                 tok |-> cookie[m], old |-> ~tab[m].fresh, again |-> FALSE]
<1>1. call' = [call EXCEPT ![m][s] = c]
  BY DEF Send
<1>5. c.pc = "sent" /\ call[m][s] = CallIdle
  BY DEF Send
<1> HIDE DEF c
<1>2. /\ call'[m][s] = c
      /\ \A n \in Machine : \A k \in SlotsAt[n] : n # m \/ k # s => call'[n][k] = call[n][k]
  BY <1>1, CallSetIs
<1>3. call[m][s].pc \in Outside /\ call'[m][s].pc \in Outside
  BY <1>2, <1>5, IdleRecords DEF Outside
<1>4. \A n \in Machine : Quiet(auth[n], auth'[n])
  BY DEF Send, Quiet
<1> QED BY <1>2, <1>3, <1>4, CallQuiet DEF Send

LEMMA ValidateLocks ==
  ASSUME LockInv, StaffRecords', ~ Overlap, NEW m \in Machine, NEW s \in SlotsAt[m], Validate(m, s)
  PROVE  LockInv'
<1>1. CallOK(call[m][s]) /\ call[m][s].pc = "sent"
  BY DEF Validate, LockInv, StaffRecords, CallsOK
<1>2. PICK u \in User : u = call[m][s].user
  BY <1>1 DEF CallOK
<1>3. UNCHANGED <<holder, counterOf, auth>> /\ (\A v \in User : KeysKept(v))
  BY DEF Validate, KeysKept
<1>4. CASE CallTo(m, s, "401") \/ CallTo(m, s, "403")
  <2>1. /\ call'[m][s].pc \in {"401", "403"}
        /\ \A n \in Machine : \A k \in SlotsAt[n] : n # m \/ k # s => call'[n][k] = call[n][k]
    BY <1>4, CallToIs
  <2>2. call[m][s].pc \in Outside /\ call'[m][s].pc \in Outside
    BY <1>1, <2>1 DEF Outside
  <2>3. \A n \in Machine : Quiet(auth[n], auth'[n])
    BY <1>3 DEF Quiet
  <2> QED BY <1>3, <2>1, <2>2, <2>3, CallQuiet
<1>5. CASE ~ (CallTo(m, s, "401") \/ CallTo(m, s, "403"))
  <2>1. PICK pc \in {"renewRead", "serve", "revoke"} :
          /\ MayWorkFor(u) /\ CallTo(m, s, pc)
          /\ pc = "renewRead" => holder[call[m][s].counter] = u
    BY <1>2, <1>5 DEF Validate, Handler
  <2>2. ~ OnServer(u) /\ Noted(u)
    BY <1>2, <2>1 DEF MayWorkFor, LockInv, LockIsNoted, Noted
  <2>3. /\ call'[m][s].pc = pc /\ call'[m][s].user = u /\ call'[m][s].counter = call[m][s].counter
        /\ \A n \in Machine : \A k \in SlotsAt[n] : n # m \/ k # s => call'[n][k] = call[n][k]
    BY <1>2, <2>1, CallToIs
  <2>4. Knows(call[m][s])'
    BY <1>3, <2>1, <2>2, <2>3 DEF Knows, Noted
  <2>5. call'[m][s].pc \notin Outside
    BY <2>1, <2>3 DEF Outside
  <2> QED BY <1>2, <1>3, <2>2, <2>3, <2>4, <2>5, CallWorkLocks
<1> QED BY <1>4, <1>5

LEMMA RenewReadLocks ==
  ASSUME LockInv, StaffRecords', NEW m \in Machine, NEW s \in SlotsAt[m], RenewRead(m, s)
  PROVE  LockInv'
<1>1. PICK u \in User : u = call[m][s].user /\ call[m][s].pc = "renewRead" /\ Knows(call[m][s])
  BY CallKnows DEF RenewRead, Outside
<1>2. UNCHANGED <<holder, counterOf, auth>> /\ (\A v \in User : KeysKept(v))
  BY DEF RenewRead, KeysKept
<1>3. PICK pc \in {"renewSet", "serve", "revoke"} : CallTo(m, s, pc)
  BY DEF RenewRead, Handler
<1>4. /\ call'[m][s].pc = pc /\ call'[m][s].user = u /\ call'[m][s].counter = call[m][s].counter
      /\ \A n \in Machine : \A k \in SlotsAt[n] : n # m \/ k # s => call'[n][k] = call[n][k]
  BY <1>1, <1>3, CallToIs
<1>5. Knows(call[m][s])'
  BY <1>1, <1>2, <1>3, <1>4 DEF Knows, Noted
<1>6. call[m][s].pc \notin Outside /\ call'[m][s].pc \notin Outside
  BY <1>1, <1>3, <1>4 DEF Outside
<1> QED BY <1>1, <1>2, <1>4, <1>5, <1>6, CallWorkLocks

\* The renewal of a call writes what is there.
LEMMA RenewSetEffect ==
  ASSUME LockInv, NEW m \in Machine, NEW s \in SlotsAt[m], RenewSet(m, s)
  PROVE  \A c \in Counter : holder'[c] = holder[c]
<1>1. call[m][s].pc = "renewSet" /\ Knows(call[m][s])
  BY CallKnows DEF RenewSet, Outside
<1>2. holder[call[m][s].counter] = call[m][s].user
  BY <1>1 DEF Knows
<1> QED BY <1>2 DEF RenewSet, LockInv, StaffRecords, KeysOK

LEMMA RenewSetLocks ==
  ASSUME LockInv, StaffRecords', NEW m \in Machine, NEW s \in SlotsAt[m], RenewSet(m, s)
  PROVE  LockInv'
<1>1. PICK u \in User : u = call[m][s].user /\ call[m][s].pc = "renewSet" /\ Knows(call[m][s])
  BY CallKnows DEF RenewSet, Outside
<1>2. UNCHANGED <<counterOf, auth>> /\ (\A v \in User : KeysKept(v))
  BY RenewSetEffect DEF RenewSet, KeysKept
<1>3. CallOK(call[m][s])
  BY DEF LockInv, StaffRecords, CallsOK
<1>4. /\ call'[m][s].pc = "renewNote" /\ call'[m][s].user = u /\ call'[m][s].counter = call[m][s].counter
      /\ \A n \in Machine : \A k \in SlotsAt[n] : n # m \/ k # s => call'[n][k] = call[n][k]
  BY <1>1, CallToIs DEF RenewSet
<1>5. Noted(u)' /\ holder'[call[m][s].counter] = u
  BY <1>1, <1>2, <1>3, RenewSetEffect DEF Knows, Noted, CallOK
<1>6. Knows(call[m][s])'
  BY <1>4, <1>5 DEF Knows
<1>7. call[m][s].pc \notin Outside /\ call'[m][s].pc \notin Outside
  BY <1>1, <1>4 DEF Outside
<1> QED BY <1>1, <1>2, <1>4, <1>6, <1>7, CallWorkLocks

LEMMA RenewNoteLocks ==
  ASSUME LockInv, StaffRecords', NEW m \in Machine, NEW s \in SlotsAt[m], RenewNote(m, s)
  PROVE  LockInv'
<1>1. PICK u \in User : u = call[m][s].user /\ call[m][s].pc = "renewNote" /\ Knows(call[m][s])
  BY CallKnows DEF RenewNote, Outside
<1> DEFINE c == call[m][s].counter
<1>2. /\ counterOf'[u] = c /\ UNCHANGED <<holder, auth>>
      /\ \A v \in User \ {u} : KeysKept(v)
  BY <1>1 DEF RenewNote, KeysKept, LockInv, StaffRecords, KeysOK
<1>3. c \in Counter
  BY <1>1 DEF LockInv, StaffRecords, CallsOK, CallOK
<1>4. counterOf[u] = c /\ Noted(u)
  BY <1>1, <1>3 DEF Knows, Noted
<1>5. Noted(u)'
  BY <1>2, <1>4 DEF Noted
<1>6. PICK pc \in {"serve", "revoke"} : CallTo(m, s, pc)
  BY DEF RenewNote, Handler
<1>7. /\ call'[m][s].pc = pc /\ call'[m][s].user = u
      /\ \A n \in Machine : \A k \in SlotsAt[n] : n # m \/ k # s => call'[n][k] = call[n][k]
  BY <1>1, <1>6, CallToIs
<1>8. Knows(call[m][s])'
  BY <1>5, <1>6, <1>7 DEF Knows
<1>9. call[m][s].pc \notin Outside /\ call'[m][s].pc \notin Outside
  BY <1>1, <1>6, <1>7 DEF Outside
<1> QED BY <1>1, <1>2, <1>7, <1>8, <1>9, CallWorkLocks

\* The last step of a call: the server's if it was served, the tab's otherwise.
LEMMA EndLocks ==
  ASSUME LockInv, StaffRecords', NEW m \in Machine, NEW s \in SlotsAt[m],
         Serve(m, s) \/ SignOut(m, s) \/ SecondFailure(m, s)
  PROVE  LockInv'
<1>1. call' = [call EXCEPT ![m][s] = CallIdle] /\ UNCHANGED <<holder, counterOf, auth>>
  BY DEF Serve, SignOut, SecondFailure
<1>2. /\ call'[m][s] = CallIdle
      /\ \A n \in Machine : \A k \in SlotsAt[n] : n # m \/ k # s => call'[n][k] = call[n][k]
  BY <1>1, CallSetIs
<1>3. call'[m][s].pc = "idle" /\ call'[m][s].user = NoUser
  BY <1>2 DEF CallIdle
<1>4. CASE call[m][s].pc = "serve"
  <2>1. PICK u \in User : u = call[m][s].user /\ Serves(call[m][s], u) /\ Knows(call[m][s])
    BY <1>4, CallKnows DEF Outside
  <2>2. Noted(u)' /\ (\A v \in User : KeysKept(v))
    BY <1>1, <1>4, <2>1 DEF Knows, Noted, KeysKept
  <2>3. \A v \in User : ~ Serves(call[m][s], v)'
    BY <1>3, StaffAssumption DEF Serves
  <2> QED BY <1>1, <1>2, <2>1, <2>2, <2>3, CallServerStep
<1>5. CASE call[m][s].pc # "serve"
  <2>1. call[m][s].pc \in Outside /\ call'[m][s].pc \in Outside
    BY <1>3, <1>5 DEF Serve, SignOut, SecondFailure, Outside
  <2>2. \A n \in Machine : Quiet(auth[n], auth'[n])
    BY <1>1 DEF Quiet
  <2> QED BY <1>1, <1>2, <2>1, <2>2, CallQuiet
<1> QED BY <1>4, <1>5

LEMMA LogoutRevokeLocks ==
  ASSUME LockInv, StaffRecords', NEW m \in Machine, NEW s \in SlotsAt[m], LogoutRevoke(m, s)
  PROVE  LockInv'
<1>1. PICK u \in User : u = call[m][s].user /\ call[m][s].pc = "revoke" /\ Knows(call[m][s])
  BY CallKnows DEF LogoutRevoke, Outside
<1>2. UNCHANGED <<holder, counterOf, auth>> /\ (\A v \in User : KeysKept(v))
  BY DEF LogoutRevoke, KeysKept
<1>4. /\ call'[m][s].pc = "out" /\ call'[m][s].user = u
      /\ \A n \in Machine : \A k \in SlotsAt[n] : n # m \/ k # s => call'[n][k] = call[n][k]
  BY <1>1, CallToIs DEF LogoutRevoke
<1>5. Knows(call[m][s])'
  BY <1>1, <1>2, <1>4 DEF Knows, Noted
<1>6. call[m][s].pc \notin Outside /\ call'[m][s].pc \notin Outside
  BY <1>1, <1>4 DEF Outside
<1> QED BY <1>1, <1>2, <1>4, <1>5, <1>6, CallWorkLocks

LEMMA LogoutReadLocks ==
  ASSUME LockInv, StaffRecords', NEW m \in Machine, NEW s \in SlotsAt[m], LogoutRead(m, s)
  PROVE  LockInv'
<1>1. PICK u \in User : u = call[m][s].user /\ call[m][s].pc = "out" /\ Knows(call[m][s])
  BY CallKnows DEF LogoutRead, Outside
<1>2. UNCHANGED <<holder, counterOf, auth>> /\ (\A v \in User : KeysKept(v)) /\ Noted(u)
  BY <1>1 DEF LogoutRead, KeysKept, Knows
<1>3. call[m][s] \in Call /\ call[m] \in [SlotsAt[m] -> Call] /\ call = [n \in Machine |-> call[n]]
  BY DEF LockInv, StaffRecords, CallsOK
<1> DEFINE k == counterOf[call[m][s].user]
           c == [call[m][s] EXCEPT !.pc = IF k = NoCounter THEN "outUser" ELSE "outRead", !.counter = k]
<1>4. call' = [call EXCEPT ![m][s] = c]
  BY <1>3 DEF LogoutRead, Call
<1>5. /\ c.user = u /\ c.counter = counterOf[u]
      /\ c.pc = IF counterOf[u] = NoCounter THEN "outUser" ELSE "outRead"
  BY <1>1, <1>3 DEF Call
<1> HIDE DEF c, k
<1>6. /\ call'[m][s] = c
      /\ \A n \in Machine : \A l \in SlotsAt[n] : n # m \/ l # s => call'[n][l] = call[n][l]
  <2>1. call'[m] = [call[m] EXCEPT ![s] = c] /\ \A n \in Machine \ {m} : call'[n] = call[n]
    BY <1>3, <1>4
  <2>2. call'[m][s] = c /\ \A l \in SlotsAt[m] \ {s} : call'[m][l] = call[m][l]
    BY <1>3, <2>1
  <2> QED BY <2>1, <2>2
<1>7. Knows(call[m][s])'
  <2>1. counterOf[u] = NoCounter => \A x \in Counter : holder[x] # u
    BY <1>2, StaffAssumption DEF Noted
  <2> QED BY <1>2, <1>5, <1>6, <2>1 DEF Knows, Noted
<1>8. call[m][s].pc \notin Outside /\ call'[m][s].pc \notin Outside
  BY <1>1, <1>5, <1>6 DEF Outside
<1>9. call'[m][s].user = u
  BY <1>5, <1>6
<1> QED BY <1>1, <1>2, <1>6, <1>7, <1>8, <1>9, CallWorkLocks

LEMMA LogoutHolderLocks ==
  ASSUME LockInv, StaffRecords', NEW m \in Machine, NEW s \in SlotsAt[m], LogoutHolder(m, s)
  PROVE  LockInv'
<1>1. PICK u \in User : u = call[m][s].user /\ call[m][s].pc = "outRead" /\ Knows(call[m][s])
  BY CallKnows DEF LogoutHolder, Outside
<1> DEFINE c == call[m][s].counter
<1>2. UNCHANGED <<holder, counterOf, auth>> /\ (\A v \in User : KeysKept(v))
  BY DEF LogoutHolder, KeysKept
<1>3. Noted(u) /\ counterOf[u] = c
  BY <1>1 DEF Knows
<1>4. /\ call'[m][s].pc = IF holder[c] = u THEN "outDel" ELSE "outUser"
      /\ call'[m][s].user = u /\ call'[m][s].counter = c
      /\ \A n \in Machine : \A k \in SlotsAt[n] : n # m \/ k # s => call'[n][k] = call[n][k]
  BY <1>1, CallToIs DEF LogoutHolder
<1>5. holder[c] # u => \A x \in Counter : holder[x] # u
  BY <1>3 DEF Noted
<1>6. Knows(call[m][s])'
  BY <1>2, <1>3, <1>4, <1>5 DEF Knows, Noted
<1>7. call[m][s].pc \notin Outside /\ call'[m][s].pc \notin Outside
  BY <1>1, <1>4 DEF Outside
<1> QED BY <1>1, <1>2, <1>4, <1>6, <1>7, CallWorkLocks

\* A logout frees the counter of its own user.
LEMMA LogoutDelEffect ==
  ASSUME LockInv, NEW m \in Machine, NEW s \in SlotsAt[m], LogoutDel(m, s)
  PROVE  /\ call[m][s].pc = "outDel" /\ call[m][s].user \in User
         /\ \A x \in Counter : holder[x] = call[m][s].user => holder'[x] = NoUser
         /\ \A x \in Counter : holder[x] # call[m][s].user => holder'[x] = holder[x]
<1>1. call[m][s].pc = "outDel" /\ call[m][s].user \in User /\ Knows(call[m][s])
  BY CallKnows DEF LogoutDel, Outside
<1> DEFINE c == call[m][s].counter
<1>2. Noted(call[m][s].user) /\ counterOf[call[m][s].user] = c /\ holder[c] = call[m][s].user
  BY <1>1 DEF Knows
<1>3. \A x \in Counter : holder'[x] = IF x = c THEN NoUser ELSE holder[x]
  BY DEF LogoutDel, LockInv, StaffRecords, KeysOK
<1> QED BY <1>1, <1>2, <1>3 DEF Noted

LEMMA LogoutDelLocks ==
  ASSUME LockInv, StaffRecords', NEW m \in Machine, NEW s \in SlotsAt[m], LogoutDel(m, s)
  PROVE  LockInv'
<1>1. PICK u \in User : u = call[m][s].user /\ call[m][s].pc = "outDel"
  BY LogoutDelEffect
<1>2. /\ \A x \in Counter : holder[x] = u => holder'[x] = NoUser
      /\ \A x \in Counter : holder[x] # u => holder'[x] = holder[x]
  BY <1>1, LogoutDelEffect
<1>3. NoUser \notin User
  BY StaffAssumption
<1>4. \A x \in Counter : holder'[x] # u
  BY <1>1, <1>2, <1>3
<1>5. \A v \in User \ {u} : KeysKept(v)
  BY <1>1, <1>2, <1>3 DEF LogoutDel, KeysKept
<1>6. /\ call'[m][s].pc = "outUser" /\ call'[m][s].user = u
      /\ \A n \in Machine : \A k \in SlotsAt[n] : n # m \/ k # s => call'[n][k] = call[n][k]
  BY <1>1, CallToIs DEF LogoutDel
<1>7. Knows(call[m][s])'
  BY <1>4, <1>6 DEF Knows
<1>8. call[m][s].pc \notin Outside /\ call'[m][s].pc \notin Outside
  BY <1>1, <1>6 DEF Outside
<1> QED BY <1>1, <1>5, <1>6, <1>7, <1>8, CallWorkLocks DEF LogoutDel

LEMMA LogoutUserLocks ==
  ASSUME LockInv, StaffRecords', NEW m \in Machine, NEW s \in SlotsAt[m], LogoutUser(m, s)
  PROVE  LockInv'
<1>1. PICK u \in User : u = call[m][s].user /\ call[m][s].pc = "outUser" /\ Knows(call[m][s])
  BY CallKnows DEF LogoutUser, Outside
<1>2. /\ UNCHANGED <<holder, auth>>
      /\ \A v \in User \ {u} : KeysKept(v)
  BY <1>1 DEF LogoutUser, KeysKept, LockInv, StaffRecords, KeysOK
<1>3. Noted(u)'
  BY <1>1, <1>2 DEF Knows, Noted
<1>4. /\ call'[m][s].pc = "done" /\ call'[m][s].user = u
      /\ \A n \in Machine : \A k \in SlotsAt[n] : n # m \/ k # s => call'[n][k] = call[n][k]
  BY <1>1, CallToIs DEF LogoutUser
<1>5. call[m][s].pc \notin Outside /\ call'[m][s].pc \in Outside
  BY <1>1, <1>4 DEF Outside
<1> QED BY <1>1, <1>2, <1>3, <1>4, <1>5, CallWorkLocks

LEMMA TryRefreshLocks ==
  ASSUME LockInv, StaffRecords', NEW m \in Machine, NEW s \in SlotsAt[m], TryRefresh(m, s)
  PROVE  LockInv'
<1>1. /\ call'[m][s].pc = "waiting" /\ call[m][s].pc = "401"
      /\ \A n \in Machine : \A k \in SlotsAt[n] : n # m \/ k # s => call'[n][k] = call[n][k]
  BY CallToIs DEF TryRefresh
<1>2. call[m][s].pc \in Outside /\ call'[m][s].pc \in Outside
  BY <1>1 DEF Outside
<1>3. CASE auth[m] # AuthIdle
  <2>1. \A n \in Machine : Quiet(auth[n], auth'[n])
    BY <1>3 DEF TryRefresh, Quiet
  <2> QED BY <1>1, <1>2, <2>1, CallQuiet DEF TryRefresh
<1>4. CASE auth[m] = AuthIdle
  <2>1. auth'[m].user = NoUser /\ \A n \in Machine \ {m} : auth'[n] = auth[n]
    BY <1>4 DEF TryRefresh, LockInv, StaffRecords, AuthsOK, AuthIdle
  <2>2. \A n \in Machine : Quiet(auth[n], auth'[n])
    BY <1>4, <2>1, IdleRecords, StaffAssumption DEF Quiet, Serves
  <2> QED BY <1>1, <1>2, <2>2, CallQuiet DEF TryRefresh
<1> QED BY <1>3, <1>4

-----------------------------------------------------------------------------
(* The locks: time, and the theorems *)

LEMMA ExpiryLocks ==
  ASSUME LockInv, StaffRecords',
         \/ \E m \in Machine : ExpireAccess(m)
         \/ \E c \in Counter : ExpireCounter(c)
         \/ \E u \in User : ExpireUser(u)
  PROVE  LockInv'
<1>1. ASSUME NEW m \in Machine, ExpireAccess(m)
      PROVE  LockInv'
  <2> DEFINE f == [s \in SlotsAt[m] |->
                    IF call[m][s].pc = "sent" THEN [call[m][s] EXCEPT !.old = TRUE] ELSE call[m][s]]
  <2>1. call'[m] = f /\ \A n \in Machine \ {m} : call'[n] = call[n]
    BY <1>1 DEF ExpireAccess, LockInv, StaffRecords, CallsOK
  <2>2. ASSUME NEW s \in SlotsAt[m]
        PROVE  Quiet(call[m][s], call'[m][s])
    <3>1. CASE call[m][s].pc = "sent"
      <4>1. call'[m][s] = [call[m][s] EXCEPT !.old = TRUE] /\ call[m][s] \in Call
        BY <2>1, <3>1 DEF LockInv, StaffRecords, CallsOK
      <4>2. call'[m][s].pc = "sent"
        BY <3>1, <4>1 DEF Call
      <4> QED BY <3>1, <4>2 DEF Quiet, Serves, Outside
    <3>2. CASE call[m][s].pc # "sent"
      BY <2>1, <3>2 DEF Quiet
    <3> QED BY <3>1, <3>2
  <2>3. \A n \in Machine : \A s \in SlotsAt[n] : Quiet(call[n][s], call'[n][s])
    BY <2>1, <2>2 DEF Quiet
  <2>4. \A n \in Machine : Quiet(auth[n], auth'[n])
    BY <1>1 DEF ExpireAccess, Quiet
  <2> QED BY <1>1, <2>3, <2>4, QuietStep DEF ExpireAccess
<1>2. ASSUME NEW c \in Counter, ExpireCounter(c)
      PROVE  LockInv'
  <2>1. PICK u \in User : u = holder[c] /\ ~ OnServer(u)
    BY <1>2 DEF ExpireCounter, LockInv, StaffRecords, KeysOK, SomeUser
  <2>2. \A x \in Counter : holder'[x] = IF x = c THEN NoUser ELSE holder[x]
    BY <1>2 DEF ExpireCounter, LockInv, StaffRecords, KeysOK
  <2>3. NoUser \notin User /\ Noted(u)
    BY <2>1, StaffAssumption DEF LockInv, LockIsNoted, Noted
  <2>4. \A v \in User \ {u} : KeysKept(v)
    BY <1>2, <2>1, <2>2, <2>3 DEF ExpireCounter, KeysKept
  <2>5. Noted(u)'
    BY <1>2, <2>1, <2>2, <2>3 DEF ExpireCounter, Noted
  <2> QED BY <1>2, <2>1, <2>4, <2>5, KeyStep DEF ExpireCounter
<1>3. ASSUME NEW u \in User, ExpireUser(u)
      PROVE  LockInv'
  <2>1. \A v \in User \ {u} : KeysKept(v)
    BY <1>3 DEF ExpireUser, KeysKept, LockInv, StaffRecords, KeysOK
  <2>2. Noted(u)'
    BY <1>3 DEF ExpireUser, Noted
  <2> QED BY <1>3, <2>1, <2>2, KeyStep DEF ExpireUser
<1> QED BY <1>1, <1>2, <1>3

LEMMA LockInit == StaffInit => LockInv
<1> SUFFICES ASSUME StaffInit PROVE LockInv
  OBVIOUS
<1>1. \A m \in Machine : \A s \in Works(m) : Work(m, s).pc = "idle"
  <2> SUFFICES ASSUME NEW m \in Machine, NEW s \in Works(m) PROVE Work(m, s).pc = "idle"
    OBVIOUS
  <2>1. CASE s = AuthSlot
    BY <2>1, WorkIs, IdleRecords DEF StaffInit
  <2>2. CASE s \in SlotsAt[m]
    BY <2>2, WorkIs, IdleRecords DEF StaffInit
  <2> QED BY <2>1, <2>2 DEF Works
<1>2. \A u \in User, m \in Machine : \A s \in Works(m) : ~ Serves(Work(m, s), u)
  BY <1>1 DEF Serves, Outside
<1>3. \A u \in User, c \in Counter : holder[c] # u
  BY StaffAssumption DEF StaffInit
<1>4. Serial /\ WorksKnow /\ LockIsNoted
  BY <1>2, <1>3 DEF Serial, WorksKnow, LockIsNoted
<1> QED BY <1>4, RecordsInit DEF LockInv

LEMMA LockNext == ~ Overlap /\ LockInv /\ [StaffNext]_staffVars => LockInv'
<1> SUFFICES ASSUME ~ Overlap, LockInv, [StaffNext]_staffVars PROVE LockInv'
  OBVIOUS
<1>1. StaffRecords'
  BY RecordsNext DEF LockInv
<1>2. CASE UNCHANGED staffVars
  <2>1. \A n \in Machine : Quiet(auth[n], auth'[n])
    BY <1>2 DEF staffVars, Quiet
  <2>2. \A n \in Machine : \A s \in SlotsAt[n] : Quiet(call[n][s], call'[n][s])
    BY <1>2 DEF staffVars, Quiet
  <2> QED BY <1>1, <1>2, <2>1, <2>2, QuietStep DEF staffVars
<1>3. ASSUME NEW m \in Machine, AuthStep(m)
      PROVE  LockInv'
  BY <1>1, <1>3, StartLocks, LookupLocks, RevokeLocks, ResolveLocks, DropReadLocks, DropDelLocks,
     ReadCounterLocks, TakeLocks, RetryReadLocks, NoteCounterLocks, IssueLocks, AnswerLocks DEF AuthStep
<1>4. ASSUME NEW m \in Machine, NEW s \in SlotsAt[m], CallStep(m, s)
      PROVE  LockInv'
  BY <1>1, <1>4, SendLocks, ValidateLocks, RenewReadLocks, RenewSetLocks, RenewNoteLocks, EndLocks,
     LogoutRevokeLocks, LogoutReadLocks, LogoutHolderLocks, LogoutDelLocks, LogoutUserLocks,
     TryRefreshLocks DEF CallStep
<1> QED BY <1>1, <1>2, <1>3, <1>4, ExpiryLocks DEF StaffNext

\* When the server works on one request of a user at a time, every lock is one that the
\* user's own key leads to, so that a logout or a login elsewhere finds and releases it.
THEOREM LocksAreNoted == ~ Overlap => (StaffSpec => []LockIsNoted)
<1> SUFFICES ASSUME ~ Overlap PROVE StaffSpec => []LockIsNoted
  OBVIOUS
<1>1. LockInv => LockIsNoted
  BY DEF LockInv
<1>2. LockInv /\ [StaffNext]_staffVars => LockInv'
  BY LockNext
<1> QED BY <1>1, <1>2, LockInit, PTL DEF StaffSpec

\* A step may take a counter from its holder only as LockKept says.
HolderKept ==
  \A c \in Counter : holder[c] # NoUser /\ holder'[c] # holder[c] =>
    /\ holder'[c] = NoUser
    /\ OnServer(holder[c]) \/ (auth' = auth /\ call' = call)

LEMMA HolderStep ==
  ASSUME LockInv, [StaffNext]_staffVars
  PROVE  HolderKept
<1> SUFFICES ASSUME NEW c \in Counter, holder[c] # NoUser, holder'[c] # holder[c]
             PROVE  holder'[c] = NoUser /\ (OnServer(holder[c]) \/ (auth' = auth /\ call' = call))
  BY DEF HolderKept
<1>1. ServerWorks
  BY OnServerWorks DEF LockInv
<1>2. ASSUME NEW m \in Machine, DropDel(m)
      PROVE  holder'[c] = NoUser /\ OnServer(holder[c])
  <2>1. auth[m].pc = "dropDel" /\ auth[m].user = holder[c] /\ holder[c] \in User /\ holder'[c] = NoUser
    BY <1>2, DropDelEffect
  <2> QED BY <2>1 DEF OnServer
<1>3. ASSUME NEW m \in Machine, NEW s \in SlotsAt[m], LogoutDel(m, s)
      PROVE  holder'[c] = NoUser /\ OnServer(holder[c])
  <2>1. call[m][s].pc = "outDel" /\ call[m][s].user = holder[c] /\ holder'[c] = NoUser
    BY <1>3, LogoutDelEffect
  <2> QED BY <2>1 DEF OnServer
<1>4. ASSUME NEW x \in Counter, ExpireCounter(x)
      PROVE  holder'[c] = NoUser /\ auth' = auth /\ call' = call
  BY <1>4 DEF ExpireCounter, LockInv, StaffRecords, KeysOK
<1>5. ASSUME NEW m \in Machine, AuthStep(m), ~ DropDel(m)
      PROVE  FALSE
  <2>1. CASE Extend(m) \/ SetNx(m)
    BY <2>1, TakeEffect
  <2>2. CASE ~ (Extend(m) \/ SetNx(m))
    BY <1>5, <2>2 DEF AuthStep, Bootstrap, CloseTab, Login, Lookup, Revoke, Resolve, DropRead, ReadCounter,
       RetryRead, NoteCounter, IssueTokenPair, Answered, Refused
  <2> QED BY <2>1, <2>2
<1>6. ASSUME NEW m \in Machine, NEW s \in SlotsAt[m], CallStep(m, s), ~ LogoutDel(m, s)
      PROVE  FALSE
  <2>1. CASE RenewSet(m, s)
    BY <2>1, RenewSetEffect
  <2>2. CASE ~ RenewSet(m, s)
    BY <1>6, <2>2 DEF CallStep, Send, Validate, RenewRead, RenewNote, Serve, LogoutRevoke, LogoutRead,
       LogoutHolder, LogoutUser, SignOut, TryRefresh, SecondFailure
  <2> QED BY <2>1, <2>2
<1>7. CASE UNCHANGED staffVars
  BY <1>7 DEF staffVars
<1> QED BY <1>2, <1>3, <1>4, <1>5, <1>6, <1>7 DEF StaffNext, ExpireAccess, ExpireUser

\* Then a counter changes hands only after it was free: no login and no renewal of a call
\* takes it from its holder, and only a request of the holder's own, or time, frees it.
THEOREM LocksAreKept == ~ Overlap => (StaffSpec => LockKept)
<1> SUFFICES ASSUME ~ Overlap PROVE StaffSpec => LockKept
  OBVIOUS
<1>1. LockInv /\ [StaffNext]_staffVars => [HolderKept]_staffVars
  BY HolderStep
<1>2. LockInv /\ [StaffNext]_staffVars => LockInv'
  BY LockNext
<1> QED BY <1>1, <1>2, LockInit, PTL DEF StaffSpec, LockKept, HolderKept

-----------------------------------------------------------------------------
(* Tokens: what a step at one machine means for the others *)

\* What AnswerIsNew and SignedInCanRefresh say of one machine.
AnswerNew(m) ==
  auth[m].pc = "answer" =>
    /\ token[auth[m].tok].live
    /\ cookie[m] # auth[m].tok
    /\ \A s \in SlotsAt[m] : call[m][s].tok # auth[m].tok

CanRefresh(m) ==
  /\ tab[m] # SignedOut /\ auth[m] = AuthIdle
  /\ \A s \in SlotsAt[m] : call[m][s].kind # "logout"
  => cookie[m] # NoToken /\ token[cookie[m]].live

LEMMA ByMachine ==
  /\ AnswerIsNew <=> \A m \in Machine : AnswerNew(m)
  /\ SignedInCanRefresh <=> \A m \in Machine : CanRefresh(m)
  BY DEF AnswerIsNew, SignedInCanRefresh, AnswerNew, CanRefresh

LEMMA ByMachineNext ==
  /\ (\A m \in Machine : AnswerNew(m)') => AnswerIsNew'
  /\ (\A m \in Machine : CanRefresh(m)') => SignedInCanRefresh'
  BY DEF AnswerIsNew, SignedInCanRefresh, AnswerNew, CanRefresh

Elsewhere(m) ==
  \A n \in Machine \ {m} :
    /\ cookie'[n] = cookie[n] /\ tab'[n] = tab[n] /\ auth'[n] = auth[n] /\ call'[n] = call[n]

\* A step at m names no token of another machine, and revokes none.
LEMMA MachineStep ==
  ASSUME RefreshInv, StaffRecords', NEW m \in Machine, Elsewhere(m),
         \A t \in Token : token[t] # NoRow => token'[t] # NoRow,
         \A t \in Token : token[t].live => token'[t].live \/ Names(m, t),
         \A t \in Token : Names(m, t)' => Names(m, t) \/ (token[t] = NoRow /\ token'[t] # NoRow),
         AnswerNew(m)', CanRefresh(m)'
  PROVE  RefreshInv'
<1>1. \A n \in Machine \ {m}, t \in Token : Names(n, t)' <=> Names(n, t)
  BY DEF Names, Elsewhere
<1>2. TokensApart'
  <2> SUFFICES ASSUME NEW n \in Machine, NEW t \in Token, Names(n, t)', NEW o \in Machine, Names(o, t)'
               PROVE  token'[t] # NoRow /\ o = n
    BY DEF TokensApart
  <2>1. n # m => token[t] # NoRow /\ Names(n, t)
    BY <1>1 DEF RefreshInv, TokensApart
  <2>2. o # m => token[t] # NoRow /\ Names(o, t)
    BY <1>1 DEF RefreshInv, TokensApart
  <2>3. Names(m, t) => token[t] # NoRow
    BY DEF RefreshInv, TokensApart
  <2>4. token'[t] # NoRow
    BY <2>1, <2>3
  <2>5. \A x \in Machine, y \in Machine : Names(x, t) /\ Names(y, t) => x = y
    BY DEF RefreshInv, TokensApart
  <2> QED BY <2>1, <2>2, <2>4, <2>5
<1>3. ASSUME NEW n \in Machine \ {m}
      PROVE  AnswerNew(n)' /\ CanRefresh(n)'
  <2>1. AnswerNew(n) /\ CanRefresh(n)
    BY ByMachine DEF RefreshInv
  <2>2. \A t \in Token : Names(n, t) /\ token[t].live => token'[t].live
    BY DEF RefreshInv, TokensApart
  <2>3. auth[n].pc = "answer" => auth[n].tok \in Token
    BY DEF RefreshInv, StaffRecords, AuthsOK, AuthOK
  <2>4. cookie[n] \in Token \union {NoToken}
    BY DEF RefreshInv, StaffRecords, CookiesOK
  <2>5. AnswerNew(n)'
    <3>1. auth[n].pc = "answer" => token'[auth[n].tok].live
      BY <2>1, <2>2, <2>3 DEF AnswerNew, Names
    <3> QED BY <2>1, <3>1 DEF AnswerNew, Elsewhere
  <2>6. CanRefresh(n)'
    <3>1. cookie[n] # NoToken /\ token[cookie[n]].live => token'[cookie[n]].live
      BY <2>2, <2>4 DEF Names
    <3> QED BY <2>1, <3>1 DEF CanRefresh, Elsewhere
  <2> QED BY <2>5, <2>6
<1>4. AnswerIsNew' /\ SignedInCanRefresh'
  BY <1>3, ByMachineNext
<1> QED BY <1>2, <1>4 DEF RefreshInv

LEMMA AuthSpot ==
  ASSUME StaffRecords, NEW m \in Machine, NEW a, auth' = [auth EXCEPT ![m] = a]
  PROVE  auth'[m] = a /\ \A n \in Machine \ {m} : auth'[n] = auth[n]
  BY DEF StaffRecords, AuthsOK

LEMMA AuthToSpot ==
  ASSUME StaffRecords, NEW m \in Machine, NEW pc, AuthTo(m, pc)
  PROVE  /\ auth'[m].pc = pc /\ auth'[m].tok = auth[m].tok
         /\ \A n \in Machine \ {m} : auth'[n] = auth[n]
  BY DEF AuthTo, StaffRecords, AuthsOK, Auth

LEMMA CallSpot ==
  ASSUME StaffRecords, NEW m \in Machine, NEW s \in SlotsAt[m], NEW c, call' = [call EXCEPT ![m][s] = c]
  PROVE  /\ call'[m][s] = c /\ \A k \in SlotsAt[m] \ {s} : call'[m][k] = call[m][k]
         /\ \A n \in Machine \ {m} : call'[n] = call[n]
<1>1. call[m] \in [SlotsAt[m] -> Call] /\ call = [n \in Machine |-> call[n]]
  BY DEF StaffRecords, CallsOK
<1>2. call'[m] = [call[m] EXCEPT ![s] = c] /\ \A n \in Machine \ {m} : call'[n] = call[n]
  BY <1>1
<1> QED BY <1>1, <1>2

LEMMA CallToSpot ==
  ASSUME StaffRecords, NEW m \in Machine, NEW s \in SlotsAt[m], NEW pc, CallTo(m, s, pc)
  PROVE  /\ call'[m][s].tok = call[m][s].tok /\ call'[m][s].kind = call[m][s].kind
         /\ \A k \in SlotsAt[m] \ {s} : call'[m][k] = call[m][k]
         /\ \A n \in Machine \ {m} : call'[n] = call[n]
<1>1. call[m][s] \in Call /\ call[m] \in [SlotsAt[m] -> Call] /\ call = [n \in Machine |-> call[n]]
  BY DEF StaffRecords, CallsOK
<1>2. call'[m] = [call[m] EXCEPT ![s].pc = pc] /\ \A n \in Machine \ {m} : call'[n] = call[n]
  BY <1>1 DEF CallTo
<1>3. call'[m][s] = [call[m][s] EXCEPT !.pc = pc] /\ \A k \in SlotsAt[m] \ {s} : call'[m][k] = call[m][k]
  BY <1>1, <1>2
<1> QED BY <1>1, <1>2, <1>3 DEF Call

-----------------------------------------------------------------------------
(* Tokens: the steps *)

\* A login or a refresh goes on, short of its answer.
LEMMA AuthRefresh ==
  ASSUME RefreshInv, StaffRecords', NEW m \in Machine, UNCHANGED <<token, cookie, tab, call>>,
         \A n \in Machine \ {m} : auth'[n] = auth[n], auth'[m].pc \notin {"idle", "answer"},
         auth'[m].tok \in {auth[m].tok, cookie[m], NoToken}
  PROVE  RefreshInv'
<1>1. Elsewhere(m)
  BY DEF Elsewhere
<1>2. AnswerNew(m)' /\ CanRefresh(m)'
  BY IdleRecords DEF AnswerNew, CanRefresh
<1>3. \A t \in Token : Names(m, t)' => Names(m, t)
  BY StaffAssumption DEF Names
<1> QED BY <1>1, <1>2, <1>3, MachineStep

\* A call goes on, ends or starts a refresh.
LEMMA CallRefresh ==
  ASSUME RefreshInv, StaffRecords', NEW m \in Machine, NEW s \in SlotsAt[m], UNCHANGED token,
         \A n \in Machine \ {m} : /\ cookie'[n] = cookie[n] /\ tab'[n] = tab[n]
                                 /\ auth'[n] = auth[n] /\ call'[n] = call[n],
         \A k \in SlotsAt[m] \ {s} : call'[m][k] = call[m][k],
         call'[m][s].tok \in {call[m][s].tok, cookie[m], NoToken},
         call[m][s].kind = "logout" => call'[m][s].kind = "logout" \/ tab'[m] = SignedOut,
         \/ auth'[m] = auth[m]
         \/ auth'[m].pc = "lookup" /\ auth'[m].tok = cookie[m],
         cookie'[m] = cookie[m] \/ (cookie'[m] = NoToken /\ tab'[m] = SignedOut),
         tab'[m] \in {tab[m], SignedOut}
  PROVE  RefreshInv'
<1>1. Elsewhere(m)
  BY DEF Elsewhere
<1>2. AnswerNew(m) /\ CanRefresh(m)
  BY ByMachine DEF RefreshInv
<1>3. auth[m].pc = "answer" => auth[m].tok \in Token
  BY DEF RefreshInv, StaffRecords, AuthsOK, AuthOK
<1>4. AnswerNew(m)'
  BY <1>2, <1>3, StaffAssumption DEF AnswerNew
<1>5. CanRefresh(m)'
  BY <1>2, IdleRecords DEF CanRefresh
<1>6. \A t \in Token : Names(m, t)' => Names(m, t)
  BY StaffAssumption DEF Names
<1> QED BY <1>1, <1>4, <1>5, <1>6, MachineStep

LEMMA StartRefresh ==
  ASSUME RefreshInv, StaffRecords', NEW m \in Machine,
         Bootstrap(m) \/ CloseTab(m) \/ \E u \in User : Login(m, u)
  PROVE  RefreshInv'
<1>1. CASE Bootstrap(m)
  <2>1. auth'[m].pc = "lookup" /\ auth'[m].tok = cookie[m] /\ \A n \in Machine \ {m} : auth'[n] = auth[n]
    BY <1>1 DEF Bootstrap, AuthIdle, RefreshInv, StaffRecords, AuthsOK
  <2> QED BY <1>1, <2>1, AuthRefresh DEF Bootstrap
<1>2. ASSUME NEW u \in User, Login(m, u)
      PROVE  RefreshInv'
  <2>1. auth'[m].pc = "resolve" /\ auth'[m].tok = NoToken /\ \A n \in Machine \ {m} : auth'[n] = auth[n]
    BY <1>2 DEF Login, AuthIdle, RefreshInv, StaffRecords, AuthsOK
  <2> QED BY <1>2, <2>1, AuthRefresh DEF Login
<1>3. CASE CloseTab(m)
  <2>1. tab'[m] = SignedOut /\ Elsewhere(m) /\ UNCHANGED <<token, cookie, auth, call>>
    BY <1>3 DEF CloseTab, Elsewhere, RefreshInv, StaffRecords, TabsOK
  <2>2. AnswerNew(m)' /\ CanRefresh(m)'
    BY <2>1, ByMachine DEF RefreshInv, AnswerNew, CanRefresh
  <2>3. \A t \in Token : Names(m, t)' => Names(m, t)
    BY <2>1 DEF Names
  <2> QED BY <2>1, <2>2, <2>3, MachineStep
<1> QED BY <1>1, <1>2, <1>3

LEMMA AcquireRefresh ==
  ASSUME RefreshInv, StaffRecords', NEW m \in Machine,
         \/ Lookup(m) \/ Resolve(m) \/ DropRead(m) \/ DropDel(m) \/ ReadCounter(m) \/ Extend(m) \/ SetNx(m)
         \/ RetryRead(m) \/ NoteCounter(m)
  PROVE  RefreshInv'
<1>1. UNCHANGED <<token, cookie, tab, call>>
  BY DEF Lookup, Resolve, DropRead, DropDel, ReadCounter, Extend, SetNx, RetryRead, NoteCounter
<1>2. /\ \A n \in Machine \ {m} : auth'[n] = auth[n]
      /\ auth'[m].pc \notin {"idle", "answer"} /\ auth'[m].tok = auth[m].tok
  <2>1. CASE \E pc \in AuthPc \ {"idle", "answer"} : AuthTo(m, pc)
    BY <2>1, AuthToSpot DEF RefreshInv
  <2>2. CASE Lookup(m) /\ ~ AuthTo(m, "refused")
    <3>1. auth' = [auth EXCEPT ![m] = [auth[m] EXCEPT !.pc = "revoke", !.user = token[auth[m].tok].user]]
      BY <2>2 DEF Lookup, RefreshInv, StaffRecords, AuthsOK, Auth
    <3> QED BY <3>1 DEF RefreshInv, StaffRecords, AuthsOK, Auth
  <2>3. CASE Resolve(m) /\ ~ (AuthTo(m, "refused") \/ AuthTo(m, "issue"))
    <3>1. PICK pc \in {"dropRead", "read"} :
            auth' = [auth EXCEPT ![m].counter = CounterAt[m], ![m].pc = pc]
      BY <2>3 DEF Resolve
    <3> QED BY <3>1 DEF RefreshInv, StaffRecords, AuthsOK, Auth
  <2> QED BY <2>1, <2>2, <2>3 DEF Lookup, Resolve, DropRead, DropDel, ReadCounter, Extend, SetNx, RetryRead,
            NoteCounter, AuthPc
<1> QED BY <1>1, <1>2, AuthRefresh

\* A revoked row is not free again.
LEMMA RevokedRow ==
  ASSUME StaffRecords, NEW t \in Token, token[t] # NoRow
  PROVE  [token[t] EXCEPT !.live = FALSE] # NoRow
<1>1. token[t] \in [user : SomeUser, live : BOOLEAN] /\ (token[t].live => token[t].user \in User)
  BY DEF StaffRecords, TokensOK
<1>2. token[t].user # NoUser
  BY <1>1, StaffAssumption DEF NoRow
<1> QED BY <1>1, <1>2 DEF NoRow

LEMMA RevokeRefresh ==
  ASSUME RefreshInv, StaffRecords', NEW m \in Machine, Revoke(m)
  PROVE  RefreshInv'
<1>1. /\ auth'[m].pc = "resolve" /\ auth'[m].tok = auth[m].tok
      /\ \A n \in Machine \ {m} : auth'[n] = auth[n]
  BY AuthToSpot DEF Revoke, RefreshInv
<1>2. Elsewhere(m)
  BY <1>1 DEF Elsewhere, Revoke
<1>3. \A t \in Token : token'[t] = IF t = auth[m].tok THEN [token[t] EXCEPT !.live = FALSE] ELSE token[t]
  BY DEF Revoke, RefreshInv, StaffRecords, TokensOK
<1>4. \A t \in Token : token[t] # NoRow => token'[t] # NoRow
  BY <1>3, RevokedRow DEF RefreshInv
<1>5. \A t \in Token : token[t].live => token'[t].live \/ Names(m, t)
  BY <1>3 DEF Names
<1>6. \A t \in Token : Names(m, t)' => Names(m, t)
  BY <1>1 DEF Names, Revoke
<1>7. AnswerNew(m)' /\ CanRefresh(m)'
  BY <1>1, IdleRecords DEF AnswerNew, CanRefresh
<1> QED BY <1>2, <1>4, <1>5, <1>6, <1>7, MachineStep

LEMMA IssueRefresh ==
  ASSUME RefreshInv, StaffRecords', NEW m \in Machine, IssueTokenPair(m)
  PROVE  RefreshInv'
<1>1. PICK t \in Token :
        /\ token[t] = NoRow
        /\ token' = [token EXCEPT ![t] = [user |-> auth[m].user, live |-> TRUE]]
        /\ auth' = [auth EXCEPT ![m].pc = "answer", ![m].tok = t]
  BY DEF IssueTokenPair
<1>2. auth'[m].pc = "answer" /\ auth'[m].tok = t /\ \A n \in Machine \ {m} : auth'[n] = auth[n]
  BY <1>1 DEF RefreshInv, StaffRecords, AuthsOK, Auth
<1>3. UNCHANGED <<cookie, tab, call>> /\ Elsewhere(m)
  BY <1>2 DEF IssueTokenPair, Elsewhere
<1>4. /\ token'[t] = [user |-> auth[m].user, live |-> TRUE]
      /\ \A k \in Token \ {t} : token'[k] = token[k]
  BY <1>1 DEF RefreshInv, StaffRecords, TokensOK
<1>5. token'[t] # NoRow /\ token'[t].live
  BY <1>4 DEF NoRow
<1>6. ~ Names(m, t)
  BY <1>1 DEF RefreshInv, TokensApart
<1>7. AnswerNew(m)'
  BY <1>2, <1>3, <1>5, <1>6 DEF AnswerNew, Names
<1>8. CanRefresh(m)'
  BY <1>2, IdleRecords DEF CanRefresh
<1>9. \A k \in Token : token[k].live => token'[k].live
  BY <1>4, <1>5
<1>10. \A k \in Token : Names(m, k)' => Names(m, k) \/ (token[k] = NoRow /\ token'[k] # NoRow)
  BY <1>1, <1>2, <1>3, <1>5 DEF Names
<1>11. \A k \in Token : token[k] # NoRow => token'[k] # NoRow
  BY <1>4, <1>5
<1> QED BY <1>3, <1>7, <1>8, <1>9, <1>10, <1>11, MachineStep

LEMMA AnswerRefresh ==
  ASSUME RefreshInv, StaffRecords', NEW m \in Machine, Answered(m) \/ Refused(m)
  PROVE  RefreshInv'
<1>1. auth'[m] = AuthIdle /\ \A n \in Machine \ {m} : auth'[n] = auth[n]
  BY AuthSpot DEF Answered, Refused, RefreshInv
<1>2. call'[m] = Resent(m) \/ call'[m] = GivenUp(m)
  BY DEF Answered, Refused, RefreshInv, StaffRecords, CallsOK
<1>3. Elsewhere(m) /\ UNCHANGED token
  BY <1>1 DEF Elsewhere, Answered, Refused, RefreshInv, StaffRecords, TabsOK, CookiesOK, CallsOK
<1>4. AnswerNew(m)'
  BY <1>1, IdleRecords DEF AnswerNew
<1>5. ASSUME NEW s \in SlotsAt[m]
      PROVE  call'[m][s].tok \in {call[m][s].tok, auth[m].tok, NoToken}
  <2>1. call[m][s] \in Call
    BY DEF RefreshInv, StaffRecords, CallsOK
  <2>2. CASE call'[m] = Resent(m)
    BY <2>1, <2>2 DEF Resent, Call
  <2>3. CASE call'[m] = GivenUp(m)
    BY <2>3, IdleRecords DEF GivenUp
  <2> QED BY <1>2, <2>2, <2>3
<1>6. cookie'[m] \in {cookie[m], auth[m].tok}
  BY DEF Answered, Refused, RefreshInv, StaffRecords, CookiesOK
<1>7. \A t \in Token : Names(m, t)' => Names(m, t)
  BY <1>1, <1>5, <1>6, IdleRecords, StaffAssumption DEF Names
<1>8. CanRefresh(m)'
  <2>1. CASE Answered(m)
    <3>1. AnswerNew(m) /\ auth[m].pc = "answer" /\ auth[m].tok \in Token
      BY <2>1, ByMachine DEF Answered, AuthAt, RefreshInv, StaffRecords, AuthsOK, AuthOK
    <3>2. cookie'[m] = auth[m].tok
      BY <2>1 DEF Answered, RefreshInv, StaffRecords, CookiesOK
    <3> QED BY <1>3, <3>1, <3>2, StaffAssumption DEF CanRefresh, AnswerNew
  <2>2. CASE Refused(m)
    <3>1. tab'[m] = SignedOut
      BY <2>2 DEF Refused, RefreshInv, StaffRecords, TabsOK
    <3> QED BY <3>1 DEF CanRefresh
  <2> QED BY <2>1, <2>2
<1> QED BY <1>3, <1>4, <1>7, <1>8, MachineStep

\* Calls on their way that leave the tokens alone.
LEMMA CallGoesRefresh ==
  ASSUME RefreshInv, StaffRecords', NEW m \in Machine, NEW s \in SlotsAt[m],
         \/ Validate(m, s) \/ RenewRead(m, s) \/ RenewSet(m, s) \/ RenewNote(m, s)
         \/ LogoutHolder(m, s) \/ LogoutDel(m, s) \/ LogoutUser(m, s)
  PROVE  RefreshInv'
<1>1. UNCHANGED <<token, cookie, tab, auth>>
  BY DEF Validate, RenewRead, RenewSet, RenewNote, LogoutHolder, LogoutDel, LogoutUser
<1>2. \E pc : CallTo(m, s, pc)
  BY DEF Validate, RenewRead, RenewSet, RenewNote, LogoutHolder, LogoutDel, LogoutUser
<1>3. /\ call'[m][s].tok = call[m][s].tok /\ call'[m][s].kind = call[m][s].kind
      /\ \A k \in SlotsAt[m] \ {s} : call'[m][k] = call[m][k]
      /\ \A n \in Machine \ {m} : call'[n] = call[n]
  BY <1>2, CallToSpot DEF RefreshInv
<1> QED BY <1>1, <1>3, CallRefresh

LEMMA SendRefresh ==
  ASSUME RefreshInv, StaffRecords', NEW m \in Machine, NEW s \in SlotsAt[m], NEW kind, Send(m, s, kind)
  PROVE  RefreshInv'
<1> DEFINE c == [pc |-> "sent", kind |-> kind, user |-> tab[m].user, counter |-> tab[m].counter,
                 tok |-> cookie[m], old |-> ~tab[m].fresh, again |-> FALSE]
<1>1. call' = [call EXCEPT ![m][s] = c]
  BY DEF Send
<1>2. c.tok = cookie[m]
  OBVIOUS
<1> HIDE DEF c
<1>3. /\ call'[m][s] = c /\ \A k \in SlotsAt[m] \ {s} : call'[m][k] = call[m][k]
      /\ \A n \in Machine \ {m} : call'[n] = call[n]
  BY <1>1, CallSpot DEF RefreshInv
<1>4. call[m][s].kind # "logout"
  BY IdleRecords DEF Send
<1> QED BY <1>2, <1>3, <1>4, CallRefresh DEF Send

LEMMA EndRefresh ==
  ASSUME RefreshInv, StaffRecords', NEW m \in Machine, NEW s \in SlotsAt[m],
         Serve(m, s) \/ SignOut(m, s) \/ SecondFailure(m, s)
  PROVE  RefreshInv'
<1>1. call' = [call EXCEPT ![m][s] = CallIdle] /\ UNCHANGED <<token, auth>>
  BY DEF Serve, SignOut, SecondFailure
<1>2. /\ call'[m][s] = CallIdle /\ \A k \in SlotsAt[m] \ {s} : call'[m][k] = call[m][k]
      /\ \A n \in Machine \ {m} : call'[n] = call[n]
  BY <1>1, CallSpot DEF RefreshInv
<1>3. call'[m][s].tok = NoToken
  BY <1>2, IdleRecords
<1>4. \A n \in Machine \ {m} : cookie'[n] = cookie[n] /\ tab'[n] = tab[n]
  BY DEF Serve, SignOut, SecondFailure, RefreshInv, StaffRecords, CookiesOK, TabsOK
<1>5. /\ call[m][s].kind = "logout" => tab'[m] = SignedOut
      /\ cookie'[m] = cookie[m] \/ (cookie'[m] = NoToken /\ tab'[m] = SignedOut)
      /\ tab'[m] \in {tab[m], SignedOut}
  BY DEF Serve, SignOut, SecondFailure, RefreshInv, StaffRecords, CookiesOK, TabsOK
<1> QED BY <1>1, <1>2, <1>3, <1>4, <1>5, CallRefresh

LEMMA LogoutReadRefresh ==
  ASSUME RefreshInv, StaffRecords', NEW m \in Machine, NEW s \in SlotsAt[m], LogoutRead(m, s)
  PROVE  RefreshInv'
<1>1. call[m][s] \in Call /\ call[m] \in [SlotsAt[m] -> Call] /\ call = [n \in Machine |-> call[n]]
  BY DEF RefreshInv, StaffRecords, CallsOK
<1>2. PICK pc, c : call' = [call EXCEPT ![m][s].pc = pc, ![m][s].counter = c]
  BY DEF LogoutRead
<1>3. /\ call'[m][s] = [call[m][s] EXCEPT !.pc = pc, !.counter = c]
      /\ \A k \in SlotsAt[m] \ {s} : call'[m][k] = call[m][k]
      /\ \A n \in Machine \ {m} : call'[n] = call[n]
  BY <1>1, <1>2
<1>4. call'[m][s].tok = call[m][s].tok /\ call'[m][s].kind = call[m][s].kind
  BY <1>1, <1>3 DEF Call
<1> QED BY <1>3, <1>4, CallRefresh DEF LogoutRead

\* A logout revokes a token of its own machine; the tab signs out with its answer.
LEMMA LogoutRevokeRefresh ==
  ASSUME RefreshInv, StaffRecords', NEW m \in Machine, NEW s \in SlotsAt[m], LogoutRevoke(m, s)
  PROVE  RefreshInv'
<1> DEFINE r == call[m][s].tok
<1>1. /\ call'[m][s].tok = r /\ call'[m][s].kind = call[m][s].kind
      /\ \A k \in SlotsAt[m] \ {s} : call'[m][k] = call[m][k]
      /\ \A n \in Machine \ {m} : call'[n] = call[n]
  BY CallToSpot DEF LogoutRevoke, RefreshInv
<1>2. UNCHANGED <<cookie, tab, auth>> /\ Elsewhere(m)
  BY <1>1 DEF LogoutRevoke, Elsewhere
<1>3. \A t \in Token : token'[t] = IF t = r THEN [token[t] EXCEPT !.live = FALSE] ELSE token[t]
  BY StaffAssumption DEF LogoutRevoke, RefreshInv, StaffRecords, TokensOK
<1>4. \A t \in Token : token[t] # NoRow => token'[t] # NoRow
  BY <1>3, RevokedRow DEF RefreshInv
<1>5. \A t \in Token : token[t].live => token'[t].live \/ Names(m, t)
  BY <1>3 DEF Names
<1>6. \A t \in Token : Names(m, t)' => Names(m, t)
  BY <1>1, <1>2 DEF Names
<1>7. call'[m][s].kind = "logout"
  BY <1>1, LogoutKind DEF LogoutRevoke, RefreshInv
<1>8. CanRefresh(m)'
  BY <1>7 DEF CanRefresh
<1>9. AnswerNew(m)'
  <2>1. AnswerNew(m) /\ (auth[m].pc = "answer" => auth[m].tok \in Token)
    BY ByMachine DEF RefreshInv, StaffRecords, AuthsOK, AuthOK
  <2> QED BY <1>1, <1>2, <1>3, <2>1 DEF AnswerNew
<1> QED BY <1>2, <1>4, <1>5, <1>6, <1>8, <1>9, MachineStep

LEMMA TryRefreshRefresh ==
  ASSUME RefreshInv, StaffRecords', NEW m \in Machine, NEW s \in SlotsAt[m], TryRefresh(m, s)
  PROVE  RefreshInv'
<1>1. /\ call'[m][s].tok = call[m][s].tok /\ call'[m][s].kind = call[m][s].kind
      /\ \A k \in SlotsAt[m] \ {s} : call'[m][k] = call[m][k]
      /\ \A n \in Machine \ {m} : call'[n] = call[n]
  BY CallToSpot DEF TryRefresh, RefreshInv
<1>2. /\ \A n \in Machine \ {m} : auth'[n] = auth[n]
      /\ auth'[m] = auth[m] \/ (auth'[m].pc = "lookup" /\ auth'[m].tok = cookie[m])
  BY DEF TryRefresh, AuthIdle, RefreshInv, StaffRecords, AuthsOK
<1> QED BY <1>1, <1>2, CallRefresh DEF TryRefresh

LEMMA ExpiryRefresh ==
  ASSUME RefreshInv, StaffRecords', NEW m \in Machine, ExpireAccess(m)
  PROVE  RefreshInv'
<1>1. UNCHANGED <<token, cookie, auth>> /\ Elsewhere(m)
  BY DEF ExpireAccess, Elsewhere, RefreshInv, StaffRecords, TabsOK, CallsOK
<1>2. tab[m] # SignedOut
  BY DEF ExpireAccess, SignedOut
<1>3. ASSUME NEW s \in SlotsAt[m]
      PROVE  call'[m][s].tok = call[m][s].tok /\ call'[m][s].kind = call[m][s].kind
  <2>1. call[m][s] \in Call
    BY DEF RefreshInv, StaffRecords, CallsOK
  <2>2. call'[m][s] = IF call[m][s].pc = "sent" THEN [call[m][s] EXCEPT !.old = TRUE] ELSE call[m][s]
    BY DEF ExpireAccess, RefreshInv, StaffRecords, CallsOK
  <2> QED BY <2>1, <2>2 DEF Call
<1>4. AnswerNew(m)' /\ CanRefresh(m)'
  BY <1>1, <1>2, <1>3, ByMachine DEF RefreshInv, AnswerNew, CanRefresh
<1>5. \A t \in Token : Names(m, t)' => Names(m, t)
  BY <1>1, <1>3 DEF Names
<1> QED BY <1>1, <1>4, <1>5, MachineStep

LEMMA RefreshInit == StaffInit => RefreshInv
<1> SUFFICES ASSUME StaffInit PROVE RefreshInv
  OBVIOUS
<1>1. \A m \in Machine, t \in Token : ~ Names(m, t)
  BY IdleRecords, StaffAssumption DEF StaffInit, Names
<1>2. \A m \in Machine : auth[m].pc = "idle" /\ tab[m] = SignedOut
  BY IdleRecords DEF StaffInit
<1> QED BY <1>1, <1>2, RecordsInit DEF RefreshInv, TokensApart, AnswerIsNew, SignedInCanRefresh

LEMMA RefreshNext == RefreshInv /\ [StaffNext]_staffVars => RefreshInv'
<1> SUFFICES ASSUME RefreshInv, [StaffNext]_staffVars PROVE RefreshInv'
  OBVIOUS
<1>1. StaffRecords'
  BY RecordsNext DEF RefreshInv
<1>2. CASE UNCHANGED <<token, cookie, tab, auth, call>>
  <2>1. TokensApart'
    BY <1>2 DEF RefreshInv, TokensApart, Names
  <2>2. AnswerIsNew' /\ SignedInCanRefresh'
    BY <1>2 DEF RefreshInv, AnswerIsNew, SignedInCanRefresh
  <2> QED BY <1>1, <2>1, <2>2 DEF RefreshInv
<1>3. ASSUME NEW m \in Machine, AuthStep(m)
      PROVE  RefreshInv'
  BY <1>1, <1>3, StartRefresh, AcquireRefresh, RevokeRefresh, IssueRefresh, AnswerRefresh DEF AuthStep
<1>4. ASSUME NEW m \in Machine, NEW s \in SlotsAt[m], CallStep(m, s)
      PROVE  RefreshInv'
  BY <1>1, <1>4, CallGoesRefresh, SendRefresh, EndRefresh, LogoutReadRefresh, LogoutRevokeRefresh,
     TryRefreshRefresh DEF CallStep
<1>5. CASE \/ \E c \in Counter : ExpireCounter(c)
           \/ \E u \in User : ExpireUser(u)
           \/ UNCHANGED staffVars
  BY <1>2, <1>5 DEF ExpireCounter, ExpireUser, staffVars
<1> QED BY <1>1, <1>3, <1>4, <1>5, ExpiryRefresh DEF StaffNext

\* A tab that is signed in and at rest has a cookie with a valid token, however many of its
\* calls found the access token expired at once, whatever the user does at other machines
\* and however the server's requests overlap.
THEOREM SignedInTabsCanRefresh == StaffSpec => []SignedInCanRefresh
<1>1. RefreshInv => SignedInCanRefresh
  BY DEF RefreshInv
<1> QED BY <1>1, RefreshInit, RefreshNext, PTL DEF StaffSpec
=============================================================================
