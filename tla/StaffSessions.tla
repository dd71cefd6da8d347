--------------------------- MODULE StaffSessions ---------------------------
(***************************************************************************)
(* AuthService, CounterSessionService and JwtStrategy with their client in *)
(* the browser (baseApi, AuthBootstrap, authSlice): staff sign in at a     *)
(* machine whose address gives them a counter, the counter is locked for   *)
(* them in Redis under a time to live, and refresh tokens are rotated.     *)
(* One step is one Redis or database command; any other request can come   *)
(* between two of them.  Passwords, throttling, CSRF tokens and the audit  *)
(* rows are left out.  The only bound is the set of tokens.                *)
(***************************************************************************)
EXTENDS Naturals, FiniteSets

CONSTANTS
  User,
  Admin,              \* \subseteq User: super_admin and admin, who lock no counter
  Counter, Machine,
  CounterAt,          \* [Machine -> Counter \union {NoCounter}], resolved from the address
  Token,              \* 1..n: refresh_token rows
  Slot,               \* names of the calls a tab can have in flight
  SlotsAt,            \* [Machine -> SUBSET Slot]
  Overlap,            \* the server may work on several requests of one user at once
  NoUser, NoCounter, NoToken

ASSUME StaffAssumption ==
  /\ Admin \subseteq User /\ NoUser \notin User
  /\ CounterAt \in [Machine -> Counter \union {NoCounter}] /\ NoCounter \notin Counter
  /\ Token \subseteq Nat \ {0} /\ NoToken \notin Token
  /\ SlotsAt \in [Machine -> SUBSET Slot]
  /\ Overlap \in BOOLEAN

VARIABLES
  holder,     \* counter:active:<counter>: who holds the counter
  counterOf,  \* the key of a user that names the counter
  token,      \* the refresh_token rows: their user and revokedAt
  cookie,     \* the refresh cookie of a browser
  tab,        \* authSlice of the tab open on a machine
  auth,       \* its login or refresh under way; refreshPromise allows one
  call        \* its other calls

staffVars == <<holder, counterOf, token, cookie, tab, auth, call>>

SomeUser == User \union {NoUser}
SomeCounter == Counter \union {NoCounter}
Tab == [user : SomeUser, counter : SomeCounter, fresh : BOOLEAN]
AuthPc == {"idle", "lookup", "revoke", "resolve", "dropRead", "dropDel", "read", "extend",
           "setnx", "retry", "note", "issue", "answer", "refused"}
Auth == [pc : AuthPc, user : SomeUser, counter : SomeCounter, tok : Token \union {NoToken}]
CallPc == {"idle", "sent", "renewRead", "renewSet", "renewNote", "serve", "revoke", "out",
           "outRead", "outDel", "outUser", "done", "401", "403", "waiting"}
Call == [pc : CallPc, kind : {"api", "logout"}, user : SomeUser, counter : SomeCounter,
         tok : Token \union {NoToken}, old : BOOLEAN, again : BOOLEAN]

NoRow == [user |-> NoUser, live |-> FALSE]
SignedOut == [user |-> NoUser, counter |-> NoCounter, fresh |-> FALSE]
AuthIdle == [pc |-> "idle", user |-> NoUser, counter |-> NoCounter, tok |-> NoToken]
CallIdle == [pc |-> "idle", kind |-> "api", user |-> NoUser, counter |-> NoCounter,
             tok |-> NoToken, old |-> FALSE, again |-> FALSE]

StaffInit ==
  /\ holder = [c \in Counter |-> NoUser]
  /\ counterOf = [u \in User |-> NoCounter]
  /\ token = [t \in Token |-> NoRow]
  /\ cookie = [m \in Machine |-> NoToken]
  /\ tab = [m \in Machine |-> SignedOut]
  /\ auth = [m \in Machine |-> AuthIdle]
  /\ call = [m \in Machine |-> [s \in SlotsAt[m] |-> CallIdle]]

-----------------------------------------------------------------------------
\* The server is between two commands of a request of u.
OnServer(u) ==
  \/ \E m \in Machine : auth[m].user = u /\ auth[m].pc \notin {"idle", "answer", "refused"}
  \/ \E m \in Machine : \E s \in SlotsAt[m] :
       call[m][s].user = u /\ call[m][s].pc \notin {"idle", "sent", "done", "401", "403", "waiting"}

MayWorkFor(u) == Overlap \/ ~OnServer(u)

\* mustUseIpCounterSession()
LocksCounter(u) == u \notin Admin

AuthAt(m, pc) == auth[m].pc = pc
AuthTo(m, pc) == auth' = [auth EXCEPT ![m].pc = pc]
CallTo(m, s, pc) == call' = [call EXCEPT ![m][s].pc = pc]
AtRest(m) == auth[m] = AuthIdle /\ \A s \in SlotsAt[m] : call[m][s] = CallIdle

-----------------------------------------------------------------------------
(* The tab signs in.                                                       *)
Login(m, u) ==
  /\ AtRest(m) /\ tab[m] = SignedOut /\ MayWorkFor(u)
  /\ auth' = [auth EXCEPT ![m] = [AuthIdle EXCEPT !.pc = "resolve", !.user = u]]
  /\ UNCHANGED <<holder, counterOf, token, cookie, tab, call>>

\* AuthBootstrap: a reloaded tab has only the cookie left.
Bootstrap(m) ==
  /\ AtRest(m) /\ tab[m] = SignedOut /\ cookie[m] # NoToken
  /\ auth' = [auth EXCEPT ![m] = [AuthIdle EXCEPT !.pc = "lookup", !.tok = cookie[m]]]
  /\ UNCHANGED <<holder, counterOf, token, cookie, tab, call>>

CloseTab(m) ==
  /\ AtRest(m) /\ tab[m] # SignedOut
  /\ tab' = [tab EXCEPT ![m] = SignedOut]
  /\ UNCHANGED <<holder, counterOf, token, cookie, auth, call>>

-----------------------------------------------------------------------------
(* AuthService.refresh(): find the token, revoke it, then find a counter.  *)
Lookup(m) ==
  LET t == auth[m].tok
      live == t # NoToken /\ token[t].live
  IN /\ AuthAt(m, "lookup")
     /\ IF live
        THEN /\ MayWorkFor(token[t].user)
             /\ auth' = [auth EXCEPT ![m].pc = "revoke", ![m].user = token[t].user]
        ELSE AuthTo(m, "refused")
     /\ UNCHANGED <<holder, counterOf, token, cookie, tab, call>>

Revoke(m) ==
  /\ AuthAt(m, "revoke")
  /\ token' = [token EXCEPT ![auth[m].tok].live = FALSE]
  /\ AuthTo(m, "resolve")
  /\ UNCHANGED <<holder, counterOf, cookie, tab, call>>

\* resolveSessionCounter(), and the first command of acquire(): the user's last counter.
Resolve(m) ==
  LET c == CounterAt[m]
      last == counterOf[auth[m].user]
  IN /\ AuthAt(m, "resolve")
     /\ CASE ~LocksCounter(auth[m].user) -> AuthTo(m, "issue")
          [] LocksCounter(auth[m].user) /\ c = NoCounter -> AuthTo(m, "refused")
          [] OTHER -> auth' = [auth EXCEPT ![m].counter = c,
                                           ![m].pc = IF last \notin {c, NoCounter} THEN "dropRead" ELSE "read"]
     /\ UNCHANGED <<holder, counterOf, token, cookie, tab, call>>

\* releaseCounter() of the last counter.
DropRead(m) ==
  LET last == counterOf[auth[m].user]
  IN /\ AuthAt(m, "dropRead")
     /\ AuthTo(m, IF last # NoCounter /\ holder[last] = auth[m].user THEN "dropDel" ELSE "read")
     /\ UNCHANGED <<holder, counterOf, token, cookie, tab, call>>

DropDel(m) ==
  /\ AuthAt(m, "dropDel")
  /\ holder' = [c \in Counter |-> IF c = counterOf[auth[m].user] THEN NoUser ELSE holder[c]]
  /\ AuthTo(m, "read")
  /\ UNCHANGED <<counterOf, token, cookie, tab, call>>

\* GET of the counter: locked by another, one's own, or free.
ReadCounter(m) ==
  LET h == holder[auth[m].counter]
  IN /\ AuthAt(m, "read")
     /\ AuthTo(m, IF h = NoUser THEN "setnx" ELSE IF h = auth[m].user THEN "extend" ELSE "refused")
     /\ UNCHANGED <<holder, counterOf, token, cookie, tab, call>>

\* SETEX with the value that was read.
Extend(m) ==
  /\ AuthAt(m, "extend")
  /\ holder' = [holder EXCEPT ![auth[m].counter] = auth[m].user]
  /\ AuthTo(m, "note")
  /\ UNCHANGED <<counterOf, token, cookie, tab, call>>

\* (Faulty variant: SET without NX.)
SetAlways(m) ==
  /\ AuthAt(m, "setnx")
  /\ holder' = [holder EXCEPT ![auth[m].counter] = auth[m].user]
  /\ AuthTo(m, "note")
  /\ UNCHANGED <<counterOf, token, cookie, tab, call>>

SetNx(m) ==
  /\ AuthAt(m, "setnx")
  /\ IF holder[auth[m].counter] = NoUser
     THEN holder' = [holder EXCEPT ![auth[m].counter] = auth[m].user] /\ AuthTo(m, "note")
     ELSE AuthTo(m, "retry") /\ UNCHANGED holder
  /\ UNCHANGED <<counterOf, token, cookie, tab, call>>

\* The GET after a SET NX that did nothing; a key that is gone again passes for one's own.
RetryRead(m) ==
  /\ AuthAt(m, "retry")
  /\ AuthTo(m, IF holder[auth[m].counter] \in {NoUser, auth[m].user} THEN "note" ELSE "refused")
  /\ UNCHANGED <<holder, counterOf, token, cookie, tab, call>>

\* (Faulty variant: the key of the user is written only when the counter is new.)
NoteNever(m) ==
  /\ AuthAt(m, "note")
  /\ AuthTo(m, "issue")
  /\ UNCHANGED <<holder, counterOf, token, cookie, tab, call>>

NoteCounter(m) ==
  /\ AuthAt(m, "note")
  /\ counterOf' = [counterOf EXCEPT ![auth[m].user] = auth[m].counter]
  /\ AuthTo(m, "issue")
  /\ UNCHANGED <<holder, token, cookie, tab, call>>

\* issueTokenPair()
IssueTokenPair(m) ==
  /\ AuthAt(m, "issue")
  /\ \E t \in Token :
       /\ token[t] = NoRow /\ \A k \in Token : token[k] = NoRow => t <= k
       /\ token' = [token EXCEPT ![t] = [user |-> auth[m].user, live |-> TRUE]]
       /\ auth' = [auth EXCEPT ![m].pc = "answer", ![m].tok = t]
  /\ UNCHANGED <<holder, counterOf, cookie, tab, call>>

-----------------------------------------------------------------------------
(* The answer to a login or a refresh reaches the tab.  Calls that waited  *)
(* for a refresh are sent again, once, or end together with the session.   *)
Resent(m) == [s \in SlotsAt[m] |->
  IF call[m][s].pc = "waiting"
  THEN [call[m][s] EXCEPT !.pc = "sent", !.old = FALSE, !.again = TRUE, !.tok = auth[m].tok,
                          !.user = auth[m].user, !.counter = auth[m].counter]
  ELSE call[m][s]]

GivenUp(m) == [s \in SlotsAt[m] |-> IF call[m][s].pc = "waiting" THEN CallIdle ELSE call[m][s]]

Answered(m) ==
  /\ AuthAt(m, "answer")
  /\ cookie' = [cookie EXCEPT ![m] = auth[m].tok]
  /\ tab' = [tab EXCEPT ![m] = [user |-> auth[m].user, counter |-> auth[m].counter, fresh |-> TRUE]]
  /\ call' = [call EXCEPT ![m] = Resent(m)]
  /\ auth' = [auth EXCEPT ![m] = AuthIdle]
  /\ UNCHANGED <<holder, counterOf, token>>

\* Refused with 401 or 403, or the answer is lost: the tab forgets the session.
Refused(m) ==
  /\ auth[m].pc \in {"refused", "answer"}
  /\ tab' = [tab EXCEPT ![m] = SignedOut]
  /\ call' = [call EXCEPT ![m] = GivenUp(m)]
  /\ auth' = [auth EXCEPT ![m] = AuthIdle]
  /\ UNCHANGED <<holder, counterOf, token, cookie>>

-----------------------------------------------------------------------------
(* An authenticated call: sent by the tab, checked by JwtStrategy, handled.*)
Send(m, s, kind) ==
  /\ tab[m] # SignedOut /\ call[m][s] = CallIdle
  /\ kind = "logout" => \A k \in SlotsAt[m] : call[m][k].kind # "logout"
  /\ call' = [call EXCEPT ![m][s] =
       [pc |-> "sent", kind |-> kind, user |-> tab[m].user, counter |-> tab[m].counter,
        tok |-> cookie[m], old |-> ~tab[m].fresh, again |-> FALSE]]
  /\ UNCHANGED <<holder, counterOf, token, cookie, tab, auth>>

Handler(m, s) == IF call[m][s].kind = "logout" THEN "revoke" ELSE "serve"

\* assertHolder()
Validate(m, s) ==
  LET u == call[m][s].user
  IN /\ call[m][s].pc = "sent"
     /\ CASE call[m][s].old -> CallTo(m, s, "401")
          [] ~call[m][s].old /\ ~LocksCounter(u) -> MayWorkFor(u) /\ CallTo(m, s, Handler(m, s))
          [] OTHER -> /\ MayWorkFor(u)
                      /\ CallTo(m, s, IF holder[call[m][s].counter] = u THEN "renewRead" ELSE "403")
     /\ UNCHANGED <<holder, counterOf, token, cookie, tab, auth>>

\* CounterSessionService.refresh(): GET, then SETEX of what was read.
RenewRead(m, s) ==
  /\ call[m][s].pc = "renewRead"
  /\ CallTo(m, s, IF holder[call[m][s].counter] = call[m][s].user THEN "renewSet" ELSE Handler(m, s))
  /\ UNCHANGED <<holder, counterOf, token, cookie, tab, auth>>

RenewSet(m, s) ==
  /\ call[m][s].pc = "renewSet"
  /\ holder' = [holder EXCEPT ![call[m][s].counter] = call[m][s].user]
  /\ CallTo(m, s, "renewNote")
  /\ UNCHANGED <<counterOf, token, cookie, tab, auth>>

RenewNote(m, s) ==
  /\ call[m][s].pc = "renewNote"
  /\ counterOf' = [counterOf EXCEPT ![call[m][s].user] = call[m][s].counter]
  /\ CallTo(m, s, Handler(m, s))
  /\ UNCHANGED <<holder, token, cookie, tab, auth>>

\* Any other handler; its answer needs no session.
Serve(m, s) ==
  /\ call[m][s].pc \in {"serve", "403"} /\ call[m][s].kind = "api"
  /\ call' = [call EXCEPT ![m][s] = CallIdle]
  /\ UNCHANGED <<holder, counterOf, token, cookie, tab, auth>>

-----------------------------------------------------------------------------
(* AuthService.logout() and releaseForUser().                              *)

\* (Faulty variant: every session of the user is ended, other machines' too.)
LogoutRevokeAll(m, s) ==
  /\ call[m][s].pc = "revoke"
  /\ token' = [t \in Token |-> IF token[t].user = call[m][s].user THEN [token[t] EXCEPT !.live = FALSE] ELSE token[t]]
  /\ CallTo(m, s, "out")
  /\ UNCHANGED <<holder, counterOf, cookie, tab, auth>>

LogoutRevoke(m, s) ==
  LET t == call[m][s].tok
  IN /\ call[m][s].pc = "revoke"
     /\ token' = IF t = NoToken THEN token ELSE [token EXCEPT ![t].live = FALSE]
     /\ CallTo(m, s, "out")
     /\ UNCHANGED <<holder, counterOf, cookie, tab, auth>>

LogoutRead(m, s) ==
  LET c == counterOf[call[m][s].user]
  IN /\ call[m][s].pc = "out"
     /\ call' = [call EXCEPT ![m][s].pc = IF c = NoCounter THEN "outUser" ELSE "outRead",
                             ![m][s].counter = c]
     /\ UNCHANGED <<holder, counterOf, token, cookie, tab, auth>>

LogoutHolder(m, s) ==
  /\ call[m][s].pc = "outRead"
  /\ CallTo(m, s, IF holder[call[m][s].counter] = call[m][s].user THEN "outDel" ELSE "outUser")
  /\ UNCHANGED <<holder, counterOf, token, cookie, tab, auth>>

LogoutDel(m, s) ==
  /\ call[m][s].pc = "outDel"
  /\ holder' = [holder EXCEPT ![call[m][s].counter] = NoUser]
  /\ CallTo(m, s, "outUser")
  /\ UNCHANGED <<counterOf, token, cookie, tab, auth>>

LogoutUser(m, s) ==
  /\ call[m][s].pc = "outUser"
  /\ counterOf' = [counterOf EXCEPT ![call[m][s].user] = NoCounter]
  /\ CallTo(m, s, "done")
  /\ UNCHANGED <<holder, token, cookie, tab, auth>>

\* The tab signs out whatever the answer is; only a good one clears the cookie.
SignOut(m, s) ==
  /\ call[m][s].pc \in {"done", "403"} /\ call[m][s].kind = "logout"
  /\ cookie' = IF call[m][s].pc = "done" THEN [cookie EXCEPT ![m] = NoToken] ELSE cookie
  /\ tab' = [tab EXCEPT ![m] = SignedOut]
  /\ call' = [call EXCEPT ![m][s] = CallIdle]
  /\ UNCHANGED <<holder, counterOf, token, auth>>

-----------------------------------------------------------------------------
(* A 401 reaches the tab: tryRefresh(), shared by all calls of the tab.    *)

TryRefresh(m, s) ==
  /\ call[m][s].pc = "401" /\ ~call[m][s].again
  /\ auth' = IF auth[m] # AuthIdle THEN auth
             ELSE [auth EXCEPT ![m] = [AuthIdle EXCEPT !.pc = "lookup", !.tok = cookie[m]]]
  /\ CallTo(m, s, "waiting")
  /\ UNCHANGED <<holder, counterOf, token, cookie, tab>>

\* The second answer is final.
SecondFailure(m, s) ==
  /\ call[m][s].pc = "401" /\ call[m][s].again
  /\ tab' = IF call[m][s].kind = "logout" THEN [tab EXCEPT ![m] = SignedOut] ELSE tab
  /\ call' = [call EXCEPT ![m][s] = CallIdle]
  /\ UNCHANGED <<holder, counterOf, token, cookie, auth>>

-----------------------------------------------------------------------------
(* Time.  A handler is far shorter than any of these lifetimes.            *)
ExpireAccess(m) ==
  /\ tab[m].fresh
  /\ tab' = [tab EXCEPT ![m].fresh = FALSE]
  /\ call' = [call EXCEPT ![m] = [s \in SlotsAt[m] |->
       IF call[m][s].pc = "sent" THEN [call[m][s] EXCEPT !.old = TRUE] ELSE call[m][s]]]
  /\ UNCHANGED <<holder, counterOf, token, cookie, auth>>

ExpireCounter(c) ==
  /\ holder[c] # NoUser /\ ~OnServer(holder[c])
  /\ holder' = [holder EXCEPT ![c] = NoUser]
  /\ UNCHANGED <<counterOf, token, cookie, tab, auth, call>>

\* The key of the user is always written after that of the counter.
ExpireUser(u) ==
  /\ counterOf[u] # NoCounter /\ ~OnServer(u) /\ \A c \in Counter : holder[c] # u
  /\ counterOf' = [counterOf EXCEPT ![u] = NoCounter]
  /\ UNCHANGED <<holder, token, cookie, tab, auth, call>>

-----------------------------------------------------------------------------
AuthStep(m) ==
  \/ Bootstrap(m) \/ CloseTab(m) \/ \E u \in User : Login(m, u)
  \/ Lookup(m) \/ Revoke(m) \/ Resolve(m) \/ DropRead(m) \/ DropDel(m) \/ ReadCounter(m)
  \/ Extend(m) \/ SetNx(m) \/ RetryRead(m) \/ NoteCounter(m) \/ IssueTokenPair(m)
  \/ Answered(m) \/ Refused(m)

CallStep(m, s) ==
  \/ \E kind \in {"api", "logout"} : Send(m, s, kind)
  \/ Validate(m, s) \/ RenewRead(m, s) \/ RenewSet(m, s) \/ RenewNote(m, s) \/ Serve(m, s)
  \/ LogoutRevoke(m, s) \/ LogoutRead(m, s) \/ LogoutHolder(m, s) \/ LogoutDel(m, s)
  \/ LogoutUser(m, s) \/ SignOut(m, s) \/ TryRefresh(m, s) \/ SecondFailure(m, s)

StaffNext ==
  \/ \E m \in Machine : AuthStep(m) \/ ExpireAccess(m) \/ \E s \in SlotsAt[m] : CallStep(m, s)
  \/ \E c \in Counter : ExpireCounter(c)
  \/ \E u \in User : ExpireUser(u)

StaffSpec == StaffInit /\ [][StaffNext]_staffVars

-----------------------------------------------------------------------------
\* Every lock is one the user's own key leads to, so that a logout or a login elsewhere
\* (releaseForUser, acquire) can find and release it, and nobody holds two counters.
LockIsNoted ==
  \A u \in User, c \in Counter : holder[c] = u /\ ~OnServer(u) => counterOf[u] = c

\* A counter changes hands only after it was free: neither a login nor the renewal of a
\* call takes it from its holder, and only a step of the holder's own, or its time to live,
\* frees it.
LockKept ==
  [][\A c \in Counter : holder[c] # NoUser /\ holder'[c] # holder[c] =>
       /\ holder'[c] = NoUser
       /\ OnServer(holder[c]) \/ (auth' = auth /\ call' = call)]_staffVars

\* A tab that is signed in can refresh: however many of its calls find the access token
\* expired at once, and whatever the user does at another machine, the cookie of its
\* browser names a token that is still valid.
SignedInCanRefresh ==
  \A m \in Machine :
    /\ tab[m] # SignedOut /\ auth[m] = AuthIdle
    /\ \A s \in SlotsAt[m] : call[m][s].kind # "logout"
    => cookie[m] # NoToken /\ token[cookie[m]].live

\* A lock, a token and a session always belong together in type and shape.
StaffTypeOK ==
  /\ holder \in [Counter -> SomeUser]
  /\ counterOf \in [User -> SomeCounter]
  /\ token \in [Token -> [user : SomeUser, live : BOOLEAN]]
  /\ cookie \in [Machine -> Token \union {NoToken}]
  /\ tab \in [Machine -> Tab]
  /\ auth \in [Machine -> Auth]
  /\ \A m \in Machine : call[m] \in [SlotsAt[m] -> Call]
=============================================================================
