-------------------------- MODULE CustomerPortal ---------------------------
(***************************************************************************)
(* CustomerAuthService and CustomerOtpService for one customer, with the   *)
(* pages of the portal that call them: first password, sign in, rotation   *)
(* of refresh tokens, reset of a forgotten password by a code sent to the  *)
(* mobile, logout.  The rows of two customers never meet, so one is        *)
(* enough.  A browser has one request under way (the buttons are disabled  *)
(* meanwhile); the requests of several browsers interleave at every        *)
(* database command.  Bounds: the sets of tokens and codes.                *)
(***************************************************************************)
EXTENDS Naturals, FiniteSets

CONSTANTS
  Browser,
  PortalToken,        \* 1..n: customer_refresh_token rows
  Code,               \* 1..n: customer_otp_challenge rows, in the order of createdAt
  MaxVerifyAttempts,  \* MAX_VERIFY_ATTEMPTS
  MaxRequests,        \* CUSTOMER_OTP_MAX_REQUESTS_PER_WINDOW
  NoTok

ASSUME PortalAssumption ==
  /\ PortalToken \subseteq Nat \ {0} /\ Code \subseteq Nat \ {0}
  /\ NoTok \notin PortalToken /\ IsFiniteSet(Browser)
  /\ MaxVerifyAttempts \in Nat \ {0} /\ MaxRequests \in Nat \ {0}

VARIABLES
  password,   \* customer.password_hash is set
  resets,     \* how often it was replaced by a reset (history)
  portalToken,\* [live, after]: revokedAt, and the resets before it was issued (history)
  challenge,  \* the rows of customer_otp_challenge
  sent,       \* the codes sent to the mobile within the present window
  page,       \* what a browser shows
  portalReq   \* the request of a browser

portalVars == <<password, resets, portalToken, challenge, sent, page, portalReq>>

Page == {"mobile", "password", "set-password", "forgot", "otp", "new-password", "dashboard"}
ReqPc == {"idle", "lookup", "login", "set", "setWrite", "find", "rotate", "count", "clear",
          "create", "verify", "miss", "mark", "write", "revokeAll", "issue", "logout", "failed"}
Challenge == [st : {"none", "open", "verified", "deleted"}, attempts : Nat, valid : BOOLEAN, recent : BOOLEAN]
PortalReq == [pc : ReqPc, tok : PortalToken \union {NoTok}, code : Code \union {0}]

ReqIdle == [pc |-> "idle", tok |-> NoTok, code |-> 0]
NoChallenge == [st |-> "none", attempts |-> 0, valid |-> FALSE, recent |-> FALSE]

PortalTypeOK ==
  /\ password \in BOOLEAN /\ resets \in Nat /\ sent \in Nat
  /\ portalToken \in [PortalToken -> [live : BOOLEAN, after : Nat, used : BOOLEAN]]
  /\ challenge \in [Code -> Challenge]
  /\ page \in [Browser -> [shows : Page, cookie : PortalToken \union {NoTok}]]
  /\ portalReq \in [Browser -> PortalReq]

PortalInit ==
  /\ password = FALSE /\ resets = 0 /\ sent = 0
  /\ portalToken = [t \in PortalToken |-> [live |-> FALSE, after |-> 0, used |-> FALSE]]
  /\ challenge = [o \in Code |-> NoChallenge]
  /\ page = [b \in Browser |-> [shows |-> "mobile", cookie |-> NoTok]]
  /\ portalReq = [b \in Browser |-> ReqIdle]

-----------------------------------------------------------------------------
At(b, pc) == portalReq[b].pc = pc
To(b, pc) == portalReq' = [portalReq EXCEPT ![b].pc = pc]
Shows(b, p) == page' = [page EXCEPT ![b].shows = p]
Unchanged(b) == UNCHANGED <<password, resets, portalToken, challenge, sent>>

\* The pages of signing in and of a forgotten password: what each step of them sends, and
\* the links and buttons that only turn to another.
LoginPage == {<<"mobile", "lookup">>, <<"password", "login">>, <<"set-password", "set">>}
LoginTurns == {<<"password", "mobile">>, <<"set-password", "mobile">>, <<"mobile", "forgot">>, <<"password", "forgot">>}
ForgotPage == {<<"forgot", "count">>, <<"otp", "count">>, <<"new-password", "verify">>}
ForgotTurns == {<<"forgot", "mobile">>, <<"otp", "forgot">>, <<"otp", "new-password">>, <<"new-password", "otp">>}

\* A browser sends a request.  Whether a code is the right one is known to the server only.
Request(b) ==
  /\ At(b, "idle")
  /\ \/ \E step \in LoginPage \union ForgotPage \union {<<"dashboard", "logout">>} :
          page[b].shows = step[1] /\ To(b, step[2])
     \/ /\ page[b].cookie # NoTok
        /\ portalReq' = [portalReq EXCEPT ![b] = [ReqIdle EXCEPT !.pc = "find", !.tok = page[b].cookie]]
  /\ Unchanged(b) /\ UNCHANGED page

Turn(b) ==
  /\ At(b, "idle")
  /\ \E step \in LoginTurns \union ForgotTurns : page[b].shows = step[1] /\ Shows(b, step[2])
  /\ Unchanged(b) /\ UNCHANGED portalReq

\* An error leaves the page as it is; a failed refresh signs out.
Failed(b) ==
  /\ At(b, "failed")
  /\ portalReq' = [portalReq EXCEPT ![b] = ReqIdle]
  /\ IF portalReq[b].tok # NoTok THEN Shows(b, "mobile") ELSE UNCHANGED page
  /\ Unchanged(b)

-----------------------------------------------------------------------------
PortalLookup(b) ==
  /\ At(b, "lookup")
  /\ portalReq' = [portalReq EXCEPT ![b] = ReqIdle]
  /\ Shows(b, IF password THEN "password" ELSE "set-password")
  /\ Unchanged(b)

\* login(): the password is compared before the tokens are issued.
PortalLogin(b) ==
  /\ At(b, "login")
  /\ \E right \in BOOLEAN : To(b, IF password /\ right THEN "issue" ELSE "failed")
  /\ Unchanged(b) /\ UNCHANGED page

\* setPassword(): checked first, written later.
SetPasswordCheck(b) ==
  /\ At(b, "set")
  /\ To(b, IF password THEN "failed" ELSE "setWrite")
  /\ Unchanged(b) /\ UNCHANGED page

SetPasswordWrite(b) ==
  /\ At(b, "setWrite")
  /\ password' = TRUE
  /\ To(b, "issue")
  /\ UNCHANGED <<resets, portalToken, challenge, sent, page>>

\* refresh()
FindToken(b) ==
  /\ At(b, "find")
  /\ To(b, IF portalToken[portalReq[b].tok].live /\ password THEN "rotate" ELSE "failed")
  /\ Unchanged(b) /\ UNCHANGED page

Rotate(b) ==
  /\ At(b, "rotate")
  /\ portalToken' = [portalToken EXCEPT ![portalReq[b].tok].live = FALSE]
  /\ To(b, "issue")
  /\ UNCHANGED <<password, resets, challenge, sent, page>>

\* issueTokenPair() and the answer, which always sets the cookie.
PortalIssue(b) ==
  /\ At(b, "issue")
  /\ \E t \in PortalToken :
       /\ ~portalToken[t].used /\ \A k \in PortalToken : ~portalToken[k].used => t <= k
       /\ portalToken' = [portalToken EXCEPT ![t] = [live |-> TRUE, after |-> resets, used |-> TRUE]]
       /\ page' = [page EXCEPT ![b] = [shows |-> "dashboard", cookie |-> t]]
  /\ portalReq' = [portalReq EXCEPT ![b] = ReqIdle]
  /\ UNCHANGED <<password, resets, challenge, sent>>

PortalLogout(b) ==
  LET t == page[b].cookie
  IN /\ At(b, "logout")
     /\ portalToken' = IF t = NoTok THEN portalToken ELSE [portalToken EXCEPT ![t].live = FALSE]
     /\ page' = [page EXCEPT ![b] = [shows |-> "mobile", cookie |-> NoTok]]
     /\ portalReq' = [portalReq EXCEPT ![b] = ReqIdle]
     /\ UNCHANGED <<password, resets, challenge, sent>>

-----------------------------------------------------------------------------
(* sendPasswordResetOtp(): count, delete the unverified codes, create one. *)
Recent == {o \in Code : challenge[o].st \in {"open", "verified"} /\ challenge[o].recent}

CountRequests(b) ==
  /\ At(b, "count")
  /\ To(b, IF password /\ Cardinality(Recent) < MaxRequests THEN "clear" ELSE "failed")
  /\ Unchanged(b) /\ UNCHANGED page

ClearCodes(b) ==
  /\ At(b, "clear")
  /\ challenge' = [o \in Code |-> IF challenge[o].st = "open"
                                  THEN [NoChallenge EXCEPT !.st = "deleted"] ELSE challenge[o]]
  /\ To(b, "create")
  /\ UNCHANGED <<password, resets, portalToken, sent, page>>

CreateCode(b) ==
  /\ At(b, "create")
  /\ \E o \in Code :
       /\ challenge[o].st = "none" /\ \A k \in Code : challenge[k].st = "none" => o <= k
       /\ challenge' = [challenge EXCEPT ![o] = [st |-> "open", attempts |-> 0, valid |-> TRUE, recent |-> TRUE]]
  /\ sent' = sent + 1
  /\ Shows(b, "otp")
  /\ portalReq' = [portalReq EXCEPT ![b] = ReqIdle]
  /\ UNCHANGED <<password, resets, portalToken>>

-----------------------------------------------------------------------------
(* resetPasswordWithOtp() and verifyPasswordResetOtp().                    *)
Open == {o \in Code : challenge[o].st = "open" /\ challenge[o].valid}
Newest(S) == {o \in S : \A k \in S : k <= o}

\* (Faulty variant: wrong codes may be tried without end.)
VerifyAlways(b) ==
  /\ At(b, "verify")
  /\ IF Open = {}
     THEN To(b, "failed")
     ELSE \E o \in Newest(Open), right \in BOOLEAN :
            portalReq' = [portalReq EXCEPT ![b].pc = IF right THEN "mark" ELSE "miss", ![b].code = o]
  /\ Unchanged(b) /\ UNCHANGED page

VerifyCode(b) ==
  /\ At(b, "verify")
  /\ IF \A o \in Newest(Open) : challenge[o].attempts >= MaxVerifyAttempts
     THEN To(b, "failed")
     ELSE \E o \in Newest(Open), right \in BOOLEAN :
            portalReq' = [portalReq EXCEPT ![b].pc = IF right THEN "mark" ELSE "miss", ![b].code = o]
  /\ Unchanged(b) /\ UNCHANGED page

\* (Faulty variant: the attempts left are counted down, from nothing.)
CountDown(b) ==
  LET o == portalReq[b].code
  IN /\ At(b, "miss")
     /\ challenge' = [challenge EXCEPT ![o].attempts = @ - 1]
     /\ portalReq' = [portalReq EXCEPT ![b] = [ReqIdle EXCEPT !.pc = "failed"]]
     /\ UNCHANGED <<password, resets, portalToken, sent, page>>

\* A row deleted meanwhile cannot be updated: the request ends with an error.
WrongCode(b) ==
  LET o == portalReq[b].code
  IN /\ At(b, "miss")
     /\ challenge' = IF challenge[o].st = "deleted" THEN challenge
                     ELSE [challenge EXCEPT ![o].attempts = @ + 1]
     /\ portalReq' = [portalReq EXCEPT ![b] = [ReqIdle EXCEPT !.pc = "failed"]]
     /\ UNCHANGED <<password, resets, portalToken, sent, page>>

MarkVerified(b) ==
  LET o == portalReq[b].code
  IN /\ At(b, "mark")
     /\ IF challenge[o].st = "deleted"
        THEN portalReq' = [portalReq EXCEPT ![b] = [ReqIdle EXCEPT !.pc = "failed"]] /\ UNCHANGED challenge
        ELSE portalReq' = [portalReq EXCEPT ![b] = [ReqIdle EXCEPT !.pc = "write"]]
             /\ challenge' = [challenge EXCEPT ![o].st = "verified"]
     /\ UNCHANGED <<password, resets, portalToken, sent, page>>

WritePassword(b) ==
  /\ At(b, "write")
  /\ resets' = resets + 1
  /\ To(b, "revokeAll")
  /\ UNCHANGED <<password, portalToken, challenge, sent, page>>

\* (Faulty variant: only the session of this browser is ended.)
RevokeOwn(b) ==
  LET t == page[b].cookie
  IN /\ At(b, "revokeAll")
     /\ portalToken' = IF t = NoTok THEN portalToken ELSE [portalToken EXCEPT ![t].live = FALSE]
     /\ To(b, "issue")
     /\ UNCHANGED <<password, resets, challenge, sent, page>>

RevokeAll(b) ==
  /\ At(b, "revokeAll")
  /\ portalToken' = [t \in PortalToken |-> [portalToken[t] EXCEPT !.live = FALSE]]
  /\ To(b, "issue")
  /\ UNCHANGED <<password, resets, challenge, sent, page>>

-----------------------------------------------------------------------------
(* Time: a code is valid for ten minutes, the window is fifteen.           *)
ExpireCode(o) ==
  /\ challenge[o].valid
  /\ challenge' = [challenge EXCEPT ![o].valid = FALSE]
  /\ UNCHANGED <<password, resets, portalToken, sent, page, portalReq>>

NextWindow ==
  /\ sent > 0 /\ Open = {} /\ \A b \in Browser : portalReq[b].pc \notin {"clear", "create"}
  /\ challenge' = [o \in Code |-> [challenge[o] EXCEPT !.recent = FALSE]]
  /\ sent' = 0
  /\ UNCHANGED <<password, resets, portalToken, page, portalReq>>

-----------------------------------------------------------------------------
PortalStep(b) ==
  \/ Request(b) \/ Turn(b) \/ Failed(b) \/ PortalLookup(b) \/ PortalLogin(b)
  \/ SetPasswordCheck(b) \/ SetPasswordWrite(b) \/ FindToken(b) \/ Rotate(b)
  \/ PortalIssue(b) \/ PortalLogout(b) \/ CountRequests(b) \/ ClearCodes(b) \/ CreateCode(b)
  \/ VerifyCode(b) \/ WrongCode(b) \/ MarkVerified(b) \/ WritePassword(b) \/ RevokeAll(b)

PortalNext ==
  \/ \E b \in Browser : PortalStep(b)
  \/ \E o \in Code : ExpireCode(o)
  \/ NextWindow

PortalSpec == PortalInit /\ [][PortalNext]_portalVars

-----------------------------------------------------------------------------
\* resetPasswordWithOtp() ends every session there is when the password is replaced: a
\* refresh token that still works was issued after the last reset, unless that reset has
\* not come to its revocation yet.  A refresh that found its token before counts as new.
ResetEndsSessions ==
  \/ \E b \in Browser : At(b, "revokeAll")
  \/ \A t \in PortalToken : portalToken[t].live => portalToken[t].after = resets

\* However many requests try codes at once, a code is tried at most MAX_VERIFY_ATTEMPTS
\* times and once more for each further request that was let through meanwhile.
AttemptsBounded ==
  \A o \in Code : challenge[o].attempts < MaxVerifyAttempts + Cardinality(Browser)
=============================================================================
