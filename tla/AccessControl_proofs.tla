------------------------ MODULE AccessControl_proofs ------------------------
(***************************************************************************)
(* What TLAPS proves of CustomerPortal, for every finite set of browsers   *)
(* and every set of tokens and codes: its types, that a reset revokes the  *)
(* tokens there are, and how often a code can be tried; and of             *)
(* AccessRights, for every set of permissions, roles, counters, addresses, *)
(* endpoints and administrators: its types, that a request is served only  *)
(* with permissions the account had, and that the counter a sign-in gives  *)
(* is one the next request accepts; and that the types of both and of      *)
(* StaffSessions hold where they are checked side by side.                 *)
(***************************************************************************)
EXTENDS MCAccess, StaffSessions_proofs, FiniteSetTheorems, TLAPS
-----------------------------------------------------------------------------
(* CustomerPortal                                                          *)

(* The inductive invariant *)

\* A request that works on a token or on a code has one.
PortalReqOK(c) ==
  /\ c \in PortalReq
  /\ c.pc \in {"find", "rotate"} => c.tok \in PortalToken
  /\ c.pc \in {"miss", "mark"} => c.code \in Code

ReqsOK == portalReq \in [Browser -> PortalReq] /\ \A b \in Browser : PortalReqOK(portalReq[b])

PortalInv == PortalTypeOK /\ ReqsOK

\* The requests that were let through with a wrong code for o and have not counted it yet.
Misses(o) == {b \in Browser : portalReq[b].pc = "miss" /\ portalReq[b].code = o}

\* The attempts that are counted and those that are still to be: a request is let through
\* only while there are fewer than MAX_VERIFY_ATTEMPTS counted.
TriesBounded ==
  \A o \in Code : challenge[o].attempts + Cardinality(Misses(o)) < MaxVerifyAttempts + Cardinality(Browser)

-----------------------------------------------------------------------------
(* Types *)

LEMMA IdleReqOK ==
  /\ PortalReqOK(ReqIdle) /\ ReqIdle.pc = "idle"
  /\ \A pc \in ReqPc \ {"find", "rotate", "miss", "mark"} : PortalReqOK([ReqIdle EXCEPT !.pc = pc])
  /\ \A t \in PortalToken : PortalReqOK([ReqIdle EXCEPT !.pc = "find", !.tok = t])
  BY DEF ReqIdle, PortalReqOK, PortalReq, ReqPc

\* A browser's request takes the state c.
LEMMA ReqStep ==
  ASSUME ReqsOK, NEW b \in Browser, NEW c, PortalReqOK(c), portalReq' = [portalReq EXCEPT ![b] = c]
  PROVE  ReqsOK'
  BY DEF ReqsOK, PortalReqOK

\* A request goes on at pc with the token and the code it has.
LEMMA ToStep ==
  ASSUME ReqsOK, NEW b \in Browser, NEW pc \in ReqPc \ {"find", "miss", "mark"}, To(b, pc),
         pc = "rotate" => portalReq[b].pc = "find"
  PROVE  ReqsOK' /\ portalReq'[b].pc = pc /\ \A k \in Browser \ {b} : portalReq'[k] = portalReq[k]
<1> DEFINE c == [portalReq[b] EXCEPT !.pc = pc]
<1>1. PortalReqOK(c) /\ c.pc = pc
  BY DEF ReqsOK, PortalReqOK, PortalReq
<1>2. portalReq' = [portalReq EXCEPT ![b] = c]
  BY DEF To
<1> HIDE DEF c
<1> QED BY <1>1, <1>2, ReqStep DEF ReqsOK

\* The page of a browser after its step.
PagesOK == page \in [Browser -> [shows : Page, cookie : PortalToken \union {NoTok}]]

LEMMA ShowsStep ==
  ASSUME PagesOK, NEW b \in Browser, NEW p \in Page, Shows(b, p)
  PROVE  PagesOK'
  BY DEF PagesOK, Shows

LEMMA PortalInvInit == PortalInit => PortalInv
<1> SUFFICES ASSUME PortalInit PROVE PortalInv
  OBVIOUS
<1>1. NoChallenge \in Challenge
  BY DEF NoChallenge, Challenge
<1>2. ReqsOK
  BY IdleReqOK DEF PortalInit, ReqsOK, PortalReqOK
<1> QED BY <1>1, <1>2 DEF PortalInit, PortalInv, PortalTypeOK, ReqsOK, Page

\* What is left of PortalInv when a step changes only a request and a page.
LEMMA OnlyPages ==
  ASSUME PortalInv, NEW b \in Browser, Unchanged(b), ReqsOK', PagesOK'
  PROVE  PortalInv'
  BY DEF PortalInv, PortalTypeOK, Unchanged, PagesOK, ReqsOK

LEMMA PagesType == PortalInv => PagesOK /\ ReqsOK
  BY DEF PortalInv, PortalTypeOK, PagesOK

\* What a page sends is a place where a handler of the back end begins.
LEMMA PageSteps ==
  /\ \A step \in LoginPage \union ForgotPage \union {<<"dashboard", "logout">>} :
       step[2] \in ReqPc \ {"find", "rotate", "miss", "mark", "revokeAll"}
  /\ \A step \in LoginTurns \union ForgotTurns : step[2] \in Page
<1>1. ASSUME NEW step \in LoginPage \union ForgotPage \union {<<"dashboard", "logout">>}
      PROVE  step[2] \in ReqPc \ {"find", "rotate", "miss", "mark", "revokeAll"}
  BY DEF LoginPage, ForgotPage, ReqPc
<1>2. ASSUME NEW step \in LoginTurns \union ForgotTurns
      PROVE  step[2] \in Page
  BY DEF LoginTurns, ForgotTurns, Page
<1> QED BY <1>1, <1>2

LEMMA RequestType ==
  ASSUME PortalInv, NEW b \in Browser, Request(b)
  PROVE  PortalInv'
<1>1. PagesOK'
  BY PagesType DEF Request, PagesOK
<1>2. ReqsOK'
  <2>1. ASSUME NEW step \in LoginPage \union ForgotPage \union {<<"dashboard", "logout">>}, To(b, step[2])
        PROVE  ReqsOK'
    BY <2>1, PageSteps, ToStep, PagesType
  <2>2. ASSUME page[b].cookie # NoTok,
               portalReq' = [portalReq EXCEPT ![b] = [ReqIdle EXCEPT !.pc = "find", !.tok = page[b].cookie]]
        PROVE  ReqsOK'
    <3>1. page[b].cookie \in PortalToken
      BY <2>2, PagesType DEF PagesOK
    <3> QED BY <2>2, <3>1, IdleReqOK, ReqStep, PagesType
  <2> QED BY <2>1, <2>2 DEF Request
<1> QED BY <1>1, <1>2, OnlyPages DEF Request

LEMMA PageType ==
  ASSUME PortalInv, NEW b \in Browser, Turn(b) \/ Failed(b) \/ PortalLookup(b)
  PROVE  PortalInv'
<1>1. CASE Turn(b)
  <2>1. PagesOK'
    BY <1>1, PageSteps, ShowsStep, PagesType DEF Turn
  <2> QED BY <1>1, <2>1, OnlyPages, PagesType DEF Turn, ReqsOK
<1>2. CASE Failed(b)
  <2>1. PagesOK'
    BY <1>2, ShowsStep, PagesType DEF Failed, Page, PagesOK
  <2>2. ReqsOK'
    BY <1>2, IdleReqOK, ReqStep, PagesType DEF Failed
  <2> QED BY <1>2, <2>1, <2>2, OnlyPages DEF Failed
<1>3. CASE PortalLookup(b)
  <2>1. PagesOK'
    BY <1>3, ShowsStep, PagesType DEF PortalLookup, Page
  <2>2. ReqsOK'
    BY <1>3, IdleReqOK, ReqStep, PagesType DEF PortalLookup
  <2> QED BY <1>3, <2>1, <2>2, OnlyPages DEF PortalLookup
<1> QED BY <1>1, <1>2, <1>3

\* A check that only decides how the request goes on.
LEMMA CheckType ==
  ASSUME PortalInv, NEW b \in Browser, NEW pc \in ReqPc \ {"find", "miss", "mark"}, To(b, pc),
         pc = "rotate" => portalReq[b].pc = "find", Unchanged(b), UNCHANGED page
  PROVE  PortalInv'
  BY ToStep, OnlyPages, PagesType DEF PagesOK

LEMMA ChecksType ==
  ASSUME PortalInv, NEW b \in Browser,
         PortalLogin(b) \/ SetPasswordCheck(b) \/ FindToken(b) \/ CountRequests(b)
  PROVE  PortalInv'
<1>1. CASE PortalLogin(b)
  BY <1>1, CheckType DEF PortalLogin, ReqPc
<1>2. CASE SetPasswordCheck(b)
  BY <1>2, CheckType DEF SetPasswordCheck, ReqPc
<1>3. CASE FindToken(b)
  BY <1>3, CheckType DEF FindToken, ReqPc, At
<1>4. CASE CountRequests(b)
  BY <1>4, CheckType DEF CountRequests, ReqPc
<1> QED BY <1>1, <1>2, <1>3, <1>4

PortalTokens == [PortalToken -> [live : BOOLEAN, after : Nat, used : BOOLEAN]]

\* What is left of PortalInv once the rows have their types.
LEMMA RowsType ==
  ASSUME password' \in BOOLEAN, resets' \in Nat, sent' \in Nat, portalToken' \in PortalTokens,
         challenge' \in [Code -> Challenge], PagesOK', ReqsOK'
  PROVE  PortalInv'
  BY DEF PortalInv, PortalTypeOK, PortalTokens, PagesOK, ReqsOK

LEMMA RowTypes ==
  ASSUME PortalInv
  PROVE  /\ password \in BOOLEAN /\ resets \in Nat /\ sent \in Nat
         /\ portalToken \in PortalTokens /\ challenge \in [Code -> Challenge] /\ PagesOK /\ ReqsOK
  BY DEF PortalInv, PortalTypeOK, PortalTokens, PagesOK

\* The steps that write a password, a token or nothing but the tokens.
LEMMA PasswordType ==
  ASSUME PortalInv, NEW b \in Browser,
         SetPasswordWrite(b) \/ WritePassword(b) \/ Rotate(b) \/ RevokeAll(b)
  PROVE  PortalInv'
<1>1. ReqsOK'
  BY RowTypes, ToStep DEF SetPasswordWrite, WritePassword, Rotate, RevokeAll, ReqPc
<1>2. CASE SetPasswordWrite(b)
  <2>1. password' = TRUE /\ UNCHANGED <<resets, portalToken, challenge, sent, page>>
    BY <1>2 DEF SetPasswordWrite
  <2> QED BY <1>1, <2>1, RowTypes, RowsType DEF PagesOK
<1>4. CASE WritePassword(b)
  <2>1. resets' \in Nat /\ UNCHANGED <<password, portalToken, challenge, sent, page>>
    BY <1>4, RowTypes DEF WritePassword
  <2> QED BY <1>1, <2>1, RowTypes, RowsType DEF PagesOK
<1>3. CASE Rotate(b) \/ RevokeAll(b)
  <2>1. portalToken' \in PortalTokens
    <3>1. portalToken \in PortalTokens
      BY RowTypes
    <3>2. CASE Rotate(b)
      BY <3>1, <3>2 DEF Rotate, PortalTokens
    <3>3. CASE RevokeAll(b)
      <4>1. portalToken' = [t \in PortalToken |-> [portalToken[t] EXCEPT !.live = FALSE]]
        BY <3>3 DEF RevokeAll
      <4> QED BY <3>1, <4>1 DEF PortalTokens
    <3> QED BY <1>3, <3>2, <3>3
  <2>2. UNCHANGED <<password, resets, challenge, sent, page>>
    BY <1>3 DEF Rotate, RevokeAll
  <2> QED BY <1>1, <2>1, <2>2, RowTypes, RowsType DEF PagesOK
<1> QED BY <1>2, <1>3, <1>4

LEMMA PortalIssueType ==
  ASSUME PortalInv, NEW b \in Browser, PortalIssue(b)
  PROVE  PortalInv'
<1>1. PICK t \in PortalToken :
        /\ portalToken' = [portalToken EXCEPT ![t] = [live |-> TRUE, after |-> resets, used |-> TRUE]]
        /\ page' = [page EXCEPT ![b] = [shows |-> "dashboard", cookie |-> t]]
  BY DEF PortalIssue
<1>2. portalToken' \in PortalTokens /\ PagesOK'
  BY <1>1, RowTypes DEF PortalTokens, PagesOK, Page
<1>3. ReqsOK'
  BY RowTypes, IdleReqOK, ReqStep DEF PortalIssue
<1> QED BY <1>2, <1>3, RowTypes, RowsType DEF PortalIssue

LEMMA PortalLogoutType ==
  ASSUME PortalInv, NEW b \in Browser, PortalLogout(b)
  PROVE  PortalInv'
<1>1. portalToken' \in PortalTokens /\ PagesOK'
  BY RowTypes DEF PortalLogout, PortalTokens, PagesOK, Page
<1>2. ReqsOK'
  BY RowTypes, IdleReqOK, ReqStep DEF PortalLogout
<1> QED BY <1>1, <1>2, RowTypes, RowsType DEF PortalLogout

LEMMA CodesType ==
  ASSUME PortalInv, NEW b \in Browser, ClearCodes(b) \/ CreateCode(b)
  PROVE  PortalInv'
<1>1. CASE ClearCodes(b)
  <2>1. challenge' \in [Code -> Challenge]
    BY <1>1, RowTypes DEF ClearCodes, Challenge, NoChallenge
  <2>2. ReqsOK'
    BY <1>1, RowTypes, ToStep DEF ClearCodes, ReqPc
  <2> QED BY <1>1, <2>1, <2>2, RowTypes, RowsType DEF ClearCodes, PagesOK
<1>2. CASE CreateCode(b)
  <2>1. challenge' \in [Code -> Challenge]
    BY <1>2, RowTypes DEF CreateCode, Challenge
  <2>2. PagesOK'
    BY <1>2, RowTypes, ShowsStep DEF CreateCode, Page
  <2>3. ReqsOK'
    BY <1>2, RowTypes, IdleReqOK, ReqStep DEF CreateCode
  <2> QED BY <1>2, <2>1, <2>2, <2>3, RowTypes, RowsType DEF CreateCode
<1> QED BY <1>1, <1>2

\* What a request for a code does: it is refused, or lets one try of an open code through.
LEMMA VerifyCodeEffect ==
  ASSUME PortalInv, NEW b \in Browser, VerifyCode(b), ~ To(b, "failed")
  PROVE  \E o \in Code, pc \in {"mark", "miss"} :
           /\ challenge[o].attempts < MaxVerifyAttempts
           /\ portalReq' = [portalReq EXCEPT ![b] = [portalReq[b] EXCEPT !.pc = pc, !.code = o]]
<1>1. PICK o \in Newest(Open), right \in BOOLEAN :
        portalReq' = [portalReq EXCEPT ![b].pc = IF right THEN "mark" ELSE "miss", ![b].code = o]
  BY DEF VerifyCode
<1>2. PICK k \in Newest(Open) : ~ (challenge[k].attempts >= MaxVerifyAttempts)
  BY DEF VerifyCode
<1>3. k \in Code /\ o \in Code /\ k = o
  <2>1. k \in Nat /\ o \in Nat /\ k \in Code /\ o \in Code
    BY PortalAssumption DEF Newest, Open
  <2>2. k <= o /\ o <= k
    BY <1>1, <1>2 DEF Newest
  <2> QED BY <2>1, <2>2
<1>4. challenge[o].attempts < MaxVerifyAttempts
  BY <1>2, <1>3, RowTypes, PortalAssumption DEF Challenge
<1>5. portalReq' = [portalReq EXCEPT ![b] =
        [portalReq[b] EXCEPT !.pc = IF right THEN "mark" ELSE "miss", !.code = o]]
  BY <1>1, RowTypes DEF ReqsOK, PortalReq
<1> QED BY <1>3, <1>4, <1>5

LEMMA VerifyCodeType ==
  ASSUME PortalInv, NEW b \in Browser, VerifyCode(b)
  PROVE  PortalInv'
<1>1. CASE To(b, "failed")
  BY <1>1, CheckType DEF VerifyCode, ReqPc
<1>2. ASSUME NEW o \in Code, NEW pc \in {"mark", "miss"},
             portalReq' = [portalReq EXCEPT ![b] = [portalReq[b] EXCEPT !.pc = pc, !.code = o]]
      PROVE  PortalInv'
  <2> DEFINE c == [portalReq[b] EXCEPT !.pc = pc, !.code = o]
  <2>1. PortalReqOK(c)
    BY RowTypes DEF ReqsOK, PortalReqOK, PortalReq, ReqPc
  <2>2. portalReq' = [portalReq EXCEPT ![b] = c]
    BY <1>2
  <2>3. Unchanged(b) /\ PagesOK'
    BY RowTypes DEF VerifyCode, PagesOK
  <2> HIDE DEF c
  <2>4. ReqsOK'
    BY <2>1, <2>2, RowTypes, ReqStep
  <2> QED BY <2>3, <2>4, OnlyPages
<1> QED BY <1>1, <1>2, VerifyCodeEffect

LEMMA TriedType ==
  ASSUME PortalInv, NEW b \in Browser, WrongCode(b) \/ MarkVerified(b)
  PROVE  PortalInv'
<1>1. challenge' \in [Code -> Challenge]
  BY RowTypes DEF WrongCode, MarkVerified, Challenge
<1>2. ReqsOK'
  BY RowTypes, IdleReqOK, ReqStep DEF WrongCode, MarkVerified, ReqPc
<1> QED BY <1>1, <1>2, RowTypes, RowsType DEF WrongCode, MarkVerified, PagesOK

LEMMA TimeType ==
  ASSUME PortalInv, NextWindow \/ \E o \in Code : ExpireCode(o)
  PROVE  PortalInv'
<1>1. challenge' \in [Code -> Challenge]
  <2>1. CASE NextWindow
    <3>1. challenge' = [o \in Code |-> [challenge[o] EXCEPT !.recent = FALSE]]
      BY <2>1 DEF NextWindow
    <3> QED BY <3>1, RowTypes DEF Challenge
  <2>2. ASSUME NEW o \in Code, ExpireCode(o)
        PROVE  challenge' \in [Code -> Challenge]
    <3>1. challenge' = [challenge EXCEPT ![o].valid = FALSE]
      BY <2>2 DEF ExpireCode
    <3> QED BY <3>1, RowTypes DEF Challenge
  <2> QED BY <2>1, <2>2
<1> QED BY <1>1, RowTypes, RowsType DEF NextWindow, ExpireCode, PagesOK, ReqsOK

LEMMA PortalInvNext == PortalInv /\ [PortalNext]_portalVars => PortalInv'
<1> SUFFICES ASSUME PortalInv, [PortalNext]_portalVars PROVE PortalInv'
  OBVIOUS
<1>1. CASE UNCHANGED portalVars
  BY <1>1, RowTypes, RowsType DEF portalVars, PagesOK, ReqsOK
<1>2. CASE PortalNext
  BY <1>2, RequestType, PageType, ChecksType, PasswordType, PortalIssueType, PortalLogoutType,
     CodesType, VerifyCodeType, TriedType, TimeType DEF PortalNext, PortalStep
<1> QED BY <1>1, <1>2

\* The rows, the pages and the requests of the portal have their types.
THEOREM PortalTypes == PortalSpec => []PortalTypeOK
<1>1. PortalInv => PortalTypeOK
  BY DEF PortalInv
<1> QED BY <1>1, PortalInvInit, PortalInvNext, PTL DEF PortalSpec

-----------------------------------------------------------------------------
(* A reset ends the sessions there are *)

\* A step that issues no token, replaces no password and ends no revocation.
LEMMA SessionsKept ==
  ASSUME PortalInv, ResetEndsSessions, resets' = resets,
         \A b \in Browser : At(b, "revokeAll") => portalReq'[b].pc = "revokeAll",
         \A t \in PortalToken : portalToken'[t].live =>
                                 portalToken[t].live /\ portalToken'[t].after = portalToken[t].after
  PROVE  ResetEndsSessions'
  BY DEF ResetEndsSessions, At

\* The steps of a request other than these three go on from another place.
LEMMA OthersRevoke ==
  ASSUME PortalInv, NEW b \in Browser, ~ At(b, "revokeAll"),
         \E c : portalReq' = [portalReq EXCEPT ![b] = c]
  PROVE  \A k \in Browser : At(k, "revokeAll") => portalReq'[k].pc = "revokeAll"
  BY RowTypes DEF ReqsOK, At

LEMMA TokenStepSessions ==
  ASSUME PortalInv, ResetEndsSessions, NEW b \in Browser, Rotate(b) \/ PortalLogout(b)
  PROVE  ResetEndsSessions'
<1>1. \A t \in PortalToken : portalToken'[t].live =>
                              portalToken[t].live /\ portalToken'[t].after = portalToken[t].after
  BY RowTypes DEF Rotate, PortalLogout, PortalTokens
<1>2. ~ At(b, "revokeAll")
  BY DEF Rotate, PortalLogout, At
<1>3. \E c : portalReq' = [portalReq EXCEPT ![b] = c]
  BY DEF Rotate, PortalLogout, To
<1> QED BY <1>1, <1>2, <1>3, OthersRevoke, SessionsKept DEF Rotate, PortalLogout

LEMMA PortalIssueSessions ==
  ASSUME PortalInv, ResetEndsSessions, NEW b \in Browser, PortalIssue(b)
  PROVE  ResetEndsSessions'
<1>1. PICK t \in PortalToken :
        portalToken' = [portalToken EXCEPT ![t] = [live |-> TRUE, after |-> resets, used |-> TRUE]]
  BY DEF PortalIssue
<1>2. ~ At(b, "revokeAll") /\ resets' = resets
  BY DEF PortalIssue, At
<1>3. \A k \in Browser : At(k, "revokeAll") => portalReq'[k].pc = "revokeAll"
  BY <1>2, OthersRevoke DEF PortalIssue
<1>4. \A k \in PortalToken : portalToken'[k] =
        IF k = t THEN [live |-> TRUE, after |-> resets, used |-> TRUE] ELSE portalToken[k]
  BY <1>1, RowTypes DEF PortalTokens
<1> QED BY <1>2, <1>3, <1>4 DEF ResetEndsSessions, At

\* The revocation itself: no token is left, whichever session it belonged to.
LEMMA RevokeAllSessions ==
  ASSUME PortalInv, NEW b \in Browser, RevokeAll(b)
  PROVE  ResetEndsSessions'
<1>1. \A t \in PortalToken : ~ portalToken'[t].live
  BY RowTypes DEF RevokeAll, PortalTokens
<1> QED BY <1>1 DEF ResetEndsSessions

LEMMA WritePasswordSessions ==
  ASSUME PortalInv, NEW b \in Browser, WritePassword(b)
  PROVE  ResetEndsSessions'
<1>1. portalReq'[b].pc = "revokeAll"
  BY RowTypes, ToStep DEF WritePassword, ReqPc
<1> QED BY <1>1 DEF ResetEndsSessions, At

\* All the other steps of a request.
LEMMA OtherStepSessions ==
  ASSUME PortalInv, ResetEndsSessions, NEW b \in Browser,
         \/ Request(b) \/ Turn(b) \/ Failed(b) \/ PortalLookup(b) \/ PortalLogin(b)
         \/ SetPasswordCheck(b) \/ SetPasswordWrite(b) \/ FindToken(b) \/ CountRequests(b)
         \/ ClearCodes(b) \/ CreateCode(b) \/ VerifyCode(b) \/ WrongCode(b) \/ MarkVerified(b)
  PROVE  ResetEndsSessions'
<1>1. UNCHANGED <<resets, portalToken>>
  BY DEF Unchanged, Request, Turn, Failed, PortalLookup, PortalLogin, SetPasswordCheck, SetPasswordWrite,
         FindToken, CountRequests, ClearCodes, CreateCode, VerifyCode, WrongCode, MarkVerified
<1>2. CASE UNCHANGED portalReq
  BY <1>1, <1>2, SessionsKept DEF At
<1>3. CASE ~ UNCHANGED portalReq
  <2>1. ~ At(b, "revokeAll")
    BY <1>3 DEF At, Request, Turn, Failed, PortalLookup, PortalLogin, SetPasswordCheck,
           SetPasswordWrite, FindToken, CountRequests, ClearCodes, CreateCode, VerifyCode, WrongCode, MarkVerified
  <2>2. \A k \in Browser \ {b} : portalReq'[k] = portalReq[k]
    <3>1. CASE Request(b) \/ Turn(b) \/ Failed(b) \/ PortalLookup(b) \/ PortalLogin(b) \/ SetPasswordCheck(b)
      BY <3>1, RowTypes DEF ReqsOK, To, Request, Turn, Failed, PortalLookup, PortalLogin, SetPasswordCheck
    <3>2. CASE SetPasswordWrite(b) \/ FindToken(b) \/ CountRequests(b) \/ ClearCodes(b) \/ CreateCode(b)
      BY <3>2, RowTypes DEF ReqsOK, To, SetPasswordWrite, FindToken, CountRequests, ClearCodes, CreateCode
    <3>3. CASE VerifyCode(b) \/ WrongCode(b) \/ MarkVerified(b)
      BY <3>3, RowTypes DEF ReqsOK, To, VerifyCode, WrongCode, MarkVerified
    <3> QED BY <3>1, <3>2, <3>3
  <2> QED BY <1>1, <2>1, <2>2, SessionsKept DEF At
<1> QED BY <1>2, <1>3

LEMMA ResetNext == PortalInv /\ ResetEndsSessions /\ [PortalNext]_portalVars => ResetEndsSessions'
<1> SUFFICES ASSUME PortalInv, ResetEndsSessions, [PortalNext]_portalVars PROVE ResetEndsSessions'
  OBVIOUS
<1>1. CASE UNCHANGED portalVars
  BY <1>1 DEF portalVars, ResetEndsSessions, At
<1>2. CASE NextWindow \/ \E o \in Code : ExpireCode(o)
  BY <1>2 DEF NextWindow, ExpireCode, ResetEndsSessions, At
<1>3. ASSUME NEW b \in Browser, PortalStep(b)
      PROVE  ResetEndsSessions'
  BY <1>3, OtherStepSessions, TokenStepSessions, PortalIssueSessions, RevokeAllSessions,
     WritePasswordSessions DEF PortalStep
<1> QED BY <1>1, <1>2, <1>3 DEF PortalNext

\* resetPasswordWithOtp(): once a reset has come to its revocation, no refresh token works
\* that was issued before it, whichever requests of other browsers were under way.
THEOREM ResetsEndSessions == PortalSpec => []ResetEndsSessions
<1>1. PortalInit => ResetEndsSessions
  BY DEF PortalInit, ResetEndsSessions
<1> QED BY <1>1, PortalInvInit, PortalInvNext, ResetNext, PTL DEF PortalSpec

-----------------------------------------------------------------------------
(* How often a code is tried *)

LEMMA MissesFinite ==
  ASSUME NEW S \in SUBSET Browser
  PROVE  IsFiniteSet(S) /\ Cardinality(S) \in Nat /\ Cardinality(Browser) \in Nat
         /\ Cardinality(S) <= Cardinality(Browser)
<1>1. IsFiniteSet(Browser)
  BY PortalAssumption
<1> QED BY <1>1, FS_Subset, FS_CardinalityType

LEMMA AttemptsType ==
  ASSUME PortalInv
  PROVE  \A o \in Code : challenge[o].attempts \in Nat
  BY RowTypes DEF Challenge

\* A code no new request is let through for, or with attempts left.
LEMMA TriesKept ==
  ASSUME PortalInv, PortalInv', TriesBounded,
         \A o \in Code : \/ challenge'[o].attempts < MaxVerifyAttempts
                         \/ challenge'[o].attempts = challenge[o].attempts /\ Misses(o)' \subseteq Misses(o)
  PROVE  TriesBounded'
<1> SUFFICES ASSUME NEW o \in Code
             PROVE  (challenge[o].attempts + Cardinality(Misses(o)) < MaxVerifyAttempts + Cardinality(Browser))'
  BY DEF TriesBounded
<1>1. challenge[o].attempts \in Nat /\ challenge'[o].attempts \in Nat /\ MaxVerifyAttempts \in Nat
  BY AttemptsType, RowTypes, PortalAssumption DEF PortalInv, PortalTypeOK, Challenge
<1>2. Misses(o) \in SUBSET Browser /\ Misses(o)' \in SUBSET Browser
  BY DEF Misses
<1>3. /\ Cardinality(Misses(o)) \in Nat /\ Cardinality(Misses(o)') \in Nat
      /\ Cardinality(Browser) \in Nat /\ Cardinality(Misses(o)') <= Cardinality(Browser)
  BY <1>2, MissesFinite
<1>4. CASE challenge'[o].attempts < MaxVerifyAttempts
  BY <1>1, <1>3, <1>4
<1>5. CASE challenge'[o].attempts = challenge[o].attempts /\ Misses(o)' \subseteq Misses(o)
  <2>1. Cardinality(Misses(o)') <= Cardinality(Misses(o))
    BY <1>2, <1>5, MissesFinite, FS_Subset
  <2>2. challenge[o].attempts + Cardinality(Misses(o)) < MaxVerifyAttempts + Cardinality(Browser)
    BY DEF TriesBounded
  <2> QED BY <1>1, <1>3, <1>5, <2>1, <2>2
<1> QED BY <1>4, <1>5

\* A request that was let through counts its miss: one more attempt, one fewer to come.
LEMMA WrongCodeTries ==
  ASSUME PortalInv, PortalInv', TriesBounded, NEW b \in Browser, WrongCode(b)
  PROVE  TriesBounded'
<1>1. PICK o \in Code : o = portalReq[b].code /\ portalReq[b].pc = "miss"
  BY RowTypes DEF WrongCode, At, ReqsOK, PortalReqOK
<1>2. portalReq'[b].pc = "failed" /\ \A k \in Browser \ {b} : portalReq'[k] = portalReq[k]
  BY RowTypes, IdleReqOK DEF WrongCode, ReqsOK, ReqIdle
<1>3. \A x \in Code : Misses(x)' \subseteq Misses(x)
  BY <1>2 DEF Misses
<1>4. CASE challenge[o].st = "deleted"
  BY <1>1, <1>3, <1>4, TriesKept DEF WrongCode
<1>5. CASE challenge[o].st # "deleted"
  <2>1. /\ challenge'[o].attempts = challenge[o].attempts + 1
        /\ \A x \in Code \ {o} : challenge'[x] = challenge[x]
    BY <1>1, <1>5, RowTypes DEF WrongCode, Challenge
  <2>2. Misses(o)' = Misses(o) \ {b} /\ b \in Misses(o)
    BY <1>1, <1>2 DEF Misses
  <2>3. Cardinality(Misses(o)') = Cardinality(Misses(o)) - 1 /\ Cardinality(Misses(o)) \in Nat
    <3>1. IsFiniteSet(Misses(o)) /\ Cardinality(Misses(o)) \in Nat
      BY MissesFinite DEF Misses
    <3> QED BY <2>2, <3>1, FS_RemoveElement
  <2>4. Cardinality(Browser) \in Nat /\ MaxVerifyAttempts \in Nat /\ challenge[o].attempts \in Nat
    BY <1>1, MissesFinite, AttemptsType, PortalAssumption
  <2>5. (challenge[o].attempts + Cardinality(Misses(o)) < MaxVerifyAttempts + Cardinality(Browser))'
    <3>1. challenge[o].attempts + Cardinality(Misses(o)) < MaxVerifyAttempts + Cardinality(Browser)
      BY <1>1 DEF TriesBounded
    <3> QED BY <2>1, <2>3, <2>4, <3>1
  <2>6. ASSUME NEW x \in Code \ {o}
        PROVE  (challenge[x].attempts + Cardinality(Misses(x)) < MaxVerifyAttempts + Cardinality(Browser))'
    <3>1. Misses(x)' = Misses(x)
      BY <1>1, <1>2 DEF Misses
    <3> QED BY <2>1, <3>1 DEF TriesBounded
  <2> QED BY <2>5, <2>6 DEF TriesBounded
<1> QED BY <1>4, <1>5

LEMMA VerifyCodeTries ==
  ASSUME PortalInv, PortalInv', TriesBounded, NEW b \in Browser, VerifyCode(b)
  PROVE  TriesBounded'
<1>1. UNCHANGED challenge
  BY DEF VerifyCode, Unchanged
<1>2. CASE To(b, "failed")
  <2>1. portalReq'[b].pc = "failed" /\ \A k \in Browser \ {b} : portalReq'[k] = portalReq[k]
    BY <1>2, RowTypes, ToStep DEF ReqPc
  <2>2. \A x \in Code : Misses(x)' \subseteq Misses(x)
    BY <2>1 DEF Misses
  <2> QED BY <1>1, <2>2, TriesKept
<1>3. ASSUME NEW o \in Code, NEW pc \in {"mark", "miss"}, challenge[o].attempts < MaxVerifyAttempts,
             portalReq' = [portalReq EXCEPT ![b] = [portalReq[b] EXCEPT !.pc = pc, !.code = o]]
      PROVE  TriesBounded'
  <2>1. portalReq'[b].code = o /\ \A k \in Browser \ {b} : portalReq'[k] = portalReq[k]
    BY <1>3, RowTypes DEF ReqsOK, PortalReq
  <2>2. \A x \in Code \ {o} : Misses(x)' \subseteq Misses(x)
    BY <2>1 DEF Misses
  <2> QED BY <1>1, <1>3, <2>2, TriesKept
<1> QED BY <1>2, <1>3, VerifyCodeEffect

\* New rows have no attempts, deleted ones none either.
LEMMA CodesTries ==
  ASSUME PortalInv, PortalInv', TriesBounded, NEW b \in Browser, ClearCodes(b) \/ CreateCode(b)
  PROVE  TriesBounded'
<1>1. \A k \in Browser \ {b} : portalReq'[k] = portalReq[k]
  BY RowTypes DEF ClearCodes, CreateCode, To, ReqsOK
<1>2. portalReq'[b].pc # "miss"
  <2>1. CASE ClearCodes(b)
    <3>1. portalReq'[b].pc = "create"
      BY <2>1, RowTypes, ToStep DEF ClearCodes, ReqPc
    <3> QED BY <3>1
  <2>2. CASE CreateCode(b)
    BY <2>2, RowTypes, IdleReqOK DEF CreateCode, ReqsOK
  <2> QED BY <2>1, <2>2
<1>3. \A x \in Code : Misses(x)' \subseteq Misses(x)
  BY <1>1, <1>2 DEF Misses
<1>4. 0 < MaxVerifyAttempts
  BY PortalAssumption
<1>5. \A x \in Code : challenge'[x] = challenge[x] \/ challenge'[x].attempts = 0
  <2>1. CASE ClearCodes(b)
    BY <2>1, RowTypes DEF ClearCodes, NoChallenge, Challenge
  <2>2. CASE CreateCode(b)
    BY <2>2, RowTypes DEF CreateCode, Challenge
  <2> QED BY <2>1, <2>2
<1> QED BY <1>3, <1>4, <1>5, TriesKept

LEMMA TimeTries ==
  ASSUME PortalInv, PortalInv', TriesBounded, NextWindow \/ \E o \in Code : ExpireCode(o)
  PROVE  TriesBounded'
<1>1. \A x \in Code : challenge'[x].attempts = challenge[x].attempts
  <2>1. CASE NextWindow
    <3>1. challenge' = [o \in Code |-> [challenge[o] EXCEPT !.recent = FALSE]]
      BY <2>1 DEF NextWindow
    <3> QED BY <3>1, RowTypes DEF Challenge
  <2>2. ASSUME NEW o \in Code, ExpireCode(o)
        PROVE  \A x \in Code : challenge'[x].attempts = challenge[x].attempts
    <3>1. challenge' = [challenge EXCEPT ![o].valid = FALSE]
      BY <2>2 DEF ExpireCode
    <3> QED BY <3>1, RowTypes DEF Challenge
  <2> QED BY <2>1, <2>2
<1>2. \A x \in Code : Misses(x)' = Misses(x)
  BY DEF NextWindow, ExpireCode, Misses
<1> QED BY <1>1, <1>2, TriesKept

\* Every other step leaves the codes alone and lets no request through.
LEMMA OtherStepTries ==
  ASSUME PortalInv, PortalInv', TriesBounded, NEW b \in Browser,
         \/ Request(b) \/ Turn(b) \/ Failed(b) \/ PortalLookup(b) \/ PortalLogin(b)
         \/ SetPasswordCheck(b) \/ SetPasswordWrite(b) \/ FindToken(b) \/ Rotate(b)
         \/ PortalIssue(b) \/ PortalLogout(b) \/ CountRequests(b) \/ MarkVerified(b)
         \/ WritePassword(b) \/ RevokeAll(b)
  PROVE  TriesBounded'
<1>1. \A x \in Code : challenge'[x].attempts = challenge[x].attempts
  <2>1. CASE MarkVerified(b)
    BY <2>1, RowTypes DEF MarkVerified, Challenge
  <2>2. CASE ~ MarkVerified(b)
    BY <2>2 DEF Unchanged, Request, Turn, Failed, PortalLookup, PortalLogin, SetPasswordCheck, SetPasswordWrite,
           FindToken, Rotate, PortalIssue, PortalLogout, CountRequests, WritePassword, RevokeAll
  <2> QED BY <2>1, <2>2
<1>2. /\ \A k \in Browser \ {b} : portalReq'[k] = portalReq[k]
      /\ portalReq'[b] = portalReq[b] \/ portalReq'[b].pc # "miss"
  <2>1. CASE Request(b) \/ Turn(b)
    <3>1. CASE Turn(b)
      BY <3>1 DEF Turn
    <3>2. ASSUME NEW step \in LoginPage \union ForgotPage \union {<<"dashboard", "logout">>}, To(b, step[2])
          PROVE  portalReq'[b].pc # "miss" /\ \A k \in Browser \ {b} : portalReq'[k] = portalReq[k]
      BY <3>2, RowTypes, PageSteps, ToStep
    <3>3. ASSUME portalReq' = [portalReq EXCEPT ![b] = [ReqIdle EXCEPT !.pc = "find", !.tok = page[b].cookie]]
          PROVE  portalReq'[b].pc # "miss" /\ \A k \in Browser \ {b} : portalReq'[k] = portalReq[k]
      BY <3>3, RowTypes DEF ReqsOK, ReqIdle
    <3> QED BY <2>1, <3>1, <3>2, <3>3 DEF Request
  <2>2. CASE Failed(b) \/ PortalLookup(b) \/ PortalIssue(b) \/ PortalLogout(b)
    BY <2>2, RowTypes, IdleReqOK DEF Failed, PortalLookup, PortalIssue, PortalLogout, ReqsOK
  <2>3. CASE PortalLogin(b) \/ SetPasswordCheck(b) \/ SetPasswordWrite(b)
    BY <2>3, RowTypes, ToStep DEF PortalLogin, SetPasswordCheck, SetPasswordWrite, ReqPc
  <2>4. CASE FindToken(b) \/ CountRequests(b) \/ Rotate(b) \/ WritePassword(b) \/ RevokeAll(b)
    BY <2>4, RowTypes, ToStep DEF FindToken, CountRequests, Rotate, WritePassword, RevokeAll, At, ReqPc
  <2>5. CASE MarkVerified(b)
    BY <2>5, RowTypes, IdleReqOK DEF MarkVerified, ReqsOK, ReqIdle
  <2> QED BY <2>1, <2>2, <2>3, <2>4, <2>5
<1>3. \A x \in Code : Misses(x)' \subseteq Misses(x)
  BY <1>2 DEF Misses
<1> QED BY <1>1, <1>3, TriesKept

LEMMA TriesNext == PortalInv /\ PortalInv' /\ TriesBounded /\ [PortalNext]_portalVars => TriesBounded'
<1> SUFFICES ASSUME PortalInv, PortalInv', TriesBounded, [PortalNext]_portalVars PROVE TriesBounded'
  OBVIOUS
<1>1. CASE UNCHANGED portalVars
  <2>1. \A x \in Code : Misses(x)' = Misses(x) /\ UNCHANGED challenge
    BY <1>1 DEF portalVars, Misses
  <2> QED BY <2>1, TriesKept
<1>2. CASE PortalNext
  BY <1>2, OtherStepTries, WrongCodeTries, VerifyCodeTries, CodesTries, TimeTries DEF PortalNext, PortalStep
<1> QED BY <1>1, <1>2

LEMMA TriesInit == PortalInit => TriesBounded
<1> SUFFICES ASSUME PortalInit, NEW o \in Code
             PROVE  challenge[o].attempts + Cardinality(Misses(o)) < MaxVerifyAttempts + Cardinality(Browser)
  BY DEF TriesBounded
<1>1. Misses(o) \in SUBSET Browser /\ challenge[o].attempts = 0
  BY DEF PortalInit, Misses, NoChallenge
<1>2. Cardinality(Misses(o)) \in Nat /\ Cardinality(Browser) \in Nat
      /\ Cardinality(Misses(o)) <= Cardinality(Browser)
  BY <1>1, MissesFinite
<1> QED BY <1>1, <1>2, PortalAssumption

\* However many requests try codes at once, a code is tried at most MAX_VERIFY_ATTEMPTS times
\* and once more for each further request that was let through before the last was counted.
THEOREM AttemptsAreBounded == PortalSpec => []AttemptsBounded
<1>1. PortalInv /\ TriesBounded => AttemptsBounded
  <2> SUFFICES ASSUME PortalInv, TriesBounded, NEW o \in Code
               PROVE  challenge[o].attempts < MaxVerifyAttempts + Cardinality(Browser)
    BY DEF AttemptsBounded
  <2>1. challenge[o].attempts + Cardinality(Misses(o)) < MaxVerifyAttempts + Cardinality(Browser)
    BY DEF TriesBounded
  <2>2. Cardinality(Misses(o)) \in Nat /\ Cardinality(Browser) \in Nat
    BY MissesFinite DEF Misses
  <2> QED BY <2>1, <2>2, AttemptsType, PortalAssumption
<1> QED BY <1>1, PortalInvInit, PortalInvNext, TriesInit, TriesNext, PTL DEF PortalSpec
-----------------------------------------------------------------------------
(* AccessRights                                                            *)

(* The inductive invariant *)

RequestRecord == [pc : RequestPc, to : Endpoint, perms : SUBSET Perm, role : Role, had : SUBSET Perm]
EditRecord == [pc : {"idle", "marks", "desks"}, mark : [Perm -> Mark], desks : SUBSET Desk,
               primary : Desk \union {NoDesk}]

\* AccessTypeOK with the whole of the two records it looks into.
RecordsOK ==
  /\ AccessTypeOK
  /\ request \in RequestRecord
  /\ editor \in [Editor -> EditRecord]
  /\ request.pc # "idle" => session.live

\* What the back end reads for a request it held at that moment: the rights of the account
\* while it is still to read them, the role it has read, and then what it has read.
ReadWasHeld ==
  /\ request.pc \in {"user", "rights"} => Rights \subseteq request.had
  /\ request.pc \in {"rights", "guards", "served"} /\ request.role = SuperRole => request.had = Perm
  /\ request.pc \in {"guards", "served"} => request.perms \subseteq request.had

Saving == \E e \in Editor : editor[e].pc = "desks"

\* The counter validateStaff() looks for is one of the account's, or the account needs none.
DeskFits ==
  /\ account.active
  /\ \/ account.role \in DesklessRole
     \/ (IF session.desk # NoDesk THEN session.desk ELSE account.primary) \in account.desks

\* Between the two commands of a save the counters and the primary one may disagree.
DesksAgree ==
  \/ Saving
  \/ /\ account.primary \in account.desks \union {NoDesk}
     /\ session.live => session.touched \/ DeskFits

RightsInv == RecordsOK /\ ReadWasHeld /\ ServedIsHeld
DesksInv == RecordsOK /\ DesksAgree /\ SignInIsUsable
AccessInv == RightsInv /\ DesksInv

LEMMA RightsInPerm == Rights \subseteq Perm
  BY DEF Rights, RightsOf

LEMMA RightsInPermNext == Rights' \subseteq Perm
  BY DEF Rights, RightsOf

LEMMA RightsOfSuper == account.role = SuperRole => Rights = Perm
  BY DEF Rights, RightsOf

LEMMA NoRequestRecord == NoRequest \in RequestRecord /\ NoRequest.pc = "idle"
  BY AccessAssumption DEF NoRequest, RequestRecord, RequestPc

LEMMA NoEditRecord == NoEdit \in EditRecord /\ NoEdit.pc = "idle"
  BY DEF NoEdit, EditRecord, Mark

\* What the witness of a step of the administrators does to the request under way.
LEMMA WitnessEffect ==
  ASSUME request \in RequestRecord, Witness
  PROVE  /\ request' \in RequestRecord
         /\ request'.pc = request.pc /\ request'.to = request.to
         /\ request'.role = request.role /\ request'.perms = request.perms
         /\ request.had \subseteq request'.had
         /\ request'.pc \in {"user", "rights"} => Rights' \subseteq request'.had
<1>1. CASE request.pc \notin {"user", "rights"}
  BY <1>1 DEF Witness
<1>2. CASE request.pc \in {"user", "rights"}
  <2> DEFINE h == request.had \union Rights'
  <2>1. request' = [request EXCEPT !.had = h]
    BY <1>2 DEF Witness
  <2>2. h \in SUBSET Perm
    BY RightsInPermNext DEF RequestRecord
  <2>3. Rights' \subseteq h /\ request.had \subseteq h
    OBVIOUS
  <2> HIDE DEF h
  <2> QED BY <2>1, <2>2, <2>3 DEF RequestRecord
<1> QED BY <1>1, <1>2

-----------------------------------------------------------------------------
(* Types *)

LEMMA RightsRecordsInit == AccessInit => RecordsOK
<1> SUFFICES ASSUME AccessInit PROVE RecordsOK
  OBVIOUS
<1>1. account \in Account /\ session \in Session /\ override \in [Perm -> Mark]
  BY AccessAssumption DEF AccessInit, Account, Session, NoSession, Mark
<1>2. rolePerms \in [Role -> SUBSET Perm] /\ ipRule \in [Desk -> SUBSET Address] /\ openDesk \subseteq Desk
  BY DEF AccessInit
<1>3. request \in RequestRecord /\ request.pc = "idle"
  BY NoRequestRecord DEF AccessInit
<1>4. editor \in [Editor -> EditRecord]
  BY NoEditRecord DEF AccessInit
<1> QED BY <1>1, <1>2, <1>3, <1>4 DEF RecordsOK, AccessTypeOK, RequestRecord, EditRecord

\* What is left of RecordsOK once the rows have their types.
LEMMA RecordsFrom ==
  ASSUME rolePerms' \in [Role -> SUBSET Perm], account' \in Account, session' \in Session,
         override' \in [Perm -> Mark], ipRule' \in [Desk -> SUBSET Address], openDesk' \subseteq Desk,
         request' \in RequestRecord, editor' \in [Editor -> EditRecord],
         request'.pc # "idle" => session'.live
  PROVE  RecordsOK'
  BY DEF RecordsOK, AccessTypeOK, RequestRecord, EditRecord

LEMMA SetPermissionsRecords ==
  ASSUME RecordsOK, NEW r \in Role, NEW P \in Picks, SetPermissions(r, P)
  PROVE  RecordsOK'
  BY WitnessEffect, RecordsFrom DEF RecordsOK, AccessTypeOK, SetPermissions, Picks

LEMMA DeleteOverridesRecords ==
  ASSUME RecordsOK, NEW e \in Editor, NEW marks \in MarkChoices, DeleteOverrides(e, marks)
  PROVE  RecordsOK'
<1>1. [NoEdit EXCEPT !.pc = "marks", !.mark = marks] \in EditRecord
  BY NoEditRecord DEF EditRecord, MarkChoices
<1>2. editor' \in [Editor -> EditRecord] /\ override' \in [Perm -> Mark]
  BY <1>1 DEF RecordsOK, DeleteOverrides, Mark
<1> QED BY <1>2, WitnessEffect, RecordsFrom DEF RecordsOK, AccessTypeOK, DeleteOverrides

LEMMA CreateOverridesRecords ==
  ASSUME RecordsOK, NEW e \in Editor, CreateOverrides(e)
  PROVE  RecordsOK'
<1>1. editor' \in [Editor -> EditRecord]
  BY NoEditRecord DEF RecordsOK, CreateOverrides
<1>2. override' \in [Perm -> Mark]
  BY DEF RecordsOK, AccessTypeOK, CreateOverrides, EditRecord
<1> QED BY <1>1, <1>2, WitnessEffect, RecordsFrom DEF RecordsOK, AccessTypeOK, CreateOverrides

LEMMA TouchEffect ==
  ASSUME session \in Session, Touch
  PROVE  /\ session' \in Session /\ session'.live = session.live /\ session'.desk = session.desk
         /\ session'.live => session'.touched
  BY DEF Touch, Session

LEMMA SaveUserRecords ==
  ASSUME RecordsOK, NEW e \in Editor, NEW r \in Role, NEW active \in BOOLEAN,
         NEW choice \in DeskChoices, SaveUser(e, r, active, choice)
  PROVE  RecordsOK'
<1>1. choice[1] \subseteq Desk /\ choice[2] \in Desk \union {NoDesk}
  BY DEF DeskChoices
<1>2. [NoEdit EXCEPT !.pc = "desks", !.desks = choice[1], !.primary = choice[2]] \in EditRecord
  BY <1>1, NoEditRecord DEF EditRecord
<1>3. editor' \in [Editor -> EditRecord]
  BY <1>2 DEF RecordsOK, SaveUser
<1>4. account' \in Account
  <2>1. CASE account.exists
    BY <2>1 DEF SaveUser, RecordsOK, AccessTypeOK, Account
  <2>2. CASE ~ account.exists
    <3>1. PICK d \in Desk \union {NoDesk} :
            account' = [account EXCEPT !.exists = TRUE, !.role = r, !.active = active, !.primary = d]
      BY <1>1, <2>2 DEF SaveUser
    <3> QED BY <3>1 DEF RecordsOK, AccessTypeOK, Account
  <2> QED BY <2>1, <2>2
<1> QED BY <1>3, <1>4, TouchEffect, WitnessEffect, RecordsFrom DEF RecordsOK, AccessTypeOK, SaveUser

\* What setAssignments() leaves: counters of the form, and a primary one among them.
LEMMA AssignedDesks ==
  ASSUME RecordsOK, NEW e \in Editor, SetAssignments(e)
  PROVE  /\ account' \in Account /\ account'.role = account.role
         /\ account'.primary \in account'.desks \union {NoDesk}
<1> DEFINE D == editor[e].desks
<1>1. D \subseteq Desk
  BY DEF RecordsOK, EditRecord
<1>2. PICK d \in D \union {NoDesk} : account' = [account EXCEPT !.desks = D, !.primary = d]
  BY DEF SetAssignments
<1> HIDE DEF D
<1> QED BY <1>1, <1>2 DEF RecordsOK, AccessTypeOK, Account

LEMMA SetAssignmentsRecords ==
  ASSUME RecordsOK, NEW e \in Editor, SetAssignments(e)
  PROVE  RecordsOK'
<1>1. editor' \in [Editor -> EditRecord]
  BY NoEditRecord DEF RecordsOK, SetAssignments
<1> QED BY <1>1, AssignedDesks, TouchEffect, WitnessEffect, RecordsFrom
        DEF RecordsOK, AccessTypeOK, SetAssignments

LEMMA SwitchRecords ==
  ASSUME RecordsOK, NEW d \in Desk, SwitchDesk(d) \/ \E a \in Address : SwitchRule(d, a)
  PROVE  RecordsOK'
<1>1. CASE SwitchDesk(d)
  <2>1. openDesk' \subseteq Desk
    BY <1>1 DEF SwitchDesk, RecordsOK, AccessTypeOK
  <2> QED BY <1>1, <2>1, WitnessEffect, RecordsFrom DEF RecordsOK, AccessTypeOK, SwitchDesk
<1>2. ASSUME NEW a \in Address, SwitchRule(d, a)
      PROVE  RecordsOK'
  <2>1. ipRule' \in [Desk -> SUBSET Address]
    BY <1>2 DEF SwitchRule, RecordsOK, AccessTypeOK
  <2> QED BY <1>2, <2>1, WitnessEffect, RecordsFrom DEF RecordsOK, AccessTypeOK, SwitchRule
<1> QED BY <1>1, <1>2

\* resolveCounterForSession() gives one of the account's counters.
LEMMA ResolvedAreAssigned ==
  ASSUME NEW a \in Address, account \in Account,
         account.primary \in account.desks \union {NoDesk}, openDesk \subseteq Desk
  PROVE  ResolvedDesks(a) \subseteq account.desks
  BY AccessAssumption DEF ResolvedDesks, Account

LEMMA SignInRecords ==
  ASSUME RecordsOK, NEW a \in Address, SignIn(a)
  PROVE  RecordsOK'
<1>1. ResolvedDesks(a) \subseteq Desk
  BY DEF ResolvedDesks, RecordsOK, AccessTypeOK, Account
<1>2. PICK d \in Desk \union {NoDesk} :
        session' = [live |-> TRUE, desk |-> d, perms |-> Rights, touched |-> FALSE]
  BY <1>1 DEF SignIn
<1>3. session' \in Session /\ session'.live
  BY <1>2, RightsInPerm DEF Session
<1> QED BY <1>3, RecordsFrom DEF RecordsOK, AccessTypeOK, SignIn

LEMMA SignOffRecords ==
  ASSUME RecordsOK, SignOff
  PROVE  RecordsOK'
<1>1. NoSession \in Session
  BY DEF NoSession, Session
<1> QED BY <1>1, RecordsFrom DEF RecordsOK, AccessTypeOK, SignOff

\* The request takes the state c and nothing else changes.
LEMMA RequestRecords ==
  ASSUME RecordsOK, NEW c \in RequestRecord, request' = c, c.pc # "idle" => session.live,
         UNCHANGED <<rolePerms, account, override, ipRule, openDesk, editor, session>>
  PROVE  RecordsOK'
  BY RecordsFrom DEF RecordsOK, AccessTypeOK

LEMMA AskRecords ==
  ASSUME RecordsOK, NEW e \in Endpoint, Ask(e)
  PROVE  RecordsOK'
<1>1. [NoRequest EXCEPT !.pc = "user", !.to = e, !.had = Rights] \in RequestRecord
  BY NoRequestRecord, RightsInPerm DEF RequestRecord, RequestPc
<1> QED BY <1>1, RequestRecords DEF Ask

LEMMA ReadUserRecords ==
  ASSUME RecordsOK, ReadUser
  PROVE  RecordsOK'
<1>1. request' \in RequestRecord
  BY DEF ReadUser, RecordsOK, AccessTypeOK, RequestRecord, RequestPc, Account
<1> QED BY <1>1, RequestRecords DEF ReadUser, RecordsOK

LEMMA ReadRightsRecords ==
  ASSUME RecordsOK, ReadRights
  PROVE  RecordsOK'
<1>1. request' \in RequestRecord
  BY RightsInPerm DEF ReadRights, RecordsOK, RequestRecord, RequestPc
<1> QED BY <1>1, RequestRecords DEF ReadRights, RecordsOK

LEMMA GuardsRecords ==
  ASSUME RecordsOK, Guards
  PROVE  RecordsOK'
<1>1. request' \in RequestRecord
  BY DEF Guards, RecordsOK, RequestRecord, RequestPc
<1> QED BY <1>1, RequestRecords DEF Guards, RecordsOK

LEMMA AnswerRecords ==
  ASSUME RecordsOK, Answer
  PROVE  RecordsOK'
<1>1. NoSession \in Session
  BY DEF NoSession, Session
<1> QED BY <1>1, NoRequestRecord, RecordsFrom DEF RecordsOK, AccessTypeOK, Answer

LEMMA RightsRecordsNext == RecordsOK /\ [AccessNext]_accessVars => RecordsOK'
<1> SUFFICES ASSUME RecordsOK, [AccessNext]_accessVars PROVE RecordsOK'
  OBVIOUS
<1>1. CASE UNCHANGED accessVars
  BY <1>1 DEF accessVars, RecordsOK, AccessTypeOK
<1>2. CASE AccessNext
  BY <1>2, SetPermissionsRecords, DeleteOverridesRecords, CreateOverridesRecords, SaveUserRecords,
     SetAssignmentsRecords, SwitchRecords, SignInRecords, SignOffRecords, AskRecords, ReadUserRecords,
     ReadRightsRecords, GuardsRecords, AnswerRecords DEF AccessNext
<1> QED BY <1>1, <1>2

-----------------------------------------------------------------------------
(* A request is served with rights the account had *)

\* The steps of the administrators: the request only gains what is held meanwhile.
AdminActs ==
  \/ \E r \in Role, P \in Picks : SetPermissions(r, P)
  \/ \E e \in Editor :
       \/ \E marks \in MarkChoices : DeleteOverrides(e, marks)
       \/ CreateOverrides(e) \/ SetAssignments(e)
       \/ \E r \in Role, active \in BOOLEAN, choice \in DeskChoices : SaveUser(e, r, active, choice)
  \/ \E d \in Desk : SwitchDesk(d) \/ \E a \in Address : SwitchRule(d, a)

LEMMA AdminWitness ==
  ASSUME AdminActs
  PROVE  Witness
  BY DEF AdminActs, SetPermissions, DeleteOverrides, CreateOverrides, SetAssignments, SaveUser,
         SwitchDesk, SwitchRule

LEMMA AdminHeld ==
  ASSUME RightsInv, AdminActs
  PROVE  ReadWasHeld' /\ ServedIsHeld'
<1>1. request'.had \subseteq Perm
  BY AdminWitness, WitnessEffect DEF RightsInv, RecordsOK, RequestRecord
<1>2. ReadWasHeld'
  BY <1>1, AdminWitness, WitnessEffect DEF RightsInv, RecordsOK, ReadWasHeld
<1>3. ServedIsHeld'
  BY AdminWitness, WitnessEffect DEF RightsInv, RecordsOK, ServedIsHeld
<1> QED BY <1>2, <1>3

\* No rights change: what the account holds is what it held.
LEMMA RightsKept ==
  ASSUME UNCHANGED <<rolePerms, account, override>>
  PROVE  Rights' = Rights
  BY DEF Rights, RightsOf

LEMMA ReadUserHeld ==
  ASSUME RightsInv, ReadUser
  PROVE  ReadWasHeld' /\ ServedIsHeld'
<1>1. request'.role = account.role /\ request'.had = request.had /\ request'.pc \in {"401", "rights"}
  BY DEF ReadUser, RightsInv, RecordsOK, RequestRecord
<1>2. Rights' = Rights /\ Rights \subseteq request.had /\ request.had \subseteq Perm
  BY RightsKept DEF ReadUser, RightsInv, ReadWasHeld, RecordsOK, RequestRecord
<1> QED BY <1>1, <1>2, RightsOfSuper DEF ReadWasHeld, ServedIsHeld

LEMMA ReadRightsHeld ==
  ASSUME RightsInv, ReadRights
  PROVE  ReadWasHeld' /\ ServedIsHeld'
<1>1. request'.perms = Rights /\ request'.had = request.had /\ request'.pc = "guards"
      /\ request'.role = request.role
  BY DEF ReadRights, RightsInv, RecordsOK, RequestRecord
<1>2. Rights \subseteq request.had /\ request.pc = "rights"
  BY DEF ReadRights, RightsInv, ReadWasHeld
<1> QED BY <1>1, <1>2 DEF RightsInv, ReadWasHeld, ServedIsHeld

\* The three guards together: an endpoint's permissions are among those that were read, or
\* the role is the one that has them all.
LEMMA PassesMeans ==
  ASSUME NEW e \in Endpoint, NEW role, NEW perms, Passes("staff", e, role, perms)
  PROVE  /\ ~ e.customerOnly
         /\ e.perms \subseteq Perm
         /\ role = SuperRole \/ e.perms \subseteq perms
  BY AccessAssumption DEF Passes, PermsAllow, CustomerGuard, EndpointRecord

LEMMA GuardsHeld ==
  ASSUME RightsInv, Guards
  PROVE  ReadWasHeld' /\ ServedIsHeld'
<1>1. /\ request'.pc = IF Passes("staff", request.to, request.role, request.perms) THEN "served" ELSE "403"
      /\ request'.to = request.to /\ request'.role = request.role
      /\ request'.perms = request.perms /\ request'.had = request.had
      /\ request.to \in Endpoint /\ request.pc = "guards"
  BY DEF Guards, RightsInv, RecordsOK, RequestRecord
<1>2. /\ request.role = SuperRole => request.had = Perm
      /\ request.perms \subseteq request.had
  BY <1>1 DEF RightsInv, ReadWasHeld
<1>3. CASE request'.pc = "served"
  <2>1. Passes("staff", request.to, request.role, request.perms)
    BY <1>1, <1>3
  <2> QED BY <1>1, <1>2, <1>3, <2>1, PassesMeans DEF ReadWasHeld, ServedIsHeld
<1>4. CASE request'.pc # "served"
  BY <1>1, <1>2, <1>4 DEF ReadWasHeld, ServedIsHeld
<1> QED BY <1>3, <1>4

LEMMA SessionHeld ==
  ASSUME RightsInv,
         \/ \E a \in Address : SignIn(a)
         \/ \E e \in Endpoint : Ask(e)
         \/ SignOff \/ Answer
  PROVE  ReadWasHeld' /\ ServedIsHeld'
<1>1. ASSUME NEW e \in Endpoint, Ask(e)
      PROVE  ReadWasHeld' /\ ServedIsHeld'
  <2>1. request'.pc = "user" /\ request'.had = Rights
    BY <1>1, NoRequestRecord DEF Ask, RequestRecord
  <2> QED BY <1>1, <2>1, RightsKept DEF Ask, ReadWasHeld, ServedIsHeld
<1>2. CASE SignOff \/ \E a \in Address : SignIn(a)
  BY <1>2 DEF SignIn, SignOff, ReadWasHeld, ServedIsHeld
<1>3. CASE Answer
  BY <1>3, NoRequestRecord DEF Answer, ReadWasHeld, ServedIsHeld
<1> QED BY <1>1, <1>2, <1>3

LEMMA RightsInvNext == RightsInv /\ [AccessNext]_accessVars => RightsInv'
<1> SUFFICES ASSUME RightsInv, [AccessNext]_accessVars PROVE RightsInv'
  OBVIOUS
<1>1. RecordsOK'
  BY RightsRecordsNext DEF RightsInv
<1>2. CASE UNCHANGED accessVars
  BY <1>1, <1>2 DEF accessVars, RightsInv, ReadWasHeld, ServedIsHeld, Rights, RightsOf
<1>3. CASE AccessNext
  <2>1. ReadWasHeld' /\ ServedIsHeld'
    BY <1>3, AdminHeld, ReadUserHeld, ReadRightsHeld, GuardsHeld, SessionHeld DEF AccessNext, AdminActs
  <2> QED BY <1>1, <2>1 DEF RightsInv
<1> QED BY <1>2, <1>3

LEMMA RightsInvInit == AccessInit => RightsInv
  BY RightsRecordsInit, NoRequestRecord DEF AccessInit, RightsInv, ReadWasHeld, ServedIsHeld

\* A request is served only with permissions the account held at some moment since it was
\* sent, whatever the token says and however the pages of the administrators interleave with
\* the two reads of JwtStrategy; and never one that is for customers.
THEOREM ServedRequestsAreHeld == AccessSpec => []ServedIsHeld
<1>1. RightsInv => ServedIsHeld
  BY DEF RightsInv
<1> QED BY <1>1, RightsInvInit, RightsInvNext, PTL DEF AccessSpec

\* The rows, the records of the administrators and the request have their types.
THEOREM AccessTypes == AccessSpec => []AccessTypeOK
<1>1. RecordsOK => AccessTypeOK
  BY DEF RecordsOK
<1> QED BY <1>1, RightsRecordsInit, RightsRecordsNext, PTL DEF AccessSpec

-----------------------------------------------------------------------------
(* The counter of a sign-in is one the next request accepts *)

\* The counters are being saved: nothing is claimed meanwhile.
LEMMA SavingStep ==
  ASSUME Saving'
  PROVE  DesksAgree' /\ SignInIsUsable'
  BY DEF DesksAgree, SignInIsUsable, Saving

\* A save of counters goes on or none is under way; the account and the session are as they
\* were, and the request is not refused by this step.
LEMMA DesksKept ==
  ASSUME DesksInv, Saving => Saving', UNCHANGED <<account, session>>,
         request'.pc = "401" => request.pc = "401"
  PROVE  DesksAgree' /\ SignInIsUsable'
<1>1. CASE Saving'
  BY <1>1, SavingStep
<1>2. CASE ~ Saving'
  <2>1. ~ Saving
    BY <1>2
  <2> QED BY <2>1 DEF DesksInv, DesksAgree, DeskFits, SignInIsUsable, Saving
<1> QED BY <1>1, <1>2

LEMMA RightsEditDesks ==
  ASSUME DesksInv, NEW e \in Editor,
         CreateOverrides(e) \/ \E marks \in MarkChoices : DeleteOverrides(e, marks)
  PROVE  DesksAgree' /\ SignInIsUsable'
<1>1. Witness /\ UNCHANGED <<account, session>>
  BY DEF CreateOverrides, DeleteOverrides
<1>2. editor[e].pc # "desks" /\ \A k \in Editor \ {e} : editor'[k] = editor[k]
  BY DEF CreateOverrides, DeleteOverrides, DesksInv, RecordsOK
<1>3. Saving => Saving'
  BY <1>2 DEF Saving
<1> QED BY <1>1, <1>3, WitnessEffect, DesksKept DEF DesksInv, RecordsOK

LEMMA RowEditDesks ==
  ASSUME DesksInv,
         \/ \E r \in Role, P \in Picks : SetPermissions(r, P)
         \/ \E d \in Desk : SwitchDesk(d) \/ \E a \in Address : SwitchRule(d, a)
  PROVE  DesksAgree' /\ SignInIsUsable'
<1>1. Witness /\ UNCHANGED <<account, session, editor>>
  BY DEF SetPermissions, SwitchDesk, SwitchRule
<1> QED BY <1>1, WitnessEffect, DesksKept DEF DesksInv, RecordsOK, Saving

LEMMA SaveUserDesks ==
  ASSUME DesksInv, NEW e \in Editor, NEW r \in Role, NEW active \in BOOLEAN,
         NEW choice \in DeskChoices, SaveUser(e, r, active, choice)
  PROVE  DesksAgree' /\ SignInIsUsable'
<1>1. editor'[e].pc = "desks"
  BY NoEditRecord DEF DesksInv, RecordsOK, SaveUser, EditRecord
<1> QED BY <1>1, SavingStep DEF Saving

LEMMA SetAssignmentsDesks ==
  ASSUME DesksInv, NEW e \in Editor, SetAssignments(e)
  PROVE  DesksAgree' /\ SignInIsUsable'
<1>1. account'.primary \in account'.desks \union {NoDesk}
  BY AssignedDesks DEF DesksInv
<1>2. session'.live => session'.touched
  BY TouchEffect DEF SetAssignments, DesksInv, RecordsOK, AccessTypeOK
<1>3. request'.pc = "401" => session'.live
  BY WitnessEffect, TouchEffect DEF SetAssignments, DesksInv, RecordsOK, AccessTypeOK
<1> QED BY <1>1, <1>2, <1>3 DEF DesksAgree, SignInIsUsable

LEMMA SignInDesks ==
  ASSUME DesksInv, NEW a \in Address, SignIn(a)
  PROVE  DesksAgree' /\ SignInIsUsable'
<1>1. request'.pc = "idle" /\ UNCHANGED <<account, editor>>
  BY DEF SignIn
<1>2. CASE Saving
  BY <1>1, <1>2, SavingStep DEF Saving
<1>3. CASE ~ Saving
  <2>1. account.primary \in account.desks \union {NoDesk} /\ account.active
    BY <1>3 DEF DesksInv, DesksAgree, SignIn
  <2>2. PICK d \in IF account.role \in DesklessRole THEN {NoDesk} ELSE ResolvedDesks(a) :
          session' = [live |-> TRUE, desk |-> d, perms |-> Rights, touched |-> FALSE]
    BY DEF SignIn
  <2>3. session'.desk = d
    BY <2>2
  <2>4. account.role \in DesklessRole \/ (d \in account.desks /\ d # NoDesk)
    BY <2>1, <2>2, ResolvedAreAssigned, AccessAssumption DEF DesksInv, RecordsOK, AccessTypeOK, Account
  <2> QED BY <1>1, <2>1, <2>3, <2>4 DEF DesksAgree, DeskFits, SignInIsUsable
<1> QED BY <1>2, <1>3

LEMMA ReadUserDesks ==
  ASSUME DesksInv, ReadUser
  PROVE  DesksAgree' /\ SignInIsUsable'
<1>1. UNCHANGED <<account, session, editor>>
  BY DEF ReadUser
<1>2. DesksAgree'
  BY <1>1 DEF DesksInv, DesksAgree, DeskFits, Saving
<1>3. session.live
  BY DEF ReadUser, DesksInv, RecordsOK
<1>4. CASE Saving \/ session.touched
  BY <1>1, <1>2, <1>4 DEF SignInIsUsable, Saving
<1>5. CASE ~ Saving /\ ~ session.touched
  <2>1. DeskFits
    BY <1>3, <1>5 DEF DesksInv, DesksAgree
  <2>2. request'.pc = "rights"
    BY <2>1 DEF ReadUser, DeskFits, DesksInv, RecordsOK, RequestRecord
  <2> QED BY <1>2, <2>2 DEF SignInIsUsable
<1> QED BY <1>4, <1>5

LEMMA RequestDesks ==
  ASSUME DesksInv, ReadRights \/ Guards \/ \E e \in Endpoint : Ask(e)
  PROVE  DesksAgree' /\ SignInIsUsable'
<1>1. request'.pc # "401" /\ UNCHANGED <<account, session, editor>>
  BY NoRequestRecord DEF ReadRights, Guards, Ask, DesksInv, RecordsOK, RequestRecord
<1>2. Saving => Saving'
  BY <1>1 DEF Saving
<1> QED BY <1>1, <1>2, DesksKept

LEMMA EndDesks ==
  ASSUME DesksInv, SignOff \/ Answer
  PROVE  DesksAgree' /\ SignInIsUsable'
<1>1. request'.pc = "idle" /\ UNCHANGED <<account, editor>>
  BY NoRequestRecord DEF SignOff, Answer
<1>2. session' = session \/ ~ session'.live
  BY DEF SignOff, Answer, NoSession
<1> QED BY <1>1, <1>2 DEF DesksInv, DesksAgree, DeskFits, SignInIsUsable, Saving

LEMMA DesksInvNext == DesksInv /\ [AccessNext]_accessVars => DesksInv'
<1> SUFFICES ASSUME DesksInv, [AccessNext]_accessVars PROVE DesksInv'
  OBVIOUS
<1>1. RecordsOK'
  BY RightsRecordsNext DEF DesksInv
<1>2. CASE UNCHANGED accessVars
  <2>1. (Saving => Saving') /\ UNCHANGED <<account, session, request>>
    BY <1>2 DEF accessVars, Saving
  <2> QED BY <1>1, <2>1, DesksKept DEF DesksInv
<1>3. CASE AccessNext
  <2>1. DesksAgree' /\ SignInIsUsable'
    BY <1>3, RowEditDesks, RightsEditDesks, SaveUserDesks, SetAssignmentsDesks, SignInDesks,
       ReadUserDesks, RequestDesks, EndDesks DEF AccessNext
  <2> QED BY <1>1, <2>1 DEF DesksInv
<1> QED BY <1>2, <1>3

LEMMA DesksInvInit == AccessInit => DesksInv
  BY RightsRecordsInit, NoRequestRecord DEF AccessInit, DesksInv, DesksAgree, SignInIsUsable, NoSession

\* validateStaff() refuses no session whose sign-in was accepted, unless the account was
\* saved since or is being saved: resolveCounterForSession() and it agree on the counters.
THEOREM AcceptedSignInsAreUsable == AccessSpec => []SignInIsUsable
<1>1. DesksInv => SignInIsUsable
  BY DEF DesksInv
<1> QED BY <1>1, DesksInvInit, DesksInvNext, PTL DEF AccessSpec

-----------------------------------------------------------------------------
(* Side by side.  The steps of the modules that are checked together are   *)
(* steps of one of them, some of them left out; the others rest.           *)

LEMMA AccessPartsStep ==
  [MCNext]_<<part, staffVars, portalVars, accessVars>>
    => [StaffNext]_staffVars /\ [PortalNext]_portalVars /\ [AccessNext]_accessVars
<1> SUFFICES ASSUME [MCNext]_<<part, staffVars, portalVars, accessVars>>
             PROVE  [StaffNext]_staffVars /\ [PortalNext]_portalVars /\ [AccessNext]_accessVars
  OBVIOUS
<1>1. CASE UNCHANGED <<part, staffVars, portalVars, accessVars>>
  BY <1>1
<1>2. CASE (CashiersStep \/ ContestStep \/ AdminStep) /\ UNCHANGED <<portalVars, accessVars>>
  BY <1>2 DEF CashiersStep, ContestStep, AdminStep
<1>3. CASE PortalNext /\ UNCHANGED <<staffVars, accessVars>>
  BY <1>3
<1>4. CASE (RightsStep \/ DesksStep) /\ UNCHANGED <<staffVars, portalVars>>
  BY <1>4 DEF RightsStep, DesksStep
<1> QED BY <1>1, <1>2, <1>3, <1>4 DEF MCNext

\* The types of sessions, portal and rights hold where they are checked side by side: a run there is
\* one of each part's own specification, whichever of its steps the run leaves out.
THEOREM AccessTypesTogether == MCSpec => []TypesOK
<1>1. MCInit => StaffInit /\ PortalInit /\ AccessInit
  BY DEF MCInit
<1>2. MCSpec => StaffSpec /\ PortalSpec /\ AccessSpec
  BY <1>1, AccessPartsStep, PTL DEF MCSpec, StaffSpec, PortalSpec, AccessSpec
<1>3. StaffTypeOK /\ PortalTypeOK /\ AccessTypeOK => TypesOK
  BY DEF TypesOK
<1> QED BY <1>2, <1>3, StaffTypes, PortalTypes, AccessTypes, PTL
=============================================================================
