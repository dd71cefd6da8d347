--------------------------- MODULE AccessRights ----------------------------
(***************************************************************************)
(* What a member of staff may do and where: PermissionService, RoleService, *)
(* UserMasterService, UserCounterService and IpAllowlistService, the pages *)
(* of the administrators that call them, and the guards every request      *)
(* passes.  One account is followed; accounts meet only in their role.     *)
(* The pages send whatever their form holds, so a save takes any choice.   *)
(* The counter lock is in StaffSessions.                                   *)
(***************************************************************************)
EXTENDS Naturals, FiniteSets

CONSTANTS
  Perm,
  Role,               \* the role column of an account
  SuperRole,          \* \in Role: has every permission and no counter
  DesklessRole,       \* \subseteq Role: super_admin and admin
  Desk,               \* counters
  Address,
  Endpoint,           \* see EndpointRecord
  Editor,             \* administrators with a page open
  NoDesk

EndpointRecord ==
  [public : BOOLEAN, customerOnly : BOOLEAN, perms : SUBSET Perm, roles : SUBSET Role]

ASSUME AccessAssumption ==
  /\ SuperRole \in DesklessRole /\ DesklessRole \subseteq Role /\ NoDesk \notin Desk
  /\ Endpoint \subseteq EndpointRecord /\ Endpoint # {}

VARIABLES
  rolePerms,   \* role_permission
  account,     \* the row in users and its user_counters
  override,    \* its user_permissions: "grant", "revoke" or none for each code
  ipRule,      \* the addresses the active rules of a counter match
  openDesk,    \* counter.is_active
  editor,      \* the save of an administrator between two commands
  session,     \* the access token of the account, or none
  request      \* its request under way

accessVars == <<rolePerms, account, override, ipRule, openDesk, editor, session, request>>

Mark == {"none", "grant", "revoke"}
Account == [exists : BOOLEAN, active : BOOLEAN, role : Role, desks : SUBSET Desk,
            primary : Desk \union {NoDesk}]
Session == [live : BOOLEAN, desk : Desk \union {NoDesk}, perms : SUBSET Perm, touched : BOOLEAN]
NoSession == [live |-> FALSE, desk |-> NoDesk, perms |-> {}, touched |-> FALSE]
RequestPc == {"idle", "user", "rights", "guards", "served", "401", "403"}
NoRequest == [pc |-> "idle", to |-> CHOOSE e \in Endpoint : TRUE, perms |-> {}, role |-> SuperRole,
              had |-> {}]
NoEdit == [pc |-> "idle", mark |-> [p \in Perm |-> "none"], desks |-> {}, primary |-> NoDesk]

AccessTypeOK ==
  /\ rolePerms \in [Role -> SUBSET Perm]
  /\ account \in Account /\ session \in Session
  /\ override \in [Perm -> Mark]
  /\ ipRule \in [Desk -> SUBSET Address] /\ openDesk \subseteq Desk
  /\ request.pc \in RequestPc /\ request.to \in Endpoint /\ request.role \in Role
  /\ \A e \in Editor : editor[e].pc \in {"idle", "marks", "desks"}

\* The roles exist, the account does not; the counters are open to any address.
AccessInit ==
  /\ rolePerms = [r \in Role |-> {}]
  /\ account = [exists |-> FALSE, active |-> TRUE, role |-> SuperRole, desks |-> {}, primary |-> NoDesk]
  /\ override = [p \in Perm |-> "none"]
  /\ ipRule = [d \in Desk |-> {}] /\ openDesk = Desk
  /\ editor = [e \in Editor |-> NoEdit]
  /\ session = NoSession /\ request = NoRequest

-----------------------------------------------------------------------------
\* getPermissionsForUser()
RightsOf(role, perms, marks) ==
  IF role = SuperRole THEN Perm
  ELSE {p \in Perm : marks[p] = "grant" \/ (p \in perms[role] /\ marks[p] # "revoke")}

Rights == RightsOf(account.role, rolePerms, override)

\* Every step notes for the pending request what was held meanwhile.
Witness ==
  request' = IF request.pc \notin {"user", "rights"} THEN request
             ELSE [request EXCEPT !.had = @ \union Rights']

Touch == session' = [session EXCEPT !.touched = session.live]

-----------------------------------------------------------------------------
(* The administrators.                                                     *)

\* PermissionPicker and the form for extra permissions, where granting a permission takes its
\* revocation back and the other way round.
Picks == SUBSET Perm
MarkChoices == [Perm -> Mark]

\* setPermissions(): the rows of a role are replaced in one transaction.
SetPermissions(r, P) ==
  /\ r # SuperRole
  /\ rolePerms' = [rolePerms EXCEPT ![r] = P]
  /\ UNCHANGED <<account, override, ipRule, openDesk, editor, session>> /\ Witness

\* setUserPermissionOverrides(): deleteMany, then createMany with skipDuplicates.
DeleteOverrides(e, marks) ==
  /\ editor[e].pc = "idle" /\ account.exists
  /\ override' = [p \in Perm |-> "none"]
  /\ editor' = [editor EXCEPT ![e] = [NoEdit EXCEPT !.pc = "marks", !.mark = marks]]
  /\ UNCHANGED <<rolePerms, account, ipRule, openDesk, session>> /\ Witness

CreateOverrides(e) ==
  /\ editor[e].pc = "marks"
  /\ override' = [p \in Perm |-> IF override[p] = "none" THEN editor[e].mark[p] ELSE override[p]]
  /\ editor' = [editor EXCEPT ![e] = NoEdit]
  /\ UNCHANGED <<rolePerms, account, ipRule, openDesk, session>> /\ Witness

\* What the form of a user sends: its counters, and one of them or none as the primary one.
DeskChoices == {c \in (SUBSET Desk) \X (Desk \union {NoDesk}) : c[2] \in c[1] \union {NoDesk}}

\* UserMasterService.create() and update(): the row first, then the assignments.
SaveUser(e, r, active, choice) ==
  LET first == IF choice[2] # NoDesk THEN {choice[2]} ELSE choice[1]
  IN /\ editor[e].pc = "idle"
     /\ IF account.exists
        THEN account' = [account EXCEPT !.role = r, !.active = active]
        ELSE \E d \in IF first = {} THEN {NoDesk} ELSE first :
               account' = [account EXCEPT !.exists = TRUE, !.role = r, !.active = active, !.primary = d]
     /\ editor' = [editor EXCEPT ![e] = [NoEdit EXCEPT !.pc = "desks", !.desks = choice[1], !.primary = choice[2]]]
     /\ Touch /\ UNCHANGED <<rolePerms, override, ipRule, openDesk>> /\ Witness

\* (Faulty variant: users.counter_id is left as it was.)
KeepPrimary(e) ==
  /\ editor[e].pc = "desks"
  /\ account' = [account EXCEPT !.desks = editor[e].desks]
  /\ editor' = [editor EXCEPT ![e] = NoEdit]
  /\ Touch /\ UNCHANGED <<rolePerms, override, ipRule, openDesk>> /\ Witness

\* UserCounterService.setAssignments(), one transaction.
SetAssignments(e) ==
  LET D == editor[e].desks
  IN /\ editor[e].pc = "desks"
     /\ \E d \in IF D = {} THEN {NoDesk} ELSE IF editor[e].primary \in D THEN {editor[e].primary} ELSE D :
          account' = [account EXCEPT !.desks = D, !.primary = d]
     /\ editor' = [editor EXCEPT ![e] = NoEdit]
     /\ Touch /\ UNCHANGED <<rolePerms, override, ipRule, openDesk>> /\ Witness

\* The rules of a counter, and the counter itself, are switched on and off one at a time.
SwitchRule(d, a) ==
  /\ ipRule' = [ipRule EXCEPT ![d] = IF a \in @ THEN @ \ {a} ELSE @ \union {a}]
  /\ UNCHANGED <<rolePerms, account, override, openDesk, editor, session>> /\ Witness

SwitchDesk(d) ==
  /\ openDesk' = IF d \in openDesk THEN openDesk \ {d} ELSE openDesk \union {d}
  /\ UNCHANGED <<rolePerms, account, override, ipRule, editor, session>> /\ Witness

-----------------------------------------------------------------------------
(* Signing in.                                                             *)
IpAllowed(d, a) == ipRule[d] = {} \/ a \in ipRule[d]

\* resolveCounterForSession(): the assigned counters that are active and open to the address,
\* the primary one first; without any active assignment, users.counter_id.
ResolvedDesks(a) ==
  LET active == account.desks \intersect openDesk
      fits(S) == {d \in S : IpAllowed(d, a)}
  IN IF active = {}
     THEN fits({account.primary} \intersect openDesk)
     ELSE IF account.primary \in fits(active) THEN {account.primary} ELSE fits(active)

SignIn(a) ==
  /\ ~session.live /\ request.pc = "idle" /\ account.exists /\ account.active
  /\ \E d \in IF account.role \in DesklessRole THEN {NoDesk} ELSE ResolvedDesks(a) :
       session' = [live |-> TRUE, desk |-> d, perms |-> Rights, touched |-> FALSE]
  /\ UNCHANGED <<rolePerms, account, override, ipRule, openDesk, editor, request>>

SignOff ==
  /\ session.live /\ request.pc = "idle"
  /\ session' = NoSession
  /\ UNCHANGED <<rolePerms, account, override, ipRule, openDesk, editor, request>>

-----------------------------------------------------------------------------
(* A request: JwtStrategy reads the user, then the permissions; the guards *)
(* decide on what was read.                                                *)
Ask(e) ==
  /\ session.live /\ request.pc = "idle"
  /\ request' = [NoRequest EXCEPT !.pc = "user", !.to = e, !.had = Rights]
  /\ UNCHANGED <<rolePerms, account, override, ipRule, openDesk, editor, session>>

\* validateStaff(): an active user whose counter session is for one of the user's counters.
ReadUser ==
  LET desk == IF session.desk # NoDesk THEN session.desk ELSE account.primary
  IN /\ request.pc = "user"
     /\ request' = [request EXCEPT !.role = account.role, !.pc =
          IF ~account.active \/ (account.role \notin DesklessRole /\ desk \notin account.desks)
          THEN "401" ELSE "rights"]
     /\ UNCHANGED <<rolePerms, account, override, ipRule, openDesk, editor, session>>

\* (Faulty variant: the permissions of the token are taken.)
TrustToken ==
  /\ request.pc = "rights"
  /\ request' = [request EXCEPT !.perms = session.perms, !.pc = "guards"]
  /\ UNCHANGED <<rolePerms, account, override, ipRule, openDesk, editor, session>>

ReadRights ==
  /\ request.pc = "rights"
  /\ request' = [request EXCEPT !.perms = Rights, !.pc = "guards"]
  /\ UNCHANGED <<rolePerms, account, override, ipRule, openDesk, editor, session>>

\* StaffOnlyGuard, RolesGuard and PermissionsGuard, for a token of a principal.
StaffOnly(principal, e) == e.public \/ e.customerOnly \/ principal = "staff"
RolesAllow(principal, e, role) ==
  e.perms # {} \/ e.roles = {} \/ (principal = "staff" /\ role \in e.roles)
PermsAllow(principal, e, role, perms) ==
  e.perms = {} \/ (principal = "staff" /\ (role = SuperRole \/ e.perms \subseteq perms))
CustomerGuard(principal, e) == e.customerOnly => principal = "customer"

Passes(principal, e, role, perms) ==
  /\ StaffOnly(principal, e) /\ RolesAllow(principal, e, role)
  /\ PermsAllow(principal, e, role, perms) /\ CustomerGuard(principal, e)

Guards ==
  /\ request.pc = "guards"
  /\ request' = [request EXCEPT !.pc = IF Passes("staff", request.to, request.role, request.perms)
                                       THEN "served" ELSE "403"]
  /\ UNCHANGED <<rolePerms, account, override, ipRule, openDesk, editor, session>>

\* The answer; a 401 ends in a new sign-in.
Answer ==
  /\ request.pc \in {"served", "401", "403"}
  /\ request' = NoRequest
  /\ session' = IF request.pc = "401" THEN NoSession ELSE session
  /\ UNCHANGED <<rolePerms, account, override, ipRule, openDesk, editor>>

-----------------------------------------------------------------------------
AccessNext ==
  \/ \E r \in Role, P \in Picks : SetPermissions(r, P)
  \/ \E e \in Editor :
       \/ \E marks \in MarkChoices : DeleteOverrides(e, marks)
       \/ CreateOverrides(e) \/ SetAssignments(e)
       \/ \E r \in Role, active \in BOOLEAN, choice \in DeskChoices : SaveUser(e, r, active, choice)
  \/ \E d \in Desk : SwitchDesk(d) \/ \E a \in Address : SwitchRule(d, a)
  \/ \E a \in Address : SignIn(a)
  \/ \E e \in Endpoint : Ask(e)
  \/ SignOff \/ ReadUser \/ ReadRights \/ Guards \/ Answer

AccessSpec == AccessInit /\ [][AccessNext]_accessVars

-----------------------------------------------------------------------------
\* A request is served only if its permissions were the account's at some moment since it
\* was sent: a permission taken away in any page counts from the next request on, whatever
\* the token says.  No staff token passes for a customer's.
ServedIsHeld ==
  request.pc = "served" => request.to.perms \subseteq request.had /\ ~request.to.customerOnly

\* Where a sign-in was accepted the next request is: a session's counter is one of the
\* account's, unless the account was saved since, or is being saved.
SignInIsUsable ==
  request.pc = "401" => session.touched \/ \E e \in Editor : editor[e].pc = "desks"
=============================================================================
