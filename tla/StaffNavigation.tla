-------------------------- MODULE StaffNavigation --------------------------
(***************************************************************************)
(* Which page of the front end a tab shows: AuthBootstrap restores a       *)
(* session from the cookies, GuestGuard, AuthGuard, HomeRedirect and       *)
(* CustomerAuthGuard redirect in effects that run after every render, and  *)
(* the routes they choose come from roles.ts, permissions.ts and           *)
(* role-utils.ts.  Whoever uses the tab waits for a page before going on.  *)
(***************************************************************************)
EXTENDS Naturals, FiniteSets

CONSTANTS
  Staff,
  Profile,        \* [Staff -> ProfileRecord]
  Nobody, ACustomer,
  PageCode,       \* the permission codes that open pages
  AdminCode       \* \subseteq PageCode: master.* but master.customer.*, inventory, audit, reports, security

RoleKey == {"super_admin", "admin", "cashier"}
ProfileRecord == [role : RoleKey, key : RoleKey \union {"custom"}, perms : SUBSET PageCode, desk : BOOLEAN]

\* The server signs nobody in without a counter but those it exempts from one.
ASSUME NavigationAssumption ==
  /\ Profile \in [Staff -> ProfileRecord] /\ AdminCode \subseteq PageCode
  /\ {Nobody, ACustomer} \intersect Staff = {} /\ Nobody # ACustomer
  /\ \A u \in Staff : Profile[u].desk \/ Profile[u].role # "cashier" \/ Profile[u].key \in {"super_admin", "admin"}

VARIABLES
  at,        \* the route of the tab
  wanted,    \* the redirect parameter of /login
  who,       \* authSlice: nobody, a customer, or the profile of a member of staff
  booted,    \* isBootstrapped
  loading,   \* uiSlice: routeLoading
  cookies    \* the sessions whose refresh cookies the browser has

navVars == <<at, wanted, who, booted, loading, cookies>>

AdminRoute == {"/dashboard", "/masters", "/inventory"}
Route == AdminRoute \union {"/", "/login", "/billing", "/customer/login", "/customer/dashboard"}
IsStaff(w) == w \in Staff

NavInit ==
  /\ at \in Route /\ wanted = "/" /\ who = Nobody
  /\ booted = FALSE /\ loading = FALSE
  /\ cookies \in SUBSET (Staff \union {ACustomer}) /\ Cardinality(cookies \intersect Staff) <= 1

-----------------------------------------------------------------------------
(* role-utils.ts, permissions.ts, roles.ts                                 *)
EffectiveRole(u) == IF Profile[u].key \in RoleKey THEN Profile[u].key ELSE Profile[u].role
IsAdminUser(u) == EffectiveRole(u) \in {"super_admin", "admin"}
HasNonCounterAccess(u) == IsAdminUser(u) \/ Profile[u].perms \intersect AdminCode # {}
IsCounterOnly(u) ==
  /\ ~HasNonCounterAccess(u)
  /\ EffectiveRole(u) = "cashier" \/ "billing.access" \in Profile[u].perms \/ Profile[u].desk
CanAccessBilling(u) == Profile[u].role = "cashier" => Profile[u].desk

\* (Faulty variant: everyone who is not a cashier by role lands on the dashboard.)
HomeByRole(u) == IF EffectiveRole(u) = "cashier" /\ Profile[u].key # "custom" THEN "/billing" ELSE "/dashboard"

\* getHomeRouteForUser(), getAdminLandingRoute(), getHomeRoute()
HomeRoute(u) ==
  IF IsCounterOnly(u) \/ (~HasNonCounterAccess(u) /\ EffectiveRole(u) = "cashier")
  THEN "/billing" ELSE "/dashboard"

\* resolvePostLoginPath()
PostLoginPath(u, path) ==
  CASE path \in {"/", "/login"} -> HomeRoute(u)
    [] path \in AdminRoute -> IF HasNonCounterAccess(u) THEN path ELSE HomeRoute(u)
    [] OTHER -> path

-----------------------------------------------------------------------------
(* Where the effect of a guard sends the tab, and what is rendered there.  *)
GuestGuard == IF IsStaff(who) THEN HomeRoute(who) ELSE at

HomeRedirect ==
  CASE who = Nobody -> at
    [] who = ACustomer -> "/customer/dashboard"
    [] OTHER -> HomeRoute(who)

AuthGuard ==
  CASE ~IsStaff(who) -> "/login"
    [] IsStaff(who) /\ at \in AdminRoute /\ ~HasNonCounterAccess(who) -> HomeRoute(who)
    [] OTHER -> at

CustomerAuthGuard == IF who # ACustomer THEN "/customer/login" ELSE at

Target ==
  CASE at = "/" -> HomeRedirect
    [] at = "/login" -> GuestGuard
    [] at = "/customer/dashboard" -> CustomerAuthGuard
    [] at = "/customer/login" -> at
    [] OTHER -> AuthGuard

\* A page rather than a spinner is rendered.
Shown ==
  /\ booted /\ Target = at
  /\ at = "/login" => who = Nobody
  /\ at \in AdminRoute => HasNonCounterAccess(who)

\* The warning of AuthGuard in the place of the billing screen.
NoCounterHere == Shown /\ at = "/billing" /\ ~CanAccessBilling(who)

-----------------------------------------------------------------------------
Goto(r) == at' = r /\ wanted' = IF r = "/login" /\ at # "/login" THEN at ELSE "/"

Redirect ==
  /\ booted /\ Target # at
  /\ Goto(Target)
  /\ loading' = (Target \notin {"/customer/login"} \/ loading)
  /\ UNCHANGED <<who, booted, cookies>>

\* NavigationListener: a while after the route has changed.
StopLoading ==
  /\ loading /\ Shown
  /\ loading' = FALSE
  /\ UNCHANGED <<at, wanted, who, booted, cookies>>

\* restoreSession(): the customer's on the customer's pages, else that of staff first.  Either
\* refresh may fail, and a timeout ends the bootstrap with nobody signed in: what comes later
\* is dropped, for the effect is cancelled then.
RestoreSession ==
  LET staff == IF at \in {"/customer/login", "/customer/dashboard"} THEN {} ELSE cookies \intersect Staff
      customer == cookies \intersect {ACustomer}
  IN /\ ~booted /\ booted' = TRUE
     /\ who' \in staff \union customer \union {Nobody}
     /\ UNCHANGED <<at, wanted, loading, cookies>>

\* login(): GuestGuard's redirect and the page's own replace one another in either order.
SignInStaff(u) ==
  /\ Shown /\ ~loading /\ at = "/login"
  /\ who' = u /\ cookies' = (cookies \ Staff) \union {u}
  /\ \E r \in {PostLoginPath(u, wanted), HomeRoute(u)} : Goto(r)
  /\ loading' = TRUE /\ UNCHANGED booted

SignInCustomer ==
  /\ Shown /\ ~loading /\ at = "/customer/login"
  /\ who' = ACustomer /\ cookies' = cookies \union {ACustomer}
  /\ Goto("/customer/dashboard") /\ UNCHANGED <<booted, loading>>

\* handleLogout(): the cookie goes only with a good answer, the tab leaves in any case.
SignOutTab ==
  /\ Shown /\ ~loading /\ who # Nobody /\ at \notin {"/customer/login"}
  /\ who' = Nobody /\ \E c \in {cookies, cookies \ {who}} : cookies' = c
  /\ Goto(IF who = ACustomer THEN "/customer/login" ELSE "/login")
  /\ loading' = (who # ACustomer) /\ UNCHANGED booted

\* The second 401 of a call (baseApi).
SessionLost ==
  /\ booted /\ who # Nobody /\ who' = Nobody
  /\ UNCHANGED <<at, wanted, booted, loading, cookies>>

\* The links of the layouts, the landing page and the warning.
Links ==
  CASE at = "/" -> {"/login", "/customer/login"}
    [] at \in AdminRoute -> {"/dashboard"} \union (IF CanAccessBilling(who) THEN {"/billing"} ELSE {})
                            \union {r \in {"/masters", "/inventory"} : HasNonCounterAccess(who)}
    [] at = "/billing" -> (IF HasNonCounterAccess(who) THEN {"/dashboard"} ELSE {})
                          \union (IF NoCounterHere THEN {"/login"} ELSE {})
    [] OTHER -> {}

Follow ==
  /\ Shown /\ ~loading
  /\ \E r \in Links \ {at} : Goto(r)
  /\ loading' = TRUE /\ UNCHANGED <<who, booted, cookies>>

\* An address is typed in, or the page reloaded: only the cookies are left.
Visit(r) ==
  /\ Shown /\ ~loading
  /\ at' = r /\ wanted' = "/" /\ who' = Nobody /\ booted' = FALSE
  /\ UNCHANGED <<loading, cookies>>

NavNext ==
  \/ Redirect \/ StopLoading \/ RestoreSession
  \/ \E u \in Staff : SignInStaff(u)
  \/ SignInCustomer \/ SignOutTab \/ SessionLost \/ Follow
  \/ \E r \in Route : Visit(r)

\* The effects and timers of the page run; nobody has to do anything.
NavFairness == WF_navVars(Redirect) /\ WF_navVars(RestoreSession) /\ WF_navVars(StopLoading)
NavSpec == NavInit /\ [][NavNext]_navVars /\ NavFairness

-----------------------------------------------------------------------------
NavTypeOK ==
  /\ at \in Route /\ wanted \in Route /\ booted \in BOOLEAN /\ loading \in BOOLEAN
  /\ who \in Staff \union {Nobody, ACustomer} /\ cookies \subseteq Staff \union {ACustomer}

\* Redirects come to an end: whatever the role, the extra permissions and the session of a
\* member of staff, a tab that shows a spinner or the loading bar comes to show a page that
\* no guard turns away from, without anybody's help.
StaffPageSettles == (who # ACustomer /\ ~(Shown /\ ~loading)) ~> ((Shown /\ ~loading) \/ who = ACustomer)
=============================================================================
