----------------------------- MODULE MCAccess ------------------------------
(* Small instances of the modules about who may do what.  They share no state, *)
(* so a behaviour follows one of them and the others rest.                     *)
EXTENDS StaffSessions, CustomerPortal, AccessRights, TLC

CONSTANTS m1, m2, m3, c1, c2, s1, s2, u1, u2, admin, p1, p2,
          perm, cashier, super, d1, d2, a1, e1

VARIABLE part

\* Two machines of two counters, the calls of one of them interleave; a third that shares
\* the counter of the first.
MCCounterAt == m1 :> c1 @@ m2 :> c2 @@ m3 :> c1
MCSlotsAt == m1 :> {s1, s2} @@ m2 :> {} @@ m3 :> {}

\* An endpoint that asks for a permission, for a role, for a customer.
MCEndpoint ==
  {[public |-> FALSE, customerOnly |-> FALSE, perms |-> {perm}, roles |-> {}],
   [public |-> FALSE, customerOnly |-> FALSE, perms |-> {}, roles |-> {super}],
   [public |-> FALSE, customerOnly |-> TRUE, perms |-> {}, roles |-> {}]}

\* The permissions of an account and its counters do not depend on one another.
RightsStep ==
  /\ AccessNext /\ ipRule' = ipRule /\ openDesk' = openDesk
  /\ \A e \in Editor : editor'[e].pc = "desks" => editor'[e].desks = {d1} /\ editor'[e].primary = d1
DesksStep ==
  /\ AccessNext /\ rolePerms' = rolePerms /\ override' = override /\ request'.to = request.to
  /\ \A e \in Editor : editor'[e].pc # "marks"

\* An administrator locks no counter: the two cashiers are followed without one.
Rests(m) == auth'[m] = AuthIdle
CashiersStep == StaffNext /\ \A m \in Machine : auth'[m].user # admin /\ Rests(m3)
ContestStep == StaffNext /\ \A m \in Machine : auth'[m].user # admin /\ Rests(m2)
                         /\ \E s \in {s1, s2} : call'[m1][s] = CallIdle
AdminStep == StaffNext /\ \A m \in Machine : auth'[m].user \in {admin, NoUser} /\ Rests(m3)

MCInit ==
  /\ part \in {"cashiers", "contest", "admin", "portal", "rights", "desks"}
  /\ StaffInit /\ PortalInit /\ AccessInit

MCNext ==
  /\ UNCHANGED part
  /\ \/ part = "cashiers" /\ CashiersStep /\ UNCHANGED <<portalVars, accessVars>>
     \/ part = "contest" /\ ContestStep /\ UNCHANGED <<portalVars, accessVars>>
     \/ part = "admin" /\ AdminStep /\ UNCHANGED <<portalVars, accessVars>>
     \/ part = "portal" /\ PortalNext /\ UNCHANGED <<staffVars, accessVars>>
     \/ part = "rights" /\ RightsStep /\ UNCHANGED <<staffVars, portalVars>>
     \/ part = "desks" /\ DesksStep /\ UNCHANGED <<staffVars, portalVars>>

MCSpec == MCInit /\ [][MCNext]_<<part, staffVars, portalVars, accessVars>>

\* The states of each module have the shape its comments give them.
TypesOK == StaffTypeOK /\ PortalTypeOK /\ AccessTypeOK

Symmetry == Permutations({u1, u2}) \union Permutations({s1, s2}) \union Permutations({p1, p2})
=============================================================================
