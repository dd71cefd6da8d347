SPECIFICATION MCSpec
CONSTANTS
  m1 = m1
  m2 = m2
  m3 = m3
  c1 = c1
  c2 = c2
  s1 = s1
  s2 = s2
  u1 = u1
  u2 = u2
  admin = admin
  p1 = p1
  p2 = p2
  perm = perm
  cashier = cashier
  super = super
  d1 = d1
  d2 = d2
  a1 = a1
  e1 = e1
  User = {u1, u2, admin}
  Admin = {admin}
  Counter = {c1, c2}
  Machine = {m1, m2, m3}
  Slot = {s1, s2}
  Token = {1, 2}
  NoUser = NoUser
  NoCounter = NoCounter
  NoToken = NoToken
  Overlap = FALSE
  CounterAt <- MCCounterAt
  SlotsAt <- MCSlotsAt
  Browser = {p1, p2}
  PortalToken = {1, 2}
  Code = {1, 2}
  MaxVerifyAttempts = 1
  MaxRequests = 1
  NoTok = NoTok
  Perm = {perm}
  Role = {cashier, super}
  SuperRole = super
  DesklessRole = {super}
  Desk = {d1, d2}
  Address = {a1}
  Endpoint <- MCEndpoint
  Editor = {e1}
  NoDesk = NoDesk
SYMMETRY Symmetry
INVARIANTS TypesOK LockIsNoted  ResetEndsSessions AttemptsBounded ServedIsHeld SignInIsUsable
 
CHECK_DEADLOCK FALSE
