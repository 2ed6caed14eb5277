SPECIFICATION Spec
CONSTANTS
  Accounts = {a1, a2}
  OldAccounts = {a1}
  Trainers = {t1}
  ProfileIds = {p1, p2}
  LinkIds = {l1}
  Requests = {r1, r2}
  None = None
  Endpoints = {"createLink", "register", "joinRegister", "join", "addByCode", "addExisting", "createChild", "remove", "rosterRemove", "switch", "clear", "refresh"}
SYMMETRY Symmetry
INVARIANT IInv
INVARIANT FamilyJoinedByCode
INVARIANT SelfProfilePerLink
INVARIANT ContextsWithinFamily
CHECK_DEADLOCK FALSE
