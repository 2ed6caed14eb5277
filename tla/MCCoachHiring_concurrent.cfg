SPECIFICATION Spec
CONSTANTS
  Trainers = {t1, t2}
  Emails = {e1}
  LinkIds = {l1, l2, l3}
  UserIds = {u1, u2}
  EngagementIds = {p1, p2}
  Requests = {r1, r2}
  None = None
  Endpoints = {"invite", "resend", "revoke", "accept", "offboard", "edit", "adminEdit", "erase", "register"}
SYMMETRY Symmetry
INVARIANT OneActiveEngagement
INVARIANT AcceptedOnce
INVARIANT IInv
PROPERTY HiresAreInvited
CHECK_DEADLOCK FALSE
