SPECIFICATION Spec
CONSTANTS
    UserIds = {p, u1, u2}
    Parent = p
    Emails = {e0, e1}
    ParentEmail = e0
    TokenIds = {t1, t2}
    Profiles = {k1}
    Requests = {r1, r2}
    None = None
    Endpoints = {"register", "createTrainer", "createLogin", "revokeLogin", "verify", "resend", "forgot", "reset", "setup", "delete", "reactivate"}
SYMMETRY Symmetry
INVARIANT IInv
INVARIANT OneAccountPerEmail
INVARIANT TokenSpentOnce
INVARIANT CredentialsAreEarned
INVARIANT ErasureIsLogged
CHECK_DEADLOCK FALSE
