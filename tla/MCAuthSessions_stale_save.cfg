SPECIFICATION Spec
CONSTANTS
    Users = {u1}
    Requests = {r1, r2}
    SessionIds = {s1, s2}
    TokenIds = {t1, t2, t3}
    None = None
    Ops = {"login", "refresh", "change"}
    WeakHashes = {}
    CanCrash = FALSE
    ImpersonationTtl = 1
    IdleTimeout = 1
    RefreshTtl = 2
    AccessTtl = 1
    MaxClock = 0
    MaxVersion = 1
SYMMETRY Symmetry
PROPERTY PasswordChangeDropsSessions
CHECK_DEADLOCK FALSE
