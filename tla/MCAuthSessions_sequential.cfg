SPECIFICATION Spec
CONSTANTS
    Users = {u1}
    Requests = {r1}
    SessionIds = {s1, s2}
    TokenIds = {t1, t2, t3}
    None = None
    Ops = {"login", "refresh", "logout", "change", "reset", "deactivate", "reactivate", "impersonate", "exit", "history"}
    WeakHashes = {u1}
    CanCrash = FALSE
    ImpersonationTtl = 1
    IdleTimeout = 1
    RefreshTtl = 3
    AccessTtl = 1
    MaxClock = 2
    MaxVersion = 1
SYMMETRY Symmetry
INVARIANT SequentialInv
INVARIANT OneUsableTokenPerSession
INVARIANT ReuseEndsFamily
INVARIANT NoCredentialOutlivesPassword
INVARIANT ClosedLogMeansEnded
INVARIANT SupervisionEndsInTime
PROPERTY SessionEndIsPermanent
CHECK_DEADLOCK FALSE
