SPECIFICATION FairSpec
CONSTANTS
    Children = {c1}
    Events = {e1, e2}
    ApprovalIds = {a1, a2}
    Requests = {r1, r2}
    None = None
    Ttl = 1
    CanCrash = TRUE
    MaxClock = 1
INVARIANT IInv
INVARIANT OneOpenRequest
INVARIANT AnsweredInTime
INVARIANT ReadersNeverSeeOverdue
PROPERTY KeepsPromise
PROPERTY ReaderSettlesOverdue
CHECK_DEADLOCK FALSE
