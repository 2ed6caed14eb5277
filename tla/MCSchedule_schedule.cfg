SPECIFICATION Spec
CONSTANTS
    Days = 2
    MinutesPerDay = 4
    MinutesPerHour = 2
    TicksPerMinute = 2
    None = None
    player = player
    coach = coach
    e1 = e1
    a1 = a1
    a2 = a2
    o1 = o1
    o2 = o2
    r1 = r1
    r2 = r2
    Players = {player}
    Coaches = {coach}
    Inputs <- MCInputs
    Events = {e1}
    EventTimes <- MCEventTimes
    Assignments = {a1, a2}
    Overrides = {o1, o2}
    Proposals <- MCProposals
    Requests = {r1, r2}
SYMMETRY MCSymmetry
INVARIANT SlotsNeverOverlap
INVARIANT ConflictsAreAuthorised
INVARIANT VerdictIsJustified
INVARIANT FiltersFollowTheMinutes
INVARIANT IInv
