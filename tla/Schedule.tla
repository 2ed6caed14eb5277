------------------------------- MODULE Schedule -------------------------------
(***************************************************************************)
(* The weekly schedules of players and coaches, the events of one trainer, *)
(* the coaches assigned to them and the log of availability overrides.     *)
(*                                                                         *)
(* A schedule is replaced in a transaction under its owner's row lock; an  *)
(* assignment is a series of reads and inserts in no transaction, each an  *)
(* action.  Coaches are the trainer's and stay so; who may call what,      *)
(* reasons, notes, mail and calls refused before they write are left out.  *)
(***************************************************************************)
EXTENDS WeeklyWindows

CONSTANTS
    Players, Coaches,   \* owners of schedules
    Inputs,             \* owner -> the schedules submitted for it: sets of AvailabilitySlotInput
    Events,             \* primary keys of events
    EventTimes,         \* the times events are created with
    Assignments,        \* primary keys of event_coach_assignments
    Overrides,          \* primary keys of coach_availability_overrides
    Proposals,          \* the windows overridden before there is an event
    Requests,           \* requests in flight together
    None                \* SQL NULL, or a local not yet assigned

Owners == Players \cup Coaches

(* HH:MM; an end may be midnight as well.                                  *)
StartTimes == (0 .. MinutesPerDay \div MinutesPerHour - 1) \X (0 .. MinutesPerHour - 1)

EndTimes == StartTimes \cup {<<MinutesPerDay \div MinutesPerHour, 0>>}

SlotInput ==
    [dayOfWeek : 0 .. Days - 1, startTime : StartTimes, endTime : EndTimes, isAvailable : BOOLEAN]

ASSUME ScheduleAssumption ==
    /\ None \notin Events \cup Assignments \cup Overrides \cup Owners
    /\ None \notin StartTimes /\ None \notin 0 .. Days - 1
    /\ Inputs \in [Owners -> SUBSET SUBSET SlotInput]
    /\ EventTimes \subseteq [startsAt : Nat, endsAt : Nat]
    /\ Proposals \subseteq [dayOfWeek : 0 .. Days - 1, startTime : StartTimes, endTime : EndTimes]

VARIABLES
    slots,              \* availability_slots of each owner
    events,             \* existing id -> times
    assignments,        \* existing id -> row
    overrides,          \* existing id -> row
    reqs                \* the requests in flight and their local variables

vars == <<slots, events, assignments, overrides, reqs>>

----------------------------------------------------------------------------
Nullable(S) == S \cup {None}

Slot == [dayOfWeek : 0 .. Days - 1, startMinute : 0 .. MinutesPerDay, endMinute : 0 .. MinutesPerDay,
         isAvailable : BOOLEAN]

Segment == [dayOfWeek : Int, startMinute : Int, endMinute : Int]

Override == [event : Nullable(Events), coach : Coaches, segment : Segment, hadConflict : BOOLEAN]

(* answered: the coach accepted, or asked for a change.                    *)
(* past is no column: the schedules the coach has had while the request    *)
(* that made the row ran.                                                  *)
Assignment == [event : Events, coach : Coaches, hadConflict : BOOLEAN, override : Nullable(Overrides),
               answered : BOOLEAN, past : SUBSET SUBSET Slot]

PCs == {"idle", "lock", "delete", "insert", "check", "free", "record", "assign",
        "remove", "respond"}

(* The locals.  next, conflicting: the segment to check, and those found   *)
(* in conflict and not yet recorded; past as of an assignment.             *)
Request == [pc : PCs, owner : Nullable(Owners), input : SUBSET Slot, deleted : SUBSET Slot,
            event : Nullable(Events), coach : Nullable(Coaches), reason : BOOLEAN, next : Nat,
            conflicting : SUBSET Nat, hadConflict : BOOLEAN, segment : Nullable(Segment),
            verdict : BOOLEAN, override : Nullable(Overrides), id : Nullable(Assignments),
            seen : Nullable(Assignment), past : SUBSET SUBSET Slot]

Idle == [pc |-> "idle", owner |-> None, input |-> {}, deleted |-> {}, event |-> None, coach |-> None,
         reason |-> FALSE, next |-> 0, conflicting |-> {}, hadConflict |-> FALSE, segment |-> None,
         verdict |-> FALSE, override |-> None, id |-> None, seen |-> None, past |-> {}]

At(r, pc) == reqs[r].pc = pc

Begin(r, q) == At(r, "idle") /\ reqs' = [reqs EXCEPT ![r] = q]

Finish(r) == reqs' = [reqs EXCEPT ![r] = Idle]

Segments(e) == WeeklySegmentsOf(events[e])

Insert(table, id, row) == [i \in DOMAIN table \cup {id} |-> IF i = id THEN row ELSE table[i]]

AssignmentOf(e, c) == {i \in DOMAIN assignments : assignments[i].event = e /\ assignments[i].coach = c}

----------------------------------------------------------------------------
(* setForProfile, setForCoach: replaceSlots *)

ToSlot(s) == [dayOfWeek |-> s.dayOfWeek, startMinute |-> ToMinutes(s.startTime),
              endMinute |-> ToMinutes(s.endTime), isAvailable |-> s.isAvailable]

ReplaceSlots(r, o, input) ==
    LET new == {ToSlot(s) : s \in input} IN
    /\ ValidSlots(new)
    /\ Begin(r, [Idle EXCEPT !.pc = "lock", !.owner = o, !.input = new])
    /\ UNCHANGED <<slots, events, assignments, overrides>>

SetForProfile(r, p, input) == p \in Players /\ ReplaceSlots(r, p, input)

SetForCoach(r, c, input) == c \in Coaches /\ ReplaceSlots(r, c, input)

(* Mutant: the owner's row is not locked. *)
LockNothing(r) ==
    /\ At(r, "lock")
    /\ reqs' = [reqs EXCEPT ![r].pc = "delete"]
    /\ UNCHANGED <<slots, events, assignments, overrides>>

LockOwner(r) ==
    /\ At(r, "lock")
    /\ ~ \E s \in Requests : reqs[s].pc \in {"delete", "insert"} /\ reqs[s].owner = reqs[r].owner
    /\ reqs' = [reqs EXCEPT ![r].pc = "delete"]
    /\ UNCHANGED <<slots, events, assignments, overrides>>

(* Seen by others when the transaction commits only.                       *)
DeleteSlots(r) ==
    /\ At(r, "delete")
    /\ reqs' = [reqs EXCEPT ![r].pc = "insert", ![r].deleted = slots[reqs[r].owner]]
    /\ UNCHANGED <<slots, events, assignments, overrides>>

InsertSlots(r) ==
    LET o == reqs[r].owner
        new == (slots[o] \ reqs[r].deleted) \cup reqs[r].input IN
    /\ At(r, "insert")
    /\ slots' = [slots EXCEPT ![o] = new]
    /\ reqs' = [s \in Requests |-> IF s = r THEN Idle
                                   ELSE IF reqs[s].coach = o /\ reqs[s].past # {}
                                   THEN [reqs[s] EXCEPT !.past = @ \cup {new}]
                                   ELSE reqs[s]]
    /\ UNCHANGED <<events, assignments, overrides>>

----------------------------------------------------------------------------
(* Reads *)

(* trainerView: the players its day and time filters let through.          *)
(* Mutant: the filters look for a window, and not for a blackout in it.    *)
OpenPlayers(day, time) ==
    {p \in Players : \E d \in IF day = None THEN 0 .. Days - 1 ELSE {day} :
       \E w \in OnDay(slots[p], d, TRUE) :
         time # None => w.startMinute <= ToMinutes(time) /\ ToMinutes(time) < w.endMinute}

TrainerView(day, time) ==
    {p \in Players : \E d \in IF day = None THEN 0 .. Days - 1 ELSE {day} :
       IF time = None THEN day = None \/ HasFreeMinuteOnDay(slots[p], d)
       ELSE CoversWindow(slots[p], d, ToMinutes(time), ToMinutes(time) + 1)}

IsCoachFreeFor(c, day, start, end) == CoversWindow(slots[c], day, start, end)

(* checkCoachConflict: is no warning shown?                                *)
CheckCoachConflict(c, day, startTime, endTime) ==
    IsCoachFreeFor(c, day, ToMinutes(startTime), ToMinutes(endTime))

----------------------------------------------------------------------------
(* EventsService.create *)

Create(e, times) ==
    /\ e \notin DOMAIN events
    /\ times.endsAt > times.startsAt
    /\ times.endsAt - times.startsAt <= TicksPerDay
    /\ events' = Insert(events, e, times)
    /\ UNCHANGED <<slots, assignments, overrides, reqs>>

----------------------------------------------------------------------------
(* assign *)

Assign(r, e, c, reason) ==
    /\ e \in DOMAIN events
    /\ AssignmentOf(e, c) = {}
    /\ Begin(r, [Idle EXCEPT !.pc = "check", !.event = e, !.coach = c, !.reason = reason,
                             !.next = 1, !.past = {slots[c]}])
    /\ UNCHANGED <<slots, events, assignments, overrides>>

(* Mutant: the first segment stands for the event. *)
CheckFirstSegment(r) ==
    LET q == reqs[r]
        s == Segments(q.event)[q.next]
        found == IF IsCoachFreeFor(q.coach, s.dayOfWeek, s.startMinute, s.endMinute)
                 THEN {} ELSE {q.next} IN
    /\ At(r, "check")
    /\ IF found # {} /\ ~q.reason THEN Finish(r)
       ELSE reqs' = [reqs EXCEPT ![r] = [q EXCEPT !.pc = IF found = {} THEN "assign" ELSE "free",
                                                  !.conflicting = found, !.hadConflict = found # {}]]
    /\ UNCHANGED <<slots, events, assignments, overrides>>

(* Read the schedule for one segment; after the last one, warn or go on.   *)
CheckSegment(r) ==
    LET q == reqs[r]
        s == Segments(q.event)[q.next]
        found == IF IsCoachFreeFor(q.coach, s.dayOfWeek, s.startMinute, s.endMinute)
                 THEN q.conflicting ELSE q.conflicting \cup {q.next}
        hadConflict == found # {} IN
    /\ At(r, "check")
    /\ IF q.next < Len(Segments(q.event))
       THEN reqs' = [reqs EXCEPT ![r].next = q.next + 1, ![r].conflicting = found]
       ELSE IF hadConflict /\ ~q.reason THEN Finish(r)
       ELSE reqs' = [reqs EXCEPT ![r].pc = IF hadConflict THEN "free" ELSE "assign",
                                 ![r].conflicting = found, ![r].hadConflict = hadConflict]
    /\ UNCHANGED <<slots, events, assignments, overrides>>

(* record reads the schedule anew for its verdict.                         *)
WithVerdict(q, segment) ==
    [q EXCEPT !.pc = "record", !.segment = segment,
              !.verdict = ~IsCoachFreeFor(q.coach, segment.dayOfWeek, segment.startMinute, segment.endMinute)]

(* For the first segment not yet recorded, its times rendered and parsed.  *)
RecordNext(r) ==
    LET s == Segments(reqs[r].event)[Min(reqs[r].conflicting)] IN
    /\ At(r, "free")
    /\ reqs' = [reqs EXCEPT ![r] = WithVerdict(@,
                  [dayOfWeek |-> s.dayOfWeek, startMinute |-> ToMinutes(ToHHMM(s.startMinute)),
                   endMinute |-> ToMinutes(ToHHMM(s.endMinute))])]
    /\ UNCHANGED <<slots, events, assignments, overrides>>

(* The override's own endpoint, before there is an event.                  *)
Record(r, c, p) ==
    LET start == ToMinutes(p.startTime)
        end == ToMinutes(p.endTime) IN
    /\ start < end
    /\ Begin(r, WithVerdict([Idle EXCEPT !.coach = c],
                            [dayOfWeek |-> p.dayOfWeek, startMinute |-> start, endMinute |-> end]))
    /\ UNCHANGED <<slots, events, assignments, overrides>>

(* Mutant: one override stands for all the conflicting segments. *)
SaveOneOverride(r, o) ==
    LET q == reqs[r] IN
    /\ At(r, "record") /\ o \notin DOMAIN overrides
    /\ overrides' = Insert(overrides, o, [event |-> q.event, coach |-> q.coach, segment |-> q.segment,
                                          hadConflict |-> q.verdict])
    /\ IF q.conflicting = {} THEN Finish(r)
       ELSE reqs' = [reqs EXCEPT ![r].pc = "assign", ![r].conflicting = {}, ![r].override = o]
    /\ UNCHANGED <<slots, events, assignments>>

(* The assignment is to name the first of its overrides.                   *)
SaveOverride(r, o) ==
    LET q == reqs[r]
        left == q.conflicting \ {Min(q.conflicting)} IN
    /\ At(r, "record") /\ o \notin DOMAIN overrides
    /\ overrides' = Insert(overrides, o, [event |-> q.event, coach |-> q.coach, segment |-> q.segment,
                                          hadConflict |-> q.verdict])
    /\ IF q.conflicting = {} THEN Finish(r)
       ELSE reqs' = [reqs EXCEPT ![r].pc = IF left = {} THEN "assign" ELSE "free",
                                 ![r].conflicting = left,
                                 ![r].override = IF @ = None THEN o ELSE @]
    /\ UNCHANGED <<slots, events, assignments>>

(* An id is not used again while a request holds it.                       *)
FreshAssignment(i) == i \notin DOMAIN assignments /\ \A s \in Requests : reqs[s].id # i

(* uq_event_coach_assignment refuses a second row.                         *)
SaveAssignment(r, i) ==
    LET q == reqs[r] IN
    /\ At(r, "assign") /\ FreshAssignment(i)
    /\ IF AssignmentOf(q.event, q.coach) # {} THEN UNCHANGED assignments
       ELSE assignments' = Insert(assignments, i,
              [event |-> q.event, coach |-> q.coach, hadConflict |-> q.hadConflict,
               override |-> q.override, answered |-> FALSE, past |-> q.past])
    /\ Finish(r)
    /\ UNCHANGED <<slots, events, overrides>>

----------------------------------------------------------------------------
(* unassign and respond *)

Unassign(r, i) ==
    /\ i \in DOMAIN assignments
    /\ Begin(r, [Idle EXCEPT !.pc = "remove", !.id = i])
    /\ UNCHANGED <<slots, events, assignments, overrides>>

RemoveAssignment(r) ==
    /\ At(r, "remove")
    /\ assignments' = [i \in DOMAIN assignments \ {reqs[r].id} |-> assignments[i]]
    /\ Finish(r)
    /\ UNCHANGED <<slots, events, overrides>>

Respond(r, i) ==
    /\ i \in DOMAIN assignments
    /\ Begin(r, [Idle EXCEPT !.pc = "respond", !.id = i,
                             !.seen = [assignments[i] EXCEPT !.answered = TRUE]])
    /\ UNCHANGED <<slots, events, assignments, overrides>>

(* Saves the entity: one removed in between is inserted again, unless the  *)
(* coach has been assigned anew.                                           *)
SaveResponse(r) ==
    LET q == reqs[r] IN
    /\ At(r, "respond")
    /\ IF q.id \in DOMAIN assignments \/ AssignmentOf(q.seen.event, q.seen.coach) = {}
       THEN assignments' = Insert(assignments, q.id, q.seen)
       ELSE UNCHANGED assignments
    /\ Finish(r)
    /\ UNCHANGED <<slots, events, overrides>>

----------------------------------------------------------------------------
(* The process dies, or a call fails; a transaction is rolled back.        *)
Fail(r) ==
    /\ ~At(r, "idle")
    /\ Finish(r)
    /\ UNCHANGED <<slots, events, assignments, overrides>>

Init ==
    /\ slots = [o \in Owners |-> {}]
    /\ events = [e \in {} |-> None]
    /\ assignments = [i \in {} |-> None]
    /\ overrides = [o \in {} |-> None]
    /\ reqs = [r \in Requests |-> Idle]

StartRequest(r) ==
    \/ \E p \in Players : \E input \in Inputs[p] : SetForProfile(r, p, input)
    \/ \E c \in Coaches : \E input \in Inputs[c] : SetForCoach(r, c, input)
    \/ \E e \in Events, c \in Coaches, reason \in BOOLEAN : Assign(r, e, c, reason)
    \/ \E c \in Coaches, p \in Proposals : Record(r, c, p)
    \/ \E i \in Assignments : Unassign(r, i) \/ Respond(r, i)

Continue(r) ==
    \/ LockOwner(r) \/ DeleteSlots(r) \/ InsertSlots(r)
    \/ CheckSegment(r) \/ RecordNext(r) \/ RemoveAssignment(r) \/ SaveResponse(r)
    \/ \E o \in Overrides : SaveOverride(r, o)
    \/ \E i \in Assignments : SaveAssignment(r, i)

Next ==
    \/ \E e \in Events, times \in EventTimes : Create(e, times)
    \/ \E r \in Requests : StartRequest(r) \/ Continue(r) \/ Fail(r)

Spec == Init /\ [][Next]_vars

----------------------------------------------------------------------------
(* Properties *)

(* Every row and every in-flight request has the shape its handler gives it. *)
TypeOK ==
    /\ slots \in [Owners -> SUBSET Slot]
    /\ DOMAIN events \subseteq Events
    /\ \A e \in DOMAIN events : events[e] \in EventTimes
    /\ DOMAIN assignments \subseteq Assignments
    /\ \A i \in DOMAIN assignments : assignments[i] \in Assignment
    /\ DOMAIN overrides \subseteq Overrides
    /\ \A o \in DOMAIN overrides : overrides[o] \in Override
    /\ reqs \in [Requests -> Request]

(* What an owner has stored is what one call could have submitted: however *)
(* two saves of a schedule overlap, it is not the union of both.           *)
SlotsNeverOverlap == \A o \in Owners : ValidSlots(slots[o])

Fits(s, windows) == CoversWindow(windows, s.dayOfWeek, s.startMinute, s.endMinute)

Covered(s, past) == \E windows \in past : Fits(s, windows)

OverriddenIn(s, e, c) ==
    \E o \in DOMAIN overrides :
      overrides[o].event = e /\ overrides[o].coach = c /\ overrides[o].segment = s

(* An assignment that says it went against the coach's times names an      *)
(* override of that coach for that event, and no piece of the event is     *)
(* passed over: the coach was free for it while the assignment was made,   *)
(* or an override of it is on record.                                      *)
AuthorisedRow(a) ==
    LET pieces == Segments(a.event) IN
    /\ a.hadConflict <=> a.override # None
    /\ a.hadConflict => /\ a.override \in DOMAIN overrides
                        /\ overrides[a.override].event = a.event
                        /\ overrides[a.override].coach = a.coach
    /\ \A n \in DOMAIN pieces : Covered(pieces[n], a.past) \/ OverriddenIn(pieces[n], a.event, a.coach)

ConflictsAreAuthorised == \A i \in DOMAIN assignments : AuthorisedRow(assignments[i])

(* Minute by minute: an assignment is marked free only if the coach had    *)
(* each minute it takes free at some time while it was made, and marked    *)
(* conflicting only if one was not.                                        *)
VerdictIsJustified ==
    \A i \in DOMAIN assignments :
      LET a == assignments[i] IN
      IF a.hadConflict
      THEN \E m \in MinutesOf(events[a.event]), windows \in a.past : ~FreeMinute(windows, m[1], m[2])
      ELSE \A m \in MinutesOf(events[a.event]) : \E windows \in a.past : FreeMinute(windows, m[1], m[2])

(* A trainer's filters let a player through just when a minute they ask    *)
(* for is free: blackouts count, and those of another day do not.          *)
FiltersFollowTheMinutes ==
    LET OnSome(p, days, minutes) == \E d \in days, n \in minutes : FreeMinute(slots[p], d, n)
        AllDays == 0 .. Days - 1
        AllMinutes == 0 .. MinutesPerDay - 1 IN
    /\ \A day \in AllDays :
         TrainerView(day, None) = {p \in Players : OnSome(p, {day}, AllMinutes)}
    /\ \A minute \in AllMinutes :
         TrainerView(None, ToHHMM(minute)) = {p \in Players : OnSome(p, AllDays, {minute})}

(* Only one transaction has an owner's row locked.                         *)
Locking(r) == reqs[r].pc \in {"delete", "insert"}

LocksOK ==
    \A r, s \in Requests : Locking(r) /\ Locking(s) /\ r # s => reqs[r].owner # reqs[s].owner

(* An assignment under way: what it has seen of its segments so far.       *)
Assigning(q) ==
    LET pieces == Segments(q.event) IN
    /\ q.event \in DOMAIN events /\ q.coach \in Coaches
    /\ q.conflicting \subseteq DOMAIN pieces
    /\ q.override # None => /\ q.override \in DOMAIN overrides
                            /\ overrides[q.override].event = q.event
                            /\ overrides[q.override].coach = q.coach
    /\ \A n \in DOMAIN pieces :
         \/ q.pc = "check" /\ n >= q.next
         \/ n \in q.conflicting
         \/ Covered(pieces[n], q.past)
         \/ OverriddenIn(pieces[n], q.event, q.coach)

(* What a handler may assume about its locals at each of its awaits.       *)
LocalsOK(r) ==
    LET q == reqs[r] IN
    /\ q.pc \in {"lock", "delete", "insert"} => q.owner # None /\ ValidSlots(q.input) /\ q.past = {}
    /\ q.pc = "insert" => q.deleted = slots[q.owner]
    /\ q.pc \in {"check", "free", "assign"} \/ (q.pc = "record" /\ q.conflicting # {}) => Assigning(q)
    /\ q.pc = "check" =>
         q.next \in DOMAIN Segments(q.event) /\ q.override = None /\ slots[q.coach] \in q.past
    /\ q.pc = "free" => q.conflicting # {}
    /\ q.pc \in {"free", "record"} /\ q.conflicting # {} => q.hadConflict
    /\ q.pc = "assign" => q.conflicting = {} /\ (q.hadConflict <=> q.override # None)
    /\ q.pc = "record" =>
         /\ q.coach \in Coaches /\ q.segment \in Segment
         /\ q.conflicting # {} => q.segment = Segments(q.event)[Min(q.conflicting)]
    /\ q.pc = "remove" => q.id # None
    /\ q.pc = "respond" =>
         /\ q.id # None /\ q.seen \in Assignment /\ q.seen.event \in DOMAIN events
         /\ AuthorisedRow(q.seen)

(* Events last at most a day, and assignments are to events there are.     *)
EventsOK ==
    /\ \A e \in DOMAIN events : events[e].endsAt - events[e].startsAt \in 1 .. TicksPerDay
    /\ \A i \in DOMAIN assignments : assignments[i].event \in DOMAIN events

RowsOK ==
    /\ TypeOK
    /\ SlotsNeverOverlap
    /\ ConflictsAreAuthorised
    /\ EventsOK
    /\ LocksOK
    /\ \A r \in Requests : LocalsOK(r)

(* A verdict on the pieces of an event, of an assignment or of a request   *)
(* on its way to one: the coach had times that a piece did not fit, or for *)
(* each piece times that it did.                                           *)
Grounded(a, pieces) ==
    /\ \A windows \in a.past : ValidSlots(windows)
    /\ IF a.hadConflict
       THEN \E n \in DOMAIN pieces, windows \in a.past : ~Fits(pieces[n], windows)
       ELSE \A n \in DOMAIN pieces : Covered(pieces[n], a.past)

GroundedSoFar(q, pieces) ==
    /\ ~q.hadConflict
    /\ \A windows \in q.past : ValidSlots(windows)
    /\ \A n \in q.conflicting : \E windows \in q.past : ~Fits(pieces[n], windows)
    /\ \A n \in 1 .. q.next - 1 : n \in q.conflicting \/ Covered(pieces[n], q.past)

GroundedLocals(q) ==
    /\ q.pc = "check" => GroundedSoFar(q, Segments(q.event))
    /\ q.pc \in {"free", "assign"} \/ (q.pc = "record" /\ q.conflicting # {}) =>
         Grounded(q, Segments(q.event))
    /\ q.pc = "respond" => Grounded(q.seen, Segments(q.seen.event))

VerdictsGrounded ==
    /\ \A i \in DOMAIN assignments : Grounded(assignments[i], Segments(assignments[i].event))
    /\ \A r \in Requests : GroundedLocals(reqs[r])

(* The inductive invariant behind the theorems of ScheduleProofs.          *)
IInv == RowsOK /\ VerdictsGrounded
=============================================================================
