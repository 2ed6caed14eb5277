------------------------------ MODULE MCSchedule ------------------------------
(* A week of two days of two hours of two minutes of two ticks, a player,  *)
(* a coach and one event.                                                  *)
EXTENDS Schedule

CONSTANTS player, coach, e1, a1, a2, o1, o2, r1, r2

(* From h1:m1 to h2:m2 of a day.                                           *)
Open(day, start, end) == [dayOfWeek |-> day, startTime |-> start, endTime |-> end, isAvailable |-> TRUE]

Blackout(day, start, end) == [Open(day, start, end) EXCEPT !.isAvailable = FALSE]

Touching == {Open(0, <<0, 0>>, <<1, 0>>), Open(0, <<1, 0>>, <<2, 0>>)}

WithAHole == {Open(0, <<0, 1>>, <<2, 0>>), Blackout(0, <<1, 0>>, <<1, 1>>), Open(1, <<0, 0>>, <<2, 0>>)}

BlackedOut ==
    {Open(0, <<0, 1>>, <<2, 0>>), Blackout(0, <<1, 0>>, <<1, 1>>),
     Open(1, <<0, 0>>, <<1, 0>>), Blackout(1, <<0, 0>>, <<2, 0>>)}

Overlapping == {Open(0, <<0, 0>>, <<1, 0>>), Open(0, <<0, 1>>, <<1, 1>>)}

MCInputs ==
    [o \in Owners |-> IF o \in Players THEN {BlackedOut} ELSE {Touching, WithAHole, Overlapping}]

(* Across midnight, from within a minute to within another; too long.      *)
MCEventTimes == {[startsAt |-> 5, endsAt |-> 11], [startsAt |-> 5, endsAt |-> 14]}

MCProposals == {[dayOfWeek |-> 0, startTime |-> <<0, 1>>, endTime |-> <<2, 0>>]}

MCSymmetry == Permutations({a1, a2}) \cup Permutations({o1, o2}) \cup Permutations({r1, r2})

(* The windows of a day, and schedules of three of them at most.           *)
SmallSlots ==
    {s \in [dayOfWeek : {0}, startMinute : 0 .. 3, endMinute : 1 .. 4, isAvailable : BOOLEAN] :
       s.startMinute < s.endMinute}

SmallSchedules ==
    {{}} \cup {{u, v, w} : u, v, w \in SmallSlots}

(* coversWindow, the merge within it and the walk of hasFreeMinuteOnDay    *)
(* compute what they are to.                                               *)
ASSUME CoverageIsPerMinute ==
    \A windows \in {ws \in SmallSchedules : ValidSlots(ws)} :
      /\ \A start \in 0 .. 3 : \A end \in start + 1 .. 4 :
           CoversWindow(windows, 0, start, end) <=> \A m \in start .. end - 1 : FreeMinute(windows, 0, m)
      /\ HasFreeMinuteOnDay(windows, 0) <=> \E m \in 0 .. 3 : FreeMinute(windows, 0, m)

(* An event of a day at most is cut into two pieces at most, which take    *)
(* just the minutes the event touches.                                     *)
ASSUME SegmentsCoverTheEvent ==
    \A start \in 0 .. 31, length \in 1 .. TicksPerDay :
      LET event == [startsAt |-> start, endsAt |-> start + length]
          pieces == WeeklySegmentsOf(event) IN
      /\ Len(pieces) \in 1 .. 2
      /\ \A n \in DOMAIN pieces :
           /\ pieces[n].startMinute \in 0 .. MinutesPerDay - 1
           /\ pieces[n].endMinute \in pieces[n].startMinute + 1 .. MinutesPerDay
      /\ MinutesOf(event) =
           UNION {{<<pieces[n].dayOfWeek, m>> : m \in pieces[n].startMinute .. pieces[n].endMinute - 1} :
                    n \in DOMAIN pieces}
===============================================================================
