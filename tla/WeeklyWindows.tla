----------------------------- MODULE WeeklyWindows -----------------------------
(***************************************************************************)
(* The arithmetic of weekly availability: windows of one day in minutes,   *)
(* whether they leave a proposed window free, and how the interval of an   *)
(* event is cut into such windows.                                         *)
(*                                                                         *)
(* A time of day is <<hours, minutes>>, an instant a number of ticks since *)
(* the start of a week.  Rows of one owner differ, so they are a set.      *)
(***************************************************************************)
EXTENDS Integers, SequencesExt

CONSTANTS
    Days,               \* days in a week
    MinutesPerDay,
    MinutesPerHour,
    TicksPerMinute      \* instants within a minute

ASSUME WeekAssumption ==
    /\ Days \in Nat \ {0} /\ MinutesPerHour \in Nat \ {0} /\ TicksPerMinute \in Nat \ {0}
    /\ MinutesPerDay \in Nat \ {0} /\ MinutesPerDay % MinutesPerHour = 0

TicksPerDay == MinutesPerDay * TicksPerMinute

ToMinutes(hhmm) == hhmm[1] * MinutesPerHour + hhmm[2]

ToHHMM(minutes) == <<minutes \div MinutesPerHour, minutes % MinutesPerHour>>

Sorted(ranges) ==
    CHOOSE s \in [1 .. Cardinality(ranges) -> ranges] :
      /\ \A i, j \in DOMAIN s : i < j => s[i].start <= s[j].start
      /\ \A r \in ranges : \E i \in DOMAIN s : s[i] = r

Join(merged, r) ==
    IF merged # <<>> /\ r.start <= merged[Len(merged)].end
    THEN [merged EXCEPT ![Len(merged)].end = Max({@, r.end})]
    ELSE Append(merged, r)

(* The sorted ranges, each joined in turn to those before it.              *)
MergeRanges(ranges) ==
    LET sorted == Sorted(ranges)
        merged[i \in 0 .. Cardinality(ranges)] ==
          IF i = 0 THEN <<>> ELSE Join(merged[i - 1], sorted[i])
    IN  merged[Cardinality(ranges)]

AsRanges(windows) == {[start |-> w.startMinute, end |-> w.endMinute] : w \in windows}

OnDay(windows, day, available) ==
    {w \in windows : w.dayOfWeek = day /\ w.isAvailable = available}

(* Is [start, end) on day open, and touched by no blackout?                *)
CoversWindow(windows, day, start, end) ==
    /\ \A w \in OnDay(windows, day, FALSE) : w.startMinute >= end \/ w.endMinute <= start
    /\ \E r \in Range(MergeRanges(AsRanges(OnDay(windows, day, TRUE)))) :
         r.start <= start /\ r.end >= end

(* Walk each open window past the blackouts that touch it: is there a gap, *)
(* or a rest?                                                              *)
HasFreeMinuteOnDay(windows, day) ==
    \E open \in OnDay(windows, day, TRUE) :
      LET touching == {b \in OnDay(windows, day, FALSE) :
                         b.startMinute < open.endMinute /\ b.endMinute > open.startMinute}
          merged == MergeRanges(AsRanges(touching))
          Cursor(n) == Max({open.startMinute} \cup {merged[i].end : i \in 1 .. n})
      IN  \/ \E n \in DOMAIN merged : merged[n].start > Cursor(n - 1)
          \/ Cursor(Len(merged)) < open.endMinute

(* assertValidSlots of the availability service: windows of a kind do not  *)
(* overlap on their day, windows of two kinds may, and touching is fine.   *)
Overlap(v, w) ==
    /\ v.dayOfWeek = w.dayOfWeek /\ v.isAvailable = w.isAvailable
    /\ v.startMinute < w.endMinute /\ w.startMinute < v.endMinute

ValidSlots(windows) ==
    /\ \A w \in windows : w.startMinute < w.endMinute
    /\ \A v, w \in windows : v # w => ~Overlap(v, w)

(* Cut at each midnight; a partial minute counts as a whole one.           *)
WeeklySegmentsOf(event) ==
    LET first == event.startsAt \div TicksPerDay
        last == (event.endsAt - 1) \div TicksPerDay
        Piece(day) ==
          LET from == Max({event.startsAt, day * TicksPerDay}) - day * TicksPerDay
              to == Min({event.endsAt, (day + 1) * TicksPerDay}) - day * TicksPerDay IN
          [dayOfWeek |-> day % Days,
           startMinute |-> from \div TicksPerMinute,
           endMinute |-> (to + TicksPerMinute - 1) \div TicksPerMinute]
    IN  [i \in 1 .. (last - first + 1) |-> Piece(first + i - 1)]

----------------------------------------------------------------------------
(* What the above is to compute, minute by minute.                         *)
FreeMinute(windows, day, minute) ==
    /\ \E w \in OnDay(windows, day, TRUE) : w.startMinute <= minute /\ minute < w.endMinute
    /\ \A w \in OnDay(windows, day, FALSE) : minute < w.startMinute \/ w.endMinute <= minute

(* The minutes of the week an event takes, each <<day, minute>>.           *)
MinutesOf(event) ==
    {<<(t \div TicksPerDay) % Days, (t % TicksPerDay) \div TicksPerMinute>> :
       t \in event.startsAt .. event.endsAt - 1}
=============================================================================
