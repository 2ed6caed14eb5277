----------------------------- MODULE ScheduleProofs -----------------------------
(***************************************************************************)
(* Proofs about Schedule, for any owners, schedules, events, ids and       *)
(* number of requests in flight.                                           *)
(*                                                                         *)
(* First the arithmetic: pieces of events, merged ranges and free minutes  *)
(* against the minutes themselves, by induction over least elements        *)
(* (SmallestOf).  Then the inductive invariant, whose second part, that    *)
(* each verdict has a schedule it follows the minutes of, rests on it.     *)
(***************************************************************************)
EXTENDS Schedule, TLAPS, FiniteSetTheorems, WellFoundedInduction

(* A time of day rendered and parsed is what it was. *)
LEMMA RoundTrip ==
    ASSUME NEW m \in Int
    PROVE  ToMinutes(ToHHMM(m)) = m
<1>1. MinutesPerHour \in Int /\ MinutesPerHour > 0
    BY WeekAssumption
<1>2. m = MinutesPerHour * (m \div MinutesPerHour) + (m % MinutesPerHour)
    BY <1>1
<1>3. m \div MinutesPerHour \in Int
    BY <1>1
<1> QED
    BY <1>1, <1>2, <1>3 DEF ToMinutes, ToHHMM

(* A time of day is a minute of the day, or the end of it. *)
LEMMA MinutesOfTimes ==
    ASSUME NEW t \in EndTimes
    PROVE  ToMinutes(t) \in 0 .. MinutesPerDay
<1> DEFINE H == MinutesPerDay \div MinutesPerHour
<1>1. /\ MinutesPerHour \in Nat /\ MinutesPerHour > 0 /\ MinutesPerDay \in Nat
      /\ MinutesPerDay % MinutesPerHour = 0
    BY WeekAssumption
<1>2. H \in Nat /\ MinutesPerDay = MinutesPerHour * H
    <2>1. H \in Int /\ MinutesPerDay = MinutesPerHour * H + (MinutesPerDay % MinutesPerHour)
        BY <1>1
    <2>2. H >= 0
        BY <1>1
    <2> HIDE DEF H
    <2> QED
        BY <1>1, <2>1, <2>2
<1>3. t \in (0 .. H - 1) \X (0 .. MinutesPerHour - 1) \/ t = <<H, 0>>
    BY DEF EndTimes, StartTimes
<1> HIDE DEF H
<1>4. CASE t = <<H, 0>>
    BY <1>1, <1>2, <1>4 DEF ToMinutes
<1>5. CASE t \in (0 .. H - 1) \X (0 .. MinutesPerHour - 1)
    <2>1. t[1] \in 0 .. H - 1 /\ t[2] \in 0 .. MinutesPerHour - 1
        BY <1>5
    <2> DEFINE h == t[1]
    <2>2. (H - 1 - h) * MinutesPerHour >= 0 /\ h * MinutesPerHour >= 0
        BY <2>1, <1>1, <1>2
    <2>3. \A x, y, z \in Int : (x - 1 - y) * z = z * x - z - y * z
        OBVIOUS
    <2>4. h * MinutesPerHour \in Int /\ MinutesPerHour * H \in Int
        BY <2>1, <1>1, <1>2
    <2> HIDE DEF h
    <2>5. h * MinutesPerHour + t[2] \in 0 .. MinutesPerDay
        <3>1. (H - 1 - h) * MinutesPerHour = MinutesPerHour * H - MinutesPerHour - h * MinutesPerHour
            <4>1. h \in Int /\ H \in Int /\ MinutesPerHour \in Int
                BY <2>1, <1>1, <1>2 DEF h
            <4> QED
                BY <2>3, <4>1, Zenon
        <3> QED
            BY <3>1, <2>1, <2>2, <2>4, <1>1, <1>2
    <2> QED
        BY <2>5 DEF ToMinutes, h
<1> QED
    BY <1>3, <1>4, <1>5

(* A minute of the day, rendered, is a time to start at. *)
LEMMA StartTimesOf ==
    ASSUME NEW m \in 0 .. MinutesPerDay - 1
    PROVE  ToHHMM(m) \in StartTimes
<1> DEFINE P == MinutesPerHour
           H == MinutesPerDay \div P
           h == m \div P
<1>1. P \in Int /\ P > 0 /\ MinutesPerDay \in Int /\ MinutesPerDay % P = 0 /\ m \in Int
    BY WeekAssumption
<1>2. h \in Int /\ m % P \in 0 .. P - 1 /\ m = P * h + (m % P)
    BY <1>1
<1>3. H \in Int /\ MinutesPerDay = P * H
    BY <1>1
<1> HIDE DEF P, H, h
<1>4. P * h \in Int /\ P * H \in Int
    BY <1>1, <1>2, <1>3
<1>5. P * h <= m /\ m < P * h + P
    BY <1>1, <1>2, <1>4
<1>6. h >= 0
    <2>1. ASSUME h < 0 PROVE FALSE
        <3>1. P * (0 - h - 1) >= 0
            BY <1>1, <1>2, <2>1
        <3>2. P * (0 - h - 1) = 0 - P * h - P
            BY <1>1, <1>2
        <3> QED
            BY <1>1, <1>4, <1>5, <3>1, <3>2
    <2> QED
        BY <1>2, <2>1
<1>7. h <= H - 1
    <2>1. ASSUME h >= H PROVE FALSE
        <3>1. P * (h - H) >= 0
            BY <1>1, <1>2, <1>3, <2>1
        <3>2. P * (h - H) = P * h - P * H
            BY <1>1, <1>2, <1>3
        <3> QED
            BY <1>1, <1>3, <1>4, <1>5, <3>1, <3>2
    <2> QED
        BY <1>2, <1>3, <2>1
<1>8. h \in 0 .. H - 1 /\ m % P \in 0 .. P - 1
    BY <1>2, <1>3, <1>6, <1>7
<1> QED
    BY <1>8 DEF StartTimes, ToHHMM, P, H, h

(* An event of a day at most has one piece to check, or two: assign cannot *)
(* pass over it unchecked (MAX_EVENT_DURATION_MS of the events service).   *)
THEOREM OneOrTwoSegments ==
    ASSUME NEW event \in [startsAt : Nat, endsAt : Nat],
           event.endsAt - event.startsAt \in 1 .. TicksPerDay
    PROVE  /\ WeeklySegmentsOf(event) \in Seq(Segment)
           /\ Len(WeeklySegmentsOf(event)) \in 1 .. 2
<1> DEFINE D == TicksPerDay
           s == event.startsAt
           e == event.endsAt
           first == s \div D
           last == (e - 1) \div D
<1>1. D \in Int /\ D > 0
    <2>1. MinutesPerDay \in Int /\ MinutesPerDay > 0 /\ TicksPerMinute \in Int /\ TicksPerMinute > 0
        BY WeekAssumption
    <2> QED
        BY <2>1 DEF TicksPerDay
<1>2. s \in Int /\ e \in Int /\ s <= e - 1 /\ e - 1 < s + D
    BY <1>1
<1> HIDE DEF D, s, e
<1>3. /\ first \in Int /\ D * first <= s /\ s < D * first + D
      /\ last \in Int /\ D * last <= e - 1 /\ e - 1 < D * last + D
    <2>1. \A x \in Int : x \div D \in Int /\ x % D \in 0 .. D - 1 /\ x = D * (x \div D) + (x % D)
        BY <1>1
    <2>2. first \in Int /\ s % D \in 0 .. D - 1 /\ s = D * first + (s % D)
        BY <1>2, <2>1
    <2>3. last \in Int /\ (e - 1) % D \in 0 .. D - 1 /\ e - 1 = D * last + ((e - 1) % D)
        BY <1>2, <2>1
    <2> HIDE DEF first, last
    <2>4. D * first \in Int /\ D * last \in Int
        BY <1>1, <2>2, <2>3
    <2> QED
        BY <1>1, <1>2, <2>2, <2>3, <2>4
<1> HIDE DEF first, last
<1>4. \A x, y \in Int : x < y => D * x + D <= D * y
    <2> SUFFICES ASSUME NEW x \in Int, NEW y \in Int, x < y PROVE D * x + D <= D * y
        OBVIOUS
    <2>1. D * (y - x - 1) >= 0
        BY <1>1
    <2> QED
        BY <2>1, <1>1
<1>5. D * first \in Int /\ D * last \in Int /\ first + 1 \in Int /\ D * (first + 1) = D * first + D
    BY <1>1, <1>3
<1>6. first <= last
    BY <1>1, <1>2, <1>3, <1>4, <1>5
<1>7. last <= first + 1
    BY <1>1, <1>2, <1>3, <1>4, <1>5
<1>8. \A x, y \in Int : Max({x, y}) \in Int /\ Min({x, y}) \in Int
    <2> SUFFICES ASSUME NEW x \in Int, NEW y \in Int PROVE Max({x, y}) \in Int /\ Min({x, y}) \in Int
        OBVIOUS
    <2>1. \E z \in {x, y} : \A w \in {x, y} : z >= w
        OBVIOUS
    <2>2. \E z \in {x, y} : \A w \in {x, y} : z =< w
        OBVIOUS
    <2>3. Max({x, y}) \in {x, y}
        BY <2>1 DEF Max
    <2>4. Min({x, y}) \in {x, y}
        BY <2>2 DEF Min
    <2> QED
        BY <2>3, <2>4
<1>9. \A day \in Int : day * D \in Int /\ (day + 1) * D \in Int /\ day % Days \in Int
    BY <1>1, WeekAssumption
<1>10. \A x \in Int : x \div TicksPerMinute \in Int
    BY WeekAssumption
<1> DEFINE from(day) == Max({s, day * D}) - day * D
           to(day) == Min({e, (day + 1) * D}) - day * D
           Piece(day) == [dayOfWeek |-> day % Days,
                          startMinute |-> from(day) \div TicksPerMinute,
                          endMinute |-> (to(day) + TicksPerMinute - 1) \div TicksPerMinute]
<1>11. WeeklySegmentsOf(event) \in [1 .. (last - first + 1) -> Segment]
    <2>1. TicksPerMinute \in Int
        BY WeekAssumption
    <2>2. \A day \in Int : from(day) \in Int /\ to(day) \in Int
        <3> SUFFICES ASSUME NEW day \in Int PROVE from(day) \in Int /\ to(day) \in Int
            OBVIOUS
        <3>1. day * D \in Int /\ (day + 1) * D \in Int
            BY <1>9
        <3>2. Max({s, day * D}) \in Int /\ Min({e, (day + 1) * D}) \in Int
            BY <1>2, <1>8, <3>1
        <3> QED
            BY <3>1, <3>2
    <2>3. \A day \in Int : Piece(day) \in Segment
        <3> SUFFICES ASSUME NEW day \in Int PROVE Piece(day) \in Segment
            OBVIOUS
        <3> HIDE DEF from, to
        <3>1. /\ day % Days \in Int /\ from(day) \div TicksPerMinute \in Int
              /\ (to(day) + TicksPerMinute - 1) \div TicksPerMinute \in Int
            BY <1>9, <1>10, <2>1, <2>2
        <3> QED
            BY <3>1 DEF Segment
    <2>4. WeeklySegmentsOf(event) = [i \in 1 .. (last - first + 1) |-> Piece(first + i - 1)]
        BY DEF WeeklySegmentsOf, first, last, s, e, D
    <2> HIDE DEF Piece
    <2>5. \A i \in 1 .. (last - first + 1) : first + i - 1 \in Int
        BY <1>3
    <2> QED
        BY <2>3, <2>4, <2>5
<1>12. last - first + 1 \in 1 .. 2
    BY <1>3, <1>6, <1>7
<1> QED
    BY <1>11, <1>12

----------------------------------------------------------------------------
(* Induction, over a set of numbers. *)
LEMMA SmallestOf ==
    ASSUME NEW S \in SUBSET Nat, S # {}
    PROVE  \E n \in S : \A m \in S : n <= m
<1> DEFINE R == {p \in Nat \X Nat : p[1] < p[2]}
<1>1. IsWellFoundedOn(R, Nat)
    BY NatLessThanWellFounded, Zenon DEF OpToRel
<1>2. \A m, n \in Nat : <<m, n>> \in R <=> m < n
    OBVIOUS
<1> HIDE DEF R
<1>3. PICK n \in S : \A m \in S : <<m, n>> \notin R
    BY <1>1, WFMin
<1>4. \A m \in S : m \in Nat /\ n \in Nat /\ ~(m < n)
    BY <1>2, <1>3
<1>5. \A m \in S : n <= m
    BY <1>4
<1> QED
    BY <1>5

LEMMA Induction ==
    ASSUME NEW S, 0 \in S, \A n \in Nat : n \in S => n + 1 \in S
    PROVE  Nat \subseteq S
<1> SUFFICES ASSUME Nat \ S # {} PROVE FALSE
    OBVIOUS
<1>1. PICK n \in Nat \ S : \A m \in Nat \ S : n <= m
    BY SmallestOf
<1>2. n # 0 /\ n - 1 \in Nat
    BY <1>1
<1>3. n - 1 \in S
    BY <1>1, <1>2
<1> QED
    BY <1>1, <1>2, <1>3

----------------------------------------------------------------------------
IsSorting(s, ranges) ==
    /\ s \in [1 .. Cardinality(ranges) -> ranges]
    /\ \A i, j \in DOMAIN s : i < j => s[i].start <= s[j].start
    /\ \A r \in ranges : \E i \in DOMAIN s : s[i] = r

LEMMA SortingExists ==
    ASSUME NEW ranges, IsFiniteSet(ranges), \A r \in ranges : r.start \in Nat
    PROVE  \E s : IsSorting(s, ranges)
<1> DEFINE Sortable(n) ==
             \A R \in SUBSET ranges : Cardinality(R) = n => \E s : IsSorting(s, R)
           S == {n \in Nat : Sortable(n)}
<1>1. \A R \in SUBSET ranges : IsFiniteSet(R) /\ Cardinality(R) \in Nat
    BY FS_Subset, FS_CardinalityType
<1>2. 0 \in S
    <2> SUFFICES ASSUME NEW R \in SUBSET ranges, Cardinality(R) = 0 PROVE \E s : IsSorting(s, R)
        OBVIOUS
    <2>1. R = {}
        BY <1>1, FS_EmptySet
    <2>2. IsSorting([i \in 1 .. 0 |-> i], R)
        BY <2>1 DEF IsSorting
    <2> QED
        BY <2>2
<1>3. ASSUME NEW n \in Nat, n \in S PROVE n + 1 \in S
    <2> SUFFICES ASSUME NEW R \in SUBSET ranges, Cardinality(R) = n + 1 PROVE \E s : IsSorting(s, R)
        OBVIOUS
    <2>1. R # {}
        BY <1>1, FS_EmptySet
    <2>2. PICK r \in R : \A x \in R : r.start <= x.start
        <3> DEFINE starts == {x.start : x \in R}
        <3>1. starts \in SUBSET Nat /\ starts # {}
            BY <2>1
        <3> HIDE DEF starts
        <3>2. PICK m \in starts : \A k \in starts : m <= k
            BY <3>1, SmallestOf
        <3> QED
            BY <3>2 DEF starts
    <2>3. Cardinality(R \ {r}) = n
        <3>1. IsFiniteSet(R) /\ Cardinality(R) = n + 1
            BY <1>1
        <3>2. Cardinality(R \ {r}) = Cardinality(R) - 1
            <4>1. r \in R
                OBVIOUS
            <4> QED
                BY <3>1, <4>1, FS_RemoveElement, Zenon
        <3> QED
            BY <3>1, <3>2
    <2>4. PICK s : IsSorting(s, R \ {r})
        BY <1>3, <2>3
    <2> DEFINE t == [i \in 1 .. n + 1 |-> IF i = 1 THEN r ELSE s[i - 1]]
    <2>5. /\ s \in [1 .. n -> R \ {r}]
          /\ \A i, j \in 1 .. n : i < j => s[i].start <= s[j].start
          /\ \A x \in R \ {r} : \E i \in 1 .. n : s[i] = x
        BY <2>3, <2>4 DEF IsSorting
    <2>6. t[1] = r /\ \A i \in 2 .. n + 1 : i - 1 \in 1 .. n /\ t[i] = s[i - 1]
        OBVIOUS
    <2>7. t \in [1 .. n + 1 -> R]
        BY <2>5
    <2> HIDE DEF t
    <2>8. ASSUME NEW i \in 1 .. n + 1, NEW j \in 1 .. n + 1, i < j PROVE t[i].start <= t[j].start
        <3>1. j \in 2 .. n + 1 /\ t[j] \in R
            BY <2>7, <2>8
        <3>2. CASE i = 1
            BY <2>2, <2>6, <3>1, <3>2
        <3>3. CASE i # 1
            <4>1. i \in 2 .. n + 1 /\ i - 1 < j - 1
                BY <2>8, <3>3
            <4> QED
                BY <2>5, <2>6, <3>1, <4>1
        <3> QED
            BY <3>2, <3>3
    <2>9. ASSUME NEW x \in R PROVE \E i \in 1 .. n + 1 : t[i] = x
        <3>1. CASE x = r
            BY <2>6, <3>1
        <3>2. CASE x # r
            <4>1. PICK i \in 1 .. n : s[i] = x
                BY <2>5, <3>2
            <4>2. i + 1 \in 2 .. n + 1 /\ (i + 1) - 1 = i
                OBVIOUS
            <4> QED
                BY <2>6, <4>1, <4>2
        <3> QED
            BY <3>1, <3>2
    <2>10. DOMAIN t = 1 .. n + 1
        BY <2>7
    <2>11. IsSorting(t, R)
        BY <2>7, <2>8, <2>9, <2>10 DEF IsSorting
    <2> QED
        BY <2>11
<1>4. Nat \subseteq S
    BY <1>2, <1>3, Induction
<1>5. Sortable(Cardinality(ranges))
    BY <1>1, <1>4
<1> QED
    BY <1>5

LEMMA SortedIsSorting ==
    ASSUME NEW ranges, IsFiniteSet(ranges), \A r \in ranges : r.start \in Nat
    PROVE  IsSorting(Sorted(ranges), ranges)
BY SortingExists DEF Sorted, IsSorting

Joins(f, n, sorted) == f = [i \in 0 .. n |-> IF i = 0 THEN <<>> ELSE Join(f[i - 1], sorted[i])]

LEMMA JoinsExist ==
    ASSUME NEW n \in Nat, NEW sorted
    PROVE  \E f : Joins(f, n, sorted)
<1> DEFINE S == {k \in Nat : \E f : Joins(f, k, sorted)}
<1>1. 0 \in S
    <2>1. Joins([i \in 0 .. 0 |-> <<>>], 0, sorted)
        BY DEF Joins
    <2> QED
        BY <2>1
<1>2. ASSUME NEW k \in Nat, k \in S PROVE k + 1 \in S
    <2>1. PICK f : Joins(f, k, sorted)
        BY <1>2
    <2> DEFINE g == [i \in 0 .. k + 1 |-> IF i = k + 1 THEN Join(f[k], sorted[k + 1]) ELSE f[i]]
    <2>2. DOMAIN f = 0 .. k /\ \A i \in 0 .. k : f[i] = IF i = 0 THEN <<>> ELSE Join(f[i - 1], sorted[i])
        BY <2>1 DEF Joins
    <2>3. g[k + 1] = Join(f[k], sorted[k + 1]) /\ \A i \in 0 .. k : g[i] = f[i]
        OBVIOUS
    <2>4. \A i \in 0 .. k + 1 : g[i] = IF i = 0 THEN <<>> ELSE Join(g[i - 1], sorted[i])
        <3> SUFFICES ASSUME NEW i \in 0 .. k + 1
                     PROVE  g[i] = IF i = 0 THEN <<>> ELSE Join(g[i - 1], sorted[i])
            OBVIOUS
        <3> HIDE DEF g
        <3>1. CASE i = k + 1
            <4>1. i - 1 = k /\ k \in 0 .. k /\ i # 0
                BY <3>1
            <4> QED
                BY <2>3, <3>1, <4>1
        <3>2. CASE i = 0
            BY <2>2, <2>3, <3>2
        <3>3. CASE i \in 1 .. k
            <4>1. i \in 0 .. k /\ i - 1 \in 0 .. k /\ i # 0
                BY <3>3
            <4> QED
                BY <2>2, <2>3, <4>1
        <3> QED
            BY <3>1, <3>2, <3>3
    <2>5. Joins(g, k + 1, sorted)
        <3>1. g = [i \in 0 .. k + 1 |-> g[i]]
            OBVIOUS
        <3> HIDE DEF g
        <3> QED
            BY <2>4, <3>1 DEF Joins
    <2> QED
        BY <2>5
<1> HIDE DEF S
<1>3. Nat \subseteq S
    BY <1>1, <1>2, Induction
<1> QED
    BY <1>3 DEF S

LEMMA MergeIsTheLastJoin ==
    ASSUME NEW ranges, Cardinality(ranges) \in Nat
    PROVE  \E f : /\ Joins(f, Cardinality(ranges), Sorted(ranges))
                  /\ MergeRanges(ranges) = f[Cardinality(ranges)]
<1> DEFINE n == Cardinality(ranges)
           f == CHOOSE f : Joins(f, n, Sorted(ranges))
<1>1. Joins(f, n, Sorted(ranges))
    BY JoinsExist
<1>2. MergeRanges(ranges) = f[n]
    BY DEF MergeRanges, Joins
<1> QED
    BY <1>1, <1>2
----------------------------------------------------------------------------
(* Minute m lies in range r. *)
Within(r, m) == r.start <= m /\ m < r.end

MinuteRange == [start : Nat, end : Nat]

(* The ranges merged so far: apart from one another, in order, no later   *)
(* than the last range joined, and of just the minutes of those joined.    *)
Apart(merged) ==
    /\ \A k \in DOMAIN merged : merged[k].start < merged[k].end
    /\ \A k, l \in DOMAIN merged : k < l => merged[k].end < merged[l].start

LEMMA MaxOfTwo ==
    ASSUME NEW x \in Int, NEW y \in Int
    PROVE  Max({x, y}) = IF x >= y THEN x ELSE y
<1>1. \E z \in {x, y} : \A w \in {x, y} : z >= w
    OBVIOUS
<1>2. Max({x, y}) \in {x, y} /\ \A w \in {x, y} : Max({x, y}) >= w
    BY <1>1 DEF Max
<1> QED
    BY <1>2

LEMMA JoinOne ==
    ASSUME NEW merged \in Seq(MinuteRange), Apart(merged),
           NEW r \in MinuteRange, r.start < r.end,
           \A k \in DOMAIN merged : merged[k].start <= r.start
    PROVE  /\ Join(merged, r) \in Seq(MinuteRange)
           /\ Apart(Join(merged, r))
           /\ \A k \in DOMAIN Join(merged, r) : Join(merged, r)[k].start <= r.start
           /\ \A k \in DOMAIN Join(merged, r) :
                \/ Join(merged, r)[k].start = r.start
                \/ \E l \in DOMAIN merged : Join(merged, r)[k].start = merged[l].start
           /\ \A m \in Nat : (\E k \in DOMAIN Join(merged, r) : Within(Join(merged, r)[k], m))
                             <=> Within(r, m) \/ \E k \in DOMAIN merged : Within(merged[k], m)
<1> DEFINE n == Len(merged)
           after == Join(merged, r)
<1>1. /\ n \in Nat /\ DOMAIN merged = 1 .. n
      /\ \A k \in 1 .. n : merged[k] \in MinuteRange
    OBVIOUS
<1>2. CASE merged # <<>> /\ r.start <= merged[n].end
    <2> DEFINE e == Max({merged[n].end, r.end})
    <2>1. n \in 1 .. n /\ merged[n] \in MinuteRange
        BY <1>1, <1>2
    <2>2. e \in Nat /\ e >= merged[n].end /\ e >= r.end /\ (e = merged[n].end \/ e = r.end)
        BY <2>1, MaxOfTwo DEF MinuteRange
    <2>3. after = [merged EXCEPT ![n].end = e]
        BY <1>2 DEF Join
    <2> HIDE DEF e
    <2>4. /\ DOMAIN after = 1 .. n /\ after[n] \in MinuteRange
          /\ after[n].start = merged[n].start /\ after[n].end = e
          /\ \A k \in 1 .. n - 1 : after[k] = merged[k]
        BY <1>1, <2>1, <2>2, <2>3 DEF MinuteRange
    <2>5. after \in Seq(MinuteRange)
        <3>1. \A k \in 1 .. n : after[k] \in MinuteRange
            BY <1>1, <2>1, <2>4
        <3>2. after \in [1 .. n -> MinuteRange]
            BY <1>1, <2>3, <3>1
        <3> QED
            BY <1>1, <3>2
    <2> HIDE DEF after, n
    <2>6. Apart(after)
        <3>1. after[n].start < after[n].end
            <4>1. merged[n].start < merged[n].end
                BY <1>1, <2>1 DEF Apart
            <4>2. merged[n].start \in Nat /\ merged[n].end \in Nat
                BY <2>1 DEF MinuteRange
            <4> QED
                BY <2>2, <2>4, <4>1, <4>2
        <3>2. \A k \in DOMAIN after : after[k].start < after[k].end
            BY <1>1, <2>1, <2>4, <3>1 DEF Apart
        <3>3. \A k, l \in DOMAIN after : k < l => after[k].end < after[l].start
            BY <1>1, <2>1, <2>4 DEF Apart
        <3> QED
            BY <3>2, <3>3 DEF Apart
    <2>7. /\ \A k \in DOMAIN after : after[k].start <= r.start
          /\ \A k \in DOMAIN after : \E l \in DOMAIN merged : after[k].start = merged[l].start
        BY <1>1, <2>1, <2>4
    <2>8. \A m \in Nat : (\E k \in DOMAIN after : Within(after[k], m))
                         <=> Within(r, m) \/ \E k \in DOMAIN merged : Within(merged[k], m)
        <3> SUFFICES ASSUME NEW m \in Nat
                     PROVE  (\E k \in DOMAIN after : Within(after[k], m))
                            <=> Within(r, m) \/ \E k \in DOMAIN merged : Within(merged[k], m)
            OBVIOUS
        <3>1. Within(after[n], m) <=> Within(r, m) \/ Within(merged[n], m)
            BY <1>1, <1>2, <2>1, <2>2, <2>4 DEF Within, MinuteRange, n
        <3> QED
            BY <1>1, <2>1, <2>4, <3>1
    <2> QED
        BY <2>5, <2>6, <2>7, <2>8 DEF after
<1>3. CASE ~(merged # <<>> /\ r.start <= merged[n].end)
    <2>1. after = Append(merged, r)
        BY <1>3 DEF Join
    <2>2. /\ DOMAIN after = 1 .. n + 1 /\ after[n + 1] = r
          /\ \A k \in 1 .. n : after[k] = merged[k]
          /\ after \in Seq(MinuteRange)
        BY <2>1
    <2>3. \A k \in 1 .. n : merged[k].end < r.start
        <3> SUFFICES ASSUME NEW k \in 1 .. n PROVE merged[k].end < r.start
            OBVIOUS
        <3>1. n \in 1 .. n /\ merged # <<>> /\ merged[n] \in MinuteRange /\ merged[k] \in MinuteRange
            BY <1>1
        <3>2. merged[n].end < r.start
            BY <1>3, <3>1 DEF MinuteRange
        <3>3. k < n => merged[k].end < merged[n].start /\ merged[n].start < merged[n].end
            BY <1>1, <3>1 DEF Apart
        <3> QED
            BY <3>1, <3>2, <3>3 DEF MinuteRange
    <2> HIDE DEF after, n
    <2>4. Apart(after)
        <3>1. \A k \in DOMAIN after : after[k].start < after[k].end
            BY <1>1, <2>2 DEF Apart
        <3>2. ASSUME NEW k \in DOMAIN after, NEW l \in DOMAIN after, k < l
              PROVE  after[k].end < after[l].start
            <4>1. k \in 1 .. n
                BY <1>1, <2>2, <3>2
            <4>2. l = n + 1 \/ l \in 1 .. n
                BY <1>1, <2>2
            <4> QED
                BY <1>1, <2>2, <2>3, <3>2, <4>1, <4>2 DEF Apart
        <3> QED
            BY <3>1, <3>2 DEF Apart
    <2>5. \A k \in 1 .. n + 1 : k = n + 1 \/ k \in 1 .. n
        BY <1>1
    <2>6. /\ \A k \in DOMAIN after : after[k].start <= r.start
          /\ \A k \in DOMAIN after : \/ after[k].start = r.start
                                     \/ \E l \in DOMAIN merged : after[k].start = merged[l].start
        <3>1. r.start <= r.start
            BY DEF MinuteRange
        <3> QED
            BY <1>1, <2>2, <2>5, <3>1
    <2>7. n + 1 \in 1 .. n + 1 /\ \A k \in 1 .. n : k \in 1 .. n + 1
        BY <1>1
    <2>8. \A m \in Nat : (\E k \in DOMAIN after : Within(after[k], m))
                         <=> Within(r, m) \/ \E k \in DOMAIN merged : Within(merged[k], m)
        BY <1>1, <2>2, <2>5, <2>7
    <2> QED
        BY <2>2, <2>4, <2>6, <2>8 DEF after
<1> QED
    BY <1>2, <1>3
(* What mergeRanges returns, whatever the ranges. *)
LEMMA MergedRanges ==
    ASSUME NEW ranges \in SUBSET MinuteRange, IsFiniteSet(ranges), \A r \in ranges : r.start < r.end
    PROVE  LET merged == MergeRanges(ranges)
           IN  /\ merged \in Seq(MinuteRange)
               /\ Apart(merged)
               /\ \A k \in DOMAIN merged : \E r \in ranges : merged[k].start = r.start
               /\ \A m \in Nat : (\E k \in DOMAIN merged : Within(merged[k], m))
                                 <=> \E r \in ranges : Within(r, m)
<1> DEFINE n == Cardinality(ranges)
           s == Sorted(ranges)
<1>1. n \in Nat
    BY FS_CardinalityType
<1>2. IsSorting(s, ranges)
    BY SortedIsSorting DEF MinuteRange
<1>3. PICK f : Joins(f, n, s) /\ MergeRanges(ranges) = f[n]
    BY <1>1, MergeIsTheLastJoin
<1> HIDE DEF s, n
<1>4. /\ \A i \in 1 .. n : s[i] \in ranges /\ s[i] \in MinuteRange /\ s[i].start < s[i].end
      /\ \A i, j \in 1 .. n : i < j => s[i].start <= s[j].start
      /\ \A r \in ranges : \E i \in 1 .. n : s[i] = r
    BY <1>2 DEF IsSorting, n
<1>5. \A i \in 0 .. n : f[i] = IF i = 0 THEN <<>> ELSE Join(f[i - 1], s[i])
    BY <1>3 DEF Joins
<1> DEFINE P(i) ==
             /\ f[i] \in Seq(MinuteRange)
             /\ Apart(f[i])
             /\ \A k \in DOMAIN f[i] : \E j \in 1 .. i : f[i][k].start = s[j].start
             /\ \A m \in Nat : (\E k \in DOMAIN f[i] : Within(f[i][k], m))
                               <=> \E j \in 1 .. i : Within(s[j], m)
           S == {i \in Nat : i <= n => P(i)}
<1>6. 0 \in S
    <2>1. f[0] = <<>>
        BY <1>1, <1>5
    <2>2. f[0] \in Seq(MinuteRange) /\ DOMAIN f[0] = {} /\ 1 .. 0 = {}
        BY <2>1
    <2>3. Apart(f[0])
        BY <2>2 DEF Apart
    <2> QED
        BY <2>2, <2>3
<1>7. ASSUME NEW i \in Nat, i \in S PROVE i + 1 \in S
    <2> SUFFICES ASSUME i + 1 <= n PROVE P(i + 1)
        OBVIOUS
    <2>1. P(i) /\ i + 1 \in 1 .. n /\ i + 1 \in 0 .. n /\ (i + 1) - 1 = i
        BY <1>1, <1>7
    <2>2. f[i + 1] = Join(f[i], s[i + 1])
        BY <1>5, <2>1
    <2> DEFINE r == s[i + 1]
               before == f[i]
               after == f[i + 1]
    <2>3. r \in MinuteRange /\ r.start < r.end
        BY <1>4, <2>1
    <2>4. \A k \in DOMAIN before : before[k].start <= r.start
        <3> SUFFICES ASSUME NEW k \in DOMAIN before PROVE before[k].start <= r.start
            OBVIOUS
        <3>1. PICK j \in 1 .. i : before[k].start = s[j].start
            BY <2>1
        <3>2. j \in 1 .. n /\ j < i + 1
            BY <1>1, <2>1
        <3> QED
            BY <1>4, <2>1, <3>1, <3>2
    <2>5. /\ after \in Seq(MinuteRange)
          /\ Apart(after)
          /\ \A k \in DOMAIN after : \/ after[k].start = r.start
                                     \/ \E l \in DOMAIN before : after[k].start = before[l].start
          /\ \A m \in Nat : (\E k \in DOMAIN after : Within(after[k], m))
                            <=> Within(r, m) \/ \E k \in DOMAIN before : Within(before[k], m)
        <3>1. before \in Seq(MinuteRange) /\ Apart(before)
            BY <2>1
        <3>2. after = Join(before, r)
            BY <2>2
        <3> HIDE DEF before, after, r
        <3> QED
            BY <2>3, <2>4, <3>1, <3>2, JoinOne
    <2>6. /\ i + 1 \in 1 .. i + 1
          /\ \A j \in 1 .. i : j \in 1 .. i + 1
          /\ \A j \in 1 .. i + 1 : j = i + 1 \/ j \in 1 .. i
        OBVIOUS
    <2>7. ASSUME NEW k \in DOMAIN after PROVE \E j \in 1 .. i + 1 : after[k].start = s[j].start
        <3>1. CASE after[k].start = r.start
            BY <2>6, <3>1
        <3>2. CASE \E l \in DOMAIN before : after[k].start = before[l].start
            BY <2>1, <2>6, <3>2
        <3> QED
            BY <2>5, <3>1, <3>2
    <2>8. \A m \in Nat : (\E k \in DOMAIN after : Within(after[k], m))
                         <=> \E j \in 1 .. i + 1 : Within(s[j], m)
        BY <2>1, <2>5, <2>6
    <2> QED
        BY <2>5, <2>7, <2>8
<1> HIDE DEF S
<1>8. n \in S
    BY <1>1, <1>6, <1>7, Induction
<1>9. P(n)
    BY <1>1, <1>8 DEF S
<1>10. \A k \in DOMAIN f[n] : \E r \in ranges : f[n][k].start = r.start
    BY <1>4, <1>9
<1>11. \A m \in Nat : (\E k \in DOMAIN f[n] : Within(f[n][k], m)) <=> \E r \in ranges : Within(r, m)
    BY <1>4, <1>9
<1> QED
    BY <1>3, <1>9, <1>10, <1>11

(* The minutes from start to end lie in the ranges just when one merged    *)
(* range holds them all.                                                   *)
LEMMA OneRangeHoldsAll ==
    ASSUME NEW merged \in Seq(MinuteRange), Apart(merged), NEW start \in Nat, NEW end \in Nat, start < end
    PROVE  (\E k \in DOMAIN merged : merged[k].start <= start /\ merged[k].end >= end)
           <=> \A m \in start .. end - 1 : \E k \in DOMAIN merged : Within(merged[k], m)
<1>1. \A k \in DOMAIN merged : merged[k].start \in Nat /\ merged[k].end \in Nat
    <2>1. \A k \in DOMAIN merged : merged[k] \in MinuteRange
        OBVIOUS
    <2> QED
        BY <2>1 DEF MinuteRange
<1>2. ASSUME NEW k \in DOMAIN merged, merged[k].start <= start, merged[k].end >= end,
             NEW m \in start .. end - 1
      PROVE  Within(merged[k], m)
    BY <1>1, <1>2 DEF Within
<1>3. ASSUME \A m \in start .. end - 1 : \E k \in DOMAIN merged : Within(merged[k], m)
      PROVE  \E k \in DOMAIN merged : merged[k].start <= start /\ merged[k].end >= end
    <2>1. start \in start .. end - 1
        OBVIOUS
    <2>2. PICK k \in DOMAIN merged : Within(merged[k], start)
        BY <1>3, <2>1
    <2>3. ASSUME merged[k].end < end PROVE FALSE
        <3>1. merged[k].end \in start .. end - 1
            BY <1>1, <2>2, <2>3 DEF Within
        <3>2. PICK l \in DOMAIN merged : Within(merged[l], merged[k].end)
            BY <1>3, <3>1
        <3>3. k \in Nat /\ l \in Nat
            OBVIOUS
        <3>4. CASE k < l
            BY <1>1, <3>2, <3>4 DEF Within, Apart
        <3>5. CASE l < k
            BY <1>1, <2>2, <3>2, <3>5 DEF Within, Apart
        <3>6. CASE k = l
            BY <1>1, <3>2, <3>6 DEF Within
        <3> QED
            BY <3>3, <3>4, <3>5, <3>6
    <2> QED
        BY <1>1, <2>2, <2>3 DEF Within
<1> QED
    BY <1>2, <1>3
----------------------------------------------------------------------------
(* The windows of a schedule as ranges: finitely many, none empty.         *)
LEMMA RangesOfWindows ==
    ASSUME NEW windows \in SUBSET Slot, \A w \in windows : w.startMinute < w.endMinute
    PROVE  LET ranges == AsRanges(windows)
           IN  /\ ranges \in SUBSET MinuteRange
               /\ IsFiniteSet(ranges)
               /\ \A r \in ranges : r.start < r.end
               /\ \A m \in Nat : (\E r \in ranges : Within(r, m))
                                 <=> \E w \in windows : w.startMinute <= m /\ m < w.endMinute
<1> DEFINE D == 0 .. MinutesPerDay
           T == [start : D, end : D]
           f == [p \in D \X D |-> [start |-> p[1], end |-> p[2]]]
           ranges == AsRanges(windows)
<1>1. MinutesPerDay \in Nat
    BY WeekAssumption
<1>2. IsFiniteSet(T)
    <2>1. IsFiniteSet(D)
        BY <1>1, FS_Interval
    <2> HIDE DEF D
    <2>2. IsFiniteSet(D \X D)
        BY <2>1, FS_Product
    <2>3. f \in [D \X D -> T]
        OBVIOUS
    <2>4. ASSUME NEW r \in T PROVE \E p \in D \X D : f[p] = r
        <3>1. <<r.start, r.end>> \in D \X D /\ f[<<r.start, r.end>>] = r
            OBVIOUS
        <3> QED
            BY <3>1
    <2> HIDE DEF f, T
    <2>5. f \in Surjection(D \X D, T)
        BY <2>3, <2>4 DEF Surjection
    <2> QED
        BY <2>2, <2>5, FS_Surjection
<1>3. \A w \in windows : [start |-> w.startMinute, end |-> w.endMinute] \in T
    BY DEF Slot
<1>4. ranges \in SUBSET T
    BY <1>3 DEF AsRanges
<1>5. \A r \in ranges : r.start < r.end
    BY DEF AsRanges
<1>6. \A m \in Nat : (\E r \in ranges : Within(r, m))
                     <=> \E w \in windows : w.startMinute <= m /\ m < w.endMinute
    <2>1. \A r \in ranges : \E w \in windows : r = [start |-> w.startMinute, end |-> w.endMinute]
        BY DEF AsRanges
    <2>2. ASSUME NEW w \in windows
          PROVE  \E r \in ranges : r.start = w.startMinute /\ r.end = w.endMinute
        <3>1. [start |-> w.startMinute, end |-> w.endMinute] \in ranges
            BY DEF AsRanges
        <3> QED
            BY <3>1
    <2> HIDE DEF ranges
    <2>3. \A r \in ranges : \E w \in windows : r.start = w.startMinute /\ r.end = w.endMinute
        BY <2>1
    <2> QED
        BY <2>2, <2>3 DEF Within
<1>7. T \in SUBSET MinuteRange
    BY <1>1 DEF MinuteRange
<1> HIDE DEF T
<1>8. ranges \in SUBSET MinuteRange /\ IsFiniteSet(ranges)
    BY <1>2, <1>4, <1>7, FS_Subset
<1> QED
    BY <1>5, <1>6, <1>8

LEMMA WindowsOfADay ==
    ASSUME NEW windows \in SUBSET Slot, ValidSlots(windows), NEW day, NEW available
    PROVE  /\ OnDay(windows, day, available) \in SUBSET Slot
           /\ \A w \in OnDay(windows, day, available) :
                w.startMinute \in Nat /\ w.endMinute \in Nat /\ w.startMinute < w.endMinute
<1>1. \A w \in windows : w.startMinute \in Nat /\ w.endMinute \in Nat
    BY WeekAssumption DEF Slot
<1> QED
    BY <1>1 DEF OnDay, ValidSlots

(* coversWindow answers minute by minute: the window is covered just when  *)
(* each minute of it is open and in no blackout, however the open windows  *)
(* touch.                                                                  *)
THEOREM CoverageFollowsTheMinutes ==
    ASSUME NEW windows \in SUBSET Slot, ValidSlots(windows), NEW day,
           NEW start \in Nat, NEW end \in Nat, start < end
    PROVE  CoversWindow(windows, day, start, end)
           <=> \A m \in start .. end - 1 : FreeMinute(windows, day, m)
<1> DEFINE open == OnDay(windows, day, TRUE)
           shut == OnDay(windows, day, FALSE)
           merged == MergeRanges(AsRanges(open))
<1>1. open \in SUBSET Slot /\ \A w \in open : w.startMinute < w.endMinute
    BY WindowsOfADay
<1>2. \A b \in shut : b.startMinute \in Nat /\ b.endMinute \in Nat /\ b.startMinute < b.endMinute
    BY WindowsOfADay
<1> HIDE DEF open, shut
<1>3. /\ merged \in Seq(MinuteRange) /\ Apart(merged)
      /\ \A m \in Nat : (\E k \in DOMAIN merged : Within(merged[k], m))
                        <=> \E w \in open : w.startMinute <= m /\ m < w.endMinute
    <2> DEFINE ranges == AsRanges(open)
    <2>1. /\ ranges \in SUBSET MinuteRange /\ IsFiniteSet(ranges)
          /\ \A r \in ranges : r.start < r.end
          /\ \A m \in Nat : (\E r \in ranges : Within(r, m))
                            <=> \E w \in open : w.startMinute <= m /\ m < w.endMinute
        BY <1>1, RangesOfWindows
    <2> HIDE DEF ranges
    <2>2. LET joined == MergeRanges(ranges)
          IN  /\ joined \in Seq(MinuteRange)
              /\ Apart(joined)
              /\ \A m \in Nat : (\E k \in DOMAIN joined : Within(joined[k], m))
                                <=> \E r \in ranges : Within(r, m)
        BY <2>1, MergedRanges
    <2> QED
        BY <2>1, <2>2 DEF ranges
<1> HIDE DEF merged
<1>4. (\E r \in Range(merged) : r.start <= start /\ r.end >= end)
      <=> \A m \in start .. end - 1 : \E w \in open : w.startMinute <= m /\ m < w.endMinute
    <2>1. (\E r \in Range(merged) : r.start <= start /\ r.end >= end)
          <=> \E k \in DOMAIN merged : merged[k].start <= start /\ merged[k].end >= end
        BY DEF Range
    <2>2. \A m \in start .. end - 1 : m \in Nat
        OBVIOUS
    <2> QED
        BY <1>3, <2>1, <2>2, OneRangeHoldsAll
<1>5. (\A b \in shut : b.startMinute >= end \/ b.endMinute <= start)
      <=> \A m \in start .. end - 1 : \A b \in shut : m < b.startMinute \/ b.endMinute <= m
    <2>1. ASSUME NEW b \in shut, b.startMinute >= end \/ b.endMinute <= start,
                 NEW m \in start .. end - 1
          PROVE  m < b.startMinute \/ b.endMinute <= m
        BY <1>2, <2>1
    <2>2. ASSUME NEW b \in shut, b.startMinute < end, b.endMinute > start
          PROVE  \E m \in start .. end - 1 : b.startMinute <= m /\ m < b.endMinute
        <3>1. CASE b.startMinute <= start
            BY <1>2, <2>2, <3>1
        <3>2. CASE b.startMinute > start
            <4>1. b.startMinute \in start .. end - 1 /\ b.startMinute <= b.startMinute
                BY <1>2, <2>2, <3>2
            <4> QED
                BY <1>2, <4>1
        <3> QED
            BY <1>2, <3>1, <3>2
    <2>3. ASSUME NEW b \in shut, NEW m \in start .. end - 1, b.startMinute <= m /\ m < b.endMinute
          PROVE  ~(m < b.startMinute \/ b.endMinute <= m)
        BY <1>2, <2>3
    <2>4. \A b \in shut : ~(b.startMinute >= end \/ b.endMinute <= start)
                          => b.startMinute < end /\ b.endMinute > start
        BY <1>2
    <2> QED
        BY <2>1, <2>2, <2>3, <2>4
<1>6. CoversWindow(windows, day, start, end)
      <=> /\ \A b \in shut : b.startMinute >= end \/ b.endMinute <= start
          /\ \E r \in Range(merged) : r.start <= start /\ r.end >= end
    BY DEF CoversWindow, open, shut, merged
<1>7. \A m : FreeMinute(windows, day, m)
             <=> /\ \E w \in open : w.startMinute <= m /\ m < w.endMinute
                 /\ \A b \in shut : m < b.startMinute \/ b.endMinute <= m
    BY DEF FreeMinute, open, shut
<1> QED
    BY <1>4, <1>5, <1>6, <1>7
----------------------------------------------------------------------------
(* A greatest number of start and the ends of the first n ranges: where    *)
(* the walk over an open window stands when it has passed them.            *)
LEMMA GreatestSoFar ==
    ASSUME NEW merged \in Seq(MinuteRange), Apart(merged), NEW start \in Nat, NEW n \in 0 .. Len(merged)
    PROVE  LET ends == {merged[i].end : i \in 1 .. n}
               cursor == Max({start} \cup ends)
           IN  /\ cursor \in Nat /\ cursor >= start
               /\ \A i \in 1 .. n : merged[i].end <= cursor
               /\ cursor = start \/ \E i \in 1 .. n : cursor = merged[i].end
<1> DEFINE ends == {merged[i].end : i \in 1 .. n}
           all == {start} \cup ends
<1>1. \A i \in 1 .. n : merged[i] \in MinuteRange /\ merged[i].start \in Nat /\ merged[i].end \in Nat
    <2>1. \A i \in 1 .. n : merged[i] \in MinuteRange
        OBVIOUS
    <2> QED
        BY <2>1 DEF MinuteRange
<1>2. \A i, j \in 1 .. n : i < j => merged[i].end < merged[j].end
    BY <1>1 DEF Apart
<1>3. all \in SUBSET Nat
    BY <1>1
<1>4. \E x \in all : \A y \in all : x >= y
    <2>1. CASE n = 0
        BY <2>1
    <2>2. CASE n # 0
        <3>1. n \in 1 .. n
            BY <2>2
        <3>2. \A i \in 1 .. n : merged[i].end <= merged[n].end
            <4> SUFFICES ASSUME NEW i \in 1 .. n PROVE merged[i].end <= merged[n].end
                OBVIOUS
            <4>1. i = n \/ i < n
                OBVIOUS
            <4> QED
                BY <1>1, <1>2, <3>1, <4>1
        <3>3. \A y \in ends : y \in Nat /\ merged[n].end >= y
            BY <1>1, <3>1, <3>2
        <3>4. merged[n].end \in ends /\ merged[n].end \in Nat
            BY <1>1, <3>1
        <3> HIDE DEF ends
        <3>5. CASE merged[n].end >= start
            BY <3>3, <3>4, <3>5
        <3>6. CASE merged[n].end < start
            BY <3>3, <3>4, <3>6
        <3> QED
            BY <3>4, <3>5, <3>6
    <2> QED
        BY <2>1, <2>2
<1> HIDE DEF all
<1>5. Max(all) \in all /\ \A y \in all : Max(all) >= y
    BY <1>4 DEF Max
<1>6. start \in all /\ \A i \in 1 .. n : merged[i].end \in all
    BY DEF all
<1>7. Max(all) = start \/ \E i \in 1 .. n : Max(all) = merged[i].end
    BY <1>5 DEF all
<1>8. \A i \in 1 .. n : merged[i].end <= Max(all)
    BY <1>1, <1>3, <1>5, <1>6
<1> QED
    BY <1>3, <1>5, <1>6, <1>7, <1>8 DEF all

(* The walk over one open window finds a rest, or a gap before a blackout, *)
(* just when a minute of the window is in none of them.                    *)
LEMMA WalkFindsAFreeMinute ==
    ASSUME NEW merged \in Seq(MinuteRange), Apart(merged), NEW start \in Nat, NEW end \in Nat,
           \A k \in DOMAIN merged : merged[k].start < end,
           start < end
    PROVE  LET Cursor(n) == Max({start} \cup {merged[i].end : i \in 1 .. n})
           IN  (\/ \E n \in DOMAIN merged : merged[n].start > Cursor(n - 1)
                \/ Cursor(Len(merged)) < end)
               <=> \E m \in start .. end - 1 : \A k \in DOMAIN merged : ~Within(merged[k], m)
<1> DEFINE Cursor(n) == Max({start} \cup {merged[i].end : i \in 1 .. n})
           L == Len(merged)
<1>1. /\ L \in Nat /\ DOMAIN merged = 1 .. L
      /\ \A k \in 1 .. L : merged[k] \in MinuteRange /\ merged[k].start \in Nat /\ merged[k].end \in Nat
    <2>1. L \in Nat /\ DOMAIN merged = 1 .. L /\ \A k \in 1 .. L : merged[k] \in MinuteRange
        OBVIOUS
    <2> QED
        BY <2>1 DEF MinuteRange
<1>2. \A n \in 0 .. L :
        /\ Cursor(n) \in Nat /\ Cursor(n) >= start
        /\ \A i \in 1 .. n : merged[i].end <= Cursor(n)
        /\ Cursor(n) = start \/ \E i \in 1 .. n : Cursor(n) = merged[i].end
    BY GreatestSoFar
<1> HIDE DEF Cursor, L
<1>3. ASSUME NEW n \in 1 .. L, merged[n].start > Cursor(n - 1)
      PROVE  \E m \in start .. end - 1 : \A k \in 1 .. L : ~Within(merged[k], m)
    <2> DEFINE m == Cursor(n - 1)
    <2>1. n - 1 \in 0 .. L /\ merged[n].start < end
        BY <1>1
    <2>2. m \in Nat /\ m >= start /\ m < merged[n].start /\ \A i \in 1 .. n - 1 : merged[i].end <= m
        BY <1>2, <1>3, <2>1
    <2>3. m \in start .. end - 1
        BY <1>1, <2>1, <2>2
    <2> HIDE DEF m
    <2>4. ASSUME NEW k \in 1 .. L PROVE ~Within(merged[k], m)
        <3>1. CASE k < n
            <4>1. k \in 1 .. n - 1
                BY <1>1, <3>1
            <4> QED
                BY <1>1, <2>2, <4>1 DEF Within
        <3>2. CASE k = n
            BY <1>1, <2>2, <3>2 DEF Within
        <3>3. CASE k > n
            <4>1. merged[n].start < merged[n].end /\ merged[n].end < merged[k].start
                BY <1>1, <3>3 DEF Apart
            <4> QED
                BY <1>1, <2>2, <4>1 DEF Within
        <3> QED
            BY <1>1, <3>1, <3>2, <3>3
    <2> QED
        BY <2>3, <2>4
<1>4. ASSUME Cursor(L) < end
      PROVE  \E m \in start .. end - 1 : \A k \in 1 .. L : ~Within(merged[k], m)
    <2>1. Cursor(L) \in start .. end - 1 /\ \A k \in 1 .. L : merged[k].end <= Cursor(L)
        BY <1>1, <1>2, <1>4
    <2>2. \A k \in 1 .. L : ~Within(merged[k], Cursor(L))
        BY <1>1, <2>1 DEF Within
    <2> QED
        BY <2>1, <2>2
<1>5. ASSUME NEW m \in start .. end - 1, \A k \in 1 .. L : ~Within(merged[k], m),
             \A n \in 1 .. L : merged[n].start <= Cursor(n - 1), Cursor(L) >= end
      PROVE  FALSE
    <2> DEFINE beyond == {k \in 1 .. L : merged[k].end > m}
    <2>1. L \in 0 .. L /\ Cursor(L) # start /\ Cursor(L) > m
        BY <1>1, <1>2, <1>5
    <2>2. beyond \in SUBSET Nat /\ beyond # {}
        <3>1. PICK i \in 1 .. L : Cursor(L) = merged[i].end
            BY <1>2, <2>1
        <3> QED
            BY <2>1, <3>1
    <2> HIDE DEF beyond
    <2>3. PICK k \in beyond : \A j \in beyond : k <= j
        BY <2>2, SmallestOf
    <2>4. k \in 1 .. L /\ merged[k].end > m /\ k - 1 \in 0 .. L
        BY <1>1, <2>3 DEF beyond
    <2>5. \A i \in 1 .. k - 1 : merged[i].end <= m
        <3> SUFFICES ASSUME NEW i \in 1 .. k - 1 PROVE merged[i].end <= m
            OBVIOUS
        <3>1. i \in 1 .. L /\ ~(k <= i)
            BY <1>1, <2>4
        <3>2. i \notin beyond
            BY <2>3, <3>1
        <3> QED
            BY <1>1, <3>1, <3>2 DEF beyond
    <2>6. Cursor(k - 1) <= m
        BY <1>2, <2>4, <2>5
    <2>7. merged[k].start <= Cursor(k - 1) /\ Cursor(k - 1) \in Nat
        BY <1>2, <1>5, <2>4
    <2>8. Within(merged[k], m)
        BY <1>1, <2>4, <2>6, <2>7 DEF Within
    <2> QED
        BY <1>5, <2>4, <2>8
<1>6. /\ \A n \in 1 .. L : merged[n].start \in Nat /\ n - 1 \in 0 .. L
      /\ \A n \in 0 .. L : Cursor(n) \in Nat
      /\ L \in 0 .. L
    BY <1>1, <1>2
<1>7. (\A n \in 1 .. L : merged[n].start <= Cursor(n - 1))
        \/ \E n \in 1 .. L : merged[n].start > Cursor(n - 1)
    BY <1>6
<1>8. Cursor(L) < end \/ Cursor(L) >= end
    BY <1>6
<1>9. (\/ \E n \in 1 .. L : merged[n].start > Cursor(n - 1)
       \/ Cursor(L) < end)
      <=> \E m \in start .. end - 1 : \A k \in 1 .. L : ~Within(merged[k], m)
    BY <1>3, <1>4, <1>5, <1>7, <1>8
<1> QED
    BY <1>1, <1>9 DEF Cursor, L
(* hasFreeMinuteOnDay answers minute by minute: walking each open window   *)
(* past the blackouts that touch it finds a free minute of the day just    *)
(* when there is one.                                                      *)
THEOREM FreeMinutesAreFound ==
    ASSUME NEW windows \in SUBSET Slot, ValidSlots(windows), NEW day
    PROVE  HasFreeMinuteOnDay(windows, day)
           <=> \E m \in 0 .. MinutesPerDay - 1 : FreeMinute(windows, day, m)
<1> DEFINE opens == OnDay(windows, day, TRUE)
           shut == OnDay(windows, day, FALSE)
           touching(o) == {b \in shut : b.startMinute < o.endMinute /\ b.endMinute > o.startMinute}
           merged(o) == MergeRanges(AsRanges(touching(o)))
           Cursor(o, n) == Max({o.startMinute} \cup {merged(o)[i].end : i \in 1 .. n})
           HasFree(o) == \/ \E n \in DOMAIN merged(o) : merged(o)[n].start > Cursor(o, n - 1)
                         \/ Cursor(o, Len(merged(o))) < o.endMinute
<1>1. /\ opens \in SUBSET Slot
      /\ \A o \in opens : /\ o.startMinute \in Nat /\ o.endMinute \in Nat
                          /\ o.startMinute < o.endMinute /\ o.endMinute <= MinutesPerDay
    <2>1. \A w \in Slot : w.endMinute <= MinutesPerDay
        BY WeekAssumption DEF Slot
    <2> QED
        BY <2>1, WindowsOfADay
<1>2. /\ shut \in SUBSET Slot
      /\ \A b \in shut : b.startMinute \in Nat /\ b.endMinute \in Nat /\ b.startMinute < b.endMinute
    BY WindowsOfADay
<1>3. HasFreeMinuteOnDay(windows, day) <=> \E o \in opens : HasFree(o)
    BY DEF HasFreeMinuteOnDay
<1>4. \A m : FreeMinute(windows, day, m)
             <=> /\ \E o \in opens : o.startMinute <= m /\ m < o.endMinute
                 /\ \A b \in shut : m < b.startMinute \/ b.endMinute <= m
    BY DEF FreeMinute
<1> HIDE DEF opens, shut, HasFree
<1>5. ASSUME NEW o \in opens
      PROVE  HasFree(o) <=> \E m \in o.startMinute .. o.endMinute - 1 :
                              \A b \in shut : m < b.startMinute \/ b.endMinute <= m
    <2> DEFINE ranges == AsRanges(touching(o))
               joined == MergeRanges(ranges)
    <2>1. /\ ranges \in SUBSET MinuteRange /\ IsFiniteSet(ranges)
          /\ \A r \in ranges : r.start < r.end
          /\ \A m \in Nat : (\E r \in ranges : Within(r, m))
                            <=> \E b \in touching(o) : b.startMinute <= m /\ m < b.endMinute
        <3>1. touching(o) \in SUBSET Slot /\ \A b \in touching(o) : b.startMinute < b.endMinute
            BY <1>2
        <3> HIDE DEF touching
        <3> QED
            BY <3>1, RangesOfWindows
    <2>2. \A r \in ranges : r.start < o.endMinute
        BY DEF AsRanges
    <2> HIDE DEF ranges
    <2>3. /\ joined \in Seq(MinuteRange)
          /\ Apart(joined)
          /\ \A k \in DOMAIN joined : \E r \in ranges : joined[k].start = r.start
          /\ \A m \in Nat : (\E k \in DOMAIN joined : Within(joined[k], m))
                            <=> \E r \in ranges : Within(r, m)
        BY <2>1, MergedRanges
    <2>4. HasFree(o)
          <=> LET Reached(n) == Max({o.startMinute} \cup {joined[i].end : i \in 1 .. n})
              IN  \/ \E n \in DOMAIN joined : joined[n].start > Reached(n - 1)
                  \/ Reached(Len(joined)) < o.endMinute
        BY DEF HasFree, ranges
    <2> HIDE DEF joined
    <2>5. \A k \in DOMAIN joined : joined[k].start < o.endMinute
        BY <2>2, <2>3
    <2>6. HasFree(o) <=> \E m \in o.startMinute .. o.endMinute - 1 :
                           \A k \in DOMAIN joined : ~Within(joined[k], m)
        BY <1>1, <2>3, <2>4, <2>5, WalkFindsAFreeMinute
    <2>7. ASSUME NEW m \in o.startMinute .. o.endMinute - 1
          PROVE  (\A k \in DOMAIN joined : ~Within(joined[k], m))
                 <=> \A b \in shut : m < b.startMinute \/ b.endMinute <= m
        <3>1. m \in Nat
            BY <1>1
        <3>2. (\E k \in DOMAIN joined : Within(joined[k], m))
              <=> \E b \in touching(o) : b.startMinute <= m /\ m < b.endMinute
            BY <2>1, <2>3, <3>1
        <3>3. \A b \in shut : b.startMinute <= m /\ m < b.endMinute => b \in touching(o)
            BY <1>1, <1>2, <3>1
        <3>4. \A b \in shut : (m < b.startMinute \/ b.endMinute <= m)
                              <=> ~(b.startMinute <= m /\ m < b.endMinute)
            BY <1>2, <3>1
        <3>5. \A b \in touching(o) : b \in shut
            OBVIOUS
        <3> QED
            BY <3>2, <3>3, <3>4, <3>5
    <2> QED
        BY <2>6, <2>7
<1>6. ASSUME NEW o \in opens, NEW m \in o.startMinute .. o.endMinute - 1
      PROVE  m \in 0 .. MinutesPerDay - 1 /\ o.startMinute <= m /\ m < o.endMinute
    BY <1>1, <1>6, WeekAssumption
<1>7. ASSUME NEW o \in opens, NEW m \in 0 .. MinutesPerDay - 1, o.startMinute <= m, m < o.endMinute
      PROVE  m \in o.startMinute .. o.endMinute - 1
    BY <1>1, <1>7
<1> QED
    BY <1>3, <1>4, <1>5, <1>6, <1>7

----------------------------------------------------------------------------
(* The pieces of an event *)

LEMMA DivisionBy ==
    ASSUME NEW d \in Nat \ {0}, NEW x \in Int
    PROVE  /\ x \div d \in Int /\ x % d \in 0 .. d - 1
           /\ x = d * (x \div d) + (x % d)
           /\ d * (x \div d) <= x /\ x < d * (x \div d) + d
<1>1. d \in Int /\ d > 0
    OBVIOUS
<1>2. x \div d \in Int /\ x % d \in 0 .. d - 1 /\ x = d * (x \div d) + (x % d)
    BY <1>1
<1> DEFINE q == x \div d
           m == x % d
<1>3. d * q \in Int
    BY <1>1, <1>2
<1> HIDE DEF q, m
<1>4. d * q <= x /\ x < d * q + d
    BY <1>1, <1>2, <1>3 DEF q, m
<1> QED
    BY <1>2, <1>4 DEF q

LEMMA QuotientIs ==
    ASSUME NEW d \in Nat \ {0}, NEW x \in Int, NEW q \in Int, d * q <= x, x < d * q + d
    PROVE  x \div d = q
<1> DEFINE p == x \div d
<1>1. p \in Int /\ d * p <= x /\ x < d * p + d
    BY DivisionBy
<1> HIDE DEF p
<1>2. \A a, b \in Int : a < b => d * a + d <= d * b
    <2> SUFFICES ASSUME NEW a \in Int, NEW b \in Int, a < b PROVE d * a + d <= d * b
        OBVIOUS
    <2>1. d * (b - a - 1) >= 0
        OBVIOUS
    <2>2. d * (b - a - 1) = d * b - d * a - d
        OBVIOUS
    <2>3. d * b \in Int /\ d * a \in Int
        OBVIOUS
    <2> QED
        BY <2>1, <2>2, <2>3
<1>3. d * p \in Int /\ d * q \in Int
    BY <1>1
<1>4. ~(p < q) /\ ~(q < p)
    BY <1>1, <1>2, <1>3
<1>5. p = q
    BY <1>1, <1>4
<1> QED
    BY <1>5 DEF p
LEMMA Cancel ==
    ASSUME NEW d \in Nat \ {0}, NEW x \in Int, NEW y \in Int
    PROVE  d * x \in Int /\ d * y \in Int /\ (d * x < d * y <=> x < y) /\ d * (x + 1) = d * x + d
<1>1. \A a, b \in Int : a < b => d * a < d * b
    <2> SUFFICES ASSUME NEW a \in Int, NEW b \in Int, a < b PROVE d * a < d * b
        OBVIOUS
    <2>1. d * (b - a) > 0
        OBVIOUS
    <2>2. d * (b - a) = d * b - d * a
        OBVIOUS
    <2>3. d * b \in Int /\ d * a \in Int
        OBVIOUS
    <2> QED
        BY <2>1, <2>2, <2>3
<1>2. d * x \in Int /\ d * y \in Int /\ d * (x + 1) = d * x + d
    OBVIOUS
<1>3. x < y \/ x = y \/ y < x
    OBVIOUS
<1> QED
    BY <1>1, <1>2, <1>3

(* Floor and ceiling: the minutes of the ticks from one to another.        *)
LEMMA MinutesOfTicks ==
    ASSUME NEW from \in 0 .. TicksPerDay - 1, NEW to \in from + 1 .. TicksPerDay
    PROVE  LET a == from \div TicksPerMinute
               b == (to + TicksPerMinute - 1) \div TicksPerMinute
           IN  /\ a \in 0 .. MinutesPerDay - 1 /\ b \in a + 1 .. MinutesPerDay
               /\ \A m \in Int : m \in a .. b - 1 <=> \E u \in from .. to - 1 : u \div TicksPerMinute = m
<1> DEFINE T == TicksPerMinute
           M == MinutesPerDay
           a == from \div T
           b == (to + T - 1) \div T
<1>1. T \in Nat \ {0} /\ M \in Nat \ {0} /\ T \in Int /\ M \in Int /\ TicksPerDay = T * M
    BY WeekAssumption DEF TicksPerDay
<1>2. T * M \in Int
    BY <1>1
<1>3. from \in Int /\ to \in Int /\ 0 <= from /\ from < to /\ to <= T * M
    BY <1>1, <1>2
<1> HIDE DEF T, M
<1>4. a \in Int /\ T * a <= from /\ from < T * a + T
    BY <1>1, <1>3, DivisionBy
<1>5. b \in Int /\ T * b <= to + T - 1 /\ to + T - 1 < T * b + T
    <2>1. to + T - 1 \in Int
        BY <1>1, <1>3
    <2> QED
        BY <1>1, <2>1, DivisionBy
<1> HIDE DEF a, b
<1>6. \A x, y \in Int : T * x \in Int /\ (T * x < T * y <=> x < y) /\ T * (x + 1) = T * x + T
    BY <1>1, Cancel
<1>7. T * 0 = 0
    BY <1>1
<1>8. a >= 0
    <2>1. T * 0 < T * (a + 1)
        BY <1>1, <1>3, <1>4, <1>6, <1>7
    <2>2. 0 \in Int /\ a + 1 \in Int
        BY <1>4
    <2>3. 0 < a + 1
        BY <1>6, <2>1, <2>2
    <2> QED
        BY <1>4, <2>3
<1>9. a < b
    <2>1. T * a \in Int /\ T * b \in Int
        BY <1>4, <1>5, <1>6
    <2>2. T * a < T * b
        BY <1>1, <1>3, <1>4, <1>5, <2>1
    <2> QED
        BY <1>4, <1>5, <1>6, <2>2
<1>10. b <= M
    <2>1. M + 1 \in Int /\ T * b \in Int /\ T * (M + 1) = T * M + T
        BY <1>1, <1>5, <1>6
    <2>2. T * b < T * (M + 1)
        BY <1>1, <1>2, <1>3, <1>5, <2>1
    <2>3. b < M + 1
        BY <1>5, <1>6, <2>1, <2>2
    <2> QED
        BY <1>1, <1>5, <2>3
<1>11. ASSUME NEW m \in Int, NEW u \in from .. to - 1, u \div T = m PROVE m \in a .. b - 1
    <2>1. u \in Int /\ T * m <= u /\ u < T * m + T
        BY <1>1, <1>3, <1>11, DivisionBy
    <2>2. m + 1 \in Int /\ T * m \in Int /\ T * (m + 1) = T * m + T /\ T * a \in Int /\ T * b \in Int
        <3>1. m + 1 \in Int
            OBVIOUS
        <3>2. T * m \in Int /\ T * (m + 1) = T * m + T
            BY <1>6, Zenon
        <3>3. T * a \in Int /\ T * b \in Int
            BY <1>4, <1>5, <1>6
        <3> QED
            BY <3>1, <3>2, <3>3
    <2>3. T * a < T * (m + 1)
        BY <1>1, <1>3, <1>4, <2>1, <2>2
    <2>4. T * m < T * b
        BY <1>1, <1>3, <1>5, <2>1, <2>2
    <2>5. a < m + 1 /\ m < b
        BY <1>4, <1>5, <1>6, <2>2, <2>3, <2>4
    <2> QED
        BY <1>4, <1>5, <2>5
<1>12. ASSUME NEW m \in a .. b - 1 PROVE \E u \in from .. to - 1 : u \div T = m
    <2>1. m \in Int /\ a < m + 1 /\ m < b /\ m + 1 \in Int /\ T * m \in Int /\ T * (m + 1) = T * m + T
        <3>1. m \in Int
            BY <1>4, <1>5
        <3>2. T * m \in Int /\ T * (m + 1) = T * m + T
            BY <1>6, <3>1, Zenon
        <3> QED
            BY <1>4, <1>5, <3>1, <3>2
    <2>2. m + 1 <= b /\ (m + 1 < b \/ m + 1 = b)
        BY <1>5, <2>1
    <2>3. T * (m + 1) <= T * b /\ T * b \in Int
        <3>1. T * (m + 1) \in Int /\ T * b \in Int
            BY <1>5, <1>6, <2>1
        <3> QED
            BY <1>5, <1>6, <2>1, <2>2, <3>1
    <2>4. T * m < to
        BY <1>1, <1>3, <1>5, <2>1, <2>3
    <2>5. from < T * m + T
        <3>1. a = m \/ a < m
            BY <1>4, <2>1
        <3>2. CASE a = m
            BY <1>4, <3>2
        <3>3. CASE a < m
            <4>1. T * a < T * m /\ T * a \in Int
                BY <1>4, <1>6, <2>1, <3>3
            <4> QED
                BY <1>1, <1>3, <1>4, <2>1, <4>1
        <3> QED
            BY <3>1, <3>2, <3>3
    <2>6. CASE T * m >= from
        <3>1. T * m \in from .. to - 1 /\ T * m < T * m + T
            BY <1>1, <1>3, <2>1, <2>4, <2>6
        <3>2. (T * m) \div T = m
            BY <1>1, <2>1, <3>1, QuotientIs
        <3> QED
            BY <3>1, <3>2
    <2>7. CASE T * m < from
        <3>1. from \in from .. to - 1 /\ T * m <= from
            BY <1>3, <2>1, <2>7
        <3>2. from \div T = m
            BY <1>1, <1>3, <2>1, <2>5, <3>1, QuotientIs
        <3> QED
            BY <3>1, <3>2
    <2> QED
        BY <1>3, <2>1, <2>6, <2>7
<1>13. /\ a \in 0 .. M - 1 /\ b \in a + 1 .. M
       /\ \A m \in Int : m \in a .. b - 1 <=> \E u \in from .. to - 1 : u \div T = m
    <2>1. a \in 0 .. M - 1 /\ b \in a + 1 .. M
        BY <1>1, <1>4, <1>5, <1>8, <1>9, <1>10
    <2>2. \A m \in Int : m \in a .. b - 1 <=> \E u \in from .. to - 1 : u \div T = m
        BY <1>11, <1>12
    <2> QED
        BY <2>1, <2>2
<1> QED
    BY <1>13 DEF a, b, T, M
LEMMA MinOfTwo ==
    ASSUME NEW x \in Int, NEW y \in Int
    PROVE  Min({x, y}) = IF x <= y THEN x ELSE y
<1>1. \E z \in {x, y} : \A w \in {x, y} : z =< w
    OBVIOUS
<1>2. Min({x, y}) \in {x, y} /\ \A w \in {x, y} : Min({x, y}) =< w
    BY <1>1 DEF Min
<1> QED
    BY <1>2

(* The minutes of one piece.                                               *)
MinutesOfPiece(piece) ==
    {<<piece.dayOfWeek, m>> : m \in piece.startMinute .. piece.endMinute - 1}

(* A day the event [s, e) touches: its piece is the ticks of that day.     *)
LEMMA TicksOfADay ==
    ASSUME NEW d \in Nat \ {0}, NEW s \in Int, NEW e \in Int, NEW day \in Int,
           s < e, s < d * day + d, d * day < e
    PROVE  LET from == Max({s, day * d}) - day * d
               to == Min({e, (day + 1) * d}) - day * d
           IN  /\ from \in 0 .. d - 1 /\ to \in from + 1 .. d
               /\ \A u \in Int : u \in from .. to - 1 <=> u \in 0 .. d - 1 /\ d * day + u \in s .. e - 1
<1> DEFINE x == day * d
           from == Max({s, x}) - x
           to == Min({e, (day + 1) * d}) - x
<1>1. d \in Int /\ d > 0 /\ x \in Int /\ d * day = x /\ (day + 1) * d = x + d
    OBVIOUS
<1>2. from = (IF s >= x THEN s ELSE x) - x
    BY <1>1, MaxOfTwo
<1>3. to = (IF e <= x + d THEN e ELSE x + d) - x
    BY <1>1, MinOfTwo
<1> HIDE DEF x, from, to
<1>4. s < x + d /\ x < e
    BY <1>1
<1>5. from \in Int /\ to \in Int
    BY <1>1, <1>2, <1>3
<1>6. from \in 0 .. d - 1 /\ to \in from + 1 .. d
    BY <1>1, <1>2, <1>3, <1>4, <1>5
<1>7. ASSUME NEW u \in Int
      PROVE  u \in from .. to - 1 <=> u \in 0 .. d - 1 /\ x + u \in s .. e - 1
    BY <1>1, <1>2, <1>3, <1>4, <1>5
<1> QED
    BY <1>1, <1>6, <1>7 DEF x, from, to

(* weeklySegmentsOf takes just the minutes the event touches, however long *)
(* the event, and each of its pieces is a window of one day.               *)
THEOREM SegmentsTakeTheMinutes ==
    ASSUME NEW event \in [startsAt : Nat, endsAt : Nat], event.startsAt < event.endsAt
    PROVE  LET pieces == WeeklySegmentsOf(event)
           IN  /\ \A n \in DOMAIN pieces :
                    /\ pieces[n].startMinute \in 0 .. MinutesPerDay - 1
                    /\ pieces[n].endMinute \in pieces[n].startMinute + 1 .. MinutesPerDay
               /\ MinutesOf(event) = UNION {MinutesOfPiece(pieces[n]) : n \in DOMAIN pieces}
<1> DEFINE D == TicksPerDay
           T == TicksPerMinute
           s == event.startsAt
           e == event.endsAt
           first == s \div D
           last == (e - 1) \div D
           from(day) == Max({s, day * D}) - day * D
           to(day) == Min({e, (day + 1) * D}) - day * D
           Piece(day) == [dayOfWeek |-> day % Days,
                          startMinute |-> from(day) \div T,
                          endMinute |-> (to(day) + T - 1) \div T]
           pieces == WeeklySegmentsOf(event)
<1>1. D \in Nat \ {0}
    <2>1. MinutesPerDay \in Int /\ MinutesPerDay > 0 /\ T \in Int /\ T > 0
        BY WeekAssumption
    <2> QED
        BY <2>1 DEF TicksPerDay
<1>2. s \in Int /\ e \in Int /\ s < e
    OBVIOUS
<1>3. pieces = [i \in 1 .. (last - first + 1) |-> Piece(first + i - 1)]
    BY DEF WeeklySegmentsOf
<1>4. MinutesOf(event) = {<<(t \div D) % Days, (t % D) \div T>> : t \in s .. e - 1}
    BY DEF MinutesOf
<1> HIDE DEF D, s, e, pieces
<1>5. first \in Int /\ D * first <= s /\ s < D * first + D
    BY <1>1, <1>2, DivisionBy
<1>6. last \in Int /\ D * last <= e - 1 /\ e - 1 < D * last + D
    <2>1. e - 1 \in Int
        BY <1>2
    <2> QED
        BY <1>1, <2>1, DivisionBy
<1> HIDE DEF first, last
<1>7. \A x, y \in Int : D * x \in Int /\ (D * x < D * y <=> x < y) /\ D * (x + 1) = D * x + D
    BY <1>1, Cancel
<1>8. ASSUME NEW day \in first .. last
      PROVE  /\ from(day) \in 0 .. D - 1 /\ to(day) \in from(day) + 1 .. D
             /\ \A u \in Int : u \in from(day) .. to(day) - 1
                               <=> u \in 0 .. D - 1 /\ D * day + u \in s .. e - 1
    <2>1. day \in Int /\ D * day \in Int /\ D * first \in Int /\ D * last \in Int
        BY <1>5, <1>6, <1>7
    <2>2. D * first <= D * day /\ D * day <= D * last
        <3>1. first = day \/ first < day
            BY <1>5, <2>1
        <3>2. day = last \/ day < last
            BY <1>6, <2>1
        <3>3. first < day => D * first < D * day
            BY <1>5, <1>7, <2>1
        <3>4. day < last => D * day < D * last
            BY <1>6, <1>7, <2>1
        <3>5. D * first <= D * day
            BY <2>1, <3>1, <3>3
        <3>6. D * day <= D * last
            BY <2>1, <3>2, <3>4
        <3> QED
            BY <3>5, <3>6
    <2>3. s < D * day + D /\ D * day < e
        BY <1>1, <1>2, <1>5, <1>6, <2>1, <2>2
    <2> HIDE DEF from, to
    <2> QED
        BY <1>1, <1>2, <2>1, <2>3, TicksOfADay DEF from, to
<1>9. ASSUME NEW day \in first .. last
      PROVE  /\ Piece(day).startMinute \in 0 .. MinutesPerDay - 1
             /\ Piece(day).endMinute \in Piece(day).startMinute + 1 .. MinutesPerDay
             /\ \A m \in Int : m \in Piece(day).startMinute .. Piece(day).endMinute - 1
                               <=> \E u \in from(day) .. to(day) - 1 : u \div T = m
    <2>1. from(day) \in 0 .. TicksPerDay - 1 /\ to(day) \in from(day) + 1 .. TicksPerDay
        BY <1>8 DEF D
    <2> HIDE DEF from, to
    <2> QED
        BY <2>1, MinutesOfTicks
<1>10. /\ DOMAIN pieces = 1 .. (last - first + 1)
       /\ \A n \in DOMAIN pieces : first + n - 1 \in first .. last /\ pieces[n] = Piece(first + n - 1)
       /\ \A day \in first .. last : day - first + 1 \in DOMAIN pieces /\ pieces[day - first + 1] = Piece(day)
    <2>1. /\ DOMAIN pieces = 1 .. (last - first + 1)
          /\ \A n \in 1 .. (last - first + 1) : pieces[n] = Piece(first + n - 1)
        BY <1>3
    <2>2. \A n \in 1 .. (last - first + 1) : first + n - 1 \in first .. last
        BY <1>5, <1>6
    <2>3. \A day \in first .. last : /\ day - first + 1 \in 1 .. (last - first + 1)
                                     /\ first + (day - first + 1) - 1 = day
        BY <1>5, <1>6
    <2> HIDE DEF Piece
    <2>4. \A day \in first .. last : pieces[day - first + 1] = Piece(day)
        BY <2>1, <2>3
    <2> QED
        BY <2>1, <2>2, <2>3, <2>4
<1>11. ASSUME NEW t \in s .. e - 1
       PROVE  \E n \in DOMAIN pieces : <<(t \div D) % Days, (t % D) \div T>> \in MinutesOfPiece(pieces[n])
    <2> DEFINE day == t \div D
               u == t % D
    <2>1. t \in Int /\ s <= t /\ t <= e - 1
        BY <1>2
    <2>2. day \in Int /\ u \in 0 .. D - 1 /\ t = D * day + u /\ D * day <= t /\ t < D * day + D
        BY <1>1, <2>1, DivisionBy
    <2> HIDE DEF day, u
    <2>3. day \in first .. last
        <3>1. /\ day + 1 \in Int /\ last + 1 \in Int /\ D * day \in Int /\ D * first \in Int /\ D * last \in Int
              /\ D * (day + 1) = D * day + D /\ D * (last + 1) = D * last + D
            <4>1. D * day \in Int /\ D * first \in Int /\ D * last \in Int
                BY <1>5, <1>6, <1>7, <2>2
            <4>2. D * (day + 1) = D * day + D
                BY <1>7, <2>2, Zenon
            <4>3. D * (last + 1) = D * last + D
                BY <1>6, <1>7, Zenon
            <4> QED
                BY <1>6, <2>2, <4>1, <4>2, <4>3
        <3>2. D * first < D * (day + 1) /\ D * day < D * (last + 1)
            BY <1>1, <1>2, <1>5, <1>6, <2>1, <2>2, <3>1
        <3>3. first < day + 1 /\ day < last + 1
            BY <1>5, <1>7, <2>2, <3>1, <3>2
        <3> QED
            BY <1>5, <1>6, <2>2, <3>3
    <2>4. u \in from(day) .. to(day) - 1
        <3>1. D * day + u \in s .. e - 1 /\ u \in Int
            BY <1>1, <2>2
        <3> HIDE DEF from, to
        <3> QED
            BY <1>8, <2>2, <2>3, <3>1
    <2>5. u \div T \in Int
        <3>1. T \in Nat \ {0} /\ u \in Int
            BY <1>1, <2>2, WeekAssumption
        <3> QED
            BY <3>1, DivisionBy
    <2> HIDE DEF from, to
    <2>6. u \div T \in Piece(day).startMinute .. Piece(day).endMinute - 1
        BY <1>9, <2>3, <2>4, <2>5
    <2>7. <<day % Days, u \div T>> \in MinutesOfPiece(Piece(day))
        <3>1. Piece(day).dayOfWeek = day % Days
            OBVIOUS
        <3> HIDE DEF Piece
        <3> QED
            BY <2>6, <3>1 DEF MinutesOfPiece
    <2> HIDE DEF Piece
    <2>8. day - first + 1 \in DOMAIN pieces /\ pieces[day - first + 1] = Piece(day)
        BY <1>10, <2>3
    <2> QED
        BY <2>7, <2>8 DEF day, u
<1>12. ASSUME NEW day \in first .. last, NEW p \in MinutesOfPiece(Piece(day))
       PROVE  \E t \in s .. e - 1 : p = <<(t \div D) % Days, (t % D) \div T>>
    <2>1. PICK m \in Piece(day).startMinute .. Piece(day).endMinute - 1 : p = <<day % Days, m>>
        <3>1. Piece(day).dayOfWeek = day % Days
            OBVIOUS
        <3> HIDE DEF Piece
        <3> QED
            BY <1>12, <3>1 DEF MinutesOfPiece
    <2>2. PICK u \in from(day) .. to(day) - 1 : u \div T = m
        <3>1. m \in Int
            BY <1>9
        <3> HIDE DEF from, to
        <3> QED
            BY <1>9, <3>1
    <2>3. u \in 0 .. D - 1 /\ D * day + u \in s .. e - 1
        <3>1. u \in Int
            BY <1>8
        <3> HIDE DEF from, to
        <3> QED
            BY <1>8, <3>1
    <2> DEFINE t == D * day + u
    <2>4. t \in Int /\ day \in Int /\ D * day \in Int /\ D * day <= t /\ t < D * day + D
        <3>1. day \in Int
            BY <1>5, <1>6
        <3>2. D * day \in Int
            BY <1>1, <3>1
        <3> QED
            BY <1>1, <2>3, <3>1, <3>2
    <2>5. t \div D = day
        BY <1>1, <2>4, QuotientIs
    <2>6. t % D = u
        <3>1. t % D \in 0 .. D - 1 /\ t = D * (t \div D) + (t % D)
            BY <1>1, <2>4, DivisionBy
        <3> DEFINE r == t % D
        <3>2. r \in 0 .. D - 1 /\ D * day + u = D * day + r
            BY <2>5, <3>1
        <3> HIDE DEF r
        <3>3. r = u
            BY <1>1, <2>3, <2>4, <3>2
        <3> QED
            BY <3>3 DEF r
    <2> HIDE DEF t
    <2> QED
        BY <2>1, <2>2, <2>3, <2>5, <2>6 DEF t
<1> HIDE DEF Piece
<1>13. MinutesOf(event) = UNION {MinutesOfPiece(pieces[n]) : n \in DOMAIN pieces}
    <2>1. ASSUME NEW p \in MinutesOf(event)
          PROVE  p \in UNION {MinutesOfPiece(pieces[n]) : n \in DOMAIN pieces}
        <3>1. PICK t \in s .. e - 1 : p = <<(t \div D) % Days, (t % D) \div T>>
            BY <1>4, <2>1
        <3> QED
            BY <1>11, <3>1
    <2>2. ASSUME NEW n \in DOMAIN pieces, NEW p \in MinutesOfPiece(pieces[n]) PROVE p \in MinutesOf(event)
        <3>1. first + n - 1 \in first .. last /\ p \in MinutesOfPiece(Piece(first + n - 1))
            BY <1>10, <2>2
        <3>2. PICK t \in s .. e - 1 : p = <<(t \div D) % Days, (t % D) \div T>>
            BY <1>12, <3>1
        <3> QED
            BY <1>4, <3>2
    <2> QED
        BY <2>1, <2>2
<1>14. \A n \in DOMAIN pieces :
         /\ pieces[n].startMinute \in 0 .. MinutesPerDay - 1
         /\ pieces[n].endMinute \in pieces[n].startMinute + 1 .. MinutesPerDay
    BY <1>9, <1>10
<1> QED
    BY <1>13, <1>14 DEF pieces
----------------------------------------------------------------------------
TablesOK ==
    /\ slots \in [Owners -> SUBSET Slot]
    /\ DOMAIN events \subseteq Events
    /\ \A e \in DOMAIN events : events[e] \in EventTimes
    /\ DOMAIN assignments \subseteq Assignments
    /\ \A i \in DOMAIN assignments : assignments[i] \in Assignment
    /\ DOMAIN overrides \subseteq Overrides
    /\ \A o \in DOMAIN overrides : overrides[o] \in Override
    /\ SlotsNeverOverlap
    /\ ConflictsAreAuthorised
    /\ EventsOK

(* What any step does to the rows others may have read: they stay.         *)
Evolves ==
    /\ \A e \in DOMAIN events : e \in DOMAIN events' /\ events'[e] = events[e]
    /\ \A o \in DOMAIN overrides : o \in DOMAIN overrides' /\ overrides'[o] = overrides[o]

LEMMA RowsOKParts ==
    RowsOK <=> /\ TablesOK
             /\ reqs \in [Requests -> Request]
             /\ LocksOK
             /\ \A r \in Requests : LocalsOK(r)
BY DEF RowsOK, TablesOK, TypeOK

LEMMA IdleRequest == Idle \in Request
BY DEF Idle, Request, PCs, Nullable

LEMMA InitInvariant == Init => RowsOK
<1> SUFFICES ASSUME Init PROVE RowsOK
    OBVIOUS
<1>1. /\ DOMAIN events = {} /\ DOMAIN assignments = {} /\ DOMAIN overrides = {}
      /\ \A o \in Owners : slots[o] = {}
      /\ slots \in [Owners -> SUBSET Slot]
      /\ reqs \in [Requests -> Request]
      /\ \A r \in Requests : reqs[r] = Idle
    BY IdleRequest DEF Init
<1>2. \A r \in Requests : reqs[r].pc = "idle"
    BY <1>1 DEF Idle
<1>3. TypeOK /\ SlotsNeverOverlap /\ ConflictsAreAuthorised /\ EventsOK
    BY <1>1 DEF TypeOK, SlotsNeverOverlap, ValidSlots, ConflictsAreAuthorised, EventsOK
<1>4. LocksOK /\ \A r \in Requests : LocalsOK(r)
    BY <1>2 DEF LocksOK, Locking, LocalsOK
<1> QED
    BY <1>3, <1>4 DEF RowsOK

(* Steps that leave the tables alone. *)
LEMMA TablesKept ==
    ASSUME TablesOK, UNCHANGED <<slots, events, assignments, overrides>>
    PROVE  TablesOK' /\ Evolves
BY DEF TablesOK, Evolves, SlotsNeverOverlap, ConflictsAreAuthorised, AuthorisedRow, Segments, OverriddenIn,
       EventsOK

(* A request that takes no step keeps what it remembers true.              *)
LEMMA LocalsKept ==
    ASSUME Evolves, UNCHANGED slots, NEW s \in Requests, reqs'[s] = reqs[s], LocalsOK(s)
    PROVE  LocalsOK(s)'
BY DEF Evolves, LocalsOK, Assigning, AuthorisedRow, Segments, OverriddenIn

(* One request r takes a step to q: all there is to show.                  *)
LEMMA StepOf ==
    ASSUME RowsOK, NEW r \in Requests, NEW q \in Request, reqs' = [reqs EXCEPT ![r] = q],
           TablesOK', Evolves, UNCHANGED slots, LocalsOK(r)',
           q.pc \in {"delete", "insert"} =>
             \A s \in Requests \ {r} : Locking(s) => reqs[s].owner # q.owner
    PROVE  RowsOK'
<1>1. reqs' \in [Requests -> Request] /\ reqs'[r] = q /\ \A s \in Requests \ {r} : reqs'[s] = reqs[s]
    BY DEF RowsOK, TypeOK
<1>2. \A s \in Requests \ {r} : LocalsOK(s)'
    BY <1>1, LocalsKept DEF RowsOK
<1>3. LocksOK'
    BY <1>1 DEF RowsOK, LocksOK, Locking
<1>4. \A s \in Requests : LocalsOK(s)'
    BY <1>2
<1> QED
    BY <1>1, <1>3, <1>4 DEF RowsOK, TypeOK, TablesOK

(* The same, of a step that writes no table. *)
LEMMA QuietStep ==
    ASSUME RowsOK, NEW r \in Requests, NEW q \in Request, reqs' = [reqs EXCEPT ![r] = q],
           UNCHANGED <<slots, events, assignments, overrides>>, LocalsOK(r)',
           q.pc \in {"delete", "insert"} =>
             \A s \in Requests \ {r} : Locking(s) => reqs[s].owner # q.owner
    PROVE  RowsOK'
BY TablesKept, StepOf, RowsOKParts

(* A request that ends leaves nothing to show but the tables.              *)
LEMMA EndOf ==
    ASSUME RowsOK, NEW r \in Requests, Finish(r), TablesOK', Evolves, UNCHANGED slots
    PROVE  RowsOK'
<1>1. reqs'[r] = Idle
    BY DEF RowsOK, TypeOK, Finish
<1>2. LocalsOK(r)'
    BY <1>1 DEF LocalsOK, Idle
<1> QED
    BY <1>2, IdleRequest, StepOf DEF Finish, Idle

LEMMA QuietFinish ==
    ASSUME RowsOK, NEW r \in Requests, Finish(r), UNCHANGED <<slots, events, assignments, overrides>>
    PROVE  RowsOK'
BY TablesKept, EndOf, RowsOKParts

LEMMA SegmentsOfEvent ==
    ASSUME TablesOK, NEW e \in DOMAIN events
    PROVE  Segments(e) \in Seq(Segment) /\ Len(Segments(e)) \in 1 .. 2 /\ 1 \in DOMAIN Segments(e)
<1>1. events[e] \in [startsAt : Nat, endsAt : Nat] /\ events[e].endsAt - events[e].startsAt \in 1 .. TicksPerDay
    BY ScheduleAssumption DEF TablesOK, EventsOK
<1>2. Segments(e) \in Seq(Segment) /\ Len(Segments(e)) \in 1 .. 2
    BY <1>1, OneOrTwoSegments DEF Segments
<1> QED
    BY <1>2

LEMMA MinOfConflicts ==
    ASSUME NEW S \in SUBSET (1 .. 2), S # {}
    PROVE  Min(S) \in S
<1>1. \E x \in S : \A y \in S : x =< y
    <2>1. CASE 1 \in S
        BY <2>1
    <2>2. CASE 1 \notin S
        <3>1. PICK x \in S : TRUE
            OBVIOUS
        <3>2. \A y \in S : y = 2
            BY <2>2
        <3> QED
            BY <3>1, <3>2
    <2> QED
        BY <2>1, <2>2
<1> QED
    BY <1>1 DEF Min

----------------------------------------------------------------------------
(* One lemma per action. *)

LEMMA ReplaceSlotsStep ==
    ASSUME RowsOK, NEW r \in Requests, NEW o \in Owners, NEW input \in Inputs[o],
           ReplaceSlots(r, o, input)
    PROVE  RowsOK'
<1> DEFINE new == {ToSlot(s) : s \in input}
           q == [Idle EXCEPT !.pc = "lock", !.owner = o, !.input = new]
<1>1. new \in SUBSET Slot
    <2>1. \A s \in input : s \in SlotInput
        BY ScheduleAssumption
    <2>2. \A s \in SlotInput : ToSlot(s) \in Slot
        BY MinutesOfTimes DEF SlotInput, ToSlot, Slot, EndTimes
    <2> QED
        BY <2>1, <2>2
<1>2. /\ ValidSlots(new) /\ reqs' = [reqs EXCEPT ![r] = q]
      /\ UNCHANGED <<slots, events, assignments, overrides>>
    BY DEF ReplaceSlots, Begin
<1> HIDE DEF new
<1>3. q \in Request /\ q.pc = "lock" /\ q.owner = o /\ q.input = new /\ q.past = {}
    BY <1>1, IdleRequest DEF Idle, Request, PCs, Nullable
<1>4. o # None
    BY ScheduleAssumption
<1> HIDE DEF q
<1>5. reqs'[r] = q
    BY <1>2 DEF RowsOK, TypeOK
<1>6. LocalsOK(r)'
    BY <1>2, <1>3, <1>4, <1>5 DEF LocalsOK
<1> QED
    BY <1>2, <1>3, <1>6, QuietStep

LEMMA LockOwnerStep ==
    ASSUME RowsOK, NEW r \in Requests, LockOwner(r)
    PROVE  RowsOK'
<1> DEFINE q == [reqs[r] EXCEPT !.pc = "delete"]
<1>1. reqs[r] \in Request /\ LocalsOK(r) /\ reqs[r].pc = "lock"
    BY DEF RowsOK, TypeOK, LockOwner, At
<1>2. /\ reqs' = [reqs EXCEPT ![r] = q] /\ UNCHANGED <<slots, events, assignments, overrides>>
      /\ \A s \in Requests : Locking(s) => reqs[s].owner # reqs[r].owner
    BY DEF LockOwner, Locking
<1>3. /\ q \in Request /\ q.pc = "delete" /\ q.owner = reqs[r].owner /\ q.input = reqs[r].input
      /\ q.past = reqs[r].past
    BY <1>1 DEF Request, PCs
<1> HIDE DEF q
<1>4. reqs'[r] = q
    BY <1>2 DEF RowsOK, TypeOK
<1>5. LocalsOK(r)'
    BY <1>1, <1>2, <1>3, <1>4 DEF LocalsOK
<1> QED
    BY <1>2, <1>3, <1>5, QuietStep

LEMMA DeleteSlotsStep ==
    ASSUME RowsOK, NEW r \in Requests, DeleteSlots(r)
    PROVE  RowsOK'
<1> DEFINE q == [reqs[r] EXCEPT !.pc = "insert", !.deleted = slots[reqs[r].owner]]
<1>1. reqs[r] \in Request /\ LocalsOK(r) /\ reqs[r].pc = "delete"
    BY DEF RowsOK, TypeOK, DeleteSlots, At
<1>2. reqs[r].owner \in Owners /\ slots[reqs[r].owner] \in SUBSET Slot
    BY <1>1 DEF LocalsOK, Request, Nullable, RowsOK, TypeOK
<1>3. reqs' = [reqs EXCEPT ![r] = q] /\ UNCHANGED <<slots, events, assignments, overrides>>
    BY DEF DeleteSlots
<1>4. /\ q \in Request /\ q.pc = "insert" /\ q.owner = reqs[r].owner /\ q.input = reqs[r].input
      /\ q.past = reqs[r].past /\ q.deleted = slots[reqs[r].owner]
    BY <1>1, <1>2 DEF Request, PCs
<1> HIDE DEF q
<1>5. reqs'[r] = q
    BY <1>3 DEF RowsOK, TypeOK
<1>6. LocalsOK(r)'
    BY <1>1, <1>3, <1>4, <1>5 DEF LocalsOK
<1>7. \A s \in Requests \ {r} : Locking(s) => reqs[s].owner # q.owner
    BY <1>1, <1>4 DEF RowsOK, LocksOK, Locking
<1> QED
    BY <1>3, <1>4, <1>6, <1>7, QuietStep

(* Under the lock what is inserted is all there is; assignments under way  *)
(* of the coach have one more schedule to answer to.                       *)
LEMMA InsertSlotsStep ==
    ASSUME RowsOK, NEW r \in Requests, InsertSlots(r)
    PROVE  RowsOK'
<1> DEFINE o == reqs[r].owner
           new == (slots[o] \ reqs[r].deleted) \cup reqs[r].input
<1>1. /\ reqs[r] \in Request /\ LocalsOK(r) /\ reqs[r].pc = "insert"
      /\ UNCHANGED <<events, assignments, overrides>>
    BY DEF RowsOK, TypeOK, InsertSlots, At
<1>2. new = reqs[r].input /\ o \in Owners /\ ValidSlots(new) /\ new \in SUBSET Slot
    BY <1>1 DEF LocalsOK, Request, Nullable
<1>3. slots' = [slots EXCEPT ![o] = new]
    BY DEF InsertSlots
<1>4. \A s \in Requests \ {r} :
        \/ reqs[s].coach = o /\ reqs[s].past # {} /\ reqs'[s] = [reqs[s] EXCEPT !.past = @ \cup {new}]
        \/ ~(reqs[s].coach = o /\ reqs[s].past # {}) /\ reqs'[s] = reqs[s]
    BY DEF InsertSlots
<1>5. reqs'[r] = Idle /\ DOMAIN reqs' = Requests /\ reqs' = [s \in Requests |-> reqs'[s]]
    BY DEF InsertSlots
<1> HIDE DEF new, o
<1>6. \A s \in Requests : reqs'[s] \in Request
    BY <1>2, <1>4, <1>5, IdleRequest DEF RowsOK, TypeOK, Request
<1>7. TablesOK'
    <2>1. slots' \in [Owners -> SUBSET Slot] /\ \A p \in Owners : ValidSlots(slots'[p])
        BY <1>2, <1>3 DEF RowsOK, TypeOK, SlotsNeverOverlap
    <2> QED
        BY <2>1, <1>1 DEF RowsOK, TypeOK, TablesOK, SlotsNeverOverlap, ConflictsAreAuthorised,
           AuthorisedRow, Segments, OverriddenIn, EventsOK
<1>8. ASSUME NEW s \in Requests PROVE LocalsOK(s)'
    <2>1. CASE s = r
        BY <2>1, <1>5 DEF LocalsOK, Idle
    <2>2. CASE s # r /\ reqs'[s] = reqs[s] /\ ~(reqs[s].coach = o /\ reqs[s].past # {})
        <3>1. LocalsOK(s) /\ reqs[s] \in Request
            BY DEF RowsOK, TypeOK
        <3>2. reqs[s].pc = "insert" => slots'[reqs[s].owner] = slots[reqs[s].owner]
            BY <1>1, <1>2, <1>3, <2>2 DEF RowsOK, TypeOK, LocksOK, Locking, o
        <3>3. reqs[s].pc = "check" => slots'[reqs[s].coach] = slots[reqs[s].coach]
            <4>1. reqs[s].pc = "check" => reqs[s].coach \in Coaches /\ reqs[s].coach # o
                BY <3>1, <2>2 DEF LocalsOK, Assigning
            <4> QED
                BY <4>1, <1>2, <1>3 DEF RowsOK, TypeOK, Owners
        <3> QED
            BY <3>1, <3>2, <3>3, <2>2, <1>1
               DEF LocalsOK, Assigning, AuthorisedRow, Segments, OverriddenIn
    <2>3. CASE s # r /\ reqs[s].coach = o /\ reqs[s].past # {}
               /\ reqs'[s] = [reqs[s] EXCEPT !.past = @ \cup {new}]
        <3> DEFINE q == reqs[s]
        <3>1. LocalsOK(s) /\ q \in Request
            BY DEF RowsOK, TypeOK
        <3>2. reqs'[s].past = q.past \cup {new}
            BY <2>3, <3>1 DEF Request
        <3>3. /\ reqs'[s].pc = q.pc /\ reqs'[s].event = q.event /\ reqs'[s].coach = q.coach
              /\ reqs'[s].next = q.next /\ reqs'[s].conflicting = q.conflicting
              /\ reqs'[s].hadConflict = q.hadConflict /\ reqs'[s].override = q.override
              /\ reqs'[s].segment = q.segment /\ reqs'[s].id = q.id /\ reqs'[s].seen = q.seen
            BY <2>3, <3>1 DEF Request
        <3>4. q.pc \notin {"lock", "delete", "insert"}
            BY <2>3, <3>1 DEF LocalsOK
        <3>5. \A piece : Covered(piece, q.past) => Covered(piece, q.past \cup {new})
            BY DEF Covered
        <3>6. slots'[q.coach] \in q.past \cup {new}
            BY <1>2, <1>3, <2>3 DEF RowsOK, TypeOK
        <3>7. CASE q.pc \in {"check", "free", "assign"} \/ (q.pc = "record" /\ q.conflicting # {})
            <4>1. Assigning(q)
                BY <3>1, <3>7 DEF LocalsOK
            <4> DEFINE pieces == WeeklySegmentsOf(events[q.event])
            <4>2. \A n \in DOMAIN pieces :
                    \/ q.pc = "check" /\ n >= q.next
                    \/ n \in q.conflicting
                    \/ Covered(pieces[n], q.past \cup {new})
                    \/ \E x \in DOMAIN overrides :
                         /\ overrides[x].event = q.event /\ overrides[x].coach = q.coach
                         /\ overrides[x].segment = pieces[n]
                BY <4>1, <3>5 DEF Assigning, Segments, OverriddenIn
            <4>3. /\ q.event \in DOMAIN events /\ q.coach \in Coaches /\ q.conflicting \subseteq DOMAIN pieces
                  /\ q.override # None => /\ q.override \in DOMAIN overrides
                                          /\ overrides[q.override].event = q.event
                                          /\ overrides[q.override].coach = q.coach
                BY <4>1 DEF Assigning, Segments
            <4>4. pieces = WeeklySegmentsOf(events[q.event])
                OBVIOUS
            <4> HIDE DEF pieces, q
            <4>6. /\ q.pc = "check" => q.next \in DOMAIN pieces /\ q.override = None
                  /\ q.pc = "free" => q.conflicting # {}
                  /\ q.pc \in {"free", "record"} /\ q.conflicting # {} => q.hadConflict
                  /\ q.pc = "assign" => q.conflicting = {} /\ (q.hadConflict <=> q.override # None)
                  /\ q.pc = "record" => /\ q.coach \in Coaches /\ q.segment \in Segment
                                         /\ q.segment = pieces[Min(q.conflicting)]
                BY <3>1, <3>7, <4>4 DEF LocalsOK, Segments, q
            <4> DEFINE p == reqs'[s]
            <4>7. /\ p.past = q.past \cup {new} /\ p.pc = q.pc /\ p.event = q.event /\ p.coach = q.coach
                  /\ p.next = q.next /\ p.conflicting = q.conflicting
                  /\ p.hadConflict = q.hadConflict /\ p.override = q.override
                  /\ p.segment = q.segment /\ p.id = q.id /\ p.seen = q.seen
                BY <3>2, <3>3
            <4>8. /\ p.event \in DOMAIN events' /\ p.coach \in Coaches
                  /\ p.conflicting \subseteq DOMAIN WeeklySegmentsOf(events'[p.event])
                  /\ p.override # None => /\ p.override \in DOMAIN overrides'
                                          /\ overrides'[p.override].event = p.event
                                          /\ overrides'[p.override].coach = p.coach
                BY <4>3, <4>4, <4>7, <1>1
            <4>9. \A n \in DOMAIN WeeklySegmentsOf(events'[p.event]) :
                    \/ p.pc = "check" /\ n >= p.next
                    \/ n \in p.conflicting
                    \/ Covered(WeeklySegmentsOf(events'[p.event])[n], p.past)
                    \/ \E x \in DOMAIN overrides' :
                         /\ overrides'[x].event = p.event /\ overrides'[x].coach = p.coach
                         /\ overrides'[x].segment = WeeklySegmentsOf(events'[p.event])[n]
                BY <4>2, <4>4, <4>7, <1>1
            <4>10. p = reqs'[s]
                OBVIOUS
            <4> HIDE DEF p
            <4>11. p.pc \notin {"lock", "delete", "insert", "remove", "respond", "idle"}
                BY <3>4, <3>6, <3>7, <4>4, <4>6, <4>7, <4>8, <4>9, <1>1
            <4>12. p.pc = "check" =>
         p.next \in DOMAIN WeeklySegmentsOf(events'[p.event]) /\ p.override = None /\ slots'[p.coach] \in p.past
                BY <3>4, <3>6, <3>7, <4>4, <4>6, <4>7, <4>8, <4>9, <1>1
            <4>13. p.pc = "free" => p.conflicting # {}
                BY <3>4, <3>6, <3>7, <4>4, <4>6, <4>7, <4>8, <4>9, <1>1
            <4>14. p.pc \in {"free", "record"} /\ p.conflicting # {} => p.hadConflict
                BY <3>4, <3>6, <3>7, <4>4, <4>6, <4>7, <4>8, <4>9, <1>1
            <4>15. p.pc = "assign" => p.conflicting = {} /\ (p.hadConflict <=> p.override # None)
                BY <3>4, <3>6, <3>7, <4>4, <4>6, <4>7, <4>8, <4>9, <1>1
            <4>16. p.pc = "record" =>
         /\ p.coach \in Coaches /\ p.segment \in Segment
         /\ p.conflicting # {} => p.segment = WeeklySegmentsOf(events'[p.event])[Min(p.conflicting)]
                BY <3>4, <3>6, <3>7, <4>4, <4>6, <4>7, <4>8, <4>9, <1>1
            <4> QED
                BY <4>8, <4>9, <4>10, <4>11, <4>12, <4>13, <4>14, <4>15, <4>16
                   DEF LocalsOK, Assigning, AuthorisedRow, Segments, OverriddenIn
        <3>8. CASE ~(q.pc \in {"check", "free", "assign"} \/ (q.pc = "record" /\ q.conflicting # {}))
            BY <3>1, <3>2, <3>3, <3>4, <3>8, <1>1 DEF LocalsOK, AuthorisedRow, Segments, OverriddenIn
        <3> QED
            BY <3>7, <3>8
    <2> QED
        BY <1>4, <2>1, <2>2, <2>3
<1>9. LocksOK'
    <2>1. ASSUME NEW s \in Requests, Locking(s)'
          PROVE  Locking(s) /\ s # r /\ reqs'[s].owner = reqs[s].owner
        BY <2>1, <1>4, <1>5 DEF RowsOK, TypeOK, Request, Locking, Idle
    <2> QED
        BY <2>1 DEF RowsOK, LocksOK
<1> QED
    BY <1>5, <1>6, <1>7, <1>8, <1>9 DEF RowsOK, TypeOK, TablesOK

(* An event is added, of a day at most. *)
LEMMA CreateStep ==
    ASSUME RowsOK, NEW e \in Events, NEW times \in EventTimes, Create(e, times)
    PROVE  RowsOK'
<1>1. /\ DOMAIN events' = DOMAIN events \cup {e} /\ events'[e] = times
      /\ \A x \in DOMAIN events : events'[x] = events[x]
      /\ UNCHANGED <<slots, assignments, overrides, reqs>>
    BY DEF Create, Insert
<1>2. times.endsAt - times.startsAt \in 1 .. TicksPerDay
    <2>1. times.startsAt \in Nat /\ times.endsAt \in Nat /\ TicksPerDay \in Int
        BY ScheduleAssumption, WeekAssumption DEF TicksPerDay
    <2> QED
        BY <2>1 DEF Create
<1>3. Evolves
    BY <1>1 DEF Evolves
<1>4. TablesOK'
    <2>1. \A i \in DOMAIN assignments : events'[assignments[i].event] = events[assignments[i].event]
        BY <1>1 DEF RowsOK, EventsOK
    <2> QED
        <3>1. ConflictsAreAuthorised'
            BY <1>1, <2>1 DEF RowsOK, ConflictsAreAuthorised, AuthorisedRow, Segments, OverriddenIn
        <3>2. EventsOK' /\ SlotsNeverOverlap'
            BY <1>1, <1>2 DEF RowsOK, EventsOK, SlotsNeverOverlap
        <3> QED
            BY <1>1, <3>1, <3>2 DEF RowsOK, TypeOK, TablesOK
<1>5. \A s \in Requests : LocalsOK(s)'
    BY <1>1, <1>3, LocalsKept DEF RowsOK
<1>6. LocksOK'
    BY <1>1 DEF RowsOK, LocksOK, Locking
<1> QED
    BY <1>1, <1>4, <1>5, <1>6 DEF RowsOK, TypeOK, TablesOK

LEMMA AssignStep ==
    ASSUME RowsOK, NEW r \in Requests, NEW e \in Events, NEW c \in Coaches, NEW reason \in BOOLEAN,
           Assign(r, e, c, reason)
    PROVE  RowsOK'
<1> DEFINE q == [Idle EXCEPT !.pc = "check", !.event = e, !.coach = c, !.reason = reason,
                             !.next = 1, !.past = {slots[c]}]
<1>1. /\ e \in DOMAIN events /\ reqs' = [reqs EXCEPT ![r] = q]
      /\ UNCHANGED <<slots, events, assignments, overrides>>
    BY DEF Assign, Begin
<1>2. slots[c] \in SUBSET Slot
    BY DEF RowsOK, TypeOK, Owners
<1>3. /\ q \in Request /\ q.pc = "check" /\ q.event = e /\ q.coach = c /\ q.next = 1
      /\ q.conflicting = {} /\ q.override = None /\ q.past = {slots[c]}
    BY <1>2, IdleRequest DEF Idle, Request, PCs, Nullable
<1>4. 1 \in DOMAIN Segments(e) /\ \A n \in DOMAIN Segments(e) : n >= 1
    BY <1>1, SegmentsOfEvent, RowsOKParts
<1> HIDE DEF q
<1>5. reqs'[r] = q
    BY <1>1 DEF RowsOK, TypeOK
<1>6. LocalsOK(r)'
    BY <1>1, <1>3, <1>4, <1>5 DEF LocalsOK, Assigning, Segments, OverriddenIn
<1> QED
    BY <1>1, <1>3, <1>6, QuietStep

(* A segment is found free, and is so in a schedule the coach has now, or  *)
(* it is put down as conflicting.                                          *)
LEMMA CheckSegmentStep ==
    ASSUME RowsOK, NEW r \in Requests, CheckSegment(r)
    PROVE  RowsOK'
<1> DEFINE b == reqs[r]
           pieces == Segments(b.event)
           piece == pieces[b.next]
           found == IF IsCoachFreeFor(b.coach, piece.dayOfWeek, piece.startMinute, piece.endMinute)
                    THEN b.conflicting ELSE b.conflicting \cup {b.next}
           q1 == [b EXCEPT !.next = b.next + 1, !.conflicting = found]
           q2 == [b EXCEPT !.pc = IF found # {} THEN "free" ELSE "assign",
                           !.conflicting = found, !.hadConflict = found # {}]
<1>1. b \in Request /\ LocalsOK(r) /\ b.pc = "check" /\ TablesOK
    BY RowsOKParts DEF RowsOK, TypeOK, CheckSegment, At
<1>2. UNCHANGED <<slots, events, assignments, overrides>>
    BY DEF CheckSegment
<1>3. /\ b.event \in DOMAIN events /\ b.coach \in Coaches /\ b.conflicting \subseteq DOMAIN pieces
      /\ b.override = None /\ b.next \in DOMAIN pieces /\ slots[b.coach] \in b.past
      /\ \A n \in DOMAIN pieces :
           \/ n >= b.next \/ n \in b.conflicting \/ Covered(pieces[n], b.past)
           \/ OverriddenIn(pieces[n], b.event, b.coach)
    BY <1>1 DEF LocalsOK, Assigning
<1>4. pieces \in Seq(Segment) /\ Len(pieces) \in 1 .. 2
    BY <1>1, <1>3, SegmentsOfEvent
<1>5. b.next \in found \/ Covered(piece, b.past)
    BY <1>3 DEF Covered, Fits, IsCoachFreeFor
<1>6. /\ found \subseteq DOMAIN pieces /\ b.conflicting \subseteq found /\ found \in SUBSET Nat
      /\ \A n \in DOMAIN pieces :
           \/ n >= b.next + 1 \/ n \in found \/ Covered(pieces[n], b.past)
           \/ OverriddenIn(pieces[n], b.event, b.coach)
    <2>1. found \subseteq DOMAIN pieces /\ b.conflicting \subseteq found /\ DOMAIN pieces = 1 .. Len(pieces)
        BY <1>3, <1>4
    <2> HIDE DEF found, pieces, piece
    <2>2. ASSUME NEW n \in DOMAIN pieces, ~(n >= b.next + 1)
          PROVE  n = b.next \/ ~(n >= b.next)
        BY <2>1, <2>2, <1>3, <1>4
    <2> QED
        BY <2>1, <2>2, <1>3, <1>4, <1>5 DEF piece
<1>7. CASE b.next < Len(pieces)
    <2>1. reqs' = [reqs EXCEPT ![r] = q1]
        BY <1>7 DEF CheckSegment
    <2> HIDE DEF found
    <2>2. /\ q1 \in Request /\ q1.pc = "check" /\ q1.event = b.event /\ q1.coach = b.coach
          /\ q1.next = b.next + 1 /\ q1.conflicting = found /\ q1.override = b.override /\ q1.past = b.past
        <3>1. b.next + 1 \in Nat /\ found \in SUBSET Nat
            BY <1>1, <1>6 DEF Request
        <3> QED
            BY <1>1, <3>1 DEF Request
    <2>3. b.next + 1 \in DOMAIN pieces
        BY <1>3, <1>4, <1>7
    <2>4. pieces = WeeklySegmentsOf(events[b.event])
        BY DEF Segments
    <2> HIDE DEF q1, pieces, piece
    <2>5. reqs'[r] = q1
        BY <2>1 DEF RowsOK, TypeOK
    <2> HIDE DEF b
    <2>6. LocalsOK(r)'
        BY <2>2, <2>3, <2>4, <2>5, <1>2, <1>3, <1>6 DEF LocalsOK, Assigning, Segments, OverriddenIn
    <2> QED
        BY <2>1, <2>2, <2>6, <1>2, QuietStep
<1>8. CASE ~(b.next < Len(pieces)) /\ found # {} /\ ~b.reason
    <2>1. Finish(r)
        BY <1>8 DEF CheckSegment
    <2> QED
        BY <2>1, <1>2, QuietFinish
<1>9. CASE ~(b.next < Len(pieces)) /\ ~(found # {} /\ ~b.reason)
    <2>1. reqs' = [reqs EXCEPT ![r] = q2]
        BY <1>9 DEF CheckSegment
    <2> HIDE DEF found
    <2>2. /\ q2 \in Request /\ q2.pc = (IF found # {} THEN "free" ELSE "assign") /\ q2.event = b.event
          /\ q2.coach = b.coach /\ q2.conflicting = found /\ q2.override = None
          /\ q2.past = b.past /\ (q2.hadConflict <=> found # {})
        <3>1. CASE found # {}
            BY <1>1, <1>3, <1>6, <3>1 DEF Request, PCs
        <3>2. CASE found = {}
            BY <1>1, <1>3, <1>6, <3>2 DEF Request, PCs
        <3> QED
            BY <3>1, <3>2
    <2>3. \A n \in DOMAIN pieces : ~(n >= b.next + 1)
        BY <1>3, <1>4, <1>9
    <2>4. pieces = WeeklySegmentsOf(events[b.event])
        BY DEF Segments
    <2> HIDE DEF q2, pieces, piece
    <2>5. reqs'[r] = q2
        BY <2>1 DEF RowsOK, TypeOK
    <2> HIDE DEF b
    <2>6. LocalsOK(r)'
        BY <2>2, <2>3, <2>4, <2>5, <1>2, <1>3, <1>6 DEF LocalsOK, Assigning, Segments, OverriddenIn
    <2> QED
        BY <2>1, <2>2, <2>6, <1>2, QuietStep
<1> QED
    BY <1>7, <1>8, <1>9

LEMMA RecordNextStep ==
    ASSUME RowsOK, NEW r \in Requests, RecordNext(r)
    PROVE  RowsOK'
<1> DEFINE b == reqs[r]
           pieces == Segments(b.event)
           piece == pieces[Min(b.conflicting)]
           q == WithVerdict(b, piece)
<1>1. b \in Request /\ LocalsOK(r) /\ b.pc = "free" /\ TablesOK
    BY RowsOKParts DEF RowsOK, TypeOK, RecordNext, At
<1>2. UNCHANGED <<slots, events, assignments, overrides>>
    BY DEF RecordNext
<1>3. Assigning(b) /\ b.conflicting # {} /\ b.hadConflict
    BY <1>1 DEF LocalsOK
<1>4. pieces \in Seq(Segment) /\ Len(pieces) \in 1 .. 2 /\ b.conflicting \subseteq 1 .. Len(pieces)
    BY <1>1, <1>3, SegmentsOfEvent DEF Assigning
<1>5. piece \in Segment
    <2>1. b.conflicting \in SUBSET (1 .. 2)
        <3> DEFINE k == Len(pieces)
        <3>1. k \in 1 .. 2 /\ b.conflicting \subseteq 1 .. k
            BY <1>4
        <3> HIDE DEF k, pieces
        <3>2. \A n \in 1 .. k : n \in 1 .. 2
            BY <3>1
        <3> QED
            BY <3>1, <3>2
    <2>2. Min(b.conflicting) \in 1 .. Len(pieces)
        BY <2>1, <1>3, <1>4, MinOfConflicts
    <2> QED
        BY <2>2, <1>4
<1>6. reqs' = [reqs EXCEPT ![r] = q]
    <2>1. piece = [dayOfWeek |-> piece.dayOfWeek, startMinute |-> piece.startMinute,
                   endMinute |-> piece.endMinute]
        BY <1>5 DEF Segment
    <2>2. piece.startMinute \in Int /\ piece.endMinute \in Int
        BY <1>5 DEF Segment
    <2> HIDE DEF piece
    <2>3. /\ ToMinutes(ToHHMM(piece.startMinute)) = piece.startMinute
          /\ ToMinutes(ToHHMM(piece.endMinute)) = piece.endMinute
        BY <2>2, RoundTrip
    <2> QED
        BY <2>1, <2>3 DEF RecordNext, piece
<1> DEFINE verdict == ~IsCoachFreeFor(b.coach, piece.dayOfWeek, piece.startMinute, piece.endMinute)
<1> HIDE DEF piece
<1>7. /\ q \in Request /\ q.pc = "record" /\ q.event = b.event /\ q.coach = b.coach
      /\ q.conflicting = b.conflicting /\ q.override = b.override /\ q.past = b.past
      /\ q.segment = piece /\ q.hadConflict = b.hadConflict
    <2>1. q = [b EXCEPT !.pc = "record", !.segment = piece, !.verdict = verdict]
        BY DEF WithVerdict
    <2>2. verdict \in BOOLEAN
        OBVIOUS
    <2> HIDE DEF verdict, q
    <2> QED
        BY <2>1, <2>2, <1>1, <1>5 DEF Request, PCs, Nullable
<1>8. piece = WeeklySegmentsOf(events[b.event])[Min(b.conflicting)]
    BY DEF piece, Segments
<1> HIDE DEF q, pieces
<1>9. reqs'[r] = q
    BY <1>6 DEF RowsOK, TypeOK
<1>10. LocalsOK(r)'
    <2> DEFINE all == WeeklySegmentsOf(events[b.event])
    <2>1. /\ b.event \in DOMAIN events /\ b.coach \in Coaches /\ b.conflicting \subseteq DOMAIN all
          /\ b.override # None => /\ b.override \in DOMAIN overrides
                                  /\ overrides[b.override].event = b.event
                                  /\ overrides[b.override].coach = b.coach
          /\ \A n \in DOMAIN all :
               \/ n \in b.conflicting \/ Covered(all[n], b.past)
               \/ \E x \in DOMAIN overrides :
                    /\ overrides[x].event = b.event /\ overrides[x].coach = b.coach
                    /\ overrides[x].segment = all[n]
        BY <1>1, <1>3 DEF Assigning, Segments, OverriddenIn
    <2>2. all = WeeklySegmentsOf(events'[q.event])
        BY <1>2, <1>7
    <2>3. piece = all[Min(b.conflicting)]
        BY <1>8
    <2> HIDE DEF b, all
    <2>4. /\ q.pc = "record" /\ q.coach \in Coaches /\ q.segment \in Segment /\ q.hadConflict
          /\ q.segment = WeeklySegmentsOf(events'[q.event])[Min(q.conflicting)]
        BY <2>1, <2>2, <2>3, <1>3, <1>5, <1>7
    <2>5. /\ q.event \in DOMAIN events'
          /\ q.conflicting \subseteq DOMAIN WeeklySegmentsOf(events'[q.event])
          /\ q.override # None => /\ q.override \in DOMAIN overrides'
                                  /\ overrides'[q.override].event = q.event
                                  /\ overrides'[q.override].coach = q.coach
        BY <2>1, <2>2, <1>2, <1>7
    <2>6. \A n \in DOMAIN WeeklySegmentsOf(events'[q.event]) :
            \/ n \in q.conflicting
            \/ Covered(WeeklySegmentsOf(events'[q.event])[n], q.past)
            \/ \E x \in DOMAIN overrides' :
                 /\ overrides'[x].event = q.event /\ overrides'[x].coach = q.coach
                 /\ overrides'[x].segment = WeeklySegmentsOf(events'[q.event])[n]
        BY <2>1, <2>2, <1>2, <1>7
    <2> QED
        BY <2>4, <2>5, <2>6, <1>9 DEF LocalsOK, Assigning, Segments, OverriddenIn
<1> QED
    BY <1>2, <1>6, <1>7, <1>10, QuietStep

LEMMA RecordStep ==
    ASSUME RowsOK, NEW r \in Requests, NEW c \in Coaches, NEW p \in Proposals, Record(r, c, p)
    PROVE  RowsOK'
<1> DEFINE piece == [dayOfWeek |-> p.dayOfWeek, startMinute |-> ToMinutes(p.startTime),
                     endMinute |-> ToMinutes(p.endTime)]
           verdict == ~IsCoachFreeFor(c, piece.dayOfWeek, piece.startMinute, piece.endMinute)
           q == [Idle EXCEPT !.coach = c, !.pc = "record", !.segment = piece, !.verdict = verdict]
<1>1. piece \in Segment
    <2>1. p.dayOfWeek \in Int /\ p.startTime \in EndTimes /\ p.endTime \in EndTimes
        BY ScheduleAssumption DEF EndTimes
    <2>2. ToMinutes(p.startTime) \in Int /\ ToMinutes(p.endTime) \in Int
        BY <2>1, MinutesOfTimes
    <2> QED
        BY <2>1, <2>2 DEF Segment
<1>2. reqs' = [reqs EXCEPT ![r] = q] /\ UNCHANGED <<slots, events, assignments, overrides>>
    BY DEF Record, Begin, WithVerdict, Idle
<1>3. verdict \in BOOLEAN
    OBVIOUS
<1> HIDE DEF piece, verdict
<1>4. /\ q \in Request /\ q.pc = "record" /\ q.coach = c /\ q.segment = piece /\ q.conflicting = {}
    BY <1>1, <1>3, IdleRequest DEF Idle, Request, PCs, Nullable
<1> HIDE DEF q
<1>5. reqs'[r] = q
    BY <1>2 DEF RowsOK, TypeOK
<1>6. LocalsOK(r)'
    BY <1>1, <1>4, <1>5 DEF LocalsOK
<1> QED
    BY <1>2, <1>4, <1>6, QuietStep

(* The override recorded is of the first segment still to record.          *)
LEMMA SaveOverrideStep ==
    ASSUME RowsOK, NEW r \in Requests, NEW o \in Overrides, SaveOverride(r, o)
    PROVE  RowsOK'
<1> DEFINE b == reqs[r]
           left == b.conflicting \ {Min(b.conflicting)}
           row == [event |-> b.event, coach |-> b.coach, segment |-> b.segment, hadConflict |-> b.verdict]
           q == [b EXCEPT !.pc = IF left = {} THEN "assign" ELSE "free", !.conflicting = left,
                          !.override = IF @ = None THEN o ELSE @]
<1>1. b \in Request /\ LocalsOK(r) /\ b.pc = "record" /\ TablesOK
    BY RowsOKParts DEF RowsOK, TypeOK, SaveOverride, At
<1>2. o \notin DOMAIN overrides /\ UNCHANGED <<slots, events, assignments>>
    BY DEF SaveOverride
<1>3. b.coach \in Coaches /\ b.segment \in Segment
    BY <1>1 DEF LocalsOK
<1>4. row \in Override
    BY <1>1, <1>3 DEF Override, Request
<1>5. /\ DOMAIN overrides' = DOMAIN overrides \cup {o} /\ overrides'[o] = row
      /\ \A x \in DOMAIN overrides : overrides'[x] = overrides[x]
    BY DEF SaveOverride, Insert
<1>6. Evolves
    BY <1>2, <1>5 DEF Evolves
<1>7. TablesOK'
    <2> HIDE DEF row, b
    <2>1. ASSUME NEW i \in DOMAIN assignments'
          PROVE  /\ assignments'[i].hadConflict <=> assignments'[i].override # None
                 /\ assignments'[i].hadConflict =>
                      /\ assignments'[i].override \in DOMAIN overrides'
                      /\ overrides'[assignments'[i].override].event = assignments'[i].event
                      /\ overrides'[assignments'[i].override].coach = assignments'[i].coach
                 /\ \A n \in DOMAIN WeeklySegmentsOf(events'[assignments'[i].event]) :
                      \/ Covered(WeeklySegmentsOf(events'[assignments'[i].event])[n], assignments'[i].past)
                      \/ \E x \in DOMAIN overrides' :
                           /\ overrides'[x].event = assignments'[i].event
                           /\ overrides'[x].coach = assignments'[i].coach
                           /\ overrides'[x].segment = WeeklySegmentsOf(events'[assignments'[i].event])[n]
        <3> DEFINE a == assignments[i]
                   pieces == WeeklySegmentsOf(events[a.event])
        <3>1. /\ a.hadConflict <=> a.override # None
              /\ a.hadConflict => /\ a.override \in DOMAIN overrides
                                  /\ overrides[a.override].event = a.event
                                  /\ overrides[a.override].coach = a.coach
              /\ \A n \in DOMAIN pieces :
                   \/ Covered(pieces[n], a.past)
                   \/ \E x \in DOMAIN overrides :
                        /\ overrides[x].event = a.event /\ overrides[x].coach = a.coach
                        /\ overrides[x].segment = pieces[n]
            BY <1>1, <1>2, <2>1 DEF TablesOK, ConflictsAreAuthorised, AuthorisedRow, Segments, OverriddenIn
        <3>2. assignments'[i] = a /\ WeeklySegmentsOf(events'[assignments'[i].event]) = pieces
            BY <1>2
        <3> HIDE DEF a, pieces
        <3>3. /\ a.hadConflict => /\ a.override \in DOMAIN overrides'
                                  /\ overrides'[a.override].event = a.event
                                  /\ overrides'[a.override].coach = a.coach
              /\ \A n \in DOMAIN pieces :
                   \/ Covered(pieces[n], a.past)
                   \/ \E x \in DOMAIN overrides' :
                        /\ overrides'[x].event = a.event /\ overrides'[x].coach = a.coach
                        /\ overrides'[x].segment = pieces[n]
            BY <3>1, <1>5
        <3> QED
            BY <3>1, <3>2, <3>3
    <2>2. ConflictsAreAuthorised'
        BY <2>1 DEF ConflictsAreAuthorised, AuthorisedRow, Segments, OverriddenIn
    <2>3. EventsOK' /\ SlotsNeverOverlap'
        BY <1>1, <1>2 DEF TablesOK, EventsOK, SlotsNeverOverlap
    <2> QED
        BY <1>1, <1>2, <1>4, <1>5, <2>2, <2>3 DEF TablesOK
<1>8. CASE b.conflicting = {}
    <2>1. Finish(r)
        BY <1>8 DEF SaveOverride
    <2> QED
        BY <2>1, <1>2, <1>6, <1>7, EndOf
<1>9. CASE b.conflicting # {}
    <2> DEFINE pieces == WeeklySegmentsOf(events[b.event])
               first == Min(b.conflicting)
    <2>1. reqs' = [reqs EXCEPT ![r] = q]
        BY <1>9 DEF SaveOverride
    <2>2. Assigning(b) /\ b.hadConflict /\ b.segment = pieces[first]
        BY <1>1, <1>9 DEF LocalsOK, Segments
    <2>3. o # None
        BY ScheduleAssumption
    <2>4. left \in SUBSET Nat
        BY <1>1 DEF Request
    <2>5. /\ q \in Request /\ q.pc = (IF left = {} THEN "assign" ELSE "free") /\ q.event = b.event
          /\ q.coach = b.coach /\ q.conflicting = left /\ q.past = b.past /\ q.hadConflict = b.hadConflict
          /\ q.override = (IF b.override = None THEN o ELSE b.override)
        <3> DEFINE named == IF b.override = None THEN o ELSE b.override
        <3>1. named \in Nullable(Overrides) /\ b.override = b.override
            BY <1>1 DEF Request, Nullable
        <3>2. q = [b EXCEPT !.pc = IF left = {} THEN "assign" ELSE "free", !.conflicting = left,
                            !.override = named]
            BY <1>1 DEF Request
        <3> HIDE DEF left, named, q
        <3>3. /\ q \in Request /\ q.pc = (IF left = {} THEN "assign" ELSE "free") /\ q.event = b.event
              /\ q.coach = b.coach /\ q.conflicting = left /\ q.past = b.past
              /\ q.hadConflict = b.hadConflict /\ q.override = named
            BY <1>1, <2>4, <3>1, <3>2 DEF Request, PCs
        <3> QED
            BY <3>3 DEF named
    <2>6. q.override \in DOMAIN overrides' /\ overrides'[q.override].event = q.event
            /\ overrides'[q.override].coach = q.coach /\ q.override # None
        <3>1. CASE b.override = None
            BY <3>1, <2>3, <2>5, <1>5
        <3>2. CASE b.override # None
            BY <3>2, <2>2, <2>5, <1>5 DEF Assigning
        <3> QED
            BY <3>1, <3>2
    <2>7. /\ q.event \in DOMAIN events' /\ q.coach \in Coaches
          /\ left \subseteq DOMAIN WeeklySegmentsOf(events'[q.event])
        BY <2>2, <2>5, <1>2 DEF Assigning, Segments
    <2>8. \A n \in DOMAIN WeeklySegmentsOf(events'[q.event]) :
            \/ n \in left
            \/ Covered(WeeklySegmentsOf(events'[q.event])[n], q.past)
            \/ \E x \in DOMAIN overrides' :
                 /\ overrides'[x].event = q.event /\ overrides'[x].coach = q.coach
                 /\ overrides'[x].segment = WeeklySegmentsOf(events'[q.event])[n]
        <3>1. \A n \in DOMAIN pieces :
                \/ n \in b.conflicting \/ Covered(pieces[n], b.past)
                \/ \E x \in DOMAIN overrides :
                     /\ overrides[x].event = b.event /\ overrides[x].coach = b.coach
                     /\ overrides[x].segment = pieces[n]
            BY <1>1, <2>2 DEF Assigning, Segments, OverriddenIn
        <3>2. WeeklySegmentsOf(events'[q.event]) = pieces
            BY <1>2, <2>5
        <3>3. /\ o \in DOMAIN overrides' /\ overrides'[o].event = q.event /\ overrides'[o].coach = q.coach
              /\ overrides'[o].segment = pieces[first]
            BY <1>5, <2>2, <2>5
        <3> HIDE DEF pieces, q, first
        <3>4. \A n \in b.conflicting : n \in left \/ n = first
            BY DEF first
        <3> QED
            BY <3>1, <3>2, <3>3, <3>4, <2>5, <1>5
    <2> HIDE DEF q, left, pieces
    <2>9. reqs'[r] = q
        BY <2>1 DEF RowsOK, TypeOK
    <2> HIDE DEF b
    <2>10. LocalsOK(r)'
        BY <2>2, <2>5, <2>6, <2>7, <2>8, <2>9 DEF LocalsOK, Assigning, Segments, OverriddenIn
    <2> QED
        BY <2>1, <2>5, <2>10, <1>2, <1>6, <1>7, StepOf
<1> QED
    BY <1>8, <1>9

(* A row of assignments is written: the others stay as they were.          *)
LEMMA RowWritten ==
    ASSUME TablesOK, UNCHANGED <<slots, events, overrides>>, NEW i \in Assignments,
           NEW row \in Assignment, row.event \in DOMAIN events, AuthorisedRow(row),
           assignments' = Insert(assignments, i, row)
    PROVE  TablesOK' /\ Evolves
<1>1. /\ DOMAIN assignments' = DOMAIN assignments \cup {i} /\ assignments'[i] = row
      /\ \A x \in DOMAIN assignments \ {i} : assignments'[x] = assignments[x]
    BY DEF Insert
<1>2. ConflictsAreAuthorised'
    BY <1>1 DEF TablesOK, ConflictsAreAuthorised, AuthorisedRow, Segments, OverriddenIn
<1>3. EventsOK' /\ SlotsNeverOverlap' /\ Evolves
    BY <1>1 DEF TablesOK, EventsOK, SlotsNeverOverlap, Evolves
<1> QED
    BY <1>1, <1>2, <1>3 DEF TablesOK

LEMMA SaveAssignmentStep ==
    ASSUME RowsOK, NEW r \in Requests, NEW i \in Assignments, SaveAssignment(r, i)
    PROVE  RowsOK'
<1> DEFINE q == reqs[r]
           row == [event |-> q.event, coach |-> q.coach, hadConflict |-> q.hadConflict,
                   override |-> q.override, answered |-> FALSE, past |-> q.past]
<1>1. q \in Request /\ LocalsOK(r) /\ q.pc = "assign" /\ TablesOK
    BY RowsOKParts DEF RowsOK, TypeOK, SaveAssignment, At
<1>2. Finish(r) /\ UNCHANGED <<slots, events, overrides>>
    BY DEF SaveAssignment
<1>3. Assigning(q) /\ q.conflicting = {} /\ (q.hadConflict <=> q.override # None)
    BY <1>1 DEF LocalsOK
<1>4. row \in Assignment /\ row.event \in DOMAIN events
    <2>1. q.event \in Events /\ q.coach \in Coaches
        BY <1>1, <1>3 DEF Assigning, TablesOK
    <2> QED
        BY <2>1, <1>1, <1>3 DEF Assigning, Assignment, Request
<1>5. AuthorisedRow(row)
    BY <1>1, <1>3 DEF Assigning, AuthorisedRow, Segments, OverriddenIn
<1>6. CASE AssignmentOf(q.event, q.coach) # {}
    BY <1>2, <1>6, QuietFinish DEF SaveAssignment
<1>7. CASE AssignmentOf(q.event, q.coach) = {}
    <2>1. assignments' = Insert(assignments, i, row)
        BY <1>7 DEF SaveAssignment
    <2> HIDE DEF row
    <2> QED
        BY <2>1, <1>1, <1>2, <1>4, <1>5, RowWritten, EndOf
<1> QED
    BY <1>6, <1>7

LEMMA UnassignStep ==
    ASSUME RowsOK, NEW r \in Requests, NEW i \in Assignments, Unassign(r, i)
    PROVE  RowsOK'
<1> DEFINE q == [Idle EXCEPT !.pc = "remove", !.id = i]
<1>1. reqs' = [reqs EXCEPT ![r] = q] /\ UNCHANGED <<slots, events, assignments, overrides>>
    BY DEF Unassign, Begin
<1>2. q \in Request /\ q.pc = "remove" /\ q.id = i
    BY IdleRequest DEF Idle, Request, PCs, Nullable
<1>3. i # None
    BY ScheduleAssumption
<1> HIDE DEF q
<1>4. reqs'[r] = q
    BY <1>1 DEF RowsOK, TypeOK
<1>5. LocalsOK(r)'
    BY <1>2, <1>3, <1>4 DEF LocalsOK
<1> QED
    BY <1>1, <1>2, <1>5, QuietStep

LEMMA RemoveAssignmentStep ==
    ASSUME RowsOK, NEW r \in Requests, RemoveAssignment(r)
    PROVE  RowsOK'
<1>1. /\ Finish(r) /\ UNCHANGED <<slots, events, overrides>> /\ TablesOK
      /\ DOMAIN assignments' \subseteq DOMAIN assignments
      /\ \A i \in DOMAIN assignments' : assignments'[i] = assignments[i]
    BY RowsOKParts DEF RemoveAssignment
<1>2. ConflictsAreAuthorised'
    BY <1>1 DEF TablesOK, ConflictsAreAuthorised, AuthorisedRow, Segments, OverriddenIn
<1>3. TablesOK' /\ Evolves
    BY <1>1, <1>2 DEF TablesOK, EventsOK, SlotsNeverOverlap, Evolves
<1> QED
    BY <1>1, <1>3, EndOf

LEMMA RespondStep ==
    ASSUME RowsOK, NEW r \in Requests, NEW i \in Assignments, Respond(r, i)
    PROVE  RowsOK'
<1> DEFINE seen == [assignments[i] EXCEPT !.answered = TRUE]
           q == [Idle EXCEPT !.pc = "respond", !.id = i, !.seen = seen]
<1>1. /\ i \in DOMAIN assignments /\ reqs' = [reqs EXCEPT ![r] = q]
      /\ UNCHANGED <<slots, events, assignments, overrides>>
    BY DEF Respond, Begin
<1>2. /\ assignments[i] \in Assignment /\ AuthorisedRow(assignments[i])
      /\ assignments[i].event \in DOMAIN events
    BY <1>1 DEF RowsOK, TypeOK, ConflictsAreAuthorised, EventsOK
<1>3. /\ seen \in Assignment /\ seen.event = assignments[i].event /\ seen.coach = assignments[i].coach
      /\ seen.hadConflict = assignments[i].hadConflict /\ seen.override = assignments[i].override
      /\ seen.past = assignments[i].past
    BY <1>2 DEF Assignment
<1> HIDE DEF seen
<1>4. q \in Request /\ q.pc = "respond" /\ q.id = i /\ q.seen = seen
    BY <1>3, IdleRequest DEF Idle, Request, PCs, Nullable
<1>5. i # None
    BY ScheduleAssumption
<1> HIDE DEF q
<1>6. reqs'[r] = q
    BY <1>1 DEF RowsOK, TypeOK
<1>7. LocalsOK(r)'
    <2> DEFINE p == reqs'[r]
    <2>1. AuthorisedRow(seen)
        BY <1>2, <1>3 DEF AuthorisedRow
    <2>2. /\ seen.hadConflict <=> seen.override # None
          /\ seen.hadConflict => /\ seen.override \in DOMAIN overrides'
                                 /\ overrides'[seen.override].event = seen.event
                                 /\ overrides'[seen.override].coach = seen.coach
          /\ \A n \in DOMAIN WeeklySegmentsOf(events'[seen.event]) :
               \/ Covered(WeeklySegmentsOf(events'[seen.event])[n], seen.past)
               \/ \E x \in DOMAIN overrides' :
                    /\ overrides'[x].event = seen.event /\ overrides'[x].coach = seen.coach
                    /\ overrides'[x].segment = WeeklySegmentsOf(events'[seen.event])[n]
        BY <2>1, <1>1 DEF AuthorisedRow, Segments, OverriddenIn
    <2> QED
        BY <2>2, <1>1, <1>2, <1>3, <1>4, <1>5, <1>6
           DEF LocalsOK, AuthorisedRow, Segments, OverriddenIn
<1> QED
    BY <1>1, <1>4, <1>7, QuietStep

(* What a late answer writes was authorised when it was read, and rows an  *)
(* authorisation rests on are never deleted.                               *)
LEMMA SaveResponseStep ==
    ASSUME RowsOK, NEW r \in Requests, SaveResponse(r)
    PROVE  RowsOK'
<1> DEFINE q == reqs[r]
<1>1. q \in Request /\ LocalsOK(r) /\ q.pc = "respond" /\ TablesOK
    BY RowsOKParts DEF RowsOK, TypeOK, SaveResponse, At
<1>2. Finish(r) /\ UNCHANGED <<slots, events, overrides>>
    BY DEF SaveResponse
<1>3. /\ q.id \in Assignments /\ q.seen \in Assignment /\ q.seen.event \in DOMAIN events
      /\ AuthorisedRow(q.seen)
    BY <1>1 DEF LocalsOK, Request, Nullable
<1>4. CASE assignments' = Insert(assignments, q.id, q.seen)
    BY <1>1, <1>2, <1>3, <1>4, RowWritten, EndOf
<1>5. CASE UNCHANGED assignments
    BY <1>2, <1>5, QuietFinish
<1> QED
    BY <1>4, <1>5 DEF SaveResponse

LEMMA NextStep ==
    ASSUME RowsOK, [Next]_vars
    PROVE  RowsOK'
<1>1. CASE UNCHANGED vars
    <2>1. TablesOK /\ reqs' = reqs /\ UNCHANGED <<slots, events, assignments, overrides>>
        BY <1>1, RowsOKParts DEF vars
    <2>2. TablesOK' /\ Evolves
        BY <2>1, TablesKept
    <2>3. \A s \in Requests : LocalsOK(s)'
        BY <2>1, <2>2, LocalsKept DEF RowsOK
    <2>4. LocksOK'
        BY <2>1 DEF RowsOK, LocksOK, Locking
    <2> QED
        BY <2>1, <2>2, <2>3, <2>4 DEF RowsOK, TypeOK, TablesOK
<1>2. ASSUME NEW e \in Events, NEW times \in EventTimes, Create(e, times) PROVE RowsOK'
    BY <1>2, CreateStep
<1>3. ASSUME NEW r \in Requests, StartRequest(r) PROVE RowsOK'
    <2>1. ASSUME NEW p \in Players, NEW input \in Inputs[p], SetForProfile(r, p, input) PROVE RowsOK'
        BY <2>1, ReplaceSlotsStep DEF SetForProfile, Owners
    <2>2. ASSUME NEW c \in Coaches, NEW input \in Inputs[c], SetForCoach(r, c, input) PROVE RowsOK'
        BY <2>2, ReplaceSlotsStep DEF SetForCoach, Owners
    <2>3. ASSUME NEW e \in Events, NEW c \in Coaches, NEW reason \in BOOLEAN, Assign(r, e, c, reason)
          PROVE  RowsOK'
        BY <2>3, AssignStep
    <2>4. ASSUME NEW c \in Coaches, NEW p \in Proposals, Record(r, c, p) PROVE RowsOK'
        BY <2>4, RecordStep
    <2>5. ASSUME NEW i \in Assignments, Unassign(r, i) \/ Respond(r, i) PROVE RowsOK'
        BY <2>5, UnassignStep, RespondStep
    <2> QED
        BY <1>3, <2>1, <2>2, <2>3, <2>4, <2>5 DEF StartRequest
<1>4. ASSUME NEW r \in Requests, Continue(r) PROVE RowsOK'
    BY <1>4, LockOwnerStep, DeleteSlotsStep, InsertSlotsStep, CheckSegmentStep, RecordNextStep,
       RemoveAssignmentStep, SaveResponseStep, SaveOverrideStep, SaveAssignmentStep DEF Continue
<1>5. ASSUME NEW r \in Requests, Fail(r) PROVE RowsOK'
    BY <1>5, QuietFinish DEF Fail
<1> QED
    BY <1>1, <1>2, <1>3, <1>4, <1>5 DEF Next

----------------------------------------------------------------------------
(* The verdicts *)

LEMMA SameGrounds ==
    ASSUME NEW a, NEW b, NEW pieces, Grounded(a, pieces),
           b.past = a.past, b.hadConflict = a.hadConflict
    PROVE  Grounded(b, pieces)
BY DEF Grounded

(* One request r takes a step that does not touch the events: what is left *)
(* to show is its own verdict and those of the rows it writes.             *)
LEMMA VerdictStep ==
    ASSUME RowsOK, VerdictsGrounded, UNCHANGED events, NEW r \in Requests,
           \A s \in Requests \ {r} : reqs'[s] = reqs[s],
           GroundedLocals(reqs[r])',
           \A i \in DOMAIN assignments' :
             \/ i \in DOMAIN assignments /\ assignments'[i] = assignments[i]
             \/ Grounded(assignments'[i], WeeklySegmentsOf(events[assignments'[i].event]))
    PROVE  VerdictsGrounded'
<1>1. \A i \in DOMAIN assignments' : Grounded(assignments[i], Segments(assignments[i].event))'
    BY DEF VerdictsGrounded, Segments
<1>2. \A s \in Requests \ {r} : GroundedLocals(reqs[s])'
    BY DEF VerdictsGrounded, GroundedLocals, Segments
<1> QED
    BY <1>1, <1>2 DEF VerdictsGrounded

(* The same, of a step that writes no assignment either.                   *)
LEMMA QuietVerdict ==
    ASSUME RowsOK, VerdictsGrounded, UNCHANGED <<events, assignments>>, NEW r \in Requests,
           NEW q, reqs' = [reqs EXCEPT ![r] = q], GroundedLocals(reqs[r])'
    PROVE  VerdictsGrounded'
<1>1. \A s \in Requests \ {r} : reqs'[s] = reqs[s]
    BY DEF RowsOK, TypeOK
<1> QED
    BY <1>1, VerdictStep

(* A request that has no verdict to give.                                  *)
LEMMA NoVerdict ==
    ASSUME NEW r, reqs'[r].pc \in {"idle", "lock", "delete", "insert", "remove"}
                  \/ (reqs'[r].pc = "record" /\ reqs'[r].conflicting = {})
    PROVE  GroundedLocals(reqs[r])'
BY DEF GroundedLocals

LEMMA FinishVerdict ==
    ASSUME RowsOK, VerdictsGrounded, UNCHANGED events, NEW r \in Requests, Finish(r),
           \A i \in DOMAIN assignments' :
             \/ i \in DOMAIN assignments /\ assignments'[i] = assignments[i]
             \/ Grounded(assignments'[i], WeeklySegmentsOf(events[assignments'[i].event]))
    PROVE  VerdictsGrounded'
<1>1. /\ reqs'[r].pc = "idle"
      /\ \A s \in Requests \ {r} : reqs'[s] = reqs[s]
    BY DEF RowsOK, TypeOK, Finish, Idle
<1>2. GroundedLocals(reqs[r])'
    BY <1>1, NoVerdict
<1> QED
    BY <1>1, <1>2, VerdictStep

LEMMA QuietFinishVerdict ==
    ASSUME RowsOK, VerdictsGrounded, UNCHANGED <<events, assignments>>, NEW r \in Requests, Finish(r)
    PROVE  VerdictsGrounded'
BY FinishVerdict

LEMMA StartVerdict ==
    ASSUME RowsOK, VerdictsGrounded, NEW r \in Requests,
           \/ \E p \in Players : \E input \in Inputs[p] : SetForProfile(r, p, input)
           \/ \E c \in Coaches : \E input \in Inputs[c] : SetForCoach(r, c, input)
           \/ \E c \in Coaches, p \in Proposals : Record(r, c, p)
           \/ \E i \in Assignments : Unassign(r, i)
    PROVE  VerdictsGrounded'
<1>1. PICK q : /\ reqs' = [reqs EXCEPT ![r] = q]
               /\ q.pc \in {"lock", "remove"} \/ (q.pc = "record" /\ q.conflicting = {})
    <2>1. ASSUME NEW o, NEW input, ReplaceSlots(r, o, input)
          PROVE  \E q : /\ reqs' = [reqs EXCEPT ![r] = q]
                        /\ q.pc = "lock"
        <3> DEFINE q == [Idle EXCEPT !.pc = "lock", !.owner = o, !.input = {ToSlot(s) : s \in input}]
        <3>1. reqs' = [reqs EXCEPT ![r] = q]
            BY <2>1 DEF ReplaceSlots, Begin
        <3>2. q.pc = "lock"
            BY DEF Idle
        <3> QED
            BY <3>1, <3>2
    <2>2. ASSUME NEW c, NEW p, Record(r, c, p)
          PROVE  \E q : /\ reqs' = [reqs EXCEPT ![r] = q]
                        /\ q.pc = "record" /\ q.conflicting = {}
        <3>1. PICK segment : reqs' = [reqs EXCEPT ![r] = WithVerdict([Idle EXCEPT !.coach = c], segment)]
            BY <2>2 DEF Record, Begin
        <3>2. /\ WithVerdict([Idle EXCEPT !.coach = c], segment).pc = "record"
              /\ WithVerdict([Idle EXCEPT !.coach = c], segment).conflicting = {}
            BY DEF WithVerdict, Idle
        <3> QED
            BY <3>1, <3>2
    <2>3. ASSUME NEW i, Unassign(r, i)
          PROVE  \E q : reqs' = [reqs EXCEPT ![r] = q] /\ q.pc = "remove"
        <3>1. reqs' = [reqs EXCEPT ![r] = [Idle EXCEPT !.pc = "remove", !.id = i]]
            BY <2>3 DEF Unassign, Begin
        <3>2. [Idle EXCEPT !.pc = "remove", !.id = i].pc = "remove"
            BY DEF Idle
        <3> QED
            BY <3>1, <3>2
    <2> QED
        BY <2>1, <2>2, <2>3 DEF SetForProfile, SetForCoach
<1>2. UNCHANGED <<events, assignments>>
    BY DEF SetForProfile, SetForCoach, ReplaceSlots, Record, Unassign
<1>3. reqs'[r] = q
    BY <1>1 DEF RowsOK, TypeOK
<1>4. GroundedLocals(reqs[r])'
    BY <1>1, <1>3, NoVerdict
<1> QED
    BY <1>1, <1>2, <1>4, QuietVerdict

LEMMA LockVerdict ==
    ASSUME RowsOK, VerdictsGrounded, NEW r \in Requests, LockOwner(r) \/ DeleteSlots(r)
    PROVE  VerdictsGrounded'
<1>1. /\ UNCHANGED <<events, assignments>>
      /\ \A s \in Requests \ {r} : reqs'[s] = reqs[s]
      /\ reqs'[r].pc \in {"delete", "insert"}
    BY DEF RowsOK, TypeOK, Request, LockOwner, DeleteSlots
<1> QED
    BY <1>1, NoVerdict, VerdictStep

LEMMA AssignVerdict ==
    ASSUME RowsOK, VerdictsGrounded, NEW r \in Requests, NEW e \in Events, NEW c \in Coaches,
           NEW reason \in BOOLEAN, Assign(r, e, c, reason)
    PROVE  VerdictsGrounded'
<1> DEFINE q == [Idle EXCEPT !.pc = "check", !.event = e, !.coach = c, !.reason = reason,
                             !.next = 1, !.past = {slots[c]}]
<1>1. reqs' = [reqs EXCEPT ![r] = q] /\ UNCHANGED <<events, assignments>>
    BY DEF Assign, Begin
<1>2. /\ q.pc = "check" /\ q.hadConflict = FALSE /\ q.conflicting = {} /\ q.next = 1
      /\ q.past = {slots[c]}
    BY DEF Idle
<1> HIDE DEF q
<1>3. reqs'[r] = q
    BY <1>1 DEF RowsOK, TypeOK
<1>4. ValidSlots(slots[c])
    BY DEF RowsOK, SlotsNeverOverlap, Owners
<1>5. GroundedLocals(reqs[r])'
    BY <1>2, <1>3, <1>4 DEF GroundedLocals, GroundedSoFar
<1> QED
    BY <1>1, <1>5, QuietVerdict

(* A segment is judged on the schedule just read, which is among those the *)
(* coach has had.                                                          *)
LEMMA CheckVerdict ==
    ASSUME RowsOK, VerdictsGrounded, NEW r \in Requests, CheckSegment(r)
    PROVE  VerdictsGrounded'
<1> DEFINE b == reqs[r]
           pieces == Segments(b.event)
           piece == pieces[b.next]
           free == IsCoachFreeFor(b.coach, piece.dayOfWeek, piece.startMinute, piece.endMinute)
           found == IF free THEN b.conflicting ELSE b.conflicting \cup {b.next}
           p == reqs'[r]
<1>1. b \in Request /\ b.pc = "check" /\ LocalsOK(r) /\ TablesOK /\ GroundedSoFar(b, pieces)
    BY RowsOKParts DEF RowsOK, TypeOK, CheckSegment, At, VerdictsGrounded, GroundedLocals
<1>2. /\ Assigning(b) /\ b.next \in DOMAIN pieces /\ slots[b.coach] \in b.past
      /\ b.event \in DOMAIN events
    BY <1>1 DEF LocalsOK, Assigning
<1>3. UNCHANGED <<slots, events, assignments, overrides>> /\ \A s \in Requests \ {r} : reqs'[s] = reqs[s]
    BY DEF CheckSegment, Finish, RowsOK, TypeOK
<1>4. Len(pieces) \in 1 .. 2 /\ DOMAIN pieces = 1 .. Len(pieces) /\ b.next \in 1 .. Len(pieces)
    BY <1>1, <1>2, SegmentsOfEvent
<1>5. free <=> Fits(piece, slots[b.coach])
    BY DEF IsCoachFreeFor, Fits
<1> HIDE DEF free, pieces, b
<1>6. \A n \in found : \E windows \in b.past : ~Fits(pieces[n], windows)
    BY <1>1, <1>2, <1>5 DEF GroundedSoFar
<1>7. \A n \in 1 .. b.next : n \in found \/ Covered(pieces[n], b.past)
    <2> SUFFICES ASSUME NEW n \in 1 .. b.next PROVE n \in found \/ Covered(pieces[n], b.past)
        OBVIOUS
    <2>1. n = b.next \/ n \in 1 .. b.next - 1
        BY <1>4
    <2>2. CASE n = b.next
        BY <1>2, <1>5, <2>2 DEF Covered
    <2>3. CASE n \in 1 .. b.next - 1
        BY <1>1, <2>3 DEF GroundedSoFar
    <2> QED
        BY <2>1, <2>2, <2>3
<1>8. ~b.hadConflict /\ \A windows \in b.past : ValidSlots(windows)
    BY <1>1 DEF GroundedSoFar
<1>9. found \subseteq DOMAIN pieces
    BY <1>1, <1>2 DEF Assigning, pieces, b
<1> HIDE DEF found
<1>10. CASE b.next < Len(pieces)
    <2>1. reqs' = [reqs EXCEPT ![r].next = b.next + 1, ![r].conflicting = found]
        BY <1>10 DEF CheckSegment, b, pieces, found, free
    <2>2. /\ p.pc = "check" /\ p.event = b.event /\ p.past = b.past /\ p.next = b.next + 1
          /\ p.conflicting = found /\ p.hadConflict = b.hadConflict
        BY <1>1, <2>1 DEF RowsOK, TypeOK, Request, b
    <2>3. p.next - 1 = b.next
        BY <1>4, <2>2
    <2> HIDE DEF p
    <2>4. GroundedSoFar(p, pieces)
        BY <1>6, <1>7, <1>8, <2>2, <2>3 DEF GroundedSoFar
    <2>5. GroundedLocals(reqs[r])'
        BY <1>3, <2>2, <2>4 DEF GroundedLocals, Segments, p, pieces
    <2> QED
        BY <1>3, <2>5, VerdictStep
<1>11. CASE ~(b.next < Len(pieces)) /\ found # {} /\ ~b.reason
    <2>1. Finish(r)
        BY <1>11 DEF CheckSegment, b, pieces, found, free
    <2> QED
        BY <1>3, <2>1, QuietFinishVerdict
<1>12. CASE ~(b.next < Len(pieces)) /\ ~(found # {} /\ ~b.reason)
    <2>1. reqs' = [reqs EXCEPT ![r].pc = IF found # {} THEN "free" ELSE "assign",
                               ![r].conflicting = found, ![r].hadConflict = (found # {})]
        BY <1>12 DEF CheckSegment, b, pieces, found, free
    <2>2. /\ p.pc \in {"free", "assign"} /\ p.event = b.event /\ p.past = b.past
          /\ p.hadConflict = (found # {})
        BY <1>1, <2>1 DEF RowsOK, TypeOK, Request, b
    <2>3. DOMAIN pieces = 1 .. b.next
        BY <1>4, <1>12
    <2> HIDE DEF p
    <2>4. Grounded(p, pieces)
        <3>1. CASE found = {}
            BY <1>7, <1>8, <2>2, <2>3, <3>1 DEF Grounded
        <3>2. CASE found # {}
            BY <1>6, <1>8, <1>9, <2>2, <3>2 DEF Grounded
        <3> QED
            BY <3>1, <3>2
    <2>5. GroundedLocals(reqs[r])'
        BY <1>3, <2>2, <2>4 DEF GroundedLocals, Segments, p, pieces
    <2> QED
        BY <1>3, <2>5, VerdictStep
<1> QED
    BY <1>10, <1>11, <1>12

(* What a request records of its conflicts changes no verdict.             *)
LEMMA RecordVerdict ==
    ASSUME RowsOK, VerdictsGrounded, NEW r \in Requests,
           RecordNext(r) \/ \E o \in Overrides : SaveOverride(r, o)
    PROVE  VerdictsGrounded'
<1> DEFINE b == reqs[r]
           p == reqs'[r]
<1>1. /\ UNCHANGED <<events, assignments>>
      /\ \A s \in Requests \ {r} : reqs'[s] = reqs[s]
      /\ b \in Request /\ LocalsOK(r)
    BY DEF RowsOK, TypeOK, RecordNext, SaveOverride, Finish
<1>2. CASE \E o \in Overrides : SaveOverride(r, o) /\ b.conflicting = {}
    <2>1. Finish(r)
        BY <1>2 DEF SaveOverride
    <2> QED
        BY <1>1, <2>1, QuietFinishVerdict
<1>3. CASE RecordNext(r) \/ \E o \in Overrides : SaveOverride(r, o) /\ b.conflicting # {}
    <2>1. b.pc = "free" \/ (b.pc = "record" /\ b.conflicting # {})
        BY <1>3 DEF RecordNext, SaveOverride, At
    <2>2. Grounded(b, Segments(b.event))
        BY <2>1 DEF VerdictsGrounded, GroundedLocals
    <2>3. /\ p.pc \in {"free", "assign", "record"} /\ p.event = b.event /\ p.past = b.past
          /\ p.hadConflict = b.hadConflict
        <3>1. CASE RecordNext(r)
            <4>1. PICK segment : reqs' = [reqs EXCEPT ![r] = WithVerdict(b, segment)]
                BY <3>1 DEF RecordNext
            <4>2. p = WithVerdict(b, segment)
                BY <4>1 DEF RowsOK, TypeOK
            <4> QED
                BY <1>1, <4>2 DEF WithVerdict, Request
        <3>2. ASSUME NEW o \in Overrides, SaveOverride(r, o), b.conflicting # {}
              PROVE  /\ p.pc \in {"free", "assign", "record"} /\ p.event = b.event /\ p.past = b.past
                     /\ p.hadConflict = b.hadConflict
            <4> DEFINE left == b.conflicting \ {Min(b.conflicting)}
                       named == IF b.override = None THEN o ELSE b.override
            <4>1. reqs' = [reqs EXCEPT ![r].pc = IF left = {} THEN "assign" ELSE "free",
                                       ![r].conflicting = left,
                                       ![r].override = IF @ = None THEN o ELSE @]
                BY <3>2 DEF SaveOverride
            <4> HIDE DEF left
            <4>2. p = [b EXCEPT !.pc = IF left = {} THEN "assign" ELSE "free", !.conflicting = left,
                                !.override = named]
                BY <4>1 DEF RowsOK, TypeOK, Request
            <4> HIDE DEF named, p
            <4> QED
                BY <1>1, <4>2 DEF Request
        <3> QED
            BY <1>3, <3>1, <3>2
    <2> HIDE DEF b, p
    <2>4. Grounded(p, Segments(b.event))
        BY <2>2, <2>3, SameGrounds
    <2>5. GroundedLocals(reqs[r])'
        BY <1>1, <2>3, <2>4 DEF GroundedLocals, Segments, p
    <2> QED
        BY <1>1, <2>5, VerdictStep
<1> QED
    BY <1>2, <1>3

LEMMA SaveAssignmentVerdict ==
    ASSUME RowsOK, VerdictsGrounded, NEW r \in Requests, NEW i \in Assignments, SaveAssignment(r, i)
    PROVE  VerdictsGrounded'
<1> DEFINE q == reqs[r]
           row == [event |-> q.event, coach |-> q.coach, hadConflict |-> q.hadConflict,
                   override |-> q.override, answered |-> FALSE, past |-> q.past]
<1>1. Finish(r) /\ UNCHANGED events /\ q.pc = "assign"
    BY DEF SaveAssignment, At
<1>2. Grounded(q, Segments(q.event))
    BY <1>1 DEF VerdictsGrounded, GroundedLocals
<1>3. row.event = q.event /\ row.past = q.past /\ row.hadConflict = q.hadConflict
    OBVIOUS
<1> HIDE DEF q
<1>4. UNCHANGED assignments \/ assignments' = Insert(assignments, i, row)
    BY DEF SaveAssignment, q
<1> HIDE DEF row
<1>5. Grounded(row, WeeklySegmentsOf(events[row.event]))
    BY <1>2, <1>3, SameGrounds DEF Segments
<1>6. \A x \in DOMAIN assignments' :
        \/ x \in DOMAIN assignments /\ assignments'[x] = assignments[x]
        \/ assignments'[x] = row
    BY <1>4 DEF Insert
<1>7. \A x \in DOMAIN assignments' :
        \/ x \in DOMAIN assignments /\ assignments'[x] = assignments[x]
        \/ Grounded(assignments'[x], WeeklySegmentsOf(events[assignments'[x].event]))
    BY <1>5, <1>6
<1> QED
    BY <1>1, <1>7, FinishVerdict

LEMMA RemoveVerdict ==
    ASSUME RowsOK, VerdictsGrounded, NEW r \in Requests, RemoveAssignment(r)
    PROVE  VerdictsGrounded'
<1>1. \A i \in DOMAIN assignments' : i \in DOMAIN assignments /\ assignments'[i] = assignments[i]
    BY DEF RemoveAssignment
<1>2. Finish(r) /\ UNCHANGED events
    BY DEF RemoveAssignment
<1> QED
    BY <1>1, <1>2, FinishVerdict

LEMMA RespondVerdict ==
    ASSUME RowsOK, VerdictsGrounded, NEW r \in Requests, NEW i \in Assignments, Respond(r, i)
    PROVE  VerdictsGrounded'
<1> DEFINE seen == [assignments[i] EXCEPT !.answered = TRUE]
           q == [Idle EXCEPT !.pc = "respond", !.id = i, !.seen = seen]
<1>1. /\ i \in DOMAIN assignments /\ reqs' = [reqs EXCEPT ![r] = q]
      /\ UNCHANGED <<events, assignments>>
    BY DEF Respond, Begin
<1>2. /\ assignments[i] \in Assignment
      /\ Grounded(assignments[i], Segments(assignments[i].event))
    BY <1>1 DEF RowsOK, TypeOK, VerdictsGrounded
<1>3. /\ seen.event = assignments[i].event /\ seen.past = assignments[i].past
      /\ seen.hadConflict = assignments[i].hadConflict
    BY <1>2 DEF Assignment
<1> HIDE DEF seen
<1>4. q.pc = "respond" /\ q.seen = seen
    BY DEF Idle
<1> HIDE DEF q
<1>5. reqs'[r] = q
    BY <1>1 DEF RowsOK, TypeOK
<1>6. Grounded(seen, WeeklySegmentsOf(events[seen.event]))
    BY <1>2, <1>3, SameGrounds DEF Segments
<1>7. GroundedLocals(reqs[r])'
    BY <1>1, <1>4, <1>5, <1>6 DEF GroundedLocals, Segments
<1> QED
    BY <1>1, <1>7, QuietVerdict

LEMMA SaveResponseVerdict ==
    ASSUME RowsOK, VerdictsGrounded, NEW r \in Requests, SaveResponse(r)
    PROVE  VerdictsGrounded'
<1> DEFINE q == reqs[r]
<1>1. Finish(r) /\ UNCHANGED events /\ q.pc = "respond"
    BY DEF SaveResponse, At
<1>2. Grounded(q.seen, WeeklySegmentsOf(events[q.seen.event]))
    BY <1>1 DEF VerdictsGrounded, GroundedLocals, Segments
<1>3. UNCHANGED assignments \/ assignments' = Insert(assignments, q.id, q.seen)
    BY DEF SaveResponse
<1> HIDE DEF q
<1>4. \A x \in DOMAIN assignments' :
        \/ x \in DOMAIN assignments /\ assignments'[x] = assignments[x]
        \/ assignments'[x] = q.seen
    BY <1>3 DEF Insert
<1>5. \A x \in DOMAIN assignments' :
        \/ x \in DOMAIN assignments /\ assignments'[x] = assignments[x]
        \/ Grounded(assignments'[x], WeeklySegmentsOf(events[assignments'[x].event]))
    BY <1>2, <1>4
<1> QED
    BY <1>1, <1>5, FinishVerdict

(* A schedule replaced while its coach is being assigned is one more the   *)
(* coach has had: what was seen of the others stands.                      *)
LEMMA MoreGrounds ==
    ASSUME NEW a, NEW b, NEW windows, ValidSlots(windows), NEW pieces,
           b.hadConflict = a.hadConflict, b.past = a.past \cup {windows}
    PROVE  /\ Grounded(a, pieces) => Grounded(b, pieces)
           /\ b.next = a.next /\ b.conflicting = a.conflicting /\ GroundedSoFar(a, pieces) =>
                GroundedSoFar(b, pieces)
<1>1. \A piece : Covered(piece, a.past) => Covered(piece, b.past)
    BY DEF Covered
<1> QED
    BY <1>1 DEF Grounded, GroundedSoFar

LEMMA InsertSlotsVerdict ==
    ASSUME RowsOK, VerdictsGrounded, NEW r \in Requests, InsertSlots(r)
    PROVE  VerdictsGrounded'
<1> DEFINE o == reqs[r].owner
           new == (slots[o] \ reqs[r].deleted) \cup reqs[r].input
<1>1. /\ UNCHANGED <<events, assignments>> /\ reqs \in [Requests -> Request]
      /\ reqs' = [s \in Requests |-> IF s = r THEN Idle
                                     ELSE IF reqs[s].coach = o /\ reqs[s].past # {}
                                     THEN [reqs[s] EXCEPT !.past = @ \cup {new}]
                                     ELSE reqs[s]]
    BY DEF InsertSlots, RowsOK, TypeOK
<1>2. ValidSlots(new)
    <2>1. ValidSlots(reqs[r].input) /\ reqs[r].deleted = slots[o]
        BY DEF InsertSlots, At, RowsOK, LocalsOK
    <2>2. new = reqs[r].input
        BY <2>1
    <2> QED
        BY <2>1, <2>2
<1> HIDE DEF o, new
<1>3. ASSUME NEW s \in Requests PROVE GroundedLocals(reqs[s])'
    <2> DEFINE a == reqs[s]
               b == reqs'[s]
    <2>1. CASE b = Idle
        BY <2>1, NoVerdict DEF Idle
    <2>2. CASE b = a
        BY <1>1, <2>2 DEF VerdictsGrounded, GroundedLocals, Segments
    <2>3. CASE b = [a EXCEPT !.past = @ \cup {new}]
        <3>1. /\ b.pc = a.pc /\ b.event = a.event /\ b.hadConflict = a.hadConflict /\ b.next = a.next
              /\ b.conflicting = a.conflicting /\ b.seen = a.seen /\ b.past = a.past \cup {new}
            BY <1>1, <2>3 DEF Request
        <3>2. GroundedLocals(a)
            BY DEF VerdictsGrounded
        <3> HIDE DEF a, b
        <3>3. \A pieces : /\ Grounded(a, pieces) => Grounded(b, pieces)
                          /\ GroundedSoFar(a, pieces) => GroundedSoFar(b, pieces)
            BY <1>2, <3>1, MoreGrounds
        <3> QED
            BY <1>1, <3>1, <3>2, <3>3 DEF GroundedLocals, Segments, b
    <2> QED
        BY <1>1, <2>1, <2>2, <2>3
<1>4. \A i \in DOMAIN assignments' : Grounded(assignments[i], Segments(assignments[i].event))'
    BY <1>1 DEF VerdictsGrounded, Segments
<1> QED
    BY <1>3, <1>4 DEF VerdictsGrounded

(* The events there are stay as they are.                                  *)
LEMMA CreateVerdict ==
    ASSUME RowsOK, VerdictsGrounded, NEW e \in Events, NEW times \in EventTimes, Create(e, times)
    PROVE  VerdictsGrounded'
<1>1. /\ \A x \in DOMAIN events : events'[x] = events[x]
      /\ UNCHANGED <<assignments, reqs>>
    BY DEF Create, Insert
<1>2. \A i \in DOMAIN assignments : assignments[i].event \in DOMAIN events
    BY DEF RowsOK, EventsOK
<1>3. \A i \in DOMAIN assignments' : Grounded(assignments[i], Segments(assignments[i].event))'
    BY <1>1, <1>2 DEF VerdictsGrounded, Segments
<1>4. ASSUME NEW s \in Requests PROVE GroundedLocals(reqs[s])'
    <2> DEFINE q == reqs[s]
    <2>1. LocalsOK(s) /\ GroundedLocals(q)
        BY DEF RowsOK, VerdictsGrounded
    <2>2. q.pc \in {"check", "free", "assign"} \/ (q.pc = "record" /\ q.conflicting # {})
          => q.event \in DOMAIN events
        BY <2>1 DEF LocalsOK, Assigning
    <2>3. q.pc = "respond" => q.seen.event \in DOMAIN events
        BY <2>1 DEF LocalsOK
    <2> QED
        BY <1>1, <2>1, <2>2, <2>3 DEF GroundedLocals, Segments
<1> QED
    BY <1>3, <1>4 DEF VerdictsGrounded

LEMMA NextVerdict ==
    ASSUME RowsOK, VerdictsGrounded, [Next]_vars
    PROVE  VerdictsGrounded'
<1>1. CASE UNCHANGED vars
    BY <1>1 DEF vars, VerdictsGrounded, GroundedLocals, Segments
<1>2. ASSUME NEW e \in Events, NEW times \in EventTimes, Create(e, times) PROVE VerdictsGrounded'
    BY <1>2, CreateVerdict
<1>3. ASSUME NEW r \in Requests, StartRequest(r) PROVE VerdictsGrounded'
    BY <1>3, StartVerdict, AssignVerdict, RespondVerdict DEF StartRequest
<1>4. ASSUME NEW r \in Requests, Continue(r) PROVE VerdictsGrounded'
    BY <1>4, LockVerdict, InsertSlotsVerdict, CheckVerdict, RecordVerdict, RemoveVerdict,
       SaveResponseVerdict, SaveAssignmentVerdict DEF Continue
<1>5. ASSUME NEW r \in Requests, Fail(r) PROVE VerdictsGrounded'
    BY <1>5, QuietFinishVerdict DEF Fail
<1> QED
    BY <1>1, <1>2, <1>3, <1>4, <1>5 DEF Next

LEMMA InitVerdict == Init => VerdictsGrounded
BY DEF Init, Idle, VerdictsGrounded, GroundedLocals

----------------------------------------------------------------------------
(* The inductive invariant: the transaction that has an owner's row locked *)
(* is alone in replacing the slots, and an assignment under way has every  *)
(* piece of its event seen free, overridden or still before it.            *)
THEOREM Invariance == Spec => []IInv
<1>1. Init => IInv
    BY InitInvariant, InitVerdict DEF IInv
<1>2. IInv /\ [Next]_vars => IInv'
    BY NextStep, NextVerdict DEF IInv
<1> QED
    BY <1>1, <1>2, PTL DEF Spec

(* Saves of one schedule never leave the union of two: the rows stored for *)
(* an owner are always what one call submitted.                            *)
THEOREM SlotsStayValid == Spec => []SlotsNeverOverlap
<1>1. IInv => SlotsNeverOverlap
    BY DEF IInv, RowsOK
<1> QED
    BY <1>1, Invariance, PTL

(* However schedules change and calls overlap or fail while a coach is     *)
(* being assigned, no part of the event goes against the coach's times     *)
(* without an override on record.                                          *)
THEOREM AssignmentsStayAuthorised == Spec => []ConflictsAreAuthorised
<1>1. IInv => ConflictsAreAuthorised
    BY DEF IInv, RowsOK
<1> QED
    BY <1>1, Invariance, PTL

(* Minute by minute: an assignment marked free is one whose every minute   *)
(* the coach had free at some time while it was made, and one marked       *)
(* conflicting has a minute that was not, for any length of a day, an hour *)
(* and a minute, and any schedules replaced meanwhile.                     *)
THEOREM VerdictsFollowTheMinutes == Spec => []VerdictIsJustified
<1>1. ASSUME IInv PROVE VerdictIsJustified
    <2> SUFFICES ASSUME NEW i \in DOMAIN assignments
                 PROVE  LET a == assignments[i] IN
                        IF a.hadConflict
                        THEN \E m \in MinutesOf(events[a.event]), windows \in a.past :
                               ~FreeMinute(windows, m[1], m[2])
                        ELSE \A m \in MinutesOf(events[a.event]) :
                               \E windows \in a.past : FreeMinute(windows, m[1], m[2])
        BY DEF VerdictIsJustified
    <2> DEFINE a == assignments[i]
               event == events[a.event]
               pieces == WeeklySegmentsOf(event)
    <2>1. a \in Assignment /\ Grounded(a, pieces) /\ a.event \in DOMAIN events
        BY <1>1 DEF IInv, RowsOK, TypeOK, EventsOK, VerdictsGrounded, Segments
    <2>2. event \in [startsAt : Nat, endsAt : Nat] /\ event.endsAt - event.startsAt \in 1 .. TicksPerDay
        BY <1>1, <2>1, ScheduleAssumption DEF IInv, RowsOK, TypeOK, EventsOK
    <2>3. \A windows \in a.past : windows \in SUBSET Slot /\ ValidSlots(windows)
        BY <2>1 DEF Assignment, Grounded
    <2> HIDE DEF a, event
    <2>4. event.startsAt < event.endsAt
        BY <2>2
    <2>5. /\ \A n \in DOMAIN pieces :
               /\ pieces[n].startMinute \in 0 .. MinutesPerDay - 1
               /\ pieces[n].endMinute \in pieces[n].startMinute + 1 .. MinutesPerDay
          /\ MinutesOf(event) = UNION {MinutesOfPiece(pieces[n]) : n \in DOMAIN pieces}
        BY <2>2, <2>4, SegmentsTakeTheMinutes
    <2> HIDE DEF pieces
    <2>6. ASSUME NEW n \in DOMAIN pieces, NEW windows \in a.past
          PROVE  Fits(pieces[n], windows)
                 <=> \A m \in pieces[n].startMinute .. pieces[n].endMinute - 1 :
                       FreeMinute(windows, pieces[n].dayOfWeek, m)
        <3>1. /\ pieces[n].startMinute \in Nat /\ pieces[n].endMinute \in Nat
              /\ pieces[n].startMinute < pieces[n].endMinute
            BY <2>5, WeekAssumption
        <3> QED
            BY <2>3, <3>1, CoverageFollowsTheMinutes DEF Fits
    <2>7. \A n \in DOMAIN pieces : \A m \in pieces[n].startMinute .. pieces[n].endMinute - 1 :
            /\ <<pieces[n].dayOfWeek, m>> \in MinutesOf(event)
            /\ <<pieces[n].dayOfWeek, m>>[1] = pieces[n].dayOfWeek
            /\ <<pieces[n].dayOfWeek, m>>[2] = m
        BY <2>5 DEF MinutesOfPiece
    <2>8. CASE a.hadConflict
        <3>1. PICK n \in DOMAIN pieces, windows \in a.past : ~Fits(pieces[n], windows)
            BY <2>1, <2>8 DEF Grounded
        <3>2. PICK m \in pieces[n].startMinute .. pieces[n].endMinute - 1 :
                     ~FreeMinute(windows, pieces[n].dayOfWeek, m)
            BY <2>6, <3>1
        <3>3. \E x \in MinutesOf(event), past \in a.past : ~FreeMinute(past, x[1], x[2])
            BY <2>7, <3>2
        <3> QED
            BY <2>8, <3>3 DEF a, event
    <2>9. CASE ~a.hadConflict
        <3>1. ASSUME NEW x \in MinutesOf(event)
              PROVE  \E windows \in a.past : FreeMinute(windows, x[1], x[2])
            <4>1. PICK n \in DOMAIN pieces : x \in MinutesOfPiece(pieces[n])
                BY <2>5
            <4>2. PICK m \in pieces[n].startMinute .. pieces[n].endMinute - 1 : x = <<pieces[n].dayOfWeek, m>>
                BY <4>1 DEF MinutesOfPiece
            <4>3. PICK windows \in a.past : Fits(pieces[n], windows)
                BY <2>1, <2>9 DEF Grounded, Covered
            <4>4. FreeMinute(windows, pieces[n].dayOfWeek, m)
                BY <2>6, <4>3
            <4> QED
                BY <4>2, <4>4
        <3> QED
            BY <2>9, <3>1 DEF a, event
    <2> QED
        BY <2>8, <2>9
<1> QED
    BY <1>1, Invariance, PTL

(* The filters of the trainer's view and the minutes of a day: a player is *)
(* shown for a day when some minute of it is free, and for a time when the *)
(* minute that starts then is free on some day.                            *)
THEOREM FiltersShowFreePlayers == Spec => []FiltersFollowTheMinutes
<1>1. ASSUME IInv PROVE FiltersFollowTheMinutes
    <2> DEFINE OnSome(p, days, minutes) == \E d \in days, n \in minutes : FreeMinute(slots[p], d, n)
               AllDays == 0 .. Days - 1
               AllMinutes == 0 .. MinutesPerDay - 1
    <2>1. \A p \in Players : slots[p] \in SUBSET Slot /\ ValidSlots(slots[p])
        BY <1>1 DEF IInv, RowsOK, TypeOK, SlotsNeverOverlap, Owners
    <2>2. ASSUME NEW day \in AllDays
          PROVE  TrainerView(day, None) = {p \in Players : OnSome(p, {day}, AllMinutes)}
        <3>1. day # None
            BY ScheduleAssumption
        <3>2. TrainerView(day, None) = {p \in Players : HasFreeMinuteOnDay(slots[p], day)}
            BY <3>1 DEF TrainerView
        <3>3. \A p \in Players : HasFreeMinuteOnDay(slots[p], day) <=> OnSome(p, {day}, AllMinutes)
            BY <2>1, FreeMinutesAreFound
        <3> HIDE DEF OnSome
        <3> QED
            BY <3>2, <3>3
    <2>3. ASSUME NEW minute \in AllMinutes
          PROVE  TrainerView(None, ToHHMM(minute)) = {p \in Players : OnSome(p, AllDays, {minute})}
        <3>1. minute \in Nat /\ minute + 1 \in Nat /\ minute < minute + 1
            BY WeekAssumption
        <3>2. ToMinutes(ToHHMM(minute)) = minute
            BY <3>1, RoundTrip
        <3>3. ToHHMM(minute) # None
            BY ScheduleAssumption, StartTimesOf
        <3>4. TrainerView(None, ToHHMM(minute))
              = {p \in Players : \E d \in AllDays : CoversWindow(slots[p], d, minute, minute + 1)}
            BY <3>2, <3>3 DEF TrainerView
        <3>5. ASSUME NEW p \in Players, NEW d \in AllDays
              PROVE  CoversWindow(slots[p], d, minute, minute + 1) <=> FreeMinute(slots[p], d, minute)
            <4>1. CoversWindow(slots[p], d, minute, minute + 1)
                  <=> \A m \in minute .. (minute + 1) - 1 : FreeMinute(slots[p], d, m)
                BY <2>1, <3>1, CoverageFollowsTheMinutes
            <4>2. minute .. (minute + 1) - 1 = {minute}
                BY <3>1
            <4> QED
                BY <4>1, <4>2
        <3> QED
            BY <3>4, <3>5
    <2> HIDE DEF OnSome
    <2> QED
        BY <2>2, <2>3 DEF FiltersFollowTheMinutes, OnSome
<1> QED
    BY <1>1, Invariance, PTL

=============================================================================
