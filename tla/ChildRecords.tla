------------------------------ MODULE ChildRecords ------------------------------
(***************************************************************************)
(* What a child's record is admitted by: calendar dates and ages, the gate *)
(* of an account in one's own name, the likeness of two children and the   *)
(* refusal of duplicates.                                                  *)
(*                                                                         *)
(* A date is the <<year, month, day>> its text is split into, an instant   *)
(* the date of its day.  A name has its words, in lower case and without   *)
(* leading or trailing blanks, and says whether they are spaced by single  *)
(* blanks; a word is the sequence of its letters.                          *)
(***************************************************************************)
EXTENDS Integers, SequencesExt

CONSTANTS Null, MinSelfRegistrationAge

----------------------------------------------------------------------------
(* calendar-date.ts *)

Leap(year) == year % 4 = 0 /\ (year % 100 # 0 \/ year % 400 = 0)

DaysIn(year, month) ==
    CASE month = 2 -> IF Leap(year) THEN 29 ELSE 28
      [] month \in {4, 6, 9, 11} -> 30
      [] OTHER -> 31

DaysBeforeYear(year) == 365 * year + (year + 3) \div 4 - (year + 99) \div 100 + (year + 399) \div 400

(* The first of a month, in days since that of January of the year 0.      *)
DaysBefore(year, month) ==
    DaysBeforeYear(year)
      + <<0, 31, 59, 90, 120, 151, 181, 212, 243, 273, 304, 334>>[month]
      + (IF Leap(year) /\ month > 2 THEN 1 ELSE 0)

(* Date.UTC rolls months and days that are too large, or zero, over into   *)
(* the next unit, and takes a year of two digits for one of the 1900s.     *)
DateUTC(year, month, day) ==
    LET y == (IF year \in 0 .. 99 THEN 1900 + year ELSE year) + (month - 1) \div 12
    IN  DaysBefore(y, ((month - 1) % 12) + 1) + day - 1

(* The getUTC functions on the instant Date.UTC gives.                     *)
FieldsOf(instant) ==
    LET year == CHOOSE y \in instant \div 366 .. instant \div 365 :
                  DaysBeforeYear(y) <= instant /\ instant < DaysBeforeYear(y + 1)
        month == CHOOSE m \in 1 .. 12 :
                   LET first == DaysBefore(year, m)
                   IN  first <= instant /\ instant < first + DaysIn(year, m)
    IN  <<year, month, instant - DaysBefore(year, month) + 1>>

ParseCalendarDate(text) ==
    IF FieldsOf(DateUTC(text[1], text[2], text[3])) = text THEN text ELSE Null

AgeInYears(born, asOf) ==
    LET monthDelta == asOf[2] - born[2]
        toCome == monthDelta < 0 \/ (monthDelta = 0 /\ asOf[3] < born[3])
    IN  asOf[1] - born[1] - (IF toCome THEN 1 ELSE 0)

InstantOf(date) == DateUTC(date[1], date[2], date[3])

OldEnoughForOwnAccount(text, now) ==
    LET born == ParseCalendarDate(text) IN
    /\ born # Null
    /\ InstantOf(born) <= InstantOf(now)
    /\ AgeInYears(born, now) >= MinSelfRegistrationAge

ChildAge(text, now) ==
    LET born == ParseCalendarDate(text)
    IN  born # Null /\ AgeInYears(born, now) \in 1 .. 18

----------------------------------------------------------------------------
(* child-similarity.ts *)

MaxBirthDateGap == 366

MinNicknameLength == 3

NormalizeChildName(name) == name.words

TokensLookAlike(a, b) ==
    \/ a = b
    \/ Len(a) >= MinNicknameLength /\ IsPrefix(a, b)
    \/ Len(b) >= MinNicknameLength /\ IsPrefix(b, a)

NamesLookAlike(a, b) ==
    Len(a) = Len(b) /\ \A i \in DOMAIN a : TokensLookAlike(a[i], b[i])

DatesLookAlike(a, b) ==
    \/ Null \in {a, b}
    \/ InstantOf(a) - InstantOf(b) \in -MaxBirthDateGap .. MaxBirthDateGap

(* children: id -> [displayName, birthDate].  A match is the child's id    *)
(* and whether it is an exact one.                                         *)
FindSimilarChildren(children, candidate, exclude) ==
    LET name == NormalizeChildName(candidate.displayName)
        other(id) == NormalizeChildName(children[id].displayName)
    IN  {[profileId |-> id,
          exact |-> other(id) = name /\ children[id].birthDate = candidate.birthDate] :
           id \in {i \in DOMAIN children \ {exclude} :
                     /\ NamesLookAlike(name, other(i))
                     /\ DatesLookAlike(children[i].birthDate, candidate.birthDate)}}

----------------------------------------------------------------------------
(* family.service.ts: what createChild and updateChild refuse              *)

(* Blanks around a name do not count, blanks within it do.                 *)
Duplicate(children, displayName, birthDate, except) ==
    \E id \in DOMAIN children \ {except} :
      children[id].displayName = displayName /\ children[id].birthDate = birthDate

CreateChildAccepts(children, dto, now) ==
    /\ ChildAge(dto.birthDate, now)
    /\ Duplicate(children, dto.displayName, dto.birthDate, Null) => dto.allowDuplicate

(* A field that is not supplied is Null; the birth date of an untouched    *)
(* profile is not looked at again.                                         *)
Supplied(field, default) == IF field = Null THEN default ELSE field

UpdateChildAccepts(children, id, dto, now) ==
    /\ dto.birthDate # Null => ChildAge(dto.birthDate, now)
    /\ \/ dto.displayName = Null /\ dto.birthDate = Null
       \/ dto.allowDuplicate
       \/ ~Duplicate(children, Supplied(dto.displayName, children[id].displayName),
                     Supplied(dto.birthDate, children[id].birthDate), id)

UpdateChildProfile(children, id, dto) ==
    [children EXCEPT ![id] = [displayName |-> Supplied(dto.displayName, @.displayName),
                              birthDate |-> Supplied(dto.birthDate, @.birthDate)]]

----------------------------------------------------------------------------
(* The days there are, and which comes first. *)
CalendarDay(t) == t[1] > 99 /\ t[2] \in 1 .. 12 /\ t[3] \in 1 .. DaysIn(t[1], t[2])

NotAfter(s, t) ==
    \/ s[1] < t[1]
    \/ s[1] = t[1] /\ s[2] < t[2]
    \/ s[1] = t[1] /\ s[2] = t[2] /\ s[3] <= t[3]

(* parseCalendarDate keeps the days there are, from the year 100, and      *)
(* nothing that rolls over.                                                *)
DatesAreDays(texts) ==
    \A t \in texts : ParseCalendarDate(t) = IF CalendarDay(t) THEN t ELSE Null

(* The instants in which the services compare dates follow each other as   *)
(* the days do.                                                            *)
InstantsFollowDays(texts) ==
    \A s, t \in {d \in texts : CalendarDay(d)} : InstantOf(s) <= InstantOf(t) <=> NotAfter(s, t)

(* An age counts the birthdays there have been, that of a 29 February on   *)
(* the first of March of a common year.                                    *)
AgesCountBirthdays(texts) ==
    \A born, now \in {d \in texts : CalendarDay(d)} : NotAfter(born, now) =>
      AgeInYears(born, now) =
        Cardinality({y \in born[1] + 1 .. now[1] : NotAfter(<<y, born[2], born[3]>>, now)})

(* Whoever has had a first birthday fits one of the two gates, a child's   *)
(* and an own account's, and both only from the age of the second to that  *)
(* of 18; whoever is still to be born fits none.                           *)
NobodyFallsBetweenTheGates(texts) ==
    \A born, now \in {d \in texts : CalendarDay(d)} :
      LET age == AgeInYears(born, now)
          child == ChildAge(born, now)
          own == OldEnoughForOwnAccount(born, now)
      IN  /\ NotAfter(born, now) /\ age >= 1 => child \/ own
          /\ child /\ own => age \in MinSelfRegistrationAge .. 18
          /\ child \/ own => NotAfter(born, now)

(* Likeness does not depend on which child was there first, and an exact   *)
(* likeness never goes unreported.                                         *)
LikenessIsMutual(children, id) ==
    \A a, b \in children :
      LET ab == FindSimilarChildren([i \in {id} |-> a], b, Null)
          ba == FindSimilarChildren([i \in {id} |-> b], a, Null)
      IN  ab = ba /\ (a = b => ab = {[profileId |-> id, exact |-> TRUE]})

(* A duplicate that creation or an edit refuses was reported as exact by   *)
(* the preview of the same call.                                           *)
RefusalsAreForetold(families, candidates) ==
    \A family \in families, c \in candidates : \A except \in DOMAIN family \cup {Null} :
      Duplicate(family, c.displayName, c.birthDate, except) =>
        \E match \in FindSimilarChildren(family, c, except) : match.exact

Distinct(children) ==
    \A i, j \in DOMAIN children : i # j => children[i] # children[j]

(* Adding a child keeps a family's children distinct, and renaming or      *)
(* redating one, or both, is no way round the refusal.                     *)
ChildrenStayApart(families, new, additions, edits, now) ==
    \A family \in families : Distinct(family) =>
      /\ \A dto \in additions :
           ~dto.allowDuplicate /\ CreateChildAccepts(family, dto, now) =>
             Distinct([id \in DOMAIN family \cup {new} |->
                         IF id = new
                         THEN [displayName |-> dto.displayName, birthDate |-> dto.birthDate]
                         ELSE family[id]])
      /\ \A dto \in edits, id \in DOMAIN family :
           ~dto.allowDuplicate /\ UpdateChildAccepts(family, id, dto, now) =>
             Distinct(UpdateChildProfile(family, id, dto))
===============================================================================
