----------------------------- MODULE MCEnrollment -----------------------------
(* Small instances of Enrollment, and of the rules about a child's record. *)
EXTENDS Enrollment, TLC, Integers

(* Ids carry no order. *)
Symmetry == Permutations(LinkIds) \cup Permutations(ProfileIds) \cup Permutations(Requests)
              \cup Permutations(Trainers)

----------------------------------------------------------------------------
Records == INSTANCE ChildRecords WITH Null <- None, MinSelfRegistrationAge <- 18

(* Around the turn of a year and of a month, with leap years and a century *)
(* that is none; month 0 and 13, day 0 and 32 roll over.                   *)
Texts == {99, 1899, 1900, 2000, 2007, 2008} \X {0, 1, 2, 3, 12, 13} \X {0, 1, 28, 29, 30, 31, 32}

ASSUME RoundTrip == Records!DatesAreDays(Texts)

(* The years from 2000 on, beside which the others are as those. *)
FewTexts == {t \in Texts : t[1] >= 2000}

ASSUME Order == Records!InstantsFollowDays(FewTexts)

ASSUME Birthdays == Records!AgesCountBirthdays(FewTexts)

(* A few to be born on, those of the first of January among them, and days *)
(* around a first and an eighteenth birthday.                              *)
GateTexts ==
    {t \in Texts : t[1] \in {2000, 2007}}
      \cup ({2008, 2018, 2019, 2026} \X {2, 3} \X {1, 28})

ASSUME Gates == Records!NobodyFallsBetweenTheGates(GateTexts)

----------------------------------------------------------------------------
Words == {<<"a">>, <<"a", "l">>, <<"a", "l", "e">>, <<"a", "l", "e", "x">>, <<"b", "o">>}

Names == [words: {<<w>> : w \in Words} \cup {<<v, w>> : v, w \in Words}, single: BOOLEAN]

BirthDates == {None, <<2010, 2, 28>>, <<2011, 3, 1>>, <<2011, 3, 2>>}

Children == [displayName: Names, birthDate: BirthDates]

FewNames == {n \in Names : n.words \in {<<<<"b", "o">>>>, <<<<"a", "l", "e">>, <<"b", "o">>>>}}

FewChildren == [displayName: FewNames, birthDate: {<<2010, 2, 28>>, <<2011, 3, 1>>}]

ASSUME Likeness ==
    LET some == {c \in Children : c.displayName.single /\ c.birthDate # <<2011, 3, 2>>}
    IN  Records!LikenessIsMutual(some, "a")

Families == [{"a", "b"} -> FewChildren]

ASSUME Refusals == Records!RefusalsAreForetold(Families, FewChildren)

ASSUME Siblings ==
    Records!ChildrenStayApart(Families, "c",
      [displayName: FewNames, birthDate: {<<2010, 2, 28>>, <<2011, 3, 1>>}, allowDuplicate: BOOLEAN],
      [displayName: FewNames \cup {None}, birthDate: {None, <<2010, 2, 28>>, <<2011, 3, 1>>},
       allowDuplicate: BOOLEAN],
      <<2020, 1, 1>>)
=============================================================================
