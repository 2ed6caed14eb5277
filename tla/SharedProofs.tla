------------------------------ MODULE SharedProofs ------------------------------
(***************************************************************************)
(* What the components share: what Permissions grants, for any ids; what   *)
(* ChildRecords admits, for any dates, names and families; and when a pool *)
(* of connections gets stuck, for any number of them and of requests.      *)
(*                                                                         *)
(* That every instant is a day of some year and some month, and so has     *)
(* fields, is an induction over years and months: the least year, and      *)
(* month, that ends after it is the one (LeastOf).                         *)
(***************************************************************************)
EXTENDS Permissions, ChildRecords, RedemptionPool, TLAPS, FiniteSetTheorems,
        WellFoundedInduction


(* The fields of a principal, and what its role leaves of its tenancy.     *)
LEMMA PrincipalFields ==
    ASSUME NEW p \in Principals
    PROVE  /\ p.role \in Roles /\ p.userId \in Ids
           /\ p.trainerOrgId \in Nullable
           /\ p.isChild <=> p.childPlayerProfileId # None
           /\ p.isChild \in BOOLEAN
           /\ p.impersonating <=> p.actor # None
  <1>1. PICK role \in Roles : \E u \in Ids, t \in Tenancy(role), admin \in Nullable :
               p = PrincipalOf([id |-> u, role |-> role], t, admin)
    BY DEF Principals
  <1>2. PICK u \in Ids, t \in Tenancy(role), admin \in Nullable :
               p = PrincipalOf([id |-> u, role |-> role], t, admin)
    BY <1>1
  <1>3. t.trainerOrgId \in Nullable
    BY DEF Tenancy
  <1>4. p = [userId |-> u, role |-> role,
             trainerOrgId |-> t.trainerOrgId, coachProfileId |-> t.coachProfileId,
             isChild |-> t.childPlayerProfileId # None,
             childPlayerProfileId |-> t.childPlayerProfileId,
             impersonating |-> admin # None, actor |-> admin]
    BY <1>2 DEF PrincipalOf
  <1>. QED
    BY <1>3, <1>4

(* A service that asks about the row never admits whom it must not.        *)
THEOREM ImpersonationIsBelow == ImpersonationStaysBelow
  <1>. SUFFICES ASSUME NEW p \in Principals, NEW target \in UserRows, MayImpersonate(p, target)
                PROVE  /\ p.role = "SuperAdmin" /\ target.role # "SuperAdmin" /\ target.id # p.userId
                       /\ p.actor = None
                       /\ ImpersonateRoute(p)
    BY DEF ImpersonationStaysBelow
  <1>0. p.role \in Roles /\ (p.impersonating <=> p.actor # None)
    BY PrincipalFields
  <1>1. p.actor = None
    BY <1>0 DEF MayImpersonate
  <1>. DEFINE row == [id |-> target.id, role |-> target.role]
              Counts(rule) == About(rule, "impersonate", "User") /\ Meets(row, rule.where)
  <1>2. PICK i \in DOMAIN RulesOf(p) :
          /\ Counts(RulesOf(p)[i]) /\ RulesOf(p)[i].granted
          /\ \A j \in DOMAIN RulesOf(p) : Counts(RulesOf(p)[j]) => j <= i
    BY DEF MayImpersonate, MayOnRow, LastIsGrant
  <1>3. p.role = "SuperAdmin"
    <2>1. CASE p.role = "Trainer"
      <3>1. RulesOf(p) = TrainerRules(p)
        BY <2>1 DEF RulesOf
      <3>2. DOMAIN TrainerRules(p) = 1 .. 8
        BY DEF TrainerRules
      <3>3. \A k \in 1 .. 8 :
              TrainerRules(p)[k].granted => ~About(TrainerRules(p)[k], "impersonate", "User")
        BY DEF TrainerRules, Can, Cannot, About
      <3>. QED
        BY <1>2, <3>1, <3>2, <3>3
    <2>2. CASE p.role = "Coach"
      <3>1. RulesOf(p) = CoachRules(p)
        BY <2>2 DEF RulesOf
      <3>2. DOMAIN CoachRules(p) = 1 .. 8
        BY DEF CoachRules
      <3>3. \A k \in 1 .. 8 :
              CoachRules(p)[k].granted => ~About(CoachRules(p)[k], "impersonate", "User")
        BY DEF CoachRules, Can, Cannot, About
      <3>. QED
        BY <1>2, <3>1, <3>2, <3>3
    <2>3. CASE p.role = "PlayerParent" /\ p.isChild
      <3>1. RulesOf(p) = ChildRules(p)
        BY <2>3 DEF RulesOf
      <3>2. DOMAIN ChildRules(p) = 1 .. 16
        BY DEF ChildRules
      <3>3. \A k \in 1 .. 16 :
              ChildRules(p)[k].granted => ~About(ChildRules(p)[k], "impersonate", "User")
        BY DEF ChildRules, Can, Cannot, About
      <3>. QED
        BY <1>2, <3>1, <3>2, <3>3
    <2>4. CASE p.role = "PlayerParent" /\ ~p.isChild
      <3>1. RulesOf(p) = ParentRules(p)
        BY <2>4 DEF RulesOf
      <3>2. DOMAIN ParentRules(p) = 1 .. 11
        BY DEF ParentRules
      <3>3. \A k \in 1 .. 11 :
              ParentRules(p)[k].granted => ~About(ParentRules(p)[k], "impersonate", "User")
        BY DEF ParentRules, Can, Cannot, About
      <3>. QED
        BY <1>2, <3>1, <3>2, <3>3
    <2>. QED
      BY <1>0, <2>1, <2>2, <2>3, <2>4 DEF Roles
  <1>4. RulesOf(p) = AdminRules(p)
    BY <1>3 DEF RulesOf
  <1>. DEFINE rules == AdminRules(p)
  <1>5. ~Counts(rules[2]) /\ ~Counts(rules[3])
    <2>1. DOMAIN rules = 1 .. 3 /\ ~rules[2].granted /\ ~rules[3].granted
      BY DEF AdminRules, Can, Cannot
    <2>2. i = 1
      BY <1>2, <1>4, <2>1
    <2>. QED
      BY <1>2, <1>4, <2>1, <2>2
  <1>6. target.role # "SuperAdmin"
    BY <1>5 DEF AdminRules, Can, Cannot, About, Meets
  <1>7. target.id # p.userId
    BY <1>5 DEF AdminRules, Can, Cannot, About, Meets
  <1>8. ImpersonateRoute(p)
    <2>. DEFINE Admits(rule) == /\ About(rule, "impersonate", "User")
                                /\ rule.granted \/ rule.where = Always
    <2>1. DOMAIN rules = 1 .. 3
      BY DEF AdminRules
    <2>2. Admits(rules[1]) /\ rules[1].granted
      BY DEF AdminRules, Can, Cannot, About
    <2>3. DOMAIN rules[2].where = {"role"} /\ DOMAIN rules[3].where = {"id"} /\ DOMAIN Always = {}
      BY DEF AdminRules, Can, Cannot, Always
    <2>4. ~rules[2].granted /\ ~rules[3].granted
      BY DEF AdminRules, Can, Cannot
    <2>5. ~Admits(rules[2]) /\ ~Admits(rules[3])
      BY <2>3, <2>4
    <2>6. {k \in DOMAIN rules : Admits(rules[k])} = {1}
      BY <2>1, <2>2, <2>5
    <2>7. LastIsGrant(rules, {k \in DOMAIN rules : Admits(rules[k])})
      BY <2>2, <2>6 DEF LastIsGrant
    <2>. QED
      BY <1>3, <1>4, <2>7 DEF ImpersonateRoute, RolesGuard, PoliciesGuard, MayOnType
  <1>. QED
    BY <1>1, <1>3, <1>6, <1>7, <1>8

(* A child login is confined to its own profile, of any number of siblings. *)
THEOREM ChildIsConfined == ChildKeepsToItself
  <1>. SUFFICES ASSUME NEW p \in Children, NEW action \in Actions,
                       NEW row \in [{"id", "ownerUserId"} -> Nullable]
                PROVE  /\ MayOnRow(p, action, "PlayerProfile", row) =>
                            action \in {"read", "update"} /\ row["id"] = p.childPlayerProfileId
                       /\ MayOnRow(p, action, "PurchaseApproval", row) => action = "create"
    BY DEF ChildKeepsToItself
  <1>1. RulesOf(p) = ChildRules(p)
    BY DEF RulesOf, Children
  <1>2. ASSUME MayOnRow(p, action, "PlayerProfile", row)
        PROVE  action \in {"read", "update"} /\ row["id"] = p.childPlayerProfileId
    <2>1. PICK i \in DOMAIN ChildRules(p) :
            /\ About(ChildRules(p)[i], action, "PlayerProfile") /\ Meets(row, ChildRules(p)[i].where)
            /\ ChildRules(p)[i].granted
      BY <1>1, <1>2 DEF MayOnRow, LastIsGrant
    <2>2. i \in {1, 2}
      BY <2>1 DEF ChildRules, Can, Cannot, About
    <2>. QED
      BY <2>1, <2>2 DEF ChildRules, Can, About, Meets, Actions
  <1>3. ASSUME MayOnRow(p, action, "PurchaseApproval", row)
        PROVE  action = "create"
    <2>1. PICK i \in DOMAIN ChildRules(p) :
            About(ChildRules(p)[i], action, "PurchaseApproval") /\ ChildRules(p)[i].granted
      BY <1>1, <1>3 DEF MayOnRow, LastIsGrant
    <2>. QED
      BY <2>1 DEF ChildRules, Can, Cannot, About
  <1>. QED
    BY <1>2, <1>3

(* Trainers and coaches are confined to the organisation resolved for them. *)
THEOREM TenantsAreConfined == TenantsKeepToTheirOrganisation
  <1>. SUFFICES ASSUME NEW p \in Principals, NEW action \in Actions, NEW type \in Subjects,
                       NEW row \in [{"id", "trainerOrgId"} -> Ids],
                       p.role \in {"Trainer", "Coach"}, MayOnRow(p, action, type, row)
                PROVE  p.trainerOrgId \in {row["id"], row["trainerOrgId"]}
    BY DEF TenantsKeepToTheirOrganisation
  <1>1. PICK i \in DOMAIN RulesOf(p) : RulesOf(p)[i].granted /\ Meets(row, RulesOf(p)[i].where)
    BY DEF MayOnRow, LastIsGrant
  <1>2. CASE p.role = "Trainer"
    <2>1. RulesOf(p) = TrainerRules(p)
      BY <1>2 DEF RulesOf
    <2>2. DOMAIN TrainerRules(p) = 1 .. 8
      BY DEF TrainerRules
    <2>3. /\ \A k \in 1 .. 7 : TrainerRules(p)[k].where = [trainerOrgId |-> p.trainerOrgId]
          /\ TrainerRules(p)[8].where = [id |-> p.trainerOrgId]
      BY DEF TrainerRules, Can
    <2>4. CASE i \in 1 .. 7
      BY <1>1, <2>1, <2>3, <2>4 DEF Meets
    <2>5. CASE i = 8
      BY <1>1, <2>1, <2>3, <2>5 DEF Meets
    <2>. QED
      BY <2>1, <2>2, <2>4, <2>5
  <1>3. CASE p.role = "Coach"
    <2>1. RulesOf(p) = CoachRules(p)
      BY <1>3 DEF RulesOf
    <2>2. i \in {4, 5}
      <3>1. DOMAIN CoachRules(p) = 1 .. 8
        BY DEF CoachRules
      <3>2. /\ DOMAIN CoachRules(p)[1].where = {"userId"}
            /\ DOMAIN CoachRules(p)[2].where = {"userId"}
            /\ DOMAIN CoachRules(p)[3].where = {"coachProfileId"}
        BY DEF CoachRules, Can, Cannot
      <3>3. ~CoachRules(p)[6].granted /\ ~CoachRules(p)[7].granted /\ ~CoachRules(p)[8].granted
        BY DEF CoachRules, Can, Cannot
      <3>4. DOMAIN row = {"id", "trainerOrgId"}
        OBVIOUS
      <3>. QED
        BY <1>1, <2>1, <3>1, <3>2, <3>3, <3>4 DEF Meets
    <2>. QED
      BY <1>1, <2>1, <2>2 DEF CoachRules, Can, Meets
  <1>. QED
    BY <1>2, <1>3

(* Membership of a child login is that of its own profile.                 *)
THEOREM SiblingsAreIgnored == SiblingsDoNotCount
  <1>. SUFFICES ASSUME NEW p \in Children, NEW trainer \in Ids,
                       NEW profiles \in SUBSET [id: Ids, ownerUserId: Ids],
                       NEW associations \in SUBSET [trainer: Ids, player: Ids]
                PROVE  IsOrgMember(p, trainer, associations, profiles) <=>
                         [trainer |-> trainer, player |-> p.childPlayerProfileId] \in associations
    BY DEF SiblingsDoNotCount
  <1>1. p.role = "PlayerParent" /\ p.isChild /\ p.childPlayerProfileId # None
    BY PrincipalFields DEF Children
  <1>2. IsOrgMember(p, trainer, associations, profiles) <=>
          \E a \in associations : a.trainer = trainer /\ a.player = p.childPlayerProfileId
    BY <1>1 DEF IsOrgMember, ProfilesOf
  <1>3. \A a \in associations : a = [trainer |-> a.trainer, player |-> a.player]
    OBVIOUS
  <1>. QED
    BY <1>2, <1>3

-----------------------------------------------------------------------------
(* A set of numbers that is not empty has a least one. *)
LEMMA LeastOf ==
    ASSUME NEW S \in SUBSET Nat, S # {}
    PROVE  \E n \in S : \A m \in S : n <= m
  <1>. DEFINE Less == {p \in Nat \X Nat : p[1] < p[2]}
  <1>1. IsWellFoundedOn(Less, Nat)
    BY NatLessThanWellFounded, Zenon DEF OpToRel
  <1>2. \A m, n \in Nat : <<m, n>> \in Less <=> m < n
    OBVIOUS
  <1>. HIDE DEF Less
  <1>3. PICK n \in S : \A m \in S : <<m, n>> \notin Less
    BY <1>1, WFMin
  <1>4. \A m \in S : m \in Nat /\ n \in Nat /\ ~(m < n)
    BY <1>2, <1>3
  <1>5. \A m \in S : n <= m
    BY <1>4
  <1>. QED
    BY <1>5

(* Years have 365 days or, if leap years, 366, and follow each other.      *)
LEMMA YearLengths ==
    ASSUME NEW year \in Nat
    PROVE  /\ DaysBeforeYear(year) \in Nat
           /\ 365 * year <= DaysBeforeYear(year) /\ DaysBeforeYear(year) <= 366 * year
           /\ DaysBeforeYear(year + 1) = DaysBeforeYear(year) + 365 + (IF Leap(year) THEN 1 ELSE 0)
  <1>1. /\ DaysBeforeYear(year) \in Nat
        /\ 365 * year <= DaysBeforeYear(year) /\ DaysBeforeYear(year) <= 366 * year
    BY DEF DaysBeforeYear
  <1>2. /\ (year + 4) \div 4 = (year + 3) \div 4 + (IF year % 4 = 0 THEN 1 ELSE 0)
        /\ (year + 100) \div 100 = (year + 99) \div 100 + (IF year % 100 = 0 THEN 1 ELSE 0)
        /\ (year + 400) \div 400 = (year + 399) \div 400 + (IF year % 400 = 0 THEN 1 ELSE 0)
    OBVIOUS
  <1>3. (year % 400 = 0 => year % 100 = 0) /\ (year % 100 = 0 => year % 4 = 0)
    OBVIOUS
  <1>4. DaysBeforeYear(year + 1) =
          365 * year + 365 + (year + 4) \div 4 - (year + 100) \div 100 + (year + 400) \div 400
    BY DEF DaysBeforeYear
  <1>5. DaysBeforeYear(year) =
          365 * year + (year + 3) \div 4 - (year + 99) \div 100 + (year + 399) \div 400
    BY DEF DaysBeforeYear
  <1>6. (year + 3) \div 4 \in Int /\ (year + 99) \div 100 \in Int /\ (year + 399) \div 400 \in Int
    OBVIOUS
  <1>7. CASE year % 4 # 0
    BY <1>1, <1>2, <1>3, <1>4, <1>5, <1>6, <1>7 DEF Leap
  <1>8. CASE year % 4 = 0 /\ year % 100 # 0
    BY <1>1, <1>2, <1>3, <1>4, <1>5, <1>6, <1>8 DEF Leap
  <1>9. CASE year % 100 = 0
    BY <1>1, <1>2, <1>3, <1>4, <1>5, <1>6, <1>9 DEF Leap
  <1>. QED
    BY <1>7, <1>8, <1>9

LEMMA YearsInOrder ==
    ASSUME NEW y \in Nat, NEW z \in Nat, y < z
    PROVE  DaysBeforeYear(y + 1) <= DaysBeforeYear(z)
  BY DEF DaysBeforeYear

(* The months of a year follow each other from its first day to its last.  *)
LEMMA MonthsOfAYear ==
    ASSUME NEW year \in Nat
    PROVE  /\ DaysBefore(year, 1) = DaysBeforeYear(year)
           /\ DaysBefore(year, 12) + DaysIn(year, 12) = DaysBeforeYear(year + 1)
           /\ \A m \in 1 .. 12 : DaysBefore(year, m) \in Nat /\ DaysIn(year, m) \in 28 .. 31
           /\ \A m \in 1 .. 11 : DaysBefore(year, m + 1) = DaysBefore(year, m) + DaysIn(year, m)
  <1>. DEFINE leap == IF Leap(year) THEN 1 ELSE 0
  <1>1. leap \in {0, 1} /\ DaysBeforeYear(year) \in Nat
        /\ DaysBeforeYear(year + 1) = DaysBeforeYear(year) + 365 + leap
    BY YearLengths
  <1>2. /\ DaysIn(year, 1) = 31 /\ DaysIn(year, 2) = 28 + leap /\ DaysIn(year, 3) = 31
        /\ DaysIn(year, 4) = 30 /\ DaysIn(year, 5) = 31 /\ DaysIn(year, 6) = 30
        /\ DaysIn(year, 7) = 31 /\ DaysIn(year, 8) = 31 /\ DaysIn(year, 9) = 30
        /\ DaysIn(year, 10) = 31 /\ DaysIn(year, 11) = 30 /\ DaysIn(year, 12) = 31
    BY DEF DaysIn
  <1>3. /\ DaysBefore(year, 1) = DaysBeforeYear(year)
        /\ DaysBefore(year, 2) = DaysBeforeYear(year) + 31
        /\ DaysBefore(year, 3) = DaysBeforeYear(year) + 59 + leap
        /\ DaysBefore(year, 4) = DaysBeforeYear(year) + 90 + leap
        /\ DaysBefore(year, 5) = DaysBeforeYear(year) + 120 + leap
        /\ DaysBefore(year, 6) = DaysBeforeYear(year) + 151 + leap
    BY <1>1 DEF DaysBefore
  <1>4. /\ DaysBefore(year, 7) = DaysBeforeYear(year) + 181 + leap
        /\ DaysBefore(year, 8) = DaysBeforeYear(year) + 212 + leap
        /\ DaysBefore(year, 9) = DaysBeforeYear(year) + 243 + leap
        /\ DaysBefore(year, 10) = DaysBeforeYear(year) + 273 + leap
        /\ DaysBefore(year, 11) = DaysBeforeYear(year) + 304 + leap
        /\ DaysBefore(year, 12) = DaysBeforeYear(year) + 334 + leap
    BY <1>1 DEF DaysBefore
  <1>. HIDE DEF leap
  <1>5. \A m \in 1 .. 12 : DaysBefore(year, m) \in Nat /\ DaysIn(year, m) \in 28 .. 31
    <2>. SUFFICES ASSUME NEW m \in 1 .. 12
                  PROVE  DaysBefore(year, m) \in Nat /\ DaysIn(year, m) \in 28 .. 31
      OBVIOUS
    <2>1. m \in {1, 2, 3, 4, 5, 6} \/ m \in {7, 8, 9, 10, 11, 12}
      OBVIOUS
    <2>. QED
      BY <1>1, <1>2, <1>3, <1>4, <2>1
  <1>6. \A m \in 1 .. 11 : DaysBefore(year, m + 1) = DaysBefore(year, m) + DaysIn(year, m)
    <2>. SUFFICES ASSUME NEW m \in 1 .. 11
                  PROVE  DaysBefore(year, m + 1) = DaysBefore(year, m) + DaysIn(year, m)
      OBVIOUS
    <2>1. CASE m \in {1, 2, 3, 4, 5}
      BY <1>1, <1>2, <1>3, <2>1
    <2>2. CASE m = 6
      BY <1>1, <1>2, <1>3, <1>4, <2>2
    <2>3. CASE m \in {7, 8, 9, 10, 11}
      BY <1>1, <1>2, <1>4, <2>3
    <2>. QED
      BY <2>1, <2>2, <2>3
  <1>. QED
    BY <1>1, <1>2, <1>3, <1>4, <1>5, <1>6

LEMMA MonthsInOrder ==
    ASSUME NEW year \in Nat, NEW m \in 1 .. 12, NEW n \in 1 .. 12, m < n
    PROVE  DaysBefore(year, m) + DaysIn(year, m) <= DaysBefore(year, n)
  <1>. DEFINE first(k) == DaysBefore(year, k)
              days(k) == DaysIn(year, k)
  <1>1. \A k \in 1 .. 12 : first(k) \in Nat /\ days(k) \in 28 .. 31
    BY MonthsOfAYear
  <1>2. \A k \in 1 .. 11 : first(k + 1) = first(k) + days(k)
    BY MonthsOfAYear
  <1>. HIDE DEF first, days
  <1>3. \A k \in 1 .. 11 : first(k) <= first(k + 1)
    BY <1>1, <1>2
  <1>4. first(m + 1) <= first(n)
    <2>1. /\ first(1) <= first(2) /\ first(2) <= first(3) /\ first(3) <= first(4)
          /\ first(4) <= first(5) /\ first(5) <= first(6) /\ first(6) <= first(7)
          /\ first(7) <= first(8) /\ first(8) <= first(9) /\ first(9) <= first(10)
          /\ first(10) <= first(11) /\ first(11) <= first(12)
      BY <1>3
    <2>2. \A k \in 1 .. 12 : first(k) \in Int
      BY <1>1
    <2>. QED
      BY <2>1, <2>2
  <1>5. first(m) + days(m) <= first(n)
    BY <1>2, <1>4
  <1>. QED
    BY <1>5 DEF first, days

LEMMA MonthWithinYear ==
    ASSUME NEW year \in Nat, NEW month \in 1 .. 12
    PROVE  /\ DaysBeforeYear(year) <= DaysBefore(year, month)
           /\ DaysBefore(year, month) + DaysIn(year, month) <= DaysBeforeYear(year + 1)
  <1>1. \A m \in 1 .. 12 : DaysBefore(year, m) \in Nat /\ DaysIn(year, m) \in 28 .. 31
    BY MonthsOfAYear
  <1>2. DaysBeforeYear(year) <= DaysBefore(year, month)
    <2>1. CASE month = 1
      BY <2>1, MonthsOfAYear
    <2>2. CASE month # 1
      <3>1. DaysBefore(year, 1) + DaysIn(year, 1) <= DaysBefore(year, month)
        BY <2>2, MonthsInOrder
      <3>2. DaysBefore(year, 1) = DaysBeforeYear(year) /\ 1 \in 1 .. 12
        BY MonthsOfAYear
      <3>3. DaysBeforeYear(year) \in Nat /\ DaysIn(year, 1) \in Nat /\ DaysBefore(year, month) \in Nat
        BY <1>1, <3>2
      <3>. QED
        BY <3>1, <3>2, <3>3
    <2>. QED
      BY <2>1, <2>2
  <1>3. DaysBefore(year, month) + DaysIn(year, month) <= DaysBeforeYear(year + 1)
    <2>1. CASE month = 12
      BY <1>1, <2>1, MonthsOfAYear
    <2>2. CASE month # 12
      <3>1. DaysBefore(year, month) + DaysIn(year, month) <= DaysBefore(year, 12)
        BY <2>2, MonthsInOrder
      <3>2. DaysBeforeYear(year + 1) = DaysBefore(year, 12) + DaysIn(year, 12)
        BY MonthsOfAYear
      <3>. QED
        BY <1>1, <3>1, <3>2
    <2>. QED
      BY <2>1, <2>2
  <1>. QED
    BY <1>2, <1>3

(* Every day is in a month, no day in two. *)
LEMMA MonthOfADay ==
    ASSUME NEW year \in Nat, NEW i \in Nat,
           DaysBeforeYear(year) <= i, i < DaysBeforeYear(year + 1)
    PROVE  \E m \in 1 .. 12 : DaysBefore(year, m) <= i /\ i < DaysBefore(year, m) + DaysIn(year, m)
  <1>. DEFINE first(k) == DaysBefore(year, k)
              days(k) == DaysIn(year, k)
              After == {k \in 1 .. 12 : i < first(k) + days(k)}
  <1>1. \A k \in 1 .. 12 : first(k) \in Nat /\ days(k) \in 28 .. 31
    BY MonthsOfAYear
  <1>2. /\ first(1) <= i /\ i < first(12) + days(12)
        /\ \A k \in 1 .. 11 : first(k + 1) = first(k) + days(k)
    BY MonthsOfAYear
  <1>. HIDE DEF first, days
  <1>3. After \in SUBSET Nat /\ 12 \in After
    BY <1>2
  <1>4. PICK m \in After : \A k \in After : m <= k
    BY <1>3, LeastOf
  <1>5. first(m) <= i
    <2>1. CASE m = 1
      BY <1>2, <2>1
    <2>2. CASE m # 1
      <3>1. m - 1 \in 1 .. 11 /\ m - 1 \notin After
        BY <1>4, <2>2
      <3>2. ~(i < first(m - 1) + days(m - 1))
        BY <3>1
      <3>3. first(m - 1 + 1) = first(m - 1) + days(m - 1) /\ m - 1 + 1 = m
        BY <1>2, <1>4, <3>1
      <3>4. first(m) \in Nat /\ first(m - 1) \in Nat /\ days(m - 1) \in Nat
        BY <1>1, <1>4, <3>1
      <3>. QED
        BY <3>2, <3>3, <3>4
    <2>. QED
      BY <2>1, <2>2
  <1>6. m \in 1 .. 12 /\ i < first(m) + days(m)
    BY <1>4
  <1>. QED
    BY <1>5, <1>6 DEF first, days

LEMMA YearOfADay ==
    ASSUME NEW i \in Nat
    PROVE  \E y \in Nat : DaysBeforeYear(y) <= i /\ i < DaysBeforeYear(y + 1)
  <1>. DEFINE After == {y \in Nat : i < DaysBeforeYear(y + 1)}
  <1>1. i < DaysBeforeYear(i + 1)
    <2>1. 365 * (i + 1) <= DaysBeforeYear(i + 1)
      BY YearLengths
    <2>2. DaysBeforeYear(i + 1) \in Nat
      BY YearLengths
    <2>. QED
      BY <2>1, <2>2
  <1>2. After \in SUBSET Nat /\ i \in After
    BY <1>1
  <1>3. PICK y \in After : \A z \in After : y <= z
    BY <1>2, LeastOf
  <1>4. DaysBeforeYear(y) <= i
    <2>1. CASE y = 0
      <3>1. DaysBeforeYear(0) = 0
        BY DEF DaysBeforeYear
      <3>. QED
        BY <2>1, <3>1
    <2>2. CASE y # 0
      <3>1. y - 1 \in Nat /\ y - 1 \notin After /\ y - 1 + 1 = y
        BY <1>3, <2>2
      <3>2. ~(i < DaysBeforeYear(y))
        BY <3>1
      <3>3. DaysBeforeYear(y) \in Nat
        BY YearLengths
      <3>. QED
        BY <3>2, <3>3
    <2>. QED
      BY <2>1, <2>2
  <1>. QED
    BY <1>3, <1>4

(* The fields of an instant are those of the one day that it is on.        *)
LEMMA FieldsOfADay ==
    ASSUME NEW year \in Nat, NEW month \in 1 .. 12, NEW day \in 1 .. DaysIn(year, month)
    PROVE  /\ DaysBefore(year, month) + day - 1 \in Nat
           /\ FieldsOf(DaysBefore(year, month) + day - 1) = <<year, month, day>>
  <1>. DEFINE i == DaysBefore(year, month) + day - 1
              Year(y) == DaysBeforeYear(y) <= i /\ i < DaysBeforeYear(y + 1)
              Month(m) == DaysBefore(year, m) <= i /\ i < DaysBefore(year, m) + DaysIn(year, m)
              Years == i \div 366 .. i \div 365
  <1>1. \A m \in 1 .. 12 : DaysBefore(year, m) \in Nat /\ DaysIn(year, m) \in 28 .. 31
    BY MonthsOfAYear
  <1>2. i \in Nat /\ Month(month)
    BY <1>1
  <1>3. DaysBeforeYear(year) <= DaysBefore(year, month)
    BY MonthWithinYear
  <1>4. DaysBefore(year, month) + DaysIn(year, month) <= DaysBeforeYear(year + 1)
    BY MonthWithinYear
  <1>5. Year(year)
    <2>1. DaysBeforeYear(year) \in Nat /\ DaysBeforeYear(year + 1) \in Nat
      BY YearLengths
    <2>. QED
      BY <1>1, <1>2, <1>3, <1>4, <2>1
  <1>6. year \in Years
    <2>1. 365 * year <= i
      BY <1>2, <1>5, YearLengths
    <2>2. i < 366 * (year + 1)
      <3>1. DaysBeforeYear(year + 1) \in Nat /\ DaysBeforeYear(year + 1) <= 366 * (year + 1)
        BY YearLengths
      <3>. QED
        BY <1>2, <1>5, <3>1
    <2>. HIDE DEF i
    <2>. QED
      BY <1>2, <2>1, <2>2
  <1>7. \A y \in Years : Year(y) => y = year
    <2>. SUFFICES ASSUME NEW y \in Years, Year(y), y # year
                  PROVE  FALSE
      OBVIOUS
    <2>1. y \in Nat
      BY <1>2
    <2>2. /\ DaysBeforeYear(y) \in Nat /\ DaysBeforeYear(y + 1) \in Nat
          /\ DaysBeforeYear(year) \in Nat /\ DaysBeforeYear(year + 1) \in Nat
      BY <2>1, YearLengths
    <2>3. CASE y < year
      <3>1. DaysBeforeYear(y + 1) <= DaysBeforeYear(year)
        BY <2>1, <2>3, YearsInOrder
      <3>. QED
        BY <1>2, <1>5, <2>2, <3>1
    <2>4. CASE year < y
      <3>1. DaysBeforeYear(year + 1) <= DaysBeforeYear(y)
        BY <2>1, <2>4, YearsInOrder
      <3>. QED
        BY <1>2, <1>5, <2>2, <3>1
    <2>. QED
      BY <2>1, <2>3, <2>4
  <1>8. \A m \in 1 .. 12 : Month(m) => m = month
    <2>. SUFFICES ASSUME NEW m \in 1 .. 12, Month(m), m # month
                  PROVE  FALSE
      OBVIOUS
    <2>1. CASE m < month
      <3>1. DaysBefore(year, m) + DaysIn(year, m) <= DaysBefore(year, month)
        BY <2>1, MonthsInOrder
      <3>. QED
        BY <1>1, <1>2, <3>1
    <2>2. CASE month < m
      <3>1. DaysBefore(year, month) + DaysIn(year, month) <= DaysBefore(year, m)
        BY <2>2, MonthsInOrder
      <3>. QED
        BY <1>1, <1>2, <3>1
    <2>. QED
      BY <2>1, <2>2
  <1>9. year = CHOOSE y \in i \div 366 .. i \div 365 :
                 DaysBeforeYear(y) <= i /\ i < DaysBeforeYear(y + 1)
    BY <1>5, <1>6, <1>7
  <1>10. month = CHOOSE m \in 1 .. 12 :
                   LET first == DaysBefore(year, m)
                   IN  first <= i /\ i < first + DaysIn(year, m)
    BY <1>2, <1>8
  <1>11. i - DaysBefore(year, month) + 1 = day
    BY <1>1
  <1>12. FieldsOf(i) = <<year, month, i - DaysBefore(year, month) + 1>>
    <2>. HIDE DEF i
    <2>. QED
      BY <1>9, <1>10, Zenon DEF FieldsOf
  <1>. QED
    BY <1>2, <1>11, <1>12

LEMMA DayOfAnInstant ==
    ASSUME NEW i \in Nat
    PROVE  \E year \in Nat : \E month \in 1 .. 12 : \E day \in 1 .. DaysIn(year, month) :
             i = DaysBefore(year, month) + day - 1
  <1>1. PICK year \in Nat : DaysBeforeYear(year) <= i /\ i < DaysBeforeYear(year + 1)
    BY YearOfADay
  <1>2. PICK month \in 1 .. 12 :
          DaysBefore(year, month) <= i /\ i < DaysBefore(year, month) + DaysIn(year, month)
    BY <1>1, MonthOfADay
  <1>3. DaysBefore(year, month) \in Nat /\ DaysIn(year, month) \in 28 .. 31
    BY MonthsOfAYear
  <1>. DEFINE day == i - DaysBefore(year, month) + 1
  <1>4. day \in 1 .. DaysIn(year, month) /\ i = DaysBefore(year, month) + day - 1
    BY <1>2, <1>3
  <1>. QED
    BY <1>4

LEMMA InstantOfADay ==
    ASSUME NEW year \in Nat, year > 99, NEW month \in 1 .. 12, NEW day \in Nat
    PROVE  DateUTC(year, month, day) = DaysBefore(year, month) + day - 1
  <1>1. (month - 1) \div 12 = 0 /\ ((month - 1) % 12) + 1 = month /\ year \notin 0 .. 99
    OBVIOUS
  <1>. QED
    BY <1>1 DEF DateUTC

LEMMA InstantOfAText ==
    ASSUME NEW year \in Nat, NEW month \in Nat, NEW day \in Nat
    PROVE  DateUTC(year, month, day) \in Nat
  <1>. DEFINE y == (IF year \in 0 .. 99 THEN 1900 + year ELSE year) + (month - 1) \div 12
              m == ((month - 1) % 12) + 1
  <1>1. y \in Nat /\ y >= 99 /\ m \in 1 .. 12
    <2>1. (month - 1) \div 12 \in Int /\ (month - 1) \div 12 >= -1
      OBVIOUS
    <2>2. m \in 1 .. 12
      OBVIOUS
    <2>. QED
      BY <2>1, <2>2
  <1>. HIDE DEF y, m
  <1>2. DaysBefore(y, m) \in Nat
    BY <1>1, MonthsOfAYear
  <1>3. DaysBeforeYear(y) \in Nat /\ 365 * y <= DaysBeforeYear(y)
    BY <1>1, YearLengths
  <1>4. DaysBeforeYear(y) <= DaysBefore(y, m)
    BY <1>1, MonthWithinYear
  <1>5. DaysBefore(y, m) + day - 1 \in Nat
    BY <1>1, <1>2, <1>3, <1>4
  <1>. QED
    BY <1>5 DEF DateUTC, y, m

(* The service's parser, for texts of any numbers.  A year of two digits   *)
(* is taken for one of the 1900s, and no instant is in both.               *)
THEOREM DatesRoundTrip == DatesAreDays(Nat \X Nat \X Nat)
  <1>. SUFFICES ASSUME NEW t \in Nat \X Nat \X Nat
                PROVE  FieldsOf(DateUTC(t[1], t[2], t[3])) = t <=> CalendarDay(t)
    BY DEF DatesAreDays, ParseCalendarDate
  <1>1. t = <<t[1], t[2], t[3]>> /\ t[1] \in Nat /\ t[2] \in Nat /\ t[3] \in Nat
    OBVIOUS
  <1>2. ASSUME CalendarDay(t)
        PROVE  FieldsOf(DateUTC(t[1], t[2], t[3])) = t
    <2>1. t[1] > 99 /\ t[2] \in 1 .. 12 /\ t[3] \in 1 .. DaysIn(t[1], t[2])
      BY <1>2 DEF CalendarDay
    <2>2. DateUTC(t[1], t[2], t[3]) = DaysBefore(t[1], t[2]) + t[3] - 1
      BY <1>1, <2>1, InstantOfADay
    <2>3. FieldsOf(DaysBefore(t[1], t[2]) + t[3] - 1) = <<t[1], t[2], t[3]>>
      BY <1>1, <2>1, FieldsOfADay
    <2>. QED
      BY <1>1, <2>2, <2>3
  <1>3. ASSUME FieldsOf(DateUTC(t[1], t[2], t[3])) = t
        PROVE  CalendarDay(t)
    <2>. DEFINE i == DateUTC(t[1], t[2], t[3])
    <2>1. i \in Nat
      BY <1>1, InstantOfAText
    <2>2. PICK year \in Nat : \E month \in 1 .. 12 : \E day \in 1 .. DaysIn(year, month) :
                 i = DaysBefore(year, month) + day - 1
      BY <2>1, DayOfAnInstant
    <2>3. PICK month \in 1 .. 12 : \E day \in 1 .. DaysIn(year, month) :
                 i = DaysBefore(year, month) + day - 1
      BY <2>2
    <2>4. PICK day \in 1 .. DaysIn(year, month) : i = DaysBefore(year, month) + day - 1
      BY <2>3
    <2>5. FieldsOf(i) = <<year, month, day>>
      BY <2>4, FieldsOfADay
    <2>6. t[1] = year /\ t[2] = month /\ t[3] = day
      BY <1>3, <2>5
    <2>7. ~(year \in 0 .. 99)
      <3>. SUFFICES ASSUME year \in 0 .. 99
                    PROVE  FALSE
        OBVIOUS
      <3>0. PICK later \in Nat : later = 1900 + year
        OBVIOUS
      <3>1. (month - 1) \div 12 = 0 /\ ((month - 1) % 12) + 1 = month
        OBVIOUS
      <3>2. i = DaysBefore(later, month) + day - 1
        BY <2>6, <3>0, <3>1 DEF DateUTC
      <3>3. DaysBefore(year, month) + DaysIn(year, month) <= DaysBeforeYear(year + 1)
        BY MonthWithinYear
      <3>4. DaysBeforeYear(year + 1) <= DaysBeforeYear(later)
        BY <3>0, YearsInOrder
      <3>5. DaysBeforeYear(later) <= DaysBefore(later, month)
        BY MonthWithinYear
      <3>6. /\ DaysBefore(year, month) \in Nat /\ DaysIn(year, month) \in 28 .. 31
            /\ DaysBefore(later, month) \in Nat
        BY MonthsOfAYear
      <3>7. DaysBeforeYear(year + 1) \in Nat /\ DaysBeforeYear(later) \in Nat
        <4>1. year + 1 \in Nat
          OBVIOUS
        <4>. QED
          BY <4>1, YearLengths
      <3>8. DaysBefore(year, month) + day - 1 = DaysBefore(later, month) + day - 1
        BY <2>4, <3>2
      <3>. HIDE DEF i
      <3>. QED
        BY <3>3, <3>4, <3>5, <3>6, <3>7, <3>8
    <2>. QED
      BY <2>6, <2>7 DEF CalendarDay
  <1>. QED
    BY <1>2, <1>3

(* Days before one another, in two years, in two months or in one. *)
LEMMA EarlierDay ==
    ASSUME NEW s \in Nat \X Nat \X Nat, NEW t \in Nat \X Nat \X Nat,
           CalendarDay(s), CalendarDay(t), NotAfter(s, t)
    PROVE  InstantOf(s) \in Nat /\ InstantOf(t) \in Nat /\ InstantOf(s) <= InstantOf(t)
             /\ (InstantOf(s) = InstantOf(t) => s = t)
  <1>1. /\ s[1] \in Nat /\ s[2] \in 1 .. 12 /\ s[3] \in 1 .. DaysIn(s[1], s[2]) /\ s[1] > 99
        /\ t[1] \in Nat /\ t[2] \in 1 .. 12 /\ t[3] \in 1 .. DaysIn(t[1], t[2]) /\ t[1] > 99
        /\ s[3] \in Nat /\ t[3] \in Nat
    BY DEF CalendarDay
  <1>2. /\ InstantOf(s) = DaysBefore(s[1], s[2]) + s[3] - 1
        /\ InstantOf(t) = DaysBefore(t[1], t[2]) + t[3] - 1
    BY <1>1, InstantOfADay DEF InstantOf
  <1>3. /\ DaysBefore(s[1], s[2]) \in Nat /\ DaysIn(s[1], s[2]) \in 28 .. 31
        /\ DaysBefore(t[1], t[2]) \in Nat /\ DaysIn(t[1], t[2]) \in 28 .. 31
    BY <1>1, MonthsOfAYear
  <1>4. InstantOf(s) \in Nat /\ InstantOf(t) \in Nat
    BY <1>1, <1>2, <1>3
  <1>5. CASE s[1] < t[1]
    <2>1. DaysBefore(s[1], s[2]) + DaysIn(s[1], s[2]) <= DaysBeforeYear(s[1] + 1)
      BY <1>1, MonthWithinYear
    <2>2. DaysBeforeYear(s[1] + 1) <= DaysBeforeYear(t[1])
      BY <1>1, <1>5, YearsInOrder
    <2>3. DaysBeforeYear(t[1]) <= DaysBefore(t[1], t[2])
      BY <1>1, MonthWithinYear
    <2>4. DaysBeforeYear(s[1] + 1) \in Nat /\ DaysBeforeYear(t[1]) \in Nat
      <3>1. s[1] + 1 \in Nat
        BY <1>1
      <3>. QED
        BY <1>1, <3>1, YearLengths
    <2>5. DaysBefore(s[1], s[2]) + DaysIn(s[1], s[2]) <= DaysBefore(t[1], t[2])
      BY <1>3, <2>1, <2>2, <2>3, <2>4
    <2>6. InstantOf(s) < InstantOf(t)
      BY <1>1, <1>2, <1>3, <2>5
    <2>. QED
      BY <1>4, <2>6
  <1>6. CASE s[1] = t[1] /\ s[2] < t[2]
    <2>1. DaysBefore(s[1], s[2]) + DaysIn(s[1], s[2]) <= DaysBefore(t[1], t[2])
      BY <1>1, <1>6, MonthsInOrder
    <2>2. InstantOf(s) < InstantOf(t)
      BY <1>1, <1>2, <1>3, <2>1
    <2>. QED
      BY <1>4, <2>2
  <1>7. CASE s[1] = t[1] /\ s[2] = t[2] /\ s[3] <= t[3]
    <2>1. InstantOf(s) <= InstantOf(t) /\ (InstantOf(s) = InstantOf(t) => s[3] = t[3])
      BY <1>1, <1>2, <1>3, <1>7
    <2>2. s = <<s[1], s[2], s[3]>> /\ t = <<t[1], t[2], t[3]>>
      OBVIOUS
    <2>. QED
      BY <1>4, <1>7, <2>1, <2>2
  <1>. QED
    BY <1>5, <1>6, <1>7 DEF NotAfter

THEOREM InstantsAreOrdered == InstantsFollowDays(Nat \X Nat \X Nat)
  <1>. SUFFICES ASSUME NEW s \in Nat \X Nat \X Nat, NEW t \in Nat \X Nat \X Nat,
                       CalendarDay(s), CalendarDay(t)
                PROVE  InstantOf(s) <= InstantOf(t) <=> NotAfter(s, t)
    BY DEF InstantsFollowDays
  <1>1. CASE NotAfter(s, t)
    BY <1>1, EarlierDay
  <1>2. CASE ~NotAfter(s, t)
    <2>1. /\ s[1] \in Nat /\ s[2] \in Nat /\ s[3] \in Nat
          /\ t[1] \in Nat /\ t[2] \in Nat /\ t[3] \in Nat
      OBVIOUS
    <2>2. NotAfter(t, s)
      BY <1>2, <2>1 DEF NotAfter
    <2>3. s # t
      BY <1>2, <2>1 DEF NotAfter
    <2>4. ~(InstantOf(s) <= InstantOf(t))
      BY <2>2, <2>3, EarlierDay
    <2>. QED
      BY <1>2, <2>4
  <1>. QED
    BY <1>1, <1>2

(* The birthdays there have been are those of the years up to now's, or up *)
(* to the one before.                                                      *)
THEOREM AgesAreBirthdays == AgesCountBirthdays(Nat \X Nat \X Nat)
  <1>. SUFFICES ASSUME NEW born \in Nat \X Nat \X Nat, NEW now \in Nat \X Nat \X Nat,
                       NotAfter(born, now)
                PROVE  AgeInYears(born, now) =
                         Cardinality({y \in born[1] + 1 .. now[1] :
                                        NotAfter(<<y, born[2], born[3]>>, now)})
    BY DEF AgesCountBirthdays
  <1>. DEFINE toCome == now[2] - born[2] < 0 \/ (now[2] - born[2] = 0 /\ now[3] < born[3])
              last == now[1] - (IF toCome THEN 1 ELSE 0)
              Birthdays == {y \in born[1] + 1 .. now[1] : NotAfter(<<y, born[2], born[3]>>, now)}
  <1>1. /\ born[1] \in Nat /\ born[2] \in Nat /\ born[3] \in Nat
        /\ now[1] \in Nat /\ now[2] \in Nat /\ now[3] \in Nat
    OBVIOUS
  <1>2. \A y \in Int : NotAfter(<<y, born[2], born[3]>>, now) <=> y <= last
    BY <1>1 DEF NotAfter
  <1>3. last \in Int /\ last <= now[1] /\ born[1] <= last
    BY <1>1 DEF NotAfter
  <1>4. AgeInYears(born, now) = last - born[1]
    <2>1. AgeInYears(born, now) = now[1] - born[1] - (IF toCome THEN 1 ELSE 0)
      BY DEF AgeInYears
    <2>. QED
      BY <1>1, <2>1
  <1>. HIDE DEF last
  <1>5. Birthdays = born[1] + 1 .. last
    BY <1>1, <1>2, <1>3
  <1>6. Cardinality(born[1] + 1 .. last) = last - born[1]
    <2>1. born[1] + 1 \in Int
      BY <1>1
    <2>2. Cardinality(born[1] + 1 .. last)
            = IF born[1] + 1 > last THEN 0 ELSE last - (born[1] + 1) + 1
      BY <1>3, <2>1, FS_Interval
    <2>. QED
      BY <1>1, <1>3, <2>2
  <1>. QED
    BY <1>4, <1>5, <1>6

(* The two gates use one parser and one age, and the minimum of the second *)
(* is configured to be one above the maximum of the first or less.         *)
THEOREM GatesMeet ==
    ASSUME MinSelfRegistrationAge \in 0 .. 19, Null \notin Nat \X Nat \X Nat
    PROVE  NobodyFallsBetweenTheGates(Nat \X Nat \X Nat)
  <1>. SUFFICES ASSUME NEW born \in Nat \X Nat \X Nat, NEW now \in Nat \X Nat \X Nat,
                       CalendarDay(born), CalendarDay(now)
                PROVE  /\ NotAfter(born, now) /\ AgeInYears(born, now) >= 1 =>
                            ChildAge(born, now) \/ OldEnoughForOwnAccount(born, now)
                       /\ ChildAge(born, now) /\ OldEnoughForOwnAccount(born, now) =>
                            AgeInYears(born, now) \in MinSelfRegistrationAge .. 18
                       /\ ChildAge(born, now) \/ OldEnoughForOwnAccount(born, now) =>
                            NotAfter(born, now)
    BY DEF NobodyFallsBetweenTheGates
  <1>. DEFINE age == AgeInYears(born, now)
  <1>1. ParseCalendarDate(born) = born /\ born # Null
    BY DatesRoundTrip DEF DatesAreDays
  <1>2. InstantOf(born) <= InstantOf(now) <=> NotAfter(born, now)
    BY InstantsAreOrdered DEF InstantsFollowDays
  <1>3. ChildAge(born, now) <=> age \in 1 .. 18
    BY <1>1 DEF ChildAge
  <1>4. OldEnoughForOwnAccount(born, now) <=> NotAfter(born, now) /\ age >= MinSelfRegistrationAge
    BY <1>1, <1>2 DEF OldEnoughForOwnAccount
  <1>5. /\ born[1] \in Nat /\ born[2] \in Nat /\ born[3] \in Nat
        /\ now[1] \in Nat /\ now[2] \in Nat /\ now[3] \in Nat
    OBVIOUS
  <1>6. age \in Int
    BY <1>5 DEF AgeInYears
  <1>7. age >= 1 => NotAfter(born, now)
    BY <1>5 DEF AgeInYears, NotAfter
  <1>. HIDE DEF age
  <1>8. /\ NotAfter(born, now) /\ age >= 1 => ChildAge(born, now) \/ OldEnoughForOwnAccount(born, now)
        /\ ChildAge(born, now) /\ OldEnoughForOwnAccount(born, now) =>
             age \in MinSelfRegistrationAge .. 18
        /\ ChildAge(born, now) \/ OldEnoughForOwnAccount(born, now) => NotAfter(born, now)
    BY <1>3, <1>4, <1>6, <1>7
  <1>. QED
    BY <1>8 DEF age

-----------------------------------------------------------------------------
LEMMA DatesLookAlikeBothWays ==
    ASSUME NEW a \in (Nat \X Nat \X Nat) \cup {Null}, NEW b \in (Nat \X Nat \X Nat) \cup {Null}
    PROVE  /\ DatesLookAlike(a, b) <=> DatesLookAlike(b, a)
           /\ DatesLookAlike(a, a)
  <1>0. \A t \in Nat \X Nat \X Nat : InstantOf(t) \in Nat
    BY InstantOfAText DEF InstantOf
  <1>1. DatesLookAlike(a, b) <=> DatesLookAlike(b, a)
    <2>1. CASE Null \in {a, b}
      BY <2>1 DEF DatesLookAlike
    <2>2. CASE Null \notin {a, b}
      <3>1. InstantOf(a) \in Nat /\ InstantOf(b) \in Nat
        BY <1>0, <2>2
      <3>2. \A m, n \in Nat : m - n \in -366 .. 366 <=> n - m \in -366 .. 366
        OBVIOUS
      <3>. QED
        BY <2>2, <3>1, <3>2 DEF DatesLookAlike, MaxBirthDateGap
    <2>. QED
      BY <2>1, <2>2
  <1>2. DatesLookAlike(a, a)
    <2>1. CASE a = Null
      BY <2>1 DEF DatesLookAlike
    <2>2. CASE a # Null
      <3>1. InstantOf(a) \in Nat
        BY <1>0, <2>2
      <3>2. InstantOf(a) - InstantOf(a) = 0
        BY <3>1
      <3>3. InstantOf(a) - InstantOf(a) \in -366 .. 366
        BY <3>2
      <3>. QED
        BY <3>3 DEF DatesLookAlike, MaxBirthDateGap
    <2>. QED
      BY <2>1, <2>2
  <1>. QED
    BY <1>1, <1>2

LEMMA NamesLookAlikeBothWays ==
    ASSUME NEW Words, NEW a \in Seq(Words), NEW b \in Seq(Words)
    PROVE  /\ NamesLookAlike(a, b) <=> NamesLookAlike(b, a)
           /\ NamesLookAlike(a, a)
  <1>1. \A v, w : TokensLookAlike(v, w) <=> TokensLookAlike(w, v)
    BY DEF TokensLookAlike
  <1>2. \A v : TokensLookAlike(v, v)
    BY DEF TokensLookAlike
  <1>3. Len(a) = Len(b) => DOMAIN a = DOMAIN b
    OBVIOUS
  <1>. QED
    BY <1>1, <1>2, <1>3 DEF NamesLookAlike

LEMMA SimilarToOne ==
    ASSUME NEW id, id # Null, NEW a, NEW b
    PROVE  FindSimilarChildren([i \in {id} |-> a], b, Null) =
             IF /\ NamesLookAlike(b.displayName.words, a.displayName.words)
                /\ DatesLookAlike(a.birthDate, b.birthDate)
             THEN {[profileId |-> id,
                    exact |-> /\ a.displayName.words = b.displayName.words
                              /\ a.birthDate = b.birthDate]}
             ELSE {}
  <1>. DEFINE alone == [i \in {id} |-> a]
  <1>1. DOMAIN alone \ {Null} = {id} /\ alone[id] = a
    OBVIOUS
  <1>. HIDE DEF alone
  <1>2. FindSimilarChildren(alone, b, Null) =
          {[profileId |-> i,
            exact |-> /\ alone[i].displayName.words = b.displayName.words
                      /\ alone[i].birthDate = b.birthDate] :
             i \in {j \in {id} : /\ NamesLookAlike(b.displayName.words, alone[j].displayName.words)
                                 /\ DatesLookAlike(alone[j].birthDate, b.birthDate)}}
    BY <1>1 DEF FindSimilarChildren, NormalizeChildName
  <1>3. CASE /\ NamesLookAlike(b.displayName.words, a.displayName.words)
             /\ DatesLookAlike(a.birthDate, b.birthDate)
    <2>1. {j \in {id} : /\ NamesLookAlike(b.displayName.words, alone[j].displayName.words)
                        /\ DatesLookAlike(alone[j].birthDate, b.birthDate)} = {id}
      BY <1>1, <1>3
    <2>. QED
      BY <1>1, <1>2, <1>3, <2>1 DEF alone
  <1>4. CASE ~ /\ NamesLookAlike(b.displayName.words, a.displayName.words)
               /\ DatesLookAlike(a.birthDate, b.birthDate)
    <2>1. {j \in {id} : /\ NamesLookAlike(b.displayName.words, alone[j].displayName.words)
                        /\ DatesLookAlike(alone[j].birthDate, b.birthDate)} = {}
      BY <1>1, <1>4
    <2>. QED
      BY <1>1, <1>2, <1>4, <2>1 DEF alone
  <1>. QED
    BY <1>3, <1>4

(* Likeness, for names of any words over any letters and any dates or none. *)
THEOREM LikenessIsSymmetric ==
    ASSUME NEW Letters, NEW id, id # Null
    PROVE  LikenessIsMutual([displayName: [words: Seq(Seq(Letters)), single: BOOLEAN],
                             birthDate: (Nat \X Nat \X Nat) \cup {Null}], id)
  <1>. DEFINE ChildRows == [displayName: [words: Seq(Seq(Letters)), single: BOOLEAN],
                           birthDate: (Nat \X Nat \X Nat) \cup {Null}]
              Report(a, b) == FindSimilarChildren([i \in {id} |-> a], b, Null)
  <1>. SUFFICES ASSUME NEW a \in ChildRows, NEW b \in ChildRows
                PROVE  /\ Report(a, b) = Report(b, a)
                       /\ a = b => Report(a, b) = {[profileId |-> id, exact |-> TRUE]}
    BY DEF LikenessIsMutual
  <1>1. /\ a.displayName.words \in Seq(Seq(Letters)) /\ b.displayName.words \in Seq(Seq(Letters))
        /\ a.birthDate \in (Nat \X Nat \X Nat) \cup {Null}
        /\ b.birthDate \in (Nat \X Nat \X Nat) \cup {Null}
    OBVIOUS
  <1>2. NamesLookAlike(a.displayName.words, b.displayName.words)
          <=> NamesLookAlike(b.displayName.words, a.displayName.words)
    BY <1>1, NamesLookAlikeBothWays
  <1>3. DatesLookAlike(a.birthDate, b.birthDate) <=> DatesLookAlike(b.birthDate, a.birthDate)
    BY <1>1, DatesLookAlikeBothWays
  <1>. DEFINE Alike(x, y) == /\ NamesLookAlike(y.displayName.words, x.displayName.words)
                            /\ DatesLookAlike(x.birthDate, y.birthDate)
              Exact(x, y) == x.displayName.words = y.displayName.words /\ x.birthDate = y.birthDate
  <1>0. \A x, y : Report(x, y) = IF Alike(x, y) THEN {[profileId |-> id, exact |-> Exact(x, y)]} ELSE {}
    BY SimilarToOne, Zenon
  <1>4. Report(a, b) = Report(b, a)
    <2>1. Alike(a, b) <=> Alike(b, a)
      BY <1>2, <1>3
    <2>2. Exact(a, b) = Exact(b, a)
      OBVIOUS
    <2>. HIDE DEF Report, Alike, Exact
    <2>. QED
      BY <1>0, <2>1, <2>2
  <1>5. NamesLookAlike(a.displayName.words, a.displayName.words)
          /\ DatesLookAlike(a.birthDate, a.birthDate)
    BY <1>1, NamesLookAlikeBothWays, DatesLookAlikeBothWays
  <1>6. Report(a, a) = {[profileId |-> id, exact |-> TRUE]}
    <2>1. Alike(a, a)
      BY <1>5
    <2>2. Exact(a, a) = TRUE
      OBVIOUS
    <2>. HIDE DEF Report, Alike, Exact
    <2>. QED
      BY <1>0, <2>1, <2>2
  <1>. QED
    BY <1>4, <1>6

(* The preview and the refusal, in families of any size. *)
THEOREM RefusalsAreReported ==
    ASSUME NEW Letters, NEW Kids,
           NEW families \in SUBSET [Kids -> [displayName: [words: Seq(Seq(Letters)), single: BOOLEAN],
                                             birthDate: (Nat \X Nat \X Nat) \cup {Null}]]
    PROVE  RefusalsAreForetold(families, [displayName: [words: Seq(Seq(Letters)), single: BOOLEAN],
                                          birthDate: (Nat \X Nat \X Nat) \cup {Null}])
  <1>. DEFINE ChildRows == [displayName: [words: Seq(Seq(Letters)), single: BOOLEAN],
                           birthDate: (Nat \X Nat \X Nat) \cup {Null}]
  <1>. SUFFICES ASSUME NEW family \in [Kids -> ChildRows], NEW c \in ChildRows,
                       NEW except \in Kids \cup {Null},
                       Duplicate(family, c.displayName, c.birthDate, except)
                PROVE  \E match \in FindSimilarChildren(family, c, except) : match.exact
    BY DEF RefusalsAreForetold
  <1>1. PICK id \in DOMAIN family \ {except} :
               family[id].displayName = c.displayName /\ family[id].birthDate = c.birthDate
    BY DEF Duplicate
  <1>2. c.displayName.words \in Seq(Seq(Letters)) /\ c.birthDate \in (Nat \X Nat \X Nat) \cup {Null}
    OBVIOUS
  <1>3. NamesLookAlike(c.displayName.words, c.displayName.words)
          /\ DatesLookAlike(c.birthDate, c.birthDate)
    BY <1>2, NamesLookAlikeBothWays, DatesLookAlikeBothWays
  <1>. DEFINE match == [profileId |-> id,
                        exact |-> /\ family[id].displayName.words = c.displayName.words
                                  /\ family[id].birthDate = c.birthDate]
  <1>4. match \in FindSimilarChildren(family, c, except)
    BY <1>1, <1>3 DEF FindSimilarChildren, NormalizeChildName
  <1>5. match.exact
    BY <1>1
  <1>. QED
    BY <1>4, <1>5

(* Families of any size; of the calls' data it matters only that a field   *)
(* not supplied is told from one that is, and that the new id is new.      *)
THEOREM ChildrenAreKeptApart ==
    ASSUME NEW Kids, Null \notin Kids, NEW new, new \notin Kids,
           NEW Names, Null \notin Names, NEW Dates, Null \notin Dates, NEW now
    PROVE  ChildrenStayApart(
             [Kids -> [displayName: Names, birthDate: Dates \cup {Null}]], new,
             [displayName: Names, birthDate: Dates, allowDuplicate: BOOLEAN],
             [displayName: Names \cup {Null}, birthDate: Dates \cup {Null}, allowDuplicate: BOOLEAN],
             now)
  <1>. DEFINE ChildRows == [displayName: Names, birthDate: Dates \cup {Null}]
              Additions == [displayName: Names, birthDate: Dates, allowDuplicate: BOOLEAN]
              Edits == [displayName: Names \cup {Null}, birthDate: Dates \cup {Null},
                        allowDuplicate: BOOLEAN]
              Added(family, dto) ==
                [id \in DOMAIN family \cup {new} |->
                   IF id = new THEN [displayName |-> dto.displayName, birthDate |-> dto.birthDate]
                   ELSE family[id]]
  <1>. SUFFICES ASSUME NEW family \in [Kids -> ChildRows], Distinct(family)
                PROVE  /\ \A dto \in Additions :
                            ~dto.allowDuplicate /\ CreateChildAccepts(family, dto, now) =>
                              Distinct(Added(family, dto))
                       /\ \A dto \in Edits, id \in DOMAIN family :
                            ~dto.allowDuplicate /\ UpdateChildAccepts(family, id, dto, now) =>
                              Distinct(UpdateChildProfile(family, id, dto))
    BY DEF ChildrenStayApart
  <1>0. DOMAIN family = Kids
    OBVIOUS
  <1>1. ASSUME NEW dto \in Additions, ~dto.allowDuplicate, CreateChildAccepts(family, dto, now)
        PROVE  Distinct(Added(family, dto))
    <2>. DEFINE child == [displayName |-> dto.displayName, birthDate |-> dto.birthDate]
                after == [id \in Kids \cup {new} |-> IF id = new THEN child ELSE family[id]]
    <2>1. ~Duplicate(family, dto.displayName, dto.birthDate, Null)
      BY <1>1 DEF CreateChildAccepts
    <2>2. \A i \in Kids : family[i].displayName # dto.displayName
                            \/ family[i].birthDate # dto.birthDate
      BY <1>0, <2>1 DEF Duplicate
    <2>3. \A i \in Kids : family[i] # child
      BY <2>2
    <2>4. \A i, j \in Kids : i # j => family[i] # family[j]
      BY <1>0 DEF Distinct
    <2>. HIDE DEF child
    <2>5. \A i, j \in Kids \cup {new} : i # j => after[i] # after[j]
      BY <2>3, <2>4
    <2>6. DOMAIN after = Kids \cup {new}
      OBVIOUS
    <2>7. Distinct(after)
      BY <2>5, <2>6 DEF Distinct
    <2>. QED
      BY <1>0, <2>7 DEF child
  <1>2. ASSUME NEW dto \in Edits, NEW id \in Kids, ~dto.allowDuplicate,
               UpdateChildAccepts(family, id, dto, now)
        PROVE  Distinct(UpdateChildProfile(family, id, dto))
    <2>. DEFINE name == Supplied(dto.displayName, family[id].displayName)
                date == Supplied(dto.birthDate, family[id].birthDate)
                child == [displayName |-> name, birthDate |-> date]
                after == [family EXCEPT ![id] = child]
    <2>1. UpdateChildProfile(family, id, dto) = after
      BY DEF UpdateChildProfile
    <2>2. \A i, j \in Kids : i # j => family[i] # family[j]
      BY <1>0 DEF Distinct
    <2>3. \A i \in Kids \ {id} : family[i] # child
      <3>1. CASE dto.displayName = Null /\ dto.birthDate = Null
        <4>1. name = family[id].displayName /\ date = family[id].birthDate
          BY <3>1 DEF Supplied
        <4>2. family[id] \in [displayName: Names, birthDate: Dates \cup {Null}]
          OBVIOUS
        <4>3. child = family[id]
          BY <4>1, <4>2
        <4>. QED
          BY <2>2, <4>3
      <3>2. CASE ~Duplicate(family, name, date, id)
        <4>1. \A i \in Kids \ {id} : family[i].displayName # name \/ family[i].birthDate # date
          BY <1>0, <3>2 DEF Duplicate
        <4>. QED
          BY <4>1
      <3>. QED
        BY <1>2, <3>1, <3>2 DEF UpdateChildAccepts
    <2>. HIDE DEF child
    <2>4. \A i, j \in Kids : i # j => after[i] # after[j]
      BY <2>2, <2>3
    <2>5. DOMAIN after = Kids
      OBVIOUS
    <2>6. Distinct(after)
      BY <2>4, <2>5 DEF Distinct
    <2>. QED
      BY <2>1, <2>6
  <1>. QED
    BY <1>0, <1>1, <1>2

-----------------------------------------------------------------------------
(* The pool is never overdrawn, readers do not lock, and a link's lock has *)
(* one holder.                                                             *)
PCs == {"idle", "start", "query", "lock", "find", "finding", "write", "done"}

PoolInv ==
    /\ pc \in [Requests -> PCs]
    /\ \A r \in Requests \ Redeemers : pc[r] \in {"idle", "start", "query", "done"}
    /\ InUse <= PoolSize
    /\ \A r, s \in Redeemers : HasLocked(r) /\ HasLocked(s) /\ LinkOf[r] = LinkOf[s] => r = s

Connections(at) ==
    IF at = "finding" THEN 2 ELSE IF at \in {"query", "lock", "find", "write"} THEN 1 ELSE 0

LEMMA MembersAfter ==
    ASSUME IsFiniteSet(Requests), NEW at \in SUBSET PCs, pc \in [Requests -> PCs],
           NEW r \in Requests, NEW to \in PCs, pc' = [pc EXCEPT ![r] = to]
    PROVE  LET n == Cardinality({q \in Requests : pc[q] \in at})
               m == Cardinality({q \in Requests : pc'[q] \in at})
           IN  /\ n \in Nat /\ m \in Nat
               /\ m = n - (IF pc[r] \in at THEN 1 ELSE 0) + (IF to \in at THEN 1 ELSE 0)
  <1>. DEFINE S == {q \in Requests : pc[q] \in at}
              T == {q \in Requests : pc'[q] \in at}
  <1>1. IsFiniteSet(S) /\ IsFiniteSet(T)
    BY FS_Subset
  <1>2. Cardinality(S) \in Nat /\ Cardinality(T) \in Nat
    BY <1>1, FS_CardinalityType
  <1>3. r \in S <=> pc[r] \in at
    OBVIOUS
  <1>4. CASE to \in at
    <2>1. T = S \cup {r}
      BY <1>4
    <2>2. Cardinality(T) = IF r \in S THEN Cardinality(S) ELSE Cardinality(S) + 1
      BY <1>1, <2>1, FS_AddElement
    <2>. QED
      BY <1>2, <1>3, <1>4, <2>2
  <1>5. CASE to \notin at
    <2>1. T = S \ {r}
      BY <1>5
    <2>2. Cardinality(T) = IF r \in S THEN Cardinality(S) - 1 ELSE Cardinality(S)
      BY <1>1, <2>1, FS_RemoveElement
    <2>. QED
      BY <1>2, <1>3, <1>5, <2>2
  <1>. QED
    BY <1>4, <1>5

LEMMA InUseAfter ==
    ASSUME IsFiniteSet(Requests), pc \in [Requests -> PCs],
           NEW r \in Requests, NEW to \in PCs, pc' = [pc EXCEPT ![r] = to]
    PROVE  /\ InUse \in Nat /\ InUse' \in Nat
           /\ InUse' = InUse - Connections(pc[r]) + Connections(to)
  <1>. DEFINE H == {"query", "lock", "find", "finding", "write"}
              holding == Cardinality({q \in Requests : pc[q] \in H})
              holding2 == Cardinality({q \in Requests : pc'[q] \in H})
              finding == Cardinality({q \in Requests : pc[q] \in {"finding"}})
              finding2 == Cardinality({q \in Requests : pc'[q] \in {"finding"}})
  <1>1. /\ holding \in Nat /\ holding2 \in Nat
        /\ holding2 = holding - (IF pc[r] \in H THEN 1 ELSE 0) + (IF to \in H THEN 1 ELSE 0)
    <2>1. H \in SUBSET PCs
      BY DEF PCs
    <2>. QED
      BY <2>1, MembersAfter, Zenon
  <1>2. /\ finding \in Nat /\ finding2 \in Nat
        /\ finding2 = finding - (IF pc[r] \in {"finding"} THEN 1 ELSE 0)
                        + (IF to \in {"finding"} THEN 1 ELSE 0)
    <2>1. {"finding"} \in SUBSET PCs
      BY DEF PCs
    <2>. QED
      BY <2>1, MembersAfter, Zenon
  <1>3. {q \in Requests : pc[q] = "finding"} = {q \in Requests : pc[q] \in {"finding"}}
        /\ {q \in Requests : pc'[q] = "finding"} = {q \in Requests : pc'[q] \in {"finding"}}
    OBVIOUS
  <1>4. InUse = holding + finding /\ InUse' = holding2 + finding2
    BY <1>3 DEF InUse, Holders
  <1>5. pc[r] \in PCs
    OBVIOUS
  <1>. HIDE DEF holding, holding2, finding, finding2
  <1>. QED
    BY <1>1, <1>2, <1>4, <1>5 DEF Connections, PCs

(* One request moves, to a place where it holds no more connections than   *)
(* are free, and the lock of a link only if no other holds it.             *)
Moves(r, to) == pc' = [pc EXCEPT ![r] = to]

MayMove(r, to) ==
    /\ to \in PCs
    /\ r \notin Redeemers => to \in {"idle", "start", "query", "done"}
    /\ Connections(to) > Connections(pc[r]) =>
         InUse < PoolSize /\ Connections(to) = Connections(pc[r]) + 1
    /\ to \in {"find", "finding", "write"} /\ pc[r] \notin {"find", "finding", "write"} =>
         \A s \in Redeemers : HasLocked(s) => LinkOf[s] # LinkOf[r]

LEMMA MoveKeepsInv ==
    ASSUME IsFiniteSet(Requests), PoolSize \in Nat, PoolInv,
           NEW r \in Requests, NEW to, Moves(r, to), MayMove(r, to)
    PROVE  PoolInv'
  <1>1. pc \in [Requests -> PCs] /\ InUse <= PoolSize
    BY DEF PoolInv
  <1>0. to \in PCs /\ pc' = [pc EXCEPT ![r] = to]
    BY DEF Moves, MayMove
  <1>2. pc' \in [Requests -> PCs]
    BY <1>0, <1>1
  <1>3. \A q \in Requests \ Redeemers : pc'[q] \in {"idle", "start", "query", "done"}
    BY <1>0, <1>1 DEF PoolInv, MayMove
  <1>4. InUse' <= PoolSize
    <2>1. /\ InUse \in Nat /\ InUse' \in Nat
          /\ InUse' = InUse - Connections(pc[r]) + Connections(to)
      BY <1>0, <1>1, InUseAfter
    <2>2. Connections(to) \in Nat /\ Connections(pc[r]) \in Nat
      BY DEF Connections
    <2>. QED
      BY <1>1, <2>1, <2>2 DEF MayMove
  <1>5. \A q, s \in Redeemers :
          HasLocked(q)' /\ HasLocked(s)' /\ LinkOf[q] = LinkOf[s] => q = s
    <2>1. \A q \in Redeemers : q # r => (HasLocked(q)' <=> HasLocked(q))
      BY <1>0, <1>1 DEF HasLocked, Requests
    <2>2. HasLocked(r)' => r \in Redeemers /\ to \in {"find", "finding", "write"}
      BY <1>0, <1>1 DEF HasLocked
    <2>3. HasLocked(r)' =>
            HasLocked(r) \/ \A s \in Redeemers : HasLocked(s) => LinkOf[s] # LinkOf[r]
      BY <2>2 DEF HasLocked, MayMove
    <2>. QED
      BY <2>1, <2>2, <2>3 DEF PoolInv
  <1>. QED
    BY <1>2, <1>3, <1>4, <1>5 DEF PoolInv

THEOREM PoolIsNeverOverdrawn ==
    ASSUME IsFiniteSet(Requests), PoolSize \in Nat
    PROVE  Spec => []PoolInv
  <1>1. Init => PoolInv
    <2>. SUFFICES ASSUME Init
                  PROVE  PoolInv
      OBVIOUS
    <2>1. \A r \in Requests : pc[r] = "idle"
      BY DEF Init
    <2>2. Holders = {} /\ {r \in Requests : pc[r] = "finding"} = {}
      BY <2>1 DEF Holders
    <2>3. InUse = 0
      BY <2>2, FS_EmptySet DEF InUse
    <2>. QED
      BY <2>1, <2>3 DEF Init, PoolInv, PCs, HasLocked, Requests
  <1>2. PoolInv /\ [Next]_pc => PoolInv'
    <2>. SUFFICES ASSUME PoolInv, [Next]_pc
                  PROVE  PoolInv'
      OBVIOUS
    <2>1. CASE UNCHANGED pc
      BY <2>1 DEF PoolInv, InUse, Holders, HasLocked
    <2>2. ASSUME NEW r \in Requests, Arrive(r) \/ Step(r)
          PROVE  PoolInv'
      <3>0. /\ r \notin Redeemers => pc[r] \in {"idle", "start", "query", "done"}
            /\ \A at \in {"idle", "start", "done"} : at \in PCs /\ Connections(at) = 0
            /\ \A at \in {"query", "lock", "find", "write"} : at \in PCs /\ Connections(at) = 1
            /\ "finding" \in PCs /\ Connections("finding") = 2
        BY DEF PoolInv, PCs, Connections
      <3>1. CASE Arrive(r)
        <4>1. pc[r] = "idle" /\ Moves(r, "start")
          BY <3>1 DEF Arrive, Goto, Moves
        <4>2. MayMove(r, "start")
          BY <3>0, <4>1 DEF MayMove
        <4>. QED
          BY <4>1, <4>2, MoveKeepsInv
      <3>2. CASE Query(r)
        <4>1. pc[r] = "start" /\ Moves(r, "query") /\ InUse < PoolSize
          BY <3>2 DEF Query, Connect, Goto, Moves
        <4>2. MayMove(r, "query")
          BY <3>0, <4>1 DEF MayMove
        <4>. QED
          BY <4>1, <4>2, MoveKeepsInv
      <3>3. CASE Answer(r)
        <4>1. pc[r] = "query" /\ Moves(r, "done")
          BY <3>3 DEF Answer, Goto, Moves
        <4>2. MayMove(r, "done")
          BY <3>0, <4>1 DEF MayMove
        <4>. QED
          BY <4>1, <4>2, MoveKeepsInv
      <3>4. CASE BeginTransaction(r)
        <4>1. /\ r \in Redeemers /\ InUse < PoolSize
              /\ pc[r] = "start" /\ Moves(r, "lock")
          BY <3>4 DEF BeginTransaction, Connect, Goto, Moves
        <4>2. MayMove(r, "lock")
          BY <3>0, <4>1 DEF MayMove
        <4>. QED
          BY <4>1, <4>2, MoveKeepsInv
      <3>5. CASE LockForRedemption(r)
        <4>1. PICK to \in {"done", "find", "write"} : Goto(r, "lock", to)
          BY <3>5 DEF LockForRedemption
        <4>2. /\ r \in Redeemers /\ pc[r] = "lock" /\ Moves(r, to)
              /\ \A s \in Redeemers : HasLocked(s) => LinkOf[s] # LinkOf[r]
          BY <3>0, <3>5, <4>1 DEF LockForRedemption, Goto, Moves
        <4>3. CASE to = "done"
          <5>1. MayMove(r, "done")
            BY <3>0, <4>2, <4>3 DEF MayMove
          <5>. QED
            BY <4>2, <4>3, <5>1, MoveKeepsInv
        <4>4. CASE to = "find"
          <5>1. MayMove(r, "find")
            BY <3>0, <4>2, <4>4 DEF MayMove
          <5>. QED
            BY <4>2, <4>4, <5>1, MoveKeepsInv
        <4>5. CASE to = "write"
          <5>1. MayMove(r, "write")
            BY <3>0, <4>2, <4>5 DEF MayMove
          <5>. QED
            BY <4>2, <4>5, <5>1, MoveKeepsInv
        <4>. QED
          BY <4>1, <4>3, <4>4, <4>5
      <3>6. CASE FindByEmail(r) \/ FindById(r)
        <4>1. /\ r \in Redeemers /\ InUse < PoolSize
              /\ pc[r] = "find" /\ Moves(r, "finding")
          BY <3>6 DEF FindByEmail, FindById, Connect, Goto, Moves
        <4>2. MayMove(r, "finding")
          BY <3>0, <4>1 DEF MayMove
        <4>. QED
          BY <4>1, <4>2, MoveKeepsInv
      <3>7. CASE r \in Redeemers /\ Found(r)
        <4>1. PICK to \in {"done", "write"} : Goto(r, "finding", to)
          BY <3>7 DEF Found
        <4>2. r \in Redeemers /\ pc[r] = "finding" /\ Moves(r, to)
          BY <3>7, <4>1 DEF Goto, Moves
        <4>3. CASE to = "done"
          <5>1. MayMove(r, "done")
            BY <3>0, <4>2, <4>3 DEF MayMove
          <5>. QED
            BY <4>2, <4>3, <5>1, MoveKeepsInv
        <4>4. CASE to = "write"
          <5>1. MayMove(r, "write")
            BY <3>0, <4>2, <4>4 DEF MayMove
          <5>. QED
            BY <4>2, <4>4, <5>1, MoveKeepsInv
        <4>. QED
          BY <4>1, <4>3, <4>4
      <3>8. CASE Commit(r)
        <4>1. pc[r] = "write" /\ Moves(r, "done")
          BY <3>8 DEF Commit, Goto, Moves
        <4>2. MayMove(r, "done")
          BY <3>0, <4>1 DEF MayMove
        <4>. QED
          BY <4>1, <4>2, MoveKeepsInv
      <3>. QED
        BY <2>2, <3>1, <3>2, <3>3, <3>4, <3>5, <3>6, <3>7, <3>8 DEF Step
    <2>. QED
      BY <2>1, <2>2 DEF Next
  <1>. QED
    BY <1>1, <1>2, PTL DEF Spec

(* Wherever the pool gets stuck, redemptions hold all of it. *)
LEMMA StuckPool ==
    ASSUME IsFiniteSet(Requests), PoolSize \in Nat \ {0}, PoolInv
    PROVE  StuckByRedemptions
  <1>. DEFINE waiting(at) == {r \in Redeemers : pc[r] = at}
  <1>. SUFFICES ASSUME Stuck
                PROVE  /\ Cardinality(waiting("lock") \cup waiting("find")) = PoolSize
                       /\ waiting("find") # {}
                       /\ \A r \in waiting("lock") :
                            \E s \in waiting("find") : LinkOf[s] = LinkOf[r]
    BY DEF StuckByRedemptions
  <1>1. \A r \in Requests :
          /\ pc[r] \in {"idle", "start", "lock", "find", "done"}
          /\ r \notin Redeemers => pc[r] \in {"idle", "start", "done"}
          /\ pc[r] \in {"start", "find"} => ~(InUse < PoolSize)
    BY DEF Stuck, CanMove, PoolInv, PCs
  <1>2. \A r \in waiting("lock") : \E s \in waiting("find") : LinkOf[s] = LinkOf[r]
    <2>. SUFFICES ASSUME NEW r \in waiting("lock")
                  PROVE  \E s \in waiting("find") : LinkOf[s] = LinkOf[r]
      OBVIOUS
    <2>1. PICK s \in Redeemers : HasLocked(s) /\ LinkOf[s] = LinkOf[r]
      BY DEF Stuck, CanMove, Requests
    <2>2. pc[s] = "find"
      BY <1>1, <2>1 DEF HasLocked, Requests
    <2>. QED
      BY <2>1, <2>2
  <1>3. ~(InUse < PoolSize)
    <2>1. PICK r \in Requests : pc[r] \in {"start", "lock", "find"}
      BY <1>1 DEF Stuck
    <2>2. CASE pc[r] \in {"start", "find"}
      BY <1>1, <2>2
    <2>3. CASE pc[r] = "lock"
      <3>1. r \in waiting("lock")
        BY <1>1, <2>3
      <3>2. PICK s \in waiting("find") : LinkOf[s] = LinkOf[r]
        BY <1>2, <3>1
      <3>. QED
        BY <1>1, <3>2 DEF Requests
    <2>. QED
      BY <2>1, <2>2, <2>3
  <1>4. InUse = Cardinality(waiting("lock") \cup waiting("find"))
    <2>1. Holders = waiting("lock") \cup waiting("find")
      BY <1>1 DEF Holders, Requests
    <2>2. {r \in Requests : pc[r] = "finding"} = {}
      BY <1>1
    <2>3. IsFiniteSet(Holders)
      BY FS_Subset DEF Holders
    <2>4. Cardinality(Holders) \in Nat
      BY <2>3, FS_CardinalityType
    <2>. QED
      BY <2>1, <2>2, <2>4, FS_EmptySet DEF InUse
  <1>5. IsFiniteSet(waiting("lock") \cup waiting("find"))
    BY FS_Subset DEF Requests
  <1>6. Cardinality(waiting("lock") \cup waiting("find")) \in Nat
    BY <1>5, FS_CardinalityType
  <1>7. Cardinality(waiting("lock") \cup waiting("find")) = PoolSize
    BY <1>3, <1>4, <1>6 DEF PoolInv
  <1>8. waiting("find") # {}
    <2>. SUFFICES ASSUME waiting("find") = {}
                  PROVE  FALSE
      OBVIOUS
    <2>1. waiting("lock") = {}
      BY <1>2
    <2>. QED
      BY <1>7, <2>1, FS_EmptySet
  <1>. QED
    BY <1>2, <1>7, <1>8

(* However many requests, redemptions and links there are: what gets stuck *)
(* is a pool all of whose connections redemptions hold.                    *)
THEOREM OnlyRedemptionsStarve ==
    ASSUME IsFiniteSet(Requests), PoolSize \in Nat \ {0}
    PROVE  Spec => []StuckByRedemptions
  <1>1. PoolInv => StuckByRedemptions
    BY StuckPool
  <1>2. PoolSize \in Nat
    OBVIOUS
  <1>3. Spec => []PoolInv
    BY <1>2, PoolIsNeverOverdrawn
  <1>. QED
    BY <1>1, <1>3, PTL

(* With one connection more than there are redemptions, none waits for     *)
(* ever.                                                                   *)
THEOREM LargePoolsNeverStick ==
    ASSUME IsFiniteSet(Requests), PoolSize \in Nat, Cardinality(Redeemers) < PoolSize
    PROVE  Spec => []~Stuck
  <1>1. IsFiniteSet(Redeemers)
    BY FS_Subset DEF Requests
  <1>2. Cardinality(Redeemers) \in Nat
    BY <1>1, FS_CardinalityType
  <1>3. StuckByRedemptions => ~Stuck
    <2>. DEFINE waiting == {r \in Redeemers : pc[r] = "lock"} \cup {r \in Redeemers : pc[r] = "find"}
    <2>1. IsFiniteSet(waiting) /\ Cardinality(waiting) <= Cardinality(Redeemers)
      BY <1>1, FS_Subset
    <2>2. Cardinality(waiting) \in Nat
      BY <2>1, FS_CardinalityType
    <2>3. Cardinality(waiting) # PoolSize
      BY <1>2, <2>1, <2>2
    <2>. QED
      BY <2>3 DEF StuckByRedemptions
  <1>4. PoolSize \in Nat \ {0}
    BY <1>2
  <1>5. Spec => []StuckByRedemptions
    BY <1>4, OnlyRedemptionsStarve
  <1>. QED
    BY <1>3, <1>5, PTL
==================================================================================
