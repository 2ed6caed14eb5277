------------------------------ MODULE Permissions ------------------------------
(***************************************************************************)
(* Who may do what: the principal that a validated session stands for, the *)
(* rules that ability.factory.ts grants it, the guards in front of the     *)
(* routes, and the two decisions taken inside services, on impersonating   *)
(* and on belonging to a trainer's organisation.                           *)
(*                                                                         *)
(* A subject is the type of a row and those of its columns that the caller *)
(* hands over: a function from column names to values.                     *)
(***************************************************************************)
EXTENDS Integers, Sequences

CONSTANTS
    Ids,        \* primary keys
    None        \* SQL NULL

Roles == {"SuperAdmin", "Trainer", "Coach", "PlayerParent"}

Nullable == Ids \cup {None}

(* What the session validator resolves for a user of each role: a trainer  *)
(* without a profile and a coach without an engagement have no             *)
(* organisation.                                                           *)
Tenancy(role) ==
    {t \in [trainerOrgId: Nullable, coachProfileId: Nullable, childPlayerProfileId: Nullable] :
       /\ role \in {"Trainer", "Coach"} \/ t.trainerOrgId = None
       /\ role = "Coach" \/ t.coachProfileId = None
       /\ role = "Coach" => (t.coachProfileId = None <=> t.trainerOrgId = None)
       /\ role \notin {"Trainer", "Coach"} \/ t.childPlayerProfileId = None}

(* admin is the administrator behind a supervised session.                 *)
PrincipalOf(user, tenancy, admin) ==
    [userId |-> user.id, role |-> user.role,
     trainerOrgId |-> tenancy.trainerOrgId, coachProfileId |-> tenancy.coachProfileId,
     isChild |-> tenancy.childPlayerProfileId # None,
     childPlayerProfileId |-> tenancy.childPlayerProfileId,
     impersonating |-> admin # None, actor |-> admin]

----------------------------------------------------------------------------
Always == [c \in {} |-> None]

Can(action, type, where) == [granted |-> TRUE, action |-> action, type |-> type, where |-> where]

Cannot(action, type, where) == [granted |-> FALSE, action |-> action, type |-> type, where |-> where]

AdminRules(p) ==
    <<Can("manage", "all", Always),
      Cannot("impersonate", "User", [role |-> "SuperAdmin"]),
      Cannot("impersonate", "User", [id |-> p.userId])>>

TrainerRules(p) ==
    LET org == [trainerOrgId |-> p.trainerOrgId] IN
    <<Can("read", "User", org),
      Can("manage", "TrainerPlayerAssociation", org),
      Can("read", "PlayerProfile", org),
      Can("read", "Availability", org),
      Can("manage", "CoachProfile", org),
      Can("manage", "ShareLink", org),
      Can("manage", "Branding", org),
      Can("read", "TrainerOrg", [id |-> p.trainerOrgId])>>

CoachRules(p) ==
    <<Can("read", "CoachProfile", [userId |-> p.userId]),
      Can("update", "CoachProfile", [userId |-> p.userId]),
      Can("manage", "Availability", [coachProfileId |-> p.coachProfileId]),
      Can("read", "TrainerOrg", [id |-> p.trainerOrgId]),
      Can("read", "Branding", [trainerOrgId |-> p.trainerOrgId]),
      Cannot("manage", "ShareLink", Always),
      Cannot("manage", "TrainerPlayerAssociation", Always),
      Cannot("manage", "User", Always)>>

ParentRules(p) ==
    LET owned == [ownerUserId |-> p.userId] IN
    <<Can("read", "PlayerProfile", owned),
      Can("update", "PlayerProfile", owned),
      Can("create", "PlayerProfile", Always),
      Can("manage", "Availability", Always),
      Can("create", "TrainerPlayerAssociation", owned),
      Can("read", "TrainerPlayerAssociation", owned),
      Can("delete", "TrainerPlayerAssociation", owned),
      Can("read", "Branding", Always),
      Cannot("manage", "ShareLink", Always),
      Cannot("manage", "CoachProfile", Always),
      Cannot("manage", "User", Always)>>

ChildRules(p) ==
    LET own == [id |-> p.childPlayerProfileId] IN
    <<Can("read", "PlayerProfile", own),
      Can("update", "PlayerProfile", own),
      Can("read", "TrainerPlayerAssociation", [playerProfileId |-> p.childPlayerProfileId]),
      Can("read", "Branding", Always),
      Can("manage", "Availability", Always),
      Cannot("create", "TrainerPlayerAssociation", Always),
      Cannot("update", "TrainerPlayerAssociation", Always),
      Cannot("delete", "TrainerPlayerAssociation", Always),
      Cannot("create", "PlayerProfile", Always),
      Cannot("delete", "PlayerProfile", Always),
      Cannot("manage", "User", Always),
      Cannot("manage", "ShareLink", Always),
      Cannot("manage", "CoachProfile", Always),
      Can("create", "PurchaseApproval", [childPlayerProfileId |-> p.childPlayerProfileId]),
      Cannot("update", "PurchaseApproval", Always),
      Cannot("delete", "PurchaseApproval", Always)>>

RulesOf(p) ==
    CASE p.role = "SuperAdmin" -> AdminRules(p)
      [] p.role = "Trainer" -> TrainerRules(p)
      [] p.role = "Coach" -> CoachRules(p)
      [] p.role = "PlayerParent" /\ p.isChild -> ChildRules(p)
      [] p.role = "PlayerParent" /\ ~p.isChild -> ParentRules(p)

----------------------------------------------------------------------------
(* CASL: the last rule that is about the action and the subject decides.   *)
About(rule, action, type) == rule.action \in {action, "manage"} /\ rule.type \in {type, "all"}

Meets(row, where) == \A c \in DOMAIN where : c \in DOMAIN row /\ row[c] = where[c]

LastIsGrant(rules, matching) ==
    \E i \in matching : rules[i].granted /\ \A j \in matching : j <= i

MayOnRow(p, action, type, row) ==
    LET rules == RulesOf(p) IN
    LastIsGrant(rules, {i \in DOMAIN rules : About(rules[i], action, type) /\ Meets(row, rules[i].where)})

(* Asked of a type alone, a denial that depends on the row does not count. *)
MayOnType(p, action, type) ==
    LET rules == RulesOf(p) IN
    LastIsGrant(rules, {i \in DOMAIN rules : /\ About(rules[i], action, type)
                                             /\ rules[i].granted \/ rules[i].where = Always})

----------------------------------------------------------------------------
RolesGuard(p, required) == required = {} \/ p.role \in required

NotAChildGuard(p) == ~p.isChild

PoliciesGuard(p, checks) == \A c \in checks : MayOnType(p, c.action, c.type)

ImpersonateRoute(p) ==
    /\ RolesGuard(p, {"SuperAdmin"})
    /\ PoliciesGuard(p, {[action |-> "impersonate", type |-> "User"]})

(* What start() itself asks.                                               *)
MayImpersonate(p, target) ==
    /\ ~p.impersonating
    /\ MayOnRow(p, "impersonate", "User", [id |-> target.id, role |-> target.role])

(* associations are the active ones, profiles those of player_profiles.    *)
ProfilesOf(p, profiles) ==
    IF p.isChild THEN {p.childPlayerProfileId} \ {None}
    ELSE {q.id : q \in {r \in profiles : r.ownerUserId = p.userId}}

IsOrgMember(p, trainer, associations, profiles) ==
    CASE p.role = "SuperAdmin" -> TRUE
      [] p.role \in {"Trainer", "Coach"} -> p.trainerOrgId = trainer
      [] p.role = "PlayerParent" ->
           \E a \in associations : a.trainer = trainer /\ a.player \in ProfilesOf(p, profiles)

----------------------------------------------------------------------------
Actions == {"manage", "create", "read", "update", "delete", "impersonate"}

Subjects == {"User", "PlayerProfile", "CoachProfile", "TrainerOrg", "ShareLink", "Availability",
             "TrainerPlayerAssociation", "PurchaseApproval", "ImpersonationLog", "Branding"}

UserRows == [id: Ids, role: Roles]

Principals ==
    UNION {{PrincipalOf([id |-> u, role |-> role], t, admin) :
              u \in Ids, t \in Tenancy(role), admin \in Nullable} : role \in Roles}

(* A child login is a player's, as createLogin makes it.                   *)
Children == {p \in Principals : p.role = "PlayerParent" /\ p.isChild}

(* The rules of impersonation.service.ts:69: only an administrator acts as *)
(* another user, never as an administrator or as itself, never from within *)
(* an impersonation; and the route refuses nobody whom the service admits. *)
ImpersonationStaysBelow ==
    \A p \in Principals, target \in UserRows : MayImpersonate(p, target) =>
      /\ p.role = "SuperAdmin" /\ target.role # "SuperAdmin" /\ target.id # p.userId
      /\ p.actor = None
      /\ ImpersonateRoute(p)

(* Of applyChildRules, "none can reach a sibling": a child login reads and *)
(* edits its own profile and no other, and answers no request.             *)
ChildKeepsToItself ==
    \A p \in Children, action \in Actions, row \in [{"id", "ownerUserId"} -> Nullable] :
      /\ MayOnRow(p, action, "PlayerProfile", row) =>
           action \in {"read", "update"} /\ row["id"] = p.childPlayerProfileId
      /\ MayOnRow(p, action, "PurchaseApproval", row) => action = "create"

(* Whatever a trainer or a coach is granted on rows of an organisation is  *)
(* of the one the session resolved; without one, nothing.                  *)
TenantsKeepToTheirOrganisation ==
    \A p \in Principals, action \in Actions, type \in Subjects,
      row \in [{"id", "trainerOrgId"} -> Ids] :
      p.role \in {"Trainer", "Coach"} /\ MayOnRow(p, action, type, row) =>
        p.trainerOrgId \in {row["id"], row["trainerOrgId"]}

(* A child login belongs where its own profile does, whatever its siblings *)
(* join (org-membership.service.ts:52).                                    *)
SiblingsDoNotCount ==
    \A p \in Children, trainer \in Ids, profiles \in SUBSET [id: Ids, ownerUserId: Ids] :
      \A associations \in SUBSET [trainer: Ids, player: Ids] :
        IsOrgMember(p, trainer, associations, profiles) <=>
          [trainer |-> trainer, player |-> p.childPlayerProfileId] \in associations
===============================================================================
