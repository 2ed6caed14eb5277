---------------------------- MODULE MCPersonalData ----------------------------
(* A family whose child has a login or is given one, a trainer, and a      *)
(* camper, of whom there may be nothing but a camp form yet.               *)
EXTENDS PersonalData, TLC

CONSTANTS parent, child, trainer, camper, n1, n2, r1, r2

(* The pictures of a parent, a child and an organisation.                  *)
PictureKind == "parentUser" :> "user" @@ "childUser" :> "user" @@ "childProfile" :> "child"
                 @@ "org" :> "org"

PictureOwner == "parentUser" :> parent @@ "childUser" :> child @@ "childProfile" :> parent
                  @@ "org" :> trainer

PictureLogin == [x \in DOMAIN PictureKind |-> IF x = "childProfile" THEN child ELSE None]

PictureRoster == {<<trainer, "childProfile">>}

(* What a camper's account would hold, and its form; the trainer's own     *)
(* rows are left out.                                                      *)
CampKind == "camperUser" :> "user" @@ "camperSelf" :> "self"

CampOwner == [x \in DOMAIN CampKind |-> camper]

CampLogin == [x \in DOMAIN CampKind |-> None]

CampRoster == {<<trainer, "camperSelf">>}

CampAddressee == "form" :> camper

NoForms == [f \in {} |-> None]

MCSymmetry == Permutations({n1, n2}) \cup Permutations({r1, r2})
===============================================================================
