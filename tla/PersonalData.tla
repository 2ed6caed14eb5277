----------------------------- MODULE PersonalData -----------------------------
(***************************************************************************)
(* Where personal data lives and what an erasure does to it: the text and  *)
(* the picture of users, player profiles and trainer organisations, the    *)
(* pictures' files at the storage provider, and the camp forms filled in   *)
(* before there was an account.                                            *)
(*                                                                         *)
(* Some edits UPDATE the columns they were given, others read an entity,   *)
(* change it and save all of it: what was written in between is lost.      *)
(* The model tells only whether a row holds personal text, whose file it   *)
(* points at, and whether the form's token and address are the real ones.  *)
(* Rows and associations exist from the start, and a child's login has one *)
(* address; its withdrawal, validation, audit rows and calls refused       *)
(* before they write are left out.                                         *)
(***************************************************************************)
EXTENDS FiniteSets

CONSTANTS
    Accounts,       \* users, each with its address
    Rows,           \* rows of users, player_profiles and trainer_profiles
    Kind,           \* Rows -> "user", "self" or "child" (player_profiles), "org"
    Owner,          \* Rows -> the account a row belongs to, a child's to its parent
    Login,          \* Rows -> the account a child has, or will be given, if any
    Roster,         \* <<trainer's account, player profile>> with an active association
    Assets,         \* public ids at the storage provider
    Forms,          \* primary keys of camp_submissions
    Addressee,      \* Forms -> the account that has, or will have, its address
    Requests,       \* requests in flight together
    None,           \* SQL NULL, or a local not yet assigned
    Endpoints       \* the endpoints called in this instance

Ops == {"edit", "adminEdit", "skill", "createLogin", "color", "picture", "remove",
        "submit", "convert", "send", "erase"}

ASSUME NoneAssumption ==
    None \notin Accounts \cup Rows \cup Assets \cup Forms

ASSUME RowsAssumption ==
    /\ Kind \in [Rows -> {"user", "self", "child", "org"}]
    /\ Owner \in [Rows -> Accounts]
    /\ Login \in [Rows -> Accounts \cup {None}]
    /\ Addressee \in [Forms -> Accounts]
    /\ \A x \in Rows : Login[x] # None => Kind[x] = "child"
    /\ \A x, y \in Rows : Login[x] = Owner[y] => Kind[y] = "user"
    /\ \A x \in Rows, f \in Forms : Login[x] # Addressee[f]
    /\ Roster \subseteq Accounts \X {x \in Rows : Kind[x] \in {"self", "child"}}

ASSUME EndpointsAssumption ==
    Endpoints \subseteq Ops

VARIABLES
    accounts,       \* the status of each account
    rows,           \* the text and picture each row holds
    assets,         \* the files at the storage provider
    forms,          \* camp_submissions: existing id -> row
    reqs            \* the requests in flight and their local variables

vars == <<accounts, rows, assets, forms, reqs>>

----------------------------------------------------------------------------
Nullable(S) == S \cup {None}

(* late is no column: the row was last written for an account after its    *)
(* erasure, by an administrator or by a request older than the erasure.    *)
(* Nor is "again" a skill level of its own: it was set after the erasure.  *)
Row == [text: BOOLEAN, picture: Nullable(Assets), skill: {"unset", "set", "again"}, late: BOOLEAN]

Blank == [text |-> FALSE, picture |-> None, skill |-> "unset", late |-> FALSE]

(* home is no column: the row a file was uploaded for.                     *)
Asset == [state: {"unused", "stored", "gone"}, home: Nullable(Rows)]

(* personal: the address, the token and the rest are what was submitted.   *)
CampSubmission == [personal: BOOLEAN, converted: Nullable(Accounts), late: BOOLEAN]

PCs == {"idle", "edit", "skill", "createLogin", "color", "upload", "persist", "discard",
        "erase", "register", "convert", "send"}

(* The locals: the row, form or account at hand, the row or form as it was *)
(* read, the file uploaded, those to discard and the logins to erase.      *)
(* after is no local: a request of no administrator's that began when what *)
(* it writes for had been erased.                                          *)
Request == [pc: PCs, admin: BOOLEAN, row: Nullable(Rows), form: Nullable(Forms),
            target: Nullable(Accounts), seen: Row, submission: Nullable(CampSubmission),
            upload: Nullable(Assets), doomed: SUBSET Assets, logins: SUBSET Accounts,
            after: BOOLEAN]

Idle == [pc |-> "idle", admin |-> FALSE, row |-> None, form |-> None, target |-> None,
         seen |-> Blank, submission |-> None, upload |-> None, doomed |-> {}, logins |-> {}, after |-> FALSE]

At(r, pc) == reqs[r].pc = pc

Erased == {a \in Accounts : accounts[a] = "deleted"}

(* Nobody who could be served is left on the row's side.  A child's        *)
(* profile is not gone while a login of the child's is active: one that    *)
(* was created after its parent's erasure had listed them.                 *)
Gone(x) == Owner[x] \in Erased /\ (Login[x] # None => accounts[Login[x]] # "active")

Begin(r, op, q) == At(r, "idle") /\ op \in Endpoints /\ reqs' = [reqs EXCEPT ![r] = q]

Finish(r) == reqs' = [reqs EXCEPT ![r] = Idle]

(* JwtStrategy.validate, once, when the request begins.                    *)
Live(a) == accounts[a] = "active"

ChildLogins(a) ==
    {b \in Accounts : accounts[b] # "none" /\ \E x \in Rows : Owner[x] = a /\ Login[x] = b}

IsChild(a) == \E x \in Rows : Login[x] = a

(* Edits by id of users and of a child's profile are UPDATEs of the given  *)
(* columns; those of a self profile and of an organisation save an entity, *)
(* of which the others use the picture only.                               *)
UpdatedInPlace(x) == Kind[x] \in {"user", "child"}

Entity(x) == IF UpdatedInPlace(x) THEN [Blank EXCEPT !.picture = rows[x].picture] ELSE rows[x]

(* Is a write of r to what was erased one that the erasure did not see?    *)
Late(r, erased) == erased /\ (reqs[r].admin \/ ~reqs[r].after)

Written(r, x, now, new) == [new EXCEPT !.late = now.late \/ Late(r, Gone(x))]

----------------------------------------------------------------------------
(* Text *)

ReadRow(r, op, pc, x, admin) ==
    /\ Begin(r, op, [Idle EXCEPT !.pc = pc, !.row = x, !.admin = admin,
                                 !.seen = IF pc = "edit" /\ UpdatedInPlace(x) THEN Blank ELSE Entity(x),
                                 !.after = ~admin /\ Gone(x)])
    /\ UNCHANGED <<accounts, rows, assets, forms>>

(* updateCommon, updatePlayer, updateOwnChildProfile, updateTrainer of the *)
(* profile service, updateChild of the family service.                     *)
UpdateCommon(r, a, x) ==
    Kind[x] = "user" /\ a = Owner[x] /\ Live(a) /\ ReadRow(r, "edit", "edit", x, FALSE)

UpdatePlayer(r, a, x) ==
    Kind[x] = "self" /\ a = Owner[x] /\ Live(a) /\ ReadRow(r, "edit", "edit", x, FALSE)

UpdateOwnChildProfile(r, a, x) ==
    a = Login[x] /\ Live(a) /\ ReadRow(r, "edit", "edit", x, FALSE)

UpdateChild(r, a, x) ==
    Kind[x] = "child" /\ a = Owner[x] /\ Live(a) /\ ReadRow(r, "edit", "edit", x, FALSE)

UpdateTrainer(r, a, x) ==
    Kind[x] = "org" /\ a = Owner[x] /\ Live(a) /\ ReadRow(r, "edit", "edit", x, FALSE)

(* An administrator edits any account, an erased one too.                  *)
AdminUpdate(r, x, kind) ==
    Kind[x] = kind /\ accounts[Owner[x]] # "none" /\ ReadRow(r, "adminEdit", "edit", x, TRUE)

UpdateUser(r, x) == AdminUpdate(r, x, "user")

UpdatePlayerProfile(r, x) == AdminUpdate(r, x, "self")

UpdateTrainerProfile(r, x) == AdminUpdate(r, x, "org")

(* updateProfile and updateChildProfile write columns, applyProfileUpdate  *)
(* saves the entity.                                                       *)
Edit(r) ==
    LET x == reqs[r].row
        row == IF UpdatedInPlace(x) THEN rows[x] ELSE reqs[r].seen IN
    /\ At(r, "edit")
    /\ rows' = [rows EXCEPT ![x] = Written(r, x, row, [row EXCEPT !.text = TRUE])]
    /\ Finish(r)
    /\ UNCHANGED <<accounts, assets, forms>>

(* setSkillLevel: an active association is all it asks for, whatever has   *)
(* become of the player's account; an erasure leaves associations alone.   *)
StartSetSkillLevel(r, a, x) ==
    /\ Live(a) /\ <<a, x>> \in Roster
    /\ accounts[Owner[x]] # "none"
    /\ Begin(r, "skill", [Idle EXCEPT !.pc = "skill", !.row = x])
    /\ UNCHANGED <<accounts, rows, assets, forms>>

(* One UPDATE of one column; null takes the level away.                    *)
SetSkillLevel(r) ==
    LET x == reqs[r].row
        given == IF Gone(x) THEN "again" ELSE "set" IN
    /\ At(r, "skill")
    /\ \E level \in {given, "unset"} : rows' = [rows EXCEPT ![x].skill = level]
    /\ Finish(r)
    /\ UNCHANGED <<accounts, assets, forms>>

(* setPrimaryColor: nothing of the row but its colour is meant to change.  *)
StartSetPrimaryColor(r, x) ==
    Kind[x] = "org" /\ Live(Owner[x]) /\ ReadRow(r, "color", "color", x, FALSE)

SetPrimaryColor(r) ==
    LET x == reqs[r].row IN
    /\ At(r, "color")
    /\ rows' = [rows EXCEPT ![x] = Written(r, x, reqs[r].seen, reqs[r].seen)]
    /\ Finish(r)
    /\ UNCHANGED <<accounts, assets, forms>>

(* createLogin: whatever becomes of the parent in between, the child gets  *)
(* an account, unless its address is taken.                                *)
StartCreateLogin(r, x) ==
    /\ Login[x] # None /\ accounts[Login[x]] = "none" /\ Live(Owner[x])
    /\ Begin(r, "createLogin", [Idle EXCEPT !.pc = "createLogin", !.row = x])
    /\ UNCHANGED <<accounts, rows, assets, forms>>

CreateLogin(r) ==
    LET a == Login[reqs[r].row] IN
    /\ At(r, "createLogin")
    /\ IF accounts[a] = "none"
       THEN /\ accounts' = [accounts EXCEPT ![a] = "active"]
            /\ rows' = [x \in Rows |-> IF Owner[x] = a THEN [rows[x] EXCEPT !.text = TRUE]
                                       ELSE rows[x]]
       ELSE UNCHANGED <<accounts, rows>>
    /\ Finish(r)
    /\ UNCHANGED <<assets, forms>>

----------------------------------------------------------------------------
(* Pictures, all written through replaceStoredAsset *)

(* A child's picture belongs on its player profile, an adult's on users.   *)
OwnPicture(a, x) ==
    IF IsChild(a) THEN a = Login[x] ELSE Kind[x] = "user" /\ a = Owner[x]

OwnedChild(a, x) == Kind[x] = "child" /\ a = Owner[x]

OwnOrg(a, x) == Kind[x] = "org" /\ a = Owner[x]

StartPicture(r, a, x) == Live(a) /\ ReadRow(r, "picture", "upload", x, FALSE)

StartRemoval(r, a, x) ==
    Live(a) /\ rows[x].picture # None /\ ReadRow(r, "remove", "persist", x, FALSE)

UploadPhoto(r, a, x) == OwnPicture(a, x) /\ StartPicture(r, a, x)

UploadChildPhoto(r, a, x) == OwnedChild(a, x) /\ StartPicture(r, a, x)

SetLogoFromUpload(r, a, x) == OwnOrg(a, x) /\ StartPicture(r, a, x)

RemovePhoto(r, a, x) == OwnPicture(a, x) /\ StartRemoval(r, a, x)

RemoveChildPhoto(r, a, x) == OwnedChild(a, x) /\ StartRemoval(r, a, x)

RemoveLogo(r, a, x) == OwnOrg(a, x) /\ StartRemoval(r, a, x)

(* The provider gives every upload a public id of its own.                 *)
Upload(r) ==
    /\ At(r, "upload")
    /\ \E n \in Assets :
         /\ assets[n].state = "unused"
         /\ assets' = [assets EXCEPT ![n] = [state |-> "stored", home |-> reqs[r].row]]
         /\ reqs' = [reqs EXCEPT ![r].pc = "persist", ![r].upload = n]
    /\ UNCHANGED <<accounts, rows, forms>>

(* Mutant: the old file is discarded before the row is written. *)
PersistAfterDiscard(r) ==
    LET x == reqs[r].row
        row == IF UpdatedInPlace(x) THEN rows[x] ELSE reqs[r].seen
        old == reqs[r].seen.picture IN
    /\ At(r, "persist")
    /\ IF old # None /\ assets[old].state = "stored"
       THEN assets' = [assets EXCEPT ![old].state = "gone"] /\ UNCHANGED <<rows, reqs>>
       ELSE /\ rows' = [rows EXCEPT ![x] = Written(r, x, row, [row EXCEPT !.picture = reqs[r].upload])]
            /\ Finish(r)
            /\ UNCHANGED assets
    /\ UNCHANGED <<accounts, forms>>

(* setPhoto by id, or a save of the organisation as it was read.           *)
Persist(r) ==
    LET x == reqs[r].row
        row == IF UpdatedInPlace(x) THEN rows[x] ELSE reqs[r].seen IN
    /\ At(r, "persist")
    /\ rows' = [rows EXCEPT ![x] = Written(r, x, row, [row EXCEPT !.picture = reqs[r].upload])]
    /\ reqs' = [reqs EXCEPT ![r].pc = "discard", ![r].doomed = {reqs[r].seen.picture} \ {None}]
    /\ UNCHANGED <<accounts, assets, forms>>

(* Best effort: what is not deleted is leaked.                             *)
DiscardAssets(r) ==
    /\ At(r, "discard")
    /\ \E lost \in SUBSET reqs[r].doomed :
         assets' = [n \in Assets |-> IF n \in reqs[r].doomed \ lost
                                     THEN [assets[n] EXCEPT !.state = "gone"] ELSE assets[n]]
    /\ Finish(r)
    /\ UNCHANGED <<accounts, rows, forms>>

----------------------------------------------------------------------------
(* Camp forms *)

(* The public form.                                                        *)
Submit(f) ==
    /\ "submit" \in Endpoints
    /\ f \notin DOMAIN forms
    /\ Addressee[f] \notin Erased                                          \* bound
    /\ forms' = [g \in DOMAIN forms \cup {f} |->
                   IF g = f THEN [personal |-> TRUE, converted |-> None, late |-> FALSE]
                   ELSE forms[g]]
    /\ UNCHANGED <<accounts, rows, assets, reqs>>

ReadForm(r, op, pc, f) ==
    /\ Begin(r, op, [Idle EXCEPT !.pc = pc, !.form = f, !.submission = forms[f],
                                 !.after = Addressee[f] \in Erased])
    /\ UNCHANGED <<accounts, rows, assets, forms>>

(* requireByToken: a scrubbed form's token is gone.                        *)
RequireByToken(f) == forms[f].personal

StartConvert(r, f) ==
    RequireByToken(f) /\ forms[f].converted = None /\ ReadForm(r, "convert", "register", f)

(* registerViaShareLink: an account and its self profile, unless the       *)
(* address is taken.  An erased address is not registered again (bound).   *)
RegisterFromForm(r) ==
    LET a == Addressee[reqs[r].form] IN
    /\ At(r, "register")
    /\ IF accounts[a] = "none"
       THEN /\ accounts' = [accounts EXCEPT ![a] = "active"]
            /\ rows' = [x \in Rows |-> IF Owner[x] = a /\ Kind[x] \in {"user", "self"}
                                       THEN [rows[x] EXCEPT !.text = TRUE] ELSE rows[x]]
            /\ reqs' = [reqs EXCEPT ![r].pc = "convert"]
       ELSE Finish(r) /\ UNCHANGED <<accounts, rows>>
    /\ UNCHANGED <<assets, forms>>

SavedForm(r, new) == [new EXCEPT !.late = @ \/ Late(r, Addressee[reqs[r].form] \in Erased)]

(* The account is looked up by its address, and the form as it was read at *)
(* the start is saved.                                                     *)
Convert(r) ==
    LET a == Addressee[reqs[r].form] IN
    /\ At(r, "convert")
    /\ forms' = [forms EXCEPT ![reqs[r].form] =
                   SavedForm(r, [reqs[r].submission EXCEPT !.converted = IF Live(a) THEN a ELSE None])]
    /\ Finish(r)
    /\ UNCHANGED <<accounts, rows, assets>>

(* sendShareLink, by the trainer: mail goes out between read and save.     *)
StartSendShareLink(r, f) ==
    forms[f].converted = None /\ ReadForm(r, "send", "send", f)

SendShareLink(r) ==
    /\ At(r, "send")
    /\ forms' = [forms EXCEPT ![reqs[r].form] = SavedForm(r, reqs[r].submission)]
    /\ Finish(r)
    /\ UNCHANGED <<accounts, rows, assets>>

----------------------------------------------------------------------------
(* deleteUser *)

(* Mutant: the children's profiles are forgotten. *)
SweptButChildren(a, who) ==
    {x \in Rows : IF Kind[x] = "user" THEN Owner[x] \in who
                  ELSE (Owner[x] = a /\ Kind[x] # "child") \/ Login[x] = a}

(* The rows an erasure of a and its children's logins, together who,       *)
(* anonymises: their users rows, what a owns, and a login's profile.       *)
Swept(a, who) ==
    {x \in Rows : IF Kind[x] = "user" THEN Owner[x] \in who
                  ELSE Owner[x] = a \/ Login[x] \in who}

(* Handles are captured before the transaction clears them.                *)
StartErase(r, a) ==
    /\ Live(a)
    /\ Begin(r, "erase", [Idle EXCEPT !.pc = "erase", !.target = a,
                                      !.doomed = {rows[x].picture : x \in Swept(a, {a})} \ {None},
                                      !.logins = ChildLogins(a) \ Erased])
    /\ UNCHANGED <<accounts, rows, assets, forms>>

(* Mutant: camp forms are not scrubbed. *)
ScrubByEmailNever(who) == forms

ScrubByEmail(who) ==
    [f \in DOMAIN forms |-> IF Addressee[f] \in who
                            THEN [forms[f] EXCEPT !.personal = FALSE, !.late = FALSE]
                            ELSE forms[f]]

(* One transaction; the unique deletion log rolls a second one back.       *)
Erase(r) ==
    LET a == reqs[r].target
        who == {a} \cup reqs[r].logins IN
    /\ At(r, "erase")
    /\ IF who \cap Erased = {}
       THEN /\ accounts' = [b \in Accounts |-> IF b \in who THEN "deleted" ELSE accounts[b]]
            /\ rows' = [x \in Rows |-> IF x \in Swept(a, who) THEN Blank ELSE rows[x]]
            /\ forms' = ScrubByEmail(who)
            /\ reqs' = [reqs EXCEPT ![r].pc = "discard"]
       ELSE Finish(r) /\ UNCHANGED <<accounts, rows, forms>>
    /\ UNCHANGED assets

----------------------------------------------------------------------------
(* The process dies, the upload or the mail fails.                         *)
Fail(r) ==
    /\ ~At(r, "idle")
    /\ Finish(r)
    /\ UNCHANGED <<accounts, rows, assets, forms>>

(* A form's addressee has no account yet, and a child may have no login.   *)
Init ==
    /\ accounts \in [Accounts -> {"none", "active"}]
    /\ \A f \in Forms : accounts[Addressee[f]] = "none"
    /\ \A a \in Accounts \ {Addressee[f] : f \in Forms} : accounts[a] = "none" => IsChild(a)
    /\ \A x \in Rows : Login[x] # None /\ accounts[Login[x]] = "active" => Live(Owner[x])
    /\ rows = [x \in Rows |-> [Blank EXCEPT !.text = accounts[Owner[x]] = "active"]]
    /\ assets = [n \in Assets |-> [state |-> "unused", home |-> None]]
    /\ forms = [f \in {} |-> None]
    /\ reqs = [r \in Requests |-> Idle]

StartRequest(r) ==
    \/ \E a \in Accounts, x \in Rows :
         \/ UpdateCommon(r, a, x) \/ UpdatePlayer(r, a, x) \/ UpdateOwnChildProfile(r, a, x)
         \/ UpdateChild(r, a, x) \/ UpdateTrainer(r, a, x)
         \/ UploadPhoto(r, a, x) \/ UploadChildPhoto(r, a, x) \/ SetLogoFromUpload(r, a, x)
         \/ RemovePhoto(r, a, x) \/ RemoveChildPhoto(r, a, x) \/ RemoveLogo(r, a, x)
         \/ StartSetSkillLevel(r, a, x)
    \/ \E x \in Rows :
         \/ UpdateUser(r, x) \/ UpdatePlayerProfile(r, x) \/ UpdateTrainerProfile(r, x)
         \/ StartSetPrimaryColor(r, x) \/ StartCreateLogin(r, x)
    \/ \E f \in DOMAIN forms : StartConvert(r, f) \/ StartSendShareLink(r, f)
    \/ \E a \in Accounts : StartErase(r, a)

Continue(r) ==
    \/ Edit(r) \/ SetSkillLevel(r) \/ CreateLogin(r) \/ SetPrimaryColor(r)
    \/ Upload(r) \/ Persist(r) \/ DiscardAssets(r)
    \/ RegisterFromForm(r) \/ Convert(r) \/ SendShareLink(r) \/ Erase(r)

Next ==
    \/ \E f \in Forms : Submit(f)
    \/ \E r \in Requests : StartRequest(r) \/ Continue(r) \/ Fail(r)

Spec == Init /\ [][Next]_vars

----------------------------------------------------------------------------
(* Properties *)

(* Every row and every in-flight request has the shape its handler gives it. *)
TypeOK ==
    /\ accounts \in [Accounts -> {"none", "active", "deleted"}]
    /\ rows \in [Rows -> Row]
    /\ assets \in [Assets -> Asset]
    /\ DOMAIN forms \subseteq Forms
    /\ \A f \in DOMAIN forms : forms[f] \in CampSubmission
    /\ reqs \in [Requests -> Request]

(* A picture on a user or a player profile is there: however uploads,      *)
(* removals and erasures of one row overlap, none discards the file that   *)
(* another one's row points at.                                            *)
PhotosAreStored ==
    \A x \in Rows : Kind[x] # "org" /\ rows[x].picture # None =>
      assets[rows[x].picture].state = "stored"

(* The same of an organisation's logo.                                     *)
LogosAreStored ==
    \A x \in Rows : Kind[x] = "org" /\ rows[x].picture # None =>
      assets[rows[x].picture].state = "stored"

(* What a row holds that an erasure has to clear, apart from a skill level *)
(* that a trainer has set since.                                           *)
Personal(x) == rows[x].text \/ rows[x].picture # None \/ rows[x].skill = "set"

(* An erasure reaches all that is the account's, the skill level included; *)
(* what is there afterwards was written by a request that had begun        *)
(* before, or by an administrator.  No session and no token of the account *)
(* brings anything back, trainers nothing but a skill level, and a child   *)
(* only by a login given to it while its parent was being erased.          *)
ErasedIsBlank ==
    /\ \A x \in Rows : Gone(x) /\ Personal(x) => rows[x].late
    /\ \A f \in DOMAIN forms : Addressee[f] \in Erased /\ forms[f].personal => forms[f].late

(* A scrubbed form stays scrubbed, and its pre-fill cannot be fetched      *)
(* again.                                                                  *)
ScrubbedStaysScrubbed ==
    \A f \in DOMAIN forms : Addressee[f] \in Erased => ~forms[f].personal

(* A file is pointed at by its own row only, and a self profile has none.  *)
PicturesOK ==
    \A x \in Rows : rows[x].picture # None =>
      /\ assets[rows[x].picture].home = x
      /\ assets[rows[x].picture].state # "unused"
      /\ Kind[x] # "self"

(* No photo's row points any more at what a request is discarding.         *)
DiscardsOK ==
    \A r \in Requests : \A n \in reqs[r].doomed :
      /\ assets[n].state # "unused"
      /\ At(r, "discard") => \A x \in Rows : Kind[x] # "org" => rows[x].picture # n

(* An upload on its way to its row is in nobody else's hands.              *)
UploadsOK ==
    \A r \in Requests : At(r, "persist") /\ reqs[r].upload # None =>
      LET n == reqs[r].upload IN
      /\ assets[n] = [state |-> "stored", home |-> reqs[r].row]
      /\ \A x \in Rows : rows[x].picture # n
      /\ \A s \in Requests :
           /\ n \notin reqs[s].doomed
           /\ reqs[s].seen.picture # n
           /\ s # r /\ At(s, "persist") => reqs[s].upload # n

(* What a handler may assume about its locals at each of its awaits.       *)
LocalsOK(r) ==
    LET q == reqs[r] IN
    /\ q.seen.picture # None =>
         /\ assets[q.seen.picture].home = q.row
         /\ assets[q.seen.picture].state # "unused"
         /\ Kind[q.row] # "self"
    /\ q.pc \in {"edit", "color", "upload", "persist"} => q.row # None /\ ~q.after
    /\ q.pc = "skill" => q.row # None
    /\ q.pc = "createLogin" => q.row # None /\ Login[q.row] # None
    /\ q.pc = "color" => Kind[q.row] = "org"
    /\ q.pc \in {"upload", "persist"} => Kind[q.row] # "self"
    /\ q.pc = "erase" =>
         /\ q.target # None /\ \A b \in q.logins : IsChild(b)
         /\ \A n \in q.doomed : assets[n].home \in Swept(q.target, {q.target})
    /\ q.pc \in {"register", "convert", "send"} =>
         /\ q.form \in DOMAIN forms /\ q.submission \in CampSubmission
         /\ q.after => Addressee[q.form] \in Erased /\ (q.submission.personal => q.submission.late)

(* The inductive invariant behind the theorems of PersonalDataProofs.      *)
IInv ==
    /\ TypeOK
    /\ PhotosAreStored
    /\ ErasedIsBlank
    /\ PicturesOK
    /\ DiscardsOK
    /\ UploadsOK
    /\ \A r \in Requests : LocalsOK(r)
=============================================================================
