------------------------------ MODULE Enrollment ------------------------------
(***************************************************************************)
(* How families come to trainers and leave them: player share links and    *)
(* their redemption, associations between a trainer and a player profile,  *)
(* the children of a family, and the context (a profile with a trainer)    *)
(* that a signed-in session looks through.                                 *)
(*                                                                         *)
(* A request is a process and each await on the database a step.  A        *)
(* redemption's transaction takes several, for only its link is locked     *)
(* while it reads associations: it writes all at its commit.  Names,       *)
(* ages, skill levels, mail, audit rows and the use count of a player link *)
(* (which has no limit and never expires) are left out, and so are calls   *)
(* refused before they read anything that can change.                      *)
(***************************************************************************)
EXTENDS FiniteSets

CONSTANTS
    Accounts,       \* parent or player accounts, each with its address
    OldAccounts,    \* those made before registration made a player profile
    Trainers,       \* trainer profiles
    ProfileIds,     \* primary keys of player_profiles
    LinkIds,        \* primary keys, and codes, of share_links
    Requests,       \* requests in flight together
    None,           \* SQL NULL, or a local not yet assigned
    Endpoints       \* the endpoints called in this instance

Ops == {"createLink", "register", "joinRegister", "join", "addByCode", "addExisting",
        "createChild", "remove", "rosterRemove", "switch", "clear", "refresh"}

ASSUME NoneAssumption ==
    /\ None \notin Accounts \cup Trainers \cup ProfileIds \cup LinkIds
    /\ None \notin Trainers \X ProfileIds

ASSUME AccountsAssumption ==
    /\ OldAccounts \subseteq Accounts
    /\ Accounts \cap ProfileIds = {}

ASSUME EndpointsAssumption ==
    Endpoints \subseteq Ops

VARIABLES
    profiles,       \* player_profiles: existing id -> row
    links,          \* share_links: existing id -> row
    assocs,         \* trainer_player_associations: existing pair -> row
    contexts,       \* auth_sessions: the active context of each login's session
    reqs            \* the requests in flight and their local variables

vars == <<profiles, links, assocs, contexts, reqs>>

----------------------------------------------------------------------------
Nullable(S) == S \cup {None}

Pairs == Trainers \X ProfileIds

(* An account signs in as itself, a child with the login of its profile.   *)
(* One session each is a bound.                                            *)
Viewers == Accounts \cup ProfileIds

(* via is no column: it remembers the link whose redemption made the       *)
(* profile.                                                                *)
PlayerProfile == [owner: Accounts, child: BOOLEAN, via: Nullable(LinkIds)]

ShareLink == [trainer: Trainers, type: {"player", "coach"}]

(* uq_trainer_player: one row to a pair.  born is no column: it is the     *)
(* link the row was first inserted with.                                   *)
Association == [active: BOOLEAN, link: Nullable(LinkIds), born: Nullable(LinkIds)]

ASSUME RowAssumption ==
    None \notin Association

PCs == {"idle", "selfProfile", "find", "commit", "findEmail", "createAccount", "createChild",
        "findRemoval", "deactivate", "clear", "switch", "saveSession"}

(* The locals: whose request it is, the trainer and link at hand, the      *)
(* trainers a child is to get, the profiles still to look up and the rows  *)
(* found for the others, whether a self profile is to be made, the pair    *)
(* being removed or chosen, and the context a refresh read.                *)
Request == [pc: PCs, viewer: Nullable(Viewers), trainer: Nullable(Trainers),
            link: Nullable(LinkIds), trainers: SUBSET Trainers, todo: SUBSET ProfileIds,
            seen: UNION {[S -> Nullable(Association)] : S \in SUBSET ProfileIds},
            fresh: BOOLEAN, pair: Nullable(Pairs), context: Nullable(Pairs)]

Nothing == [p \in {} |-> None]

Idle == [pc |-> "idle", viewer |-> None, trainer |-> None, link |-> None, trainers |-> {},
         todo |-> {}, seen |-> Nothing, fresh |-> FALSE, pair |-> None, context |-> None]

At(r, pc) == reqs[r].pc = pc

Begin(r, op, q) == At(r, "idle") /\ op \in Endpoints /\ reqs' = [reqs EXCEPT ![r] = q]

SetPc(r, pc) == reqs' = [reqs EXCEPT ![r].pc = pc]

Finish(r) == reqs' = [reqs EXCEPT ![r] = Idle]

Insert(table, key, row) ==
    [k \in DOMAIN table \cup {key} |-> IF k = key THEN row ELSE table[k]]

Owned(a) == {p \in DOMAIN profiles : profiles[p].owner = a}

SelfProfiles(a) == {p \in Owned(a) : ~profiles[p].child}

Registered(a) == a \in OldAccounts \/ SelfProfiles(a) # {}

(* parentTrainerProfileIds.                                                *)
FamilyTrainers(a) ==
    {t \in Trainers : \E p \in Owned(a) : <<t, p>> \in DOMAIN assocs /\ assocs[<<t, p>>].active}

----------------------------------------------------------------------------
(* Links.  createForTrainer makes player links; coach invitations share    *)
(* the table and are otherwise CoachHiring's.                              *)
CreateLink(t, type) ==
    /\ "createLink" \in Endpoints
    /\ \E l \in LinkIds \ DOMAIN links :
         links' = Insert(links, l, [trainer |-> t, type |-> type])
    /\ UNCHANGED <<profiles, assocs, contexts, reqs>>

Redeeming(r) ==
    /\ reqs[r].pc \in {"selfProfile", "find", "commit", "findEmail", "createAccount"}
    /\ reqs[r].link # None

(* lockForRedemption: SELECT ... FOR UPDATE, then the type is checked.     *)
Locked(l) == \E r \in Requests : Redeeming(r) /\ reqs[r].link = l

(* Mutant: any code can be redeemed. *)
LockForRedemptionAnyType(l) == l \in DOMAIN links /\ ~Locked(l)

(* Mutant: the link is read without FOR UPDATE. *)
LockForRedemptionUnlocked(l) == l \in DOMAIN links /\ links[l].type = "player"

LockForRedemption(l) == l \in DOMAIN links /\ ~Locked(l) /\ links[l].type = "player"

----------------------------------------------------------------------------
(* register, without a link: the account comes with its self profile.      *)
Register(a) ==
    /\ "register" \in Endpoints
    /\ ~Registered(a)
    /\ \E p \in ProfileIds \ DOMAIN profiles :
         profiles' = Insert(profiles, p, [owner |-> a, child |-> FALSE, via |-> None])
    /\ UNCHANGED <<links, assocs, contexts, reqs>>

(* registerViaShareLink *)
StartJoinRegister(r, a, l) ==
    /\ LockForRedemption(l)
    /\ Begin(r, "joinRegister", [Idle EXCEPT !.pc = "findEmail", !.viewer = a, !.link = l,
                                             !.trainer = links[l].trainer])
    /\ UNCHANGED <<profiles, links, assocs, contexts>>

FindEmail(r) ==
    /\ At(r, "findEmail")
    /\ IF Registered(reqs[r].viewer) THEN Finish(r) ELSE SetPc(r, "createAccount")
    /\ UNCHANGED <<profiles, links, assocs, contexts>>

NewAssociation(l) == [active |-> TRUE, link |-> l, born |-> l]

(* A self profile of a, made by the redemption of l, joins t.              *)
JoinNewProfile(a, t, l) ==
    \E p \in ProfileIds \ DOMAIN profiles :
      /\ profiles' = Insert(profiles, p, [owner |-> a, child |-> FALSE, via |-> l])
      /\ assocs' = Insert(assocs, <<t, p>>, NewAssociation(l))

(* uq_users_email rolls the transaction back when the address is taken.    *)
CreateAccount(r) ==
    LET q == reqs[r] IN
    /\ At(r, "createAccount")
    /\ \/ ~Registered(q.viewer) /\ JoinNewProfile(q.viewer, q.trainer, q.link)
       \/ Registered(q.viewer) /\ UNCHANGED <<profiles, assocs>>
       \/ DOMAIN profiles = ProfileIds /\ UNCHANGED <<profiles, assocs>>           \* bound
    /\ Finish(r)
    /\ UNCHANGED <<links, contexts>>

----------------------------------------------------------------------------
(* joinAsExistingPlayer, addTrainerByCode, addTrainerFromExisting *)

(* Ownership of a profile never changes, so reading it and taking the lock *)
(* are one step.                                                           *)
Redeem(r, op, a, ps, l) ==
    /\ Registered(a)
    /\ ps \subseteq Owned(a)
    /\ LockForRedemption(l)
    /\ Begin(r, op, [Idle EXCEPT !.pc = IF ps = {} THEN "selfProfile" ELSE "find",
                                 !.viewer = a, !.link = l, !.trainer = links[l].trainer,
                                 !.todo = ps])
    /\ UNCHANGED <<profiles, links, assocs, contexts>>

StartJoin(r, a, ps, l) == Redeem(r, "join", a, ps, l)

StartAddByCode(r, a, p, l) == Redeem(r, "addByCode", a, {p}, l)

(* With no profile selected the caller's own one joins, made if missing.   *)
RequireSelfProfile(r) ==
    LET own == SelfProfiles(reqs[r].viewer) IN
    /\ At(r, "selfProfile")
    /\ \/ \E p \in own : reqs' = [reqs EXCEPT ![r].pc = "find", ![r].todo = {p}]
       \/ own = {} /\ reqs' = [reqs EXCEPT ![r].pc = "commit", ![r].fresh = TRUE]
    /\ UNCHANGED <<profiles, links, assocs, contexts>>

(* Mutant: the caller's own trainers are not looked at. *)
StartAddExistingAnyTrainer(r, a, p, t) ==
    /\ p \in Owned(a)
    /\ Begin(r, "addExisting", [Idle EXCEPT !.pc = "find", !.viewer = a, !.trainer = t,
                                            !.todo = {p}])
    /\ UNCHANGED <<profiles, links, assocs, contexts>>

StartAddExisting(r, a, p, t) ==
    /\ p \in Owned(a)
    /\ t \in FamilyTrainers(a)
    /\ Begin(r, "addExisting", [Idle EXCEPT !.pc = "find", !.viewer = a, !.trainer = t,
                                            !.todo = {p}])
    /\ UNCHANGED <<profiles, links, assocs, contexts>>

(* associate, first half: find.                                            *)
Find(r) ==
    LET q == reqs[r] IN
    /\ At(r, "find")
    /\ \E p \in q.todo :
         LET pair == <<q.trainer, p>>
             row == IF pair \in DOMAIN assocs THEN assocs[pair] ELSE None IN
         reqs' = [reqs EXCEPT ![r].todo = @ \ {p}, ![r].seen = Insert(@, p, row),
                              ![r].pc = IF q.todo = {p} THEN "commit" ELSE @]
    /\ UNCHANGED <<profiles, links, assocs, contexts>>

(* associate, second half: save.  A new row is inserted, an inactive one   *)
(* made active again, through this link if there is one; an active one is  *)
(* left alone.                                                             *)
Associated(l, row) ==
    IF row = None THEN NewAssociation(l)
    ELSE [row EXCEPT !.active = TRUE, !.link = IF l = None THEN @ ELSE l]

Saved(q) == {p \in DOMAIN q.seen : q.seen[p] = None \/ ~q.seen[p].active}

AssociateAll(q) ==
    LET pairs == {<<q.trainer, p>> : p \in Saved(q)} IN
    assocs' = [k \in DOMAIN assocs \cup pairs |->
                 IF k \in pairs THEN Associated(q.link, q.seen[k[2]]) ELSE assocs[k]]

(* uq_trainer_player refuses a pair that was inserted since it was looked  *)
(* for.                                                                    *)
Conflict(q) == \E p \in DOMAIN q.seen : q.seen[p] = None /\ <<q.trainer, p>> \in DOMAIN assocs

Commit(r) ==
    LET q == reqs[r] IN
    /\ At(r, "commit")
    /\ \/ ~q.fresh /\ ~Conflict(q) /\ AssociateAll(q) /\ UNCHANGED profiles
       \/ q.fresh /\ JoinNewProfile(q.viewer, q.trainer, q.link)
       \/ Conflict(q) /\ UNCHANGED <<profiles, assocs>>
       \/ q.fresh /\ DOMAIN profiles = ProfileIds /\ UNCHANGED <<profiles, assocs>>   \* bound
    /\ Finish(r)
    /\ UNCHANGED <<links, contexts>>

----------------------------------------------------------------------------
(* createChild *)

StartCreateChild(r, a, ts) ==
    /\ Registered(a)
    /\ ts \subseteq FamilyTrainers(a)
    /\ DOMAIN profiles # ProfileIds                                   \* bound
    /\ Begin(r, "createChild", [Idle EXCEPT !.pc = "createChild", !.viewer = a, !.trainers = ts])
    /\ UNCHANGED <<profiles, links, assocs, contexts>>

CreateChild(r) ==
    LET q == reqs[r] IN
    /\ At(r, "createChild")
    /\ \/ \E p \in ProfileIds \ DOMAIN profiles :
            LET pairs == {<<t, p>> : t \in q.trainers} IN
            /\ profiles' = Insert(profiles, p, [owner |-> q.viewer, child |-> TRUE, via |-> None])
            /\ assocs' = [k \in DOMAIN assocs \cup pairs |->
                            IF k \in pairs THEN NewAssociation(None) ELSE assocs[k]]
       \/ DOMAIN profiles = ProfileIds /\ UNCHANGED <<profiles, assocs>>           \* bound
    /\ Finish(r)
    /\ UNCHANGED <<links, contexts>>

----------------------------------------------------------------------------
(* removeTrainer by the family, remove by the trainer *)

StartRemove(r, a, p, t) ==
    /\ p \in Owned(a)
    /\ Begin(r, "remove", [Idle EXCEPT !.pc = "findRemoval", !.pair = <<t, p>>])
    /\ UNCHANGED <<profiles, links, assocs, contexts>>

StartRosterRemove(r, t, p) ==
    /\ <<t, p>> \in DOMAIN assocs
    /\ assocs[<<t, p>>].active
    /\ Begin(r, "rosterRemove", [Idle EXCEPT !.pc = "findRemoval", !.pair = <<t, p>>])
    /\ UNCHANGED <<profiles, links, assocs, contexts>>

(* setStatus: find, then a save of the whole entity.                       *)
FindRemoval(r) ==
    LET pair == reqs[r].pair IN
    /\ At(r, "findRemoval")
    /\ IF pair \in DOMAIN assocs
       THEN reqs' = [reqs EXCEPT ![r].pc = "deactivate",
                                 ![r].seen = Insert(Nothing, pair[2], assocs[pair])]
       ELSE Finish(r)
    /\ UNCHANGED <<profiles, links, assocs, contexts>>

Deactivate(r) ==
    LET pair == reqs[r].pair IN
    /\ At(r, "deactivate")
    /\ assocs' = [assocs EXCEPT ![pair] = [reqs[r].seen[pair[2]] EXCEPT !.active = FALSE]]
    /\ SetPc(r, "clear")
    /\ UNCHANGED <<profiles, links, contexts>>

ClearForAssociation(r) ==
    /\ At(r, "clear")
    /\ contexts' = [v \in Viewers |-> IF contexts[v] = reqs[r].pair THEN None ELSE contexts[v]]
    /\ Finish(r)
    /\ UNCHANGED <<profiles, links, assocs>>

----------------------------------------------------------------------------
(* The active context *)

(* switchableProfiles.                                                     *)
Switchable(v) ==
    IF v \in Accounts THEN Owned(v) ELSE {p \in DOMAIN profiles : p = v /\ profiles[p].child}

(* Mutant: a child login may look through its siblings too. *)
StartSwitchFamily(r, v, pair) ==
    /\ pair[2] \in DOMAIN profiles
    /\ \E p \in Switchable(v) : profiles[p].owner = profiles[pair[2]].owner
    /\ assocs[pair].active
    /\ Begin(r, "switch", [Idle EXCEPT !.pc = "switch", !.viewer = v, !.pair = pair])
    /\ UNCHANGED <<profiles, links, assocs, contexts>>

StartSwitch(r, v, pair) ==
    /\ pair[2] \in Switchable(v)
    /\ assocs[pair].active
    /\ Begin(r, "switch", [Idle EXCEPT !.pc = "switch", !.viewer = v, !.pair = pair])
    /\ UNCHANGED <<profiles, links, assocs, contexts>>

Switch(r) ==
    /\ At(r, "switch")
    /\ contexts' = [contexts EXCEPT ![reqs[r].viewer] = reqs[r].pair]
    /\ Finish(r)
    /\ UNCHANGED <<profiles, links, assocs>>

(* clear, and a new session, which has no context.                         *)
ClearContext(v) ==
    /\ "clear" \in Endpoints
    /\ contexts' = [contexts EXCEPT ![v] = None]
    /\ UNCHANGED <<profiles, links, assocs, reqs>>

(* refresh saves the session entity it read, context included.             *)
StartRefresh(r, v) ==
    /\ Begin(r, "refresh", [Idle EXCEPT !.pc = "saveSession", !.viewer = v,
                                        !.context = contexts[v]])
    /\ UNCHANGED <<profiles, links, assocs, contexts>>

SaveSession(r) ==
    /\ At(r, "saveSession")
    /\ contexts' = [contexts EXCEPT ![reqs[r].viewer] = reqs[r].context]
    /\ Finish(r)
    /\ UNCHANGED <<profiles, links, assocs>>

----------------------------------------------------------------------------
(* The process or the connection dies: nothing uncommitted stays.          *)
Fail(r) ==
    /\ ~At(r, "idle")
    /\ Finish(r)
    /\ UNCHANGED <<profiles, links, assocs, contexts>>

Init ==
    /\ profiles = Nothing
    /\ links = [l \in {} |-> None]
    /\ assocs = [k \in {} |-> None]
    /\ contexts = [v \in Viewers |-> None]
    /\ reqs = [r \in Requests |-> Idle]

StartRequest(r) ==
    \/ \E a \in Accounts, l \in LinkIds :
         \/ StartJoinRegister(r, a, l)
         \/ \E ps \in SUBSET Owned(a) : StartJoin(r, a, ps, l)
         \/ \E p \in Owned(a) : StartAddByCode(r, a, p, l)
    \/ \E a \in Accounts, p \in ProfileIds, t \in Trainers :
         StartAddExisting(r, a, p, t) \/ StartRemove(r, a, p, t)
    \/ \E a \in Accounts, ts \in SUBSET Trainers : StartCreateChild(r, a, ts)
    \/ \E t \in Trainers, p \in ProfileIds : StartRosterRemove(r, t, p)
    \/ \E v \in Viewers, pair \in DOMAIN assocs : StartSwitch(r, v, pair)
    \/ \E v \in Viewers : StartRefresh(r, v)

Continue(r) ==
    \/ FindEmail(r) \/ CreateAccount(r) \/ RequireSelfProfile(r) \/ Find(r) \/ Commit(r)
    \/ CreateChild(r) \/ FindRemoval(r) \/ Deactivate(r) \/ ClearForAssociation(r)
    \/ Switch(r) \/ SaveSession(r)

Next ==
    \/ \E t \in Trainers, type \in {"player", "coach"} : CreateLink(t, type)
    \/ \E a \in Accounts : Register(a)
    \/ \E v \in Viewers : ClearContext(v)
    \/ \E r \in Requests : StartRequest(r) \/ Continue(r) \/ Fail(r)

Spec == Init /\ [][Next]_vars

----------------------------------------------------------------------------
(* Properties *)

(* Every row and every in-flight request has the shape its handler gives it. *)
TypeOK ==
    /\ DOMAIN profiles \subseteq ProfileIds
    /\ \A p \in DOMAIN profiles : profiles[p] \in PlayerProfile
    /\ DOMAIN links \subseteq LinkIds
    /\ \A l \in DOMAIN links : links[l] \in ShareLink
    /\ DOMAIN assocs \subseteq Trainers \X DOMAIN profiles
    /\ \A k \in DOMAIN assocs : assocs[k] \in Association
    /\ contexts \in [Viewers -> Nullable(Pairs)]
    /\ reqs \in [Requests -> Request]

PlayerLinkOf(t, l) == l \in DOMAIN links /\ links[l].trainer = t /\ links[l].type = "player"

(* A trainer gets a family only through a player link of its own: wherever *)
(* a profile is or was connected, some profile of that family was joined   *)
(* with such a code, however removals, rejoins, "my trainers" and new      *)
(* children overlap, and whatever stale rows they save.                    *)
FamilyJoinedByCode ==
    \A k \in DOMAIN assocs :
      \E p \in DOMAIN profiles :
        /\ profiles[p].owner = profiles[k[2]].owner
        /\ <<k[1], p>> \in DOMAIN assocs
        /\ PlayerLinkOf(k[1], assocs[<<k[1], p>>].link)

(* There is at most one self profile of an account, as far as the row lock *)
(* reaches: two redemptions of one link never both make one, though they   *)
(* both look before they create.                                           *)
SelfProfilePerLink ==
    \A p, q \in DOMAIN profiles :
      /\ ~profiles[p].child /\ ~profiles[q].child
      /\ profiles[p].owner = profiles[q].owner
      /\ profiles[p].via # None /\ profiles[p].via = profiles[q].via
      => p = q

(* A session looks only through a profile of its own family (a child's     *)
(* only through the child's own) and only at a trainer that profile has    *)
(* joined, also after a refresh saved an old row.                          *)
ContextsWithinFamily ==
    \A v \in Viewers : contexts[v] # None =>
      contexts[v] \in DOMAIN assocs /\ contexts[v][2] \in Switchable(v)

(* A family's first connection to a trainer was made by a code.            *)
Founded(t, a) ==
    \E p \in Owned(a) : <<t, p>> \in DOMAIN assocs /\ assocs[<<t, p>>].born # None

(* The links of a row are player links of its trainer, and a row that was  *)
(* made by a code keeps some code.                                         *)
RowOK(t, row) ==
    /\ row.born # None => PlayerLinkOf(t, row.born) /\ row.link # None
    /\ row.link # None => PlayerLinkOf(t, row.link)

(* A row once read may be stale, but its origin is the row's.              *)
SeenOK(t, seen) ==
    \A p \in DOMAIN seen : seen[p] # None =>
      /\ <<t, p>> \in DOMAIN assocs
      /\ seen[p].born = assocs[<<t, p>>].born
      /\ RowOK(t, seen[p])

MayLookThrough(v, pair) == pair \in DOMAIN assocs /\ pair[2] \in Switchable(v)

(* What a handler may assume about its locals at each of its awaits.       *)
LocalsOK(r) ==
    LET q == reqs[r] IN
    /\ q.pc \in {"selfProfile", "findEmail", "createAccount"} =>
         q.viewer \in Accounts /\ q.link # None
    /\ Redeeming(r) => q.trainer # None /\ PlayerLinkOf(q.trainer, q.link)
    /\ q.pc \in {"find", "commit"} =>
         /\ q.viewer \in Accounts /\ q.trainer # None
         /\ q.todo \cup DOMAIN q.seen \subseteq Owned(q.viewer)
         /\ q.link = None => Founded(q.trainer, q.viewer)
         /\ SeenOK(q.trainer, q.seen)
    /\ q.pc = "find" => ~q.fresh /\ q.todo # {}
    /\ q.pc = "selfProfile" => ~q.fresh /\ q.seen = Nothing /\ q.todo = {}
    /\ q.fresh =>
         /\ q.pc = "commit" /\ q.link # None /\ q.seen = Nothing
         /\ \A p \in SelfProfiles(q.viewer) : profiles[p].via # q.link
    /\ q.pc = "createChild" =>
         q.viewer \in Accounts /\ \A t \in q.trainers : Founded(t, q.viewer)
    /\ q.pc \in {"findRemoval", "clear"} => q.pair # None
    /\ q.pc = "deactivate" =>
         /\ q.pair \in DOMAIN assocs /\ DOMAIN q.seen = {q.pair[2]}
         /\ q.seen[q.pair[2]] # None
         /\ SeenOK(q.pair[1], q.seen)
    /\ q.pc = "switch" => q.viewer # None /\ MayLookThrough(q.viewer, q.pair)
    /\ q.pc = "saveSession" =>
         q.viewer # None /\ (q.context # None => MayLookThrough(q.viewer, q.context))

(* The row lock: two redemptions never hold one link.                      *)
LocksExclusive ==
    \A r, s \in Requests :
      Redeeming(r) /\ Redeeming(s) /\ reqs[r].link = reqs[s].link => r = s

(* The inductive invariant behind the theorems of EnrollmentProofs.        *)
IInv ==
    /\ TypeOK
    /\ \A k \in DOMAIN assocs :
         RowOK(k[1], assocs[k]) /\ Founded(k[1], profiles[k[2]].owner)
    /\ SelfProfilePerLink
    /\ ContextsWithinFamily
    /\ LocksExclusive
    /\ \A r \in Requests : LocalsOK(r)
=============================================================================
