------------------------------ MODULE CoachHiring ------------------------------
(***************************************************************************)
(* How a trainer hires and loses coaches: invitations (share_links of type *)
(* coach_unique), their acceptance, engagements (coach_profiles), profile  *)
(* edits, off-boarding and what an erasure does to both tables.            *)
(*                                                                         *)
(* A request is a process and each await on the database a step.  A        *)
(* transaction whose statements nobody can come between is one step; the   *)
(* one of accept is not, since it reads accounts and engagements while it  *)
(* holds only the lock of the invitation, so it takes several, writes all  *)
(* at its commit, and Locked says which invitations it holds.  Mail, audit *)
(* rows, the sweep of an off-boarded coach's sessions (AuthSessions) and   *)
(* calls refused before they write anything are left out.                  *)
(***************************************************************************)
EXTENDS Naturals, FiniteSets

CONSTANTS
    Trainers,       \* trainer profiles
    Emails,         \* addresses
    LinkIds,        \* primary keys, and codes, of the coach invitations
    UserIds,        \* primary keys of users
    EngagementIds,  \* primary keys of coach_profiles
    Requests,       \* requests in flight together
    None,           \* SQL NULL, or a local not yet assigned
    Endpoints       \* the endpoints called in this instance

Ops == {"invite", "resend", "revoke", "accept", "offboard", "edit", "adminEdit",
        "erase", "register"}

ASSUME NoneAssumption ==
    None \notin Trainers \cup Emails \cup LinkIds \cup UserIds \cup EngagementIds

ASSUME EndpointsAssumption ==
    Endpoints \subseteq Ops

VARIABLES
    accounts,       \* users: existing id -> row
    links,          \* share_links: existing id -> row
    engagements,    \* coach_profiles: existing id -> row
    reqs            \* the requests in flight and their local variables

vars == <<accounts, links, engagements, reqs>>

----------------------------------------------------------------------------
Nullable(S) == S \cup {None}

(* email None is what erasure leaves.                                      *)
Account == [email: Nullable(Emails), role: {"coach", "other"}]

(* lapsed: expires_at has passed.  max_uses is 1.                          *)
ShareLink == [trainer: Trainers, email: Nullable(Emails), active: BOOLEAN,
              lapsed: BOOLEAN, uses: Nat]

(* personal: any of bio, credentials and certifications is set.  ended_at  *)
(* is set exactly when status is Inactive.  via is no column: it remembers *)
(* the invitation that was accepted.                                       *)
CoachProfile == [user: UserIds, trainer: Trainers, status: {"Active", "Inactive"},
                 personal: BOOLEAN, via: LinkIds]

PCs == {"idle", "replace", "revoke", "findAccount", "checkActive", "hire", "createCoach",
        "offboard", "readProfile", "saveProfile"}

(* The locals: the invitation, account and engagement at hand, the address *)
(* resend read, and the engagement entity an edit will save.               *)
Request == [pc: PCs, link: Nullable(LinkIds), user: Nullable(UserIds),
            engagement: Nullable(EngagementIds), email: Nullable(Emails),
            seen: Nullable(CoachProfile)]

Idle == [pc |-> "idle", link |-> None, user |-> None, engagement |-> None, email |-> None,
         seen |-> None]

At(r, pc) == reqs[r].pc = pc

Begin(r, op, q) == At(r, "idle") /\ op \in Endpoints /\ reqs' = [reqs EXCEPT ![r] = q]

SetPc(r, pc) == reqs' = [reqs EXCEPT ![r].pc = pc]

Finish(r) == reqs' = [reqs EXCEPT ![r] = Idle]

Insert(table, key, row) ==
    [k \in DOMAIN table \cup {key} |-> IF k = key THEN row ELSE table[k]]

Holders(e) == {u \in DOMAIN accounts : accounts[u].email = e}

ActiveOf(u) ==
    {e \in DOMAIN engagements : engagements[e].user = u /\ engagements[e].status = "Active"}

Accepting(r) == reqs[r].pc \in {"findAccount", "checkActive", "hire", "createCoach"}

(* SELECT ... FOR UPDATE: whoever wants to write the row waits.            *)
Locked(l) == \E r \in Requests : Accepting(r) /\ reqs[r].link = l

----------------------------------------------------------------------------
(* invite, resendInvitation, revokeInvitation *)

NewLink(t, e) == [trainer |-> t, email |-> e, active |-> TRUE, lapsed |-> FALSE, uses |-> 0]

Invite(t, e) ==
    /\ "invite" \in Endpoints
    /\ \E l \in LinkIds \ DOMAIN links : links' = Insert(links, l, NewLink(t, e))
    /\ UNCHANGED <<accounts, engagements, reqs>>

(* A revoked or lapsed invitation may be sent again, an accepted one or    *)
(* one without an address may not.                                         *)
StartResend(r, l) ==
    /\ links[l].uses = 0
    /\ links[l].email # None
    /\ DOMAIN links # LinkIds                                      \* bound
    /\ Begin(r, "resend", [Idle EXCEPT !.pc = "replace", !.link = l, !.email = links[l].email])
    /\ UNCHANGED <<accounts, links, engagements>>

(* The transaction: the old invitation is retired and a new one addressed  *)
(* to whom the old one was addressed when it was read.                     *)
Replace(r) ==
    LET l == reqs[r].link IN
    /\ At(r, "replace")
    /\ ~Locked(l)
    /\ \/ \E n \in LinkIds \ DOMAIN links :
            links' = Insert([links EXCEPT ![l].active = FALSE], n,
                            NewLink(links[l].trainer, reqs[r].email))
       \/ DOMAIN links = LinkIds /\ UNCHANGED links                \* bound
    /\ Finish(r)
    /\ UNCHANGED <<accounts, engagements>>

StartRevoke(r, l) ==
    /\ links[l].uses = 0
    /\ Begin(r, "revoke", [Idle EXCEPT !.pc = "revoke", !.link = l])
    /\ UNCHANGED <<accounts, links, engagements>>

(* Mutant: the update does not wait for the lock of an acceptance. *)
RevokeUnlocked(r) ==
    /\ At(r, "revoke")
    /\ links' = [links EXCEPT ![reqs[r].link].active = FALSE]
    /\ Finish(r)
    /\ UNCHANGED <<accounts, engagements>>

Revoke(r) ==
    /\ At(r, "revoke")
    /\ ~Locked(reqs[r].link)
    /\ links' = [links EXCEPT ![reqs[r].link].active = FALSE]
    /\ Finish(r)
    /\ UNCHANGED <<accounts, engagements>>

----------------------------------------------------------------------------
(* accept *)

Usable(l) == links[l].active /\ ~links[l].lapsed /\ links[l].uses < 1

(* Mutant: the invitation is read without FOR UPDATE. *)
LockForRedemptionUnlocked(r, l) ==
    /\ Usable(l)
    /\ links[l].email # None
    /\ Begin(r, "accept", [Idle EXCEPT !.pc = "findAccount", !.link = l])
    /\ UNCHANGED <<accounts, links, engagements>>

LockForRedemption(r, l) ==
    /\ ~Locked(l)
    /\ Usable(l)
    /\ links[l].email # None
    /\ Begin(r, "accept", [Idle EXCEPT !.pc = "findAccount", !.link = l])
    /\ UNCHANGED <<accounts, links, engagements>>

(* Mutant: any account can be made a coach's. *)
FindAccountAnyRole(r) ==
    LET found == Holders(links[reqs[r].link].email) IN
    /\ At(r, "findAccount")
    /\ \/ found = {} /\ SetPc(r, "createCoach")
       \/ \E u \in found : reqs' = [reqs EXCEPT ![r].pc = "checkActive", ![r].user = u]
    /\ UNCHANGED <<accounts, links, engagements>>

(* An account that is not a coach's rolls the acceptance back.             *)
FindAccount(r) ==
    LET found == Holders(links[reqs[r].link].email) IN
    /\ At(r, "findAccount")
    /\ \/ found = {} /\ SetPc(r, "createCoach")
       \/ \E u \in found :
            IF accounts[u].role = "coach"
            THEN reqs' = [reqs EXCEPT ![r].pc = "checkActive", ![r].user = u]
            ELSE Finish(r)
    /\ UNCHANGED <<accounts, links, engagements>>

(* assertNotActiveElsewhere. *)
CheckActive(r) ==
    /\ At(r, "checkActive")
    /\ IF ActiveOf(reqs[r].user) = {} THEN SetPc(r, "hire") ELSE Finish(r)
    /\ UNCHANGED <<accounts, links, engagements>>

NewProfile(l, u) ==
    [user |-> u, trainer |-> links[l].trainer, status |-> "Active", personal |-> FALSE, via |-> l]

(* startEngagement and incrementUse. *)
Engage(l, u) ==
    \E e \in EngagementIds \ DOMAIN engagements :
      /\ engagements' = Insert(engagements, e, NewProfile(l, u))
      /\ links' = [links EXCEPT ![l].uses = @ + 1]

(* Mutant: no partial unique index on the active rows. *)
HireNoIndex(r) ==
    /\ At(r, "hire")
    /\ Engage(reqs[r].link, reqs[r].user)
    /\ Finish(r)
    /\ UNCHANGED accounts

(* uq_coach_profiles_active_user_id rolls a second hire back.              *)
Hire(r) ==
    /\ At(r, "hire")
    /\ \/ ActiveOf(reqs[r].user) = {} /\ Engage(reqs[r].link, reqs[r].user)
       \/ ActiveOf(reqs[r].user) # {} /\ UNCHANGED <<links, engagements>>
       \/ DOMAIN engagements = EngagementIds /\ UNCHANGED <<links, engagements>>   \* bound
    /\ Finish(r)
    /\ UNCHANGED accounts

(* createUnverifiedAccount with the engagement; uq_users_email rolls them  *)
(* back when the address was taken since.                                  *)
CreateCoach(r) ==
    LET l == reqs[r].link
        taken == Holders(links[l].email) # {} IN
    /\ At(r, "createCoach")
    /\ \/ /\ ~taken
          /\ \E u \in UserIds \ DOMAIN accounts :
               /\ accounts' = Insert(accounts, u, [email |-> links[l].email, role |-> "coach"])
               /\ Engage(l, u)
       \/ taken /\ UNCHANGED <<accounts, links, engagements>>
       \/ /\ DOMAIN accounts = UserIds \/ DOMAIN engagements = EngagementIds       \* bound
          /\ UNCHANGED <<accounts, links, engagements>>
    /\ Finish(r)

----------------------------------------------------------------------------
(* offboardCoach, updateOwnProfile, adminUpdateProfile *)

StartOffboard(r, e) ==
    /\ engagements[e].status = "Active"
    /\ Begin(r, "offboard", [Idle EXCEPT !.pc = "offboard", !.engagement = e])
    /\ UNCHANGED <<accounts, links, engagements>>

Offboard(r) ==
    /\ At(r, "offboard")
    /\ engagements' = [engagements EXCEPT ![reqs[r].engagement].status = "Inactive"]
    /\ Finish(r)
    /\ UNCHANGED <<accounts, links>>

(* The session validator takes the coach's engagement from its active row; *)
(* the handler then reads that row again.                                  *)
StartEdit(r, e) ==
    /\ engagements[e].status = "Active"
    /\ Begin(r, "edit", [Idle EXCEPT !.pc = "readProfile", !.engagement = e])
    /\ UNCHANGED <<accounts, links, engagements>>

ReadProfile(r) ==
    /\ At(r, "readProfile")
    /\ reqs' = [reqs EXCEPT ![r].pc = "saveProfile",
                            ![r].seen = engagements[reqs[r].engagement]]
    /\ UNCHANGED <<accounts, links, engagements>>

(* The administrator's edit looks for the active row itself.               *)
StartAdminEdit(r, e) ==
    /\ engagements[e].status = "Active"
    /\ Begin(r, "adminEdit", [Idle EXCEPT !.pc = "saveProfile", !.engagement = e,
                                          !.seen = engagements[e]])
    /\ UNCHANGED <<accounts, links, engagements>>

(* Mutant: an entity read before the off-boarding is saved past the index. *)
SaveProfileNoIndex(r) ==
    /\ At(r, "saveProfile")
    /\ \E personal \in BOOLEAN :
         engagements' = [engagements EXCEPT
                           ![reqs[r].engagement] = [reqs[r].seen EXCEPT !.personal = personal]]
    /\ Finish(r)
    /\ UNCHANGED <<accounts, links>>

(* coaches.save of the entity read before: every column that differs is    *)
(* written, status and ended_at too; the unique index may refuse it.       *)
SaveProfile(r) ==
    LET q == reqs[r]
        refused == q.seen.status = "Active" /\ ActiveOf(q.seen.user) \ {q.engagement} # {} IN
    /\ At(r, "saveProfile")
    /\ \/ /\ ~refused
          /\ \E personal \in BOOLEAN :
               engagements' = [engagements EXCEPT
                                 ![q.engagement] = [q.seen EXCEPT !.personal = personal]]
       \/ refused /\ UNCHANGED engagements
    /\ Finish(r)
    /\ UNCHANGED <<accounts, links>>

----------------------------------------------------------------------------
(* deleteUser, as far as these tables go *)

AnonymizeByUserId(u) ==
    engagements' = [e \in DOMAIN engagements |->
                      IF engagements[e].user = u
                      THEN [engagements[e] EXCEPT !.personal = FALSE, !.status = "Inactive"]
                      ELSE engagements[e]]

ScrubTargetEmail(e) ==
    links' = [l \in DOMAIN links |->
                IF links[l].email = e
                THEN [links[l] EXCEPT !.email = None, !.active = FALSE]
                ELSE links[l]]

(* Mutant: the sweep of the invitations does not wait for an acceptance. *)
EraseUnlocked(u) ==
    LET e == accounts[u].email IN
    /\ "erase" \in Endpoints
    /\ e # None
    /\ accounts' = [accounts EXCEPT ![u].email = None]
    /\ AnonymizeByUserId(u)
    /\ ScrubTargetEmail(e)
    /\ UNCHANGED reqs

(* One transaction.  Its update of the account keeps out a hire (whose     *)
(* foreign key needs the row) and its sweep waits for the invitations'     *)
(* locks: an acceptance for this address comes before all of it, or fails  *)
(* with it in a deadlock (Fail), or after.                                 *)
Erase(u) ==
    LET e == accounts[u].email IN
    /\ "erase" \in Endpoints
    /\ e # None
    /\ \A l \in DOMAIN links : links[l].email = e => ~Locked(l)
    /\ accounts' = [accounts EXCEPT ![u].email = None]
    /\ AnonymizeByUserId(u)
    /\ ScrubTargetEmail(e)
    /\ UNCHANGED reqs

----------------------------------------------------------------------------
(* Somebody signs up with the address before the invitation is accepted.   *)
Register(e) ==
    /\ "register" \in Endpoints
    /\ Holders(e) = {}
    /\ \E u \in UserIds \ DOMAIN accounts :
         accounts' = Insert(accounts, u, [email |-> e, role |-> "other"])
    /\ UNCHANGED <<links, engagements, reqs>>

Lapse(l) ==
    /\ ~links[l].lapsed
    /\ links' = [links EXCEPT ![l].lapsed = TRUE]
    /\ UNCHANGED <<accounts, engagements, reqs>>

(* The process or the connection dies, or the database picks the           *)
(* transaction to break a deadlock: nothing uncommitted stays.             *)
Fail(r) ==
    /\ ~At(r, "idle")
    /\ Finish(r)
    /\ UNCHANGED <<accounts, links, engagements>>

Init ==
    /\ accounts = [u \in {} |-> None]
    /\ links = [l \in {} |-> None]
    /\ engagements = [e \in {} |-> None]
    /\ reqs = [r \in Requests |-> Idle]

StartRequest(r) ==
    \/ \E l \in DOMAIN links : StartResend(r, l) \/ StartRevoke(r, l) \/ LockForRedemption(r, l)
    \/ \E e \in DOMAIN engagements :
         StartOffboard(r, e) \/ StartEdit(r, e) \/ StartAdminEdit(r, e)

Continue(r) ==
    \/ Replace(r) \/ Revoke(r) \/ FindAccount(r) \/ CheckActive(r) \/ Hire(r)
    \/ CreateCoach(r) \/ Offboard(r) \/ ReadProfile(r) \/ SaveProfile(r)

Next ==
    \/ \E t \in Trainers, e \in Emails : Invite(t, e)
    \/ \E e \in Emails : Register(e)
    \/ \E u \in DOMAIN accounts : Erase(u)
    \/ \E l \in DOMAIN links : Lapse(l)
    \/ \E r \in Requests : StartRequest(r) \/ Continue(r) \/ Fail(r)

Spec == Init /\ [][Next]_vars

----------------------------------------------------------------------------
(* Properties *)

(* Every row and every in-flight request has the shape its handler gives it. *)
TypeOK ==
    /\ DOMAIN accounts \subseteq UserIds
    /\ \A u \in DOMAIN accounts : accounts[u] \in Account
    /\ DOMAIN links \subseteq LinkIds
    /\ \A l \in DOMAIN links : links[l] \in ShareLink
    /\ DOMAIN engagements \subseteq EngagementIds
    /\ \A e \in DOMAIN engagements : engagements[e] \in CoachProfile
    /\ reqs \in [Requests -> Request]

(* A coach works for one trainer at a time, whatever trainers hire at once *)
(* and whatever stale profile is saved over an off-boarded engagement.     *)
OneActiveEngagement ==
    \A e, f \in DOMAIN engagements :
      /\ engagements[e].status = "Active" /\ engagements[f].status = "Active"
      /\ engagements[e].user = engagements[f].user
      => e = f

(* An invitation hires once: the row lock makes its single use single, and *)
(* each engagement is with the trainer whose invitation was spent for it.  *)
AcceptedOnce ==
    /\ \A l \in DOMAIN links : links[l].uses <= 1
    /\ \A e \in DOMAIN engagements :
         LET l == engagements[e].via IN
         /\ l \in DOMAIN links /\ links[l].uses = 1
         /\ engagements[e].trainer = links[l].trainer
    /\ \A e, f \in DOMAIN engagements : engagements[e].via = engagements[f].via => e = f

(* Whoever is hired holds the very address a live invitation names at the  *)
(* moment of the hire, with a coach's account: no revocation, erasure or   *)
(* signup slips in between the checks of accept and its commit.            *)
HiresAreInvited ==
    [][\A e \in DOMAIN engagements' \ DOMAIN engagements :
         LET l == links[engagements'[e].via]
             u == accounts'[engagements'[e].user] IN
         l.active /\ l.email # None /\ u.email = l.email /\ u.role = "coach"]_vars

(* GDPR erasure off-boards every active row, so an erased coach stops      *)
(* appearing in rosters.                                                   *)
ErasedLeavesRoster ==
    \A e \in DOMAIN engagements :
      accounts[engagements[e].user].email = None => engagements[e].status = "Inactive"

(* What a handler may assume about its locals at each of its awaits.       *)
LocalsOK(r) ==
    LET q == reqs[r] IN
    /\ q.pc \in {"replace", "revoke"} \/ Accepting(r) => q.link \in DOMAIN links
    /\ q.pc = "replace" => q.email \in Emails
    /\ q.pc \in {"offboard", "readProfile", "saveProfile"} => q.engagement \in DOMAIN engagements
    /\ q.pc = "saveProfile" =>
         LET e == engagements[q.engagement] IN
         /\ q.seen \in CoachProfile
         /\ q.seen.user = e.user /\ q.seen.trainer = e.trainer /\ q.seen.via = e.via
    /\ Accepting(r) =>
         links[q.link].active /\ links[q.link].uses = 0 /\ links[q.link].email # None
    /\ q.pc \in {"checkActive", "hire"} =>
         /\ q.user \in DOMAIN accounts
         /\ accounts[q.user].email = links[q.link].email
         /\ accounts[q.user].role = "coach"

(* The row lock: two acceptances never hold one invitation.                *)
LocksExclusive ==
    \A r, s \in Requests :
      Accepting(r) /\ Accepting(s) /\ reqs[r].link = reqs[s].link => r = s

(* Without profile edits, nothing brings an erased coach back. *)
NoEdits == Endpoints \cap {"edit", "adminEdit"} = {}

NoEditsInFlight == \A r \in Requests : reqs[r].pc \notin {"readProfile", "saveProfile"}

(* The inductive invariant behind the theorems of CoachHiringProofs.       *)
IInv ==
    /\ TypeOK
    /\ OneActiveEngagement
    /\ AcceptedOnce
    /\ \A e \in DOMAIN engagements : engagements[e].user \in DOMAIN accounts
    /\ LocksExclusive
    /\ \A r \in Requests : LocalsOK(r)
    /\ NoEdits => NoEditsInFlight /\ ErasedLeavesRoster
=============================================================================
