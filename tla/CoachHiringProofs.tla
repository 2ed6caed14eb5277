--------------------------- MODULE CoachHiringProofs ---------------------------
(***************************************************************************)
(* Proofs about CoachHiring, for any trainers, addresses, ids and number   *)
(* of requests in flight.                                                  *)
(*                                                                         *)
(* The tables are written in four ways: invitations change without being   *)
(* spent (LinksWritten), an invitation is spent on a new engagement        *)
(* (Engaged), an engagement is written over (EngagementWritten), a coach   *)
(* is erased (CoachErased).  Each keeps the tables' own invariants and is  *)
(* a RowStep; with the row lock respected, a RowStep keeps what every      *)
(* other request remembers true.                                           *)
(***************************************************************************)
EXTENDS CoachHiring, TLAPS

TablesOK ==
    /\ DOMAIN accounts \subseteq UserIds
    /\ \A u \in DOMAIN accounts : accounts[u] \in Account
    /\ DOMAIN links \subseteq LinkIds
    /\ \A l \in DOMAIN links : links[l] \in ShareLink
    /\ DOMAIN engagements \subseteq EngagementIds
    /\ \A e \in DOMAIN engagements :
         engagements[e] \in CoachProfile /\ engagements[e].user \in DOMAIN accounts
    /\ OneActiveEngagement
    /\ AcceptedOnce
    /\ NoEdits => ErasedLeavesRoster

(* What any step does to the rows: they stay, and keep what never changes. *)
RowStep ==
    /\ \A u \in DOMAIN accounts :
         u \in DOMAIN accounts' /\ accounts'[u].role = accounts[u].role
    /\ \A l \in DOMAIN links : l \in DOMAIN links'
    /\ \A e \in DOMAIN engagements :
         /\ e \in DOMAIN engagements'
         /\ engagements'[e].user = engagements[e].user
         /\ engagements'[e].trainer = engagements[e].trainer
         /\ engagements'[e].via = engagements[e].via

(* The step leaves alone the invitation that s holds locked, and the       *)
(* address of the account s found by it.                                   *)
Respects(s) ==
    LET l == reqs[s].link IN
    /\ Accepting(s) =>
         /\ links'[l].active = links[l].active
         /\ links'[l].uses = links[l].uses
         /\ links'[l].email = links[l].email
    /\ reqs[s].pc \in {"checkActive", "hire"} =>
         accounts'[reqs[s].user].email = accounts[reqs[s].user].email

EditPCs == {"readProfile", "saveProfile"}

LEMMA PartsOfIInv ==
    IInv <=> /\ TablesOK
             /\ reqs \in [Requests -> Request]
             /\ LocksExclusive
             /\ \A r \in Requests : LocalsOK(r)
             /\ NoEdits => NoEditsInFlight
BY DEF IInv, TablesOK, TypeOK

LEMMA IdleRequest == Idle \in Request
BY DEF Idle, Request, PCs, Nullable

LEMMA InitInvariant == Init => IInv
<1> SUFFICES ASSUME Init PROVE IInv
    OBVIOUS
<1>1. /\ DOMAIN accounts = {} /\ DOMAIN links = {} /\ DOMAIN engagements = {}
      /\ \A r \in Requests : reqs[r] = Idle
      /\ reqs \in [Requests -> Request]
    BY IdleRequest DEF Init
<1>2. \A r \in Requests : reqs[r].pc = "idle"
    BY <1>1 DEF Idle
<1>3. TypeOK /\ OneActiveEngagement /\ AcceptedOnce /\ ErasedLeavesRoster
    BY <1>1 DEF TypeOK, OneActiveEngagement, AcceptedOnce, ErasedLeavesRoster
<1>4. LocksExclusive /\ NoEditsInFlight /\ \A r \in Requests : LocalsOK(r)
    BY <1>2 DEF LocksExclusive, NoEditsInFlight, LocalsOK, Accepting
<1> QED
    BY <1>1, <1>3, <1>4 DEF IInv

----------------------------------------------------------------------------
(* The ways the tables are written. *)

(* Steps that leave the tables alone. *)
LEMMA TablesKept ==
    ASSUME TablesOK, UNCHANGED <<accounts, links, engagements>>
    PROVE  TablesOK' /\ RowStep /\ \A s \in Requests : Respects(s)
BY DEF TablesOK, RowStep, Respects, OneActiveEngagement, AcceptedOnce, ErasedLeavesRoster, NoEdits

(* Invitations are added, retired or lapse; none is spent.                 *)
LEMMA LinksWritten ==
    ASSUME TablesOK, UNCHANGED <<accounts, engagements>>,
           DOMAIN links \subseteq DOMAIN links', DOMAIN links' \subseteq LinkIds,
           \A l \in DOMAIN links' : links'[l] \in ShareLink,
           \A l \in DOMAIN links :
             links'[l].trainer = links[l].trainer /\ links'[l].uses = links[l].uses,
           \A l \in DOMAIN links' \ DOMAIN links : links'[l].uses = 0
    PROVE  TablesOK' /\ RowStep
<1>1. AcceptedOnce'
    BY DEF TablesOK, AcceptedOnce
<1>2. OneActiveEngagement' /\ (NoEdits => ErasedLeavesRoster)'
    BY DEF TablesOK, OneActiveEngagement, ErasedLeavesRoster, NoEdits
<1> QED
    BY <1>1, <1>2 DEF TablesOK, RowStep

(* An unspent invitation is spent on an engagement with an account that    *)
(* has an address and no active engagement; the account may be new.        *)
LEMMA Engaged ==
    ASSUME TablesOK, NEW l \in DOMAIN links, links[l].uses = 0, NEW u,
           ActiveOf(u) = {}, Engage(l, u),
           DOMAIN accounts' \subseteq UserIds,
           \A v \in DOMAIN accounts' : accounts'[v] \in Account,
           \A v \in DOMAIN accounts : v \in DOMAIN accounts' /\ accounts'[v] = accounts[v],
           u \in DOMAIN accounts', accounts'[u].email # None
    PROVE  /\ TablesOK' /\ RowStep
           /\ \A k \in DOMAIN links \ {l} : links'[k] = links[k]
           /\ \A e \in DOMAIN engagements' \ DOMAIN engagements :
                engagements'[e].via = l /\ engagements'[e].user = u
<1>1. PICK p \in EngagementIds \ DOMAIN engagements :
        /\ engagements' = Insert(engagements, p, NewProfile(l, u))
        /\ links' = [links EXCEPT ![l].uses = @ + 1]
    BY DEF Engage
<1>2. /\ DOMAIN engagements' = DOMAIN engagements \cup {p}
      /\ \A e \in DOMAIN engagements : engagements'[e] = engagements[e]
      /\ engagements'[p] = NewProfile(l, u)
    BY <1>1 DEF Insert
<1>3. links[l] \in ShareLink
    BY DEF TablesOK
<1>4. /\ DOMAIN links' = DOMAIN links
      /\ \A k \in DOMAIN links \ {l} : links'[k] = links[k]
      /\ links'[l] = [links[l] EXCEPT !.uses = 1]
    BY <1>1, <1>3 DEF ShareLink
<1>5. links'[l] \in ShareLink /\ links'[l].uses = 1 /\ links'[l].trainer = links[l].trainer
    BY <1>3, <1>4 DEF ShareLink
<1>6. /\ engagements'[p].user = u /\ engagements'[p].trainer = links[l].trainer
      /\ engagements'[p].status = "Active" /\ engagements'[p].via = l
      /\ engagements'[p] \in CoachProfile
    BY <1>2, <1>3 DEF NewProfile, CoachProfile, ShareLink, TablesOK
<1>7. OneActiveEngagement'
    BY <1>2, <1>6 DEF TablesOK, OneActiveEngagement, ActiveOf
<1>8. AcceptedOnce'
    <2>1. \A e \in DOMAIN engagements : engagements[e].via # l
        BY DEF TablesOK, AcceptedOnce
    <2>2. \A k \in DOMAIN links' : links'[k].uses <= 1
        <3>1. \A k \in DOMAIN links : links[k].uses <= 1
            BY DEF TablesOK, AcceptedOnce
        <3>2. links'[l].uses <= 1
            BY <1>5
        <3>3. \A k \in DOMAIN links \ {l} : links'[k].uses <= 1
            BY <3>1, <1>4
        <3> QED
            BY <3>2, <3>3, <1>4
    <2>3. \A e \in DOMAIN engagements' :
            LET k == engagements'[e].via IN
            k \in DOMAIN links' /\ links'[k].uses = 1 /\ engagements'[e].trainer = links'[k].trainer
        <3>1. ASSUME NEW e \in DOMAIN engagements
              PROVE  LET k == engagements'[e].via IN
                     /\ k \in DOMAIN links' /\ links'[k].uses = 1
                     /\ engagements'[e].trainer = links'[k].trainer
            <4>1. LET k == engagements[e].via IN
                  /\ k \in DOMAIN links /\ links[k].uses = 1
                  /\ engagements[e].trainer = links[k].trainer
                BY DEF TablesOK, AcceptedOnce
            <4> QED
                BY <2>1, <4>1, <1>2, <1>4
        <3>2. engagements'[p].via = l /\ engagements'[p].trainer = links'[l].trainer
            BY <1>5, <1>6
        <3> QED
            BY <3>1, <3>2, <1>2, <1>4, <1>5
    <2>4. \A e, f \in DOMAIN engagements' : engagements'[e].via = engagements'[f].via => e = f
        BY <2>1, <1>2, <1>6 DEF TablesOK, AcceptedOnce
    <2> QED
        BY <2>2, <2>3, <2>4 DEF AcceptedOnce
<1>9. (NoEdits => ErasedLeavesRoster)'
    BY <1>2, <1>6 DEF TablesOK, NoEdits, ErasedLeavesRoster
<1>10. \A k \in DOMAIN links' : links'[k] \in ShareLink
    BY <1>4, <1>5 DEF TablesOK
<1>11. \A e \in DOMAIN engagements' :
         engagements'[e] \in CoachProfile /\ engagements'[e].user \in DOMAIN accounts'
    BY <1>2, <1>6 DEF TablesOK
<1>12. TablesOK'
    BY <1>2, <1>4, <1>7, <1>8, <1>9, <1>10, <1>11 DEF TablesOK
<1> QED
    BY <1>2, <1>4, <1>6, <1>12 DEF RowStep

(* An engagement is written over with the same parties; active, if it is,  *)
(* as the only one of its coach.                                           *)
LEMMA EngagementWritten ==
    ASSUME TablesOK, UNCHANGED <<accounts, links>>,
           NEW e \in DOMAIN engagements, NEW row \in CoachProfile,
           engagements' = [engagements EXCEPT ![e] = row],
           row.user = engagements[e].user, row.trainer = engagements[e].trainer,
           row.via = engagements[e].via,
           row.status = "Active" => ActiveOf(row.user) \ {e} = {},
           NoEdits => row.status = "Inactive"
    PROVE  TablesOK' /\ RowStep /\ \A s \in Requests : Respects(s)
<1>1. /\ DOMAIN engagements' = DOMAIN engagements /\ engagements'[e] = row
      /\ \A f \in DOMAIN engagements : f # e => engagements'[f] = engagements[f]
    OBVIOUS
<1>2. OneActiveEngagement'
    BY <1>1 DEF TablesOK, OneActiveEngagement, ActiveOf
<1>3. AcceptedOnce'
    BY <1>1 DEF TablesOK, AcceptedOnce
<1>4. (NoEdits => ErasedLeavesRoster)'
    BY <1>1 DEF TablesOK, NoEdits, ErasedLeavesRoster
<1> QED
    BY <1>1, <1>2, <1>3, <1>4 DEF TablesOK, RowStep, Respects

LEMMA CoachErased ==
    ASSUME IInv, NEW u \in DOMAIN accounts, Erase(u)
    PROVE  TablesOK' /\ RowStep /\ \A s \in Requests : Respects(s)
<1> DEFINE e == accounts[u].email
<1>1. /\ TablesOK /\ e # None
      /\ \A l \in DOMAIN links : links[l].email = e => ~Locked(l)
      /\ accounts' = [accounts EXCEPT ![u].email = None]
      /\ AnonymizeByUserId(u) /\ ScrubTargetEmail(e)
    BY PartsOfIInv DEF Erase
<1>2. /\ DOMAIN accounts' = DOMAIN accounts
      /\ \A v \in DOMAIN accounts :
           /\ accounts'[v] \in Account /\ accounts'[v].role = accounts[v].role
           /\ accounts'[v].email = IF v = u THEN None ELSE accounts[v].email
    BY <1>1 DEF TablesOK, Account, Nullable
<1>3. /\ DOMAIN engagements' = DOMAIN engagements
      /\ \A p \in DOMAIN engagements :
           /\ engagements'[p] \in CoachProfile
           /\ engagements'[p].user = engagements[p].user
           /\ engagements'[p].trainer = engagements[p].trainer
           /\ engagements'[p].via = engagements[p].via
           /\ engagements'[p].status =
                IF engagements[p].user = u THEN "Inactive" ELSE engagements[p].status
    <2>1. \A p \in DOMAIN engagements : engagements[p] \in CoachProfile
        BY <1>1 DEF TablesOK
    <2> QED
        BY <1>1, <2>1 DEF AnonymizeByUserId, CoachProfile
<1>4. /\ DOMAIN links' = DOMAIN links
      /\ \A l \in DOMAIN links :
           /\ links'[l] \in ShareLink
           /\ links'[l].trainer = links[l].trainer /\ links'[l].uses = links[l].uses
           /\ links[l].email # e => links'[l] = links[l]
    <2>1. \A l \in DOMAIN links : links[l] \in ShareLink
        BY <1>1 DEF TablesOK
    <2> QED
        BY <1>1, <2>1 DEF ScrubTargetEmail, ShareLink, Nullable
<1>5. OneActiveEngagement'
    BY <1>1, <1>3 DEF TablesOK, OneActiveEngagement
<1>6. AcceptedOnce'
    BY <1>1, <1>3, <1>4 DEF TablesOK, AcceptedOnce
<1>7. (NoEdits => ErasedLeavesRoster)'
    BY <1>1, <1>2, <1>3 DEF TablesOK, NoEdits, ErasedLeavesRoster
<1>8. TablesOK'
    BY <1>1, <1>2, <1>3, <1>4, <1>5, <1>6, <1>7 DEF TablesOK
<1>9. ASSUME NEW s \in Requests PROVE Respects(s)
    <2>1. LocalsOK(s)
        BY PartsOfIInv
    <2>2. CASE ~Accepting(s)
        BY <2>2 DEF Respects, Accepting
    <2>3. CASE Accepting(s)
        <3>1. reqs[s].link \in DOMAIN links /\ Locked(reqs[s].link)
            BY <2>1, <2>3 DEF LocalsOK, Locked
        <3>2. links[reqs[s].link].email # e
            BY <1>1, <3>1
        <3> QED
            BY <1>2, <1>4, <2>1, <3>1, <3>2 DEF Respects, LocalsOK
    <2> QED
        BY <2>2, <2>3
<1> QED
    BY <1>2, <1>3, <1>4, <1>8, <1>9 DEF RowStep

----------------------------------------------------------------------------
(* What a step does to the requests. *)

LEMMA LocalsKept ==
    ASSUME TablesOK, NEW s \in Requests, LocalsOK(s), RowStep, Respects(s), reqs'[s] = reqs[s]
    PROVE  LocalsOK(s)'
BY DEF LocalsOK, RowStep, Respects, Accepting

(* A step of one request keeps the invariant when it keeps its own locals  *)
(* in order, respects the others' locks, and takes only a free one.        *)
LEMMA StepOf ==
    ASSUME IInv, NEW r \in Requests, TablesOK', RowStep,
           NEW q \in Request, reqs' = [reqs EXCEPT ![r] = q], LocalsOK(r)',
           \A s \in Requests \ {r} : Respects(s),
           \/ q.pc \notin {"findAccount", "checkActive", "hire", "createCoach"}
           \/ q.link = reqs[r].link /\ Accepting(r)
           \/ ~Locked(q.link),
           NoEdits => q.pc \notin EditPCs
    PROVE  IInv'
<1>1. /\ TablesOK /\ reqs \in [Requests -> Request] /\ LocksExclusive
      /\ \A s \in Requests : LocalsOK(s)
      /\ NoEdits => NoEditsInFlight
    BY PartsOfIInv
<1>2. /\ reqs' \in [Requests -> Request] /\ reqs'[r] = q
      /\ \A s \in Requests \ {r} : reqs'[s] = reqs[s]
    BY <1>1
<1>3. ASSUME NEW s \in Requests PROVE LocalsOK(s)'
    <2>1. CASE s = r
        BY <2>1
    <2>2. CASE s # r
        BY <2>2, <1>1, <1>2, LocalsKept
    <2> QED
        BY <2>1, <2>2
<1>4. LocksExclusive'
    BY <1>1, <1>2 DEF LocksExclusive, Locked, Accepting
<1>5. (NoEdits => NoEditsInFlight)'
    BY <1>1, <1>2 DEF NoEdits, NoEditsInFlight, EditPCs
<1> QED
    BY <1>2, <1>3, <1>4, <1>5 DEF IInv, TablesOK, TypeOK

(* A step that leaves the requests alone. *)
LEMMA StepOfNone ==
    ASSUME IInv, TablesOK', RowStep, UNCHANGED reqs, \A s \in Requests : Respects(s)
    PROVE  IInv'
<1>1. /\ TablesOK /\ reqs \in [Requests -> Request] /\ LocksExclusive
      /\ \A s \in Requests : LocalsOK(s)
      /\ NoEdits => NoEditsInFlight
    BY PartsOfIInv
<1>2. \A s \in Requests : LocalsOK(s)'
    BY <1>1, LocalsKept
<1>3. LocksExclusive' /\ (NoEdits => NoEditsInFlight)'
    BY <1>1 DEF LocksExclusive, NoEdits, NoEditsInFlight, Accepting
<1> QED
    BY <1>1, <1>2, <1>3 DEF IInv, TablesOK, TypeOK

LEMMA FinishStep ==
    ASSUME IInv, NEW r \in Requests, TablesOK', RowStep, Finish(r),
           \A s \in Requests \ {r} : Respects(s)
    PROVE  IInv'
<1>1. reqs' = [reqs EXCEPT ![r] = Idle] /\ reqs'[r] = Idle /\ Idle \in Request
    BY IdleRequest DEF Finish, IInv, TypeOK
<1>2. Idle.pc = "idle"
    BY DEF Idle
<1>3. LocalsOK(r)'
    BY <1>1, <1>2 DEF LocalsOK, Accepting
<1> QED
    BY <1>1, <1>2, <1>3, StepOf DEF EditPCs

----------------------------------------------------------------------------
(* One lemma per action. *)

LEMMA InviteStep ==
    ASSUME IInv, NEW t \in Trainers, NEW e \in Emails, Invite(t, e)
    PROVE  IInv'
<1>1. TablesOK
    BY PartsOfIInv
<1>2. PICK l \in LinkIds \ DOMAIN links : links' = Insert(links, l, NewLink(t, e))
    BY DEF Invite
<1>3. /\ DOMAIN links' = DOMAIN links \cup {l} /\ links'[l] = NewLink(t, e)
      /\ \A k \in DOMAIN links : links'[k] = links[k]
    BY <1>2 DEF Insert
<1>4. NewLink(t, e) \in ShareLink /\ NewLink(t, e).uses = 0
    BY DEF NewLink, ShareLink, Nullable
<1>5. TablesOK' /\ RowStep
    BY <1>1, <1>3, <1>4, LinksWritten DEF Invite, TablesOK
<1>6. \A s \in Requests : Respects(s)
    BY <1>3, PartsOfIInv DEF Respects, Invite, LocalsOK
<1> QED
    BY <1>5, <1>6, StepOfNone DEF Invite

LEMMA RegisterStep ==
    ASSUME IInv, NEW e \in Emails, Register(e)
    PROVE  IInv'
<1>1. TablesOK /\ UNCHANGED <<links, engagements, reqs>>
    BY PartsOfIInv DEF Register
<1>2. PICK u \in UserIds \ DOMAIN accounts :
        accounts' = Insert(accounts, u, [email |-> e, role |-> "other"])
    BY DEF Register
<1>3. /\ DOMAIN accounts' = DOMAIN accounts \cup {u}
      /\ accounts'[u] = [email |-> e, role |-> "other"]
      /\ \A v \in DOMAIN accounts : accounts'[v] = accounts[v]
    BY <1>2 DEF Insert
<1>4. accounts'[u] \in Account
    BY <1>3 DEF Account, Nullable
<1>5. OneActiveEngagement' /\ AcceptedOnce' /\ (NoEdits => ErasedLeavesRoster)'
    BY <1>1, <1>3 DEF TablesOK, OneActiveEngagement, AcceptedOnce, ErasedLeavesRoster, NoEdits
<1>6. TablesOK' /\ RowStep
    BY <1>1, <1>3, <1>4, <1>5 DEF TablesOK, RowStep
<1>7. \A s \in Requests : Respects(s)
    BY <1>1, <1>3, PartsOfIInv DEF Respects, LocalsOK
<1> QED
    BY <1>1, <1>6, <1>7, StepOfNone

LEMMA EraseStep ==
    ASSUME IInv, NEW u \in DOMAIN accounts, Erase(u)
    PROVE  IInv'
BY CoachErased, StepOfNone DEF Erase

LEMMA LapseStep ==
    ASSUME IInv, NEW l \in DOMAIN links, Lapse(l)
    PROVE  IInv'
<1>1. TablesOK /\ links[l] \in ShareLink
    BY PartsOfIInv DEF TablesOK
<1>2. /\ DOMAIN links' = DOMAIN links
      /\ \A k \in DOMAIN links :
           /\ links'[k] \in ShareLink /\ links'[k].trainer = links[k].trainer
           /\ links'[k].uses = links[k].uses /\ links'[k].active = links[k].active
           /\ links'[k].email = links[k].email
    BY <1>1 DEF Lapse, ShareLink, TablesOK
<1>3. TablesOK' /\ RowStep
    BY <1>1, <1>2, LinksWritten DEF Lapse, TablesOK
<1>4. \A s \in Requests : Respects(s)
    BY <1>2, PartsOfIInv DEF Respects, Lapse, LocalsOK
<1> QED
    BY <1>3, <1>4, StepOfNone DEF Lapse

LEMMA StartResendStep ==
    ASSUME IInv, NEW r \in Requests, NEW l \in DOMAIN links, StartResend(r, l)
    PROVE  IInv'
<1> DEFINE q == [Idle EXCEPT !.pc = "replace", !.link = l, !.email = links[l].email]
<1>1. TablesOK /\ l \in LinkIds /\ links[l] \in ShareLink
    BY PartsOfIInv DEF TablesOK
<1>2. q.pc = "replace" /\ q.link = l /\ q.email = links[l].email
    BY DEF Idle
<1>3. q \in Request
    BY <1>1, IdleRequest DEF Request, PCs, Nullable, ShareLink
<1>4. reqs' = [reqs EXCEPT ![r] = q] /\ UNCHANGED <<accounts, links, engagements>>
    BY DEF StartResend, Begin
<1> HIDE DEF q
<1>5. reqs'[r] = q
    BY <1>4 DEF IInv, TypeOK
<1>6. LocalsOK(r)'
    BY <1>1, <1>2, <1>4, <1>5 DEF LocalsOK, Accepting, StartResend, ShareLink, Nullable
<1> QED
    BY <1>1, <1>2, <1>3, <1>4, <1>6, TablesKept, StepOf DEF EditPCs

LEMMA StartRevokeStep ==
    ASSUME IInv, NEW r \in Requests, NEW l \in DOMAIN links, StartRevoke(r, l)
    PROVE  IInv'
<1> DEFINE q == [Idle EXCEPT !.pc = "revoke", !.link = l]
<1>1. TablesOK /\ l \in LinkIds
    BY PartsOfIInv DEF TablesOK
<1>2. q.pc = "revoke" /\ q.link = l
    BY DEF Idle
<1>3. q \in Request
    BY <1>1, IdleRequest DEF Request, PCs, Nullable
<1>4. reqs' = [reqs EXCEPT ![r] = q] /\ UNCHANGED <<accounts, links, engagements>>
    BY DEF StartRevoke, Begin
<1> HIDE DEF q
<1>5. reqs'[r] = q
    BY <1>4 DEF IInv, TypeOK
<1>6. LocalsOK(r)'
    BY <1>1, <1>2, <1>4, <1>5 DEF LocalsOK, Accepting
<1> QED
    BY <1>1, <1>2, <1>3, <1>4, <1>6, TablesKept, StepOf DEF EditPCs

LEMMA LockForRedemptionStep ==
    ASSUME IInv, NEW r \in Requests, NEW l \in DOMAIN links, LockForRedemption(r, l)
    PROVE  IInv'
<1> DEFINE q == [Idle EXCEPT !.pc = "findAccount", !.link = l]
<1>1. TablesOK /\ l \in LinkIds /\ links[l] \in ShareLink
    BY PartsOfIInv DEF TablesOK
<1>2. q.pc = "findAccount" /\ q.link = l
    BY DEF Idle
<1>3. q \in Request
    BY <1>1, IdleRequest DEF Request, PCs, Nullable
<1>4. /\ reqs' = [reqs EXCEPT ![r] = q] /\ UNCHANGED <<accounts, links, engagements>>
      /\ ~Locked(l) /\ Usable(l) /\ links[l].email # None
    BY DEF LockForRedemption, Begin
<1> HIDE DEF q
<1>5. reqs'[r] = q
    BY <1>4 DEF IInv, TypeOK
<1>6. links[l].uses = 0
    BY <1>1, <1>4 DEF Usable, ShareLink
<1>7. LocalsOK(r)'
    BY <1>2, <1>4, <1>5, <1>6 DEF LocalsOK, Accepting, Usable
<1> QED
    BY <1>1, <1>2, <1>3, <1>4, <1>7, TablesKept, StepOf DEF EditPCs

LEMMA ReplaceStep ==
    ASSUME IInv, NEW r \in Requests, Replace(r)
    PROVE  IInv'
<1> DEFINE l == reqs[r].link
<1>1. TablesOK /\ l \in DOMAIN links /\ reqs[r].email \in Emails
    BY PartsOfIInv DEF Replace, At, LocalsOK
<1>2. links[l] \in ShareLink
    BY <1>1 DEF TablesOK
<1>3. CASE UNCHANGED links
    BY <1>1, <1>3, TablesKept, FinishStep DEF Replace
<1>4. ASSUME NEW n \in LinkIds \ DOMAIN links,
             links' = Insert([links EXCEPT ![l].active = FALSE], n,
                             NewLink(links[l].trainer, reqs[r].email))
      PROVE  IInv'
    <2>1. /\ DOMAIN links' = DOMAIN links \cup {n}
          /\ links'[n] = NewLink(links[l].trainer, reqs[r].email)
          /\ links'[l] = [links[l] EXCEPT !.active = FALSE]
          /\ \A k \in DOMAIN links \ {l} : links'[k] = links[k]
        BY <1>1, <1>2, <1>4 DEF Insert, ShareLink
    <2>2. /\ links'[n] \in ShareLink /\ links'[n].uses = 0
          /\ links'[l] \in ShareLink
          /\ links'[l].trainer = links[l].trainer /\ links'[l].uses = links[l].uses
        <3>1. links[l].trainer \in Trainers
            BY <1>2 DEF ShareLink
        <3>2. links'[n] \in ShareLink /\ links'[n].uses = 0
            BY <1>1, <2>1, <3>1 DEF NewLink, ShareLink, Nullable
        <3> QED
            BY <1>2, <2>1, <3>2 DEF ShareLink
    <2>3. TablesOK' /\ RowStep
        <3>1. \A k \in DOMAIN links' : links'[k] \in ShareLink
            BY <1>1, <2>1, <2>2 DEF TablesOK
        <3> QED
            BY <1>1, <2>1, <2>2, <3>1, LinksWritten DEF Replace, TablesOK
    <2>4. \A s \in Requests \ {r} : Respects(s)
        BY <2>1, PartsOfIInv DEF Respects, LocalsOK, Locked, Replace
    <2> QED
        BY <2>3, <2>4, FinishStep DEF Replace
<1> QED
    BY <1>3, <1>4 DEF Replace

LEMMA RevokeStep ==
    ASSUME IInv, NEW r \in Requests, Revoke(r)
    PROVE  IInv'
<1> DEFINE l == reqs[r].link
<1>1. TablesOK /\ l \in DOMAIN links
    BY PartsOfIInv DEF Revoke, At, LocalsOK
<1>2. links[l] \in ShareLink
    BY <1>1 DEF TablesOK
<1>3. /\ DOMAIN links' = DOMAIN links
      /\ links'[l] = [links[l] EXCEPT !.active = FALSE]
      /\ \A k \in DOMAIN links \ {l} : links'[k] = links[k]
    BY <1>1, <1>2 DEF Revoke, ShareLink
<1>4. /\ links'[l] \in ShareLink
      /\ links'[l].trainer = links[l].trainer /\ links'[l].uses = links[l].uses
    BY <1>2, <1>3 DEF ShareLink
<1>5. TablesOK' /\ RowStep
    <2>1. \A k \in DOMAIN links' : links'[k] \in ShareLink
        BY <1>1, <1>3, <1>4 DEF TablesOK
    <2> QED
        BY <1>1, <1>3, <1>4, <2>1, LinksWritten DEF Revoke, TablesOK
<1>6. \A s \in Requests \ {r} : Respects(s)
    BY <1>3, PartsOfIInv DEF Respects, LocalsOK, Locked, Revoke
<1> QED
    BY <1>5, <1>6, FinishStep DEF Revoke

LEMMA FindAccountStep ==
    ASSUME IInv, NEW r \in Requests, FindAccount(r)
    PROVE  IInv'
<1> DEFINE l == reqs[r].link
<1>1. /\ TablesOK /\ l \in DOMAIN links /\ reqs[r] \in Request /\ LocalsOK(r) /\ Accepting(r)
      /\ UNCHANGED <<accounts, links, engagements>>
    BY PartsOfIInv DEF FindAccount, At, LocalsOK, Accepting
<1>2. CASE Finish(r)
    BY <1>1, <1>2, TablesKept, FinishStep
<1>3. CASE SetPc(r, "createCoach")
    <2> DEFINE q == [reqs[r] EXCEPT !.pc = "createCoach"]
    <2>1. reqs' = [reqs EXCEPT ![r] = q] /\ reqs'[r] = q
        BY <1>3 DEF SetPc, IInv, TypeOK
    <2>2. q \in Request /\ q.pc = "createCoach" /\ q.link = l
        BY <1>1 DEF Request, PCs
    <2> HIDE DEF q
    <2>3. LocalsOK(r)'
        BY <1>1, <2>1, <2>2 DEF LocalsOK, Accepting
    <2> QED
        BY <1>1, <2>1, <2>2, <2>3, TablesKept, StepOf DEF EditPCs
<1>4. ASSUME NEW u \in Holders(links[l].email), accounts[u].role = "coach",
             reqs' = [reqs EXCEPT ![r].pc = "checkActive", ![r].user = u]
      PROVE  IInv'
    <2> DEFINE q == [reqs[r] EXCEPT !.pc = "checkActive", !.user = u]
    <2>1. reqs' = [reqs EXCEPT ![r] = q] /\ reqs'[r] = q
        BY <1>4 DEF IInv, TypeOK
    <2>2. u \in DOMAIN accounts /\ u \in UserIds /\ accounts[u].email = links[l].email
        BY <1>1, <1>4 DEF Holders, TablesOK
    <2>3. q \in Request /\ q.pc = "checkActive" /\ q.link = l /\ q.user = u
        BY <1>1, <2>2 DEF Request, PCs, Nullable
    <2> HIDE DEF q
    <2>4. LocalsOK(r)'
        BY <1>1, <1>4, <2>1, <2>2, <2>3 DEF LocalsOK, Accepting
    <2> QED
        BY <1>1, <2>1, <2>3, <2>4, TablesKept, StepOf DEF EditPCs
<1> QED
    BY <1>2, <1>3, <1>4 DEF FindAccount

LEMMA CheckActiveStep ==
    ASSUME IInv, NEW r \in Requests, CheckActive(r)
    PROVE  IInv'
<1>1. /\ TablesOK /\ reqs[r] \in Request /\ LocalsOK(r) /\ Accepting(r)
      /\ reqs[r].pc = "checkActive" /\ UNCHANGED <<accounts, links, engagements>>
    BY PartsOfIInv DEF CheckActive, At, Accepting
<1>2. CASE Finish(r)
    BY <1>1, <1>2, TablesKept, FinishStep
<1>3. CASE SetPc(r, "hire")
    <2> DEFINE q == [reqs[r] EXCEPT !.pc = "hire"]
    <2>1. reqs' = [reqs EXCEPT ![r] = q] /\ reqs'[r] = q
        BY <1>3 DEF SetPc, IInv, TypeOK
    <2>2. q \in Request /\ q.pc = "hire" /\ q.link = reqs[r].link /\ q.user = reqs[r].user
        BY <1>1 DEF Request, PCs
    <2> HIDE DEF q
    <2>3. LocalsOK(r)'
        BY <1>1, <2>1, <2>2 DEF LocalsOK, Accepting
    <2> QED
        BY <1>1, <2>1, <2>2, <2>3, TablesKept, StepOf DEF EditPCs
<1> QED
    BY <1>2, <1>3 DEF CheckActive

(* The two ways to hire spend an invitation of which r holds the lock.     *)
LEMMA HireWrites ==
    ASSUME IInv, NEW r \in Requests, Hire(r), Engage(reqs[r].link, reqs[r].user),
           ActiveOf(reqs[r].user) = {}
    PROVE  /\ TablesOK' /\ RowStep
           /\ \A k \in DOMAIN links \ {reqs[r].link} : links'[k] = links[k]
           /\ \A e \in DOMAIN engagements' \ DOMAIN engagements :
                engagements'[e].via = reqs[r].link /\ engagements'[e].user = reqs[r].user
<1>1. TablesOK /\ LocalsOK(r) /\ reqs[r].pc = "hire" /\ UNCHANGED accounts
    BY PartsOfIInv DEF Hire, At
<1>2. /\ reqs[r].link \in DOMAIN links /\ links[reqs[r].link].uses = 0
      /\ reqs[r].user \in DOMAIN accounts /\ accounts[reqs[r].user].email # None
    BY <1>1 DEF LocalsOK, Accepting
<1> QED
    BY <1>1, <1>2, Engaged DEF TablesOK

LEMMA CreateCoachWrites ==
    ASSUME IInv, NEW r \in Requests, CreateCoach(r), NEW u \in UserIds \ DOMAIN accounts,
           accounts' = Insert(accounts, u, [email |-> links[reqs[r].link].email, role |-> "coach"]),
           Engage(reqs[r].link, u)
    PROVE  /\ TablesOK' /\ RowStep
           /\ \A v \in DOMAIN accounts : accounts'[v] = accounts[v]
           /\ accounts'[u] = [email |-> links[reqs[r].link].email, role |-> "coach"]
           /\ \A k \in DOMAIN links \ {reqs[r].link} : links'[k] = links[k]
           /\ \A e \in DOMAIN engagements' \ DOMAIN engagements :
                engagements'[e].via = reqs[r].link /\ engagements'[e].user = u
<1> DEFINE l == reqs[r].link
<1>1. TablesOK /\ LocalsOK(r) /\ reqs[r].pc = "createCoach"
    BY PartsOfIInv DEF CreateCoach, At
<1>2. /\ l \in DOMAIN links /\ links[l].uses = 0 /\ links[l].email # None
      /\ links[l] \in ShareLink
    BY <1>1 DEF LocalsOK, Accepting, TablesOK
<1>3. /\ DOMAIN accounts' = DOMAIN accounts \cup {u}
      /\ \A v \in DOMAIN accounts : accounts'[v] = accounts[v]
      /\ accounts'[u] = [email |-> links[l].email, role |-> "coach"]
    BY DEF Insert
<1>4. accounts'[u] \in Account /\ accounts'[u].email # None
    BY <1>2, <1>3 DEF Account, ShareLink
<1>5. ActiveOf(u) = {}
    BY <1>1 DEF ActiveOf, TablesOK
<1>6. /\ DOMAIN accounts' \subseteq UserIds
      /\ \A v \in DOMAIN accounts' : accounts'[v] \in Account
    BY <1>1, <1>3, <1>4 DEF TablesOK
<1> QED
    BY <1>1, <1>2, <1>3, <1>4, <1>5, <1>6, Engaged

(* Another acceptance holds another invitation, and no address changed.    *)
LEMMA HireRespects ==
    ASSUME IInv, NEW r \in Requests, Accepting(r),
           \A k \in DOMAIN links \ {reqs[r].link} : links'[k] = links[k],
           \A v \in DOMAIN accounts : accounts'[v] = accounts[v]
    PROVE  \A s \in Requests \ {r} : Respects(s)
<1> SUFFICES ASSUME NEW s \in Requests \ {r} PROVE Respects(s)
    OBVIOUS
<1>1. LocalsOK(s) /\ LocksExclusive
    BY PartsOfIInv
<1>2. Accepting(s) => reqs[s].link \in DOMAIN links \ {reqs[r].link}
    BY <1>1 DEF LocksExclusive, LocalsOK
<1> QED
    BY <1>1, <1>2 DEF Respects, LocalsOK

LEMMA HireStep ==
    ASSUME IInv, NEW r \in Requests, Hire(r)
    PROVE  IInv'
<1>1. TablesOK /\ Accepting(r) /\ UNCHANGED accounts /\ Finish(r)
    BY PartsOfIInv DEF Hire, At, Accepting
<1>2. CASE UNCHANGED <<links, engagements>>
    BY <1>1, <1>2, TablesKept, FinishStep
<1>3. CASE ActiveOf(reqs[r].user) = {} /\ Engage(reqs[r].link, reqs[r].user)
    BY <1>1, <1>3, HireWrites, HireRespects, FinishStep
<1> QED
    BY <1>2, <1>3 DEF Hire

LEMMA CreateCoachStep ==
    ASSUME IInv, NEW r \in Requests, CreateCoach(r)
    PROVE  IInv'
<1>1. TablesOK /\ Accepting(r) /\ Finish(r)
    BY PartsOfIInv DEF CreateCoach, At, Accepting
<1>2. CASE UNCHANGED <<accounts, links, engagements>>
    BY <1>1, <1>2, TablesKept, FinishStep
<1>3. ASSUME NEW u \in UserIds \ DOMAIN accounts,
             accounts' = Insert(accounts, u,
                                [email |-> links[reqs[r].link].email, role |-> "coach"]),
             Engage(reqs[r].link, u)
      PROVE  IInv'
    BY <1>1, <1>3, CreateCoachWrites, HireRespects, FinishStep
<1> QED
    BY <1>2, <1>3 DEF CreateCoach

LEMMA StartOffboardStep ==
    ASSUME IInv, NEW r \in Requests, NEW e \in DOMAIN engagements, StartOffboard(r, e)
    PROVE  IInv'
<1> DEFINE q == [Idle EXCEPT !.pc = "offboard", !.engagement = e]
<1>1. TablesOK /\ e \in EngagementIds
    BY PartsOfIInv DEF TablesOK
<1>2. q.pc = "offboard" /\ q.engagement = e
    BY DEF Idle
<1>3. q \in Request
    BY <1>1, IdleRequest DEF Request, PCs, Nullable
<1>4. reqs' = [reqs EXCEPT ![r] = q] /\ UNCHANGED <<accounts, links, engagements>>
    BY DEF StartOffboard, Begin
<1> HIDE DEF q
<1>5. reqs'[r] = q
    BY <1>4 DEF IInv, TypeOK
<1>6. LocalsOK(r)'
    BY <1>2, <1>4, <1>5 DEF LocalsOK, Accepting
<1> QED
    BY <1>1, <1>2, <1>3, <1>4, <1>6, TablesKept, StepOf DEF EditPCs

LEMMA OffboardStep ==
    ASSUME IInv, NEW r \in Requests, Offboard(r)
    PROVE  IInv'
<1> DEFINE e == reqs[r].engagement
           row == [engagements[e] EXCEPT !.status = "Inactive"]
<1>1. TablesOK /\ e \in DOMAIN engagements /\ UNCHANGED <<accounts, links>> /\ Finish(r)
    BY PartsOfIInv DEF Offboard, At, LocalsOK
<1>2. engagements[e] \in CoachProfile
    BY <1>1 DEF TablesOK
<1>3. /\ row \in CoachProfile /\ row.status = "Inactive" /\ row.via = engagements[e].via
      /\ row.user = engagements[e].user /\ row.trainer = engagements[e].trainer
    BY <1>2 DEF CoachProfile
<1>4. engagements' = [engagements EXCEPT ![e] = row]
    BY DEF Offboard
<1> HIDE DEF row
<1>5. TablesOK' /\ RowStep /\ \A s \in Requests : Respects(s)
    BY <1>1, <1>3, <1>4, EngagementWritten
<1> QED
    BY <1>1, <1>5, FinishStep

LEMMA StartEditStep ==
    ASSUME IInv, NEW r \in Requests, NEW e \in DOMAIN engagements, StartEdit(r, e)
    PROVE  IInv'
<1> DEFINE q == [Idle EXCEPT !.pc = "readProfile", !.engagement = e]
<1>1. TablesOK /\ e \in EngagementIds
    BY PartsOfIInv DEF TablesOK
<1>2. q.pc = "readProfile" /\ q.engagement = e
    BY DEF Idle
<1>3. q \in Request
    BY <1>1, IdleRequest DEF Request, PCs, Nullable
<1>4. /\ reqs' = [reqs EXCEPT ![r] = q] /\ UNCHANGED <<accounts, links, engagements>>
      /\ ~NoEdits
    BY DEF StartEdit, Begin, NoEdits
<1> HIDE DEF q
<1>5. reqs'[r] = q
    BY <1>4 DEF IInv, TypeOK
<1>6. LocalsOK(r)'
    BY <1>2, <1>4, <1>5 DEF LocalsOK, Accepting
<1> QED
    BY <1>1, <1>2, <1>3, <1>4, <1>6, TablesKept, StepOf

LEMMA StartAdminEditStep ==
    ASSUME IInv, NEW r \in Requests, NEW e \in DOMAIN engagements, StartAdminEdit(r, e)
    PROVE  IInv'
<1> DEFINE q == [Idle EXCEPT !.pc = "saveProfile", !.engagement = e, !.seen = engagements[e]]
<1>1. TablesOK /\ e \in EngagementIds /\ engagements[e] \in CoachProfile
    BY PartsOfIInv DEF TablesOK
<1>2. q.pc = "saveProfile" /\ q.engagement = e /\ q.seen = engagements[e]
    BY DEF Idle
<1>3. q \in Request
    BY <1>1, IdleRequest DEF Request, PCs, Nullable
<1>4. /\ reqs' = [reqs EXCEPT ![r] = q] /\ UNCHANGED <<accounts, links, engagements>>
      /\ ~NoEdits
    BY DEF StartAdminEdit, Begin, NoEdits
<1> HIDE DEF q
<1>5. reqs'[r] = q
    BY <1>4 DEF IInv, TypeOK
<1>6. LocalsOK(r)'
    BY <1>1, <1>2, <1>4, <1>5 DEF LocalsOK, Accepting
<1> QED
    BY <1>1, <1>2, <1>3, <1>4, <1>6, TablesKept, StepOf

LEMMA ReadProfileStep ==
    ASSUME IInv, NEW r \in Requests, ReadProfile(r)
    PROVE  IInv'
<1> DEFINE e == reqs[r].engagement
           q == [reqs[r] EXCEPT !.pc = "saveProfile", !.seen = engagements[e]]
<1>1. /\ TablesOK /\ e \in DOMAIN engagements /\ reqs[r] \in Request
      /\ UNCHANGED <<accounts, links, engagements>> /\ ~NoEdits
    BY PartsOfIInv DEF ReadProfile, At, LocalsOK, NoEditsInFlight
<1>2. engagements[e] \in CoachProfile
    BY <1>1 DEF TablesOK
<1>3. q \in Request /\ q.pc = "saveProfile" /\ q.engagement = e /\ q.seen = engagements[e]
    BY <1>1, <1>2 DEF Request, PCs, Nullable
<1>4. reqs' = [reqs EXCEPT ![r] = q] /\ reqs'[r] = q
    BY DEF ReadProfile, IInv, TypeOK
<1> HIDE DEF q
<1>5. LocalsOK(r)'
    BY <1>1, <1>2, <1>3, <1>4 DEF LocalsOK, Accepting
<1> QED
    BY <1>1, <1>3, <1>4, <1>5, TablesKept, StepOf

LEMMA SaveProfileStep ==
    ASSUME IInv, NEW r \in Requests, SaveProfile(r)
    PROVE  IInv'
<1> DEFINE e == reqs[r].engagement
           seen == reqs[r].seen
<1>1. /\ TablesOK /\ e \in DOMAIN engagements /\ ~NoEdits
      /\ UNCHANGED <<accounts, links>> /\ Finish(r)
      /\ seen \in CoachProfile /\ seen.user = engagements[e].user
      /\ seen.trainer = engagements[e].trainer /\ seen.via = engagements[e].via
    BY PartsOfIInv DEF SaveProfile, At, LocalsOK, NoEditsInFlight
<1>2. CASE UNCHANGED engagements
    BY <1>1, <1>2, TablesKept, FinishStep
<1>3. ASSUME NEW personal \in BOOLEAN,
             engagements' = [engagements EXCEPT ![e] = [seen EXCEPT !.personal = personal]],
             ~(seen.status = "Active" /\ ActiveOf(seen.user) \ {e} # {})
      PROVE  IInv'
    <2> DEFINE row == [seen EXCEPT !.personal = personal]
    <2>1. /\ row \in CoachProfile /\ row.user = seen.user /\ row.trainer = seen.trainer
          /\ row.via = seen.via /\ row.status = seen.status
        BY <1>1 DEF CoachProfile
    <2>2. engagements' = [engagements EXCEPT ![e] = row]
        BY <1>3
    <2> HIDE DEF row
    <2>3. TablesOK' /\ RowStep /\ \A s \in Requests : Respects(s)
        BY <1>1, <1>3, <2>1, <2>2, EngagementWritten
    <2> QED
        BY <1>1, <2>3, FinishStep
<1> QED
    BY <1>2, <1>3 DEF SaveProfile

LEMMA FailStep ==
    ASSUME IInv, NEW r \in Requests, Fail(r)
    PROVE  IInv'
BY PartsOfIInv, TablesKept, FinishStep DEF Fail

LEMMA UnchangedStep ==
    ASSUME IInv, UNCHANGED vars
    PROVE  IInv'
<1>1. TablesOK' /\ RowStep /\ \A s \in Requests : Respects(s)
    BY PartsOfIInv, TablesKept DEF vars
<1> QED
    BY <1>1, StepOfNone DEF vars

(* The invariant is inductive. *)
LEMMA NextStep == IInv /\ [Next]_vars => IInv'
<1> SUFFICES ASSUME IInv, [Next]_vars PROVE IInv'
    OBVIOUS
<1>1. ASSUME NEW r \in Requests, StartRequest(r) PROVE IInv'
    BY <1>1, StartResendStep, StartRevokeStep, LockForRedemptionStep, StartOffboardStep,
       StartEditStep, StartAdminEditStep DEF StartRequest
<1>2. ASSUME NEW r \in Requests, Continue(r) PROVE IInv'
    BY <1>2, ReplaceStep, RevokeStep, FindAccountStep, CheckActiveStep, HireStep,
       CreateCoachStep, OffboardStep, ReadProfileStep, SaveProfileStep DEF Continue
<1> QED
    BY <1>1, <1>2, InviteStep, RegisterStep, EraseStep, LapseStep, FailStep, UnchangedStep DEF Next

----------------------------------------------------------------------------
(* Tables and in-flight requests agree, whatever the other requests did    *)
(* since each read what it holds.                                          *)
THEOREM Invariance == Spec => []IInv
BY InitInvariant, NextStep, PTL DEF Spec

(* Rows and in-flight requests keep the shape their handlers give them.    *)
THEOREM TypeCorrect == Spec => []TypeOK
<1>1. IInv => TypeOK
    BY DEF IInv
<1> QED
    BY <1>1, Invariance, PTL

(* No coach is ever active with two trainers, or twice with one.           *)
THEOREM OneTrainerPerCoach == Spec => []OneActiveEngagement
<1>1. IInv => OneActiveEngagement
    BY DEF IInv
<1> QED
    BY <1>1, Invariance, PTL

(* A single-use invitation is used once, however many accept it at a time. *)
THEOREM InvitationsAreSpentOnce == Spec => []AcceptedOnce
<1>1. IInv => AcceptedOnce
    BY DEF IInv
<1> QED
    BY <1>1, Invariance, PTL

(* When no profile is edited, erasure takes a coach off every roster for   *)
(* good; a profile edit is all that can put an erased coach back.          *)
THEOREM ErasureLeavesRoster == NoEdits /\ Spec => []ErasedLeavesRoster
<1>1. NoEdits /\ IInv => ErasedLeavesRoster
    BY DEF IInv
<1>2. ASSUME NoEdits PROVE Spec => []ErasedLeavesRoster
    <2>1. IInv => ErasedLeavesRoster
        BY <1>1, <1>2
    <2> QED
        BY <2>1, Invariance, PTL
<1> QED
    BY <1>2

(* Every hire is the addressee's, through an invitation live at that       *)
(* moment.                                                                 *)
THEOREM HiresComeFromInvites == Spec => HiresAreInvited
<1> DEFINE Invited ==
      \A e \in DOMAIN engagements' \ DOMAIN engagements :
        LET l == links[engagements'[e].via]
            u == accounts'[engagements'[e].user] IN
        l.active /\ l.email # None /\ u.email = l.email /\ u.role = "coach"
<1>1. ASSUME IInv, [Next]_vars PROVE Invited
    <2>1. CASE DOMAIN engagements' = DOMAIN engagements
        BY <2>1
    <2>2. ASSUME NEW r \in Requests, Hire(r) PROVE Invited
        <3>1. CASE UNCHANGED engagements
            BY <3>1
        <3>2. CASE Engage(reqs[r].link, reqs[r].user) /\ ActiveOf(reqs[r].user) = {}
            <4>1. \A e \in DOMAIN engagements' \ DOMAIN engagements :
                    engagements'[e].via = reqs[r].link /\ engagements'[e].user = reqs[r].user
                BY <1>1, <2>2, <3>2, HireWrites
            <4>2. LocalsOK(r) /\ reqs[r].pc = "hire" /\ UNCHANGED accounts
                BY <1>1, <2>2, PartsOfIInv DEF Hire, At
            <4> QED
                BY <4>1, <4>2 DEF LocalsOK, Accepting
        <3> QED
            BY <2>2, <3>1, <3>2 DEF Hire
    <2>3. ASSUME NEW r \in Requests, CreateCoach(r) PROVE Invited
        <3>1. CASE UNCHANGED engagements
            BY <3>1
        <3>2. ASSUME NEW u \in UserIds \ DOMAIN accounts,
                     accounts' = Insert(accounts, u,
                                        [email |-> links[reqs[r].link].email, role |-> "coach"]),
                     Engage(reqs[r].link, u)
              PROVE  Invited
            <4>1. /\ accounts'[u] = [email |-> links[reqs[r].link].email, role |-> "coach"]
                  /\ \A e \in DOMAIN engagements' \ DOMAIN engagements :
                       engagements'[e].via = reqs[r].link /\ engagements'[e].user = u
                BY <1>1, <2>3, <3>2, CreateCoachWrites
            <4>2. LocalsOK(r) /\ reqs[r].pc = "createCoach"
                BY <1>1, <2>3, PartsOfIInv DEF CreateCoach, At
            <4> QED
                BY <4>1, <4>2 DEF LocalsOK, Accepting
        <3> QED
            BY <2>3, <3>1, <3>2 DEF CreateCoach
    <2>4. ASSUME NEW r \in Requests, StartRequest(r) \/ Fail(r)
          PROVE  UNCHANGED engagements
        BY <2>4 DEF StartRequest, StartResend, StartRevoke, LockForRedemption, StartOffboard,
           StartEdit, StartAdminEdit, Fail
    <2>5. ASSUME NEW r \in Requests,
                 Replace(r) \/ Revoke(r) \/ FindAccount(r) \/ CheckActive(r) \/ ReadProfile(r)
                   \/ Offboard(r) \/ SaveProfile(r)
          PROVE  DOMAIN engagements' = DOMAIN engagements
        BY <2>5 DEF Replace, Revoke, FindAccount, CheckActive, ReadProfile, Offboard, SaveProfile
    <2>6. CASE \/ \E t \in Trainers, e \in Emails : Invite(t, e)
               \/ \E e \in Emails : Register(e)
               \/ \E u \in DOMAIN accounts : Erase(u)
               \/ \E l \in DOMAIN links : Lapse(l)
               \/ UNCHANGED vars
        <3>1. DOMAIN engagements' = DOMAIN engagements
            BY <2>6 DEF Invite, Register, Erase, AnonymizeByUserId, Lapse, vars
        <3> QED
            BY <3>1
    <2> QED
        BY <1>1, <2>1, <2>2, <2>3, <2>4, <2>5, <2>6 DEF Next, Continue
<1>2. IInv /\ [Next]_vars => [Invited]_vars
    BY <1>1
<1> QED
    BY <1>2, Invariance, PTL DEF Spec, HiresAreInvited
=============================================================================
