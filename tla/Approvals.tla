------------------------------- MODULE Approvals -------------------------------
(***************************************************************************)
(* Purchase approvals: a child asks to attend an event that costs, the     *)
(* parent answers, and a request nobody answered lapses.  ApprovalsService *)
(* over purchase_approvals.                                                *)
(*                                                                         *)
(* One family: every query is scoped to the parent, and two families share *)
(* no row.  As in AuthSessions a request is a process, each await on the   *)
(* database is a step, no handler opens a transaction, and save() writes   *)
(* the entity the handler holds, however old.  Refused calls that read and *)
(* write nothing (foreign event, no price, child answering) are left out.  *)
(***************************************************************************)
EXTENDS Naturals, FiniteSets

CONSTANTS
    Children,       \* the parent's children that have a login
    Events,         \* priced events of their trainers
    ApprovalIds,    \* primary keys of purchase_approvals
    Requests,       \* requests in flight together
    None,           \* SQL NULL, or a local not yet assigned
    Ttl,            \* APPROVAL_TTL_MS
    CanCrash,       \* whether the process may die inside a request
    MaxClock        \* bound on the clock

Ops == {"purchase", "list", "respond"}

ASSUME NoneAssumption ==
    None \notin Nat \cup Children \cup Events \cup ApprovalIds \cup Ops

ASSUME BoundsAssumption ==
    Ttl \in Nat \ {0} /\ MaxClock \in Nat /\ CanCrash \in BOOLEAN

VARIABLES
    clock,          \* ClockService.now()
    approvals,      \* purchase_approvals: existing id -> row
    announced,      \* the decisions recorded and mailed for each approval
    reqs            \* the requests in flight and their local variables

vars == <<clock, approvals, announced, reqs>>

----------------------------------------------------------------------------
Nullable(S) == S \cup {None}

Answers == {"approved", "denied"}

ApprovalStatus == {"pending", "expired"} \cup Answers

PurchaseApproval == [child: Children, event: Events, status: ApprovalStatus,
                     respondedAt: Nullable(Nat), expiresAt: Nat, autoApproved: BOOLEAN]

PCs == {"idle", "crashed", "findOverdue", "expire", "announce", "findOpen", "saveApproval",
        "readQueue", "saveAnswer"}

(* The locals: who asks for what and whether the permission it read lets   *)
(* it through, the approval at hand and the status written to it, the      *)
(* overdue rows found and the instant taken from the clock.                *)
Request == [pc: PCs, op: Nullable(Ops),
            child: Nullable(Children), event: Nullable(Events), auto: BOOLEAN,
            id: Nullable(ApprovalIds), status: Nullable(ApprovalStatus),
            at: Nullable(Nat), due: SUBSET ApprovalIds]

Idle == [pc |-> "idle", op |-> None, child |-> None, event |-> None, auto |-> FALSE,
         id |-> None, status |-> None, at |-> None, due |-> {}]

At(r, pc) == reqs[r].pc = pc

SetPc(r, pc) == reqs' = [reqs EXCEPT ![r].pc = pc]

Finish(r) == reqs' = [reqs EXCEPT ![r] = Idle]

Pending == {a \in DOMAIN approvals : approvals[a].status = "pending"}

Overdue(now) == {a \in Pending : approvals[a].expiresAt <= now}

OpenFor(c, e) == {a \in Pending : approvals[a].child = c /\ approvals[a].event = e}

(* approvals.save of an entity read while it was pending: status and       *)
(* responded_at are the columns that differ.                               *)
Settle(a, status, at) ==
    approvals' = [approvals EXCEPT ![a].status = status, ![a].respondedAt = at]

----------------------------------------------------------------------------
(* request *)

(* auto: payment in tokens, and the child's profile, which is read first   *)
(* and once, has the parent's standing permission to spend them.           *)
StartPurchase(r, c, e, auto) ==
    /\ At(r, "idle")
    /\ DOMAIN approvals # ApprovalIds
    /\ reqs' = [reqs EXCEPT ![r] =
                  [Idle EXCEPT !.pc = "findOverdue", !.op = "purchase", !.child = c,
                               !.event = e, !.auto = auto]]
    /\ UNCHANGED <<clock, approvals, announced>>

FindOpen(r) ==
    /\ At(r, "findOpen")
    /\ IF OpenFor(reqs[r].child, reqs[r].event) = {}
       THEN SetPc(r, "saveApproval")
       ELSE Finish(r)
    /\ UNCHANGED <<clock, approvals, announced>>

NewApproval(r) ==
    [child |-> reqs[r].child, event |-> reqs[r].event,
     status |-> IF reqs[r].auto THEN "approved" ELSE "pending",
     respondedAt |-> IF reqs[r].auto THEN clock ELSE None,
     expiresAt |-> clock + Ttl, autoApproved |-> reqs[r].auto]

(* Mutant: the table has no unique index on open requests. *)
SaveApprovalNoIndex(r) ==
    /\ At(r, "saveApproval")
    /\ \E a \in ApprovalIds \ DOMAIN approvals :
         approvals' = [b \in DOMAIN approvals \cup {a} |->
                         IF b = a THEN NewApproval(r) ELSE approvals[b]]
    /\ Finish(r)
    /\ UNCHANGED <<clock, announced>>

(* INSERT: uq_purchase_approvals_open_request refuses a second open row    *)
(* for the same child and event, and the request fails.                    *)
SaveApproval(r) ==
    LET q == reqs[r] IN
    /\ At(r, "saveApproval")
    /\ \/ /\ q.auto \/ OpenFor(q.child, q.event) = {}
          /\ \E a \in ApprovalIds \ DOMAIN approvals :
               approvals' = [b \in DOMAIN approvals \cup {a} |->
                               IF b = a THEN NewApproval(r) ELSE approvals[b]]
       \/ /\ ~q.auto /\ OpenFor(q.child, q.event) # {}
          /\ UNCHANGED approvals
       \/ DOMAIN approvals = ApprovalIds /\ UNCHANGED approvals   \* bound
    /\ Finish(r)
    /\ UNCHANGED <<clock, announced>>

----------------------------------------------------------------------------
(* expireOverdue, before every list and every new request *)

(* Mutant: a row that lapses at this very instant is not overdue yet. *)
FindOverdueStrict(r) ==
    /\ At(r, "findOverdue")
    /\ reqs' = [reqs EXCEPT ![r].pc = "expire", ![r].at = clock,
                            ![r].due = {a \in Pending : approvals[a].expiresAt < clock}]
    /\ UNCHANGED <<clock, approvals, announced>>

FindOverdue(r) ==
    /\ At(r, "findOverdue")
    /\ reqs' = [reqs EXCEPT ![r].pc = "expire", ![r].at = clock, ![r].due = Overdue(clock)]
    /\ UNCHANGED <<clock, approvals, announced>>

(* Mutant: the child is told and the row is never written. *)
MarkExpiredUnsaved(r, a) ==
    /\ At(r, "expire")
    /\ a \in reqs[r].due
    /\ reqs' = [reqs EXCEPT ![r].pc = "announce", ![r].id = a, ![r].status = "expired",
                            ![r].due = @ \ {a}]
    /\ UNCHANGED <<clock, approvals, announced>>

MarkExpired(r, a) ==
    /\ At(r, "expire")
    /\ a \in reqs[r].due
    /\ Settle(a, "expired", reqs[r].at)
    /\ reqs' = [reqs EXCEPT ![r].pc = "announce", ![r].id = a, ![r].status = "expired",
                            ![r].due = @ \ {a}]
    /\ UNCHANGED <<clock, announced>>

(* Mutant: a failing announcement ends the request. *)
AnnounceGivesUp(r) ==
    /\ At(r, "announce")
    /\ announced' = [announced EXCEPT ![reqs[r].id] = @ \cup {reqs[r].status}]
    /\ Finish(r)
    /\ UNCHANGED <<clock, approvals>>

(* The audit row and the mail to the child. *)
Announce(r) ==
    /\ At(r, "announce")
    /\ announced' = [announced EXCEPT ![reqs[r].id] = @ \cup {reqs[r].status}]
    /\ IF reqs[r].status = "expired"
       THEN reqs' = [reqs EXCEPT ![r].pc = "expire", ![r].id = None, ![r].status = None]
       ELSE Finish(r)
    /\ UNCHANGED <<clock, approvals>>

AllExpired(r) ==
    /\ At(r, "expire")
    /\ reqs[r].due = {}
    /\ CASE reqs[r].op = "purchase" ->
                reqs' = [reqs EXCEPT ![r].pc = "findOpen", ![r].at = None]
         [] reqs[r].op = "list" -> SetPc(r, "readQueue")
         [] OTHER -> Finish(r)
    /\ UNCHANGED <<clock, approvals, announced>>

----------------------------------------------------------------------------
(* listForParent and listForChild: both settle the parent's overdue rows,   *)
(* then return rows of the parent or of one child as they are.              *)

StartList(r) ==
    /\ At(r, "idle")
    /\ reqs' = [reqs EXCEPT ![r] = [Idle EXCEPT !.pc = "findOverdue", !.op = "list"]]
    /\ UNCHANGED <<clock, approvals, announced>>

ReadQueue(r) ==
    /\ At(r, "readQueue")
    /\ Finish(r)
    /\ UNCHANGED <<clock, approvals, announced>>

----------------------------------------------------------------------------
(* approve and deny *)

(* Mutant: the deadline is not checked, the queue hides overdue rows. *)
StartRespondAnyTime(r, a, status) ==
    /\ At(r, "idle")
    /\ a \in Pending
    /\ reqs' = [reqs EXCEPT ![r] = [Idle EXCEPT !.pc = "saveAnswer", !.op = "respond", !.id = a,
                                                !.status = status, !.at = clock]]
    /\ UNCHANGED <<clock, approvals, announced>>

(* An overdue request is expired on the spot; one already settled is left  *)
(* alone and the call refused.                                             *)
StartRespond(r, a, status) ==
    LET begun == [Idle EXCEPT !.op = "respond", !.at = clock] IN
    /\ At(r, "idle")
    /\ a \in Pending
    /\ reqs' = [reqs EXCEPT ![r] =
                  IF a \in Overdue(clock)
                  THEN [begun EXCEPT !.pc = "expire", !.due = {a}]
                  ELSE [begun EXCEPT !.pc = "saveAnswer", !.id = a, !.status = status]]
    /\ UNCHANGED <<clock, approvals, announced>>

SaveAnswer(r) ==
    LET q == reqs[r] IN
    /\ At(r, "saveAnswer")
    /\ Settle(q.id, q.status, q.at)
    /\ reqs' = [reqs EXCEPT ![r].pc = "announce", ![r].at = None]
    /\ UNCHANGED <<clock, announced>>

----------------------------------------------------------------------------
Init ==
    /\ clock = 0
    /\ approvals = [a \in {} |-> None]
    /\ announced = [a \in ApprovalIds |-> {}]
    /\ reqs = [r \in Requests |-> Idle]

Tick ==
    /\ clock < MaxClock
    /\ clock' = clock + 1
    /\ UNCHANGED <<approvals, announced, reqs>>

(* The process dies with the request in it; a client that tries again does *)
(* so in another slot.                                                     *)
Crash(r) ==
    /\ CanCrash
    /\ ~At(r, "idle") /\ ~At(r, "crashed")
    /\ reqs' = [reqs EXCEPT ![r] = [Idle EXCEPT !.pc = "crashed"]]
    /\ UNCHANGED <<clock, approvals, announced>>

StartRequest(r) ==
    \/ \E c \in Children, e \in Events, auto \in BOOLEAN : StartPurchase(r, c, e, auto)
    \/ StartList(r)
    \/ \E a \in DOMAIN approvals, status \in Answers : StartRespond(r, a, status)

Continue(r) ==
    \/ FindOverdue(r) \/ (\E a \in ApprovalIds : MarkExpired(r, a)) \/ Announce(r)
    \/ AllExpired(r) \/ FindOpen(r) \/ SaveApproval(r) \/ ReadQueue(r) \/ SaveAnswer(r)

Next ==
    \/ Tick
    \/ \E r \in Requests : StartRequest(r) \/ Continue(r) \/ Crash(r)

Spec == Init /\ [][Next]_vars

(* Node runs every continuation whose await has settled; nothing obliges   *)
(* a client to call, the clock to be read or the parent to open the queue. *)
FairSpec == Spec /\ \A r \in Requests : WF_vars(Continue(r))

----------------------------------------------------------------------------
(* Properties *)

(* Every row and every in-flight request has the shape its handler gives it. *)
TypeOK ==
    /\ clock \in Nat
    /\ DOMAIN approvals \subseteq ApprovalIds
    /\ \A a \in DOMAIN approvals : approvals[a] \in PurchaseApproval
    /\ announced \in [ApprovalIds -> SUBSET ApprovalStatus]
    /\ reqs \in [Requests -> Request]

(* The 48-hour rule, settled lazily, whoever settles it and in whatever    *)
(* order: an answer on record was given before the request lapsed, and an  *)
(* expiry on record was not made early.                                    *)
AnsweredInTime ==
    \A a \in DOMAIN approvals :
      LET row == approvals[a] IN
      /\ row.status \in Answers /\ ~row.autoApproved => row.respondedAt < row.expiresAt
      /\ row.status = "expired" => row.respondedAt >= row.expiresAt
      /\ row.status = "pending" => row.respondedAt = None

(* A child cannot stack open requests for one event, however many it sends *)
(* at once.                                                                *)
OneOpenRequest ==
    \A a, b \in Pending :
      approvals[a].child = approvals[b].child /\ approvals[a].event = approvals[b].event
        => a = b

(* No reader is shown as open a request that had lapsed when it began to   *)
(* read, though nothing but the readers ever expires one.                  *)
ReadersNeverSeeOverdue ==
    \A r \in Requests : At(r, "readQueue") =>
      \A a \in Pending : approvals[a].expiresAt > reqs[r].at

(* What a handler may assume about its locals at each of its awaits: the   *)
(* rows it holds exist, were overdue or open when read, and no standing    *)
(* permission had decided them; the instant it took is past; an answer it  *)
(* is about to save is still in time; the rows a list has yet to expire    *)
(* are all that had lapsed when it began.                                  *)
LocalsOK(r) ==
    LET q == reqs[r] IN
    /\ q.at \in Nat => q.at <= clock
    /\ q.pc \in {"expire", "saveAnswer"} => q.at \in Nat
    /\ \A a \in q.due :
         a \in DOMAIN approvals /\ ~approvals[a].autoApproved /\ approvals[a].expiresAt <= q.at
    /\ q.pc \in {"announce", "saveAnswer"} =>
         q.id \in DOMAIN approvals /\ ~approvals[q.id].autoApproved
    /\ q.pc = "saveAnswer" =>
         /\ q.status \in Answers /\ q.at < approvals[q.id].expiresAt
         /\ q.op = "respond" /\ q.due = {}
    /\ q.pc = "announce" =>
         /\ approvals[q.id].status # "pending"
         /\ q.status \in Answers \cup {"expired"}
         /\ q.status = "expired" => q.at \in Nat
    /\ q.op = "purchase" => q.child \in Children /\ q.event \in Events
    /\ q.pc \in {"findOpen", "saveApproval"} => q.op = "purchase"
    /\ q.pc = "readQueue" => q.op = "list" /\ q.due = {}
    /\ q.pc \in {"expire", "announce", "readQueue"} /\ q.op = "list" =>
         /\ q.at \in Nat
         /\ \A a \in Pending \ q.due : approvals[a].expiresAt > q.at

(* A request decided by a standing permission was never open. *)
PermittedIsDecided ==
    \A a \in DOMAIN approvals : approvals[a].autoApproved => approvals[a].status = "approved"

(* Expiry needs no scheduler: whoever opens a list or asks for a purchase  *)
(* after a request lapsed settles it, unless the process dies first.       *)
ReaderSettlesOverdue ==
    \A a \in ApprovalIds : \A r \in Requests :
      (At(r, "findOverdue") /\ a \in DOMAIN approvals /\ a \in Overdue(clock))
        ~> (a \notin Pending \/ At(r, "crashed"))

(* The rows implement PurchaseDecision. *)
Decision(a) ==
    IF a \notin DOMAIN approvals THEN "none"
    ELSE IF approvals[a].autoApproved THEN "permitted"
    ELSE IF approvals[a].status = "pending" THEN "open"
    ELSE approvals[a].status

Promise == INSTANCE PurchaseDecision
             WITH Ids <- ApprovalIds, decision <- [a \in ApprovalIds |-> Decision(a)]

(* A request is asked once, stays open until decided, a standing           *)
(* permission is final, and the child hears of decisions only afterwards.  *)
KeepsPromise == Promise!Spec

(* The inductive invariant behind the theorems of ApprovalsProofs.         *)
IInv ==
    /\ TypeOK
    /\ AnsweredInTime
    /\ OneOpenRequest
    /\ PermittedIsDecided
    /\ \A r \in Requests : LocalsOK(r)
=============================================================================
