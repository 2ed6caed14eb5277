---------------------------- MODULE ApprovalsProofs ----------------------------
(***************************************************************************)
(* Proofs about Approvals, for any children, events, ids, request slots,   *)
(* Ttl and clock.                                                          *)
(*                                                                         *)
(* A row is written in two ways: SettleRow closes one that no standing     *)
(* permission decided, InsertRow adds one that lapses in the future.       *)
(* Either keeps the table's own invariants and is a RowStep, and a RowStep *)
(* keeps what every other request remembers true.                          *)
(***************************************************************************)
EXTENDS Approvals, TLAPS

Closed == {"approved", "denied", "expired"}

TableOK ==
    /\ DOMAIN approvals \subseteq ApprovalIds
    /\ \A a \in DOMAIN approvals : approvals[a] \in PurchaseApproval
    /\ AnsweredInTime
    /\ OneOpenRequest
    /\ PermittedIsDecided

(* What any step does to the rows: they keep what never changes, closed    *)
(* ones stay closed, and a new one lapses later.                           *)
RowStep ==
    /\ \A a \in DOMAIN approvals :
         /\ a \in DOMAIN approvals'
         /\ approvals'[a].expiresAt = approvals[a].expiresAt
         /\ approvals'[a].autoApproved = approvals[a].autoApproved
         /\ approvals[a].status # "pending" => approvals'[a].status # "pending"
    /\ \A a \in DOMAIN approvals' \ DOMAIN approvals : approvals'[a].expiresAt > clock

(* Closing a row at an instant on the right side of its deadline keeps the *)
(* table's invariants.                                                     *)
LEMMA SettleRow ==
    ASSUME TableOK, NEW a \in DOMAIN approvals, NEW st \in Closed, NEW at \in Nat,
           ~approvals[a].autoApproved,
           st = "expired" => approvals[a].expiresAt <= at,
           st \in Answers => at < approvals[a].expiresAt,
           Settle(a, st, at)
    PROVE  TableOK' /\ RowStep /\ approvals'[a].status # "pending"
<1>1. DOMAIN approvals' = DOMAIN approvals
    BY DEF Settle
<1>2. \A b \in DOMAIN approvals : b # a => approvals'[b] = approvals[b]
    BY DEF Settle
<1>3. /\ approvals'[a].status = st
      /\ approvals'[a].respondedAt = at
      /\ approvals'[a].child = approvals[a].child
      /\ approvals'[a].event = approvals[a].event
      /\ approvals'[a].expiresAt = approvals[a].expiresAt
      /\ approvals'[a].autoApproved = approvals[a].autoApproved
    BY DEF Settle, TableOK, PurchaseApproval
<1>4. approvals'[a] \in PurchaseApproval
    BY DEF Settle, TableOK, PurchaseApproval, Closed, ApprovalStatus, Answers, Nullable
<1>5. AnsweredInTime'
    BY <1>1, <1>2, <1>3, <1>4 DEF TableOK, AnsweredInTime, Closed, Answers, PurchaseApproval
<1>6. OneOpenRequest'
    BY <1>1, <1>2, <1>3 DEF TableOK, OneOpenRequest, Pending, Closed
<1>7. PermittedIsDecided'
    BY <1>1, <1>2, <1>3 DEF TableOK, PermittedIsDecided
<1>8. RowStep
    BY <1>1, <1>2, <1>3 DEF RowStep, Closed
<1> QED
    BY <1>1, <1>2, <1>3, <1>4, <1>5, <1>6, <1>7, <1>8 DEF TableOK, Closed

(* Inserting a request no open one stands against keeps them too.          *)
LEMMA InsertRow ==
    ASSUME TableOK, clock \in Nat, NEW r \in Requests, NEW a \in ApprovalIds \ DOMAIN approvals,
           reqs[r] \in Request, reqs[r].child \in Children, reqs[r].event \in Events,
           reqs[r].auto \/ OpenFor(reqs[r].child, reqs[r].event) = {},
           approvals' = [b \in DOMAIN approvals \cup {a} |->
                           IF b = a THEN NewApproval(r) ELSE approvals[b]]
    PROVE  TableOK' /\ RowStep
<1>1. DOMAIN approvals' = DOMAIN approvals \cup {a}
    OBVIOUS
<1>2. \A b \in DOMAIN approvals : approvals'[b] = approvals[b]
    OBVIOUS
<1> DEFINE n == approvals'[a]
<1>3. n = NewApproval(r)
    OBVIOUS
<1>4. /\ n.child = reqs[r].child /\ n.event = reqs[r].event
      /\ n.status = IF reqs[r].auto THEN "approved" ELSE "pending"
      /\ n.respondedAt = IF reqs[r].auto THEN clock ELSE None
      /\ n.expiresAt = clock + Ttl /\ n.autoApproved = reqs[r].auto
    BY <1>3 DEF NewApproval
<1>5. n \in PurchaseApproval
    BY <1>3, BoundsAssumption
    DEF NewApproval, PurchaseApproval, ApprovalStatus, Answers, Nullable, Request
<1>6. reqs[r].auto \in BOOLEAN
    BY DEF Request
<1> HIDE DEF n
<1>7. AnsweredInTime'
    <2>1. /\ n.status \in Answers /\ ~n.autoApproved => n.respondedAt < n.expiresAt
          /\ n.status = "expired" => n.respondedAt >= n.expiresAt
          /\ n.status = "pending" => n.respondedAt = None
        BY <1>4, <1>6 DEF Answers
    <2> QED
        BY <2>1, <1>1, <1>2 DEF TableOK, AnsweredInTime, n
<1>8. OneOpenRequest'
    <2>1. Pending' = IF reqs[r].auto THEN Pending ELSE Pending \cup {a}
        BY <1>1, <1>2, <1>4, <1>6 DEF Pending, n
    <2> QED
        BY <2>1, <1>2, <1>4, <1>6 DEF TableOK, OneOpenRequest, OpenFor, Pending, n
<1>9. PermittedIsDecided'
    BY <1>1, <1>2, <1>4, <1>6 DEF TableOK, PermittedIsDecided, n
<1>10. RowStep
    BY <1>1, <1>2, <1>4, BoundsAssumption DEF RowStep, n
<1> QED
    BY <1>1, <1>2, <1>5, <1>7, <1>8, <1>9, <1>10 DEF TableOK, n

(* A RowStep keeps the locals of a request that does not move itself.      *)
LEMMA LocalsKept ==
    ASSUME TypeOK, NEW s \in Requests, LocalsOK(s), RowStep,
           TableOK', clock' \in Nat, clock <= clock',
           reqs'[s] = reqs[s]
    PROVE  LocalsOK(s)'
<1> DEFINE q == reqs[s]
<1>1. q \in Request /\ clock \in Nat
    BY DEF TypeOK
<1>2. q.at \in Nat => q.at <= clock /\ q.at <= clock'
    BY <1>1 DEF LocalsOK
<1>3. \A a \in DOMAIN approvals :
        /\ a \in DOMAIN approvals'
        /\ approvals'[a].expiresAt = approvals[a].expiresAt
        /\ approvals'[a].autoApproved = approvals[a].autoApproved
        /\ approvals[a].status # "pending" => approvals'[a].status # "pending"
    BY DEF RowStep
<1>4. ASSUME q.pc \in {"expire", "announce", "readQueue"}, q.op = "list"
      PROVE  q.at \in Nat /\ \A a \in Pending' \ q.due : approvals'[a].expiresAt > q.at
    <2>1. q.at \in Nat /\ \A a \in Pending \ q.due : approvals[a].expiresAt > q.at
        BY <1>4 DEF LocalsOK
    <2>2. ASSUME NEW a \in Pending' \ q.due PROVE approvals'[a].expiresAt > q.at
        <3>1. CASE a \in DOMAIN approvals
            BY <3>1, <2>1, <2>2, <1>3 DEF Pending
        <3>2. CASE a \notin DOMAIN approvals
            <4>1. a \in DOMAIN approvals' /\ approvals'[a].expiresAt > clock
                BY <3>2, <2>2 DEF Pending, RowStep
            <4>2. approvals'[a].expiresAt \in Nat
                BY <4>1 DEF TableOK, PurchaseApproval
            <4> QED
                BY <4>1, <4>2, <1>2, <2>1, <1>1
        <3> QED
            BY <3>1, <3>2
    <2> QED
        BY <2>1, <2>2
<1> QED
    BY <1>1, <1>2, <1>3, <1>4 DEF LocalsOK

(* What IInv says of the rows. *)
LEMMA TableOfIInv == IInv <=> TypeOK /\ TableOK /\ \A r \in Requests : LocalsOK(r)
BY DEF IInv, TypeOK, TableOK

(* A step of one request keeps the invariant when it keeps its own locals  *)
(* in order and is a RowStep of a table in order.                          *)
LEMMA StepOf ==
    ASSUME IInv, NEW r \in Requests, TableOK', RowStep, UNCHANGED clock,
           announced' \in [ApprovalIds -> SUBSET ApprovalStatus],
           NEW q \in Request, reqs' = [reqs EXCEPT ![r] = q], LocalsOK(r)'
    PROVE  IInv'
<1>1. TypeOK /\ \A s \in Requests : LocalsOK(s)
    BY DEF IInv
<1>2. TypeOK'
    BY <1>1 DEF TypeOK, TableOK
<1>3. ASSUME NEW s \in Requests PROVE LocalsOK(s)'
    <2>1. CASE s = r
        BY <2>1
    <2>2. CASE s # r
        <3>1. reqs'[s] = reqs[s] /\ clock \in Nat /\ clock' = clock
            BY <2>2, <1>1 DEF TypeOK
        <3> QED
            BY <3>1, <1>1, LocalsKept
    <2> QED
        BY <2>1, <2>2
<1> QED
    BY <1>2, <1>3 DEF IInv, TableOK

(* Steps that leave the rows alone are RowSteps. *)
LEMMA RowsKept ==
    ASSUME IInv, UNCHANGED approvals
    PROVE  TableOK' /\ RowStep
BY DEF IInv, TableOK, TypeOK, RowStep, AnsweredInTime, OneOpenRequest, PermittedIsDecided, Pending

LEMMA IdleRequest == Idle \in Request
BY DEF Idle, Request, PCs, Nullable

LEMMA InitInvariant == Init => IInv
<1> SUFFICES ASSUME Init PROVE IInv
    OBVIOUS
<1>1. DOMAIN approvals = {} /\ \A r \in Requests : reqs[r] = Idle
    BY DEF Init
<1>2. Idle \in Request
    BY DEF Idle, Request, PCs, Nullable
<1>3. TypeOK
    BY <1>1, <1>2 DEF Init, TypeOK
<1>4. AnsweredInTime /\ OneOpenRequest /\ PermittedIsDecided
    BY <1>1 DEF AnsweredInTime, OneOpenRequest, PermittedIsDecided, Pending
<1>5. \A r \in Requests : LocalsOK(r)
    BY <1>1, NoneAssumption DEF Idle, LocalsOK, Ops
<1> QED
    BY <1>3, <1>4, <1>5 DEF IInv

----------------------------------------------------------------------------
(* One lemma per action. *)

LEMMA StartPurchaseStep ==
    ASSUME IInv, NEW r \in Requests, NEW c \in Children, NEW e \in Events, NEW auto \in BOOLEAN,
           StartPurchase(r, c, e, auto)
    PROVE  IInv' /\ RowStep
<1> DEFINE q == [Idle EXCEPT !.pc = "findOverdue", !.op = "purchase", !.child = c,
                             !.event = e, !.auto = auto]
<1>1. /\ q.pc = "findOverdue" /\ q.op = "purchase" /\ q.child = c /\ q.event = e
      /\ q.at = None /\ q.due = {}
    BY DEF Idle
<1>2. q \in Request
    BY IdleRequest DEF Request, PCs, Nullable, Ops
<1>3. reqs' = [reqs EXCEPT ![r] = q] /\ UNCHANGED <<clock, approvals, announced>>
    BY DEF StartPurchase
<1> HIDE DEF q
<1>4. reqs'[r] = q
    BY <1>3 DEF IInv, TypeOK
<1>5. LocalsOK(r)'
    BY <1>1, <1>3, <1>4, NoneAssumption DEF LocalsOK
<1> QED
    BY <1>2, <1>3, <1>5, RowsKept, StepOf DEF IInv, TypeOK

LEMMA FinishLocals ==
    ASSUME IInv, NEW r \in Requests, Finish(r)
    PROVE  reqs' = [reqs EXCEPT ![r] = Idle] /\ Idle \in Request /\ LocalsOK(r)'
<1>1. Idle \in Request
    BY DEF Idle, Request, PCs, Nullable
<1>2. reqs'[r] = Idle
    BY DEF Finish, IInv, TypeOK
<1>3. LocalsOK(r)'
    BY <1>2, NoneAssumption DEF Idle, LocalsOK, Ops
<1> QED
    BY <1>1, <1>3 DEF Finish

LEMMA FindOpenStep ==
    ASSUME IInv, NEW r \in Requests, FindOpen(r)
    PROVE  IInv' /\ RowStep
<1>1. CASE Finish(r)
    BY <1>1, FinishLocals, RowsKept, StepOf DEF FindOpen, IInv, TypeOK
<1>2. CASE SetPc(r, "saveApproval")
    <2> DEFINE q == [reqs[r] EXCEPT !.pc = "saveApproval"]
    <2>1. reqs' = [reqs EXCEPT ![r] = q] /\ reqs'[r] = q
        BY <1>2 DEF SetPc, IInv, TypeOK
    <2>2. q \in Request
        BY DEF IInv, TypeOK, Request, PCs
    <2>3. reqs[r].op = "purchase" /\ LocalsOK(r) /\ reqs[r] \in Request
        BY DEF FindOpen, At, IInv, LocalsOK, TypeOK
    <2>4. LocalsOK(r)'
        BY <2>1, <2>3 DEF LocalsOK, FindOpen, At, Request
    <2> QED
        BY <2>1, <2>2, <2>4, RowsKept, StepOf DEF FindOpen, IInv, TypeOK
<1> QED
    BY <1>1, <1>2 DEF FindOpen

LEMMA SaveApprovalStep ==
    ASSUME IInv, NEW r \in Requests, SaveApproval(r)
    PROVE  IInv' /\ RowStep
<1>1. /\ TableOK /\ clock \in Nat /\ reqs[r] \in Request
      /\ reqs[r].child \in Children /\ reqs[r].event \in Events
    BY DEF IInv, TableOK, TypeOK, SaveApproval, At, LocalsOK
<1>2. TableOK' /\ RowStep
    <2>1. CASE UNCHANGED approvals
        BY <2>1, RowsKept
    <2>2. CASE \E a \in ApprovalIds \ DOMAIN approvals :
                 /\ reqs[r].auto \/ OpenFor(reqs[r].child, reqs[r].event) = {}
                 /\ approvals' = [b \in DOMAIN approvals \cup {a} |->
                                    IF b = a THEN NewApproval(r) ELSE approvals[b]]
        BY <2>2, <1>1, InsertRow
    <2> QED
        BY <2>1, <2>2 DEF SaveApproval
<1> QED
    BY <1>2, FinishLocals, StepOf DEF SaveApproval, IInv, TypeOK

LEMMA FindOverdueStep ==
    ASSUME IInv, NEW r \in Requests, FindOverdue(r)
    PROVE  IInv' /\ RowStep
<1> DEFINE q == [reqs[r] EXCEPT !.pc = "expire", !.at = clock, !.due = Overdue(clock)]
<1>1. reqs' = [reqs EXCEPT ![r] = q] /\ reqs'[r] = q
    BY DEF FindOverdue, IInv, TypeOK
<1>2. reqs[r] \in Request /\ clock \in Nat /\ LocalsOK(r)
    BY DEF IInv, TypeOK
<1>3. /\ q.pc = "expire" /\ q.at = clock /\ q.due = Overdue(clock)
      /\ q.op = reqs[r].op /\ q.child = reqs[r].child /\ q.event = reqs[r].event
    BY <1>2 DEF Request
<1>4. q \in Request
    BY <1>2 DEF Request, PCs, Nullable, Overdue, Pending, IInv, TypeOK
<1> HIDE DEF q
<1>5. \A a \in Overdue(clock) :
        a \in DOMAIN approvals /\ ~approvals[a].autoApproved /\ approvals[a].expiresAt <= clock
    BY DEF Overdue, Pending, IInv, PermittedIsDecided
<1>6. \A a \in Pending \ Overdue(clock) : approvals[a].expiresAt > clock
    BY <1>2 DEF Overdue, Pending, IInv, TypeOK, PurchaseApproval
<1>7. UNCHANGED <<clock, approvals, announced>>
    BY DEF FindOverdue
<1>8. LocalsOK(r)'
    BY <1>1, <1>2, <1>3, <1>5, <1>6, <1>7 DEF LocalsOK, Pending
<1> QED
    BY <1>1, <1>4, <1>7, <1>8, RowsKept, StepOf DEF IInv, TypeOK

LEMMA MarkExpiredStep ==
    ASSUME IInv, NEW r \in Requests, NEW a \in ApprovalIds, MarkExpired(r, a)
    PROVE  IInv' /\ RowStep
<1> DEFINE q == [reqs[r] EXCEPT !.pc = "announce", !.id = a, !.status = "expired", !.due = @ \ {a}]
<1>1. reqs' = [reqs EXCEPT ![r] = q] /\ reqs'[r] = q
    BY DEF MarkExpired, IInv, TypeOK
<1>2. /\ reqs[r] \in Request /\ LocalsOK(r) /\ TableOK /\ reqs[r].pc = "expire"
      /\ a \in reqs[r].due
    BY DEF IInv, TypeOK, TableOK, MarkExpired, At
<1>3. /\ q.pc = "announce" /\ q.id = a /\ q.status = "expired" /\ q.due = reqs[r].due \ {a}
      /\ q.op = reqs[r].op /\ q.child = reqs[r].child /\ q.event = reqs[r].event
      /\ q.at = reqs[r].at
    BY <1>2 DEF Request
<1>4. q \in Request
    BY <1>2 DEF Request, PCs, Nullable, ApprovalStatus
<1> HIDE DEF q
<1>5. /\ a \in DOMAIN approvals /\ ~approvals[a].autoApproved /\ reqs[r].at \in Nat
      /\ approvals[a].expiresAt <= reqs[r].at
    BY <1>2 DEF LocalsOK
<1>6. TableOK' /\ RowStep /\ approvals'[a].status # "pending"
    BY <1>2, <1>5, SettleRow DEF MarkExpired, Closed, Answers
<1>7. UNCHANGED <<clock, announced>> /\ DOMAIN approvals' = DOMAIN approvals
    BY DEF MarkExpired, Settle
<1>8. LocalsOK(r)'
    <2>1. Pending' \subseteq Pending \ {a}
        BY <1>6, <1>7 DEF Pending, RowStep
    <2>2. \A b \in DOMAIN approvals :
            /\ approvals'[b].expiresAt = approvals[b].expiresAt
            /\ approvals'[b].autoApproved = approvals[b].autoApproved
        BY <1>6 DEF RowStep
    <2>3. reqs[r].op = "list" => \A b \in Pending \ reqs[r].due : approvals[b].expiresAt > reqs[r].at
        BY <1>2 DEF LocalsOK
    <2>4. reqs[r].op = "list" => \A b \in Pending' \ q.due : approvals'[b].expiresAt > q.at
        BY <2>1, <2>2, <2>3, <1>3 DEF Pending
    <2> QED
        BY <1>1, <1>2, <1>3, <1>5, <1>6, <1>7, <2>2, <2>4 DEF LocalsOK
<1> QED
    BY <1>1, <1>4, <1>6, <1>7, <1>8, StepOf DEF IInv, TypeOK

LEMMA AnnounceStep ==
    ASSUME IInv, NEW r \in Requests, Announce(r)
    PROVE  IInv' /\ RowStep
<1>1. /\ reqs[r] \in Request /\ LocalsOK(r) /\ reqs[r].pc = "announce"
      /\ announced \in [ApprovalIds -> SUBSET ApprovalStatus]
    BY DEF IInv, TypeOK, Announce, At
<1>2. reqs[r].status \in ApprovalStatus
    BY <1>1 DEF LocalsOK, ApprovalStatus, Answers
<1>3. announced' \in [ApprovalIds -> SUBSET ApprovalStatus]
    BY <1>1, <1>2 DEF Announce
<1>4. CASE reqs[r].status = "expired"
    <2> DEFINE q == [reqs[r] EXCEPT !.pc = "expire", !.id = None, !.status = None]
    <2>1. reqs' = [reqs EXCEPT ![r] = q] /\ reqs'[r] = q /\ UNCHANGED <<clock, approvals>>
        BY <1>4 DEF Announce, IInv, TypeOK
    <2>2. q \in Request
        BY <1>1 DEF Request, PCs, Nullable
    <2>3. /\ q.pc = "expire" /\ q.due = reqs[r].due /\ q.at = reqs[r].at
          /\ q.op = reqs[r].op /\ q.child = reqs[r].child /\ q.event = reqs[r].event
        BY <1>1 DEF Request
    <2> HIDE DEF q
    <2>4. LocalsOK(r)'
        BY <1>1, <1>4, <2>1, <2>3 DEF LocalsOK, Pending
    <2> QED
        BY <1>3, <2>1, <2>2, <2>4, RowsKept, StepOf
<1>5. CASE reqs[r].status # "expired"
    BY <1>3, <1>5, FinishLocals, RowsKept, StepOf DEF Announce
<1> QED
    BY <1>4, <1>5

LEMMA AllExpiredStep ==
    ASSUME IInv, NEW r \in Requests, AllExpired(r)
    PROVE  IInv' /\ RowStep
<1>1. /\ reqs[r] \in Request /\ LocalsOK(r) /\ reqs[r].pc = "expire" /\ reqs[r].due = {}
      /\ UNCHANGED <<clock, approvals, announced>>
      /\ announced' \in [ApprovalIds -> SUBSET ApprovalStatus]
    BY DEF IInv, TypeOK, AllExpired, At
<1>2. CASE reqs[r].op = "purchase"
    <2> DEFINE q == [reqs[r] EXCEPT !.pc = "findOpen", !.at = None]
    <2>1. reqs' = [reqs EXCEPT ![r] = q] /\ reqs'[r] = q
        BY <1>2 DEF AllExpired, IInv, TypeOK
    <2>2. q \in Request
        BY <1>1 DEF Request, PCs, Nullable
    <2>3. /\ q.pc = "findOpen" /\ q.due = {} /\ q.at = None
          /\ q.op = "purchase" /\ q.child = reqs[r].child /\ q.event = reqs[r].event
        BY <1>1, <1>2 DEF Request
    <2> HIDE DEF q
    <2>4. LocalsOK(r)'
        BY <1>1, <1>2, <2>1, <2>3, NoneAssumption DEF LocalsOK
    <2> QED
        BY <1>1, <2>1, <2>2, <2>4, RowsKept, StepOf
<1>3. CASE reqs[r].op = "list"
    <2> DEFINE q == [reqs[r] EXCEPT !.pc = "readQueue"]
    <2>1. reqs' = [reqs EXCEPT ![r] = q] /\ reqs'[r] = q
        BY <1>3 DEF AllExpired, SetPc, IInv, TypeOK
    <2>2. q \in Request
        BY <1>1 DEF Request, PCs
    <2>3. q.pc = "readQueue" /\ q.due = {} /\ q.at = reqs[r].at /\ q.op = "list"
        BY <1>1, <1>3 DEF Request
    <2> HIDE DEF q
    <2>4. LocalsOK(r)'
        BY <1>1, <1>3, <2>1, <2>3 DEF LocalsOK, Pending
    <2> QED
        BY <1>1, <2>1, <2>2, <2>4, RowsKept, StepOf
<1>4. CASE reqs[r].op \notin {"purchase", "list"}
    <2>1. Finish(r)
        BY <1>4 DEF AllExpired
    <2> QED
        BY <1>1, <2>1, FinishLocals, RowsKept, StepOf
<1> QED
    BY <1>2, <1>3, <1>4

LEMMA StartListStep ==
    ASSUME IInv, NEW r \in Requests, StartList(r)
    PROVE  IInv' /\ RowStep
<1> DEFINE q == [Idle EXCEPT !.pc = "findOverdue", !.op = "list"]
<1>1. q.pc = "findOverdue" /\ q.op = "list" /\ q.at = None /\ q.due = {}
    BY DEF Idle
<1>2. q \in Request
    BY IdleRequest DEF Request, PCs, Nullable, Ops
<1>3. reqs' = [reqs EXCEPT ![r] = q] /\ UNCHANGED <<clock, approvals, announced>>
    BY DEF StartList
<1> HIDE DEF q
<1>4. reqs'[r] = q
    BY <1>3 DEF IInv, TypeOK
<1>5. LocalsOK(r)'
    BY <1>1, <1>3, <1>4, NoneAssumption DEF LocalsOK
<1> QED
    BY <1>2, <1>3, <1>5, RowsKept, StepOf DEF IInv, TypeOK

LEMMA StartRespondStep ==
    ASSUME IInv, NEW r \in Requests, NEW a \in DOMAIN approvals, NEW status \in Answers,
           StartRespond(r, a, status)
    PROVE  IInv' /\ RowStep
<1>1. /\ clock \in Nat /\ a \in ApprovalIds /\ approvals[a] \in PurchaseApproval
      /\ UNCHANGED <<clock, approvals, announced>> /\ approvals[a].status = "pending"
    BY DEF IInv, TypeOK, StartRespond, Pending
<1>2. ~approvals[a].autoApproved
    BY <1>1 DEF IInv, PermittedIsDecided
<1> DEFINE begun == [Idle EXCEPT !.op = "respond", !.at = clock]
<1>3. begun \in Request
    BY IdleRequest, <1>1 DEF Request, PCs, Nullable, Ops
<1>4. begun.op = "respond" /\ begun.at = clock /\ begun.due = {}
    BY DEF Idle
<1>5. reqs' = [reqs EXCEPT ![r] =
                 IF a \in Overdue(clock)
                 THEN [begun EXCEPT !.pc = "expire", !.due = {a}]
                 ELSE [begun EXCEPT !.pc = "saveAnswer", !.id = a, !.status = status]]
    BY DEF StartRespond
<1> HIDE DEF begun
<1>6. CASE a \in Overdue(clock)
    <2> DEFINE q == [begun EXCEPT !.pc = "expire", !.due = {a}]
    <2>1. reqs' = [reqs EXCEPT ![r] = q] /\ reqs'[r] = q
        BY <1>5, <1>6 DEF IInv, TypeOK
    <2>2. q \in Request
        BY <1>1, <1>3 DEF Request, PCs
    <2>3. q.pc = "expire" /\ q.op = "respond" /\ q.at = clock /\ q.due = {a}
        BY <1>3, <1>4 DEF Request
    <2> HIDE DEF q
    <2>4. LocalsOK(r)'
        BY <1>1, <1>2, <1>6, <2>1, <2>3 DEF LocalsOK, Overdue
    <2> QED
        BY <1>1, <2>1, <2>2, <2>4, RowsKept, StepOf DEF IInv, TypeOK
<1>7. CASE a \notin Overdue(clock)
    <2> DEFINE q == [begun EXCEPT !.pc = "saveAnswer", !.id = a, !.status = status]
    <2>1. reqs' = [reqs EXCEPT ![r] = q] /\ reqs'[r] = q
        BY <1>5, <1>7 DEF IInv, TypeOK
    <2>2. q \in Request
        BY <1>1, <1>3 DEF Request, PCs, Nullable, ApprovalStatus
    <2>3. /\ q.pc = "saveAnswer" /\ q.op = "respond" /\ q.at = clock /\ q.due = {}
          /\ q.id = a /\ q.status = status
        BY <1>3, <1>4 DEF Request
    <2> HIDE DEF q
    <2>4. clock < approvals[a].expiresAt
        BY <1>1, <1>7 DEF Overdue, Pending, PurchaseApproval
    <2>5. LocalsOK(r)'
        BY <1>1, <1>2, <2>1, <2>3, <2>4 DEF LocalsOK
    <2> QED
        BY <1>1, <2>1, <2>2, <2>5, RowsKept, StepOf DEF IInv, TypeOK
<1> QED
    BY <1>6, <1>7

LEMMA SaveAnswerStep ==
    ASSUME IInv, NEW r \in Requests, SaveAnswer(r)
    PROVE  IInv' /\ RowStep
<1> DEFINE q == [reqs[r] EXCEPT !.pc = "announce", !.at = None]
<1>1. reqs' = [reqs EXCEPT ![r] = q] /\ reqs'[r] = q
    BY DEF SaveAnswer, IInv, TypeOK
<1>2. reqs[r] \in Request /\ LocalsOK(r) /\ TableOK /\ reqs[r].pc = "saveAnswer"
    BY DEF IInv, TypeOK, TableOK, SaveAnswer, At
<1>3. /\ q.pc = "announce" /\ q.id = reqs[r].id /\ q.status = reqs[r].status
      /\ q.due = reqs[r].due /\ q.op = reqs[r].op /\ q.child = reqs[r].child
      /\ q.event = reqs[r].event /\ q.at = None
    BY <1>2 DEF Request
<1>4. q \in Request
    BY <1>2 DEF Request, PCs, Nullable
<1> HIDE DEF q
<1>5. /\ reqs[r].id \in DOMAIN approvals /\ ~approvals[reqs[r].id].autoApproved
      /\ reqs[r].at \in Nat /\ reqs[r].at < approvals[reqs[r].id].expiresAt
      /\ reqs[r].status \in Answers /\ reqs[r].due = {} /\ reqs[r].op = "respond"
    BY <1>2 DEF LocalsOK
<1>6. TableOK' /\ RowStep /\ approvals'[reqs[r].id].status # "pending"
    BY <1>2, <1>5, SettleRow DEF SaveAnswer, Closed, Answers
<1>7. UNCHANGED <<clock, announced>> /\ DOMAIN approvals' = DOMAIN approvals
    BY DEF SaveAnswer, Settle
<1>8. approvals'[reqs[r].id].autoApproved = approvals[reqs[r].id].autoApproved
    BY <1>5, <1>6 DEF RowStep
<1>9. LocalsOK(r)'
    BY <1>1, <1>3, <1>5, <1>6, <1>7, <1>8, NoneAssumption DEF LocalsOK, Answers
<1> QED
    BY <1>1, <1>4, <1>6, <1>7, <1>9, StepOf DEF IInv, TypeOK

LEMMA ReadQueueStep ==
    ASSUME IInv, NEW r \in Requests, ReadQueue(r)
    PROVE  IInv' /\ RowStep
BY FinishLocals, RowsKept, StepOf DEF ReadQueue, IInv, TypeOK

LEMMA CrashStep ==
    ASSUME IInv, NEW r \in Requests, Crash(r)
    PROVE  IInv' /\ RowStep
<1> DEFINE q == [Idle EXCEPT !.pc = "crashed"]
<1>1. q.pc = "crashed" /\ q.op = None /\ q.at = None /\ q.due = {}
    BY DEF Idle
<1>2. q \in Request
    BY IdleRequest DEF Request, PCs
<1>3. reqs' = [reqs EXCEPT ![r] = q] /\ UNCHANGED <<clock, approvals, announced>>
    BY DEF Crash
<1> HIDE DEF q
<1>4. reqs'[r] = q
    BY <1>3 DEF IInv, TypeOK
<1>5. LocalsOK(r)'
    BY <1>1, <1>3, <1>4, NoneAssumption DEF LocalsOK, Ops
<1> QED
    BY <1>2, <1>3, <1>5, RowsKept, StepOf DEF IInv, TypeOK

LEMMA TickStep ==
    ASSUME IInv, Tick
    PROVE  IInv' /\ RowStep
<1>1. /\ clock \in Nat /\ clock' \in Nat /\ clock <= clock' /\ UNCHANGED <<approvals, announced, reqs>>
    BY DEF IInv, TypeOK, Tick
<1>2. TableOK' /\ RowStep
    BY <1>1, RowsKept
<1>3. TypeOK'
    BY <1>1, <1>2 DEF IInv, TypeOK, TableOK
<1>4. \A s \in Requests : LocalsOK(s)'
    BY <1>1, <1>2, LocalsKept DEF IInv
<1> QED
    BY <1>2, <1>3, <1>4 DEF IInv, TableOK

(* The invariant is inductive, and every step is a RowStep. *)
LEMMA NextStep == IInv /\ [Next]_vars => IInv' /\ RowStep
<1> SUFFICES ASSUME IInv, [Next]_vars PROVE IInv' /\ RowStep
    OBVIOUS
<1>1. CASE Tick
    BY <1>1, TickStep
<1>2. ASSUME NEW r \in Requests, StartRequest(r) PROVE IInv' /\ RowStep
    BY <1>2, StartPurchaseStep, StartListStep, StartRespondStep DEF StartRequest
<1>3. ASSUME NEW r \in Requests, Continue(r) PROVE IInv' /\ RowStep
    BY <1>3, FindOverdueStep, MarkExpiredStep, AnnounceStep, AllExpiredStep, FindOpenStep,
       SaveApprovalStep, ReadQueueStep, SaveAnswerStep DEF Continue
<1>4. ASSUME NEW r \in Requests, Crash(r) PROVE IInv' /\ RowStep
    BY <1>4, CrashStep
<1>5. CASE UNCHANGED vars
    <2>1. TableOK' /\ RowStep
        BY <1>5, RowsKept DEF vars
    <2>2. TypeOK' /\ \A s \in Requests : LocalsOK(s)'
        BY <1>5 DEF vars, IInv, TypeOK, LocalsOK, Pending
    <2> QED
        BY <2>1, <2>2 DEF IInv, TableOK
<1> QED
    BY <1>1, <1>2, <1>3, <1>4, <1>5 DEF Next

----------------------------------------------------------------------------
(* Every request in flight agrees with the rows, whatever the others did   *)
(* since it read them.                                                     *)
THEOREM Invariance == Spec => []IInv
BY InitInvariant, NextStep, PTL DEF Spec

(* Rows and in-flight requests keep the shape their handlers give them.    *)
THEOREM TypeCorrect == Spec => []TypeOK
BY Invariance, PTL DEF IInv

(* The 48-hour rule: no answer on record came after the deadline, no       *)
(* expiry before it.                                                       *)
THEOREM AnswersAreInTime == Spec => []AnsweredInTime
<1>1. IInv => AnsweredInTime
    BY DEF IInv
<1> QED
    BY <1>1, Invariance, PTL

(* A child never has two open requests for one event.                      *)
THEOREM OpenRequestsAreUnique == Spec => []OneOpenRequest
<1>1. IInv => OneOpenRequest
    BY DEF IInv
<1> QED
    BY <1>1, Invariance, PTL

(* A list never shows as open what had lapsed when it began.               *)
THEOREM ReadersSeeNoOverdue == Spec => []ReadersNeverSeeOverdue
<1>1. IInv => ReadersNeverSeeOverdue
    <2> SUFFICES ASSUME IInv, NEW r \in Requests, At(r, "readQueue"), NEW a \in Pending
                 PROVE  approvals[a].expiresAt > reqs[r].at
        BY DEF ReadersNeverSeeOverdue
    <2>1. LocalsOK(r) /\ reqs[r].pc = "readQueue"
        BY DEF IInv, At
    <2>2. reqs[r].op = "list" /\ reqs[r].due = {}
        BY <2>1 DEF LocalsOK
    <2> QED
        BY <2>1, <2>2 DEF LocalsOK
<1> QED
    BY <1>1, Invariance, PTL

----------------------------------------------------------------------------
(* The rows implement PurchaseDecision: an insertion asks, a closing       *)
(* decides, an announcement announces, everything else stutters.           *)

dec == [a \in ApprovalIds |-> Decision(a)]

LEMMA SettleDecides ==
    ASSUME IInv, NEW a \in DOMAIN approvals, NEW st \in Closed, NEW at,
           ~approvals[a].autoApproved, Settle(a, st, at), UNCHANGED announced
    PROVE  Promise!Decide(a)
<1>1. approvals[a] \in PurchaseApproval /\ a \in ApprovalIds
    BY DEF IInv, TypeOK
<1>2. /\ DOMAIN approvals' = DOMAIN approvals
      /\ \A b \in DOMAIN approvals : b # a => approvals'[b] = approvals[b]
      /\ approvals'[a].status = st /\ approvals'[a].autoApproved = approvals[a].autoApproved
    BY <1>1 DEF Settle, PurchaseApproval
<1>3. Decision(a) \in {"approved", "denied", "expired", "open"}
    BY <1>1 DEF Decision, PurchaseApproval, ApprovalStatus, Answers
<1>4. Decision(a)' = st /\ \A b \in ApprovalIds \ {a} : Decision(b)' = Decision(b)
    BY <1>2 DEF Decision, Closed
<1>5. dec' = [dec EXCEPT ![a] = st]
    BY <1>1, <1>4 DEF dec
<1> QED
    BY <1>1, <1>3, <1>5 DEF Promise!Decide, Promise!Decisions, Closed, dec

LEMMA InsertAsks ==
    ASSUME NEW r \in Requests, reqs[r].auto \in BOOLEAN,
           NEW a \in ApprovalIds \ DOMAIN approvals, UNCHANGED announced,
           approvals' = [b \in DOMAIN approvals \cup {a} |->
                           IF b = a THEN NewApproval(r) ELSE approvals[b]]
    PROVE  Promise!Ask(a)
<1>1. /\ DOMAIN approvals' = DOMAIN approvals \cup {a}
      /\ \A b \in DOMAIN approvals : approvals'[b] = approvals[b]
      /\ approvals'[a] = NewApproval(r)
    OBVIOUS
<1>2. Decision(a) = "none"
    BY DEF Decision
<1>3. Decision(a)' = IF reqs[r].auto THEN "permitted" ELSE "open"
    BY <1>1 DEF Decision, NewApproval
<1>4. \A b \in ApprovalIds \ {a} : Decision(b)' = Decision(b)
    BY <1>1 DEF Decision
<1>5. dec' = [dec EXCEPT ![a] = Decision(a)']
    BY <1>4 DEF dec
<1> QED
    BY <1>2, <1>3, <1>5 DEF Promise!Ask, dec

LEMMA AnnounceAnnounces ==
    ASSUME IInv, NEW r \in Requests, Announce(r)
    PROVE  Promise!Next
<1> DEFINE a == reqs[r].id
<1>1. /\ a \in DOMAIN approvals /\ ~approvals[a].autoApproved /\ a \in ApprovalIds
      /\ approvals[a].status # "pending" /\ reqs[r].status \in Closed
      /\ approvals[a] \in PurchaseApproval
    BY DEF IInv, TypeOK, Announce, At, LocalsOK, Closed, Answers
<1>2. Decision(a) \in Closed
    BY <1>1 DEF Decision, PurchaseApproval, ApprovalStatus, Answers, Closed
<1>3. \A b \in ApprovalIds : Decision(b)' = Decision(b)
    BY DEF Announce, Decision
<1>4. dec' = dec /\ announced' = [announced EXCEPT ![a] = @ \cup {reqs[r].status}]
    BY <1>3 DEF dec, Announce
<1>5. Promise!Announce(a)
    BY <1>1, <1>2, <1>4 DEF Promise!Announce, Promise!Decisions, Closed, dec
<1> QED
    BY <1>1, <1>5 DEF Promise!Next

LEMMA Stutter ==
    ASSUME UNCHANGED <<approvals, announced>>
    PROVE  UNCHANGED <<dec, announced>>
<1>1. \A b \in ApprovalIds : Decision(b)' = Decision(b)
    BY DEF Decision
<1> QED
    BY <1>1 DEF dec

LEMMA StepImplements ==
    IInv /\ [Next]_vars => [Promise!Next]_<<dec, announced>>
<1> SUFFICES ASSUME IInv, [Next]_vars PROVE Promise!Next \/ UNCHANGED <<dec, announced>>
    OBVIOUS
<1>1. CASE Tick \/ UNCHANGED vars
    BY <1>1, Stutter DEF Tick, vars
<1>2. ASSUME NEW r \in Requests, StartRequest(r) \/ Crash(r)
      PROVE  UNCHANGED <<dec, announced>>
    BY <1>2, Stutter DEF StartRequest, StartPurchase, StartList, StartRespond, Crash
<1>3. ASSUME NEW r \in Requests, Continue(r)
      PROVE  Promise!Next \/ UNCHANGED <<dec, announced>>
    <2>1. CASE FindOverdue(r) \/ AllExpired(r) \/ FindOpen(r) \/ ReadQueue(r)
        BY <2>1, Stutter DEF FindOverdue, AllExpired, FindOpen, ReadQueue
    <2>2. ASSUME NEW a \in ApprovalIds, MarkExpired(r, a) PROVE Promise!Next
        <3>1. a \in DOMAIN approvals /\ ~approvals[a].autoApproved
            BY <2>2 DEF IInv, MarkExpired, LocalsOK
        <3>2. Promise!Decide(a)
            BY <2>2, <3>1, SettleDecides DEF MarkExpired, Closed
        <3> QED
            BY <3>2 DEF Promise!Next
    <2>3. CASE Announce(r)
        BY <2>3, AnnounceAnnounces
    <2>4. CASE SaveApproval(r)
        <3>1. CASE UNCHANGED approvals
            BY <2>4, <3>1, Stutter DEF SaveApproval
        <3>2. ASSUME NEW a \in ApprovalIds \ DOMAIN approvals,
                     approvals' = [b \in DOMAIN approvals \cup {a} |->
                                     IF b = a THEN NewApproval(r) ELSE approvals[b]]
              PROVE  Promise!Next
            <4>1. reqs[r].auto \in BOOLEAN
                BY DEF IInv, TypeOK, Request
            <4>2. Promise!Ask(a)
                BY <2>4, <3>2, <4>1, InsertAsks DEF SaveApproval
            <4> QED
                BY <4>2 DEF Promise!Next
        <3> QED
            BY <2>4, <3>1, <3>2 DEF SaveApproval
    <2>5. CASE SaveAnswer(r)
        <3> DEFINE a == reqs[r].id
        <3>1. /\ a \in DOMAIN approvals /\ ~approvals[a].autoApproved /\ a \in ApprovalIds
              /\ reqs[r].status \in Closed
            BY <2>5 DEF IInv, TypeOK, SaveAnswer, At, LocalsOK, Closed, Answers
        <3>2. Promise!Decide(a)
            BY <2>5, <3>1, SettleDecides DEF SaveAnswer
        <3> QED
            BY <3>1, <3>2 DEF Promise!Next
    <2> QED
        BY <1>3, <2>1, <2>2, <2>3, <2>4, <2>5 DEF Continue
<1> QED
    BY <1>1, <1>2, <1>3 DEF Next

(* Concurrent handlers and crashes included, a purchase request is asked   *)
(* once, decided only once asked, never taken back to open, final when a   *)
(* standing permission decided it, and announced only once decided.        *)
THEOREM Implements == Spec => KeepsPromise
<1>1. Init => Promise!Init
    BY DEF Init, Promise!Init, Decision
<1>2. IInv /\ [Next]_vars => [Promise!Next]_<<[a \in ApprovalIds |-> Decision(a)], announced>>
    BY StepImplements DEF dec
<1> QED
    BY <1>1, <1>2, Invariance, PTL DEF Spec, KeepsPromise, Promise!Spec
=============================================================================
