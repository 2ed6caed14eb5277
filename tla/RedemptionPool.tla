---------------------------- MODULE RedemptionPool ----------------------------
(***************************************************************************)
(* The connection pool of one instance of the API and the transactions     *)
(* that redeem share links.  A redemption takes a pooled connection, locks *)
(* the row of its link, and asks the pool for another connection for a     *)
(* query it does not pass its transaction to.  What is written, and the    *)
(* queries before and after the transaction, are left out: those of other  *)
(* requests, which hold one connection and wait for none, stand for them.  *)
(***************************************************************************)
EXTENDS Naturals, FiniteSets

CONSTANTS
    Redeemers,          \* requests that redeem a link
    Readers,            \* requests of a single query, a session's validation say
    Via,                \* redeemer -> "accept", "register" or "join"
    LinkOf,             \* redeemer -> the link it redeems
    PoolSize            \* DB_POOL_SIZE

VARIABLE pc             \* where each request is

Requests == Redeemers \cup Readers

(* Two connections while the second query of a redemption runs.            *)
Holders == {r \in Requests : pc[r] \in {"query", "lock", "find", "finding", "write"}}

InUse == Cardinality(Holders) + Cardinality({r \in Requests : pc[r] = "finding"})

Goto(r, from, to) == pc[r] = from /\ pc' = [pc EXCEPT ![r] = to]

(* node-postgres hands out a connection; without a timeout a request that  *)
(* gets none waits.                                                        *)
Connect(r, from, to) == InUse < PoolSize /\ Goto(r, from, to)

HasLocked(r) == r \in Redeemers /\ pc[r] \in {"find", "finding", "write"}

Arrive(r) == Goto(r, "idle", "start")

Query(r) == r \in Readers /\ Connect(r, "start", "query")

Answer(r) == Goto(r, "query", "done")

BeginTransaction(r) == r \in Redeemers /\ Connect(r, "start", "lock")

(* The link may be revoked, expired, spent or of another kind.  The caller *)
(* of joinAsExistingPlayer is then looked up, by this connection: one who  *)
(* named profiles or has one needs no other.                               *)
LockForRedemption(r) ==
    /\ pc[r] = "lock"
    /\ \A s \in Redeemers : HasLocked(s) => LinkOf[s] # LinkOf[r]
    /\ \E to \in IF Via[r] = "join" THEN {"done", "find", "write"} ELSE {"done", "find"} :
         Goto(r, "lock", to)

(* accept and registerViaShareLink look whether the address has an account. *)
FindByEmail(r) == r \in Redeemers /\ Via[r] # "join" /\ Connect(r, "find", "finding")

(* requireSelfProfile makes a profile of the account's name.               *)
FindById(r) == r \in Redeemers /\ Via[r] = "join" /\ Connect(r, "find", "finding")

(* Registration refuses an address that has an account; accept may.        *)
Found(r) ==
    \E refused \in IF Via[r] = "join" THEN {FALSE} ELSE BOOLEAN :
      Goto(r, "finding", IF refused THEN "done" ELSE "write")

Commit(r) == Goto(r, "write", "done")

Init == pc = [r \in Requests |-> "idle"]

Step(r) ==
    \/ Query(r) \/ Answer(r)
    \/ BeginTransaction(r) \/ LockForRedemption(r)
    \/ FindByEmail(r) \/ FindById(r)
    \/ r \in Redeemers /\ Found(r)
    \/ Commit(r)

Next == \E r \in Requests : Arrive(r) \/ Step(r)

(* Queries are answered, and a connection or a lock given back is given to *)
(* a request that waits for it: each is made once, so none is passed over  *)
(* for ever.                                                               *)
Fairness == \A r \in Requests : WF_pc(Step(r))

Spec == Init /\ [][Next]_pc /\ Fairness

----------------------------------------------------------------------------
(* What is promised of a pool that is too small: requests queue behind it, *)
(* and are served in the end.                                              *)
EveryRequestIsServed == \A r \in Requests : pc[r] = "start" ~> pc[r] = "done"

(* What a request waits for is there: an answer, a connection, or the lock *)
(* of its link.                                                            *)
CanMove(r) ==
    \/ pc[r] \in {"query", "finding", "write"}
    \/ pc[r] \in {"start", "find"} /\ InUse < PoolSize
    \/ pc[r] = "lock" /\ \A s \in Redeemers : HasLocked(s) => LinkOf[s] # LinkOf[r]

Stuck ==
    /\ \E r \in Requests : pc[r] \notin {"idle", "done"}
    /\ \A r \in Requests : ~CanMove(r)

(* If requests wait for each other for ever, redemptions hold every        *)
(* connection there is, one of them waits for another connection, and      *)
(* each of the others for the lock of such a one.                          *)
StuckByRedemptions ==
    LET waiting(at) == {r \in Redeemers : pc[r] = at}
    IN  Stuck => /\ Cardinality(waiting("lock") \cup waiting("find")) = PoolSize
                 /\ waiting("find") # {}
                 /\ \A r \in waiting("lock") : \E s \in waiting("find") : LinkOf[s] = LinkOf[r]
=============================================================================
