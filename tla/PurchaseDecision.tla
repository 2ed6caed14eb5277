--------------------------- MODULE PurchaseDecision ---------------------------
(***************************************************************************)
(* What ApprovalsService promises about a child's purchase request, with   *)
(* no clock, no requests in flight and no rows: it is asked once, it stays *)
(* open until it is decided, a standing permission decides it for good,    *)
(* and the child is told of a decision only after there is one.  Nothing   *)
(* here forbids a second decision: two answers at once are both taken.     *)
(***************************************************************************)
CONSTANT Ids

VARIABLES
    decision,   \* what became of each request
    announced   \* the decisions the child was told of

Decisions == {"approved", "denied", "expired"}

Init ==
    /\ decision = [a \in Ids |-> "none"]
    /\ announced = [a \in Ids |-> {}]

Ask(a) ==
    /\ decision[a] = "none"
    /\ \E d \in {"open", "permitted"} : decision' = [decision EXCEPT ![a] = d]
    /\ UNCHANGED announced

Decide(a) ==
    /\ decision[a] \in Decisions \cup {"open"}
    /\ \E d \in Decisions : decision' = [decision EXCEPT ![a] = d]
    /\ UNCHANGED announced

Announce(a) ==
    /\ decision[a] \in Decisions
    /\ \E d \in Decisions : announced' = [announced EXCEPT ![a] = @ \cup {d}]
    /\ UNCHANGED decision

Next == \E a \in Ids : Ask(a) \/ Decide(a) \/ Announce(a)

Spec == Init /\ [][Next]_<<decision, announced>>
=============================================================================
