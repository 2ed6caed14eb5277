----------------------------- MODULE MCApprovals -----------------------------
(* Small instances of Approvals. *)
EXTENDS Approvals, TLC

(* Ids carry no order.  Not used by the run that checks a liveness property. *)
Symmetry == Permutations(ApprovalIds) \cup Permutations(Requests)
=============================================================================
