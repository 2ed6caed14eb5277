---------------------------- MODULE MCCoachHiring ----------------------------
(* Small instances of CoachHiring. *)
EXTENDS CoachHiring, TLC

(* Ids carry no order. *)
Symmetry == Permutations(LinkIds) \cup Permutations(UserIds) \cup Permutations(EngagementIds)
              \cup Permutations(Requests) \cup Permutations(Trainers)
=============================================================================
