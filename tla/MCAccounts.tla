------------------------------ MODULE MCAccounts ------------------------------
(* Small instances of Accounts. *)
EXTENDS Accounts, TLC

(* Keys and addresses carry no order; the parent and its address are told  *)
(* apart from the others.                                                  *)
Symmetry ==
    Permutations(UserIds \ {Parent}) \cup Permutations(Emails \ {ParentEmail})
      \cup Permutations(TokenIds) \cup Permutations(Profiles) \cup Permutations(Requests)
=============================================================================
