--------------------------- MODULE MCAuthSessions ---------------------------
(* Instances of AuthSessions for TLC: the ids are uuids and no handler      *)
(* compares them, so permuting them, or the request slots, is a symmetry.   *)
EXTENDS AuthSessions, TLC

Symmetry == Permutations(SessionIds) \cup Permutations(TokenIds) \cup Permutations(Requests)

----------------------------------------------------------------------------
(* The rules about the principal a session stands for: two ids are those of *)
(* a caller and of somebody else.                                           *)
Rights == INSTANCE Permissions WITH Ids <- {"own", "other"}

ASSUME ImpersonationRule == Rights!ImpersonationStaysBelow

ASSUME ChildRule == Rights!ChildKeepsToItself

ASSUME TenancyRule == Rights!TenantsKeepToTheirOrganisation

ASSUME SiblingRule == Rights!SiblingsDoNotCount
============================================================================
