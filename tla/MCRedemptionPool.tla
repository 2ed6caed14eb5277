--------------------------- MODULE MCRedemptionPool ---------------------------
(* Two people register by one link, a third joins by another.              *)
EXTENDS RedemptionPool

CONSTANTS g1, g2, j, q, link, other

MCVia == [r \in Redeemers |-> IF r = j THEN "join" ELSE "register"]

MCLinkOf == [r \in Redeemers |-> IF r = j THEN other ELSE link]
===============================================================================
