SPECIFICATION Spec
CONSTANTS
    g1 = g1
    g2 = g2
    j = j
    q = q
    link = link
    other = other
    Redeemers = {g1, g2, j}
    Readers = {q}
    Via <- MCVia
    LinkOf <- MCLinkOf
    PoolSize = 2
PROPERTY EveryRequestIsServed
CHECK_DEADLOCK FALSE
