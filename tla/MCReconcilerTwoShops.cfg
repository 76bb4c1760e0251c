\* Two merchants, one process each, one stored cursor.
CONSTANTS
    None = None
    alice = alice
    mallory = mallory
    shop = shop
    cafe = cafe
    anchor = anchor
    w1 = w1
    w2 = w2
    s1 = s1
    s2 = s2
    Watchers = {w1, w2}
    Account <- TwoShops
    Ops <- TwoShopsOps
    Denied = {mallory}
    Targets <- NoTargets
    PageSize = 2
    MaxOps = 3
    MaxExits = 1
    MaxInterventions = 0
SPECIFICATION FairSpec
PROPERTIES
    RestartSkipsNothing
CHECK_DEADLOCK FALSE
