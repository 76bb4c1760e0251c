\* One session id is paid twice; the process ends while a check runs.
CONSTANTS
    None = None
    alice = alice
    mallory = mallory
    shop = shop
    cafe = cafe
    anchor = anchor
    w1 = w1
    w2 = w2
    s1 = s1
    s2 = s2
    Watchers = {w1}
    Account <- OneShop
    Ops <- OneShopOps
    Denied = {mallory}
    Targets <- NoTargets
    PageSize = 2
    MaxOps = 2
    MaxExits = 0
    MaxInterventions = 0
SPECIFICATION FairSpec
PROPERTIES
    DroppedOnlyByKill
CHECK_DEADLOCK FALSE
