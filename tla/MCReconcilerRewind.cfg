\* Two rewinds of administrators cross.
CONSTANTS
    None = None
    alice = alice
    mallory = mallory
    shop = shop
    cafe = cafe
    anchor = anchor
    w1 = w1
    w2 = w2
    s1 = s1
    s2 = s2
    Watchers = {w1}
    Account <- OneShop
    Ops <- OneShopOps
    Denied = {mallory}
    Targets <- SomeTargets
    PageSize = 2
    MaxOps = 2
    MaxExits = 1
    MaxInterventions = 2
SPECIFICATION FairSpec
PROPERTIES
    RewindGoesBack
CHECK_DEADLOCK FALSE
