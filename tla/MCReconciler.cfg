\* One watch process; three operations, one exit, one operator action.
CONSTANTS
    None = None
    alice = alice
    mallory = mallory
    shop = shop
    cafe = cafe
    anchor = anchor
    w1 = w1
    w2 = w2
    s1 = s1
    s2 = s2
    Watchers = {w1}
    Account <- OneShop
    Ops <- OneShopOps
    Denied = {mallory}
    Targets <- SomeTargets
    PageSize = 2
    MaxOps = 3
    MaxExits = 1
    MaxInterventions = 1
SPECIFICATION FairSpec
INVARIANTS
    TypeOK
    NoSkippedPayment
    NoUnscreenedPayment
PROPERTIES
    EventuallyRecorded
    LedgerSpec
CHECK_DEADLOCK FALSE
