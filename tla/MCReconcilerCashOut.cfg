\* The merchant cashes out with a memo id.
CONSTANTS
    None = None
    alice = alice
    mallory = mallory
    shop = shop
    cafe = cafe
    anchor = anchor
    w1 = w1
    w2 = w2
    s1 = s1
    s2 = s2
    Watchers = {w1}
    Account <- OneShop
    Ops <- CashOutOps
    Denied = {mallory}
    Targets <- NoTargets
    PageSize = 2
    MaxOps = 3
    MaxExits = 1
    MaxInterventions = 0
SPECIFICATION FairSpec
INVARIANTS
    OnlyReceipts
CHECK_DEADLOCK FALSE
