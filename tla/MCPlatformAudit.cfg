\* The back office alone; one row of the audit log is lost.
CONSTANTS
    m1 = m1
    p1 = p1
    p2 = p2
    l1 = l1
    l2 = l2
    seller = seller
    guest = guest
    q1 = q1
    q2 = q2
    Merchants <- MCMerchants
    Payers <- MCPayers
    Listings = {"shop"}
    MaxDecisions = 3
    MaxLosses = 1
    Depth = 2
    Parts = {"office"}
    Links <- MCLinks
    Ids = {1, 2}
    Owner <- MCOwner
    Priced <- MCLinks
    Scanners <- MCScanners
    Sellers <- MCSellers
    Guests <- MCGuests
    MaxStarts <- MCMaxStarts
    Outcomes = {"completed", "expired"}
    Pollers <- MCPollers
    Files = 3
    HasDown = {1, 3}
    Runs = {"deploy 1", "deploy 2", "rollback"}
    MaxSteps = 2
    Jobs = {"keeper", "sweep"}
    Sweeps = {"keeper 1", "keeper 2", "facilitator"}
    Job <- MCJob
    Requests = {"request 1", "request 2", "request 3"}
    MaxClients = 3
SPECIFICATION Spec
INVARIANTS
    EveryMutationLogged
CHECK_DEADLOCK FALSE
