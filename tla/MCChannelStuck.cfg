\* A close whose confirmation never reaches the row: a timeout or a crash.
CONSTANTS
    Handlers = {h1}
    Claims <- OneClaim
    Signed <- OneClaim
    Deposit = 3
    Challenge = 2
    MaxDirect = 0
    MaxDisruptions = 1
SPECIFICATION FairSpec
PROPERTIES ClosingIsFinalized
