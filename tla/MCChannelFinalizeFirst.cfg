\* Sweeps fail for the challenge period.
CONSTANTS
    Handlers = {h1}
    Claims <- OneClaim
    Signed <- OneClaim
    Deposit = 3
    Challenge = 2
    MaxDirect = 0
    MaxDisruptions = 1
SPECIFICATION Spec
PROPERTIES NeverFinalizedUndefended
