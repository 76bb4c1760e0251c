\* Two requests of a client that signed a lower amount under a higher nonce.
CONSTANTS
    Handlers = {h1, h2}
    Claims <- CrossedClaims
    Signed <- CrossedClaims
    Deposit = 3
    Challenge = 2
    MaxDirect = 0
    MaxDisruptions = 0
SPECIFICATION Spec
INVARIANTS AcceptedIsStored
