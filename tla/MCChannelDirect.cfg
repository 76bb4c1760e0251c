\* A payer that closes without the API.
CONSTANTS
    Handlers = {h1}
    Claims <- OneClaim
    Signed <- OneClaim
    Deposit = 3
    Challenge = 2
    MaxDirect = 2
    MaxDisruptions = 0
SPECIFICATION Spec
INVARIANTS PayeeIsSafe
