\* Two concurrent claim requests, a challenge period of three cron periods, one call
\* made without the API, one failed call, timeout, crash or missed sweep.
CONSTANTS
    Handlers = {h1, h2}
    Claims <- HonestClaims
    Signed <- HonestSigned
    Deposit = 3
    Challenge = 3
    MaxDirect = 1
    MaxDisruptions = 1
SPECIFICATION FairSpec
INVARIANTS
    TypeOK
    AcceptedIsStored
    ClaimedIsSettled
    DefendedBeforeClosed
PROPERTIES
    AcceptedSettles
    NettingSpec
