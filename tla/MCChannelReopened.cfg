\* A close while a sweep resyncs; nothing fails.
CONSTANTS
    Handlers = {h1}
    Claims <- OneClaim
    Signed <- OneClaim
    Deposit = 3
    Challenge = 2
    MaxDirect = 0
    MaxDisruptions = 0
SPECIFICATION FairSpec
PROPERTIES FinalizedThroughResyncs
