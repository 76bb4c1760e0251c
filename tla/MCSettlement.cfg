\* Three requests with two payloads, whose payers are an unsuspicious one and
\* one the contract refuses; one change of the blocklist, one disruption.
CONSTANTS
    r1 = r1
    r2 = r2
    r3 = r3
    d1 = d1
    d2 = d2
    ann = ann
    mel = mel
    None = None
    Requests <- ThreeRequests
    Payloads <- TwoPayloads
    Payers <- TwoPayers
    Payer <- PayerOf
    Denied <- OneDenied
    MaxChanges = 1
    MaxDisruptions = 1
CHECK_DEADLOCK FALSE
SPECIFICATION FairSpec
INVARIANTS
    TypeOK
    ScreenedBeforeCharged
    SequenceNeverClashes
    ChargeIsOnRecord
    RecordIsHonest
PROPERTIES
    RequestEnds
    ClearedOnce
