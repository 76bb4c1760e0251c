\* A payload is settled twice; nothing fails and nobody is blocked.
CONSTANTS
    r1 = r1
    r2 = r2
    r3 = r3
    d1 = d1
    d2 = d2
    ann = ann
    mel = mel
    None = None
    Requests <- ThreeRequests
    Payloads <- TwoPayloads
    Payers <- TwoPayers
    Payer <- PayerOf
    Denied <- OneDenied
    MaxChanges = 0
    MaxDisruptions = 0
CHECK_DEADLOCK FALSE
SPECIFICATION Spec
INVARIANTS
    ResubmissionIsNoOp
