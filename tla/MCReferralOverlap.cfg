\* Two sweeps overlap; nothing fails.
CONSTANTS
    ann = ann
    bob = bob
    cleo = cleo
    s1 = s1
    s2 = s2
    k1 = k1
    None = None
    Emails <- ThreeMerchants
    Founders <- OneFounder
    Sweepers <- TwoSweepers
    Recorders <- OneRecorder
    BaseFee = 10
    TrialCap = 1
    MaxRequests = 1
    MaxPayments = 1
    MaxChanges = 0
    MaxDisruptions = 0
CHECK_DEADLOCK FALSE
SPECIFICATION Spec
INVARIANTS
    RewardedOnce
