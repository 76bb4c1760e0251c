\* Three merchants of whom one is there already, two sign-ups and two sweeps at
\* a time, two payments, one disruption.
CONSTANTS
    ann = ann
    bob = bob
    cleo = cleo
    s1 = s1
    s2 = s2
    k1 = k1
    None = None
    Emails <- ThreeMerchants
    Founders <- OneFounder
    Sweepers <- TwoSweepers
    Recorders <- OneRecorder
    BaseFee = 10
    TrialCap = 1
    MaxRequests = 2
    MaxPayments = 2
    MaxChanges = 1
    MaxDisruptions = 1
CHECK_DEADLOCK FALSE
SPECIFICATION FairSpec
INVARIANTS
    TypeOK
    NoReferralCycle
    RewardsBounded
    TrialRationed
PROPERTIES
    ProgrammeKept
    EventuallyRewarded
