\* Two replicas, a cap of two units, a minimum of one, four units received,
\* one midnight, one other transaction, one resume, one disruption.
CONSTANTS
    r1 = r1
    r2 = r2
    None = None
    Replicas <- TwoReplicas
    Cap = 2
    Minimum = 1
    MaxEarned = 4
    MaxDays = 1
    MaxOthers = 1
    MaxResumes = 1
    MaxDisruptions = 1
SPECIFICATION FairSpec
INVARIANTS
    TypeOK
    WithinCap
    BlastRadius
PROPERTIES
    HaltStopsSweep
    MinimumPreserved
    EventuallySwept
    PaidFromLog
