\* The halt is set, and something other than a sweep is submitted.
CONSTANTS
    r1 = r1
    r2 = r2
    None = None
    Replicas <- TwoReplicas
    Cap = 2
    Minimum = 1
    MaxEarned = 4
    MaxDays = 0
    MaxOthers = 1
    MaxResumes = 0
    MaxDisruptions = 0
SPECIFICATION Spec
PROPERTIES
    HaltStopsSigning
