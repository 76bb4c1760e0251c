\* A transfer that was given up lands beside the next sweep's.
CONSTANTS
    r1 = r1
    r2 = r2
    None = None
    Replicas <- TwoReplicas
    Cap = 2
    Minimum = 1
    MaxEarned = 4
    MaxDays = 0
    MaxOthers = 1
    MaxResumes = 0
    MaxDisruptions = 1
SPECIFICATION Spec
PROPERTIES
    MinimumAlwaysPreserved
