\* The session with the lock is lost while its sweep goes on.
CONSTANTS
    r1 = r1
    r2 = r2
    None = None
    Replicas <- TwoReplicas
    Cap = 2
    Minimum = 1
    MaxEarned = 4
    MaxDays = 0
    MaxOthers = 0
    MaxResumes = 0
    MaxDisruptions = 1
SPECIFICATION Spec
INVARIANTS
    CeilingHolds
