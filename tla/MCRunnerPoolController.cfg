CONSTANTS
    Pods = {p1}
    Targets = {t1, t2, t3}
    Valid = {t1, t2}
    NoTarget = NoTarget
    t1 = t1
    t2 = t2
    Wanted <- TwoTargets
    MaxPools = 2
    MaxGen = 2
    MaxFailures = 1
    MaxRestarts = 1
SPECIFICATION FairSpec
INVARIANTS
    NoProcessWithoutPool
    ProcessOfThisPool
    ProcessHasTarget
    QuietMeansServed
PROPERTIES
    PoolIsServed
    DeletedPoolGoes
    FinishedPodGoes
CHECK_DEADLOCK FALSE
