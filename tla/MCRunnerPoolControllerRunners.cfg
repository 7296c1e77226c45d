CONSTANTS
    Pods = {p1}
    Targets = {t1, t2, t3}
    Valid = {t1, t2}
    NoTarget = NoTarget
    t1 = t1
    t2 = t2
    Wanted <- TwoTargets
    MaxPools = 1
    MaxGen = 1
    MaxFailures = 0
    MaxRestarts = 0
SPECIFICATION Spec
INVARIANT RunnersGoWithPool
CHECK_DEADLOCK FALSE
