CONSTANTS
    Pods = {p1, p2, p3}
    Nil = Nil
    Configs <- CapacityConfig
    ExtendBy = 1
    ExtendLimit = 2
    PublishDelay = 0
    MaxTime = 4
    MaxFailures = 1
    MaxRestarts = 0
    MaxCrashes = 0
    MaxClicks = 0
SPECIFICATION Spec
SYMMETRY PodSymmetry
INVARIANTS
    UnlinkedWithinMax
    PodsWithinMax
