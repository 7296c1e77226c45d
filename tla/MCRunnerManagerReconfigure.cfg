CONSTANTS
    Pods = {p1, p2}
    Nil = Nil
    Configs <- ReconfigureConfigs
    ExtendBy = 1
    ExtendLimit = 2
    PublishDelay = 0
    MaxTime = 3
    MaxFailures = 0
    MaxRestarts = 1
    MaxCrashes = 0
    MaxClicks = 0
SPECIFICATION Spec
SYMMETRY PodSymmetry
INVARIANTS
    UnlinkedWithinMax
    LabelMeansBudget
