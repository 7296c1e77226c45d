CONSTANTS
    Pods = {p1}
    Agents = {a1, a2}
    MaxClicks = 2
    Channels = {c1}
    Nil = Nil
    PodChannel <- NoPodChannel
    PoolChannel = Nil
    DefaultChannel = c1
    ExtendDuration = 1
    ExtendBy = 1
    ExtendLimit = 2
    MaxDeliveries = 2
    LastFinish = 0
    MaxTime = 3
    MaxFailures = 1
SPECIFICATION Spec
PROPERTY OnlyPastDeletionTime
CHECK_DEADLOCK FALSE
