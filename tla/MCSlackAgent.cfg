CONSTANTS
    Pods = {p1}
    Agents = {a1, a2}
    MaxClicks = 2
    Channels = {c1}
    Nil = Nil
    PodChannel <- NoPodChannel
    PoolChannel = Nil
    DefaultChannel = c1
    ExtendDuration = 1
    ExtendBy = 1
    ExtendLimit = 2
    MaxDeliveries = 2
    LastFinish = 0
    MaxTime = 2
    MaxFailures = 1
SYMMETRY AgentSymmetry
SPECIFICATION Spec
INVARIANTS
    WithinLimit
    NoClickIsLost
PROPERTY UndoneOnlyByRace
CHECK_DEADLOCK FALSE
