CONSTANTS
    Pods = {p1}
    Nil = Nil
    Configs <- LifetimeConfig
    ExtendBy = 1
    ExtendLimit = 2
    PublishDelay = 0
    MaxTime = 6
    MaxFailures = 0
    MaxRestarts = 0
    MaxCrashes = 0
    MaxClicks = 0
SPECIFICATION Spec
PROPERTY OnlyOrphansRemoved
