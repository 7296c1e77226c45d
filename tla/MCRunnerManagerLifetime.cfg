CONSTANTS
    Pods = {p1}
    Nil = Nil
    Configs <- LifetimeConfig
    ExtendBy = 1
    ExtendLimit = 2
    PublishDelay = 1
    MaxTime = 6
    MaxFailures = 1
    MaxRestarts = 1
    MaxCrashes = 1
    MaxClicks = 1
SPECIFICATION FairSpec
INVARIANTS
    AtMostTwoPosts
    ListedJobIsPosted
    ProtectedWhenUnlinked
PROPERTIES
    FailedPodIsKept
    BusyPodIsKept
    FinishedPodIsRemoved
    OrphanRunnerIsRemoved
