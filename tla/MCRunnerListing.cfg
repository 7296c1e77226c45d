CONSTANTS
    Runners = {r1, r2, r3}
    Own = {r1, r2}
    PerPage = 1
    MaxFailures = 1
SPECIFICATION FairSpec
INVARIANTS
    MissedAtMostGone
    TwiceOnlyIfJoined
    StopRemovesAll
PROPERTIES
    ForeignRunnersAreKept
    BusyPodIsKeptByList
    ListingEnds
CHECK_DEADLOCK FALSE
