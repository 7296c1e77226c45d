CONSTANTS
    Nil = Nil
    MaxTime = 1
    PutTimes <- MCPutTimes
SPECIFICATION FairSpec
INVARIANTS
    ServesOnce
    OnlyCreatorWorks
    DebuggingIsComplete
    FailureIsReported
PROPERTIES
    VerdictIsStable
    RestartedPodGoesStale
    FinishedJobIsPublished
    ImplementsLifecycle
