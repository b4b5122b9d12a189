\* A thread on each supported platform.
CONSTANTS
    Starter = {"main"}
    Notifier = {"n1", "n2"}
    Owner = {"main"}
    Blocks = 3
    Builds <- SupportedBuilds
SPECIFICATION FairSpec
\* A destroyed object has no operations.
CHECK_DEADLOCK FALSE
INVARIANTS
    TypeOK
    HandleNamesLiveTask
    RunIsReported
    NoStaleHandle
PROPERTY
    FinishedIsReported
