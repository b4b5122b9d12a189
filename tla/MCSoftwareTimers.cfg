\* Two tasks, one of which waits for ever, an interrupt and on_timer() with
\* one place in the queue, which the other timers of the program use too.
CONSTANTS
    Task = {"main", "t"}
    Isr = {"isr"}
    Daemon = "daemon"
    Starter = {"main", "daemon"}
    Owner = {"main"}
    Wait <- Patient
    Builds <- SupportedBuilds
    QueueLength = 1
    MaxCalls <- TwoForMain
SPECIFICATION FairSpec
\* The number of calls is bounded, so the behaviours end.
CHECK_DEADLOCK FALSE
INVARIANTS
    TypeOK
    LastCallWins
    NeverRecreated
    StoppedStaysSilent
    DeadIsForgotten
PROPERTY
    CallsReturn
