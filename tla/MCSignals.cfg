\* Two tasks of equal priority, one above them, and interrupts that may make
\* several calls, on each class in turn.
CONSTANTS
    Task = {"a", "b", "h"}
    Daemon = "daemon"
    Idle = "idle"
    Priority <- Priorities
    Value = {1, 2}
    QueueLength = 2
    CrowdedReset = FALSE
    Bit = {1, 2}
    GroupCalls <- MeetingCalls
    IsrBits = {{1}, {2}}
    PendedLength = 2
    Writer = {"a"}
    Reader = {"h"}
    Shapes <- UsualShapes
    Header = 1
    Lengths = {1, 2}
    Notifiable = {"h"}
    MaxNotified = 2
    Objects = {"queue", "binary", "counting", "group", "stream", "message", "notification"}
SPECIFICATION Spec
INVARIANTS
    TypeOK
    HighestRuns
    NobodyForgotten
    ArrivalsCountOnce
PROPERTY
    ForeverIsPatient
