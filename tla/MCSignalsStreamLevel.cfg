\* A static stream buffer whose trigger level is its size.
CONSTANTS
    Task = {"a", "b", "h"}
    Daemon = "daemon"
    Idle = "idle"
    Priority <- Priorities
    Value = {1, 2}
    QueueLength = 2
    CrowdedReset = FALSE
    Bit = {1, 2}
    GroupCalls <- MeetingCalls
    IsrBits = {{1}}
    PendedLength = 1
    Writer = {"a"}
    Reader = {"h"}
    Shapes <- FullTrigger
    Header = 1
    Lengths = {1, 2}
    Notifiable = {"h"}
    MaxNotified = 2
    Objects = {"stream"}
SPECIFICATION Spec
INVARIANT
    NobodyStranded
