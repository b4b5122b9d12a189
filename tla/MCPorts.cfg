\* Two tasks on the three ports: a Locked may hold a call of any port, also
\* another Locked.
CONSTANTS
    t1 = t1
    t2 = t2
    Task = {t1, t2}
    Mutex = {"SafeSerial", "SafeWire", "SafeSPI"}
    RecursiveMutex = {}
    NoTask = NoTask
    Unstopped = Unstopped
    Kind = {"UniqueLock"}
    Wait = {"none", "finite", "forever"}
    MaxCalls = 3
    Quantity = 2
SPECIFICATION PortSpec
\* A call with an infinite timeout in the scope of a Locked waits for itself.
CHECK_DEADLOCK FALSE
SYMMETRY Tasks
INVARIANTS
    PortTypeOK
    TransactionsUnderLock
    ReadsAreWhole
