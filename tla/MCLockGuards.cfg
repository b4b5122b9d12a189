\* Every guard class and every timeout on one mutex of each kind: three calls
\* let a task nest guards, lock one twice and meet the other task's mutex.
CONSTANTS
    t1 = t1
    t2 = t2
    Task = {t1, t2}
    Mutex = {m}
    RecursiveMutex = {r}
    NoTask = NoTask
    Kind = {"LockGuard", "UniqueLock", "RecursiveLockGuard", "RecursiveUniqueLock"}
    Wait = {"none", "finite", "forever"}
    MaxCalls = 3
SPECIFICATION Spec
\* Two guards of one task on the same plain mutex, waiting forever, block it
\* for good.
CHECK_DEADLOCK FALSE
SYMMETRY Tasks
INVARIANTS
    TypeOK
    OwnsLockIsTrue
    TakenForEachGuard
