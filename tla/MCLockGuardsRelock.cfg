\* One task, one recursive mutex, one RecursiveUniqueLock locked twice.
CONSTANTS
    t1 = t1
    t2 = t2
    Task = {t1, t2}
    Mutex = {}
    RecursiveMutex = {r}
    NoTask = NoTask
    Kind = {"RecursiveUniqueLock"}
    Wait = {"forever"}
    MaxCalls = 2
SPECIFICATION Spec
CHECK_DEADLOCK FALSE
INVARIANT
    ReleasedOutOfScope
