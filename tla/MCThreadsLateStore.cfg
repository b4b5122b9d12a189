\* The new task runs before its creator has stored the handle.
CONSTANTS
    Starter = {"main"}
    Notifier = {}
    Owner = {"main"}
    Blocks = 1
    Builds <- AtOnceBuilds
SPECIFICATION Spec
\* A destroyed object has no operations.
CHECK_DEADLOCK FALSE
INVARIANT
    HandleNamesLiveTask
