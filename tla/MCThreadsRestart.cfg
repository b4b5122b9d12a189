\* A static one-shot thread is started again as soon as IsRunning() is false.
CONSTANTS
    Starter = {"main"}
    Notifier = {}
    Owner = {"main"}
    Blocks = 1
    Builds <- RestartBuilds
SPECIFICATION Spec
\* A destroyed object has no operations.
CHECK_DEADLOCK FALSE
INVARIANT
    OneTaskPerStack
