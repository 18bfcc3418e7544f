\* Restarts at any time; the history tells the hurried ones.
SPECIFICATION FairLifecycle
CONSTANT MaxBuilds = 4
CHECK_DEADLOCK FALSE
INVARIANTS
    ServesCurrent
    RunnerFindsService
PROPERTY ServiceComesUp
