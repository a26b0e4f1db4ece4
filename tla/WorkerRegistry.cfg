\* Two faults or REST requests of any kind against one worker.
CONSTANTS
    MaxCalls = 2
    MaxRetries = 2
    MaxFailures = 2
    Budget = 2
    Faults = {"timeout", "dial", "db", "supcrash", "crash", "term", "rest"}
SPECIFICATION FairSpec
CHECK_DEADLOCK FALSE
INVARIANTS TypeOK OneRow NoDeadConnectionKept
PROPERTIES LiveWorkerIsActive DeadWorkerIsMarked
