\* Redis and Postgres fail at any call, the supervisor restarts.
CONSTANTS
    Jobs = {j1}
    Workers = {w1}
    Slots = {s1, s2}
    Ticks = {t1, t2}
    MaxQueue = 2
    MaxRetries = 1
    Faults = {"supcrash", "redis", "db"}
    Mortal = {}
    NoJob = NoJob
    NoWorker = NoWorker
SPECIFICATION Spec
SYMMETRY Symmetry
CHECK_DEADLOCK FALSE
INVARIANTS PendingIsBacked RunningIsOwned LockedIsBacked
PROPERTIES ImplementsWorkQueue
