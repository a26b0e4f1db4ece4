\* One job, any number of PUTs and of firings one at a time, a worker that stays,
\* a supervisor that may crash, and statements of the handler that may fail.
SPECIFICATION FairUpdateSpec
CONSTANTS
    Jobs = {j1}
    Workers = {w1}
    Slots = {s1}
    Ticks = {t1}
    MaxQueue = 2
    MaxRetries = 1
    Faults = {"supcrash"}
    Mortal = {}
    HandlerFails = TRUE
    NoJob = NoJob
    NoWorker = NoWorker
INVARIANTS UpdateTypeOK RowsAreTrue
PROPERTIES DeactivatedJobIsLeftAlone
CHECK_DEADLOCK FALSE
