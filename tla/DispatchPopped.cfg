\* A worker crashes before its popped job is marked running.
CONSTANTS
    Jobs = {j1}
    Workers = {w1, w2}
    Slots = {s1}
    Ticks = {t1}
    MaxQueue = 2
    MaxRetries = 1
    Faults = {"crash"}
    Mortal = {w1}
    NoJob = NoJob
    NoWorker = NoWorker
SPECIFICATION FairSpec
CHECK_DEADLOCK FALSE
PROPERTIES DeadWorkersJobsAreServed
