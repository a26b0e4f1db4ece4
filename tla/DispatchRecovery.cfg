\* One worker may crash at any point, the other one stays; no other fault.
CONSTANTS
    Jobs = {j1, j2}
    Workers = {w1, w2}
    Slots = {s1}
    Ticks = {t1, t2}
    MaxQueue = 4
    MaxRetries = 1
    Faults = {"crash"}
    Mortal = {w1}
    NoJob = NoJob
    NoWorker = NoWorker
SPECIFICATION FairSpec
CHECK_DEADLOCK FALSE
INVARIANTS DeadWorkersJobsInReach
PROPERTIES DeadRunsAreRequeued PendingIsServed
