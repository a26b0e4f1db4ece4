\* A worker crashes and Redis fails while its jobs are requeued.
CONSTANTS
    Jobs = {j1}
    Workers = {w1, w2}
    Slots = {s1}
    Ticks = {t1}
    MaxQueue = 2
    MaxRetries = 1
    Faults = {"crash", "redis"}
    Mortal = {w1}
    NoJob = NoJob
    NoWorker = NoWorker
SPECIFICATION Spec
CHECK_DEADLOCK FALSE
INVARIANTS DeadWorkersJobsInReach
