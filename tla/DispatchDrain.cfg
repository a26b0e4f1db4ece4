\* A worker is stopped by SIGTERM and drains for longer than the heartbeat timeout.
CONSTANTS
    Jobs = {j1}
    Workers = {w1, w2}
    Slots = {s1}
    Ticks = {t1}
    MaxQueue = 2
    MaxRetries = 1
    Faults = {"term"}
    Mortal = {}
    NoJob = NoJob
    NoWorker = NoWorker
SPECIFICATION Spec
CHECK_DEADLOCK FALSE
PROPERTIES RequeuesOnlyRunning
