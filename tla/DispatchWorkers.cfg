\* Workers crash, stop, are cut off and start again.
CONSTANTS
    Jobs = {j1}
    Workers = {w1, w2}
    Slots = {s1}
    Ticks = {t1}
    MaxQueue = 2
    MaxRetries = 1
    Faults = {"crash", "restart", "term", "shutdown", "partition"}
    Mortal = {w1, w2}
    NoJob = NoJob
    NoWorker = NoWorker
SPECIFICATION Spec
SYMMETRY Symmetry
CHECK_DEADLOCK FALSE
INVARIANTS TypeOK PendingIsBacked RunningIsOwned
PROPERTIES ImplementsWorkQueue
