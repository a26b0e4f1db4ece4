\* More messages than slots, more Shutdown calls than the channel holds.
CONSTANTS
    Msgs = {m1, m2, m3}
    Cap = 2
    Callers = {c1, c2, c3}
    NoMsg = NoMsg
SPECIFICATION FairSpec
CHECK_DEADLOCK FALSE
INVARIANTS IInv RunsAreBounded CountIsExact NothingIsDropped
PROPERTIES ShutdownIsObeyed PoppedIsProcessed ImplementsWorkerPool
