\* Two runs over every shop of up to three pages, with room for two items.
CONSTANTS
    Sites <- SmallSites
    MaxDepth = 2
    ChanCap = 2
    BatchSize = 2
    MaxRuns = 2
    Faults = {"fetch", "write", "reply", "crash"}
SPECIFICATION FairSpec
CHECK_DEADLOCK FALSE
INVARIANTS TypeOK ItemsAccounted ResultIsTrue CompletedIsComplete
PROPERTIES RunReturns
