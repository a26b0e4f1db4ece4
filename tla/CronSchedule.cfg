\* Requests for two jobs, one per job at a time, a restart anywhere and one
\* failed statement or edit by hand.
CONSTANTS
    Jobs = {j1, j2}
    Handlers = {h1, h2}
    Main = main
    Serial = TRUE
    MaxRequests = 4
    MaxRestarts = 1
    MaxMishaps = 1
    NoJob = NoJob
    NoRow = NoRow
SPECIFICATION Spec
SYMMETRY Symmetry
CHECK_DEADLOCK FALSE
INVARIANTS TypeOK ActiveIsScheduled InactiveIsUnscheduled EntryIsStored
PROPERTY RemovesOwnEntryUntilRestart
