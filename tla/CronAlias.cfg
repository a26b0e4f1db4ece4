\* A restart numbers the entries anew under old job_cron_entries rows.
CONSTANTS
    Jobs = {j1, j2}
    Handlers = {h1, h2}
    Main = main
    Serial = TRUE
    MaxRequests = 4
    MaxRestarts = 1
    MaxMishaps = 0
    NoJob = NoJob
    NoRow = NoRow
SPECIFICATION Spec
SYMMETRY Symmetry
CHECK_DEADLOCK FALSE
PROPERTY RemovesOwnEntry
