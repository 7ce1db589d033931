\* Both programs, with and without attestation, buffered or not, with
\* room for one or two workers; one fault of any kind.  No wait has
\* a deadline, so the system really may stop.
SPECIFICATION FairSpec
CONSTANTS
    NProc = 2
    Target = 2
    TableSizes = {1, 2}
    Fault = {"damage", "kill", "report", "file", "memory"}
    MaxFaults = 1
INVARIANTS SlotsAgree
PROPERTIES RoundsEnd WorkersSettle
CHECK_DEADLOCK FALSE
