\* Buffered sends, deadlines that may fire in any wait, one fault.
SPECIFICATION FairSpec
CONSTANTS
    N = 2
    TaskCount = 3
    NumRuns = 2
    Encrypt = TRUE
    Synchronous = FALSE
    Timely = FALSE
    MaxFaults = 1
INVARIANTS TypeOK TaskPartition RecordedRunsComplete WorkMatchesAssignment NoFalseReject CleanExit
PROPERTIES ImplementsPool WorkersExit MasterExitsOrPolls
