\* No MPI_Send is buffered, every peer answers in time, nothing fails.
SPECIFICATION FairSpec
CONSTANTS
    N = 2
    TaskCount = 3
    NumRuns = 2
    Encrypt = TRUE
    Synchronous = TRUE
    Timely = TRUE
    MaxFaults = 0
PROPERTY AllRunsComplete
