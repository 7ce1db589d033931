\* The baseline build: plaintext workload messages, more workers than tasks.
SPECIFICATION FairSpec
CONSTANTS
    N = 3
    TaskCount = 2
    NumRuns = 2
    Encrypt = FALSE
    Synchronous = FALSE
    Timely = TRUE
    MaxFaults = 0
PROPERTY AllRunsComplete
