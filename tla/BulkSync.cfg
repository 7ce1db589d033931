\* All six workloads, buffered and unbuffered sends, deadlines that may fire
\* in any wait or only when the peer is gone; one fault of any kind.
SPECIFICATION FairSpec
CONSTANTS
    N = 2
    NumRuns = 2
    CgIters = 2
    CgN = {1, 3}
    Sizes <- MCSizes
    ChaseLen = 3
    Accesses = 4
    Warmup = 2
    MaxResults = 4
    Fault = {"damage", "kill", "memory", "io", "power"}
    MaxFaults = 1
INVARIANTS RoundsDoNotMix ResultsWhole ExitMeansResults
PROPERTIES BulkCompletes EverybodyExits
