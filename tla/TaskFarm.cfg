\* Up to three workers for two tasks; frames are damaged or repeated, workers
\* are killed.  No wait has a deadline, so the system really may stop.
SPECIFICATION FairSpec
CONSTANTS
    Target = 3
    NT = 2
    Fault = {"damage", "duplicate", "kill"}
    MaxFaults = 2
INVARIANTS TypeOK EachOnce Lockstep
PROPERTIES AllCollected EndsOrWaitsForLost
CHECK_DEADLOCK FALSE
