SPECIFICATION FairSpec
CONSTANTS
    NProc = 3
    Target = 3
    Builds = {FALSE}
    Staggered = TRUE
    Timely = TRUE
    MaxFaults = 0
PROPERTIES
    AllEnrolled
    RejectIsClean
