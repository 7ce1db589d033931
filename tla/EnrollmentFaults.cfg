SPECIFICATION FairSpec
CONSTANTS
    NProc = 2
    Target = 2
    Builds = {TRUE, FALSE}
    Staggered = FALSE
    Timely = FALSE
    MaxFaults = 1
INVARIANTS
    TypeOK
    SlotsAttested
    KeysAgree
    NoPartialStart
PROPERTIES
    EnrollmentSettles
