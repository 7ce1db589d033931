\* The making of the identity and up to two campaigns with two workers; two
\* faults of any kind.
SPECIFICATION FairSpec
CONSTANTS
    Workers = {w1, w2}
    MaxStarts = 3
    Fault = {"disk", "crash", "evidence", "silent", "kill"}
    MaxFaults = 2
INVARIANTS RayTlsAgrees
PROPERTIES IdentityKept WorkersJoin
