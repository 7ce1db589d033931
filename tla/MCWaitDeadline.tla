--------------------------- MODULE MCWaitDeadline ----------------------------
(* WaitDeadline for TLC: the limits keep the order of the defaults, 300 s for *)
(* enrollment, 600 s for a message and 60 s for the shutdown                  *)
EXTENDS WaitDeadline

MCLimits == [ENROLLMENT |-> 3, IO |-> 4, SHUTDOWN |-> 2]
=============================================================================
