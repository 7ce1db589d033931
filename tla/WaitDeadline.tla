---------------------------- MODULE WaitDeadline -----------------------------
(***************************************************************************)
(* npb_wait_begin and npb_wait_end of npb_timeout.c, statement by          *)
(* statement, in a process that uses them the way npb_mpi_wait.h,          *)
(* mpi_send_f, mpi_recv_f, die_mpi and the enrollment phases do: scopes    *)
(* nest, every scope is closed by the function that opened it, and what is *)
(* called inside a scope may never return.                                 *)
(*                                                                         *)
(* The timer and the signal are asynchronous: time passes and SIGALRM is   *)
(* delivered between any two statements, unless it is blocked.             *)
(*                                                                         *)
(* A definition X_Y is X with the bug Y put in; the specification does not *)
(* use it.                                                                 *)
(***************************************************************************)
EXTENDS Naturals, Sequences

CONSTANTS
    Limits,    \* wait_limits: seconds (in ticks) of each kind of wait
    MaxDepth,  \* bound on the nesting
    MaxWaits   \* bound on the outermost waits

Kind == {"ENROLLMENT", "IO", "SHUTDOWN"}

ASSUME WaitDeadlineAssumption ==
    /\ Limits \in [Kind -> Nat \ {0}]
    /\ MaxDepth \in Nat \ {0} /\ MaxWaits \in Nat \ {0}

VARIABLES
    pc,               \* the statement the process is at
    arg,              \* kind, the parameter of npb_wait_begin
    scopes,           \* the scopes that are open in the caller, outermost first
    hung,             \* the call inside the innermost scope does not return
    wait_depth,       \* wait_depth
    deadline_active,  \* deadline_active
    handler,          \* timeout_handler is installed for SIGALRM
    timer,            \* ITIMER_REAL: ticks left, 0 when it is off
    blocked,          \* SIGALRM is in the signal mask
    pending,          \* SIGALRM was raised and not delivered
    code,             \* exit code
    elapsed,          \* ticks since the deadline was set (history)
    outer,            \* the kind of the outermost scope (history)
    waits             \* outermost waits so far

clock  == <<timer, pending, elapsed>>
caller == <<scopes, hung, outer, waits>>
vars   == <<pc, arg, caller, wait_depth, deadline_active, handler, clock, blocked, code>>

Init ==
    /\ pc = "caller" /\ arg = "IO" /\ outer = "IO" /\ scopes = <<>> /\ hung = FALSE
    /\ wait_depth = 0 /\ deadline_active = FALSE /\ handler = FALSE
    /\ timer = 0 /\ blocked = FALSE /\ pending = FALSE /\ code = 0
    /\ elapsed = 0 /\ waits = 0

Running == pc # "exited"

Exit(c) == pc' = "exited" /\ code' = c
Goto(l) == pc' = l /\ UNCHANGED code
-----------------------------------------------------------------------------
(* The caller *)

\* mpi_send_f, mpi_recv_f, npb_mpi_init, npb_mpi_disconnect, npb_mpi_finalize
\* and the enrollment phases open a scope, in the phases also a nested one.
CallBegin(k) ==
    /\ pc = "caller" /\ ~hung /\ Len(scopes) < MaxDepth
    /\ scopes = <<>> => waits < MaxWaits
    /\ IF scopes = <<>> THEN outer' = k /\ waits' = waits + 1
                        ELSE UNCHANGED <<outer, waits>>
    /\ Goto("begin") /\ arg' = k /\ scopes' = Append(scopes, k)
    /\ UNCHANGED <<hung, wait_depth, deadline_active, handler, clock, blocked>>

\* The function that opened the innermost scope closes it.
CallEnd ==
    /\ pc = "caller" /\ ~hung /\ scopes # <<>>
    /\ Goto("end") /\ scopes' = SubSeq(scopes, 1, Len(scopes) - 1)
    /\ UNCHANGED <<arg, hung, outer, waits, wait_depth, deadline_active, handler, clock, blocked>>

\* The MPI call inside the scope never returns.
Hang ==
    /\ pc = "caller" /\ ~hung /\ scopes # <<>>
    /\ hung' = TRUE
    /\ UNCHANGED <<pc, arg, scopes, outer, waits, wait_depth, deadline_active, handler, clock,
                   blocked, code>>

\* The end of main.
Return ==
    /\ pc = "caller" /\ scopes = <<>>
    /\ Exit(0)
    /\ UNCHANGED <<arg, caller, wait_depth, deadline_active, handler, clock, blocked>>

\* die_mpi opens a scope around MPI_Abort, which nobody closes.
Abort ==
    /\ pc = "caller" /\ ~hung /\ scopes # <<>> /\ scopes[Len(scopes)] = "SHUTDOWN"
    /\ Exit(1)
    /\ UNCHANGED <<arg, caller, wait_depth, deadline_active, handler, clock, blocked>>
-----------------------------------------------------------------------------
(* npb_wait_begin *)

BeginNested_Rearms ==
    /\ pc = "begin" /\ wait_depth # 0
    /\ wait_depth' = wait_depth + 1 /\ timer' = Limits[arg] /\ Goto("caller")
    /\ UNCHANGED <<arg, caller, deadline_active, handler, pending, elapsed, blocked>>

\* "if (wait_depth != 0)": the deadline of the outermost scope stays.
BeginNested ==
    /\ pc = "begin" /\ wait_depth # 0
    /\ wait_depth' = wait_depth + 1 /\ Goto("caller")
    /\ UNCHANGED <<arg, caller, deadline_active, handler, clock, blocked>>

BeginBlock ==
    /\ pc = "begin" /\ wait_depth = 0
    /\ IF blocked THEN Exit(2) ELSE Goto("inspect")
    /\ blocked' = TRUE
    /\ UNCHANGED <<arg, caller, wait_depth, deadline_active, handler, clock>>

\* sigaction and getitimer: nobody else uses the timer.
BeginInspect ==
    /\ pc = "inspect"
    /\ IF timer # 0 THEN Exit(2) ELSE Goto("install")
    /\ UNCHANGED <<arg, caller, wait_depth, deadline_active, handler, clock, blocked>>

BeginInstall ==
    /\ pc = "install" /\ Goto("activate") /\ handler' = TRUE
    /\ UNCHANGED <<arg, caller, wait_depth, deadline_active, clock, blocked>>

BeginActivate ==
    /\ pc = "activate" /\ Goto("arm")
    /\ deadline_active' = TRUE /\ wait_depth' = 1
    /\ UNCHANGED <<arg, caller, handler, clock, blocked>>

BeginArm ==
    /\ pc = "arm" /\ Goto("unblock")
    /\ timer' = Limits[arg] /\ elapsed' = 0
    /\ UNCHANGED <<arg, caller, wait_depth, deadline_active, handler, pending, blocked>>

\* restore_mask, of both functions.
Unblock ==
    /\ pc = "unblock" /\ Goto("caller") /\ blocked' = FALSE
    /\ UNCHANGED <<arg, caller, wait_depth, deadline_active, handler, clock>>
-----------------------------------------------------------------------------
(* npb_wait_end *)

EndNested_Disarms ==
    /\ pc = "end"
    /\ wait_depth' = wait_depth - 1 /\ Goto("end_block")
    /\ UNCHANGED <<arg, caller, deadline_active, handler, clock, blocked>>

\* "if (--wait_depth != 0) return".
EndNested ==
    /\ pc = "end"
    /\ IF wait_depth = 0 THEN Exit(2) /\ UNCHANGED wait_depth
       ELSE /\ wait_depth' = wait_depth - 1
            /\ Goto(IF wait_depth = 1 THEN "end_block" ELSE "caller")
    /\ UNCHANGED <<arg, caller, deadline_active, handler, clock, blocked>>

EndBlock ==
    /\ pc = "end_block" /\ Goto("deactivate") /\ blocked' = TRUE
    /\ UNCHANGED <<arg, caller, wait_depth, deadline_active, handler, clock>>

EndDeactivate_Forgotten ==
    /\ pc = "deactivate" /\ Goto("disarm")
    /\ UNCHANGED <<arg, caller, wait_depth, deadline_active, handler, clock, blocked>>

EndDeactivate ==
    /\ pc = "deactivate" /\ Goto("disarm") /\ deadline_active' = FALSE
    /\ UNCHANGED <<arg, caller, wait_depth, handler, clock, blocked>>

\* alarm(0) does not take a signal back that was raised already.
EndDisarm ==
    /\ pc = "disarm" /\ Goto("unblock") /\ timer' = 0
    /\ UNCHANGED <<arg, caller, wait_depth, deadline_active, handler, pending, elapsed,
                   blocked>>
-----------------------------------------------------------------------------
(* The timer and the signal *)

\* A tick; the timer raises SIGALRM when it runs out.
Tick ==
    /\ Running /\ timer > 0
    /\ timer' = timer - 1 /\ elapsed' = elapsed + 1
    /\ pending' = (timer = 1)
    /\ UNCHANGED <<pc, arg, caller, wait_depth, deadline_active, handler, blocked, code>>

\* timeout_handler, or the default action.
Deliver ==
    /\ Running /\ pending /\ ~blocked
    /\ pending' = FALSE
    /\ IF ~handler THEN Exit(142)
       ELSE IF deadline_active THEN Exit(124) ELSE UNCHANGED <<pc, code>>
    /\ UNCHANGED <<arg, caller, wait_depth, deadline_active, handler, timer, elapsed,
                   blocked>>

Finished == ~Running /\ UNCHANGED vars
-----------------------------------------------------------------------------
Call == CallEnd \/ Hang \/ Return \/ Abort \/ \E k \in Kind : CallBegin(k)

Step ==
    \/ BeginNested \/ BeginBlock \/ BeginInspect \/ BeginInstall \/ BeginActivate
    \/ BeginArm \/ Unblock
    \/ EndNested \/ EndBlock \/ EndDeactivate \/ EndDisarm

\* A signal that is raised and not blocked is delivered before the next
\* statement of the process; sigprocmask delivers one that was blocked.
Undisturbed == pending => blocked

Statement == Undisturbed /\ Step

Next ==
    \/ Undisturbed /\ Call
    \/ Statement \/ Tick \/ Deliver \/ Finished

Spec == Init /\ [][Next]_vars

\* The process is scheduled, time passes, and a signal that is raised and
\* not blocked is delivered.
FairSpec == Spec /\ WF_vars(Statement) /\ WF_vars(Tick) /\ WF_vars(Deliver)
-----------------------------------------------------------------------------
(* Properties *)

\* While the caller is inside a scope, the deadline is that of the outermost
\* one, however many scopes were opened and closed inside it: the ticks that
\* passed and the ticks left add up to its limit, and when none is left the
\* signal is on its way.  wait_depth counts the scopes.
OutermostDeadlineKept ==
    pc = "caller" =>
        /\ wait_depth = Len(scopes)
        /\ scopes # <<>> => /\ timer + elapsed = Limits[outer]
                            /\ timer > 0 \/ pending
        /\ scopes = <<>> => timer = 0 /\ ~deadline_active

\* npb_wait_end has not yet begun to close the outermost scope.
InWait == wait_depth > 0 \/ pc = "end_block"

\* The process is ended by the deadline only inside a wait and when the limit
\* of the outermost scope is over; a wait that returned is not ended by an
\* alarm it raced with, and no balanced use of the scopes ends by an alarm
\* without a handler or in configuration_error.
NoStrayExit ==
    [][code' # code =>
          \/ code' = 1 /\ pc = "caller"
          \/ code' = 124 /\ InWait /\ elapsed = Limits[outer]]_vars

\* A process that waits for ever inside a scope is ended by the deadline.
HungWaitEnds == hung ~> (code = 124)
=============================================================================
