------------------------- MODULE WaitDeadline_proofs -------------------------
(***************************************************************************)
(* Proofs about WaitDeadline for any limits, any nesting and any number of *)
(* waits.                                                                  *)
(***************************************************************************)
EXTENDS WaitDeadline, SequenceTheorems, TLAPS

USE WaitDeadlineAssumption

-----------------------------------------------------------------------------
(* The inductive invariant *)

Places == {"caller", "begin", "inspect", "install", "activate", "arm", "unblock",
           "end", "end_block", "deactivate", "disarm", "exited"}

\* Where SIGALRM is blocked.
Guarded == {"inspect", "install", "activate", "arm", "unblock", "deactivate", "disarm"}

Types ==
    /\ pc \in Places /\ arg \in Kind /\ outer \in Kind /\ scopes \in Seq(Kind)
    /\ hung \in BOOLEAN /\ deadline_active \in BOOLEAN /\ handler \in BOOLEAN
    /\ blocked \in BOOLEAN /\ pending \in BOOLEAN
    /\ wait_depth \in Nat /\ timer \in Nat /\ elapsed \in Nat /\ waits \in Nat
    /\ code \in Nat

\* The timer runs for the outermost scope, or the signal is raised.
Armed ==
    /\ handler /\ deadline_active
    /\ timer + elapsed = Limits[outer]
    /\ timer > 0 \/ pending

Disarmed == timer = 0 /\ ~deadline_active

\* Depth, timer and flag at every statement.
AtCaller ==
    pc = "caller" => /\ wait_depth = Len(scopes)
                     /\ IF scopes = <<>> THEN Disarmed ELSE Armed

AtBegin ==
    pc = "begin" => /\ Len(scopes) = wait_depth + 1
                    /\ IF wait_depth = 0 THEN Disarmed /\ ~pending /\ arg = outer ELSE Armed

AtOpening ==
    pc \in {"inspect", "install", "activate", "arm"} =>
        /\ Len(scopes) = 1 /\ arg = outer /\ timer = 0 /\ ~pending
        /\ IF pc = "arm" THEN wait_depth = 1 /\ deadline_active /\ handler
                         ELSE wait_depth = 0 /\ ~deadline_active
        /\ pc = "activate" => handler

AtUnblock ==
    pc = "unblock" => /\ wait_depth = Len(scopes)
                      /\ IF scopes = <<>> THEN Disarmed ELSE wait_depth = 1 /\ Armed

AtEnd ==
    pc = "end" => wait_depth = Len(scopes) + 1 /\ Armed

AtClosing ==
    pc \in {"end_block", "deactivate", "disarm"} =>
        /\ wait_depth = 0 /\ scopes = <<>>
        /\ IF pc = "disarm" THEN ~deadline_active ELSE Armed

\* The signal is raised by the timer that ran out, and the handler is there.
Signal ==
    /\ pc # "exited" => (blocked <=> pc \in Guarded)
    /\ pending => timer = 0 /\ handler
    /\ timer > 0 => handler
    /\ pc # "exited" => code = 0

IInv ==
    /\ Types /\ Signal
    /\ AtCaller /\ AtBegin /\ AtOpening /\ AtUnblock /\ AtEnd /\ AtClosing
-----------------------------------------------------------------------------
(* Facts about the stack of scopes *)

LEMMA PushScope ==
    ASSUME NEW q \in Seq(Kind), NEW k \in Kind
    PROVE  /\ Append(q, k) \in Seq(Kind) /\ Len(Append(q, k)) = Len(q) + 1
           /\ (q = <<>>) <=> (Len(q) = 0)
  OBVIOUS

LEMMA PopScope ==
    ASSUME NEW q \in Seq(Kind), q # <<>>
    PROVE  /\ SubSeq(q, 1, Len(q) - 1) \in Seq(Kind)
           /\ Len(SubSeq(q, 1, Len(q) - 1)) = Len(q) - 1
<1>1. Len(q) \in Nat \ {0}
  OBVIOUS
<1> DEFINE n == Len(q) - 1
<1>2. n \in Int /\ 1 \in Int /\ \A i \in 1 .. n : q[i] \in Kind
  BY <1>1
<1> HIDE DEF n
<1>3. SubSeq(q, 1, n) \in Seq(Kind) /\ Len(SubSeq(q, 1, n)) = IF 1 <= n THEN n - 1 + 1 ELSE 0
  BY <1>2, SubSeqProperties
<1>4. n \in Nat
  BY <1>1 DEF n
<1>5. SubSeq(q, 1, n) \in Seq(Kind) /\ Len(SubSeq(q, 1, n)) = n
  <2> DEFINE r == SubSeq(q, 1, n)
  <2> HIDE DEF r
  <2> SUFFICES r \in Seq(Kind) /\ Len(r) = n
    BY DEF r
  <2>1. r \in Seq(Kind) /\ Len(r) = IF 1 <= n THEN n - 1 + 1 ELSE 0
    BY <1>3 DEF r
  <2> QED
    BY <1>4, <2>1
<1> QED
  BY <1>5 DEF n

LEMMA EmptyScopes == ASSUME NEW q \in Seq(Kind) PROVE q = <<>> <=> Len(q) = 0
  OBVIOUS

-----------------------------------------------------------------------------
(* Every step keeps the invariant *)

LEMMA InitInvariant == Init => IInv
<1> SUFFICES ASSUME Init PROVE IInv
  OBVIOUS
<1>1. scopes \in Seq(Kind) /\ Len(scopes) = 0
  BY DEF Init
<1>2. arg \in Kind /\ outer \in Kind
  BY DEF Init, Kind
<1>3. Types
  BY <1>1, <1>2 DEF Init, Types, Places
<1>4. Signal
  BY DEF Init, Signal, Guarded
<1>5. AtCaller
  BY <1>1 DEF Init, AtCaller, Disarmed
<1>6. AtBegin /\ AtOpening /\ AtUnblock /\ AtEnd /\ AtClosing
  BY DEF Init, AtBegin, AtOpening, AtUnblock, AtEnd, AtClosing
<1> QED
  BY <1>3, <1>4, <1>5, <1>6 DEF IInv

LEMMA CallInvariant == IInv /\ Undisturbed /\ Call => IInv'
<1> SUFFICES ASSUME IInv, Undisturbed, Call PROVE IInv'
  OBVIOUS
<1> USE DEF IInv, Types, Signal, Places, Guarded, Armed, Disarmed, AtCaller, AtBegin,
      AtOpening, AtUnblock, AtEnd, AtClosing
<1>1. ASSUME NEW k \in Kind, CallBegin(k) PROVE IInv'
  BY <1>1, PushScope, EmptyScopes DEF Undisturbed, CallBegin, Goto, clock
<1>2. CASE CallEnd
  BY <1>2, PopScope, EmptyScopes DEF CallEnd, Goto, clock
<1>3. CASE Hang
  BY <1>3 DEF Hang, clock
<1>4. CASE Return
  BY <1>4 DEF Return, Exit, clock, caller
<1>5. CASE Abort
  BY <1>5 DEF Abort, Exit, clock, caller
<1> QED
  BY <1>1, <1>2, <1>3, <1>4, <1>5 DEF Call

LEMMA StepInvariant == IInv /\ Undisturbed /\ Step => IInv'
<1> SUFFICES ASSUME IInv, Undisturbed, Step PROVE IInv'
  OBVIOUS
<1> USE EmptyScopes DEF IInv, Types, Signal, Places, Guarded, Armed, Disarmed, AtCaller, AtBegin,
      AtOpening, AtUnblock, AtEnd, AtClosing,
      Goto, Exit, clock, caller
<1>1. CASE BeginNested
  BY <1>1 DEF BeginNested
<1>2. CASE BeginBlock
  BY <1>2 DEF BeginBlock
<1>3. CASE BeginInspect
  BY <1>3 DEF BeginInspect
<1>4. CASE BeginInstall
  BY <1>4 DEF BeginInstall
<1>5. CASE BeginActivate
  BY <1>5 DEF BeginActivate
<1>6. CASE BeginArm
  <2> DEFINE limit == Limits[arg]
  <2>1. limit \in Nat /\ limit > 0 /\ limit + 0 = limit
    OBVIOUS
  <2>2. /\ pc = "arm" /\ arg = outer /\ Len(scopes) = 1 /\ wait_depth = 1
        /\ deadline_active /\ handler /\ blocked /\ ~pending /\ code = 0
    BY <1>6 DEF BeginArm
  <2>3. /\ pc' = "unblock" /\ timer' = limit /\ elapsed' = 0 /\ code' = code /\ arg' = arg
        /\ scopes' = scopes /\ hung' = hung /\ outer' = outer /\ waits' = waits
        /\ wait_depth' = wait_depth /\ deadline_active' = deadline_active
        /\ handler' = handler /\ pending' = pending /\ blocked' = blocked
    BY <1>6 DEF BeginArm
  <2>4. Armed'
    BY <2>1, <2>2, <2>3
  <2> HIDE DEF limit
  <2>5. Types' /\ Signal'
    BY <2>1, <2>2, <2>3
  <2>6. AtUnblock'
    <3>1. scopes' \in Seq(Kind) /\ wait_depth' = Len(scopes') /\ wait_depth' = 1
      BY <2>2, <2>3 DEF Types
    <3>2. Len(scopes') # 0
      BY ONLY <3>1
    <3>3. scopes' # <<>>
      BY ONLY <3>1, <3>2, EmptyScopes, Zenon
    <3> HIDE DEF Armed
    <3> QED
      BY <3>1, <3>3, <2>4
  <2>7. AtCaller' /\ AtBegin' /\ AtOpening' /\ AtEnd' /\ AtClosing'
    BY <2>3
  <2> QED
    BY <2>5, <2>6, <2>7
<1>7. CASE Unblock
  BY <1>7 DEF Unblock
<1>8. CASE EndNested
  BY <1>8 DEF EndNested
<1>9. CASE EndBlock
  BY <1>9 DEF EndBlock
<1>10. CASE EndDeactivate
  BY <1>10 DEF EndDeactivate
<1>11. CASE EndDisarm
  BY <1>11 DEF EndDisarm
<1> QED
  BY <1>1, <1>2, <1>3, <1>4, <1>5, <1>6, <1>7, <1>8, <1>9, <1>10, <1>11 DEF Step

LEMMA TickInvariant == IInv /\ Tick => IInv'
  BY DEF Tick, Running, caller, IInv, Types, Signal, Places, Guarded, Armed, Disarmed, AtCaller, AtBegin,
      AtOpening, AtUnblock, AtEnd, AtClosing

LEMMA DeliverInvariant == IInv /\ Deliver => IInv'
<1> SUFFICES ASSUME IInv, Deliver PROVE IInv'
  OBVIOUS
<1>1. handler /\ (deadline_active \/ ~deadline_active)
  BY DEF Deliver, IInv, Signal
<1>2. CASE deadline_active
  <2>1. pc' = "exited" /\ code' = 124
    BY <1>1, <1>2 DEF Deliver, Exit
  <2> QED
    BY <1>1, <1>2, <2>1 DEF Deliver, Exit, caller, IInv, Types, Signal, Places,
      AtCaller, AtBegin, AtOpening, AtUnblock, AtEnd, AtClosing
<1>3. CASE ~deadline_active
  BY <1>1, <1>3 DEF Deliver, Running, caller, IInv, Types, Signal, Places, Guarded,
      Armed, Disarmed, AtCaller, AtBegin, AtOpening, AtUnblock, AtEnd, AtClosing
<1> QED
  BY <1>1, <1>2, <1>3

\* The invariant holds in every behaviour of npb_wait_begin and npb_wait_end.
THEOREM Invariance == Spec => []IInv
<1>1. IInv /\ [Next]_vars => IInv'
  <2> SUFFICES ASSUME IInv, [Next]_vars PROVE IInv'
    OBVIOUS
  <2>1. CASE Finished \/ UNCHANGED vars
    <3>1. UNCHANGED vars
      BY <2>1 DEF Finished
    <3>2. Types'
      BY <3>1 DEF vars, clock, caller, IInv, Types, Places
    <3>3. Signal'
      BY <3>1 DEF vars, clock, caller, IInv, Signal, Guarded
    <3>4. AtCaller' /\ AtBegin' /\ AtOpening'
      BY <3>1 DEF vars, clock, caller, IInv, AtCaller, AtBegin, AtOpening, Armed, Disarmed
    <3>5. AtUnblock' /\ AtEnd' /\ AtClosing'
      BY <3>1 DEF vars, clock, caller, IInv, AtUnblock, AtEnd, AtClosing, Armed, Disarmed
    <3> QED
      BY <3>2, <3>3, <3>4, <3>5 DEF IInv
  <2> QED
    BY <2>1, CallInvariant, StepInvariant, TickInvariant, DeliverInvariant
    DEF Next, Statement
<1> QED
  BY <1>1, InitInvariant, PTL DEF Spec

-----------------------------------------------------------------------------
(* What follows from it *)

\* In every scope the deadline of the outermost one is kept and wait_depth is
\* the number of open scopes, for any limits and nesting.
THEOREM DeadlineKept == Spec => []OutermostDeadlineKept
<1>1. IInv => OutermostDeadlineKept
  BY EmptyScopes DEF IInv, Types, AtCaller, Armed, Disarmed, OutermostDeadlineKept
<1> QED
  BY <1>1, Invariance, PTL

\* timeout_handler ends the process only inside a wait whose outermost limit
\* is over; no other statement ends it with an error but MPI_Abort.
THEOREM NoStrayExits == Spec => NoStrayExit
<1> DEFINE A == \/ code' = 1 /\ pc = "caller"
                \/ code' = 124 /\ InWait /\ elapsed = Limits[outer]
<1>1. IInv /\ [Next]_vars => [code' # code => A]_vars
  <2> SUFFICES ASSUME IInv, Next, code' # code PROVE A
    OBVIOUS
  <2>1. CASE Deliver
    BY <2>1, EmptyScopes DEF Deliver, Running, Exit, InWait, IInv, Types, Signal, Places, Guarded, Armed, Disarmed, AtCaller, AtBegin,
      AtOpening, AtUnblock, AtEnd, AtClosing
  <2>2. CASE Call
    BY <2>2 DEF Call, CallBegin, CallEnd, Hang, Return, Abort, Goto, Exit, IInv, Signal
  <2>3. CASE Step
    BY <2>3 DEF Step, BeginNested, BeginBlock, BeginInspect, BeginInstall,
      BeginActivate, BeginArm, Unblock, EndNested, EndBlock, EndDeactivate, EndDisarm,
      Goto, Exit, IInv, Types, Signal, Places, Guarded, Armed, Disarmed, AtCaller, AtBegin,
      AtOpening, AtUnblock, AtEnd, AtClosing
  <2> QED
    BY <2>1, <2>2, <2>3 DEF Next, Statement, Tick, Finished, vars
<1> QED
  BY <1>1, Invariance, PTL DEF Spec, NoStrayExit
=============================================================================
