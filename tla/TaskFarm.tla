------------------------------ MODULE TaskFarm -------------------------------
(***************************************************************************)
(* The task farm of master_attest.c and worker_attest.c, which is also the *)
(* one of master_star.c and worker_star.c (and of their copies master.c    *)
(* and worker.c), from the end of enrollment to the exit of the last       *)
(* process.                                                                *)
(*                                                                         *)
(* The master hands every worker a task or tells it to idle, polls all of  *)
(* them and answers each result with the next task.  A message that does   *)
(* not open or was seen before is dropped by either side, and nothing is   *)
(* ever sent again.  No wait has a deadline.                               *)
(*                                                                         *)
(* A definition X_Y is X with the bug Y put in; the specification does not *)
(* use it.                                                                 *)
(***************************************************************************)
EXTENDS Integers, Sequences, FiniteSets

CONSTANTS
    Target,       \* target, the workers the master was asked for
    NT,           \* NT, the number of tasks
    Fault,        \* kinds of faults the environment may inject
    MaxFaults     \* bound on their number

ASSUME TaskFarmAssumption ==
    /\ Target \in Nat \ {0}
    /\ NT \in Nat \ {0}
    /\ Fault \subseteq {"damage", "duplicate", "kill"}
    /\ MaxFaults \in Nat

Worker == 1 .. Target
Task   == 1 .. NT

VARIABLES
    nworkers,  \* nworkers: who was enrolled holds the slots 1 .. nworkers
    down,      \* down[w]: frames on the way to w
    up,        \* up[w]: frames on the way from w
    sendCtr,   \* send_nonce_ctr of the master
    recvCtr,   \* recv_nonce_ctr of the master
    mpc,       \* where the master is
    idx,       \* its loop variable "i"
    next,      \* next: tasks handed out
    received,  \* results_received
    results,   \* the tasks of those results (history)
    mcode,     \* exit code of the master
    wSendCtr,  \* send_nonce_ctr of each worker
    wRecvCtr,  \* recv_nonce_ctr of each worker
    wpc,       \* where each worker is
    wtask,     \* "x" of each worker
    worked,    \* how often each task was computed (history)
    synchronous,  \* MPI_Send returns only when the message is received
    faults,    \* faults injected so far
    injected   \* their kinds (history)

env    == <<synchronous, faults, injected>>
master == <<nworkers, mpc, idx, next, received, results, mcode, sendCtr, recvCtr>>
worker == <<wpc, wtask, worked, wSendCtr, wRecvCtr>>
vars   == <<master, worker, down, up, env>>

Init ==
    /\ nworkers \in 0 .. Target
    /\ down = [w \in Worker |-> <<>>] /\ up = [w \in Worker |-> <<>>]
    /\ sendCtr = [w \in Worker |-> 0] /\ recvCtr = [w \in Worker |-> 0]
    /\ wSendCtr = [w \in Worker |-> 0] /\ wRecvCtr = [w \in Worker |-> 0]
    /\ mpc = "start" /\ idx = 1 /\ next = 0 /\ received = 0 /\ results = {}
    /\ mcode = 0
    /\ wpc = [w \in Worker |-> IF w <= nworkers THEN "loop" ELSE "exited"]
    /\ wtask = [w \in Worker |-> 0]
    /\ worked = [t \in Task |-> 0]
    /\ synchronous \in BOOLEAN /\ faults = 0 /\ injected = {}
-----------------------------------------------------------------------------
(* Sealed messages *)

Frame(c, tag, x) == [ctr |-> c, tag |-> tag, task |-> x, intact |-> TRUE]

Opens_NoReplayCheck(f, expected) == f.intact

\* secure_recv: a counter that was not passed yet, and a valid ciphertext.
Opens(f, expected) == f.ctr >= expected /\ f.intact

Advance_Keeps(ctr, w, f) == ctr

\* The next counter to expect once f is received.
Advance(ctr, w, f) == IF Opens(f, ctr[w]) THEN [ctr EXCEPT ![w] = f.ctr + 1] ELSE ctr

SendDown(w, tag, x) ==
    /\ down' = [down EXCEPT ![w] = Append(@, Frame(sendCtr[w], tag, x))]
    /\ sendCtr' = [sendCtr EXCEPT ![w] = @ + 1]

MasterFree    == synchronous => \A w \in Worker : down[w] = <<>>
WorkerFree(w) == synchronous => up[w] = <<>>
-----------------------------------------------------------------------------
(* The master *)

NextWorker_OneTooMany(here, after) ==
    IF idx <= nworkers THEN idx' = idx + 1 /\ mpc' = here
                       ELSE idx' = 1 /\ mpc' = after

\* "for i": one more iteration, or the statement after the loop.
NextWorker(here, after) ==
    IF idx < nworkers THEN idx' = idx + 1 /\ mpc' = here
                      ELSE idx' = 1 /\ mpc' = after

\* Without workers there is nothing to do.
Start ==
    /\ mpc = "start"
    /\ mpc' = IF nworkers = 0 THEN "exited" ELSE "scatter"
    /\ UNCHANGED <<nworkers, idx, next, received, results, mcode, sendCtr, recvCtr,
                   worker, down, up, env>>

\* The next task, or IDLE.
HandOut(w) ==
    IF next < NT THEN SendDown(w, "TASK", next + 1) /\ next' = next + 1
                 ELSE SendDown(w, "IDLE", 0) /\ UNCHANGED next

Scatter ==
    /\ mpc = "scatter" /\ MasterFree
    /\ HandOut(idx)
    /\ NextWorker("scatter", "poll")
    /\ UNCHANGED <<nworkers, received, results, mcode, recvCtr, worker, up, env>>

\* results_received is looked at before worker 1.
Collected == idx = 1 /\ received >= NT

Sweep_NoWrap == idx' = (IF idx < nworkers THEN idx + 1 ELSE idx) /\ mpc' = "poll"

\* "for i" again and again.
Sweep == idx' = (idx % nworkers) + 1 /\ mpc' = "poll"

PollMiss ==
    /\ mpc = "poll" /\ MasterFree /\ ~Collected
    /\ up[idx] = <<>>
    /\ Sweep
    /\ UNCHANGED <<nworkers, next, received, results, mcode, sendCtr, recvCtr,
                   worker, down, up, env>>

ReceiveResult_AnswersDropped ==
    LET f == Head(up[idx])
    IN  /\ mpc = "poll" /\ MasterFree /\ ~Collected
        /\ up[idx] # <<>>
        /\ up' = [up EXCEPT ![idx] = Tail(@)]
        /\ recvCtr' = Advance(recvCtr, idx, f)
        /\ IF Opens(f, recvCtr[idx])
           THEN received' = received + 1 /\ results' = results \cup {f.task}
           ELSE UNCHANGED <<received, results>>
        /\ mpc' = "answer" /\ UNCHANGED idx
        /\ UNCHANGED <<nworkers, next, mcode, sendCtr, worker, down, env>>

\* A result that does not open is dropped; a good one is counted.
ReceiveResult ==
    LET f == Head(up[idx])
    IN  /\ mpc = "poll" /\ MasterFree /\ ~Collected
        /\ up[idx] # <<>>
        /\ up' = [up EXCEPT ![idx] = Tail(@)]
        /\ recvCtr' = Advance(recvCtr, idx, f)
        /\ IF Opens(f, recvCtr[idx])
           THEN /\ received' = received + 1 /\ results' = results \cup {f.task}
                /\ mpc' = "answer" /\ UNCHANGED idx
           ELSE Sweep /\ UNCHANGED <<received, results>>
        /\ UNCHANGED <<nworkers, next, mcode, sendCtr, worker, down, env>>

Answer ==
    /\ mpc = "answer" /\ MasterFree
    /\ HandOut(idx)
    /\ Sweep
    /\ UNCHANGED <<nworkers, received, results, mcode, recvCtr, worker, up, env>>

LeaveSweep ==
    /\ mpc = "poll" /\ MasterFree /\ Collected
    /\ mpc' = "shutdown"
    /\ UNCHANGED <<nworkers, idx, next, received, results, mcode, sendCtr, recvCtr,
                   worker, down, up, env>>

SendShutdown ==
    /\ mpc = "shutdown" /\ MasterFree
    /\ SendDown(idx, "SHUTDOWN", 0)
    /\ mpc' = "disconnect"
    /\ UNCHANGED <<nworkers, idx, next, received, results, mcode, recvCtr,
                   worker, up, env>>
-----------------------------------------------------------------------------
(* A worker *)

WorkerGoto(w, pc) == wpc' = [wpc EXCEPT ![w] = pc]

\* The probe takes any tag, so a worker sees the frames in the order of the
\* sends.  What does not open is skipped.
ReceiveFrame(w) ==
    LET f == Head(down[w])
    IN  /\ wpc[w] = "loop" /\ WorkerFree(w) /\ down[w] # <<>>
        /\ down' = [down EXCEPT ![w] = Tail(@)]
        /\ wRecvCtr' = Advance(wRecvCtr, w, f)
        /\ \/ /\ Opens(f, wRecvCtr[w]) /\ f.tag = "TASK"
              /\ WorkerGoto(w, "reply")
              /\ wtask' = [wtask EXCEPT ![w] = f.task]
              /\ worked' = [worked EXCEPT ![f.task] = @ + 1]
           \/ /\ Opens(f, wRecvCtr[w]) /\ f.tag = "SHUTDOWN"
              /\ WorkerGoto(w, "disconnect") /\ UNCHANGED <<wtask, worked>>
           \/ /\ ~Opens(f, wRecvCtr[w]) \/ f.tag = "IDLE"
              /\ UNCHANGED <<wpc, wtask, worked>>
        /\ UNCHANGED <<master, wSendCtr, up, env>>

SendResult(w) ==
    /\ wpc[w] = "reply"
    /\ up' = [up EXCEPT ![w] = Append(@, Frame(wSendCtr[w], "RESULT", wtask[w]))]
    /\ wSendCtr' = [wSendCtr EXCEPT ![w] = @ + 1]
    /\ WorkerGoto(w, "loop")
    /\ UNCHANGED <<master, wtask, worked, wRecvCtr, down, env>>

\* MPI_Comm_disconnect is collective.
Disconnect(w) ==
    /\ mpc = "disconnect" /\ idx = w /\ MasterFree
    /\ wpc[w] = "disconnect" /\ WorkerFree(w)
    /\ WorkerGoto(w, "exited")
    /\ NextWorker("shutdown", "exited")
    /\ UNCHANGED <<nworkers, next, received, results, mcode, sendCtr, recvCtr,
                   wtask, worked, wSendCtr, wRecvCtr, down, up, env>>
-----------------------------------------------------------------------------
(* Faults *)

Gone(w)    == wpc[w] = "exited"
MasterGone == mpc = "exited"

Inject(kind) ==
    /\ kind \in Fault /\ faults < MaxFaults
    /\ faults' = faults + 1 /\ injected' = injected \cup {kind}
    /\ UNCHANGED synchronous

Broken(q, i)   == [q EXCEPT ![i].intact = FALSE]
Repeated(q, i) == Append(q, q[i])

\* A frame is damaged under way.
Damage(w) ==
    /\ Inject("damage")
    /\ \/ \E i \in DOMAIN down[w] :
             down' = [down EXCEPT ![w] = Broken(@, i)] /\ UNCHANGED up
       \/ \E i \in DOMAIN up[w] :
             up' = [up EXCEPT ![w] = Broken(@, i)] /\ UNCHANGED down
    /\ UNCHANGED <<master, worker>>

\* A copy of a frame that was buffered arrives after the others.
Duplicate(w) ==
    /\ Inject("duplicate") /\ ~synchronous
    /\ \/ \E i \in DOMAIN down[w] :
             down' = [down EXCEPT ![w] = Repeated(@, i)] /\ UNCHANGED up
       \/ \E i \in DOMAIN up[w] :
             up' = [up EXCEPT ![w] = Repeated(@, i)] /\ UNCHANGED down
    /\ UNCHANGED <<master, worker>>

Kill(w) ==
    /\ Inject("kill") /\ ~Gone(w)
    /\ WorkerGoto(w, "exited")
    /\ UNCHANGED <<master, wtask, worked, wSendCtr, wRecvCtr, down, up>>

\* die_mpi: an MPI call may report that the other end is gone.
PeerLost ==
    /\ mpc \in {"scatter", "poll", "answer", "shutdown", "disconnect"} /\ Gone(idx)
    /\ mpc' = "exited" /\ mcode' = 1
    /\ UNCHANGED <<nworkers, idx, next, received, results, sendCtr, recvCtr,
                   worker, down, up, env>>

MasterLost(w) ==
    /\ MasterGone /\ ~Gone(w)
    /\ WorkerGoto(w, "exited")
    /\ UNCHANGED <<master, wtask, worked, wSendCtr, wRecvCtr, down, up, env>>

Finished ==
    /\ MasterGone /\ \A w \in Worker : Gone(w)
    /\ UNCHANGED vars
-----------------------------------------------------------------------------
MasterStep ==
    \/ Start \/ Scatter \/ PollMiss \/ ReceiveResult \/ Answer \/ LeaveSweep
    \/ SendShutdown

WorkerStep(w) == ReceiveFrame(w) \/ SendResult(w)

Next ==
    \/ MasterStep
    \/ \E w \in Worker : WorkerStep(w) \/ Disconnect(w)
    \/ PeerLost
    \/ \E w \in Worker : Damage(w) \/ Duplicate(w) \/ Kill(w) \/ MasterLost(w)
    \/ Finished

Spec == Init /\ [][Next]_vars

\* Every process is scheduled and a collective call both ends entered returns.
FairSpec ==
    /\ Spec
    /\ WF_vars(MasterStep)
    /\ \A w \in Worker : WF_vars(WorkerStep(w)) /\ WF_vars(Disconnect(w))
-----------------------------------------------------------------------------
(* Properties *)

MasterAt == {"start", "scatter", "poll", "answer", "shutdown", "disconnect", "exited"}
WorkerAt == {"loop", "reply", "disconnect", "exited"}
Frames   == [ctr : Nat, tag : {"TASK", "IDLE", "SHUTDOWN", "RESULT"},
             task : 0 .. NT, intact : BOOLEAN]

\* Every variable stays in its range: no more than NT results are counted.
TypeOK ==
    /\ nworkers \in 0 .. Target
    /\ down \in [Worker -> Seq(Frames)] /\ up \in [Worker -> Seq(Frames)]
    /\ sendCtr \in [Worker -> Nat] /\ recvCtr \in [Worker -> Nat]
    /\ mpc \in MasterAt /\ idx \in Worker /\ next \in 0 .. NT
    /\ received \in 0 .. NT /\ results \subseteq Task /\ mcode \in {0, 1}
    /\ wSendCtr \in [Worker -> Nat] /\ wRecvCtr \in [Worker -> Nat]
    /\ wpc \in [Worker -> WorkerAt] /\ wtask \in [Worker -> 0 .. NT]
    /\ worked \in [Task -> Nat] /\ synchronous \in BOOLEAN
    /\ faults \in 0 .. MaxFaults /\ injected \subseteq Fault

\* A task is computed at most once and its result counted at most once,
\* whatever is damaged or arrives twice; only tasks that were handed out are.
EachOnce ==
    /\ \A t \in Task : worked[t] <= 1
    /\ received = Cardinality(results)
    /\ \A t \in results : worked[t] = 1 /\ t <= next

\* The farm goes in lockstep: while it polls, the master has sent every
\* worker exactly one message more than it has accepted from it, so a worker
\* never holds two tasks.
Lockstep ==
    mpc = "poll" => \A w \in 1 .. nworkers : sendCtr[w] = recvCtr[w] + 1

\* Without damage and kills all results come in and every process exits,
\* however many workers were enrolled, also when frames arrive twice, and
\* whether or not an MPI_Send is buffered.
AllCollected ==
    [](injected \subseteq {"duplicate"}) =>
       <>(/\ MasterGone /\ mcode = 0
          /\ nworkers > 0 => results = Task
          /\ \A w \in Worker : Gone(w))

\* The result of task t can still be counted.
Pending(t) ==
    \/ \E w \in Worker : ~Gone(w) /\ wpc[w] = "reply" /\ wtask[w] = t
    \/ \E w \in Worker : \E i \in DOMAIN up[w] : up[w][i].task = t /\ up[w][i].intact
    \/ \E w \in Worker : \E i \in DOMAIN down[w] :
          ~Gone(w) /\ down[w][i].task = t /\ down[w][i].intact

\* With damage or kills the master ends, or it stays for ever in one of three
\* places: it polls for the result of a task that was handed out and is
\* lost, it waits in the disconnect for a worker that did not take the
\* SHUTDOWN or is gone, or in an unbuffered send to a worker that is gone.
EndsOrWaitsForLost ==
    \/ <>MasterGone
    \/ <>[](mpc = "poll" /\ \E t \in 1 .. next : t \notin results /\ ~Pending(t))
    \/ <>[](/\ mpc = "disconnect"
            /\ Gone(idx) \/ (wpc[idx] = "loop" /\ down[idx] = <<>>))
    \/ <>[](synchronous /\ \E w \in Worker : Gone(w) /\ down[w] # <<>>)
=============================================================================
