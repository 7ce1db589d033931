------------------------------ MODULE TaskQueue ------------------------------
(***************************************************************************)
(* The TASKQ workload: run_taskq_master and the shutdown of master_npb.c,  *)
(* run_taskq_workload and the command loop of worker_npb.c, from the       *)
(* moment every worker is enrolled to the exit of the last process.        *)
(*                                                                         *)
(* The master hands each worker one task at a time, polls the busy workers *)
(* in index order, checks every answer and hands out the next task.  It    *)
(* ends a run when all the answers are in.  Whatever it receives and       *)
(* cannot verify makes it abort.                                           *)
(*                                                                         *)
(* A definition X_Y is X with the bug Y put in.  The specification does    *)
(* not use it: it shows which slip in the code a property would notice.    *)
(***************************************************************************)
EXTENDS Integers, Sequences, FiniteSets

CONSTANTS
    N,            \* nworkers, the number of enrolled workers
    TaskCount,    \* task_count, tasks per run
    NumRuns,      \* num_runs
    Encrypt,      \* encrypt: workload messages are AEAD-protected
    Synchronous,  \* MPI_Send returns only when the message is received
    Timely,       \* a peer that is alive answers within the deadline of a wait
    MaxFaults     \* bound on the faults the environment may inject

ASSUME TaskQueueAssumption ==
    /\ N \in Nat \ {0}
    /\ TaskCount \in Nat \ {0}
    /\ NumRuns \in Nat \ {0}
    /\ MaxFaults \in Nat
    /\ Encrypt \in BOOLEAN
    /\ Synchronous \in BOOLEAN
    /\ Timely \in BOOLEAN

Worker  == 0 .. N - 1
TaskId  == 0 .. TaskCount - 1
DownTag == {"CMD", "CONTROL", "TASK", "INPUT"}
UpTag   == {"READY", "RESULT", "OUTPUT"}

\* The command and the READY answer are always encrypted, the workload
\* messages only when the command asks for it.
PlainTag == IF Encrypt THEN {} ELSE (DownTag \cup UpTag) \ {"CMD", "READY"}

VARIABLES net, sendCtr, recvCtr, wSendCtr, wRecvCtr    \* see AeadLink

INSTANCE AeadLink

VARIABLES
    mpc,        \* where the master is
    idx,        \* its loop variable "worker"
    run,        \* its current run
    busy,       \* busy[MAX_WORKERS]
    assigned,   \* assigned_task[MAX_WORKERS]
    nextTask,   \* next_task
    completed,  \* completed
    done,       \* the tasks counted in completed (history)
    log,        \* what record_generic_result recorded, run by run (history)
    mcode,      \* exit code of the master
    wpc,        \* where each worker is
    wrun,       \* the run each worker is in
    wtask,      \* the task each worker works on
    wok,        \* its verified flag
    wcode,      \* exit code of each worker
    faults      \* faults injected so far

link   == <<net, sendCtr, recvCtr, wSendCtr, wRecvCtr>>
master == <<mpc, idx, run, busy, assigned, nextTask, completed, done, log, mcode>>
worker == <<wpc, wrun, wtask, wok, wcode>>
vars   == <<link, master, worker, faults>>

\* Fields of npb_cmd, workload_ready, taskq_control, taskq_task,
\* taskq_result and of the two payloads that a receiver looks at.
Msg(kind, r, t, ok) == [kind |-> kind, run |-> r, task |-> t, ok |-> ok]

Kind == {"start", "done", "ready", "control", "work", "end",
         "input", "result", "output"}
Body == [kind : Kind, run : Nat, task : Nat, ok : BOOLEAN]

MasterAt == {"cmd", "ready", "run", "control", "scatter", "scatterInput", "poll",
             "output", "assign", "assignInput", "end", "record",
             "shutdown", "disconnect", "exited"}
WorkerAt == {"cmd", "ready", "control", "task", "input", "result", "output",
             "disconnect", "exited"}

\* 0 is also the value while the process runs; 124 is the deadline, 137 a kill.
ExitCode == {0, 1, 124, 137}

Init ==
    /\ LinkInit
    /\ mpc = "cmd" /\ idx = 0 /\ run = 0 /\ mcode = 0
    /\ busy = [w \in Worker |-> FALSE]
    /\ assigned = [w \in Worker |-> 0]
    /\ nextTask = 0 /\ completed = 0 /\ done = {} /\ log = <<>>
    /\ wpc = [w \in Worker |-> "cmd"]
    /\ wrun = [w \in Worker |-> 1]
    /\ wtask = [w \in Worker |-> 0]
    /\ wok = [w \in Worker |-> TRUE]
    /\ wcode = [w \in Worker |-> 0]
    /\ faults = 0
-----------------------------------------------------------------------------
(* The master *)

NextWorker_OneTooMany(here, after) ==
    IF idx + 1 <= N THEN idx' = idx + 1 /\ mpc' = here
                    ELSE idx' = 0 /\ mpc' = after

\* One more iteration of "for worker", or the statement after the loop.
NextWorker(here, after) ==
    IF idx + 1 < N THEN idx' = idx + 1 /\ mpc' = here
                   ELSE idx' = 0 /\ mpc' = after

Sweep_NoWrap == idx' = (IF idx + 1 < N THEN idx + 1 ELSE idx) /\ mpc' = "poll"

\* The polling sweep never ends by itself; its loop wraps around.
Sweep == idx' = (idx + 1) % N /\ mpc' = "poll"

MasterExit(code) ==
    mpc' = "exited" /\ mcode' = code /\ UNCHANGED idx

tasks == <<busy, assigned, nextTask, completed, done>>

\* run_taskq_master: secure_send of CMD_NPB_START to every worker.
SendCommand ==
    /\ mpc = "cmd" /\ MasterFree
    /\ MasterSend(idx, "CMD", Msg("start", 0, 0, TRUE))
    /\ NextWorker("cmd", "ready")
    /\ UNCHANGED <<run, tasks, log, mcode, worker, faults>>

\* wait_for_workload_ready: a worker that is not ready fails the workload,
\* and main answers a failed workload with MPI_Abort.
ReceiveReady ==
    /\ mpc = "ready" /\ MasterFree /\ Arrived(idx, "READY")
    /\ MasterTake(idx, "READY")
    /\ IF MasterOpens(idx, "READY") /\ Got(idx, "READY").ok
       THEN NextWorker("ready", "run") /\ UNCHANGED mcode
       ELSE MasterExit(1)
    /\ UNCHANGED <<run, tasks, log, worker, faults>>

StartRun_KeepsCount ==
    /\ mpc = "run"
    /\ run' = run + 1
    /\ busy' = [w \in Worker |-> FALSE]
    /\ assigned' = [w \in Worker |-> 0]
    /\ nextTask' = 0 /\ UNCHANGED <<completed, done>>
    /\ mpc' = "control"
    /\ UNCHANGED <<link, idx, log, mcode, worker, faults>>

\* The head of a run: the bookkeeping starts from nothing.
StartRun ==
    /\ mpc = "run"
    /\ run' = run + 1
    /\ busy' = [w \in Worker |-> FALSE]
    /\ assigned' = [w \in Worker |-> 0]
    /\ nextTask' = 0 /\ completed' = 0 /\ done' = {}
    /\ mpc' = "control"
    /\ UNCHANGED <<link, idx, log, mcode, worker, faults>>

\* TASKQ_CONTROL_START to every worker.
SendControl ==
    /\ mpc = "control" /\ MasterFree
    /\ MasterSend(idx, "CONTROL", Msg("control", run, 0, TRUE))
    /\ NextWorker("control", "scatter")
    /\ UNCHANGED <<run, tasks, log, mcode, worker, faults>>

SendTask_ForgetsWho(from, to) ==
    /\ mpc = from /\ MasterFree /\ nextTask < TaskCount
    /\ MasterSend(idx, "TASK", Msg("work", run, nextTask, TRUE))
    /\ mpc' = to
    /\ UNCHANGED <<idx, run, tasks, log, mcode, worker, faults>>

\* send_taskq_work, first half: the task header.
SendTask(from, to) ==
    /\ mpc = from /\ MasterFree /\ nextTask < TaskCount
    /\ assigned' = [assigned EXCEPT ![idx] = nextTask]
    /\ MasterSend(idx, "TASK", Msg("work", run, nextTask, TRUE))
    /\ mpc' = to
    /\ UNCHANGED <<idx, run, busy, nextTask, completed, done, log, mcode,
                   worker, faults>>

SendInput_SameTask(from) ==
    /\ mpc = from /\ MasterFree
    /\ MasterSend(idx, "INPUT", Msg("input", run, nextTask, TRUE))
    /\ busy' = [busy EXCEPT ![idx] = TRUE]
    /\ IF from = "scatterInput" THEN NextWorker("scatter", "poll") ELSE Sweep
    /\ UNCHANGED <<run, assigned, nextTask, completed, done, log, mcode,
                   worker, faults>>

\* send_taskq_work, second half: the input; then next_task++, busy = 1.
SendInput(from) ==
    /\ mpc = from /\ MasterFree
    /\ MasterSend(idx, "INPUT", Msg("input", run, nextTask, TRUE))
    /\ nextTask' = nextTask + 1
    /\ busy' = [busy EXCEPT ![idx] = TRUE]
    /\ IF from = "scatterInput" THEN NextWorker("scatter", "poll") ELSE Sweep
    /\ UNCHANGED <<run, assigned, completed, done, log, mcode, worker, faults>>

ScatterNothing_Waits == FALSE

\* The initial distribution has more workers than tasks.
ScatterNothing ==
    /\ mpc = "scatter" /\ MasterFree /\ nextTask >= TaskCount
    /\ NextWorker("scatter", "poll")
    /\ UNCHANGED <<link, run, tasks, log, mcode, worker, faults>>

AllCompleted_AllHandedOut == idx = 0 /\ nextTask >= TaskCount

\* The loop condition is looked at once per sweep, before worker 0.
AllCompleted == idx = 0 /\ completed >= TaskCount

\* Iprobe finds nothing, or the worker is idle.
PollMiss ==
    /\ mpc = "poll" /\ MasterFree /\ ~AllCompleted
    /\ ~(busy[idx] /\ Arrived(idx, "RESULT"))
    /\ Sweep
    /\ UNCHANGED <<link, run, tasks, log, mcode, worker, faults>>

\* Iprobe finds a result: receive it and compare it with what was assigned.
ReceiveResult ==
    /\ mpc = "poll" /\ MasterFree /\ ~AllCompleted
    /\ busy[idx] /\ Arrived(idx, "RESULT")
    /\ MasterTake(idx, "RESULT")
    /\ IF /\ MasterOpens(idx, "RESULT")
          /\ Got(idx, "RESULT").run = run
          /\ Got(idx, "RESULT").ok
          /\ Got(idx, "RESULT").task = assigned[idx]
       THEN mpc' = "output" /\ UNCHANGED <<idx, mcode>>
       ELSE MasterExit(1)
    /\ UNCHANGED <<run, tasks, log, worker, faults>>

\* The output follows; its samples are compared with the expected bytes of
\* this task and run.  Then the worker gets the next task, if there is one.
ReceiveOutput ==
    /\ mpc = "output" /\ MasterFree /\ Arrived(idx, "OUTPUT")
    /\ MasterTake(idx, "OUTPUT")
    /\ IF /\ MasterOpens(idx, "OUTPUT")
          /\ Got(idx, "OUTPUT").run = run
          /\ Got(idx, "OUTPUT").task = assigned[idx]
       THEN /\ completed' = completed + 1
            /\ done' = done \cup {assigned[idx]}
            /\ busy' = [busy EXCEPT ![idx] = FALSE]
            /\ IF nextTask < TaskCount
               THEN mpc' = "assign" /\ UNCHANGED idx
               ELSE Sweep
            /\ UNCHANGED mcode
       ELSE MasterExit(1) /\ UNCHANGED <<completed, done, busy>>
    /\ UNCHANGED <<run, assigned, nextTask, log, worker, faults>>

LeaveSweep ==
    /\ mpc = "poll" /\ MasterFree /\ AllCompleted
    /\ mpc' = "end"
    /\ UNCHANGED <<link, idx, run, tasks, log, mcode, worker, faults>>

\* send_taskq_end to every worker.
SendEnd ==
    /\ mpc = "end" /\ MasterFree
    /\ MasterSend(idx, "TASK", Msg("end", run, 0, TRUE))
    /\ NextWorker("end", "record")
    /\ UNCHANGED <<run, tasks, log, mcode, worker, faults>>

\* record_generic_result, then the next run or the end of the workload.
RecordResult ==
    /\ mpc = "record" /\ MasterFree
    /\ log' = Append(log, [run |-> run, tasks |-> done])
    /\ mpc' = IF run < NumRuns THEN "run" ELSE "shutdown"
    /\ UNCHANGED <<link, idx, run, tasks, mcode, worker, faults>>

\* SHUTDOWN in main: CMD_NPB_DONE, then a collective disconnect, one worker
\* after the other.
SendDone ==
    /\ mpc = "shutdown" /\ MasterFree
    /\ MasterSend(idx, "CMD", Msg("done", 0, 0, TRUE))
    /\ mpc' = "disconnect"
    /\ UNCHANGED <<idx, run, tasks, log, mcode, worker, faults>>
-----------------------------------------------------------------------------
(* A worker *)

WorkerGoto(w, pc) == wpc' = [wpc EXCEPT ![w] = pc]

\* The command loop of main: a command that does not open ends it, and so
\* does CMD_NPB_DONE.
ReceiveCommand(w) ==
    /\ wpc[w] = "cmd" /\ WorkerFree(w) /\ Arrived(w, "CMD")
    /\ WorkerTake(w, "CMD")
    /\ IF WorkerOpens(w, "CMD") /\ Got(w, "CMD").kind = "start"
       THEN WorkerGoto(w, "ready")
       ELSE WorkerGoto(w, "disconnect")
    /\ UNCHANGED <<master, wrun, wtask, wok, wcode, faults>>

\* run_taskq_workload sets up its buffers; it tells the master when it cannot.
SetUp(w, ok) ==
    /\ wpc[w] = "ready"
    /\ WorkerSend(w, "READY", Msg("ready", 0, 0, ok))
    /\ wrun' = [wrun EXCEPT ![w] = 1]
    /\ WorkerGoto(w, IF ok THEN "control" ELSE "disconnect")
    /\ faults' = IF ok THEN faults ELSE faults + 1
    /\ UNCHANGED <<master, wtask, wok, wcode>>

ReceiveControl(w) ==
    /\ wpc[w] = "control" /\ WorkerFree(w) /\ Arrived(w, "CONTROL")
    /\ WorkerTake(w, "CONTROL")
    /\ IF WorkerOpens(w, "CONTROL") /\ Got(w, "CONTROL").run = wrun[w]
       THEN WorkerGoto(w, "task")
       ELSE WorkerGoto(w, "disconnect")
    /\ UNCHANGED <<master, wrun, wtask, wok, wcode, faults>>

\* The header of a task, or the end of the run.
ReceiveTask(w) ==
    LET task == Got(w, "TASK")
        good == WorkerOpens(w, "TASK") /\ task.run = wrun[w]
    IN  /\ wpc[w] = "task" /\ WorkerFree(w) /\ Arrived(w, "TASK")
        /\ WorkerTake(w, "TASK")
        /\ \/ /\ good /\ task.kind = "work" /\ task.task < TaskCount
              /\ wtask' = [wtask EXCEPT ![w] = task.task]
              /\ WorkerGoto(w, "input") /\ UNCHANGED wrun
           \/ /\ good /\ task.kind = "end" /\ wrun[w] < NumRuns
              /\ wrun' = [wrun EXCEPT ![w] = @ + 1]
              /\ WorkerGoto(w, "control") /\ UNCHANGED wtask
           \/ /\ good /\ task.kind = "end" /\ wrun[w] >= NumRuns
              /\ WorkerGoto(w, "cmd") /\ UNCHANGED <<wrun, wtask>>
           \/ /\ ~good \/ (task.kind = "work" /\ task.task >= TaskCount)
              /\ WorkerGoto(w, "disconnect") /\ UNCHANGED <<wrun, wtask>>
        /\ UNCHANGED <<master, wok, wcode, faults>>

\* The input; three of its bytes are compared with the ones expected for
\* this task and run.
ReceiveInput(w) ==
    /\ wpc[w] = "input" /\ WorkerFree(w) /\ Arrived(w, "INPUT")
    /\ WorkerTake(w, "INPUT")
    /\ IF WorkerOpens(w, "INPUT")
       THEN /\ WorkerGoto(w, "result")
            /\ wok' = [wok EXCEPT ![w] = /\ Got(w, "INPUT").task = wtask[w]
                                         /\ Got(w, "INPUT").run = wrun[w]]
       ELSE WorkerGoto(w, "disconnect") /\ UNCHANGED wok
    /\ UNCHANGED <<master, wrun, wtask, wcode, faults>>

SendResult(w) ==
    /\ wpc[w] = "result"
    /\ WorkerSend(w, "RESULT", Msg("result", wrun[w], wtask[w], wok[w]))
    /\ WorkerGoto(w, "output")
    /\ UNCHANGED <<master, wrun, wtask, wok, wcode, faults>>

SendOutput(w) ==
    /\ wpc[w] = "output" /\ WorkerFree(w)
    /\ WorkerSend(w, "OUTPUT", Msg("output", wrun[w], wtask[w], TRUE))
    /\ WorkerGoto(w, "task")
    /\ UNCHANGED <<master, wrun, wtask, wok, wcode, faults>>

\* MPI_Comm_disconnect is collective: both ends return together.  The worker
\* then exits with 0, the master turns to the next worker or exits.
Disconnect(w) ==
    /\ mpc = "disconnect" /\ idx = w /\ MasterFree
    /\ wpc[w] = "disconnect" /\ WorkerFree(w)
    /\ WorkerGoto(w, "exited")
    /\ NextWorker("shutdown", "exited")
    /\ UNCHANGED <<link, run, tasks, log, mcode, wrun, wtask, wok, wcode, faults>>
-----------------------------------------------------------------------------
(* Deadlines and faults *)

Gone(w)    == wpc[w] = "exited"
MasterGone == mpc = "exited"

MasterWaitsFor_NoOutput(w) ==
    \/ Synchronous /\ \E t \in DownTag : Arrived(w, t)
    \/ idx = w /\ mpc = "ready" /\ ~Arrived(w, "READY")
    \/ idx = w /\ mpc = "disconnect" /\ wpc[w] # "disconnect"

\* Waits of the master that run under npb_wait_begin.  The polling sweep is
\* not one of them: mpi_iprobe_f returns at once and arms no deadline.
MasterWaitsFor(w) ==
    \/ Synchronous /\ \E t \in DownTag : Arrived(w, t)
    \/ idx = w /\ mpc = "ready" /\ ~Arrived(w, "READY")
    \/ idx = w /\ mpc = "output" /\ ~Arrived(w, "OUTPUT")
    \/ idx = w /\ mpc = "disconnect" /\ wpc[w] # "disconnect"

WorkerWaits_NoTask(w) ==
    \/ ~WorkerFree(w)
    \/ wpc[w] = "cmd" /\ ~Arrived(w, "CMD")
    \/ wpc[w] = "control" /\ ~Arrived(w, "CONTROL")
    \/ wpc[w] = "input" /\ ~Arrived(w, "INPUT")
    \/ wpc[w] = "disconnect" /\ ~(mpc = "disconnect" /\ idx = w)

WorkerWaits(w) ==
    \/ ~WorkerFree(w)
    \/ wpc[w] = "cmd" /\ ~Arrived(w, "CMD")
    \/ wpc[w] = "control" /\ ~Arrived(w, "CONTROL")
    \/ wpc[w] = "task" /\ ~Arrived(w, "TASK")
    \/ wpc[w] = "input" /\ ~Arrived(w, "INPUT")
    \/ wpc[w] = "disconnect" /\ ~(mpc = "disconnect" /\ idx = w)

\* timeout_handler: _exit(124), whatever the process was waiting for.
MasterDeadline ==
    /\ ~MasterGone
    /\ \E w \in Worker : MasterWaitsFor(w) /\ (Timely => Gone(w))
    /\ MasterExit(124)
    /\ UNCHANGED <<link, run, tasks, log, worker, faults>>

WorkerDeadline(w) ==
    /\ ~Gone(w) /\ WorkerWaits(w)
    /\ Timely => MasterGone
    /\ WorkerGoto(w, "exited")
    /\ wcode' = [wcode EXCEPT ![w] = 124]
    /\ UNCHANGED <<link, master, wrun, wtask, wok, faults>>

\* An MPI call on the link of a process that is gone may fail (die_mpi
\* aborts); nothing says that it will.
PeerLost ==
    /\ mpc \notin {"exited", "run", "record"} /\ Gone(idx)
    /\ MasterExit(1)
    /\ UNCHANGED <<link, run, tasks, log, worker, faults>>

MasterLost(w) ==
    /\ MasterGone /\ ~Gone(w)
    /\ WorkerGoto(w, "exited")
    /\ wcode' = [wcode EXCEPT ![w] = 1]
    /\ UNCHANGED <<link, master, wrun, wtask, wok, faults>>

\* Environment: a worker VM is killed, a ciphertext is damaged in flight.
Kill(w) ==
    /\ faults < MaxFaults /\ ~Gone(w)
    /\ WorkerGoto(w, "exited")
    /\ wcode' = [wcode EXCEPT ![w] = 137]
    /\ faults' = faults + 1
    /\ UNCHANGED <<link, master, wrun, wtask, wok>>

Damage(w, t) ==
    /\ faults < MaxFaults
    /\ DamageFrame(w, t)
    /\ faults' = faults + 1
    /\ UNCHANGED <<master, worker>>

\* Every process has exited.
Finished ==
    /\ MasterGone /\ \A w \in Worker : Gone(w)
    /\ UNCHANGED vars
-----------------------------------------------------------------------------
MasterStep ==
    \/ SendCommand \/ ReceiveReady \/ StartRun \/ SendControl
    \/ SendTask("scatter", "scatterInput") \/ SendInput("scatterInput")
    \/ ScatterNothing
    \/ PollMiss \/ ReceiveResult \/ ReceiveOutput
    \/ SendTask("assign", "assignInput") \/ SendInput("assignInput")
    \/ LeaveSweep \/ SendEnd \/ RecordResult \/ SendDone

WorkerStep(w) ==
    \/ ReceiveCommand(w) \/ SetUp(w, TRUE) \/ ReceiveControl(w)
    \/ ReceiveTask(w) \/ ReceiveInput(w) \/ SendResult(w) \/ SendOutput(w)

FaultStep ==
    \/ PeerLost
    \/ \E w \in Worker : \/ Kill(w) \/ MasterLost(w)
                         \/ faults < MaxFaults /\ SetUp(w, FALSE)
                         \/ \E t \in DownTag \cup UpTag : Damage(w, t)

Next ==
    \/ MasterStep
    \/ MasterDeadline
    \/ \E w \in Worker : WorkerStep(w) \/ Disconnect(w) \/ WorkerDeadline(w)
    \/ FaultStep
    \/ Finished

Spec == Init /\ [][Next]_vars

\* Every process that can run is scheduled, a collective disconnect both
\* ends have entered returns, and an armed alarm fires.
Fairness ==
    /\ WF_vars(MasterStep)
    /\ WF_vars(MasterDeadline)
    /\ \A w \in Worker : /\ WF_vars(WorkerStep(w))
                         /\ WF_vars(Disconnect(w))
                         /\ WF_vars(WorkerDeadline(w))

FairSpec == Spec /\ Fairness
-----------------------------------------------------------------------------
(* Properties *)

\* Types of the link, of the master's variables and of the workers'.
LinkOK ==
    /\ net \in [Worker -> [DownTag \cup UpTag -> Seq(Frame(Body))]]
    /\ sendCtr \in [Worker -> Nat] /\ recvCtr \in [Worker -> Nat]
    /\ wSendCtr \in [Worker -> Nat] /\ wRecvCtr \in [Worker -> Nat]

MasterOK ==
    /\ mpc \in MasterAt /\ idx \in Worker /\ run \in 0 .. NumRuns
    /\ busy \in [Worker -> BOOLEAN] /\ assigned \in [Worker -> TaskId]
    /\ nextTask \in 0 .. TaskCount /\ completed \in 0 .. TaskCount
    /\ done \in SUBSET TaskId /\ mcode \in ExitCode
    /\ log \in Seq([run : 1 .. NumRuns, tasks : SUBSET TaskId])

WorkerOK ==
    /\ wpc \in [Worker -> WorkerAt] /\ wrun \in [Worker -> 1 .. NumRuns]
    /\ wtask \in [Worker -> TaskId] /\ wok \in [Worker -> BOOLEAN]
    /\ wcode \in [Worker -> ExitCode] /\ faults \in 0 .. MaxFaults

\* Every variable stays in its range; in particular next_task and completed
\* never pass task_count and no loop variable leaves the worker table.
TypeOK == LinkOK /\ MasterOK /\ WorkerOK

\* run_taskq_master hands every task of a run to exactly one worker: no two
\* busy workers hold the same task, a task that is done is never out again,
\* and next_task separates what was handed out from what was not.
TaskPartition ==
    LET out == {w \in Worker : busy[w]}
    IN  /\ \A v, w \in out : assigned[v] = assigned[w] => v = w
        /\ \A w \in out : assigned[w] \notin done
        /\ done \cup {assigned[w] : w \in out} = 0 .. nextTask - 1

\* Every run in the results covers all the tasks, each counted once: nothing
\* was lost, repeated or carried over from another run, whatever was damaged
\* or killed on the way.
RecordedRunsComplete ==
    /\ completed = Cardinality(done)
    /\ \A i \in 1 .. Len(log) : log[i] = [run |-> i, tasks |-> TaskId]

\* A worker that computes or answers works on the task and the run the
\* master has down for it.
WorkMatchesAssignment ==
    \A w \in Worker :
        wpc[w] \in {"input", "result", "output"} =>
            /\ wrun[w] = run /\ wtask[w] = assigned[w]
            /\ wpc[w] # "input" => wok[w]

\* What the place of the master says about its bookkeeping.  With TypeOK,
\* TaskPartition and RecordedRunsComplete this is the inductive invariant.
Bookkeeping ==
    /\ mpc \in {"cmd", "ready", "run", "control"} => \A w \in Worker : ~busy[w]
    /\ mpc \in {"cmd", "ready", "run"} => Len(log) = run /\ run < NumRuns
    /\ mpc \in {"control", "scatter", "scatterInput", "poll", "output",
                "assign", "assignInput", "end", "record"} => Len(log) + 1 = run
    /\ mpc \in {"shutdown", "disconnect"} => Len(log) = NumRuns /\ run = NumRuns
    /\ mpc = "exited" /\ mcode = 0 => Len(log) = NumRuns
    /\ mpc \in {"scatter", "scatterInput"} => \A w \in idx .. N - 1 : ~busy[w]
    /\ mpc \in {"assign", "assignInput"} => ~busy[idx]
    /\ mpc \in {"scatterInput", "assignInput"} =>
          nextTask < TaskCount /\ assigned[idx] = nextTask
    /\ mpc = "output" => busy[idx]
    /\ mpc \in {"end", "record"} => done = TaskId

\* The tag each process receives next.
MasterTag == CASE mpc = "ready" -> "READY"  [] mpc = "poll" -> "RESULT"
               [] mpc = "output" -> "OUTPUT" [] OTHER -> "none"
WorkerTag(w) == CASE wpc[w] = "cmd" -> "CMD" [] wpc[w] = "control" -> "CONTROL"
                  [] wpc[w] = "task" -> "TASK" [] wpc[w] = "input" -> "INPUT"
                  [] OTHER -> "none"

\* One counter serves all the tags of a direction, and MPI only keeps the
\* order within a tag.  No process is ever about to reject a good message
\* because it takes the tags in another order than they were sent in.
NoFalseReject ==
    /\ MasterTag \in UpTag \ PlainTag /\ Arrived(idx, MasterTag) =>
          Head(net[idx][MasterTag]).ctr = recvCtr[idx]
    /\ \A w \in Worker :
          WorkerTag(w) \in DownTag \ PlainTag /\ Arrived(w, WorkerTag(w)) =>
              Head(net[w][WorkerTag(w)]).ctr = wRecvCtr[w]

\* The master exits with 0 only when every run is recorded, every worker has
\* come to the disconnect, and no answer was left unread; without faults
\* nothing at all is left in flight.
CleanExit ==
    mpc = "exited" /\ mcode = 0 =>
        /\ Len(log) = NumRuns
        /\ \A w \in Worker : Gone(w) /\ wcode[w] = 0
        /\ \A w \in Worker, t \in DownTag \cup UpTag :
              Arrived(w, t) => t \in DownTag /\ faults > 0

\* With peers that answer in time and no faults, every run completes and
\* every process exits with 0, also when no MPI_Send is buffered.
AllRunsComplete ==
    <>(/\ mpc = "exited" /\ mcode = 0 /\ Len(log) = NumRuns
       /\ \A w \in Worker : Gone(w) /\ wcode[w] = 0)

\* Whatever is damaged, killed or late, every worker exits: all its waits
\* have a deadline.
WorkersExit == \A w \in Worker : <>Gone(w)

\* The master exits too, with one exception: the polling sweep has no
\* deadline, so it polls for ever a worker that is gone.
MasterExitsOrPolls ==
    \/ <>MasterGone
    \/ <>[](mpc = "poll" /\ \E w \in Worker : busy[w] /\ Gone(w))

\* Refinement: the bookkeeping of the master implements a pool that gives
\* every task of a run to one worker and records a run when all are done.
Pool == INSTANCE TaskPool WITH
            Worker <- Worker,
            Task   <- TaskId,
            None   <- -1,
            held   <- [w \in Worker |-> IF busy[w] THEN assigned[w] ELSE -1],
            open   <- Len(log) < run,
            runs   <- Len(log)

ImplementsPool == Pool!Spec
=============================================================================
