-------------------------- MODULE TaskQueue_proofs ---------------------------
(***************************************************************************)
(* Proofs about TaskQueue for every number of workers, tasks, runs and     *)
(* faults.                                                                 *)
(***************************************************************************)
EXTENDS TaskQueue, FiniteSetTheorems, TLAPS

USE TaskQueueAssumption

-----------------------------------------------------------------------------
(* The link keeps its type, whoever sends or receives. *)

AnyTag == DownTag \cup UpTag

LEMMA MasterSendType ==
    ASSUME LinkOK, NEW w \in Worker, NEW t \in DownTag, NEW b \in Body,
           MasterSend(w, t, b)
    PROVE  LinkOK'
<1> DEFINE f == MakeFrame(sendCtr[w], b)
<1>1. f \in Frame(Body)
  BY DEF LinkOK, MakeFrame, Frame
<1>2. t \in AnyTag
  BY DEF AnyTag
<1>3. net' \in [Worker -> [AnyTag -> Seq(Frame(Body))]]
  <2>1. net \in [Worker -> [AnyTag -> Seq(Frame(Body))]]
    BY DEF LinkOK, AnyTag
  <2>2. Append(net[w][t], f) \in Seq(Frame(Body))
    BY <1>1, <1>2, <2>1
  <2>3. net' = [net EXCEPT ![w][t] = Append(net[w][t], f)]
    BY <1>2, <2>1 DEF MasterSend
  <2> QED
    BY <1>2, <2>1, <2>2, <2>3
<1>4. sendCtr' \in [Worker -> Nat]
  BY DEF LinkOK, MasterSend
<1> QED
  BY <1>3, <1>4 DEF LinkOK, MasterSend, AnyTag

LEMMA WorkerSendType ==
    ASSUME LinkOK, NEW w \in Worker, NEW t \in UpTag, NEW b \in Body,
           WorkerSend(w, t, b)
    PROVE  LinkOK'
<1> DEFINE f == MakeFrame(wSendCtr[w], b)
<1>1. f \in Frame(Body)
  BY DEF LinkOK, MakeFrame, Frame
<1>2. t \in AnyTag
  BY DEF AnyTag
<1>3. net' \in [Worker -> [AnyTag -> Seq(Frame(Body))]]
  <2>1. net \in [Worker -> [AnyTag -> Seq(Frame(Body))]]
    BY DEF LinkOK, AnyTag
  <2>2. Append(net[w][t], f) \in Seq(Frame(Body))
    BY <1>1, <1>2, <2>1
  <2>3. net' = [net EXCEPT ![w][t] = Append(net[w][t], f)]
    BY <1>2, <2>1 DEF WorkerSend
  <2> QED
    BY <1>2, <2>1, <2>2, <2>3
<1>4. wSendCtr' \in [Worker -> Nat]
  BY DEF LinkOK, WorkerSend
<1> QED
  BY <1>3, <1>4 DEF LinkOK, WorkerSend, AnyTag

\* A receive takes the first frame of a queue that is not empty.
LEMMA TailType ==
    ASSUME LinkOK, NEW w \in Worker, NEW t \in AnyTag, Arrived(w, t),
           net' = [net EXCEPT ![w][t] = Tail(net[w][t])]
    PROVE  /\ net' \in [Worker -> [AnyTag -> Seq(Frame(Body))]]
           /\ Got(w, t) \in Body
<1>1. net \in [Worker -> [AnyTag -> Seq(Frame(Body))]]
  BY DEF LinkOK, AnyTag
<1>2. net[w][t] \in Seq(Frame(Body)) /\ net[w][t] # <<>>
  BY <1>1 DEF Arrived
<1>3. Tail(net[w][t]) \in Seq(Frame(Body)) /\ Head(net[w][t]) \in Frame(Body)
  BY <1>2
<1>4. Got(w, t) \in Body
  BY <1>3 DEF Got, Frame
<1> QED
  BY <1>1, <1>3, <1>4

LEMMA MasterTakeType ==
    ASSUME LinkOK, NEW w \in Worker, NEW t \in UpTag, Arrived(w, t),
           MasterTake(w, t)
    PROVE  LinkOK' /\ Got(w, t) \in Body
<1>1. t \in AnyTag
  BY DEF AnyTag
<1>2. net' = [net EXCEPT ![w][t] = Tail(net[w][t])]
  BY <1>1 DEF MasterTake, LinkOK, AnyTag
<1>3. recvCtr' \in [Worker -> Nat]
  BY DEF LinkOK, MasterTake
<1> QED
  BY <1>1, <1>2, <1>3, TailType DEF LinkOK, MasterTake, AnyTag

LEMMA WorkerTakeType ==
    ASSUME LinkOK, NEW w \in Worker, NEW t \in DownTag, Arrived(w, t),
           WorkerTake(w, t)
    PROVE  LinkOK' /\ Got(w, t) \in Body
<1>1. t \in AnyTag
  BY DEF AnyTag
<1>2. net' = [net EXCEPT ![w][t] = Tail(net[w][t])]
  BY <1>1 DEF WorkerTake, LinkOK, AnyTag
<1>3. wRecvCtr' \in [Worker -> Nat]
  BY DEF LinkOK, WorkerTake
<1> QED
  BY <1>1, <1>2, <1>3, TailType DEF LinkOK, WorkerTake, AnyTag

LEMMA DamageType ==
    ASSUME LinkOK, NEW w \in Worker, NEW t \in AnyTag, DamageFrame(w, t)
    PROVE  LinkOK'
<1>1. net \in [Worker -> [AnyTag -> Seq(Frame(Body))]]
  BY DEF LinkOK, AnyTag
<1>2. PICK i \in 1 .. Len(net[w][t]) :
         net' = [net EXCEPT ![w][t][i].intact = FALSE]
  BY DEF DamageFrame
<1> DEFINE q == net[w][t]
           g == [q[i] EXCEPT !.intact = FALSE]
           r == [q EXCEPT ![i] = g]
<1>3. q \in Seq(Frame(Body)) /\ i \in 1 .. Len(q)
  BY <1>1
<1>4. q[i] \in Frame(Body)
  BY <1>3
<1>5. g \in Frame(Body)
  BY <1>4 DEF Frame
<1>6. r \in Seq(Frame(Body))
  BY <1>3, <1>5
<1>7. net' = [net EXCEPT ![w] = [net[w] EXCEPT ![t] = r]]
  BY <1>1, <1>2
<1>8. net' \in [Worker -> [AnyTag -> Seq(Frame(Body))]]
  <2> HIDE DEF r
  <2> QED BY <1>1, <1>6, <1>7
<1> QED
  BY <1>8 DEF DamageFrame, LinkOK, AnyTag

\* The messages the two programs build.
LEMMA MsgType ==
    ASSUME NEW k \in Kind, NEW r \in Nat, NEW t \in Nat, NEW ok \in BOOLEAN
    PROVE  Msg(k, r, t, ok) \in Body
BY DEF Msg, Body
-----------------------------------------------------------------------------
(* The bookkeeping of the master *)

\* The part of the invariant that only reads the master's variables.
MasterInv == MasterOK /\ TaskPartition /\ RecordedRunsComplete /\ Bookkeeping

IInv == LinkOK /\ WorkerOK /\ MasterInv

LEMMA MasterUntouched ==
    ASSUME MasterInv, UNCHANGED master
    PROVE  MasterInv'
BY DEF MasterInv, MasterOK, TaskPartition, RecordedRunsComplete, Bookkeeping, master

\* A set of task ids has at most task_count members, and as many only when
\* it holds them all.
LEMMA CountTasks ==
    ASSUME NEW S \in SUBSET TaskId
    PROVE  /\ IsFiniteSet(S) /\ Cardinality(S) \in Nat
           /\ Cardinality(S) <= TaskCount
           /\ Cardinality(S) >= TaskCount => S = TaskId
<1>1. IsFiniteSet(TaskId) /\ Cardinality(TaskId) = TaskCount
  BY FS_Interval DEF TaskId
<1>2. IsFiniteSet(S) /\ Cardinality(S) <= Cardinality(TaskId)
      /\ (Cardinality(TaskId) = Cardinality(S) => TaskId = S)
  BY <1>1, FS_Subset
<1>3. Cardinality(S) \in Nat
  BY <1>2, FS_CardinalityType
<1> QED
  BY <1>1, <1>2, <1>3

\* What a "for worker" loop does to its variable.
LEMMA LoopStep ==
    ASSUME idx \in Worker, NEW here, NEW after, NextWorker(here, after)
    PROVE  /\ idx' \in Worker
           /\ \/ mpc' = here /\ idx' = idx + 1
              \/ mpc' = after /\ idx' = 0 /\ idx = N - 1
BY DEF NextWorker, Worker

LEMMA SweepStep ==
    ASSUME idx \in Worker, Sweep
    PROVE  idx' \in Worker /\ mpc' = "poll"
BY DEF Sweep, Worker

\* The steps that leave run, tasks and log alone only have to arrive at a
\* place the bookkeeping allows.
LEMMA QuietStep ==
    ASSUME MasterInv, UNCHANGED <<run, tasks, log>>,
           mpc' \in MasterAt, idx' \in Worker, mcode' \in ExitCode,
           Bookkeeping'
    PROVE  MasterInv'
BY DEF MasterInv, MasterOK, TaskPartition, RecordedRunsComplete, tasks

LEMMA ExitStep ==
    ASSUME MasterInv, UNCHANGED <<run, tasks, log>>,
           MasterExit(1) \/ MasterExit(124)
    PROVE  MasterInv'
<1>1. mpc' = "exited" /\ mcode' \in {1, 124} /\ idx' = idx
  BY DEF MasterExit
<1>2. Bookkeeping'
  BY <1>1 DEF Bookkeeping
<1> QED
  BY <1>1, <1>2, QuietStep DEF MasterInv, MasterOK, MasterAt, ExitCode
-----------------------------------------------------------------------------
(* One lemma per action of the master *)

LEMMA SendCommandInv ==
    ASSUME IInv, SendCommand PROVE LinkOK' /\ MasterInv'
<1>1. idx \in Worker /\ mpc = "cmd" /\ MasterSend(idx, "CMD", Msg("start", 0, 0, TRUE))
  BY DEF IInv, MasterInv, MasterOK, SendCommand
<1>2. LinkOK'
  BY <1>1, MsgType, MasterSendType DEF IInv, Kind, DownTag
<1>3. mpc' \in {"cmd", "ready"} /\ idx' \in Worker
  BY <1>1, LoopStep DEF SendCommand
<1>4. Bookkeeping'
  BY <1>1, <1>3 DEF IInv, MasterInv, Bookkeeping, SendCommand, tasks
<1> QED
  BY <1>2, <1>3, <1>4, QuietStep
     DEF IInv, MasterInv, MasterOK, MasterAt, SendCommand

LEMMA ReceiveReadyInv ==
    ASSUME IInv, ReceiveReady PROVE LinkOK' /\ MasterInv'
<1>1. idx \in Worker /\ mpc = "ready"
  BY DEF IInv, MasterInv, MasterOK, ReceiveReady
<1>2. LinkOK'
  BY <1>1, MasterTakeType DEF IInv, UpTag, ReceiveReady
<1>3. CASE MasterExit(1)
  BY <1>2, <1>3, ExitStep DEF IInv, ReceiveReady
<1>4. CASE NextWorker("ready", "run") /\ UNCHANGED mcode
  <2>1. mpc' \in {"ready", "run"} /\ idx' \in Worker
    BY <1>1, <1>4, LoopStep
  <2>2. Bookkeeping'
    BY <1>1, <2>1 DEF IInv, MasterInv, Bookkeeping, ReceiveReady, tasks
  <2> QED
    BY <1>2, <1>4, <2>1, <2>2, QuietStep
       DEF IInv, MasterInv, MasterOK, MasterAt, ReceiveReady
<1> QED
  BY <1>3, <1>4 DEF ReceiveReady

LEMMA StartRunInv ==
    ASSUME IInv, StartRun PROVE LinkOK' /\ MasterInv'
<1>1. LinkOK'
  BY DEF IInv, StartRun, link, LinkOK
<1>2. MasterOK'
  BY DEF IInv, MasterInv, MasterOK, Bookkeeping, MasterAt, StartRun, TaskId
<1>3. TaskPartition'
  BY DEF TaskPartition, StartRun
<1>4. RecordedRunsComplete'
  BY FS_EmptySet DEF IInv, MasterInv, RecordedRunsComplete, StartRun
<1>5. Bookkeeping'
  BY DEF IInv, MasterInv, MasterOK, Bookkeeping, StartRun
<1> QED
  BY <1>1, <1>2, <1>3, <1>4, <1>5 DEF MasterInv

LEMMA SendControlInv ==
    ASSUME IInv, SendControl PROVE LinkOK' /\ MasterInv'
<1>1. idx \in Worker /\ mpc = "control" /\ run \in Nat
  BY DEF IInv, MasterInv, MasterOK, SendControl
<1>2. LinkOK'
  <2>1. Msg("control", run, 0, TRUE) \in Body
    BY <1>1, MsgType DEF Kind
  <2>2. MasterSend(idx, "CONTROL", Msg("control", run, 0, TRUE))
    BY DEF SendControl
  <2> QED
    BY <1>1, <2>1, <2>2, MasterSendType DEF IInv, DownTag
<1>3. mpc' \in {"control", "scatter"} /\ idx' \in Worker
  BY <1>1, LoopStep DEF SendControl
<1>4. Bookkeeping'
  BY <1>1, <1>3 DEF IInv, MasterInv, Bookkeeping, SendControl, tasks, Worker
<1> QED
  BY <1>2, <1>3, <1>4, QuietStep
     DEF IInv, MasterInv, MasterOK, MasterAt, SendControl

\* A task header writes assigned_task of a worker that is not busy.
LEMMA SendTaskInv ==
    ASSUME IInv, NEW from, NEW to, SendTask(from, to),
           \/ from = "scatter" /\ to = "scatterInput"
           \/ from = "assign" /\ to = "assignInput"
    PROVE  LinkOK' /\ MasterInv'
<1>1. /\ idx \in Worker /\ nextTask \in TaskId /\ run \in Nat
      /\ assigned' = [assigned EXCEPT ![idx] = nextTask]
      /\ UNCHANGED <<idx, run, busy, nextTask, completed, done, log, mcode>>
  BY DEF IInv, MasterInv, MasterOK, SendTask, TaskId
<1>2. LinkOK'
  <2>1. nextTask \in Nat
    BY <1>1 DEF TaskId
  <2>2. Msg("work", run, nextTask, TRUE) \in Body
    BY <1>1, <2>1, MsgType DEF Kind
  <2>3. MasterSend(idx, "TASK", Msg("work", run, nextTask, TRUE))
    BY DEF SendTask
  <2> QED
    BY <1>1, <2>2, <2>3, MasterSendType DEF IInv, DownTag
<1>3. \/ mpc = "scatter" /\ mpc' = "scatterInput"
      \/ mpc = "assign" /\ mpc' = "assignInput"
  BY DEF SendTask
<1>4. ~busy[idx]
  BY <1>1, <1>3 DEF IInv, MasterInv, MasterOK, Bookkeeping, Worker
<1>5. MasterOK'
  BY <1>1, <1>3 DEF IInv, MasterInv, MasterOK, MasterAt
<1>6. TaskPartition'
  <2>1. \A w \in Worker : busy[w] => assigned'[w] = assigned[w]
    BY <1>1, <1>4 DEF IInv, MasterInv, MasterOK
  <2>2. {assigned'[w] : w \in {v \in Worker : busy[v]}}
          = {assigned[w] : w \in {v \in Worker : busy[v]}}
    BY <2>1
  <2> QED
    BY <1>1, <2>1, <2>2 DEF IInv, MasterInv, TaskPartition
<1>7. RecordedRunsComplete'
  BY <1>1 DEF IInv, MasterInv, RecordedRunsComplete
<1>8. Bookkeeping'
  BY <1>1, <1>3 DEF IInv, MasterInv, MasterOK, Bookkeeping, TaskId
<1> QED
  BY <1>2, <1>5, <1>6, <1>7, <1>8 DEF MasterInv

\* The input follows the header: the worker becomes busy with next_task,
\* which nobody holds and which is not done.
LEMMA SendInputInv ==
    ASSUME IInv, NEW from \in {"scatterInput", "assignInput"}, SendInput(from)
    PROVE  LinkOK' /\ MasterInv'
<1>1. /\ idx \in Worker /\ run \in Nat /\ mpc = from
      /\ nextTask' = nextTask + 1
      /\ busy' = [busy EXCEPT ![idx] = TRUE]
      /\ UNCHANGED <<run, assigned, completed, done, log, mcode>>
  BY DEF IInv, MasterInv, MasterOK, SendInput
<1>2. /\ nextTask \in TaskId /\ nextTask \in Nat
      /\ assigned[idx] = nextTask /\ ~busy[idx]
  BY <1>1 DEF IInv, MasterInv, MasterOK, Bookkeeping, TaskId, Worker
<1>3. LinkOK'
  <2>1. Msg("input", run, nextTask, TRUE) \in Body
    BY <1>1, <1>2, MsgType DEF Kind
  <2>2. MasterSend(idx, "INPUT", Msg("input", run, nextTask, TRUE))
    BY DEF SendInput
  <2> QED
    BY <1>1, <2>1, <2>2, MasterSendType DEF IInv, DownTag
<1>4. /\ idx' \in Worker
      /\ \/ mpc = "scatterInput" /\ mpc' = "scatter" /\ idx' = idx + 1
         \/ mpc' = "poll"
  <2>1. CASE from = "scatterInput"
    BY <1>1, <2>1, LoopStep DEF SendInput
  <2>2. CASE from = "assignInput"
    BY <1>1, <2>2, SweepStep DEF SendInput
  <2> QED
    BY <2>1, <2>2
<1>5. MasterOK'
  BY <1>1, <1>2, <1>4 DEF IInv, MasterInv, MasterOK, MasterAt, TaskId
<1>6. TaskPartition'
  <2> DEFINE out == {w \in Worker : busy[w]}
  <2>1. {w \in Worker : busy'[w]} = out \cup {idx}
    BY <1>1 DEF IInv, MasterInv, MasterOK
  <2>2. done \cup {assigned[w] : w \in out} = 0 .. nextTask - 1
    BY DEF IInv, MasterInv, TaskPartition
  <2>3. nextTask \notin done /\ \A w \in out : assigned[w] # nextTask
    BY <1>2, <2>2 DEF TaskId
  <2>4. {assigned[w] : w \in out \cup {idx}}
          = {assigned[w] : w \in out} \cup {nextTask}
    BY <1>2
  <2>5. 0 .. (nextTask + 1) - 1 = (0 .. nextTask - 1) \cup {nextTask}
    BY <1>2
  <2>6. done \cup {assigned[w] : w \in out \cup {idx}} = 0 .. (nextTask + 1) - 1
    BY <2>2, <2>4, <2>5
  <2>7. \A v, w \in out \cup {idx} : assigned[v] = assigned[w] => v = w
    BY <1>2, <2>3 DEF IInv, MasterInv, TaskPartition
  <2>8. \A w \in out \cup {idx} : assigned[w] \notin done
    BY <1>2, <2>3 DEF IInv, MasterInv, TaskPartition
  <2> HIDE DEF out
  <2> QED
    BY <1>1, <2>1, <2>6, <2>7, <2>8 DEF TaskPartition
<1>7. RecordedRunsComplete'
  BY <1>1 DEF IInv, MasterInv, RecordedRunsComplete
<1>8. Bookkeeping'
  BY <1>1, <1>4 DEF IInv, MasterInv, MasterOK, Bookkeeping, Worker
<1> QED
  BY <1>3, <1>5, <1>6, <1>7, <1>8 DEF MasterInv

LEMMA ScatterNothingInv ==
    ASSUME IInv, ScatterNothing PROVE LinkOK' /\ MasterInv'
<1>1. idx \in Worker /\ mpc = "scatter"
  BY DEF IInv, MasterInv, MasterOK, ScatterNothing
<1>2. LinkOK'
  BY DEF IInv, ScatterNothing, link, LinkOK
<1>3. /\ idx' \in Worker
      /\ (mpc' = "scatter" /\ idx' = idx + 1) \/ mpc' = "poll"
  BY <1>1, LoopStep DEF ScatterNothing
<1>4. Bookkeeping'
  BY <1>1, <1>3 DEF IInv, MasterInv, MasterOK, Bookkeeping, ScatterNothing, tasks, Worker
<1> QED
  BY <1>2, <1>3, <1>4, QuietStep
     DEF IInv, MasterInv, MasterOK, MasterAt, ScatterNothing

LEMMA PollMissInv ==
    ASSUME IInv, PollMiss PROVE LinkOK' /\ MasterInv'
<1>1. idx \in Worker /\ mpc = "poll"
  BY DEF IInv, MasterInv, MasterOK, PollMiss
<1>2. LinkOK'
  BY DEF IInv, PollMiss, link, LinkOK
<1>3. idx' \in Worker /\ mpc' = "poll"
  BY <1>1, SweepStep DEF PollMiss
<1>4. Bookkeeping'
  BY <1>1, <1>3 DEF IInv, MasterInv, Bookkeeping, PollMiss, tasks
<1> QED
  BY <1>2, <1>3, <1>4, QuietStep
     DEF IInv, MasterInv, MasterOK, MasterAt, PollMiss

LEMMA ReceiveResultInv ==
    ASSUME IInv, ReceiveResult PROVE LinkOK' /\ MasterInv'
<1>1. idx \in Worker /\ mpc = "poll" /\ busy[idx]
  BY DEF IInv, MasterInv, MasterOK, ReceiveResult
<1>2. LinkOK'
  BY <1>1, MasterTakeType DEF IInv, UpTag, ReceiveResult
<1>3. CASE MasterExit(1)
  BY <1>2, <1>3, ExitStep DEF IInv, ReceiveResult
<1>4. CASE mpc' = "output" /\ UNCHANGED <<idx, mcode>>
  <2>1. Bookkeeping'
    BY <1>1, <1>4 DEF IInv, MasterInv, Bookkeeping, ReceiveResult, tasks
  <2> QED
    BY <1>1, <1>2, <1>4, <2>1, QuietStep
       DEF IInv, MasterInv, MasterOK, MasterAt, ReceiveResult
<1> QED
  BY <1>3, <1>4 DEF ReceiveResult

\* A verified output moves the task from its worker to the done ones.
LEMMA ReceiveOutputInv ==
    ASSUME IInv, ReceiveOutput PROVE LinkOK' /\ MasterInv'
<1>1. idx \in Worker /\ mpc = "output" /\ busy[idx] /\ assigned[idx] \in TaskId
  BY DEF IInv, MasterInv, MasterOK, Bookkeeping, ReceiveOutput
<1>2. LinkOK'
  BY <1>1, MasterTakeType DEF IInv, UpTag, ReceiveOutput
<1>3. CASE MasterExit(1) /\ UNCHANGED <<completed, done, busy>>
  BY <1>2, <1>3, ExitStep DEF IInv, ReceiveOutput, tasks
<1>4. CASE /\ completed' = completed + 1
           /\ done' = done \cup {assigned[idx]}
           /\ busy' = [busy EXCEPT ![idx] = FALSE]
           /\ IF nextTask < TaskCount THEN mpc' = "assign" /\ UNCHANGED idx
                                      ELSE Sweep
           /\ UNCHANGED mcode
  <2>1. /\ completed' = completed + 1
        /\ done' = done \cup {assigned[idx]}
        /\ busy' = [busy EXCEPT ![idx] = FALSE]
        /\ UNCHANGED <<run, assigned, nextTask, log, mcode>>
    BY <1>4 DEF ReceiveOutput
  <2>2. /\ idx' \in Worker
        /\ \/ mpc' = "poll"
           \/ mpc' = "assign" /\ idx' = idx
    BY <1>1, <1>4, SweepStep
  <2>3. assigned[idx] \notin done
    BY <1>1 DEF IInv, MasterInv, TaskPartition
  <2>4. completed' = Cardinality(done') /\ completed' \in 0 .. TaskCount
    <3>1. done \in SUBSET TaskId /\ completed = Cardinality(done)
      BY DEF IInv, MasterInv, MasterOK, RecordedRunsComplete
    <3>2. done' \in SUBSET TaskId
      BY <1>1, <2>1, <3>1
    <3>3. IsFiniteSet(done)
      BY <3>1, CountTasks
    <3>4. Cardinality(done') = Cardinality(done) + 1
      BY <2>1, <2>3, <3>3, FS_AddElement
    <3> QED
      BY <2>1, <3>1, <3>2, <3>4, CountTasks
  <2>5. MasterOK'
    BY <1>1, <2>1, <2>2, <2>4 DEF IInv, MasterInv, MasterOK, MasterAt
  <2>6. TaskPartition'
    <3> DEFINE out == {w \in Worker : busy[w]}
    <3>1. {w \in Worker : busy'[w]} = out \ {idx}
      BY <1>1, <2>1 DEF IInv, MasterInv, MasterOK
    <3>2. /\ \A v, w \in out : assigned[v] = assigned[w] => v = w
          /\ \A w \in out : assigned[w] \notin done
          /\ done \cup {assigned[w] : w \in out} = 0 .. nextTask - 1
      BY DEF IInv, MasterInv, TaskPartition
    <3>3. idx \in out
      BY <1>1
    <3>4. (done \cup {assigned[idx]}) \cup {assigned[w] : w \in out \ {idx}}
            = done \cup {assigned[w] : w \in out}
      BY <3>3
    <3>5. \A w \in out \ {idx} : assigned[w] \notin done \cup {assigned[idx]}
      BY <3>2, <3>3
    <3> HIDE DEF out
    <3> QED
      BY <2>1, <3>1, <3>2, <3>4, <3>5 DEF TaskPartition
  <2>7. RecordedRunsComplete'
    BY <2>1, <2>4 DEF IInv, MasterInv, RecordedRunsComplete
  <2>8. Bookkeeping'
    BY <1>1, <2>1, <2>2 DEF IInv, MasterInv, MasterOK, Bookkeeping
  <2> QED
    BY <1>2, <2>5, <2>6, <2>7, <2>8 DEF MasterInv
<1> QED
  BY <1>3, <1>4 DEF ReceiveOutput

\* The sweep ends when as many tasks are completed as the run has; then
\* all of them are done.
LEMMA LeaveSweepInv ==
    ASSUME IInv, LeaveSweep PROVE LinkOK' /\ MasterInv'
<1>1. mpc = "poll" /\ mpc' = "end" /\ completed >= TaskCount
  BY DEF LeaveSweep, AllCompleted
<1>2. LinkOK'
  BY DEF IInv, LeaveSweep, link, LinkOK
<1>3. done = TaskId
  BY <1>1, CountTasks DEF IInv, MasterInv, MasterOK, RecordedRunsComplete
<1>4. Bookkeeping'
  BY <1>1, <1>3 DEF IInv, MasterInv, Bookkeeping, LeaveSweep, tasks
<1> QED
  BY <1>1, <1>2, <1>4, QuietStep
     DEF IInv, MasterInv, MasterOK, MasterAt, LeaveSweep

LEMMA SendEndInv ==
    ASSUME IInv, SendEnd PROVE LinkOK' /\ MasterInv'
<1>1. idx \in Worker /\ mpc = "end" /\ run \in Nat
  BY DEF IInv, MasterInv, MasterOK, SendEnd
<1>2. LinkOK'
  <2>1. Msg("end", run, 0, TRUE) \in Body
    BY <1>1, MsgType DEF Kind
  <2>2. MasterSend(idx, "TASK", Msg("end", run, 0, TRUE))
    BY DEF SendEnd
  <2> QED
    BY <1>1, <2>1, <2>2, MasterSendType DEF IInv, DownTag
<1>3. mpc' \in {"end", "record"} /\ idx' \in Worker
  BY <1>1, LoopStep DEF SendEnd
<1>4. Bookkeeping'
  BY <1>1, <1>3 DEF IInv, MasterInv, Bookkeeping, SendEnd, tasks
<1> QED
  BY <1>2, <1>3, <1>4, QuietStep
     DEF IInv, MasterInv, MasterOK, MasterAt, SendEnd

\* A run is recorded as number Len(log) + 1, with all its tasks done and
\* therefore with no worker busy.
LEMMA RecordResultInv ==
    ASSUME IInv, RecordResult PROVE LinkOK' /\ MasterInv'
<1>1. /\ mpc = "record" /\ done = TaskId /\ Len(log) + 1 = run
      /\ log' = Append(log, [run |-> run, tasks |-> done])
      /\ mpc' = IF run < NumRuns THEN "run" ELSE "shutdown"
      /\ UNCHANGED <<idx, run, busy, assigned, nextTask, completed, done, mcode>>
  BY DEF IInv, MasterInv, Bookkeeping, RecordResult, tasks
<1>2. LinkOK'
  BY DEF IInv, RecordResult, link, LinkOK
<1>3. /\ log \in Seq([run : 1 .. NumRuns, tasks : SUBSET TaskId])
      /\ Len(log) \in Nat /\ run \in 1 .. NumRuns
  BY <1>1 DEF IInv, MasterInv, MasterOK
<1>4. [run |-> run, tasks |-> done] \in [run : 1 .. NumRuns, tasks : SUBSET TaskId]
  BY <1>3 DEF IInv, MasterInv, MasterOK
<1>5. /\ log' \in Seq([run : 1 .. NumRuns, tasks : SUBSET TaskId])
      /\ Len(log') = Len(log) + 1
      /\ \A k \in 1 .. Len(log) : log'[k] = log[k]
      /\ log'[Len(log) + 1] = [run |-> run, tasks |-> TaskId]
  BY <1>1, <1>3, <1>4
<1>6. MasterOK'
  BY <1>1, <1>5 DEF IInv, MasterInv, MasterOK, MasterAt
<1>7. TaskPartition'
  BY <1>1 DEF IInv, MasterInv, TaskPartition
<1>8. RecordedRunsComplete'
  <2>1. ASSUME NEW k \in 1 .. Len(log')
        PROVE  log'[k] = [run |-> k, tasks |-> TaskId]
    <3>1. CASE k \in 1 .. Len(log)
      BY <1>5, <3>1 DEF IInv, MasterInv, RecordedRunsComplete
    <3>2. CASE k = Len(log) + 1
      BY <1>1, <1>5, <3>2
    <3> QED
      BY <1>3, <1>5, <2>1, <3>1, <3>2
  <2> QED
    BY <1>1, <2>1 DEF IInv, MasterInv, RecordedRunsComplete
<1>9. Bookkeeping'
  <2>1. \A w \in Worker : ~busy[w]
    BY <1>1 DEF IInv, MasterInv, MasterOK, TaskPartition
  <2> QED
    BY <1>1, <1>3, <1>5, <2>1 DEF Bookkeeping
<1> QED
  BY <1>2, <1>6, <1>7, <1>8, <1>9 DEF MasterInv

LEMMA SendDoneInv ==
    ASSUME IInv, SendDone PROVE LinkOK' /\ MasterInv'
<1>1. idx \in Worker /\ mpc = "shutdown" /\ mpc' = "disconnect"
      /\ MasterSend(idx, "CMD", Msg("done", 0, 0, TRUE))
  BY DEF IInv, MasterInv, MasterOK, SendDone
<1>2. LinkOK'
  BY <1>1, MsgType, MasterSendType DEF IInv, Kind, DownTag
<1>3. Bookkeeping'
  BY <1>1 DEF IInv, MasterInv, Bookkeeping, SendDone, tasks
<1> QED
  BY <1>1, <1>2, <1>3, QuietStep
     DEF IInv, MasterInv, MasterOK, MasterAt, SendDone
-----------------------------------------------------------------------------
(* The steps that involve a worker *)

\* A step of worker w that touches nothing of the master.
LEMMA WorkerAlone ==
    ASSUME IInv, LinkOK', WorkerOK', UNCHANGED master PROVE IInv'
BY MasterUntouched DEF IInv

LEMMA DisconnectInv ==
    ASSUME IInv, NEW w \in Worker, Disconnect(w) PROVE IInv'
<1>1. idx \in Worker /\ mpc = "disconnect"
  BY DEF IInv, MasterInv, MasterOK, Disconnect
<1>2. LinkOK' /\ WorkerOK'
  BY DEF IInv, Disconnect, link, LinkOK, WorkerOK, WorkerGoto, WorkerAt
<1>3. mpc' \in {"shutdown", "exited"} /\ idx' \in Worker
  BY <1>1, LoopStep DEF Disconnect
<1>4. Bookkeeping'
  BY <1>1, <1>3 DEF IInv, MasterInv, Bookkeeping, Disconnect, tasks
<1> QED
  BY <1>2, <1>3, <1>4, QuietStep
     DEF IInv, MasterInv, MasterOK, MasterAt, Disconnect

LEMMA ReceiveCommandInv ==
    ASSUME IInv, NEW w \in Worker, ReceiveCommand(w) PROVE IInv'
<1>1. LinkOK'
  BY WorkerTakeType DEF IInv, DownTag, ReceiveCommand
<1>2. WorkerOK'
  BY DEF IInv, WorkerOK, ReceiveCommand, WorkerGoto, WorkerAt
<1> QED
  BY <1>1, <1>2, WorkerAlone DEF ReceiveCommand

LEMMA SetUpInv ==
    ASSUME IInv, NEW w \in Worker, NEW ok \in BOOLEAN, SetUp(w, ok),
           ok \/ faults < MaxFaults
    PROVE  IInv'
<1>1. LinkOK'
  <2>1. Msg("ready", 0, 0, ok) \in Body
    BY MsgType DEF Kind
  <2>2. WorkerSend(w, "READY", Msg("ready", 0, 0, ok))
    BY DEF SetUp
  <2> QED
    BY <2>1, <2>2, WorkerSendType DEF IInv, UpTag
<1>2. WorkerOK'
  BY DEF IInv, WorkerOK, SetUp, WorkerGoto, WorkerAt
<1> QED
  BY <1>1, <1>2, WorkerAlone DEF SetUp

LEMMA ReceiveControlInv ==
    ASSUME IInv, NEW w \in Worker, ReceiveControl(w) PROVE IInv'
<1>1. LinkOK'
  BY WorkerTakeType DEF IInv, DownTag, ReceiveControl
<1>2. WorkerOK'
  BY DEF IInv, WorkerOK, ReceiveControl, WorkerGoto, WorkerAt
<1> QED
  BY <1>1, <1>2, WorkerAlone DEF ReceiveControl

LEMMA ReceiveTaskInv ==
    ASSUME IInv, NEW w \in Worker, ReceiveTask(w) PROVE IInv'
<1>1. LinkOK' /\ Got(w, "TASK") \in Body
  BY WorkerTakeType DEF IInv, DownTag, ReceiveTask
<1>2. Got(w, "TASK").task \in Nat
  BY <1>1 DEF Body
<1>3. WorkerOK'
  <2> DEFINE t == Got(w, "TASK").task
  <2>1. /\ UNCHANGED <<wok, wcode, faults>>
        /\ \/ wpc' = [wpc EXCEPT ![w] = "input"]
           \/ wpc' = [wpc EXCEPT ![w] = "control"]
           \/ wpc' = [wpc EXCEPT ![w] = "cmd"]
           \/ wpc' = [wpc EXCEPT ![w] = "disconnect"]
    BY DEF ReceiveTask, WorkerGoto
  <2>2. \/ wtask' = wtask
        \/ wtask' = [wtask EXCEPT ![w] = t] /\ t < TaskCount
    BY DEF ReceiveTask
  <2>3. \/ wrun' = wrun
        \/ wrun' = [wrun EXCEPT ![w] = @ + 1] /\ wrun[w] < NumRuns
    BY DEF ReceiveTask
  <2>4. wpc' \in [Worker -> WorkerAt]
    BY <2>1 DEF IInv, WorkerOK, WorkerAt
  <2>5. wtask' \in [Worker -> TaskId]
    BY <1>2, <2>2 DEF IInv, WorkerOK, TaskId
  <2>6. wrun' \in [Worker -> 1 .. NumRuns]
    BY <2>3 DEF IInv, WorkerOK
  <2> QED
    BY <2>1, <2>4, <2>5, <2>6 DEF IInv, WorkerOK
<1> QED
  BY <1>1, <1>3, WorkerAlone DEF ReceiveTask

LEMMA ReceiveInputInv ==
    ASSUME IInv, NEW w \in Worker, ReceiveInput(w) PROVE IInv'
<1>1. LinkOK'
  BY WorkerTakeType DEF IInv, DownTag, ReceiveInput
<1>2. WorkerOK'
  BY DEF IInv, WorkerOK, ReceiveInput, WorkerGoto, WorkerAt
<1> QED
  BY <1>1, <1>2, WorkerAlone DEF ReceiveInput

LEMMA SendResultInv ==
    ASSUME IInv, NEW w \in Worker, SendResult(w) PROVE IInv'
<1>1. LinkOK'
  <2>1. wrun[w] \in Nat /\ wtask[w] \in Nat /\ wok[w] \in BOOLEAN
    BY DEF IInv, WorkerOK, TaskId
  <2>2. Msg("result", wrun[w], wtask[w], wok[w]) \in Body
    BY <2>1, MsgType DEF Kind
  <2>3. WorkerSend(w, "RESULT", Msg("result", wrun[w], wtask[w], wok[w]))
    BY DEF SendResult
  <2> QED
    BY <2>2, <2>3, WorkerSendType DEF IInv, UpTag
<1>2. WorkerOK'
  BY DEF IInv, WorkerOK, SendResult, WorkerGoto, WorkerAt
<1> QED
  BY <1>1, <1>2, WorkerAlone DEF SendResult

LEMMA SendOutputInv ==
    ASSUME IInv, NEW w \in Worker, SendOutput(w) PROVE IInv'
<1>1. LinkOK'
  <2>1. wrun[w] \in Nat /\ wtask[w] \in Nat
    BY DEF IInv, WorkerOK, TaskId
  <2>2. Msg("output", wrun[w], wtask[w], TRUE) \in Body
    BY <2>1, MsgType DEF Kind
  <2>3. WorkerSend(w, "OUTPUT", Msg("output", wrun[w], wtask[w], TRUE))
    BY DEF SendOutput
  <2> QED
    BY <2>2, <2>3, WorkerSendType DEF IInv, UpTag
<1>2. WorkerOK'
  BY DEF IInv, WorkerOK, SendOutput, WorkerGoto, WorkerAt
<1> QED
  BY <1>1, <1>2, WorkerAlone DEF SendOutput

LEMMA WorkerDeadlineInv ==
    ASSUME IInv, NEW w \in Worker, WorkerDeadline(w) \/ Kill(w) \/ MasterLost(w) PROVE IInv'
<1>1. LinkOK' /\ UNCHANGED master
  BY DEF IInv, LinkOK, link, WorkerDeadline, Kill, MasterLost
<1>2. WorkerOK'
  BY DEF IInv, WorkerOK, WorkerDeadline, Kill, MasterLost, WorkerGoto, WorkerAt, ExitCode
<1> QED
  BY <1>1, <1>2, WorkerAlone

LEMMA DamageInv ==
    ASSUME IInv, NEW w \in Worker, NEW t \in AnyTag, Damage(w, t) PROVE IInv'
<1>1. LinkOK'
  BY DamageType DEF IInv, Damage
<1>2. WorkerOK'
  BY DEF IInv, WorkerOK, Damage, worker
<1> QED
  BY <1>1, <1>2, WorkerAlone DEF Damage
-----------------------------------------------------------------------------
(* The inductive invariant *)

LEMMA InitInv == Init => IInv
<1> SUFFICES ASSUME Init PROVE IInv
  OBVIOUS
<1>1. LinkOK
  BY DEF Init, LinkInit, LinkOK
<1>2. WorkerOK
  BY DEF Init, WorkerOK, WorkerAt, ExitCode, TaskId
<1>3. MasterOK
  BY DEF Init, MasterOK, MasterAt, ExitCode, TaskId, Worker
<1>4. TaskPartition
  BY DEF Init, TaskPartition
<1>5. RecordedRunsComplete
  BY FS_EmptySet DEF Init, RecordedRunsComplete
<1>6. Bookkeeping
  BY DEF Init, Bookkeeping
<1> QED
  BY <1>1, <1>2, <1>3, <1>4, <1>5, <1>6 DEF IInv, MasterInv

LEMMA MasterStepInv ==
    ASSUME IInv, MasterStep PROVE IInv'
<1>1. LinkOK' /\ MasterInv'
  <2>1. CASE SendCommand BY <2>1, SendCommandInv
  <2>2. CASE ReceiveReady BY <2>2, ReceiveReadyInv
  <2>3. CASE StartRun BY <2>3, StartRunInv
  <2>4. CASE SendControl BY <2>4, SendControlInv
  <2>5. CASE SendTask("scatter", "scatterInput") BY <2>5, SendTaskInv
  <2>6. CASE SendInput("scatterInput") BY <2>6, SendInputInv
  <2>7. CASE ScatterNothing BY <2>7, ScatterNothingInv
  <2>8. CASE PollMiss BY <2>8, PollMissInv
  <2>9. CASE ReceiveResult BY <2>9, ReceiveResultInv
  <2>10. CASE ReceiveOutput BY <2>10, ReceiveOutputInv
  <2>11. CASE SendTask("assign", "assignInput") BY <2>11, SendTaskInv
  <2>12. CASE SendInput("assignInput") BY <2>12, SendInputInv
  <2>13. CASE LeaveSweep BY <2>13, LeaveSweepInv
  <2>14. CASE SendEnd BY <2>14, SendEndInv
  <2>15. CASE RecordResult BY <2>15, RecordResultInv
  <2>16. CASE SendDone BY <2>16, SendDoneInv
  <2> QED
    BY <2>1, <2>2, <2>3, <2>4, <2>5, <2>6, <2>7, <2>8, <2>9, <2>10, <2>11,
       <2>12, <2>13, <2>14, <2>15, <2>16 DEF MasterStep
<1>2. UNCHANGED <<worker, faults>>
  BY DEF MasterStep, SendCommand, ReceiveReady, StartRun, SendControl, SendTask,
         SendInput, ScatterNothing, PollMiss, ReceiveResult, ReceiveOutput,
         LeaveSweep, SendEnd, RecordResult, SendDone
<1> QED
  BY <1>1, <1>2 DEF IInv, WorkerOK, worker

\* The deadline and a failed MPI call end the master where it stands.
LEMMA MasterLeavesInv ==
    ASSUME IInv, MasterDeadline \/ PeerLost PROVE IInv'
<1>1. LinkOK' /\ WorkerOK'
  BY DEF IInv, LinkOK, WorkerOK, link, worker, MasterDeadline, PeerLost
<1>2. MasterInv'
  BY ExitStep DEF IInv, MasterDeadline, PeerLost
<1> QED
  BY <1>1, <1>2 DEF IInv

LEMMA NextInv ==
    ASSUME IInv, [Next]_vars PROVE IInv'
<1>1. CASE MasterStep BY <1>1, MasterStepInv
<1>2. CASE MasterDeadline \/ PeerLost BY <1>2, MasterLeavesInv
<1>3. ASSUME NEW w \in Worker, WorkerStep(w) PROVE IInv'
  BY <1>3, ReceiveCommandInv, SetUpInv, ReceiveControlInv, ReceiveTaskInv,
     ReceiveInputInv, SendResultInv, SendOutputInv DEF WorkerStep
<1>4. ASSUME NEW w \in Worker, Disconnect(w) PROVE IInv'
  BY <1>4, DisconnectInv
<1>5. ASSUME NEW w \in Worker, WorkerDeadline(w) \/ Kill(w) \/ MasterLost(w) PROVE IInv'
  BY <1>5, WorkerDeadlineInv
<1>6. ASSUME NEW w \in Worker, faults < MaxFaults, SetUp(w, FALSE) PROVE IInv'
  BY <1>6, SetUpInv
<1>7. ASSUME NEW w \in Worker, NEW t \in DownTag \cup UpTag, Damage(w, t) PROVE IInv'
  BY <1>7, DamageInv DEF AnyTag
<1>8. CASE UNCHANGED vars
  BY <1>8, WorkerAlone DEF vars, link, worker, IInv, LinkOK, WorkerOK
<1> QED
  BY <1>1, <1>2, <1>3, <1>4, <1>5, <1>6, <1>7, <1>8 DEF Next, FaultStep, Finished

\* The inductive invariant: the types, the partition of the tasks, the
\* recorded runs, and what the place of the master says about them.
THEOREM Invariance == Spec => []IInv
<1>1. Init => IInv
  BY InitInv
<1>2. IInv /\ [Next]_vars => IInv'
  BY NextInv
<1> QED
  BY <1>1, <1>2, PTL DEF Spec

\* next_task, completed, assigned_task and the loop variables of
\* run_taskq_master and run_taskq_workload stay in their ranges.
THEOREM TypeCorrect == Spec => []TypeOK
<1>1. IInv => TypeOK
  BY DEF IInv, MasterInv, TypeOK
<1> QED
  BY <1>1, Invariance, PTL

\* No task is out twice, out and done, or skipped, for any number of workers
\* and tasks and under any damage, kill or deadline.
THEOREM TasksArePartitioned == Spec => []TaskPartition
<1>1. IInv => TaskPartition
  BY DEF IInv, MasterInv
<1> QED
  BY <1>1, Invariance, PTL

\* What record_generic_result stores is a run in which every task was
\* completed and counted once.
THEOREM RecordedRunsAreComplete == Spec => []RecordedRunsComplete
<1>1. IInv => RecordedRunsComplete
  BY DEF IInv, MasterInv
<1> QED
  BY <1>1, Invariance, PTL
-----------------------------------------------------------------------------
(* TaskQueue implements TaskPool *)

\* The value the refinement gives to the variable held of the pool.
Held == [w \in Worker |-> IF busy[w] THEN assigned[w] ELSE -1]

LEMMA PoolStutter ==
    ASSUME Held' = Held, UNCHANGED <<done, run, log>>
    PROVE  [Pool!Next]_(Pool!pool)
BY DEF Held, Pool!pool

LEMMA PoolBegin ==
    ASSUME IInv, StartRun PROVE Pool!Begin
<1>1. /\ Len(log) = run /\ run < NumRuns /\ run \in Nat
      /\ run' = run + 1 /\ log' = log /\ done' = {}
  BY DEF IInv, MasterInv, MasterOK, Bookkeeping, StartRun
<1>2. Held' = Held
  BY DEF Held, IInv, MasterInv, Bookkeeping, StartRun
<1> QED
  BY <1>1, <1>2 DEF Pool!Begin, Held

\* A step of one worker of the pool is a step of the pool.
LEMMA PoolWorkerStep ==
    ASSUME NEW w \in Worker,
           Pool!Complete(w) \/ (\E t \in TaskId : Pool!Assign(w, t))
    PROVE  Pool!Next
BY Zenon DEF Pool!Next

LEMMA PoolAssign ==
    ASSUME IInv, NEW from \in {"scatterInput", "assignInput"}, SendInput(from)
    PROVE  Pool!Next
<1>1. /\ idx \in Worker /\ mpc = from
      /\ busy' = [busy EXCEPT ![idx] = TRUE]
      /\ UNCHANGED <<run, assigned, done, log>>
  BY DEF IInv, MasterInv, MasterOK, SendInput
<1>2. /\ nextTask \in TaskId /\ assigned[idx] = nextTask /\ ~busy[idx]
      /\ Len(log) < run
  BY <1>1 DEF IInv, MasterInv, MasterOK, Bookkeeping, TaskId, Worker
<1>3. nextTask \notin done /\ \A v \in Worker : busy[v] => assigned[v] # nextTask
  <2>1. done \cup {assigned[w] : w \in {v \in Worker : busy[v]}} = 0 .. nextTask - 1
    BY DEF IInv, MasterInv, TaskPartition
  <2>2. nextTask \notin 0 .. nextTask - 1
    BY <1>2 DEF TaskId
  <2> QED
    BY <2>1, <2>2
<1>4. Held[idx] = -1 /\ \A v \in Worker : Held[v] # nextTask
  BY <1>1, <1>2, <1>3 DEF Held, TaskId
<1>5. Held' = [Held EXCEPT ![idx] = nextTask]
  BY <1>1, <1>2 DEF Held, IInv, MasterInv, MasterOK
<1>6. PICK w \in Worker, t \in TaskId : w = idx /\ t = nextTask
  BY <1>1, <1>2
<1>7. Pool!Assign(w, t)
  BY <1>1, <1>2, <1>3, <1>4, <1>5, <1>6 DEF Pool!Assign, Held
<1> QED
  BY <1>7, PoolWorkerStep

LEMMA PoolComplete ==
    ASSUME IInv, ReceiveOutput PROVE [Pool!Next]_(Pool!pool)
<1>1. idx \in Worker /\ busy[idx] /\ Len(log) < run /\ assigned[idx] \in TaskId
  BY DEF IInv, MasterInv, MasterOK, Bookkeeping, ReceiveOutput
<1>2. UNCHANGED <<run, assigned, log>>
  BY DEF ReceiveOutput
<1>3. CASE UNCHANGED <<done, busy>>
  BY <1>2, <1>3, PoolStutter DEF Held
<1>4. CASE done' = done \cup {assigned[idx]} /\ busy' = [busy EXCEPT ![idx] = FALSE]
  <2>1. Held[idx] = assigned[idx] /\ Held[idx] # -1
    BY <1>1 DEF Held, TaskId
  <2>2. Held' = [Held EXCEPT ![idx] = -1]
    BY <1>1, <1>2, <1>4 DEF Held, IInv, MasterInv, MasterOK
  <2>3. PICK w \in Worker : w = idx
    BY <1>1
  <2>4. Pool!Complete(w)
    BY <1>1, <1>2, <1>4, <2>1, <2>2, <2>3 DEF Pool!Complete, Held
  <2> QED
    BY <2>4, PoolWorkerStep
<1> QED
  BY <1>3, <1>4 DEF ReceiveOutput

LEMMA PoolRecord ==
    ASSUME IInv, RecordResult PROVE Pool!Record
<1>1. /\ Len(log) + 1 = run /\ done = TaskId /\ Len(log) \in Nat
      /\ Len(log') = Len(log) + 1
      /\ UNCHANGED <<run, busy, assigned, done>>
  BY DEF IInv, MasterInv, MasterOK, Bookkeeping, RecordResult, tasks
<1> QED
  BY <1>1 DEF Pool!Record

LEMMA PoolSendTask ==
    ASSUME IInv, NEW from \in {"scatter", "assign"}, NEW to, SendTask(from, to)
    PROVE  [Pool!Next]_(Pool!pool)
<1>1. idx \in Worker /\ ~busy[idx]
  BY DEF IInv, MasterInv, MasterOK, Bookkeeping, SendTask, Worker
<1>2. Held' = Held
  BY <1>1 DEF Held, SendTask, IInv, MasterInv, MasterOK
<1> QED
  BY <1>2, PoolStutter DEF SendTask

\* Every step of the programs is a step of the pool or leaves it alone.
LEMMA PoolStep ==
    ASSUME IInv, [Next]_vars PROVE [Pool!Next]_(Pool!pool)
<1>1. CASE StartRun
  BY <1>1, PoolBegin DEF Pool!Next
<1>2. ASSUME NEW from \in {"scatterInput", "assignInput"}, SendInput(from)
      PROVE  Pool!Next
  BY <1>2, PoolAssign
<1>3. CASE ReceiveOutput
  BY <1>3, PoolComplete
<1>4. CASE RecordResult
  BY <1>4, PoolRecord DEF Pool!Next
<1>5. ASSUME NEW from \in {"scatter", "assign"}, NEW to, SendTask(from, to)
      PROVE  [Pool!Next]_(Pool!pool)
  BY <1>5, PoolSendTask
<1>6. CASE UNCHANGED <<run, tasks, log>>
  BY <1>6, PoolStutter DEF Held, tasks
<1>7. ASSUME SendCommand \/ ReceiveReady \/ SendControl \/ ScatterNothing
             \/ PollMiss \/ ReceiveResult \/ LeaveSweep \/ SendEnd \/ SendDone
             \/ MasterDeadline \/ PeerLost
      PROVE  UNCHANGED <<run, tasks, log>>
  BY <1>7 DEF SendCommand, ReceiveReady, SendControl, ScatterNothing, PollMiss,
      ReceiveResult, LeaveSweep, SendEnd, SendDone, MasterDeadline, PeerLost
<1>8. ASSUME NEW w \in Worker,
             \/ WorkerStep(w) \/ Disconnect(w) \/ WorkerDeadline(w) \/ Kill(w) \/ MasterLost(w)
             \/ SetUp(w, FALSE) \/ (\E t \in DownTag \cup UpTag : Damage(w, t))
      PROVE  UNCHANGED <<run, tasks, log>>
  BY <1>8 DEF WorkerStep, ReceiveCommand, SetUp, ReceiveControl, ReceiveTask,
      ReceiveInput, SendResult, SendOutput, Disconnect, WorkerDeadline, Kill, MasterLost,
      Damage, master, tasks
<1>9. CASE UNCHANGED vars
  BY <1>6, <1>9 DEF vars, master, tasks
<1> QED
  BY <1>1, <1>2, <1>3, <1>4, <1>5, <1>6, <1>7, <1>8, <1>9
     DEF Next, MasterStep, FaultStep, Finished

\* The TASKQ master implements the pool: whatever the workers, the network
\* and the deadlines do, its bookkeeping only assigns a free task to a free
\* worker, completes a task its worker holds, and records a run that is done.
THEOREM Refinement == Spec => ImplementsPool
<1>1. Init => Pool!Init
  BY DEF Init, Pool!Init
<1>2. IInv /\ [Next]_vars => [Pool!Next]_(Pool!pool)
  BY PoolStep
<1> QED
  BY <1>1, <1>2, Invariance, PTL DEF Spec, ImplementsPool, Pool!Spec
-----------------------------------------------------------------------------
(* The conversation with each worker *)

\* The queues of worker w.
CmdQ(w)     == net[w]["CMD"]
ControlQ(w) == net[w]["CONTROL"]
TaskQ(w)    == net[w]["TASK"]
InputQ(w)   == net[w]["INPUT"]
ReadyQ(w)   == net[w]["READY"]
ResultQ(w)  == net[w]["RESULT"]
OutputQ(w)  == net[w]["OUTPUT"]

Computing == {"input", "result", "output"}

Alive(w) == wpc[w] \notin {"disconnect", "exited"}
InRun(w) == wpc[w] \in {"control", "task"}

\* The last header on the way to w is a task, not the end of a run.
HasWork(w) == Len(TaskQ(w)) > 0 /\ TaskQ(w)[Len(TaskQ(w))].body.kind = "work"

(* What is on the way to a worker that has not failed.  A worker that gets
   no task may be several runs behind: then pairs of CONTROL and end wait
   for it. *)

QueuesFit(w) ==
    /\ Len(CmdQ(w)) <= 1 /\ Len(InputQ(w)) <= 1
    /\ ~InRun(w) => Len(ControlQ(w)) = 0 /\ Len(TaskQ(w)) = 0
    /\ wpc[w] \in {"ready"} \cup Computing \/ HasWork(w) => Len(CmdQ(w)) = 0
    /\ Len(InputQ(w)) > 0 => wpc[w] = "input" \/ (InRun(w) /\ HasWork(w))

\* The ends of the runs in their order, then at most one task of this run.
TasksFit(w) ==
    \A i \in 1 .. Len(TaskQ(w)) :
        /\ TaskQ(w)[i].body.run = wrun[w] + (i - 1) /\ TaskQ(w)[i].body.run <= run
        /\ \/ TaskQ(w)[i].body.kind = "end"
           \/ /\ TaskQ(w)[i].body.kind = "work" /\ i = Len(TaskQ(w))
              /\ TaskQ(w)[i].body.task = assigned[w] /\ TaskQ(w)[i].body.run = run

\* CONTROL comes before TASK in a run.
First(w) == IF wpc[w] = "control" THEN 0 ELSE 1

ControlsFit(w) ==
    \A i \in 1 .. Len(ControlQ(w)) :
        /\ ControlQ(w)[i].body.run = wrun[w] + (i - 1) + First(w)
        /\ ControlQ(w)[i].body.run <= run

InputFits(w) ==
    Len(InputQ(w)) > 0 =>
        InputQ(w)[1].body.run = run /\ InputQ(w)[1].body.task = assigned[w]

WorkFits(w) ==
    wpc[w] \in Computing =>
        wrun[w] = run /\ wtask[w] = assigned[w] /\ (wpc[w] # "input" => wok[w])

\* Encrypted frames on the way to w.
Ahead(w) ==
    IF Encrypt THEN Len(CmdQ(w)) + Len(ControlQ(w)) + Len(TaskQ(w)) + Len(InputQ(w))
               ELSE Len(CmdQ(w))

\* The counters of the frames are in the order in which w takes them.
CountersFit(w) ==
    /\ sendCtr[w] = wRecvCtr[w] + Ahead(w)
    /\ Len(CmdQ(w)) > 0 => CmdQ(w)[1].ctr = sendCtr[w] - 1
    /\ Encrypt =>
          /\ Len(InputQ(w)) > 0 => InputQ(w)[1].ctr = sendCtr[w] - 1
          /\ \A i \in 1 .. Len(ControlQ(w)) :
                ControlQ(w)[i].ctr = wRecvCtr[w] + 2 * (i - 1) + First(w)
          /\ \A i \in 1 .. Len(TaskQ(w)) :
                TaskQ(w)[i].ctr = wRecvCtr[w] + 2 * (i - 1) + (1 - First(w))

Line(w) == /\ QueuesFit(w) /\ TasksFit(w) /\ ControlsFit(w) /\ InputFits(w)
           /\ WorkFits(w) /\ CountersFit(w)

(* Where the master is in its conversation with w. *)

\* The last run whose CONTROL, or whose end, was sent to w.
CtlSent(w) == IF mpc = "control" /\ w >= idx THEN run - 1 ELSE run
EndSent(w) == IF \/ mpc \in {"cmd", "ready", "run", "record", "shutdown", "disconnect"}
                 \/ mpc = "end" /\ w < idx
              THEN run ELSE run - 1

Unasked(w)    == mpc = "cmd" /\ w >= idx
Starting(w)   == (mpc = "cmd" /\ w < idx) \/ (mpc = "ready" /\ w >= idx)
HeaderSent(w) == mpc \in {"scatterInput", "assignInput"} /\ idx = w
Reading(w)    == mpc = "output" /\ idx = w
Ending(w)     == (mpc = "shutdown" /\ w < idx) \/ (mpc = "disconnect" /\ w <= idx)
Dismissed(w)  == mpc \in {"shutdown", "disconnect"} /\ w < idx

Phase(w) ==
    /\ InRun(w) => /\ wrun[w] + Len(ControlQ(w)) + First(w) = CtlSent(w) + 1
                   /\ wrun[w] + Len(TaskQ(w)) = EndSent(w) + (IF HasWork(w) THEN 2 ELSE 1)
    /\ wpc[w] = "ready" => Starting(w)
    /\ wpc[w] = "cmd" => Starting(w) \/ Unasked(w) \/ (run = NumRuns /\ EndSent(w) = run)
    /\ Unasked(w) => wpc[w] = "cmd"
    /\ Len(CmdQ(w)) > 0 => \/ Starting(w) /\ CmdQ(w)[1].body.kind = "start"
                           \/ Ending(w) /\ CmdQ(w)[1].body.kind = "done"
    /\ HasWork(w) \/ wpc[w] = "input" => busy[w] \/ HeaderSent(w)
    /\ HeaderSent(w) => HasWork(w) \/ wpc[w] = "input"
    /\ wpc[w] \in {"result", "output"} \/ Len(InputQ(w)) > 0 => busy[w]
    /\ Len(ResultQ(w)) > 0 \/ Len(OutputQ(w)) > 0 \/ Reading(w) =>
          ~HasWork(w) /\ wpc[w] \notin {"input", "result"}
    /\ Len(OutputQ(w)) > 0 => wpc[w] # "output"
    /\ Len(ReadyQ(w)) > 0 => wpc[w] \notin {"cmd", "ready"} /\ Len(CmdQ(w)) = 0

\* Encrypted frames on the way to the master.
Behind(w) ==
    IF Encrypt THEN Len(ReadyQ(w)) + Len(ResultQ(w)) + Len(OutputQ(w)) ELSE Len(ReadyQ(w))

Answers(w) ==
    /\ Len(ReadyQ(w)) <= 1 /\ Len(ResultQ(w)) <= 1 /\ Len(OutputQ(w)) <= 1
    /\ Len(ReadyQ(w)) > 0 => Starting(w)
    /\ Len(ResultQ(w)) > 0 \/ Len(OutputQ(w)) > 0 => busy[w]
    /\ Reading(w) => Len(ResultQ(w)) = 0
    /\ wSendCtr[w] = recvCtr[w] + Behind(w)
    /\ Len(ReadyQ(w)) > 0 => ReadyQ(w)[1].ctr = recvCtr[w]
    /\ Encrypt =>
          /\ Len(ResultQ(w)) > 0 => ResultQ(w)[1].ctr = recvCtr[w]
          /\ Len(OutputQ(w)) > 0 => OutputQ(w)[1].ctr = recvCtr[w] + Len(ResultQ(w))

(* How w leaves. *)

DownEmpty(w) == \A t \in DownTag : Len(net[w][t]) = 0
UpEmpty(w)   == \A t \in UpTag : Len(net[w][t]) = 0
DownIntact(w) == \A t \in DownTag : \A i \in 1 .. Len(net[w][t]) : net[w][t][i].intact

Leave(w) ==
    /\ ~Gone(w) => wcode[w] = 0
    /\ Dismissed(w) => Gone(w) /\ wcode[w] = 0
    /\ mpc = "exited" /\ mcode = 0 => Gone(w) /\ wcode[w] = 0 /\ UpEmpty(w)
    /\ faults = 0 => DownIntact(w)
    /\ faults = 0 /\ (wpc[w] = "disconnect" \/ (Gone(w) /\ wcode[w] = 0)) =>
          DownEmpty(w) /\ (mpc = "exited" \/ Ending(w))

Conv(w) ==
    /\ Alive(w) => Line(w)
    /\ mpc # "exited" => (Alive(w) => Phase(w)) /\ Answers(w)
    /\ Leave(w)

\* Loops that are over leave their variable at 0; nobody computes after them.
Loops ==
    /\ mpc \in {"run", "record"} => idx = 0
    /\ mpc \in {"cmd", "ready"} => run = 0
    /\ mpc \in {"end", "record", "shutdown", "disconnect"} => \A w \in Worker : ~busy[w]

Conversation == Loops /\ \A w \in Worker : Conv(w)

-----------------------------------------------------------------------------
(* What a send or a receive does to the queues *)

LEMMA QueueTypes ==
    ASSUME LinkOK, NEW w \in Worker, NEW t \in AnyTag
    PROVE  /\ net[w][t] \in Seq(Frame(Body)) /\ Len(net[w][t]) \in Nat
           /\ Arrived(w, t) <=> Len(net[w][t]) > 0
<1>1. net[w][t] \in Seq(Frame(Body))
  BY DEF LinkOK, AnyTag
<1> QED
  BY <1>1 DEF Arrived

LEMMA FrameTypes ==
    ASSUME LinkOK, NEW w \in Worker, NEW t \in AnyTag, NEW i \in 1 .. Len(net[w][t])
    PROVE  /\ net[w][t][i] \in Frame(Body) /\ net[w][t][i].ctr \in Nat
           /\ net[w][t][i].body \in Body /\ net[w][t][i].body.run \in Nat
           /\ net[w][t][i].body.task \in Nat /\ net[w][t][i].body.kind \in Kind
<1>1. net[w][t] \in Seq(Frame(Body))
  BY DEF LinkOK, AnyTag
<1>2. net[w][t][i] \in Frame(Body)
  BY <1>1
<1> QED
  BY <1>2 DEF Frame, Body

\* The queue of w and t gets one frame more.
OneMore(w, t, f) ==
    /\ \A v \in Worker : v # w => net'[v] = net[v]
    /\ \A s \in AnyTag : s # t => net'[w][s] = net[w][s]
    /\ Len(net'[w][t]) = Len(net[w][t]) + 1
    /\ \A i \in 1 .. Len(net[w][t]) : net'[w][t][i] = net[w][t][i]
    /\ net'[w][t][Len(net[w][t]) + 1] = f

LEMMA Sent ==
    ASSUME LinkOK, NEW w \in Worker, NEW t \in AnyTag, NEW f \in Frame(Body),
           net' = [net EXCEPT ![w][t] = Append(@, f)]
    PROVE  OneMore(w, t, f)
<1>1. net \in [Worker -> [AnyTag -> Seq(Frame(Body))]]
  BY DEF LinkOK, AnyTag
<1>2. PICK q : q = net[w][t]
  OBVIOUS
<1>3. q \in Seq(Frame(Body))
  BY <1>1, <1>2
<1>4. net'[w][t] = Append(q, f)
  BY <1>1, <1>2
<1>5. /\ Len(Append(q, f)) = Len(q) + 1 /\ Append(q, f)[Len(q) + 1] = f
      /\ \A i \in 1 .. Len(q) : Append(q, f)[i] = q[i]
  BY ONLY <1>3, f \in Frame(Body)
<1>6. /\ \A v \in Worker : v # w => net'[v] = net[v]
      /\ \A s \in AnyTag : s # t => net'[w][s] = net[w][s]
  BY <1>1
<1> QED
  BY <1>2, <1>4, <1>5, <1>6 DEF OneMore

\* The first frame of the queue of w and t is gone.
LEMMA Taken ==
    ASSUME LinkOK, NEW w \in Worker, NEW t \in AnyTag, Arrived(w, t),
           net' = [net EXCEPT ![w][t] = Tail(@)]
    PROVE  /\ \A v \in Worker : v # w => net'[v] = net[v]
           /\ \A s \in AnyTag : s # t => net'[w][s] = net[w][s]
           /\ Len(net'[w][t]) = Len(net[w][t]) - 1
           /\ \A i \in 1 .. Len(net[w][t]) - 1 : net'[w][t][i] = net[w][t][i + 1]
           /\ Head(net[w][t]) = net[w][t][1] /\ Len(net[w][t]) > 0
<1>1. net \in [Worker -> [AnyTag -> Seq(Frame(Body))]]
  BY DEF LinkOK, AnyTag
<1>2. PICK q : q = net[w][t]
  OBVIOUS
<1>3. q \in Seq(Frame(Body)) /\ q # <<>>
  BY <1>1, <1>2 DEF Arrived
<1>4. net'[w][t] = Tail(q)
  BY <1>1, <1>2
<1>5. /\ Len(Tail(q)) = Len(q) - 1 /\ Head(q) = q[1] /\ Len(q) > 0
      /\ \A i \in 1 .. Len(q) - 1 : Tail(q)[i] = q[i + 1]
  BY ONLY <1>3
<1>6. /\ \A v \in Worker : v # w => net'[v] = net[v]
      /\ \A s \in AnyTag : s # t => net'[w][s] = net[w][s]
  BY <1>1
<1> QED
  BY <1>2, <1>4, <1>5, <1>6

\* Some frame of the queue of w and t is no longer intact.
LEMMA Damaged ==
    ASSUME LinkOK, NEW w \in Worker, NEW t \in AnyTag, DamageFrame(w, t)
    PROVE  \A v \in Worker, s \in AnyTag :
              /\ Len(net'[v][s]) = Len(net[v][s])
              /\ \A i \in 1 .. Len(net[v][s]) :
                    net'[v][s][i].ctr = net[v][s][i].ctr /\ net'[v][s][i].body = net[v][s][i].body
<1>1. net \in [Worker -> [AnyTag -> Seq(Frame(Body))]]
  BY DEF LinkOK, AnyTag
<1>2. PICK i \in 1 .. Len(net[w][t]) :
         net' = [net EXCEPT ![w][t][i].intact = FALSE]
  BY DEF DamageFrame
<1> DEFINE q == net[w][t]
           g == [q[i] EXCEPT !.intact = FALSE]
           r == [q EXCEPT ![i] = g]
<1>3. q \in Seq(Frame(Body)) /\ i \in 1 .. Len(q)
  BY <1>1
<1>4. q[i] \in Frame(Body)
  BY <1>3
<1>5. g.ctr = q[i].ctr /\ g.body = q[i].body /\ g \in Frame(Body)
  BY <1>4 DEF Frame
<1>6. net' = [net EXCEPT ![w] = [net[w] EXCEPT ![t] = r]]
  BY <1>1, <1>2
<1> HIDE DEF g
<1>7. Len(r) = Len(q) /\ \A k \in 1 .. Len(q) : r[k] = IF k = i THEN g ELSE q[k]
  BY <1>3, <1>5
<1>8. \A k \in 1 .. Len(q) : r[k].ctr = q[k].ctr /\ r[k].body = q[k].body
  BY <1>5, <1>7
<1> HIDE DEF r, q
<1>9. \A v \in Worker, s \in AnyTag :
         net'[v][s] = IF v = w /\ s = t THEN r ELSE net[v][s]
  BY <1>1, <1>6
<1> QED
  BY <1>7, <1>8, <1>9 DEF q

\* The tags by name.
LEMMA Tags ==
    /\ DownTag = {"CMD", "CONTROL", "TASK", "INPUT"} /\ UpTag = {"READY", "RESULT", "OUTPUT"}
    /\ AnyTag = {"CMD", "CONTROL", "TASK", "INPUT", "READY", "RESULT", "OUTPUT"}
    /\ "CMD" \notin PlainTag /\ "READY" \notin PlainTag
    /\ \A t \in {"CONTROL", "TASK", "INPUT", "RESULT", "OUTPUT"} : t \in PlainTag <=> ~Encrypt
  BY DEF DownTag, UpTag, AnyTag, PlainTag

\* What the conversation with v is about.
Downward(v) == <<CmdQ(v), ControlQ(v), TaskQ(v), InputQ(v), sendCtr[v], wRecvCtr[v]>>

Upward(v) == <<ReadyQ(v), ResultQ(v), OutputQ(v), wSendCtr[v], recvCtr[v]>>

Own(v) == <<wpc[v], wrun[v], wtask[v], wok[v], wcode[v]>>

Duty(v) == <<busy[v], assigned[v]>>

Position(v) == <<CtlSent(v), EndSent(v), Unasked(v), Starting(v), HeaderSent(v), Reading(v),
                 Ending(v), Dismissed(v)>>

\* A step that is not about v.
LEMMA LineKept ==
    ASSUME NEW v \in Worker, Alive(v) => Line(v), UNCHANGED <<Downward(v), Own(v), Duty(v), run>>
    PROVE  Alive(v)' => Line(v)'
<1> USE DEF Downward, Own, Duty
<1> SUFFICES ASSUME Line(v) PROVE Line(v)'
  BY DEF Alive
<1>1. InRun(v)' = InRun(v) /\ HasWork(v)' = HasWork(v) /\ First(v)' = First(v)
  BY DEF InRun, HasWork, First
<1>2. QueuesFit(v)'
  BY <1>1 DEF Line, QueuesFit
<1>3. TasksFit(v)'
  BY <1>1 DEF Line, TasksFit
<1>4. ControlsFit(v)'
  BY <1>1 DEF Line, ControlsFit
<1>5. InputFits(v)' /\ WorkFits(v)'
  BY DEF Line, InputFits, WorkFits
<1>6. CountersFit(v)'
  BY <1>1 DEF Line, CountersFit, Ahead
<1> QED
  BY <1>2, <1>3, <1>4, <1>5, <1>6 DEF Line

LEMMA PhaseKept ==
    ASSUME NEW v \in Worker, Phase(v),
           UNCHANGED <<Downward(v), Upward(v), Own(v), Duty(v), run, Position(v)>>
    PROVE  Phase(v)'
<1> USE DEF Downward, Upward, Own, Duty, Position
<1>1. InRun(v)' = InRun(v) /\ HasWork(v)' = HasWork(v) /\ First(v)' = First(v)
  BY DEF InRun, HasWork, First
<1> QED
  BY <1>1 DEF Phase

LEMMA AnswersKept ==
    ASSUME NEW v \in Worker, Answers(v), UNCHANGED <<Upward(v), Duty(v), Position(v)>>
    PROVE  Answers(v)'
  BY DEF Answers, Upward, Duty, Position, Behind

LEMMA LeaveKept ==
    ASSUME NEW v \in Worker, Leave(v),
           UNCHANGED <<Downward(v), Own(v)>>,
           Ending(v)' <=> Ending(v), Dismissed(v)' <=> Dismissed(v),
           faults' = faults \/ faults' # 0,
           \/ mpc # "exited" /\ mpc' # "exited"
           \/ UNCHANGED <<mpc, mcode, Upward(v)>>
    PROVE  Leave(v)'
<1>1. \A t \in DownTag : net'[v][t] = net[v][t]
  BY Tags DEF Downward, CmdQ, ControlQ, TaskQ, InputQ
<1>2. DownIntact(v)' = DownIntact(v) /\ DownEmpty(v)' = DownEmpty(v)
  BY <1>1 DEF DownIntact, DownEmpty
<1>3. wpc'[v] = wpc[v] /\ wcode'[v] = wcode[v]
  BY DEF Own
<1>4. CASE mpc # "exited" /\ mpc' # "exited"
  BY <1>2, <1>3, <1>4 DEF Leave, Gone
<1>5. CASE UNCHANGED <<mpc, mcode, Upward(v)>>
  <2>1. UpEmpty(v)' = UpEmpty(v)
    BY <1>5, Tags DEF UpEmpty, Upward, ReadyQ, ResultQ, OutputQ
  <2> QED
    BY <1>2, <1>3, <1>5, <2>1 DEF Leave, Gone
<1> QED
  BY <1>4, <1>5

LEMMA ConvKept ==
    ASSUME NEW v \in Worker, Conv(v),
           UNCHANGED <<Downward(v), Upward(v), Own(v), Duty(v), run, Position(v)>>,
           faults' = faults \/ faults' # 0,
           (mpc # "exited" /\ mpc' # "exited") \/ UNCHANGED <<mpc, mcode>>
    PROVE  Conv(v)'
<1>1. Alive(v)' = Alive(v)
  BY DEF Alive, Own
<1>2. (Ending(v)' <=> Ending(v)) /\ (Dismissed(v)' <=> Dismissed(v))
  BY DEF Position
<1>3. Leave(v)'
  BY <1>2, LeaveKept DEF Conv
<1>4. Alive(v)' => Line(v)'
  BY LineKept DEF Conv
<1> QED
  BY <1>1, <1>3, <1>4, PhaseKept, AnswersKept DEF Conv

\* The master exits, and not with 0.
LEMMA ExitKept ==
    ASSUME NEW v \in Worker, Conv(v), mpc' = "exited", mcode' # 0,
           UNCHANGED <<Downward(v), Own(v), Duty(v), run, faults>>
    PROVE  Conv(v)'
<1>1. Alive(v)' => Line(v)'
  BY LineKept DEF Conv
<1>2. \A t \in DownTag : net'[v][t] = net[v][t]
  BY Tags DEF Downward, CmdQ, ControlQ, TaskQ, InputQ
<1>3. DownIntact(v)' = DownIntact(v) /\ DownEmpty(v)' = DownEmpty(v)
  BY <1>2 DEF DownIntact, DownEmpty
<1>4. ~Dismissed(v)'
  BY DEF Dismissed
<1>5. wpc'[v] = wpc[v] /\ wcode'[v] = wcode[v]
  BY DEF Own
<1>6. Leave(v)'
  BY <1>3, <1>4, <1>5 DEF Conv, Leave, Gone
<1> QED
  BY <1>1, <1>6 DEF Conv

CInv == IInv /\ Conversation

\* The types of what the conversation with w is about.
LEMMA ViewTypes ==
    ASSUME IInv, NEW w \in Worker
    PROVE  /\ Len(CmdQ(w)) \in Nat /\ Len(ControlQ(w)) \in Nat /\ Len(TaskQ(w)) \in Nat
           /\ Len(InputQ(w)) \in Nat /\ Len(ReadyQ(w)) \in Nat /\ Len(ResultQ(w)) \in Nat
           /\ Len(OutputQ(w)) \in Nat
           /\ sendCtr[w] \in Nat /\ recvCtr[w] \in Nat /\ wSendCtr[w] \in Nat
           /\ wRecvCtr[w] \in Nat
           /\ run \in Nat /\ wrun[w] \in Nat /\ wtask[w] \in Nat /\ assigned[w] \in Nat
           /\ wpc[w] \in WorkerAt /\ mpc \in MasterAt /\ idx \in Worker
           /\ faults \in Nat
<1>1. LinkOK /\ MasterOK /\ WorkerOK
  BY DEF IInv, MasterInv
<1>2. \A t \in AnyTag : Len(net[w][t]) \in Nat
  BY <1>1, QueueTypes
<1>3. /\ Len(CmdQ(w)) \in Nat /\ Len(ControlQ(w)) \in Nat /\ Len(TaskQ(w)) \in Nat
      /\ Len(InputQ(w)) \in Nat /\ Len(ReadyQ(w)) \in Nat /\ Len(ResultQ(w)) \in Nat
      /\ Len(OutputQ(w)) \in Nat
  BY <1>2, Tags DEF CmdQ, ControlQ, TaskQ, InputQ, ReadyQ, ResultQ, OutputQ
<1>4. /\ sendCtr[w] \in Nat /\ recvCtr[w] \in Nat /\ wSendCtr[w] \in Nat
      /\ wRecvCtr[w] \in Nat
  BY <1>1 DEF LinkOK
<1>5. /\ run \in Nat /\ assigned[w] \in Nat /\ mpc \in MasterAt /\ idx \in Worker
  BY <1>1 DEF MasterOK, TaskId
<1>6. /\ wrun[w] \in Nat /\ wtask[w] \in Nat /\ wpc[w] \in WorkerAt /\ faults \in Nat
  BY <1>1 DEF WorkerOK, TaskId
<1> QED
  BY <1>3, <1>4, <1>5, <1>6

LEMMA TaskFrames ==
    ASSUME IInv, NEW w \in Worker
    PROVE  /\ \A i \in 1 .. Len(TaskQ(w)) :
                /\ TaskQ(w)[i].ctr \in Nat /\ TaskQ(w)[i].body.run \in Nat
                /\ TaskQ(w)[i].body.task \in Nat
           /\ \A i \in 1 .. Len(ControlQ(w)) :
                ControlQ(w)[i].ctr \in Nat /\ ControlQ(w)[i].body.run \in Nat
  BY FrameTypes, Tags DEF IInv, TaskQ, ControlQ

\* A message of the master goes into one queue of one worker.
LEMMA MasterSent ==
    ASSUME IInv, NEW w \in Worker, NEW t \in DownTag, NEW b \in Body, MasterSend(w, t, b)
    PROVE  /\ \A v \in Worker \ {w} : UNCHANGED <<Downward(v), Upward(v)>>
           /\ UNCHANGED <<Upward(w), wRecvCtr>>
           /\ \A s \in AnyTag : s # t => net'[w][s] = net[w][s]
           /\ Len(net'[w][t]) = Len(net[w][t]) + 1
           /\ \A i \in 1 .. Len(net[w][t]) : net'[w][t][i] = net[w][t][i]
           /\ net'[w][t][Len(net[w][t]) + 1] = MakeFrame(sendCtr[w], b)
           /\ sendCtr'[w] = IF t \in PlainTag THEN sendCtr[w] ELSE sendCtr[w] + 1
<1>1. LinkOK /\ t \in AnyTag
  BY DEF IInv, AnyTag
<1>2. sendCtr[w] \in Nat /\ sendCtr \in [Worker -> Nat]
  BY <1>1 DEF LinkOK
<1>3. PICK f \in Frame(Body) : f = MakeFrame(sendCtr[w], b)
  BY <1>2 DEF MakeFrame, Frame
<1>4. net' = [net EXCEPT ![w][t] = Append(@, f)]
  BY <1>3 DEF MasterSend
<1>5. /\ \A v \in Worker : v # w => net'[v] = net[v]
      /\ \A s \in AnyTag : s # t => net'[w][s] = net[w][s]
      /\ Len(net'[w][t]) = Len(net[w][t]) + 1
      /\ \A i \in 1 .. Len(net[w][t]) : net'[w][t][i] = net[w][t][i]
      /\ net'[w][t][Len(net[w][t]) + 1] = f
  <2>1. OneMore(w, t, f)
    BY <1>1, <1>4, Sent
  <2> QED
    BY <2>1 DEF OneMore
<1>6. /\ sendCtr'[w] = IF t \in PlainTag THEN sendCtr[w] ELSE sendCtr[w] + 1
      /\ \A v \in Worker \ {w} : sendCtr'[v] = sendCtr[v]
      /\ UNCHANGED <<recvCtr, wSendCtr, wRecvCtr>>
  BY <1>2 DEF MasterSend
<1>7. \A v \in Worker \ {w} : UNCHANGED <<Downward(v), Upward(v)>>
  BY <1>5, <1>6 DEF Downward, Upward, CmdQ, ControlQ, TaskQ, InputQ, ReadyQ, ResultQ, OutputQ
<1>8. UNCHANGED <<Upward(w), wRecvCtr>>
  BY <1>5, <1>6, Tags DEF Upward, ReadyQ, ResultQ, OutputQ
<1> QED
  BY <1>3, <1>5, <1>6, <1>7, <1>8

LEMMA WorkerSent ==
    ASSUME IInv, NEW w \in Worker, NEW t \in UpTag, NEW b \in Body, WorkerSend(w, t, b)
    PROVE  /\ \A v \in Worker \ {w} : UNCHANGED <<Downward(v), Upward(v)>>
           /\ UNCHANGED <<Downward(w), recvCtr>>
           /\ \A s \in AnyTag : s # t => net'[w][s] = net[w][s]
           /\ Len(net'[w][t]) = Len(net[w][t]) + 1
           /\ \A i \in 1 .. Len(net[w][t]) : net'[w][t][i] = net[w][t][i]
           /\ net'[w][t][Len(net[w][t]) + 1] = MakeFrame(wSendCtr[w], b)
           /\ wSendCtr'[w] = IF t \in PlainTag THEN wSendCtr[w] ELSE wSendCtr[w] + 1
<1>1. LinkOK /\ t \in AnyTag
  BY DEF IInv, AnyTag
<1>2. wSendCtr[w] \in Nat /\ wSendCtr \in [Worker -> Nat]
  BY <1>1 DEF LinkOK
<1>3. PICK f \in Frame(Body) : f = MakeFrame(wSendCtr[w], b)
  BY <1>2 DEF MakeFrame, Frame
<1>4. net' = [net EXCEPT ![w][t] = Append(@, f)]
  BY <1>3 DEF WorkerSend
<1>5. /\ \A v \in Worker : v # w => net'[v] = net[v]
      /\ \A s \in AnyTag : s # t => net'[w][s] = net[w][s]
      /\ Len(net'[w][t]) = Len(net[w][t]) + 1
      /\ \A i \in 1 .. Len(net[w][t]) : net'[w][t][i] = net[w][t][i]
      /\ net'[w][t][Len(net[w][t]) + 1] = f
  <2>1. OneMore(w, t, f)
    BY <1>1, <1>4, Sent
  <2> QED
    BY <2>1 DEF OneMore
<1>6. /\ wSendCtr'[w] = IF t \in PlainTag THEN wSendCtr[w] ELSE wSendCtr[w] + 1
      /\ \A v \in Worker \ {w} : wSendCtr'[v] = wSendCtr[v]
      /\ UNCHANGED <<sendCtr, recvCtr, wRecvCtr>>
  BY <1>2 DEF WorkerSend
<1>7. \A v \in Worker \ {w} : UNCHANGED <<Downward(v), Upward(v)>>
  BY <1>5, <1>6 DEF Downward, Upward, CmdQ, ControlQ, TaskQ, InputQ, ReadyQ, ResultQ, OutputQ
<1>8. UNCHANGED <<Downward(w), recvCtr>>
  BY <1>5, <1>6, Tags DEF Downward, CmdQ, ControlQ, TaskQ, InputQ
<1> QED
  BY <1>3, <1>5, <1>6, <1>7, <1>8

\* A receive takes the first message of one queue.
LEMMA MasterTook ==
    ASSUME IInv, NEW w \in Worker, NEW t \in UpTag, Arrived(w, t), MasterTake(w, t)
    PROVE  /\ \A v \in Worker \ {w} : UNCHANGED <<Downward(v), Upward(v)>>
           /\ UNCHANGED <<Downward(w), wSendCtr>>
           /\ \A s \in AnyTag : s # t => net'[w][s] = net[w][s]
           /\ Len(net'[w][t]) = Len(net[w][t]) - 1 /\ Len(net[w][t]) > 0
           /\ \A i \in 1 .. Len(net[w][t]) - 1 : net'[w][t][i] = net[w][t][i + 1]
           /\ Head(net[w][t]) = net[w][t][1]
           /\ recvCtr'[w] = IF t \notin PlainTag /\ MasterOpens(w, t)
                            THEN recvCtr[w] + 1 ELSE recvCtr[w]
<1>1. LinkOK /\ t \in AnyTag
  BY DEF IInv, AnyTag
<1>2. recvCtr[w] \in Nat /\ recvCtr \in [Worker -> Nat]
  BY <1>1 DEF LinkOK
<1>3. net' = [net EXCEPT ![w][t] = Tail(@)]
  BY DEF MasterTake
<1>4. /\ \A v \in Worker : v # w => net'[v] = net[v]
      /\ \A s \in AnyTag : s # t => net'[w][s] = net[w][s]
      /\ Len(net'[w][t]) = Len(net[w][t]) - 1
      /\ \A i \in 1 .. Len(net[w][t]) - 1 : net'[w][t][i] = net[w][t][i + 1]
      /\ Head(net[w][t]) = net[w][t][1] /\ Len(net[w][t]) > 0
  BY <1>1, <1>3, Taken
<1>5. /\ recvCtr'[w] = IF t \notin PlainTag /\ MasterOpens(w, t)
                       THEN recvCtr[w] + 1 ELSE recvCtr[w]
      /\ \A v \in Worker \ {w} : recvCtr'[v] = recvCtr[v]
      /\ UNCHANGED <<sendCtr, wSendCtr, wRecvCtr>>
  BY <1>2 DEF MasterTake
<1>6. \A v \in Worker \ {w} : UNCHANGED <<Downward(v), Upward(v)>>
  BY <1>4, <1>5 DEF Downward, Upward, CmdQ, ControlQ, TaskQ, InputQ, ReadyQ, ResultQ, OutputQ
<1>7. UNCHANGED <<Downward(w), wSendCtr>>
  BY <1>4, <1>5, Tags DEF Downward, CmdQ, ControlQ, TaskQ, InputQ
<1> QED
  BY <1>4, <1>5, <1>6, <1>7

LEMMA WorkerTook ==
    ASSUME IInv, NEW w \in Worker, NEW t \in DownTag, Arrived(w, t), WorkerTake(w, t)
    PROVE  /\ \A v \in Worker \ {w} : UNCHANGED <<Downward(v), Upward(v)>>
           /\ UNCHANGED <<Upward(w), sendCtr>>
           /\ \A s \in AnyTag : s # t => net'[w][s] = net[w][s]
           /\ Len(net'[w][t]) = Len(net[w][t]) - 1 /\ Len(net[w][t]) > 0
           /\ \A i \in 1 .. Len(net[w][t]) - 1 : net'[w][t][i] = net[w][t][i + 1]
           /\ Head(net[w][t]) = net[w][t][1]
           /\ wRecvCtr'[w] = IF t \notin PlainTag /\ WorkerOpens(w, t)
                             THEN wRecvCtr[w] + 1 ELSE wRecvCtr[w]
<1>1. LinkOK /\ t \in AnyTag
  BY DEF IInv, AnyTag
<1>2. wRecvCtr[w] \in Nat /\ wRecvCtr \in [Worker -> Nat]
  BY <1>1 DEF LinkOK
<1>3. net' = [net EXCEPT ![w][t] = Tail(@)]
  BY DEF WorkerTake
<1>4. /\ \A v \in Worker : v # w => net'[v] = net[v]
      /\ \A s \in AnyTag : s # t => net'[w][s] = net[w][s]
      /\ Len(net'[w][t]) = Len(net[w][t]) - 1
      /\ \A i \in 1 .. Len(net[w][t]) - 1 : net'[w][t][i] = net[w][t][i + 1]
      /\ Head(net[w][t]) = net[w][t][1] /\ Len(net[w][t]) > 0
  BY <1>1, <1>3, Taken
<1>5. /\ wRecvCtr'[w] = IF t \notin PlainTag /\ WorkerOpens(w, t)
                        THEN wRecvCtr[w] + 1 ELSE wRecvCtr[w]
      /\ \A v \in Worker \ {w} : wRecvCtr'[v] = wRecvCtr[v]
      /\ UNCHANGED <<sendCtr, recvCtr, wSendCtr>>
  BY <1>2 DEF WorkerTake
<1>6. \A v \in Worker \ {w} : UNCHANGED <<Downward(v), Upward(v)>>
  BY <1>4, <1>5 DEF Downward, Upward, CmdQ, ControlQ, TaskQ, InputQ, ReadyQ, ResultQ, OutputQ
<1>7. UNCHANGED <<Upward(w), sendCtr>>
  BY <1>4, <1>5, Tags DEF Upward, ReadyQ, ResultQ, OutputQ
<1> QED
  BY <1>4, <1>5, <1>6, <1>7

\* Nothing the processes do damages a frame.
LEMMA SentIntact ==
    ASSUME IInv, NEW w \in Worker, NEW t \in DownTag, NEW b \in Body, MasterSend(w, t, b),
           DownIntact(w)
    PROVE  DownIntact(w)'
<1>1. ASSUME NEW i \in 1 .. Len(net'[w][t]) PROVE net'[w][t][i].intact
  <2>1. Len(net[w][t]) \in Nat
    BY QueueTypes DEF IInv, AnyTag
  <2>2. CASE i \in 1 .. Len(net[w][t])
    BY <2>2, MasterSent DEF DownIntact
  <2>3. CASE i = Len(net[w][t]) + 1
    <3>1. net'[w][t][i] = MakeFrame(sendCtr[w], b)
      BY <2>3, MasterSent
    <3> QED
      BY <3>1 DEF MakeFrame
  <2>4. Len(net'[w][t]) = Len(net[w][t]) + 1
    BY MasterSent
  <2> QED
    BY <2>1, <2>2, <2>3, <2>4
<1>2. \A s \in DownTag : s # t => net'[w][s] = net[w][s]
  BY MasterSent DEF AnyTag
<1> QED
  BY <1>1, <1>2 DEF DownIntact

LEMMA TakenIntact ==
    ASSUME IInv, NEW w \in Worker, NEW t \in DownTag, Arrived(w, t), WorkerTake(w, t),
           DownIntact(w)
    PROVE  DownIntact(w)'
<1>1. ASSUME NEW i \in 1 .. Len(net'[w][t]) PROVE net'[w][t][i].intact
  <2>1. Len(net[w][t]) \in Nat
    BY QueueTypes DEF IInv, AnyTag
  <2>2. i + 1 \in 1 .. Len(net[w][t]) /\ net'[w][t][i] = net[w][t][i + 1]
    BY <2>1, WorkerTook
  <2> QED
    BY <2>2 DEF DownIntact
<1>2. \A s \in DownTag : s # t => net'[w][s] = net[w][s]
  BY WorkerTook DEF AnyTag
<1> QED
  BY <1>1, <1>2 DEF DownIntact

\* Leave is not disturbed by a message to w.
LEMMA LeaveSent ==
    ASSUME IInv, NEW w \in Worker, NEW t \in DownTag, NEW b \in Body, MasterSend(w, t, b),
           Leave(w), UNCHANGED <<faults, wpc, wcode>>, mpc # "exited", mpc' # "exited",
           ~Ending(w), ~Dismissed(w)'
    PROVE  Leave(w)'
<1>1. faults' = 0 => DownIntact(w)'
  <2>1. SUFFICES ASSUME faults = 0 PROVE DownIntact(w)'
    OBVIOUS
  <2>2. DownIntact(w)
    BY <2>1 DEF Leave
  <2> QED
    BY <2>2, SentIntact
<1> QED
  BY <1>1 DEF Leave, Gone

\* The steps of the master that send.
LEMMA SendCommandConv ==
    ASSUME CInv, SendCommand
    PROVE  \A v \in Worker : Conv(v)'
<1>1. PICK w \in Worker : w = idx
  BY DEF CInv, IInv, MasterInv, MasterOK
<1> DEFINE b == Msg("start", 0, 0, TRUE)
<1>2. /\ IInv /\ mpc = "cmd" /\ MasterSend(w, "CMD", b) /\ NextWorker("cmd", "ready")
      /\ UNCHANGED <<run, busy, assigned, faults, wpc, wrun, wtask, wok, wcode>>
  BY <1>1 DEF CInv, SendCommand, tasks, worker
<1>3. b \in Body /\ b.kind = "start"
  BY DEF Msg, Body, Kind
<1> HIDE DEF b
<1>4. /\ \A v \in Worker \ {w} : UNCHANGED <<Downward(v), Upward(v)>>
      /\ UNCHANGED <<Upward(w), wRecvCtr>>
      /\ UNCHANGED <<ControlQ(w), TaskQ(w), InputQ(w)>>
      /\ Len(CmdQ(w)') = Len(CmdQ(w)) + 1
      /\ CmdQ(w)'[Len(CmdQ(w)) + 1] = MakeFrame(sendCtr[w], b)
      /\ sendCtr'[w] = sendCtr[w] + 1
  BY <1>2, <1>3, MasterSent, Tags DEF CmdQ, ControlQ, TaskQ, InputQ
<1>5. \/ mpc' = "cmd" /\ idx' = w + 1
      \/ mpc' = "ready" /\ idx' = 0 /\ w = N - 1
  BY <1>1, <1>2, LoopStep
<1>6. ASSUME NEW v \in Worker, v # w PROVE UNCHANGED Position(v)
  BY <1>1, <1>2, <1>5, <1>6 DEF Position, CtlSent, EndSent, Unasked, Starting, HeaderSent,
     Reading, Ending, Dismissed, Worker
<1>7. ASSUME NEW v \in Worker, v # w PROVE Conv(v)'
  BY <1>2, <1>4, <1>5, <1>6, <1>7, ConvKept DEF CInv, Conversation, Own, Duty
<1>8. /\ Conv(w) /\ Unasked(w) /\ ~Starting(w) /\ ~Ending(w) /\ ~Reading(w)
  BY <1>1, <1>2 DEF CInv, Conversation, Unasked, Starting, Ending, Reading, Worker
<1>9. /\ ~Unasked(w)' /\ Starting(w)' /\ ~Ending(w)' /\ ~Reading(w)' /\ ~HeaderSent(w)'
      /\ ~Dismissed(w)' /\ mpc' # "exited"
  BY <1>1, <1>5 DEF Unasked, Starting, Ending, Reading, HeaderSent, Dismissed, Worker
<1>10. ASSUME Alive(w)'
       PROVE  /\ Alive(w) /\ wpc[w] = "cmd" /\ wpc'[w] = "cmd"
              /\ Len(CmdQ(w)) = 0 /\ Len(ControlQ(w)) = 0 /\ Len(TaskQ(w)) = 0
              /\ Len(InputQ(w)) = 0 /\ sendCtr[w] = wRecvCtr[w] /\ sendCtr[w] \in Nat
  <2>1. Alive(w) /\ Line(w) /\ Phase(w)
    BY <1>2, <1>8, <1>10 DEF Conv, Alive
  <2>2. wpc[w] = "cmd" /\ Len(CmdQ(w)) = 0
    BY <1>2, <1>8, <2>1, ViewTypes DEF Phase
  <2>3. Len(ControlQ(w)) = 0 /\ Len(TaskQ(w)) = 0 /\ Len(InputQ(w)) = 0
    BY <1>2, <2>1, <2>2, ViewTypes DEF Line, QueuesFit, InRun
  <2> QED
    BY <1>2, <2>1, <2>2, <2>3, ViewTypes DEF Line, CountersFit, Ahead
<1>11. ASSUME Alive(w)' PROVE Line(w)'
  <2>1. /\ Len(CmdQ(w)') = 1 /\ CmdQ(w)'[1].ctr = sendCtr[w] /\ Len(ControlQ(w)') = 0
        /\ Len(TaskQ(w)') = 0 /\ Len(InputQ(w)') = 0 /\ wpc'[w] = "cmd"
    BY <1>2, <1>4, <1>10, <1>11 DEF MakeFrame
  <2>2. QueuesFit(w)' /\ WorkFits(w)'
    BY <2>1 DEF QueuesFit, InRun, WorkFits, Computing, HasWork
  <2>3. TasksFit(w)' /\ ControlsFit(w)' /\ InputFits(w)'
    BY <2>1 DEF TasksFit, ControlsFit, InputFits
  <2>4. CountersFit(w)'
    BY <1>4, <1>10, <1>11, <2>1 DEF CountersFit, Ahead
  <2> QED
    BY <2>2, <2>3, <2>4 DEF Line
<1>12. Answers(w)'
  BY <1>2, <1>4, <1>8, <1>9, ViewTypes DEF Conv, Answers, Upward, Behind
<1>13. ASSUME Alive(w)' PROVE Phase(w)'
  <2>1. /\ Len(CmdQ(w)') = 1 /\ CmdQ(w)'[1].body.kind = "start"
        /\ Len(TaskQ(w)') = 0 /\ Len(InputQ(w)') = 0 /\ wpc'[w] = "cmd"
    BY <1>2, <1>3, <1>4, <1>10, <1>13 DEF MakeFrame
  <2>2. Len(ReadyQ(w)') = 0
    BY <1>2, <1>4, <1>8, ViewTypes DEF Conv, Answers, Upward
  <2> QED
    BY <1>9, <2>1, <2>2 DEF Phase, InRun, HasWork
<1>14. Leave(w)'
  BY <1>2, <1>3, <1>8, <1>9, LeaveSent, Tags DEF Conv
<1> QED
  BY <1>7, <1>9, <1>11, <1>12, <1>13, <1>14 DEF Conv

Middle == {"control", "scatter", "scatterInput", "poll", "output", "assign", "assignInput", "end"}

\* In the middle of a run, a worker that holds no task waits for CONTROL or TASK.
LEMMA IdleWorker ==
    ASSUME CInv, NEW w \in Worker, Alive(w), mpc \in Middle, ~busy[w], ~HeaderSent(w),
           EndSent(w) = run - 1
    PROVE  /\ Line(w) /\ Phase(w) /\ InRun(w) /\ ~HasWork(w)
           /\ Len(CmdQ(w)) = 0 /\ Len(InputQ(w)) = 0
           /\ wrun[w] + Len(TaskQ(w)) = run
           /\ wrun[w] + Len(ControlQ(w)) + First(w) = CtlSent(w) + 1
<1>1. Line(w) /\ Phase(w) /\ IInv /\ Answers(w)
  BY DEF CInv, Conversation, Conv, Middle
<1>2. ~Unasked(w) /\ ~Starting(w) /\ ~Ending(w)
  BY DEF Middle, Unasked, Starting, Ending
<1>3. run \in Nat
  BY <1>1, ViewTypes
<1>4. wpc[w] \notin {"cmd", "ready"} \cup Computing /\ ~HasWork(w)
  BY <1>1, <1>2, <1>3 DEF Phase, Computing
<1>5. InRun(w)
  BY <1>1, <1>4, ViewTypes DEF InRun, Alive, WorkerAt, Computing
<1>6. Len(CmdQ(w)) = 0 /\ Len(InputQ(w)) = 0
  BY <1>1, <1>2, ViewTypes, SMTT(40) DEF Phase
<1> QED
  BY <1>1, <1>3, <1>4, <1>5, <1>6, ViewTypes, SMTT(40) DEF Phase

\* Nothing comes from a worker that was not asked for anything.
LEMMA NoAnswers ==
    ASSUME CInv, NEW w \in Worker, mpc # "exited", ~busy[w], ~Starting(w)
    PROVE  Len(ReadyQ(w)) = 0 /\ Len(ResultQ(w)) = 0 /\ Len(OutputQ(w)) = 0
<1>1. Answers(w) /\ IInv
  BY DEF CInv, Conversation, Conv
<1> QED
  BY <1>1, ViewTypes, SMTT(40) DEF Answers

LEMMA SendControlConv ==
    ASSUME CInv, SendControl
    PROVE  \A v \in Worker : Conv(v)'
<1>1. PICK w \in Worker : w = idx
  BY DEF CInv, IInv, MasterInv, MasterOK
<1> DEFINE b == Msg("control", run, 0, TRUE)
<1>2. /\ IInv /\ mpc = "control" /\ MasterSend(w, "CONTROL", b)
      /\ NextWorker("control", "scatter")
      /\ UNCHANGED <<run, busy, assigned, faults, wpc, wrun, wtask, wok, wcode>>
  BY <1>1 DEF CInv, SendControl, tasks, worker
<1>3. b \in Body /\ b.run = run
  BY <1>1, <1>2, ViewTypes DEF Msg, Body, Kind
<1> HIDE DEF b
<1>4. /\ \A v \in Worker \ {w} : UNCHANGED <<Downward(v), Upward(v)>>
      /\ UNCHANGED <<Upward(w), wRecvCtr>>
      /\ UNCHANGED <<CmdQ(w), TaskQ(w), InputQ(w)>>
      /\ Len(ControlQ(w)') = Len(ControlQ(w)) + 1
      /\ \A i \in 1 .. Len(ControlQ(w)) : ControlQ(w)'[i] = ControlQ(w)[i]
      /\ ControlQ(w)'[Len(ControlQ(w)) + 1] = MakeFrame(sendCtr[w], b)
      /\ sendCtr'[w] = IF Encrypt THEN sendCtr[w] + 1 ELSE sendCtr[w]
  BY <1>2, <1>3, MasterSent, Tags DEF CmdQ, ControlQ, TaskQ, InputQ
<1>5. \/ mpc' = "control" /\ idx' = w + 1
      \/ mpc' = "scatter" /\ idx' = 0 /\ w = N - 1
  BY <1>1, <1>2, LoopStep
<1>6. ASSUME NEW v \in Worker, v # w PROVE UNCHANGED Position(v)
  BY <1>1, <1>2, <1>5, <1>6 DEF Position, CtlSent, EndSent, Unasked, Starting, HeaderSent,
     Reading, Ending, Dismissed, Worker
<1>7. ASSUME NEW v \in Worker, v # w PROVE Conv(v)'
  BY <1>2, <1>4, <1>5, <1>6, <1>7, ConvKept DEF CInv, Conversation, Own, Duty
<1>8. /\ Conv(w) /\ ~Unasked(w) /\ ~Starting(w) /\ ~Ending(w) /\ ~Reading(w)
      /\ ~HeaderSent(w) /\ ~busy[w] /\ EndSent(w) = run - 1 /\ CtlSent(w) = run - 1
  BY <1>1, <1>2 DEF CInv, Conversation, Unasked, Starting, Ending, Reading, HeaderSent, Worker,
     IInv, MasterInv, Bookkeeping, EndSent, CtlSent
<1>9. /\ ~Unasked(w)' /\ ~Starting(w)' /\ ~Ending(w)' /\ ~Reading(w)' /\ ~HeaderSent(w)'
      /\ ~Dismissed(w)' /\ mpc' # "exited" /\ EndSent(w)' = run - 1 /\ CtlSent(w)' = run
  BY <1>1, <1>2, <1>5 DEF Unasked, Starting, Ending, Reading, HeaderSent, Dismissed, Worker,
     EndSent, CtlSent
<1>10. ASSUME Alive(w)'
       PROVE  /\ Line(w) /\ Phase(w) /\ InRun(w) /\ ~HasWork(w)
              /\ Len(CmdQ(w)) = 0 /\ Len(InputQ(w)) = 0
              /\ wrun[w] + Len(TaskQ(w)) = run
              /\ wrun[w] + Len(ControlQ(w)) + First(w) = run
  <2>1. Alive(w)
    BY <1>2, <1>10 DEF Alive
  <2>2. /\ Line(w) /\ Phase(w) /\ InRun(w) /\ ~HasWork(w)
        /\ Len(CmdQ(w)) = 0 /\ Len(InputQ(w)) = 0
        /\ wrun[w] + Len(TaskQ(w)) = run
        /\ wrun[w] + Len(ControlQ(w)) + First(w) = CtlSent(w) + 1
    BY <1>2, <1>8, <2>1, IdleWorker DEF Middle
  <2> QED
    BY <1>2, <1>8, <2>2, ViewTypes
<1>11. InRun(w)' = InRun(w) /\ First(w)' = First(w) /\ HasWork(w)' = HasWork(w)
  BY <1>2, <1>4 DEF InRun, First, HasWork
<1>12. ASSUME Alive(w)' PROVE Line(w)'
  <2>1. QueuesFit(w)' /\ WorkFits(w)' /\ TasksFit(w)' /\ InputFits(w)'
    BY <1>2, <1>4, <1>10, <1>11, <1>12
    DEF Line, QueuesFit, InRun, WorkFits, TasksFit, InputFits, Computing
  <2>2. /\ Len(ControlQ(w)) \in Nat /\ Len(TaskQ(w)) \in Nat /\ First(w) \in {0, 1}
        /\ wrun[w] \in Nat /\ wRecvCtr[w] \in Nat /\ sendCtr[w] \in Nat /\ run \in Nat
    BY <1>2, ViewTypes DEF First
  <2>3. ControlsFit(w)'
    <3>1. SUFFICES ASSUME NEW i \in 1 .. Len(ControlQ(w)) + 1
                   PROVE  /\ ControlQ(w)'[i].body.run = wrun[w] + (i - 1) + First(w)
                          /\ ControlQ(w)'[i].body.run <= run
      BY <1>2, <1>4, <1>11 DEF ControlsFit
    <3>2. CASE i \in 1 .. Len(ControlQ(w))
      BY <1>4, <1>10, <1>12, <3>2 DEF Line, ControlsFit
    <3>3. CASE i = Len(ControlQ(w)) + 1
      <4>1. ControlQ(w)'[i].body.run = run
        BY <1>3, <1>4, <3>3 DEF MakeFrame
      <4> QED
        BY <1>10, <1>12, <2>2, <3>3, <4>1
    <3> QED
      BY <2>2, <3>2, <3>3
  <2>4. CountersFit(w)'
    <3>1. sendCtr'[w] = wRecvCtr'[w] + Ahead(w)'
      BY <1>2, <1>4, <1>10, <1>12, <2>2 DEF Line, CountersFit, Ahead
    <3>2. ASSUME Encrypt, NEW i \in 1 .. Len(ControlQ(w)) + 1
          PROVE  ControlQ(w)'[i].ctr = wRecvCtr[w] + 2 * (i - 1) + First(w)
      <4>1. CASE i \in 1 .. Len(ControlQ(w))
        BY <1>4, <1>10, <1>12, <3>2, <4>1 DEF Line, CountersFit
      <4>2. CASE i = Len(ControlQ(w)) + 1
        <5>1. ControlQ(w)'[i].ctr = sendCtr[w]
          BY <1>4, <4>2 DEF MakeFrame
        <5>2. sendCtr[w] = wRecvCtr[w] + (Len(ControlQ(w)) + Len(TaskQ(w)))
          BY <1>10, <1>12, <2>2, <3>2 DEF Line, CountersFit, Ahead
        <5> QED
          BY <1>10, <1>12, <2>2, <4>2, <5>1, <5>2, SMTT(40)
      <4> QED
        BY <2>2, <4>1, <4>2
    <3> QED
      BY <1>4, <1>10, <1>11, <1>12, <3>1, <3>2 DEF Line, CountersFit
  <2> QED
    BY <2>1, <2>3, <2>4 DEF Line
<1>13. Answers(w)'
  BY <1>2, <1>4, <1>8, <1>9, ViewTypes DEF Conv, Answers, Upward, Behind
<1>14. ASSUME Alive(w)' PROVE Phase(w)'
  <2>1. /\ Len(ControlQ(w)) \in Nat /\ First(w) \in {0, 1} /\ wrun[w] \in Nat /\ run \in Nat
        /\ Len(TaskQ(w)) \in Nat
    BY <1>2, ViewTypes DEF First
  <2>2. InRun(w)' => /\ (wrun[w] + Len(ControlQ(w)) + First(w) = CtlSent(w) + 1)'
                     /\ (wrun[w] + Len(TaskQ(w)) = EndSent(w) + (IF HasWork(w) THEN 2 ELSE 1))'
    <3>1. /\ wrun'[w] = wrun[w] /\ Len(ControlQ(w))' = Len(ControlQ(w)) + 1
          /\ First(w)' = First(w) /\ CtlSent(w)' = run /\ EndSent(w)' = run - 1
          /\ Len(TaskQ(w))' = Len(TaskQ(w)) /\ ~HasWork(w)'
      BY <1>2, <1>4, <1>9, <1>10, <1>11, <1>14
    <3>2. wrun[w] + Len(TaskQ(w)) = run /\ wrun[w] + Len(ControlQ(w)) + First(w) = run
      BY <1>10, <1>14
    <3>3. wrun[w] + (Len(ControlQ(w)) + 1) + First(w) = run + 1
      BY ONLY <2>1, <3>2
    <3>4. wrun[w] + Len(TaskQ(w)) = (run - 1) + 1
      BY ONLY <2>1, <3>2
    <3> QED
      BY <3>1, <3>3, <3>4
  <2> QED
    BY <1>2, <1>4, <1>8, <1>9, <1>10, <1>11, <1>14, <2>2 DEF Phase, InRun, Upward
<1>15. Leave(w)'
  BY <1>2, <1>3, <1>8, <1>9, LeaveSent, Tags DEF Conv
<1> QED
  BY <1>7, <1>9, <1>12, <1>13, <1>14, <1>15 DEF Conv

\* The counters of TASK frames: the one behind c CONTROL and n TASK frames,
\* and the ones that remain when the first is taken.
LEMMA TaskCounter ==
    ASSUME NEW r \in Nat, NEW c \in Nat, NEW n \in Nat, NEW f \in {0, 1}, c + f = n + 1
    PROVE  r + (c + n) = r + 2 * ((n + 1) - 1) + (1 - f)
OBVIOUS

LEMMA NextTaskCounter ==
    ASSUME NEW r \in Nat, NEW i \in Nat
    PROVE  r + 2 * ((i + 1) - 1) + (1 - 1) = (r + 1) + 2 * (i - 1) + (1 - 0)
OBVIOUS

\* A header to a worker that waits for one takes its place after the ones
\* on the way: its run is the next one w expects, and so is its counter.
LEMMA HeaderFits ==
    ASSUME CInv, NEW w \in Worker, NEW b \in Body, MasterSend(w, "TASK", b), Alive(w),
           mpc \in Middle, ~busy[w], ~HeaderSent(w), EndSent(w) = run - 1, CtlSent(w) = run,
           b.run = run, b.kind = "end" \/ (b.kind = "work" /\ b.task = assigned'[w]),
           UNCHANGED <<run, wpc, wrun, wtask, wok>>
    PROVE  /\ Line(w)' /\ InRun(w)' /\ wrun[w] + Len(TaskQ(w)') = run + 1
           /\ HasWork(w)' <=> b.kind = "work"
           /\ wrun[w] + Len(ControlQ(w)) + First(w) = run + 1
           /\ InRun(w) /\ ~HasWork(w) /\ Len(InputQ(w)) = 0 /\ Len(CmdQ(w)) = 0
<1>1. /\ Line(w) /\ Phase(w) /\ InRun(w) /\ ~HasWork(w)
      /\ Len(CmdQ(w)) = 0 /\ Len(InputQ(w)) = 0
      /\ wrun[w] + Len(TaskQ(w)) = run
      /\ wrun[w] + Len(ControlQ(w)) + First(w) = CtlSent(w) + 1
  BY IdleWorker
<1>2. IInv /\ wrun[w] + Len(ControlQ(w)) + First(w) = run + 1
  BY <1>1 DEF CInv
<1>3. /\ UNCHANGED <<CmdQ(w), ControlQ(w), InputQ(w), wRecvCtr>>
      /\ Len(TaskQ(w)') = Len(TaskQ(w)) + 1
      /\ \A i \in 1 .. Len(TaskQ(w)) : TaskQ(w)'[i] = TaskQ(w)[i]
      /\ TaskQ(w)'[Len(TaskQ(w)) + 1] = MakeFrame(sendCtr[w], b)
      /\ sendCtr'[w] = IF Encrypt THEN sendCtr[w] + 1 ELSE sendCtr[w]
  BY <1>2, MasterSent, Tags DEF CmdQ, ControlQ, TaskQ, InputQ
<1>4. /\ Len(ControlQ(w)) \in Nat /\ Len(TaskQ(w)) \in Nat /\ First(w) \in {0, 1}
      /\ wrun[w] \in Nat /\ wRecvCtr[w] \in Nat /\ sendCtr[w] \in Nat /\ run \in Nat
  BY <1>2, ViewTypes DEF First
<1>5. InRun(w)' /\ First(w)' = First(w)
  BY <1>1 DEF InRun, First
<1>6. HasWork(w)' <=> b.kind = "work"
  <2>1. Len(TaskQ(w)') > 0 /\ TaskQ(w)'[Len(TaskQ(w)')].body = b
    BY <1>3, <1>4 DEF MakeFrame
  <2> QED
    BY <2>1 DEF HasWork
<1>7. QueuesFit(w)' /\ WorkFits(w)' /\ ControlsFit(w)' /\ InputFits(w)'
  BY <1>1, <1>3, <1>5
  DEF Line, QueuesFit, InRun, WorkFits, ControlsFit, InputFits, Computing
<1>8. TasksFit(w)'
  <2>1. SUFFICES ASSUME NEW i \in 1 .. Len(TaskQ(w)) + 1
                 PROVE  /\ TaskQ(w)'[i].body.run = wrun[w] + (i - 1)
                        /\ TaskQ(w)'[i].body.run <= run
                        /\ \/ TaskQ(w)'[i].body.kind = "end"
                           \/ /\ TaskQ(w)'[i].body.kind = "work" /\ i = Len(TaskQ(w)) + 1
                              /\ TaskQ(w)'[i].body.task = assigned'[w]
                              /\ TaskQ(w)'[i].body.run = run
    BY <1>3 DEF TasksFit
  <2>2. CASE i \in 1 .. Len(TaskQ(w))
    <3>1. TaskQ(w)[i].body.kind = "end"
      BY <1>1, <1>4, <2>2, SMTT(40) DEF Line, TasksFit, HasWork
    <3> QED
      BY <1>1, <1>3, <2>2, <3>1 DEF Line, TasksFit
  <2>3. CASE i = Len(TaskQ(w)) + 1
    <3>1. TaskQ(w)'[i].body = b
      BY <1>3, <2>3 DEF MakeFrame
    <3> QED
      BY <1>1, <1>4, <2>3, <3>1
  <2> QED
    BY <1>4, <2>2, <2>3
<1>9. CountersFit(w)'
  <2>1. sendCtr'[w] = wRecvCtr'[w] + Ahead(w)'
    BY <1>1, <1>3, <1>4 DEF Line, CountersFit, Ahead
  <2>2. ASSUME Encrypt, NEW i \in 1 .. Len(TaskQ(w)) + 1
        PROVE  TaskQ(w)'[i].ctr = wRecvCtr[w] + 2 * (i - 1) + (1 - First(w))
    <3>1. CASE i \in 1 .. Len(TaskQ(w))
      BY <1>1, <1>3, <2>2, <3>1 DEF Line, CountersFit
    <3>2. CASE i = Len(TaskQ(w)) + 1
      <4>1. TaskQ(w)'[i].ctr = sendCtr[w]
        BY <1>3, <3>2 DEF MakeFrame
      <4>2. sendCtr[w] = wRecvCtr[w] + (Len(ControlQ(w)) + Len(TaskQ(w)))
        BY <1>1, <1>4, <2>2 DEF Line, CountersFit, Ahead
      <4>3. Len(ControlQ(w)) + First(w) = Len(TaskQ(w)) + 1
        <5>1. /\ wrun[w] + Len(TaskQ(w)) = run
              /\ wrun[w] + Len(ControlQ(w)) + First(w) = run + 1
          BY <1>1, <1>2
        <5> QED BY ONLY <1>4, <5>1
      <4>4. wRecvCtr[w] + (Len(ControlQ(w)) + Len(TaskQ(w)))
              = wRecvCtr[w] + 2 * ((Len(TaskQ(w)) + 1) - 1) + (1 - First(w))
        <5>1. PICK r \in Nat, c \in Nat, n \in Nat, f \in {0, 1} :
                r = wRecvCtr[w] /\ c = Len(ControlQ(w)) /\ n = Len(TaskQ(w)) /\ f = First(w)
          BY <1>4
        <5>2. c + f = n + 1
          BY <4>3, <5>1
        <5>3. r + (c + n) = r + 2 * ((n + 1) - 1) + (1 - f)
          BY ONLY <5>2, TaskCounter
        <5> QED BY <5>1, <5>3
      <4> QED
        BY ONLY <3>2, <4>1, <4>2, <4>4
    <3> QED
      BY <1>4, <3>1, <3>2
  <2>3. Encrypt => \A i \in 1 .. Len(TaskQ(w))' :
                      (TaskQ(w)[i].ctr = wRecvCtr[w] + 2 * (i - 1) + (1 - First(w)))'
    BY <1>3, <1>5, <2>2
  <2>4. Encrypt => \A i \in 1 .. Len(ControlQ(w))' :
                      (ControlQ(w)[i].ctr = wRecvCtr[w] + 2 * (i - 1) + First(w))'
    BY <1>1, <1>3, <1>5 DEF Line, CountersFit
  <2>5. Len(CmdQ(w))' = 0 /\ Len(InputQ(w))' = 0
    BY <1>1, <1>3
  <2> QED
    BY <2>1, <2>3, <2>4, <2>5 DEF CountersFit
<1>10. Line(w)'
  BY <1>7, <1>8, <1>9 DEF Line
<1>11. wrun[w] + Len(TaskQ(w)') = run + 1
  <2>1. wrun[w] + Len(TaskQ(w)) = run /\ Len(TaskQ(w)') = Len(TaskQ(w)) + 1
    BY <1>1, <1>3
  <2> QED BY ONLY <1>4, <2>1
<1> QED
  BY <1>1, <1>2, <1>5, <1>6, <1>10, <1>11

LEMMA SendTaskConv ==
    ASSUME CInv, NEW from, NEW to, SendTask(from, to),
           \/ from = "scatter" /\ to = "scatterInput"
           \/ from = "assign" /\ to = "assignInput"
    PROVE  \A v \in Worker : Conv(v)'
<1>1. PICK w \in Worker : w = idx
  BY DEF CInv, IInv, MasterInv, MasterOK
<1> DEFINE b == Msg("work", run, nextTask, TRUE)
<1>2. /\ IInv /\ mpc \in {"scatter", "assign"} /\ mpc' \in {"scatterInput", "assignInput"}
      /\ MasterSend(w, "TASK", b) /\ idx' = w
      /\ assigned' = [assigned EXCEPT ![w] = nextTask]
      /\ UNCHANGED <<run, busy, faults, wpc, wrun, wtask, wok, wcode>>
  BY <1>1 DEF CInv, SendTask, worker
<1>3. nextTask \in Nat /\ run \in Nat /\ assigned \in [Worker -> TaskId]
  BY <1>2 DEF IInv, MasterInv, MasterOK
<1>4. b \in Body /\ b.run = run /\ b.kind = "work" /\ b.task = assigned'[w]
  BY <1>2, <1>3 DEF Msg, Body, Kind
<1> HIDE DEF b
<1>5. /\ \A v \in Worker \ {w} : UNCHANGED <<Downward(v), Upward(v)>>
      /\ UNCHANGED <<Upward(w), CmdQ(w), InputQ(w), ControlQ(w)>>
  BY <1>2, <1>4, MasterSent, Tags DEF CmdQ, ControlQ, InputQ
<1>6. ASSUME NEW v \in Worker, v # w PROVE UNCHANGED Position(v)
  BY <1>1, <1>2, <1>6 DEF Position, CtlSent, EndSent, Unasked, Starting, HeaderSent,
     Reading, Ending, Dismissed
<1>7. ASSUME NEW v \in Worker, v # w PROVE Conv(v)'
  <2>1. UNCHANGED Duty(v)
    BY <1>2, <1>3, <1>7 DEF Duty
  <2> QED
    BY <1>2, <1>5, <1>6, <1>7, <2>1, ConvKept DEF CInv, Conversation, Own
<1>8. /\ Conv(w) /\ ~Ending(w) /\ ~HeaderSent(w) /\ ~busy[w] /\ EndSent(w) = run - 1
      /\ CtlSent(w) = run
  BY <1>1, <1>2 DEF CInv, Conversation, Ending, HeaderSent, Worker,
     IInv, MasterInv, Bookkeeping, EndSent, CtlSent
<1>9. /\ ~Unasked(w)' /\ ~Starting(w)' /\ ~Ending(w)' /\ ~Reading(w)' /\ HeaderSent(w)'
      /\ ~Dismissed(w)' /\ mpc' # "exited" /\ EndSent(w)' = run - 1 /\ CtlSent(w)' = run
  BY <1>1, <1>2 DEF Unasked, Starting, Ending, Reading, HeaderSent, Dismissed, EndSent, CtlSent
<1>10. ~Starting(w) /\ ~Reading(w)
  BY <1>2 DEF Starting, Reading
<1>11. Answers(w)'
  BY <1>2, <1>5, <1>8, <1>9, <1>10, ViewTypes DEF Conv, Answers, Upward, Behind
<1>12. Leave(w)'
  BY <1>2, <1>4, <1>8, <1>9, LeaveSent, Tags DEF Conv
<1>13. ASSUME Alive(w)'
       PROVE  /\ Line(w)' /\ InRun(w)' /\ wrun[w] + Len(TaskQ(w)') = run + 1
              /\ HasWork(w)' /\ wrun[w] + Len(ControlQ(w)) + First(w) = run + 1
              /\ Len(InputQ(w)) = 0 /\ Len(CmdQ(w)) = 0
  <2>1. Alive(w) /\ mpc \in Middle
    BY <1>2, <1>13 DEF Alive, Middle
  <2> QED
    BY <1>2, <1>4, <1>8, <2>1, HeaderFits
<1>14. ASSUME Alive(w)' PROVE Phase(w)'
  <2>1. First(w)' = First(w) /\ Len(ControlQ(w)') = Len(ControlQ(w)) /\ wrun'[w] = wrun[w]
    BY <1>2, <1>5 DEF First
  <2>2. Len(ResultQ(w)') = 0 /\ Len(OutputQ(w)') = 0 /\ Len(ReadyQ(w)') = 0
    BY <1>2, <1>5, <1>8, <1>10, NoAnswers DEF Upward
  <2>3. InRun(w)' => /\ (wrun[w] + Len(ControlQ(w)) + First(w) = CtlSent(w) + 1)'
                     /\ (wrun[w] + Len(TaskQ(w)) = EndSent(w) + (IF HasWork(w) THEN 2 ELSE 1))'
    BY <1>3, <1>9, <1>13, <1>14, <2>1
  <2> QED
    BY <1>5, <1>9, <1>13, <1>14, <2>2, <2>3 DEF Phase, InRun
<1> QED
  BY <1>7, <1>9, <1>11, <1>12, <1>13, <1>14 DEF Conv

LEMMA SendEndConv ==
    ASSUME CInv, SendEnd
    PROVE  \A v \in Worker : Conv(v)'
<1>1. PICK w \in Worker : w = idx
  BY DEF CInv, IInv, MasterInv, MasterOK
<1> DEFINE b == Msg("end", run, 0, TRUE)
<1>2. /\ IInv /\ mpc = "end" /\ MasterSend(w, "TASK", b) /\ NextWorker("end", "record")
      /\ UNCHANGED <<run, busy, assigned, faults, wpc, wrun, wtask, wok, wcode>>
  BY <1>1 DEF CInv, SendEnd, worker, tasks
<1>3. run \in Nat
  BY <1>2 DEF IInv, MasterInv, MasterOK
<1>4. b \in Body /\ b.run = run /\ b.kind = "end"
  BY <1>2, <1>3 DEF Msg, Body, Kind
<1> HIDE DEF b
<1>5. /\ \A v \in Worker \ {w} : UNCHANGED <<Downward(v), Upward(v)>>
      /\ UNCHANGED <<Upward(w), CmdQ(w), InputQ(w), ControlQ(w)>>
  BY <1>2, <1>4, MasterSent, Tags DEF CmdQ, ControlQ, InputQ
<1>6. \/ mpc' = "end" /\ idx' = w + 1
      \/ mpc' = "record" /\ idx' = 0 /\ w = N - 1
  BY <1>1, <1>2, LoopStep
<1>7. ASSUME NEW v \in Worker, v # w PROVE Conv(v)'
  <2>1. UNCHANGED Position(v)
    BY <1>1, <1>2, <1>6, <1>7 DEF Position, CtlSent, EndSent, Unasked, Starting, HeaderSent,
       Reading, Ending, Dismissed, Worker
  <2> QED
    BY <1>2, <1>5, <1>6, <1>7, <2>1, ConvKept DEF CInv, Conversation, Own, Duty
<1>8. /\ Conv(w) /\ ~Ending(w) /\ ~HeaderSent(w) /\ ~busy[w] /\ EndSent(w) = run - 1
      /\ CtlSent(w) = run /\ ~Starting(w) /\ ~Reading(w)
  BY <1>1, <1>2 DEF CInv, Conversation, Loops, Ending, HeaderSent, Worker, EndSent, CtlSent,
     Starting, Reading
<1>9. /\ ~Unasked(w)' /\ ~Starting(w)' /\ ~Ending(w)' /\ ~Reading(w)' /\ ~HeaderSent(w)'
      /\ ~Dismissed(w)' /\ mpc' # "exited" /\ EndSent(w)' = run /\ CtlSent(w)' = run
  BY <1>1, <1>2, <1>6 DEF Unasked, Starting, Ending, Reading, HeaderSent, Dismissed, EndSent,
     CtlSent, Worker
<1>10. Answers(w)'
  BY <1>2, <1>5, <1>8, <1>9, ViewTypes DEF Conv, Answers, Upward, Behind
<1>11. Leave(w)'
  BY <1>2, <1>4, <1>8, <1>9, LeaveSent, Tags DEF Conv
<1>12. ASSUME Alive(w)'
       PROVE  /\ Line(w)' /\ InRun(w)' /\ wrun[w] + Len(TaskQ(w)') = run + 1
              /\ ~HasWork(w)' /\ wrun[w] + Len(ControlQ(w)) + First(w) = run + 1
              /\ Len(InputQ(w)) = 0 /\ Len(CmdQ(w)) = 0
  <2>1. Alive(w) /\ mpc \in Middle
    BY <1>2, <1>12 DEF Alive, Middle
  <2> QED
    BY <1>2, <1>4, <1>8, <2>1, HeaderFits
<1>13. ASSUME Alive(w)' PROVE Phase(w)'
  <2>1. First(w)' = First(w) /\ Len(ControlQ(w)') = Len(ControlQ(w)) /\ wrun'[w] = wrun[w]
    BY <1>2, <1>5 DEF First
  <2>2. Len(ResultQ(w)') = 0 /\ Len(OutputQ(w)') = 0 /\ Len(ReadyQ(w)') = 0
    BY <1>2, <1>5, <1>8, NoAnswers DEF Upward
  <2>3. InRun(w)' => /\ (wrun[w] + Len(ControlQ(w)) + First(w) = CtlSent(w) + 1)'
                     /\ (wrun[w] + Len(TaskQ(w)) = EndSent(w) + (IF HasWork(w) THEN 2 ELSE 1))'
    BY <1>3, <1>9, <1>12, <1>13, <2>1
  <2> QED
    BY <1>5, <1>9, <1>12, <1>13, <2>2, <2>3 DEF Phase, InRun
<1> QED
  BY <1>7, <1>9, <1>10, <1>11, <1>12, <1>13 DEF Conv

LEMMA SendInputConv ==
    ASSUME CInv, NEW from, SendInput(from), from \in {"scatterInput", "assignInput"}
    PROVE  \A v \in Worker : Conv(v)'
<1>1. PICK w \in Worker : w = idx
  BY DEF CInv, IInv, MasterInv, MasterOK
<1> DEFINE b == Msg("input", run, nextTask, TRUE)
<1>2. /\ IInv /\ mpc \in {"scatterInput", "assignInput"} /\ MasterSend(w, "INPUT", b)
      /\ busy' = [busy EXCEPT ![w] = TRUE]
      /\ UNCHANGED <<run, assigned, faults, wpc, wrun, wtask, wok, wcode>>
  BY <1>1 DEF CInv, SendInput, worker
<1>3. mpc' \in {"scatter", "poll"}
  BY <1>1, LoopStep, SweepStep DEF SendInput
<1>4. /\ nextTask \in Nat /\ run \in Nat /\ busy \in [Worker -> BOOLEAN]
      /\ assigned[w] = nextTask /\ ~busy[w]
  BY <1>1, <1>2 DEF IInv, MasterInv, MasterOK, Bookkeeping, Worker
<1>5. b \in Body /\ b.run = run /\ b.task = assigned[w]
  BY <1>4 DEF Msg, Body, Kind
<1> HIDE DEF b
<1>6. /\ \A v \in Worker \ {w} : UNCHANGED <<Downward(v), Upward(v)>>
      /\ UNCHANGED <<Upward(w), CmdQ(w), TaskQ(w), ControlQ(w), wRecvCtr>>
      /\ Len(InputQ(w)') = Len(InputQ(w)) + 1
      /\ InputQ(w)'[Len(InputQ(w)) + 1] = MakeFrame(sendCtr[w], b)
      /\ sendCtr'[w] = IF Encrypt THEN sendCtr[w] + 1 ELSE sendCtr[w]
  BY <1>2, <1>5, MasterSent, Tags DEF CmdQ, ControlQ, TaskQ, InputQ
<1>7. ASSUME NEW v \in Worker, v # w PROVE Conv(v)'
  <2>1. UNCHANGED Position(v)
    BY <1>1, <1>2, <1>3, <1>7 DEF Position, CtlSent, EndSent, Unasked, Starting, HeaderSent,
       Reading, Ending, Dismissed
  <2>2. UNCHANGED Duty(v)
    BY <1>2, <1>4, <1>7 DEF Duty
  <2> QED
    BY <1>2, <1>3, <1>6, <1>7, <2>1, <2>2, ConvKept DEF CInv, Conversation, Own
<1>8. /\ Conv(w) /\ ~Ending(w) /\ HeaderSent(w) /\ EndSent(w) = run - 1
      /\ CtlSent(w) = run /\ ~Starting(w) /\ ~Reading(w) /\ ~Unasked(w)
  BY <1>1, <1>2 DEF CInv, Conversation, Ending, HeaderSent, EndSent, CtlSent, Starting, Reading,
     Unasked
<1>9. /\ ~Unasked(w)' /\ ~Starting(w)' /\ ~Ending(w)' /\ ~Reading(w)' /\ ~HeaderSent(w)'
      /\ ~Dismissed(w)' /\ mpc' # "exited" /\ EndSent(w)' = run - 1 /\ CtlSent(w)' = run
  BY <1>1, <1>2, <1>3 DEF Unasked, Starting, Ending, Reading, HeaderSent, Dismissed, EndSent,
     CtlSent
<1>10. busy'[w]
  BY <1>2, <1>4
<1>11. Answers(w)'
  BY <1>2, <1>6, <1>8, <1>9, <1>10, ViewTypes DEF Conv, Answers, Upward, Behind
<1>12. Leave(w)'
  BY <1>2, <1>5, <1>8, <1>9, LeaveSent, Tags DEF Conv
<1>13. ASSUME Alive(w)'
       PROVE  /\ Line(w) /\ Phase(w) /\ Len(InputQ(w)) = 0 /\ Len(CmdQ(w)) = 0
              /\ wpc[w] = "input" \/ (InRun(w) /\ HasWork(w))
  <2>1. Line(w) /\ Phase(w)
    BY <1>2, <1>8, <1>13 DEF Alive, Conv
  <2>2. Len(InputQ(w)) = 0 /\ Len(CmdQ(w)) = 0
    BY <1>2, <1>4, <1>8, <2>1, ViewTypes DEF Phase
  <2>3. wpc[w] = "input" \/ (InRun(w) /\ HasWork(w))
    BY <1>8, <2>1 DEF Phase, Line, QueuesFit, HasWork
  <2> QED
    BY <2>1, <2>2, <2>3
<1>14. InRun(w)' = InRun(w) /\ HasWork(w)' = HasWork(w) /\ First(w)' = First(w)
  BY <1>2, <1>6 DEF InRun, HasWork, First
<1>15. ASSUME Alive(w)' PROVE Phase(w)'
  <2>1. Len(ResultQ(w)') = 0 /\ Len(OutputQ(w)') = 0 /\ Len(ReadyQ(w)') = 0
    BY <1>2, <1>4, <1>6, <1>8, NoAnswers DEF Upward
  <2>2. InRun(w)' => /\ (wrun[w] + Len(ControlQ(w)) + First(w) = CtlSent(w) + 1)'
                     /\ (wrun[w] + Len(TaskQ(w)) = EndSent(w) + (IF HasWork(w) THEN 2 ELSE 1))'
    BY <1>2, <1>6, <1>8, <1>9, <1>13, <1>14, <1>15 DEF Phase
  <2> QED
    BY <1>2, <1>6, <1>9, <1>10, <1>13, <1>14, <1>15, <2>1, <2>2 DEF Phase, InRun
<1>16. ASSUME Alive(w)' PROVE Line(w)'
  <2>1. QueuesFit(w)'
    BY <1>2, <1>6, <1>13, <1>14, <1>16 DEF Line, QueuesFit, Computing, InRun
  <2>2. TasksFit(w)' /\ ControlsFit(w)' /\ WorkFits(w)'
    BY <1>2, <1>6, <1>13, <1>14, <1>16 DEF Line, TasksFit, ControlsFit, WorkFits
  <2>3. Len(InputQ(w)') = 1 /\ InputQ(w)'[1].body = b /\ InputQ(w)'[1].ctr = sendCtr[w]
    BY <1>6, <1>13, <1>16 DEF MakeFrame
  <2>4. InputFits(w)'
    BY <1>2, <1>5, <2>3 DEF InputFits
  <2>5. CountersFit(w)'
    <3>1. sendCtr'[w] = wRecvCtr'[w] + Ahead(w)'
      <4>1. sendCtr[w] = wRecvCtr[w] + Ahead(w)
        BY <1>13, <1>16 DEF Line, CountersFit
      <4>2. Ahead(w)' = IF Encrypt THEN Ahead(w) + 1 ELSE Ahead(w)
        BY <1>2, <1>6, ViewTypes DEF Ahead
      <4>3. Ahead(w) \in Nat /\ wRecvCtr[w] \in Nat
        BY <1>2, ViewTypes DEF Ahead
      <4> QED
        BY <1>6, <4>1, <4>2, <4>3
    <3>2. Encrypt => InputQ(w)'[1].ctr = sendCtr'[w] - 1
      BY <1>2, <1>6, <2>3, ViewTypes, SMTT(40)
    <3> QED
      BY <1>6, <1>13, <1>14, <1>16, <3>1, <3>2 DEF Line, CountersFit
  <2> QED
    BY <2>1, <2>2, <2>4, <2>5 DEF Line
<1> QED
  BY <1>7, <1>9, <1>11, <1>12, <1>15, <1>16 DEF Conv

LEMMA SendDoneConv ==
    ASSUME CInv, SendDone
    PROVE  \A v \in Worker : Conv(v)'
<1>1. PICK w \in Worker : w = idx
  BY DEF CInv, IInv, MasterInv, MasterOK
<1> DEFINE b == Msg("done", 0, 0, TRUE)
<1>2. /\ IInv /\ mpc = "shutdown" /\ mpc' = "disconnect" /\ idx' = idx /\ MasterSend(w, "CMD", b)
      /\ UNCHANGED <<run, busy, assigned, faults, wpc, wrun, wtask, wok, wcode>>
  BY <1>1 DEF CInv, SendDone, tasks, worker
<1>3. b \in Body /\ b.kind = "done"
  BY DEF Msg, Body, Kind
<1> HIDE DEF b
<1>4. /\ \A v \in Worker \ {w} : UNCHANGED <<Downward(v), Upward(v)>>
      /\ UNCHANGED <<Upward(w), ControlQ(w), TaskQ(w), InputQ(w), wRecvCtr>>
      /\ Len(CmdQ(w)') = Len(CmdQ(w)) + 1
      /\ CmdQ(w)'[Len(CmdQ(w)) + 1] = MakeFrame(sendCtr[w], b)
      /\ sendCtr'[w] = sendCtr[w] + 1
  BY <1>2, <1>3, MasterSent, Tags DEF CmdQ, ControlQ, TaskQ, InputQ
<1>5. ASSUME NEW v \in Worker, v # w PROVE Conv(v)'
  <2>1. UNCHANGED Position(v)
    BY <1>1, <1>2, <1>5 DEF Position, CtlSent, EndSent, Unasked, Starting, HeaderSent,
       Reading, Ending, Dismissed, Worker
  <2> QED
    BY <1>2, <1>4, <1>5, <2>1, ConvKept DEF CInv, Conversation, Own, Duty
<1>6. /\ Conv(w) /\ ~Unasked(w) /\ ~Starting(w) /\ ~Ending(w) /\ ~Reading(w) /\ ~HeaderSent(w)
      /\ ~busy[w] /\ EndSent(w) = run /\ CtlSent(w) = run
  BY <1>1, <1>2 DEF CInv, Conversation, Loops, Unasked, Starting, Ending, Reading, HeaderSent,
     EndSent, CtlSent, Worker
<1>7. /\ ~Unasked(w)' /\ ~Starting(w)' /\ Ending(w)' /\ ~Reading(w)' /\ ~HeaderSent(w)'
      /\ ~Dismissed(w)' /\ mpc' # "exited" /\ EndSent(w)' = run /\ CtlSent(w)' = run
  BY <1>1, <1>2 DEF Unasked, Starting, Ending, Reading, HeaderSent, Dismissed, EndSent, CtlSent,
     Worker
<1>8. ASSUME Alive(w)'
      PROVE  /\ Line(w) /\ Phase(w) /\ Len(CmdQ(w)) = 0 /\ Len(InputQ(w)) = 0
             /\ wpc[w] \notin {"ready"} \cup Computing /\ ~HasWork(w)
  <2>1. Line(w) /\ Phase(w)
    BY <1>2, <1>6, <1>8 DEF Alive, Conv
  <2> QED
    BY <1>2, <1>6, <2>1, ViewTypes, SMTT(40) DEF Phase, Computing
<1>9. InRun(w)' = InRun(w) /\ HasWork(w)' = HasWork(w) /\ First(w)' = First(w)
  BY <1>2, <1>4 DEF InRun, HasWork, First
<1>10. Answers(w)'
  BY <1>2, <1>4, <1>6, <1>7, ViewTypes DEF Conv, Answers, Upward, Behind
<1>11. Leave(w)'
  BY <1>2, <1>3, <1>6, <1>7, LeaveSent, Tags DEF Conv
<1>12. ASSUME Alive(w)' PROVE Line(w)'
  <2>1. Len(CmdQ(w)') = 1 /\ CmdQ(w)'[1].ctr = sendCtr[w]
    BY <1>4, <1>8, <1>12 DEF MakeFrame
  <2>2. QueuesFit(w)'
    BY <1>2, <1>4, <1>8, <1>9, <1>12, <2>1 DEF Line, QueuesFit
  <2>3. TasksFit(w)' /\ ControlsFit(w)' /\ WorkFits(w)' /\ InputFits(w)'
    BY <1>2, <1>4, <1>8, <1>9, <1>12
    DEF Line, TasksFit, ControlsFit, WorkFits, InputFits
  <2>4. CountersFit(w)'
    <3>1. sendCtr'[w] = wRecvCtr'[w] + Ahead(w)'
      <4>1. sendCtr[w] = wRecvCtr[w] + Ahead(w)
        BY <1>8, <1>12 DEF Line, CountersFit
      <4>2. Ahead(w)' = Ahead(w) + 1
        BY <1>2, <1>4, ViewTypes DEF Ahead
      <4>3. Ahead(w) \in Nat /\ wRecvCtr[w] \in Nat
        BY <1>2, ViewTypes DEF Ahead
      <4> QED
        BY <1>4, <4>1, <4>2, <4>3
    <3>2. CmdQ(w)'[1].ctr = sendCtr'[w] - 1 /\ ~(Len(InputQ(w)') > 0)
      BY <1>2, <1>4, <1>8, <1>12, <2>1, ViewTypes
    <3> QED
      BY <1>4, <1>8, <1>9, <1>12, <3>1, <3>2 DEF Line, CountersFit
  <2> QED
    BY <2>2, <2>3, <2>4 DEF Line
<1>13. ASSUME Alive(w)' PROVE Phase(w)'
  <2>1. CmdQ(w)'[1].body.kind = "done"
    BY <1>3, <1>4, <1>8, <1>13 DEF MakeFrame
  <2>2. Len(ResultQ(w)') = 0 /\ Len(OutputQ(w)') = 0 /\ Len(ReadyQ(w)') = 0
    BY <1>2, <1>4, <1>6, NoAnswers DEF Upward
  <2>3. InRun(w)' => /\ (wrun[w] + Len(ControlQ(w)) + First(w) = CtlSent(w) + 1)'
                     /\ (wrun[w] + Len(TaskQ(w)) = EndSent(w) + (IF HasWork(w) THEN 2 ELSE 1))'
    BY <1>2, <1>4, <1>6, <1>7, <1>8, <1>9, <1>13 DEF Phase
  <2> QED
    BY <1>2, <1>4, <1>6, <1>7, <1>8, <1>9, <1>13, <2>1, <2>2, <2>3 DEF Phase, Computing
<1> QED
  BY <1>5, <1>7, <1>10, <1>11, <1>12, <1>13 DEF Conv

\* The steps of the master that receive.
LEMMA ReceiveReadyConv ==
    ASSUME CInv, ReceiveReady
    PROVE  \A v \in Worker : Conv(v)'
<1>1. PICK w \in Worker : w = idx
  BY DEF CInv, IInv, MasterInv, MasterOK
<1>2. /\ IInv /\ mpc = "ready" /\ Arrived(w, "READY") /\ MasterTake(w, "READY")
      /\ UNCHANGED <<run, busy, assigned, faults, wpc, wrun, wtask, wok, wcode>>
  BY <1>1 DEF CInv, ReceiveReady, tasks, worker
<1>3. /\ \A v \in Worker \ {w} : UNCHANGED <<Downward(v), Upward(v)>>
      /\ UNCHANGED <<Downward(w), ResultQ(w), OutputQ(w), wSendCtr>>
      /\ Len(ReadyQ(w)') = Len(ReadyQ(w)) - 1 /\ Len(ReadyQ(w)) > 0
      /\ MasterOpens(w, "READY") => recvCtr'[w] = recvCtr[w] + 1
  BY <1>2, MasterTook, Tags DEF ReadyQ, ResultQ, OutputQ
<1>4. \A v \in Worker : Downward(v)' = Downward(v)
  BY <1>3
<1>5. CASE MasterExit(1)
  BY <1>2, <1>4, <1>5, ExitKept DEF CInv, Conversation, MasterExit, Own, Duty
<1>6. CASE MasterOpens(w, "READY") /\ NextWorker("ready", "run")
  <2>1. \/ mpc' = "ready" /\ idx' = w + 1
        \/ mpc' = "run" /\ idx' = 0 /\ w = N - 1
    BY <1>1, <1>6, LoopStep
  <2>2. ASSUME NEW v \in Worker, v # w PROVE Conv(v)'
    <3>1. UNCHANGED Position(v)
      BY <1>1, <1>2, <2>1, <2>2 DEF Position, CtlSent, EndSent, Unasked, Starting, HeaderSent,
         Reading, Ending, Dismissed, Worker
    <3> QED
      BY <1>2, <1>3, <2>1, <2>2, <3>1, ConvKept DEF CInv, Conversation, Own, Duty
  <2>3. /\ Conv(w) /\ ~Unasked(w) /\ Starting(w) /\ ~Reading(w) /\ ~busy[w] /\ ~HeaderSent(w)
        /\ EndSent(w) = run /\ CtlSent(w) = run /\ ~Ending(w) /\ ~Dismissed(w)
    BY <1>1, <1>2 DEF CInv, Conversation, Unasked, Starting, Reading, HeaderSent, EndSent,
       CtlSent, IInv, MasterInv, Bookkeeping, Ending, Dismissed, Worker
  <2>4. /\ ~Unasked(w)' /\ ~Starting(w)' /\ ~Reading(w)' /\ ~HeaderSent(w)'
        /\ EndSent(w)' = run /\ CtlSent(w)' = run /\ ~Ending(w)' /\ ~Dismissed(w)'
        /\ mpc' # "exited"
    BY <1>1, <1>2, <2>1 DEF Unasked, Starting, Reading, HeaderSent, EndSent, CtlSent, Ending,
       Dismissed, Worker
  <2>5. Answers(w) /\ Len(ReadyQ(w)) = 1 /\ Len(ResultQ(w)) = 0 /\ Len(OutputQ(w)) = 0
    BY <1>2, <1>3, <2>3, ViewTypes, SMTT(40) DEF Conv, Answers
  <2>6. Behind(w) = 1 /\ Behind(w)' = 0
    BY <1>3, <2>5 DEF Behind
  <2>7. wSendCtr'[w] = recvCtr'[w] + Behind(w)'
    BY <1>2, <1>3, <1>6, <2>5, <2>6, ViewTypes, SMTT(40) DEF Answers
  <2>8. Answers(w)'
    BY <1>3, <2>4, <2>5, <2>7 DEF Answers
  <2>9. Alive(w)' => Line(w)'
    BY <1>2, <1>3, <2>3, LineKept DEF Conv, Own, Duty
  <2>10. Leave(w)'
    BY <1>2, <1>3, <2>3, <2>4, LeaveKept DEF Conv, Own
  <2>11. ASSUME Alive(w)' PROVE Phase(w)'
    <3>1. Phase(w) /\ wpc[w] \notin {"cmd", "ready"} /\ Len(CmdQ(w)) = 0
      BY <1>2, <1>3, <2>3, <2>11 DEF Alive, Conv, Phase
    <3>2. /\ InRun(w)' = InRun(w) /\ HasWork(w)' = HasWork(w) /\ First(w)' = First(w)
          /\ UNCHANGED <<CmdQ(w), ControlQ(w), TaskQ(w), InputQ(w)>>
      BY <1>2, <1>3 DEF InRun, HasWork, First, Downward
    <3>3. InRun(w)' => /\ (wrun[w] + Len(ControlQ(w)) + First(w) = CtlSent(w) + 1)'
                       /\ (wrun[w] + Len(TaskQ(w))
                             = EndSent(w) + (IF HasWork(w) THEN 2 ELSE 1))'
      BY <1>2, <2>3, <2>4, <3>1, <3>2 DEF Phase
    <3> QED
      BY <1>2, <1>3, <2>3, <2>4, <2>5, <3>1, <3>2, <3>3 DEF Phase
  <2> QED
    BY <2>2, <2>4, <2>8, <2>9, <2>10, <2>11 DEF Conv
<1> QED
  BY <1>1, <1>5, <1>6 DEF ReceiveReady

LEMMA ReceiveResultConv ==
    ASSUME CInv, ReceiveResult
    PROVE  \A v \in Worker : Conv(v)'
<1>1. PICK w \in Worker : w = idx
  BY DEF CInv, IInv, MasterInv, MasterOK
<1>2. /\ IInv /\ mpc = "poll" /\ Arrived(w, "RESULT") /\ MasterTake(w, "RESULT") /\ busy[w]
      /\ UNCHANGED <<run, busy, assigned, faults, wpc, wrun, wtask, wok, wcode>>
  BY <1>1 DEF CInv, ReceiveResult, tasks, worker
<1>3. /\ \A v \in Worker \ {w} : UNCHANGED <<Downward(v), Upward(v)>>
      /\ UNCHANGED <<Downward(w), ReadyQ(w), OutputQ(w), wSendCtr>>
      /\ Len(ResultQ(w)') = Len(ResultQ(w)) - 1 /\ Len(ResultQ(w)) > 0
      /\ MasterOpens(w, "RESULT") =>
            recvCtr'[w] = IF Encrypt THEN recvCtr[w] + 1 ELSE recvCtr[w]
  BY <1>2, MasterTook, Tags DEF ReadyQ, ResultQ, OutputQ
<1>4. \A v \in Worker : Downward(v)' = Downward(v)
  BY <1>3
<1>5. CASE MasterExit(1)
  BY <1>2, <1>4, <1>5, ExitKept DEF CInv, Conversation, MasterExit, Own, Duty
<1>6. CASE MasterOpens(w, "RESULT") /\ mpc' = "output" /\ idx' = idx
  <2>1. ASSUME NEW v \in Worker, v # w PROVE Conv(v)'
    <3>1. UNCHANGED Position(v)
      BY <1>1, <1>2, <1>6, <2>1 DEF Position, CtlSent, EndSent, Unasked, Starting, HeaderSent,
         Reading, Ending, Dismissed
    <3> QED
      BY <1>2, <1>3, <1>6, <2>1, <3>1, ConvKept DEF CInv, Conversation, Own, Duty
  <2>2. /\ Conv(w) /\ ~Unasked(w) /\ ~Starting(w) /\ ~HeaderSent(w)
        /\ EndSent(w) = run - 1 /\ CtlSent(w) = run /\ ~Ending(w) /\ ~Dismissed(w)
    BY <1>1, <1>2 DEF CInv, Conversation, Unasked, Starting, HeaderSent, EndSent,
       CtlSent, Ending, Dismissed
  <2>3. /\ ~Unasked(w)' /\ ~Starting(w)' /\ ~HeaderSent(w)' /\ Reading(w)'
        /\ EndSent(w)' = run - 1 /\ CtlSent(w)' = run /\ ~Ending(w)' /\ ~Dismissed(w)'
        /\ mpc' # "exited"
    BY <1>1, <1>2, <1>6 DEF Unasked, Starting, Reading, HeaderSent, EndSent, CtlSent, Ending,
       Dismissed
  <2>4. Answers(w) /\ Len(ReadyQ(w)) = 0 /\ Len(ResultQ(w)) = 1
    BY <1>2, <1>3, <2>2, ViewTypes, SMTT(40) DEF Conv, Answers
  <2>5. Behind(w)' = IF Encrypt THEN Behind(w) - 1 ELSE Behind(w)
    BY <1>2, <1>3, <2>4, ViewTypes DEF Behind
  <2>6. wSendCtr'[w] = recvCtr'[w] + Behind(w)'
    <3>1. Behind(w) \in Nat
      BY <1>2, ViewTypes DEF Behind
    <3>2. wSendCtr[w] = recvCtr[w] + Behind(w) /\ recvCtr[w] \in Nat
      BY <1>2, <2>4, ViewTypes DEF Answers
    <3> QED
      BY <1>3, <1>6, <2>5, <3>1, <3>2
  <2>7. Answers(w)'
    <3>1. Encrypt /\ Len(OutputQ(w)') > 0 =>
             OutputQ(w)'[1].ctr = recvCtr'[w] + Len(ResultQ(w)')
      BY <1>2, <1>3, <1>6, <2>4, ViewTypes, SMTT(40) DEF Answers
    <3> QED
      BY <1>2, <1>3, <2>3, <2>4, <2>6, <3>1 DEF Answers
  <2>8. Alive(w)' => Line(w)'
    BY <1>2, <1>3, <2>2, LineKept DEF Conv, Own, Duty
  <2>9. Leave(w)'
    BY <1>2, <1>3, <1>6, <2>2, <2>3, LeaveKept DEF Conv, Own
  <2>10. ASSUME Alive(w)' PROVE Phase(w)'
    <3>1. Phase(w) /\ ~HasWork(w) /\ wpc[w] \notin {"input", "result"}
      BY <1>2, <1>3, <2>2, <2>10 DEF Alive, Conv, Phase
    <3>2. /\ InRun(w)' = InRun(w) /\ HasWork(w)' = HasWork(w) /\ First(w)' = First(w)
          /\ UNCHANGED <<CmdQ(w), ControlQ(w), TaskQ(w), InputQ(w)>>
      BY <1>2, <1>3 DEF InRun, HasWork, First, Downward
    <3>3. InRun(w)' => /\ (wrun[w] + Len(ControlQ(w)) + First(w) = CtlSent(w) + 1)'
                       /\ (wrun[w] + Len(TaskQ(w))
                             = EndSent(w) + (IF HasWork(w) THEN 2 ELSE 1))'
      BY <1>2, <2>2, <2>3, <3>1, <3>2 DEF Phase
    <3>4. run \in Nat
      BY <1>1, <1>2, ViewTypes
    <3> QED
      BY <1>2, <1>3, <2>2, <2>3, <2>4, <3>1, <3>2, <3>3, <3>4 DEF Phase
  <2> QED
    BY <2>1, <2>3, <2>7, <2>8, <2>9, <2>10 DEF Conv
<1> QED
  BY <1>1, <1>5, <1>6 DEF ReceiveResult

LEMMA ReceiveOutputConv ==
    ASSUME CInv, ReceiveOutput
    PROVE  \A v \in Worker : Conv(v)'
<1>1. PICK w \in Worker : w = idx
  BY DEF CInv, IInv, MasterInv, MasterOK
<1>2. /\ IInv /\ mpc = "output" /\ Arrived(w, "OUTPUT") /\ MasterTake(w, "OUTPUT")
      /\ UNCHANGED <<run, assigned, faults, wpc, wrun, wtask, wok, wcode>>
  BY <1>1 DEF CInv, ReceiveOutput, worker
<1>3. /\ \A v \in Worker \ {w} : UNCHANGED <<Downward(v), Upward(v)>>
      /\ UNCHANGED <<Downward(w), ReadyQ(w), ResultQ(w), wSendCtr>>
      /\ Len(OutputQ(w)') = Len(OutputQ(w)) - 1 /\ Len(OutputQ(w)) > 0
      /\ MasterOpens(w, "OUTPUT") =>
            recvCtr'[w] = IF Encrypt THEN recvCtr[w] + 1 ELSE recvCtr[w]
  BY <1>2, MasterTook, Tags DEF ReadyQ, ResultQ, OutputQ
<1>4. \A v \in Worker : Downward(v)' = Downward(v)
  BY <1>3
<1>5. CASE MasterExit(1) /\ busy' = busy
  BY <1>2, <1>4, <1>5, ExitKept DEF CInv, Conversation, MasterExit, Own, Duty
<1>6. CASE /\ MasterOpens(w, "OUTPUT") /\ mpc' \in {"assign", "poll"}
           /\ busy' = [busy EXCEPT ![w] = FALSE]
  <2>1. ~busy'[w] /\ \A v \in Worker \ {w} : busy'[v] = busy[v]
    BY <1>2, <1>6 DEF IInv, MasterInv, MasterOK
  <2>2. ASSUME NEW v \in Worker, v # w PROVE Conv(v)'
    <3>1. UNCHANGED Position(v)
      BY <1>1, <1>2, <1>6, <2>2 DEF Position, CtlSent, EndSent, Unasked, Starting, HeaderSent,
         Reading, Ending, Dismissed
    <3> QED
      BY <1>2, <1>3, <1>6, <2>1, <2>2, <3>1, ConvKept DEF CInv, Conversation, Own, Duty
  <2>3. /\ Conv(w) /\ ~Unasked(w) /\ ~Starting(w) /\ ~HeaderSent(w) /\ Reading(w)
        /\ EndSent(w) = run - 1 /\ CtlSent(w) = run /\ ~Ending(w) /\ ~Dismissed(w)
    BY <1>1, <1>2 DEF CInv, Conversation, Unasked, Starting, HeaderSent, EndSent,
       CtlSent, Ending, Dismissed, Reading
  <2>4. /\ ~Unasked(w)' /\ ~Starting(w)' /\ ~HeaderSent(w)' /\ ~Reading(w)'
        /\ EndSent(w)' = run - 1 /\ CtlSent(w)' = run /\ ~Ending(w)' /\ ~Dismissed(w)'
        /\ mpc' # "exited"
    BY <1>1, <1>2, <1>6 DEF Unasked, Starting, Reading, HeaderSent, EndSent, CtlSent, Ending,
       Dismissed
  <2>5. /\ Answers(w) /\ Len(ReadyQ(w)) = 0 /\ Len(ResultQ(w)) = 0 /\ Len(OutputQ(w)) = 1
    BY <1>2, <1>3, <2>3, ViewTypes, SMTT(40) DEF Conv, Answers
  <2>6. Behind(w) = (IF Encrypt THEN 1 ELSE 0) /\ Behind(w)' = 0
    BY <1>3, <2>5 DEF Behind
  <2>7. wSendCtr'[w] = recvCtr'[w] + Behind(w)'
    BY <1>2, <1>3, <1>6, <2>5, <2>6, ViewTypes DEF Answers
  <2>8. Answers(w)'
    BY <1>3, <2>4, <2>5, <2>7 DEF Answers
  <2>9. Alive(w)' => Line(w)'
    <3>1. Alive(w) => Line(w)
      BY <2>3 DEF Conv
    <3>2. Alive(w)' = Alive(w) /\ InRun(w)' = InRun(w) /\ HasWork(w)' = HasWork(w)
      BY <1>2, <1>3 DEF Alive, InRun, HasWork, Downward
    <3> QED
      BY <1>2, <1>3, <3>1, <3>2 DEF Line, QueuesFit, TasksFit, ControlsFit, InputFits, WorkFits,
         CountersFit, Ahead, First, Downward
  <2>10. Leave(w)'
    BY <1>2, <1>3, <1>6, <2>3, <2>4, LeaveKept DEF Conv, Own
  <2>11. ASSUME Alive(w)' PROVE Phase(w)'
    <3>1. /\ Line(w) /\ Phase(w) /\ ~HasWork(w) /\ wpc[w] \notin Computing
      BY <1>2, <1>3, <2>3, <2>11 DEF Alive, Conv, Phase, Computing
    <3>2. Len(InputQ(w)) = 0
      BY <1>2, <3>1, ViewTypes DEF Line, QueuesFit, Computing
    <3>3. /\ InRun(w)' = InRun(w) /\ HasWork(w)' = HasWork(w) /\ First(w)' = First(w)
          /\ UNCHANGED <<CmdQ(w), ControlQ(w), TaskQ(w), InputQ(w)>>
      BY <1>2, <1>3 DEF InRun, HasWork, First, Downward
    <3>4. InRun(w)' => /\ (wrun[w] + Len(ControlQ(w)) + First(w) = CtlSent(w) + 1)'
                       /\ (wrun[w] + Len(TaskQ(w))
                             = EndSent(w) + (IF HasWork(w) THEN 2 ELSE 1))'
      BY <1>2, <2>3, <2>4, <3>1, <3>3 DEF Phase
    <3>5. run \in Nat
      BY <1>1, <1>2, ViewTypes
    <3> QED
      BY <1>2, <1>3, <2>3, <2>4, <2>5, <3>1, <3>2, <3>3, <3>4, <3>5 DEF Phase, Computing
  <2> QED
    BY <2>2, <2>4, <2>8, <2>9, <2>10, <2>11 DEF Conv
<1> QED
  BY <1>1, <1>5, <1>6, SweepStep DEF ReceiveOutput

\* The steps of the master that neither send nor receive.
LEMMA QuietConv ==
    ASSUME CInv, ScatterNothing \/ PollMiss \/ LeaveSweep \/ RecordResult
    PROVE  \A v \in Worker : Conv(v)'
<1>1. /\ UNCHANGED <<link, run, busy, assigned, faults, wpc, wrun, wtask, wok, wcode>>
      /\ IInv /\ idx \in Worker
  BY DEF CInv, ScatterNothing, PollMiss, LeaveSweep, RecordResult, tasks, worker, IInv,
     MasterInv, MasterOK
<1>2. \A v \in Worker : UNCHANGED <<Downward(v), Upward(v), Own(v), Duty(v)>>
  BY <1>1 DEF link, Downward, Upward, Own, Duty, CmdQ, ControlQ, TaskQ, InputQ, ReadyQ, ResultQ,
     OutputQ
<1>3. /\ \A v \in Worker : UNCHANGED Position(v)
      /\ mpc # "exited" /\ mpc' # "exited"
  <2>1. CASE ScatterNothing \/ PollMiss
    <3>1. mpc \in {"scatter", "poll"} /\ mpc' \in {"scatter", "poll"}
      BY <1>1, <2>1, LoopStep, SweepStep DEF ScatterNothing, PollMiss
    <3> QED
      BY <1>1, <3>1 DEF Position, CtlSent, EndSent, Unasked, Starting, HeaderSent, Reading,
         Ending, Dismissed
  <2>2. CASE LeaveSweep
    <3>1. mpc = "poll" /\ mpc' = "end" /\ idx = 0 /\ idx' = 0
      BY <2>2 DEF LeaveSweep, AllCompleted
    <3> QED
      BY <1>1, <3>1 DEF Position, CtlSent, EndSent, Unasked, Starting, HeaderSent, Reading,
         Ending, Dismissed, Worker
  <2>3. CASE RecordResult
    <3>1. mpc = "record" /\ mpc' \in {"run", "shutdown"} /\ idx = 0 /\ idx' = 0
      BY <2>3 DEF RecordResult, CInv, Conversation, Loops
    <3> QED
      BY <1>1, <3>1 DEF Position, CtlSent, EndSent, Unasked, Starting, HeaderSent, Reading,
         Ending, Dismissed, Worker
  <2> QED
    BY <2>1, <2>2, <2>3
<1> QED
  BY <1>1, <1>2, <1>3, ConvKept DEF CInv, Conversation

LEMMA StartRunConv ==
    ASSUME CInv, StartRun
    PROVE  \A v \in Worker : Conv(v)'
<1>1. /\ UNCHANGED <<link, idx, faults, wpc, wrun, wtask, wok, wcode>>
      /\ IInv /\ mpc = "run" /\ mpc' = "control" /\ run' = run + 1 /\ idx = 0
      /\ busy' = [v \in Worker |-> FALSE]
  BY DEF CInv, StartRun, worker, Conversation, Loops
<1>2. \A v \in Worker : UNCHANGED <<Downward(v), Upward(v), Own(v)>> /\ ~busy[v] /\ ~busy'[v]
  BY <1>1 DEF link, Downward, Upward, Own, CmdQ, ControlQ, TaskQ, InputQ, ReadyQ, ResultQ,
     OutputQ, IInv, MasterInv, Bookkeeping
<1>3. run \in Nat /\ run < NumRuns
  BY <1>1 DEF IInv, MasterInv, MasterOK, Bookkeeping
<1> SUFFICES ASSUME NEW w \in Worker PROVE Conv(w)'
  OBVIOUS
<1>4. /\ Conv(w) /\ ~Unasked(w) /\ ~Starting(w) /\ ~HeaderSent(w) /\ ~Reading(w)
      /\ EndSent(w) = run /\ CtlSent(w) = run /\ ~Ending(w) /\ ~Dismissed(w)
  BY <1>1 DEF CInv, Conversation, Unasked, Starting, HeaderSent, EndSent,
     CtlSent, Ending, Dismissed, Reading
<1>5. /\ ~Unasked(w)' /\ ~Starting(w)' /\ ~HeaderSent(w)' /\ ~Reading(w)'
      /\ EndSent(w)' = run /\ CtlSent(w)' = run /\ ~Ending(w)' /\ ~Dismissed(w)'
      /\ mpc' # "exited"
  BY <1>1, <1>3 DEF Unasked, Starting, Reading, HeaderSent, EndSent, CtlSent, Ending, Dismissed,
     Worker
<1>6. Answers(w) /\ Len(ReadyQ(w)) = 0 /\ Len(ResultQ(w)) = 0 /\ Len(OutputQ(w)) = 0
  BY <1>1, <1>2, <1>4, NoAnswers DEF Conv
<1>7. Answers(w)'
  BY <1>2, <1>5, <1>6 DEF Answers, Upward, Behind
<1>8. Leave(w)'
  BY <1>1, <1>2, <1>4, <1>5, LeaveKept DEF Conv
<1>9. ASSUME Alive(w)'
      PROVE  /\ Line(w) /\ Phase(w) /\ InRun(w) /\ ~HasWork(w)
             /\ Len(CmdQ(w)) = 0 /\ Len(InputQ(w)) = 0
  <2>1. Line(w) /\ Phase(w) /\ Alive(w)
    BY <1>1, <1>4, <1>9 DEF Alive, Conv
  <2>2. wpc[w] \notin {"cmd", "ready"} \cup Computing /\ ~HasWork(w)
    BY <1>2, <1>3, <1>4, <2>1 DEF Phase, Computing
  <2>3. InRun(w)
    BY <1>1, <2>1, <2>2, ViewTypes DEF InRun, Alive, WorkerAt, Computing
  <2> QED
    BY <1>1, <1>2, <1>4, <2>1, <2>2, <2>3, ViewTypes, SMTT(40) DEF Phase
<1>10. /\ UNCHANGED <<CmdQ(w), ControlQ(w), TaskQ(w), InputQ(w), sendCtr[w], wRecvCtr[w]>>
       /\ UNCHANGED <<wpc[w], wrun[w]>>
  BY <1>2 DEF Downward, Own
<1>11. InRun(w)' = InRun(w) /\ HasWork(w)' = HasWork(w) /\ First(w)' = First(w)
  BY <1>10 DEF InRun, HasWork, First
<1>12. ASSUME Alive(w)' PROVE Line(w)'
  <2>1. \A i \in 1 .. Len(TaskQ(w)) : TaskQ(w)[i].body.kind = "end"
    BY <1>1, <1>9, <1>12, ViewTypes, SMTT(40) DEF Line, TasksFit, HasWork
  <2>2. TasksFit(w)'
    BY <1>1, <1>3, <1>9, <1>10, <1>12, <2>1, TaskFrames DEF Line, TasksFit
  <2>3. ControlsFit(w)'
    BY <1>1, <1>3, <1>9, <1>10, <1>11, <1>12, TaskFrames DEF Line, ControlsFit
  <2>4. QueuesFit(w)' /\ InputFits(w)' /\ WorkFits(w)'
    BY <1>9, <1>10, <1>11, <1>12 DEF Line, QueuesFit, InputFits, WorkFits, InRun, Computing
  <2>5. CountersFit(w)'
    BY <1>9, <1>10, <1>11, <1>12 DEF Line, CountersFit, Ahead
  <2> QED
    BY <2>2, <2>3, <2>4, <2>5 DEF Line
<1>13. ASSUME Alive(w)' PROVE Phase(w)'
  <2>1. InRun(w)' => /\ (wrun[w] + Len(ControlQ(w)) + First(w) = CtlSent(w) + 1)'
                     /\ (wrun[w] + Len(TaskQ(w))
                           = EndSent(w) + (IF HasWork(w) THEN 2 ELSE 1))'
    BY <1>4, <1>5, <1>9, <1>10, <1>11, <1>13 DEF Phase
  <2>2. Len(ReadyQ(w)') = 0 /\ Len(ResultQ(w)') = 0 /\ Len(OutputQ(w)') = 0
    BY <1>2, <1>6 DEF Upward
  <2> QED
    BY <1>5, <1>9, <1>10, <1>11, <1>13, <2>1, <2>2 DEF Phase, InRun
<1> QED
  BY <1>5, <1>7, <1>8, <1>12, <1>13 DEF Conv

\* A wait that fails ends the master.
LEMMA MasterFailsConv ==
    ASSUME CInv, MasterDeadline \/ PeerLost
    PROVE  \A v \in Worker : Conv(v)'
<1>1. /\ UNCHANGED <<link, run, busy, assigned, faults, wpc, wrun, wtask, wok, wcode>>
      /\ mpc' = "exited" /\ mcode' # 0
  BY DEF MasterDeadline, PeerLost, MasterExit, tasks, worker
<1>2. \A v \in Worker : UNCHANGED <<Downward(v), Own(v), Duty(v)>>
  BY <1>1 DEF link, Downward, Own, Duty, CmdQ, ControlQ, TaskQ, InputQ
<1> QED
  BY <1>1, <1>2, ExitKept DEF CInv, Conversation

\* The disconnect with the last worker ends the master with the exit code 0.
LEMMA DisconnectConv ==
    ASSUME CInv, NEW w \in Worker, Disconnect(w)
    PROVE  \A v \in Worker : Conv(v)'
<1>1. /\ UNCHANGED <<link, run, busy, assigned, mcode, faults, wrun, wtask, wok, wcode>>
      /\ IInv /\ mpc = "disconnect" /\ idx = w /\ wpc[w] = "disconnect"
      /\ wpc' = [wpc EXCEPT ![w] = "exited"] /\ NextWorker("shutdown", "exited")
  BY DEF CInv, Disconnect, tasks, WorkerGoto
<1>2. \/ mpc' = "shutdown" /\ idx' = w + 1
      \/ mpc' = "exited" /\ w = N - 1
  BY <1>1, LoopStep
<1>3. /\ wpc'[w] = "exited" /\ \A v \in Worker \ {w} : wpc'[v] = wpc[v]
  BY <1>1 DEF IInv, WorkerOK
<1>4. \A v \in Worker : UNCHANGED <<Downward(v), Upward(v), Duty(v)>> /\ net'[v] = net[v]
  BY <1>1 DEF link, Downward, Upward, Duty, CmdQ, ControlQ, TaskQ, InputQ, ReadyQ, ResultQ,
     OutputQ
<1>5. \A v \in Worker \ {w} : UNCHANGED Own(v)
  BY <1>1, <1>3 DEF Own
<1>6. ASSUME NEW v \in Worker PROVE UpEmpty(v) /\ UpEmpty(v)'
  <2>1. ~busy[v] /\ ~Starting(v) /\ mpc # "exited"
    BY <1>1 DEF CInv, Conversation, Loops, Starting
  <2>2. Len(ReadyQ(v)) = 0 /\ Len(ResultQ(v)) = 0 /\ Len(OutputQ(v)) = 0
    BY <2>1, NoAnswers
  <2> QED
    BY <1>4, <2>2, Tags DEF UpEmpty, ReadyQ, ResultQ, OutputQ
<1>7. ASSUME NEW v \in Worker PROVE Conv(v) /\ (DownIntact(v)' <=> DownIntact(v))
                                    /\ (DownEmpty(v)' <=> DownEmpty(v))
  BY <1>4 DEF CInv, Conversation, DownIntact, DownEmpty
<1>8. Conv(w)'
  <2>1. Leave(w) /\ Answers(w)
    BY <1>1, <1>7 DEF Conv
  <2>2. wcode[w] = 0 /\ wcode'[w] = 0
    BY <1>1, <2>1 DEF Leave, Gone
  <2>3. mpc' = "exited" \/ (Ending(w)' /\ Dismissed(w)')
    BY <1>2 DEF Ending, Dismissed, Worker
  <2>4. Leave(w)'
    BY <1>1, <1>3, <1>6, <1>7, <2>1, <2>2, <2>3 DEF Leave, Gone
  <2>5. Answers(w)'
    <3>1. ~Starting(w) /\ ~Starting(w)' /\ ~Reading(w) /\ ~Reading(w)'
      BY <1>1, <1>2 DEF Starting, Reading
    <3>2. UNCHANGED <<busy[w]>>
      BY <1>1
    <3> QED
      BY <1>4, <2>1, <3>1, <3>2 DEF Answers, Upward, Behind
  <2> QED
    BY <1>3, <2>4, <2>5 DEF Conv, Alive
<1>9. ASSUME NEW v \in Worker, v # w PROVE Conv(v)'
  <2>1. CASE mpc' = "shutdown" /\ idx' = w + 1
    <3>1. UNCHANGED Position(v)
      BY <1>1, <1>9, <2>1 DEF Position, CtlSent, EndSent, Unasked, Starting, HeaderSent,
         Reading, Ending, Dismissed, Worker
    <3> QED
      BY <1>1, <1>4, <1>5, <1>7, <1>9, <2>1, <3>1, ConvKept
  <2>2. CASE mpc' = "exited" /\ w = N - 1
    <3>1. Dismissed(v) /\ ~Dismissed(v)'
      BY <1>1, <1>9, <2>2 DEF Dismissed, Worker
    <3>2. Gone(v) /\ wcode[v] = 0 /\ Leave(v)
      BY <1>7, <3>1 DEF Conv, Leave
    <3>3. Gone(v)' /\ wcode'[v] = 0
      BY <1>1, <1>3, <1>9, <3>2 DEF Gone
    <3>4. Leave(v)'
      BY <1>1, <1>6, <1>7, <2>2, <3>1, <3>2, <3>3 DEF Leave
    <3>5. ~Alive(v)'
      BY <3>3 DEF Alive, Gone
    <3> QED
      BY <2>2, <3>4, <3>5 DEF Conv
  <2> QED
    BY <1>2, <2>1, <2>2
<1> QED
  BY <1>8, <1>9

(* The steps of a worker: the master and the other workers stay as they are. *)

LEMMA PositionKept ==
    ASSUME UNCHANGED master, NEW v \in Worker
    PROVE  /\ UNCHANGED <<Position(v), Duty(v), run, mpc, mcode>>
           /\ (Ending(v)' <=> Ending(v)) /\ (Dismissed(v)' <=> Dismissed(v))
           /\ (Starting(v)' <=> Starting(v)) /\ (Unasked(v)' <=> Unasked(v))
           /\ (Reading(v)' <=> Reading(v)) /\ (HeaderSent(v)' <=> HeaderSent(v))
           /\ CtlSent(v)' = CtlSent(v) /\ EndSent(v)' = EndSent(v)
           /\ (busy[v])' = busy[v] /\ (assigned[v])' = assigned[v]
  BY DEF master, Duty, Position, CtlSent, EndSent, Unasked, Starting, HeaderSent, Reading,
     Ending, Dismissed

LEMMA OthersKept ==
    ASSUME CInv, NEW w \in Worker, UNCHANGED master, faults' = faults \/ faults' # 0,
           \A v \in Worker \ {w} : UNCHANGED <<Downward(v), Upward(v), Own(v)>>
    PROVE  \A v \in Worker \ {w} : Conv(v)'
<1> SUFFICES ASSUME NEW v \in Worker \ {w} PROVE Conv(v)'
  OBVIOUS
<1>1. UNCHANGED <<Position(v), Duty(v), run, mpc, mcode>>
  BY PositionKept
<1> QED
  BY <1>1, ConvKept DEF CInv, Conversation

\* What w expects next opens, unless it was damaged.
LEMMA Opened ==
    ASSUME CInv, NEW w \in Worker, NEW t \in DownTag, Arrived(w, t), faults = 0,
           t \notin PlainTag => net[w][t][1].ctr = wRecvCtr[w]
    PROVE  WorkerOpens(w, t)
<1>1. LinkOK /\ t \in AnyTag /\ Len(net[w][t]) > 0 /\ Head(net[w][t]) = net[w][t][1]
  BY QueueTypes DEF CInv, IInv, AnyTag
<1>2. DownIntact(w)
  BY DEF CInv, Conversation, Conv, Leave
<1>3. Len(net[w][t]) \in Nat
  BY <1>1, QueueTypes
<1>4. net[w][t][1].intact
  BY <1>1, <1>2, <1>3 DEF DownIntact
<1> QED
  BY <1>1, <1>4 DEF WorkerOpens, Opens

\* A worker that gives up or dies.
LEMMA FailureKept ==
    ASSUME CInv, NEW w \in Worker, ~Gone(w), UNCHANGED master, mpc # "exited" => Answers(w)',
           \/ wpc'[w] = "disconnect" /\ wcode'[w] = wcode[w] /\ faults' # 0
           \/ wpc'[w] = "exited" /\ wcode'[w] # 0 /\ faults' # 0
           \/ wpc'[w] = "exited" /\ wcode'[w] # 0 /\ faults' = faults /\ Downward(w)' = Downward(w)
    PROVE  Conv(w)'
<1>1. Leave(w) /\ ~Alive(w)'
  BY DEF CInv, Conversation, Conv, Alive
<1>2. UNCHANGED <<mpc, mcode>> /\ (Dismissed(w)' <=> Dismissed(w))
  BY PositionKept
<1>3. faults' = 0 => DownIntact(w)'
  <2>1. SUFFICES ASSUME faults' = 0 PROVE DownIntact(w)'
    OBVIOUS
  <2>2. faults = 0 /\ UNCHANGED Downward(w)
    BY <2>1
  <2>3. \A t \in DownTag : net'[w][t] = net[w][t]
    BY <2>2, Tags DEF Downward, CmdQ, ControlQ, TaskQ, InputQ
  <2> QED
    BY <1>1, <2>2, <2>3 DEF Leave, DownIntact
<1>4. Leave(w)'
  BY <1>1, <1>2, <1>3 DEF Leave, Gone
<1> QED
  BY <1>1, <1>2, <1>4 DEF Conv

\* A worker that goes on.
LEMMA StaysKept ==
    ASSUME CInv, NEW w \in Worker, Alive(w), Alive(w)', UNCHANGED <<master, wcode[w], faults>>,
           DownIntact(w) => DownIntact(w)'
    PROVE  Leave(w)'
<1>1. Leave(w) /\ ~Gone(w) /\ ~Gone(w)' /\ wpc'[w] # "disconnect"
  BY DEF CInv, Conversation, Conv, Alive, Gone
<1>2. UNCHANGED <<mpc, mcode>> /\ (Dismissed(w)' <=> Dismissed(w))
  BY PositionKept
<1> QED
  BY <1>1, <1>2 DEF Leave

LEMMA CrashConv ==
    ASSUME CInv, NEW w \in Worker, WorkerDeadline(w) \/ MasterLost(w) \/ Kill(w)
    PROVE  \A v \in Worker : Conv(v)'
<1>1. /\ IInv /\ ~Gone(w) /\ UNCHANGED <<link, master, wrun, wtask, wok>>
      /\ wpc' = [wpc EXCEPT ![w] = "exited"]
      /\ \E c \in {1, 124, 137} : wcode' = [wcode EXCEPT ![w] = c]
      /\ faults' = faults \/ faults' = faults + 1
  BY DEF CInv, WorkerDeadline, MasterLost, Kill, WorkerGoto
<1>2. /\ wpc'[w] = "exited" /\ wcode'[w] # 0
      /\ \A v \in Worker \ {w} : wpc'[v] = wpc[v] /\ wcode'[v] = wcode[v]
  BY <1>1 DEF IInv, WorkerOK
<1>3. \A v \in Worker : UNCHANGED <<Downward(v), Upward(v)>>
  BY <1>1 DEF link, Downward, Upward, CmdQ, ControlQ, TaskQ, InputQ, ReadyQ, ResultQ, OutputQ
<1>4. faults' = faults \/ faults' # 0
  BY <1>1 DEF IInv, WorkerOK
<1>5. \A v \in Worker \ {w} : Conv(v)'
  BY <1>1, <1>2, <1>3, <1>4, OthersKept DEF Own
<1>6. mpc # "exited" => Answers(w)'
  BY <1>1, <1>3, PositionKept, AnswersKept DEF CInv, Conversation, Conv
<1>7. Conv(w)'
  BY <1>1, <1>2, <1>3, <1>4, <1>6, FailureKept
<1> QED
  BY <1>5, <1>7

\* Damage changes neither what a message says nor its counter.
LEMMA DamageConv ==
    ASSUME CInv, NEW w \in Worker, NEW t \in AnyTag, Damage(w, t)
    PROVE  \A v \in Worker : Conv(v)'
<1>1. /\ IInv /\ LinkOK /\ DamageFrame(w, t) /\ UNCHANGED master /\ UNCHANGED worker
      /\ faults' = faults + 1
  BY DEF CInv, Damage, IInv
<1>2. UNCHANGED master /\ UNCHANGED <<sendCtr, recvCtr, wSendCtr, wRecvCtr>>
  BY <1>1 DEF DamageFrame
<1>3. faults' # 0
  BY <1>1 DEF IInv, WorkerOK
<1> SUFFICES ASSUME NEW v \in Worker PROVE Conv(v)'
  OBVIOUS
<1>4. \A s \in AnyTag :
         /\ Len(net'[v][s]) = Len(net[v][s])
         /\ \A i \in 1 .. Len(net[v][s]) :
               net'[v][s][i].ctr = net[v][s][i].ctr /\ net'[v][s][i].body = net[v][s][i].body
  BY <1>1, Damaged
<1>5. /\ Len(CmdQ(v)') = Len(CmdQ(v)) /\ Len(ControlQ(v)') = Len(ControlQ(v))
      /\ Len(TaskQ(v)') = Len(TaskQ(v)) /\ Len(InputQ(v)') = Len(InputQ(v))
      /\ Len(ReadyQ(v)') = Len(ReadyQ(v)) /\ Len(ResultQ(v)') = Len(ResultQ(v))
      /\ Len(OutputQ(v)') = Len(OutputQ(v))
  BY <1>4, Tags DEF CmdQ, ControlQ, TaskQ, InputQ, ReadyQ, ResultQ, OutputQ
<1>6. /\ \A i \in 1 .. Len(TaskQ(v)) :
            TaskQ(v)'[i].ctr = TaskQ(v)[i].ctr /\ TaskQ(v)'[i].body = TaskQ(v)[i].body
      /\ \A i \in 1 .. Len(ControlQ(v)) :
            ControlQ(v)'[i].ctr = ControlQ(v)[i].ctr /\ ControlQ(v)'[i].body = ControlQ(v)[i].body
      /\ \A i \in 1 .. Len(CmdQ(v)) :
            CmdQ(v)'[i].ctr = CmdQ(v)[i].ctr /\ CmdQ(v)'[i].body = CmdQ(v)[i].body
      /\ \A i \in 1 .. Len(InputQ(v)) :
            InputQ(v)'[i].ctr = InputQ(v)[i].ctr /\ InputQ(v)'[i].body = InputQ(v)[i].body
  BY <1>4, Tags DEF TaskQ, ControlQ, CmdQ, InputQ
<1>7. /\ \A i \in 1 .. Len(ReadyQ(v)) : ReadyQ(v)'[i].ctr = ReadyQ(v)[i].ctr
      /\ \A i \in 1 .. Len(ResultQ(v)) : ResultQ(v)'[i].ctr = ResultQ(v)[i].ctr
      /\ \A i \in 1 .. Len(OutputQ(v)) : OutputQ(v)'[i].ctr = OutputQ(v)[i].ctr
  BY <1>4, Tags DEF ReadyQ, ResultQ, OutputQ
<1>8. /\ UNCHANGED <<wpc[v], wrun[v], wtask[v], wok[v], wcode[v], busy[v], assigned[v], run>>
      /\ UNCHANGED <<mpc, mcode>> /\ Conv(v)
  BY <1>1 DEF worker, master, CInv, Conversation
<1>9. /\ Len(CmdQ(v)) \in Nat /\ Len(TaskQ(v)) \in Nat /\ Len(InputQ(v)) \in Nat
      /\ Len(ReadyQ(v)) \in Nat /\ Len(ResultQ(v)) \in Nat /\ Len(OutputQ(v)) \in Nat
  BY <1>1, ViewTypes
<1>10. /\ Len(CmdQ(v)) > 0 =>
              CmdQ(v)'[1].ctr = CmdQ(v)[1].ctr /\ CmdQ(v)'[1].body = CmdQ(v)[1].body
       /\ Len(InputQ(v)) > 0 =>
              InputQ(v)'[1].ctr = InputQ(v)[1].ctr /\ InputQ(v)'[1].body = InputQ(v)[1].body
       /\ Len(ReadyQ(v)) > 0 => ReadyQ(v)'[1].ctr = ReadyQ(v)[1].ctr
       /\ Len(ResultQ(v)) > 0 => ResultQ(v)'[1].ctr = ResultQ(v)[1].ctr
       /\ Len(OutputQ(v)) > 0 => OutputQ(v)'[1].ctr = OutputQ(v)[1].ctr
  BY ONLY <1>9, <1>6, <1>7
<1>11. /\ Alive(v)' = Alive(v) /\ InRun(v)' = InRun(v) /\ First(v)' = First(v)
       /\ HasWork(v)' <=> HasWork(v)
  <2>1. Alive(v)' = Alive(v) /\ InRun(v)' = InRun(v) /\ First(v)' = First(v)
    BY <1>8 DEF Alive, InRun, First
  <2>2. CASE Len(TaskQ(v)) > 0
    <3>1. Len(TaskQ(v)) \in 1 .. Len(TaskQ(v))
      BY <1>9, <2>2
    <3> QED
      BY <1>5, <1>6, <2>1, <3>1 DEF HasWork
  <2>3. CASE ~(Len(TaskQ(v)) > 0)
    BY <1>5, <2>1, <2>3 DEF HasWork
  <2> QED
    BY <2>2, <2>3
<1>12. ASSUME Line(v) PROVE Line(v)'
  <2>1. QueuesFit(v)'
    BY <1>5, <1>8, <1>11, <1>12 DEF Line, QueuesFit
  <2>2. TasksFit(v)'
    BY <1>5, <1>6, <1>8, <1>12, SMTT(40) DEF Line, TasksFit
  <2>3. ControlsFit(v)'
    BY <1>5, <1>6, <1>8, <1>11, <1>12 DEF Line, ControlsFit
  <2>4. InputFits(v)' /\ WorkFits(v)'
    BY <1>5, <1>8, <1>12, <1>10 DEF Line, InputFits, WorkFits
  <2>5. CountersFit(v)'
    BY <1>2, <1>5, <1>6, <1>8, <1>11, <1>12, <1>10 DEF Line, CountersFit, Ahead
  <2> QED
    BY <2>1, <2>2, <2>3, <2>4, <2>5 DEF Line
<1>13. ASSUME Phase(v) PROVE Phase(v)'
  <2>1. InRun(v)' => /\ (wrun[v] + Len(ControlQ(v)) + First(v) = CtlSent(v) + 1)'
                     /\ (wrun[v] + Len(TaskQ(v))
                           = EndSent(v) + (IF HasWork(v) THEN 2 ELSE 1))'
    BY <1>2, <1>5, <1>8, <1>11, <1>13, PositionKept DEF Phase
  <2> QED
    BY <1>2, <1>5, <1>8, <1>11, <1>13, <1>10, <2>1, PositionKept DEF Phase
<1>14. ASSUME Answers(v) PROVE Answers(v)'
  BY <1>2, <1>5, <1>8, <1>14, <1>10, PositionKept DEF Answers, Behind
<1>15. Leave(v)'
  <2>1. UpEmpty(v)' <=> UpEmpty(v)
    BY <1>5, Tags DEF UpEmpty, ReadyQ, ResultQ, OutputQ
  <2> QED
    BY <1>2, <1>8, <1>3, <2>1, PositionKept DEF Conv, Leave, Gone
<1> QED
  BY <1>8, <1>11, <1>12, <1>13, <1>14, <1>15 DEF Conv

LEMMA ReceiveCommandConv ==
    ASSUME CInv, NEW w \in Worker, ReceiveCommand(w)
    PROVE  \A v \in Worker : Conv(v)'
<1>1. /\ IInv /\ wpc[w] = "cmd" /\ Arrived(w, "CMD") /\ WorkerTake(w, "CMD")
      /\ UNCHANGED <<wrun, wtask, wok, wcode, faults>> /\ UNCHANGED master
      /\ wpc' = [wpc EXCEPT ![w] = IF WorkerOpens(w, "CMD") /\ Got(w, "CMD").kind = "start"
                                   THEN "ready" ELSE "disconnect"]
  BY DEF CInv, ReceiveCommand, WorkerGoto
<1>2. /\ \A v \in Worker \ {w} : UNCHANGED <<Downward(v), Upward(v)>>
      /\ UNCHANGED <<Upward(w), sendCtr, ControlQ(w), TaskQ(w), InputQ(w)>>
      /\ Len(CmdQ(w)') = Len(CmdQ(w)) - 1 /\ Len(CmdQ(w)) > 0 /\ Head(CmdQ(w)) = CmdQ(w)[1]
      /\ WorkerOpens(w, "CMD") => wRecvCtr'[w] = wRecvCtr[w] + 1
  BY <1>1, WorkerTook, Tags DEF CmdQ, ControlQ, TaskQ, InputQ
<1>3. /\ wpc'[w] = IF WorkerOpens(w, "CMD") /\ Got(w, "CMD").kind = "start"
                   THEN "ready" ELSE "disconnect"
      /\ \A v \in Worker \ {w} : wpc'[v] = wpc[v]
  BY <1>1 DEF IInv, WorkerOK
<1>4. \A v \in Worker \ {w} : Conv(v)'
  BY <1>1, <1>2, <1>3, OthersKept DEF Own
<1>5. /\ Alive(w) /\ Line(w) /\ Leave(w) /\ ~Gone(w)
      /\ mpc # "exited" => Phase(w) /\ Answers(w)
  BY <1>1 DEF CInv, Conversation, Conv, Alive, Gone
<1>6. /\ Len(CmdQ(w)) = 1 /\ Len(ControlQ(w)) = 0 /\ Len(TaskQ(w)) = 0 /\ Len(InputQ(w)) = 0
      /\ CmdQ(w)[1].ctr = wRecvCtr[w] /\ sendCtr[w] = wRecvCtr[w] + 1
  <2>1. /\ Len(CmdQ(w)) = 1 /\ Len(ControlQ(w)) = 0 /\ Len(TaskQ(w)) = 0 /\ Len(InputQ(w)) = 0
    BY <1>1, <1>2, <1>5, ViewTypes, SMTT(40) DEF Line, QueuesFit, InRun
  <2>2. Ahead(w) = 1
    BY <2>1 DEF Ahead
  <2> QED
    BY <1>1, <1>2, <1>5, <2>1, <2>2, ViewTypes DEF Line, CountersFit
<1>7. mpc # "exited" => Answers(w)'
  BY <1>1, <1>2, <1>5, PositionKept, AnswersKept
<1>8. faults = 0 => WorkerOpens(w, "CMD")
  BY <1>1, <1>6, Opened, Tags DEF CmdQ
<1>9. CASE ~WorkerOpens(w, "CMD")
  <2>1. wpc'[w] = "disconnect" /\ faults' # 0 /\ wcode'[w] = wcode[w]
    BY <1>1, <1>3, <1>8, <1>9
  <2> QED
    BY <1>1, <1>4, <1>5, <1>7, <2>1, FailureKept
<1>10. CASE WorkerOpens(w, "CMD") /\ Got(w, "CMD").kind # "start"
  <2>1. wpc'[w] = "disconnect" /\ wcode'[w] = wcode[w] /\ wcode[w] = 0
    BY <1>1, <1>3, <1>5, <1>10 DEF Leave
  <2>2. DownEmpty(w)'
    BY <1>2, <1>6, Tags DEF DownEmpty, CmdQ, ControlQ, TaskQ, InputQ
  <2>3. mpc' = "exited" \/ Ending(w)'
    <3>1. Got(w, "CMD") = CmdQ(w)[1].body
      BY <1>2 DEF Got, CmdQ
    <3>2. mpc = "exited" \/ Ending(w)
      BY <1>2, <1>5, <1>10, <3>1 DEF Phase
    <3> QED
      BY <1>1, <3>2, PositionKept
  <2>4. DownIntact(w)'
    BY <2>2 DEF DownEmpty, DownIntact
  <2>5. Leave(w)'
    BY <1>1, <1>5, <2>1, <2>2, <2>3, <2>4, PositionKept DEF Leave, Gone
  <2>6. ~Alive(w)' /\ mpc' = mpc
    BY <1>1, <2>1, PositionKept DEF Alive
  <2>7. Conv(w)'
    BY <1>7, <2>5, <2>6 DEF Conv
  <2> QED
    BY <1>4, <2>7
<1>11. CASE WorkerOpens(w, "CMD") /\ Got(w, "CMD").kind = "start"
  <2>1. wpc'[w] = "ready" /\ Alive(w)' /\ ~InRun(w)' /\ ~HasWork(w)'
    BY <1>2, <1>3, <1>6, <1>11 DEF Alive, InRun, HasWork
  <2>2. /\ Len(CmdQ(w)') = 0 /\ Len(ControlQ(w)') = 0 /\ Len(TaskQ(w)') = 0
        /\ Len(InputQ(w)') = 0 /\ sendCtr'[w] = wRecvCtr'[w] /\ wRecvCtr'[w] \in Nat
    BY <1>1, <1>2, <1>6, <1>11, ViewTypes
  <2>3. QueuesFit(w)' /\ TasksFit(w)' /\ ControlsFit(w)' /\ InputFits(w)' /\ WorkFits(w)'
    BY <2>1, <2>2 DEF QueuesFit, TasksFit, ControlsFit, InputFits, WorkFits, Computing
  <2>4. CountersFit(w)'
    BY <2>2 DEF CountersFit, Ahead
  <2>5. Leave(w)'
    BY <1>1, <1>5, <2>1, StaysKept, TakenIntact, Tags
  <2>6. ASSUME mpc # "exited" PROVE Phase(w)'
    <3>1. Got(w, "CMD") = CmdQ(w)[1].body
      BY <1>2 DEF Got, CmdQ
    <3>2. Starting(w) /\ Len(ReadyQ(w)) = 0 /\ Len(ResultQ(w)) = 0 /\ Len(OutputQ(w)) = 0
          /\ ~Reading(w) /\ ~Unasked(w) /\ ~HeaderSent(w)
      <4>1. Starting(w)
        BY <1>2, <1>5, <1>11, <2>6, <3>1 DEF Phase
      <4>2. ~busy[w] /\ ~Reading(w) /\ ~Unasked(w) /\ ~HeaderSent(w)
        BY <1>1, <4>1 DEF Starting, Reading, Unasked, HeaderSent, IInv, MasterInv, Bookkeeping,
           MasterOK, Worker
      <4> QED
        BY <1>1, <1>5, <2>6, <4>1, <4>2, ViewTypes, SMTT(40) DEF Phase, Answers
    <3>3. Starting(w)' /\ Len(ReadyQ(w)') = 0 /\ Len(ResultQ(w)') = 0 /\ Len(OutputQ(w)') = 0
          /\ ~Reading(w)' /\ ~Unasked(w)' /\ ~HeaderSent(w)'
      BY <1>1, <1>2, <3>2, PositionKept DEF Upward
    <3> QED
      BY <2>1, <2>2, <3>3 DEF Phase
  <2>7. Line(w)' /\ mpc' = mpc
    BY <1>1, <2>3, <2>4, PositionKept DEF Line
  <2>8. Conv(w)'
    BY <1>7, <2>5, <2>6, <2>7 DEF Conv
  <2> QED
    BY <1>4, <2>8
<1> QED
  BY <1>9, <1>10, <1>11

LEMMA SetUpConv ==
    ASSUME CInv, NEW w \in Worker, NEW ok \in BOOLEAN, SetUp(w, ok)
    PROVE  \A v \in Worker : Conv(v)'
<1> DEFINE b == Msg("ready", 0, 0, ok)
<1>1. /\ IInv /\ wpc[w] = "ready" /\ WorkerSend(w, "READY", b)
      /\ wpc' = [wpc EXCEPT ![w] = IF ok THEN "control" ELSE "disconnect"]
      /\ wrun' = [wrun EXCEPT ![w] = 1]
      /\ UNCHANGED <<wtask, wok, wcode>> /\ UNCHANGED master
      /\ faults' = IF ok THEN faults ELSE faults + 1
  BY DEF CInv, SetUp, WorkerGoto
<1>2. b \in Body
  BY DEF Msg, Body, Kind
<1> HIDE DEF b
<1>3. /\ \A v \in Worker \ {w} : UNCHANGED <<Downward(v), Upward(v)>>
      /\ UNCHANGED <<Downward(w), recvCtr, ResultQ(w), OutputQ(w)>>
      /\ Len(ReadyQ(w)') = Len(ReadyQ(w)) + 1
      /\ ReadyQ(w)'[Len(ReadyQ(w)) + 1] = MakeFrame(wSendCtr[w], b)
      /\ wSendCtr'[w] = wSendCtr[w] + 1
  BY <1>1, <1>2, WorkerSent, Tags DEF ReadyQ, ResultQ, OutputQ
<1>4. /\ wpc'[w] = (IF ok THEN "control" ELSE "disconnect") /\ wrun'[w] = 1
      /\ \A v \in Worker \ {w} : wpc'[v] = wpc[v] /\ wrun'[v] = wrun[v]
      /\ faults' = faults \/ faults' # 0
      /\ ~ok => faults' # 0
  BY <1>1 DEF IInv, WorkerOK
<1>5. \A v \in Worker \ {w} : Conv(v)'
  BY <1>1, <1>3, <1>4, OthersKept DEF Own
<1>6. /\ Alive(w) /\ Line(w) /\ Leave(w) /\ ~Gone(w)
      /\ mpc # "exited" => Phase(w) /\ Answers(w)
  BY <1>1 DEF CInv, Conversation, Conv, Alive, Gone
<1>7. ASSUME mpc # "exited"
      PROVE  /\ Starting(w) /\ run = 0 /\ Len(ReadyQ(w)) = 0 /\ Len(ResultQ(w)) = 0
             /\ Len(OutputQ(w)) = 0 /\ CtlSent(w) = 0 /\ EndSent(w) = 0
             /\ ~Reading(w) /\ ~Unasked(w) /\ ~HeaderSent(w)
  <2>1. Starting(w)
    BY <1>1, <1>6, <1>7 DEF Phase
  <2>2. mpc \in {"cmd", "ready"} /\ ~busy[w] /\ ~Unasked(w)
    BY <1>1, <2>1 DEF Starting, Unasked, IInv, MasterInv, Bookkeeping, MasterOK, Worker
  <2>3. run = 0
    BY <2>2 DEF CInv, Conversation, Loops
  <2>4. CtlSent(w) = 0 /\ EndSent(w) = 0 /\ ~Reading(w) /\ ~HeaderSent(w)
    BY <2>2, <2>3 DEF CtlSent, EndSent, Reading, HeaderSent
  <2> QED
    BY <1>1, <1>6, <1>7, <2>1, <2>2, <2>3, <2>4, ViewTypes DEF Phase, Answers
<1>8. ASSUME mpc # "exited" PROVE Answers(w)'
  <2>1. /\ Len(ReadyQ(w)') = 1 /\ ReadyQ(w)'[1].ctr = wSendCtr[w]
        /\ Len(ResultQ(w)') = 0 /\ Len(OutputQ(w)') = 0
    BY <1>3, <1>7, <1>8 DEF MakeFrame
  <2>2. Behind(w) = 0 /\ Behind(w)' = 1
    BY <1>7, <1>8, <2>1 DEF Behind
  <2>3. wSendCtr[w] = recvCtr[w] /\ recvCtr'[w] = recvCtr[w] /\ recvCtr[w] \in Nat
    <3>1. wSendCtr[w] = recvCtr[w] + Behind(w)
      BY <1>6, <1>8 DEF Answers
    <3> QED
      BY <1>1, <1>3, <2>2, <3>1, ViewTypes, SMTT(40)
  <2>4. Starting(w)' /\ ~Reading(w)'
    BY <1>1, <1>7, <1>8, PositionKept
  <2>5. wSendCtr'[w] = recvCtr'[w] + Behind(w)'
    BY <1>3, <2>2, <2>3
  <2> QED
    BY <2>1, <2>3, <2>4, <2>5 DEF Answers
<1>9. CASE ~ok
  <2>1. wpc'[w] = "disconnect" /\ wcode'[w] = wcode[w] /\ faults' # 0
    BY <1>1, <1>4, <1>9
  <2> QED
    BY <1>1, <1>5, <1>6, <1>8, <2>1, FailureKept
<1>10. CASE ok
  <2>1. wpc'[w] = "control" /\ Alive(w)' /\ faults' = faults /\ InRun(w)' /\ First(w)' = 0
    BY <1>1, <1>4, <1>10 DEF Alive, InRun, First
  <2>2. /\ Len(CmdQ(w)) = 0 /\ Len(ControlQ(w)) = 0 /\ Len(TaskQ(w)) = 0
        /\ Len(InputQ(w)) = 0
    BY <1>1, <1>6, ViewTypes DEF Line, QueuesFit, InRun
  <2>3. Ahead(w) = 0
    BY <2>2 DEF Ahead
  <2>4. sendCtr[w] = wRecvCtr[w]
    BY <1>1, <1>6, <2>3, ViewTypes DEF Line, CountersFit
  <2>5. /\ Len(CmdQ(w)') = 0 /\ Len(ControlQ(w)') = 0 /\ Len(TaskQ(w)') = 0
        /\ Len(InputQ(w)') = 0 /\ sendCtr'[w] = wRecvCtr'[w] /\ wRecvCtr'[w] \in Nat
        /\ ~HasWork(w)'
    BY <1>1, <1>3, <2>2, <2>4, ViewTypes DEF Downward, HasWork
  <2>6. QueuesFit(w)' /\ TasksFit(w)' /\ ControlsFit(w)' /\ InputFits(w)' /\ WorkFits(w)'
    BY <2>1, <2>5 DEF QueuesFit, TasksFit, ControlsFit, InputFits, WorkFits, Computing
  <2>7. CountersFit(w)'
    BY <2>5 DEF CountersFit, Ahead
  <2>8. Leave(w)'
    <3>1. \A t \in DownTag : net'[w][t] = net[w][t]
      BY <1>3, Tags DEF Downward, CmdQ, ControlQ, TaskQ, InputQ
    <3> QED
      BY <1>1, <1>6, <2>1, <3>1, StaysKept DEF DownIntact
  <2>9. ASSUME mpc # "exited" PROVE Phase(w)'
    <3>1. /\ Len(ReadyQ(w)') = 1 /\ Len(ResultQ(w)') = 0 /\ Len(OutputQ(w)') = 0
          /\ CtlSent(w)' = 0 /\ EndSent(w)' = 0 /\ ~Reading(w)' /\ ~Unasked(w)' /\ ~HeaderSent(w)'
      BY <1>1, <1>3, <1>7, <2>9, PositionKept
    <3> QED
      BY <1>4, <2>1, <2>5, <3>1 DEF Phase
  <2>10. Line(w)' /\ mpc' = mpc
    BY <1>1, <2>6, <2>7, PositionKept DEF Line
  <2>11. Conv(w)'
    BY <1>8, <2>8, <2>9, <2>10 DEF Conv
  <2> QED
    BY <1>5, <2>11
<1> QED
  BY <1>9, <1>10

LEMMA ReceiveControlConv ==
    ASSUME CInv, NEW w \in Worker, ReceiveControl(w)
    PROVE  \A v \in Worker : Conv(v)'
<1>1. /\ IInv /\ wpc[w] = "control" /\ Arrived(w, "CONTROL") /\ WorkerTake(w, "CONTROL")
      /\ UNCHANGED <<wrun, wtask, wok, wcode, faults>> /\ UNCHANGED master
      /\ wpc' = [wpc EXCEPT ![w] = IF WorkerOpens(w, "CONTROL") /\ Got(w, "CONTROL").run = wrun[w]
                                   THEN "task" ELSE "disconnect"]
  BY DEF CInv, ReceiveControl, WorkerGoto
<1>2. /\ \A v \in Worker \ {w} : UNCHANGED <<Downward(v), Upward(v)>>
      /\ UNCHANGED <<Upward(w), sendCtr, CmdQ(w), TaskQ(w), InputQ(w)>>
      /\ Len(ControlQ(w)') = Len(ControlQ(w)) - 1 /\ Len(ControlQ(w)) > 0
      /\ \A i \in 1 .. Len(ControlQ(w)) - 1 : ControlQ(w)'[i] = ControlQ(w)[i + 1]
      /\ Head(ControlQ(w)) = ControlQ(w)[1]
      /\ WorkerOpens(w, "CONTROL") =>
            wRecvCtr'[w] = IF Encrypt THEN wRecvCtr[w] + 1 ELSE wRecvCtr[w]
  BY <1>1, WorkerTook, Tags DEF CmdQ, ControlQ, TaskQ, InputQ
<1>3. /\ wpc'[w] = IF WorkerOpens(w, "CONTROL") /\ Got(w, "CONTROL").run = wrun[w]
                   THEN "task" ELSE "disconnect"
      /\ \A v \in Worker \ {w} : wpc'[v] = wpc[v]
  BY <1>1 DEF IInv, WorkerOK
<1>4. \A v \in Worker \ {w} : Conv(v)'
  BY <1>1, <1>2, <1>3, OthersKept DEF Own
<1>5. /\ Alive(w) /\ Line(w) /\ Leave(w) /\ ~Gone(w) /\ InRun(w) /\ First(w) = 0
      /\ mpc # "exited" => Phase(w) /\ Answers(w)
  BY <1>1 DEF CInv, Conversation, Conv, Alive, Gone, InRun, First
<1>6. /\ Len(ControlQ(w)) \in Nat /\ Len(TaskQ(w)) \in Nat /\ wrun[w] \in Nat
      /\ wRecvCtr[w] \in Nat /\ 1 \in 1 .. Len(ControlQ(w))
  BY <1>1, <1>2, ViewTypes, SMTT(40)
<1>7. Got(w, "CONTROL").run = wrun[w]
  <2>1. Got(w, "CONTROL") = ControlQ(w)[1].body
    BY <1>2 DEF Got, ControlQ
  <2> QED
    BY <1>5, <1>6, <2>1 DEF Line, ControlsFit
<1>8. mpc # "exited" => Answers(w)'
  BY <1>1, <1>2, <1>5, PositionKept, AnswersKept
<1>9. faults = 0 => WorkerOpens(w, "CONTROL")
  <2>1. Encrypt => ControlQ(w)[1].ctr = wRecvCtr[w]
    BY <1>5, <1>6 DEF Line, CountersFit
  <2> QED
    BY <1>1, <2>1, Opened, Tags DEF ControlQ
<1>10. CASE ~WorkerOpens(w, "CONTROL")
  <2>1. wpc'[w] = "disconnect" /\ faults' # 0 /\ wcode'[w] = wcode[w]
    BY <1>1, <1>3, <1>9, <1>10
  <2> QED
    BY <1>1, <1>4, <1>5, <1>8, <2>1, FailureKept
<1>11. CASE WorkerOpens(w, "CONTROL")
  <2>1. /\ wpc'[w] = "task" /\ Alive(w)' /\ InRun(w)' /\ First(w)' = 1
        /\ wRecvCtr'[w] = IF Encrypt THEN wRecvCtr[w] + 1 ELSE wRecvCtr[w]
    BY <1>2, <1>3, <1>7, <1>11 DEF Alive, InRun, First
  <2>2. HasWork(w)' = HasWork(w)
    BY <1>2 DEF HasWork
  <2>3. QueuesFit(w)' /\ TasksFit(w)' /\ InputFits(w)' /\ WorkFits(w)'
    <3>1. UNCHANGED <<wrun[w], run, assigned[w]>>
      BY <1>1, PositionKept
    <3>2. QueuesFit(w)'
      BY <1>1, <1>2, <1>5, <2>1, <2>2 DEF Line, QueuesFit, Computing
    <3>3. TasksFit(w)'
      BY <1>2, <1>5, <3>1 DEF Line, TasksFit
    <3> QED
      BY <1>2, <1>5, <2>1, <3>1, <3>2, <3>3 DEF Line, InputFits, WorkFits, Computing
  <2>4. ControlsFit(w)'
    <3>1. SUFFICES ASSUME NEW i \in 1 .. Len(ControlQ(w)) - 1
                   PROVE  /\ ControlQ(w)'[i].body.run = wrun[w] + (i - 1) + 1
                          /\ ControlQ(w)'[i].body.run <= run
      BY <1>1, <1>2, <2>1, PositionKept DEF ControlsFit
    <3>2. i + 1 \in 1 .. Len(ControlQ(w)) /\ ControlQ(w)'[i] = ControlQ(w)[i + 1]
      BY <1>2, <1>6
    <3>3. /\ ControlQ(w)[i + 1].body.run = wrun[w] + ((i + 1) - 1) + 0
          /\ ControlQ(w)[i + 1].body.run <= run
      BY <1>5, <3>2 DEF Line, ControlsFit
    <3>4. wrun[w] + ((i + 1) - 1) + 0 = wrun[w] + (i - 1) + 1
      BY <1>6
    <3> QED
      BY <3>2, <3>3, <3>4
  <2>5. CountersFit(w)'
    <3>1. sendCtr'[w] = wRecvCtr'[w] + Ahead(w)'
      <4>1. sendCtr[w] = wRecvCtr[w] + Ahead(w)
        BY <1>5 DEF Line, CountersFit
      <4>2. Ahead(w)' = IF Encrypt THEN Ahead(w) - 1 ELSE Ahead(w)
        BY <1>1, <1>2, ViewTypes DEF Ahead
      <4>3. Ahead(w) \in Nat
        BY <1>1, ViewTypes DEF Ahead
      <4>4. sendCtr'[w] = sendCtr[w]
        BY <1>2
      <4> QED
        BY ONLY <1>6, <2>1, <4>1, <4>2, <4>3, <4>4
    <3>2. ASSUME Encrypt, NEW i \in 1 .. Len(ControlQ(w)) - 1
          PROVE  ControlQ(w)'[i].ctr = wRecvCtr'[w] + 2 * (i - 1) + 1
      <4>1. i + 1 \in 1 .. Len(ControlQ(w)) /\ ControlQ(w)'[i] = ControlQ(w)[i + 1]
        BY <1>2, <1>6
      <4>2. ControlQ(w)[i + 1].ctr = wRecvCtr[w] + 2 * ((i + 1) - 1) + 0
        BY <1>5, <3>2, <4>1 DEF Line, CountersFit
      <4> QED
        BY <1>6, <2>1, <3>2, <4>1, <4>2, SMTT(40)
    <3>3. ASSUME Encrypt, NEW i \in 1 .. Len(TaskQ(w))
          PROVE  TaskQ(w)'[i].ctr = wRecvCtr'[w] + 2 * (i - 1) + (1 - 1)
      <4>1. TaskQ(w)[i].ctr = wRecvCtr[w] + 2 * (i - 1) + (1 - 0)
        BY <1>5, <3>3 DEF Line, CountersFit
      <4> QED
        BY <1>2, <1>6, <2>1, <3>3, <4>1
    <3> QED
      BY <1>2, <1>5, <2>1, <3>1, <3>2, <3>3 DEF Line, CountersFit
  <2>6. Leave(w)'
    BY <1>1, <1>5, <2>1, StaysKept, TakenIntact, Tags
  <2>7. ASSUME mpc # "exited" PROVE Phase(w)'
    <3>1. /\ wrun[w] + Len(ControlQ(w)) + 0 = CtlSent(w) + 1
          /\ wrun[w] + Len(TaskQ(w)) = EndSent(w) + (IF HasWork(w) THEN 2 ELSE 1)
      BY <1>5, <2>7 DEF Phase
    <3>2. /\ (wrun[w] + Len(ControlQ(w)) + First(w) = CtlSent(w) + 1)'
          /\ (wrun[w] + Len(TaskQ(w)) = EndSent(w) + (IF HasWork(w) THEN 2 ELSE 1))'
      <4>1. /\ wrun'[w] = wrun[w] /\ CtlSent(w)' = CtlSent(w) /\ EndSent(w)' = EndSent(w)
            /\ Len(ControlQ(w)') = Len(ControlQ(w)) - 1 /\ TaskQ(w)' = TaskQ(w)
        BY <1>1, <1>2, PositionKept
      <4>2. wrun[w] + (Len(ControlQ(w)) - 1) + 1 = CtlSent(w) + 1
        BY <1>6, <3>1
      <4> QED
        BY <2>1, <2>2, <3>1, <4>1, <4>2
    <3>3. Unasked(w)' => wpc'[w] = "cmd"
      BY <1>1, <1>5, <2>7, PositionKept DEF Phase
    <3> QED
      BY <1>1, <1>2, <1>5, <2>1, <2>2, <2>7, <3>2, <3>3, PositionKept DEF Phase, Upward
  <2>8. Line(w)' /\ mpc' = mpc
    BY <1>1, <2>3, <2>4, <2>5, PositionKept DEF Line
  <2>9. Conv(w)'
    BY <1>8, <2>6, <2>7, <2>8 DEF Conv
  <2> QED
    BY <1>4, <2>9
<1> QED
  BY <1>10, <1>11

LEMMA ReceiveInputConv ==
    ASSUME CInv, NEW w \in Worker, ReceiveInput(w)
    PROVE  \A v \in Worker : Conv(v)'
<1>1. /\ IInv /\ wpc[w] = "input" /\ Arrived(w, "INPUT") /\ WorkerTake(w, "INPUT")
      /\ UNCHANGED <<wrun, wtask, wcode, faults>> /\ UNCHANGED master
      /\ wpc' = [wpc EXCEPT ![w] = IF WorkerOpens(w, "INPUT") THEN "result" ELSE "disconnect"]
      /\ IF WorkerOpens(w, "INPUT")
         THEN wok' = [wok EXCEPT ![w] = /\ Got(w, "INPUT").task = wtask[w]
                                        /\ Got(w, "INPUT").run = wrun[w]]
         ELSE wok' = wok
  BY DEF CInv, ReceiveInput, WorkerGoto
<1>2. /\ \A v \in Worker \ {w} : UNCHANGED <<Downward(v), Upward(v)>>
      /\ UNCHANGED <<Upward(w), sendCtr, CmdQ(w), TaskQ(w), ControlQ(w)>>
      /\ Len(InputQ(w)') = Len(InputQ(w)) - 1 /\ Len(InputQ(w)) > 0
      /\ Head(InputQ(w)) = InputQ(w)[1]
      /\ WorkerOpens(w, "INPUT") =>
            wRecvCtr'[w] = IF Encrypt THEN wRecvCtr[w] + 1 ELSE wRecvCtr[w]
  BY <1>1, WorkerTook, Tags DEF CmdQ, ControlQ, TaskQ, InputQ
<1>3. /\ wpc'[w] = IF WorkerOpens(w, "INPUT") THEN "result" ELSE "disconnect"
      /\ \A v \in Worker \ {w} : wpc'[v] = wpc[v]
  BY <1>1 DEF IInv, WorkerOK
<1>4. \A v \in Worker \ {w} : wok'[v] = wok[v]
  BY <1>1 DEF IInv, WorkerOK
<1>5. \A v \in Worker \ {w} : Conv(v)'
  BY <1>1, <1>2, <1>3, <1>4, OthersKept DEF Own
<1>6. /\ Alive(w) /\ Line(w) /\ Leave(w) /\ ~Gone(w) /\ ~InRun(w)
      /\ mpc # "exited" => Phase(w) /\ Answers(w)
  BY <1>1 DEF CInv, Conversation, Conv, Alive, Gone, InRun
<1>7. /\ Len(InputQ(w)) = 1 /\ Len(CmdQ(w)) = 0 /\ Len(ControlQ(w)) = 0 /\ Len(TaskQ(w)) = 0
      /\ sendCtr[w] \in Nat /\ wRecvCtr[w] \in Nat
  BY <1>1, <1>2, <1>6, ViewTypes, SMTT(40) DEF Line, QueuesFit, Computing
<1>8. sendCtr[w] = IF Encrypt THEN wRecvCtr[w] + 1 ELSE wRecvCtr[w]
  <2>1. Ahead(w) = IF Encrypt THEN 1 ELSE 0
    BY <1>7 DEF Ahead
  <2> QED
    BY <1>6, <1>7, <2>1 DEF Line, CountersFit
<1>9. Got(w, "INPUT").run = wrun[w] /\ Got(w, "INPUT").task = wtask[w]
  <2>1. Got(w, "INPUT") = InputQ(w)[1].body
    BY <1>2 DEF Got, InputQ
  <2> QED
    BY <1>1, <1>6, <1>7, <2>1 DEF Line, InputFits, WorkFits, Computing
<1>10. mpc # "exited" => Answers(w)'
  BY <1>1, <1>2, <1>6, PositionKept, AnswersKept
<1>11. faults = 0 => WorkerOpens(w, "INPUT")
  <2>1. Encrypt => InputQ(w)[1].ctr = wRecvCtr[w]
    BY <1>6, <1>7, <1>8 DEF Line, CountersFit
  <2> QED
    BY <1>1, <2>1, Opened, Tags DEF InputQ
<1>12. CASE ~WorkerOpens(w, "INPUT")
  <2>1. wpc'[w] = "disconnect" /\ faults' # 0 /\ wcode'[w] = wcode[w]
    BY <1>1, <1>3, <1>11, <1>12
  <2> QED
    BY <1>1, <1>5, <1>6, <1>10, <2>1, FailureKept
<1>13. CASE WorkerOpens(w, "INPUT")
  <2>1. /\ wpc'[w] = "result" /\ Alive(w)' /\ ~InRun(w)'
        /\ wRecvCtr'[w] = sendCtr[w]
    BY <1>2, <1>3, <1>7, <1>8, <1>13 DEF Alive, InRun
  <2>2. wok'[w]
    BY <1>1, <1>9, <1>13 DEF IInv, WorkerOK
  <2>3. /\ Len(CmdQ(w)') = 0 /\ Len(ControlQ(w)') = 0 /\ Len(TaskQ(w)') = 0
        /\ Len(InputQ(w)') = 0 /\ ~HasWork(w)'
    BY <1>2, <1>7 DEF HasWork
  <2>4. WorkFits(w)'
    BY <1>1, <1>6, <2>1, <2>2, PositionKept DEF Line, WorkFits, Computing
  <2>5. QueuesFit(w)' /\ TasksFit(w)' /\ ControlsFit(w)' /\ InputFits(w)'
    BY <2>1, <2>3 DEF QueuesFit, TasksFit, ControlsFit, InputFits
  <2>6. CountersFit(w)'
    <3>1. sendCtr'[w] = wRecvCtr'[w] + Ahead(w)'
      BY <1>2, <1>7, <2>1, <2>3 DEF Ahead
    <3> QED
      BY <2>3, <3>1 DEF CountersFit
  <2>7. Leave(w)'
    BY <1>1, <1>6, <2>1, StaysKept, TakenIntact, Tags
  <2>8. ASSUME mpc # "exited" PROVE Phase(w)'
    <3>1. /\ busy[w] /\ ~(Len(ResultQ(w)) > 0 \/ Len(OutputQ(w)) > 0 \/ Reading(w))
          /\ ~Unasked(w)
      BY <1>1, <1>2, <1>6, <2>8 DEF Phase
    <3>2. ~HeaderSent(w)
      BY <1>1, <3>1 DEF HeaderSent, IInv, MasterInv, Bookkeeping, Worker, MasterOK
    <3> QED
      BY <1>1, <1>2, <2>1, <2>3, <3>1, <3>2, PositionKept DEF Phase, Upward
  <2>9. Line(w)' /\ mpc' = mpc
    BY <1>1, <2>4, <2>5, <2>6, PositionKept DEF Line
  <2>10. Conv(w)'
    BY <1>10, <2>7, <2>8, <2>9 DEF Conv
  <2> QED
    BY <1>5, <2>10
<1> QED
  BY <1>12, <1>13

LEMMA ReceiveTaskConv ==
    ASSUME CInv, NEW w \in Worker, ReceiveTask(w)
    PROVE  \A v \in Worker : Conv(v)'
<1> DEFINE task == Got(w, "TASK")
           good == WorkerOpens(w, "TASK") /\ task.run = wrun[w]
           Goto(pc) == wpc' = [wpc EXCEPT ![w] = pc]
<1>1. /\ IInv /\ wpc[w] = "task" /\ Arrived(w, "TASK") /\ WorkerTake(w, "TASK")
      /\ UNCHANGED <<wok, wcode, faults>> /\ UNCHANGED master
  BY DEF CInv, ReceiveTask
<1>2. \/ /\ good /\ task.kind = "work" /\ Goto("input") /\ UNCHANGED wrun
         /\ wtask' = [wtask EXCEPT ![w] = task.task]
      \/ /\ good /\ task.kind = "end" /\ wrun[w] < NumRuns /\ Goto("control") /\ UNCHANGED wtask
         /\ wrun' = [wrun EXCEPT ![w] = wrun[w] + 1]
      \/ /\ good /\ task.kind = "end" /\ wrun[w] >= NumRuns /\ Goto("cmd")
         /\ UNCHANGED <<wrun, wtask>>
      \/ /\ ~good \/ (task.kind = "work" /\ task.task >= TaskCount)
         /\ Goto("disconnect") /\ UNCHANGED <<wrun, wtask>>
  BY DEF ReceiveTask, WorkerGoto
<1>3. /\ \A v \in Worker \ {w} : UNCHANGED <<Downward(v), Upward(v)>>
      /\ UNCHANGED <<Upward(w), sendCtr, CmdQ(w), ControlQ(w), InputQ(w)>>
      /\ Len(TaskQ(w)') = Len(TaskQ(w)) - 1 /\ Len(TaskQ(w)) > 0
      /\ \A i \in 1 .. Len(TaskQ(w)) - 1 : TaskQ(w)'[i] = TaskQ(w)[i + 1]
      /\ Head(TaskQ(w)) = TaskQ(w)[1]
      /\ WorkerOpens(w, "TASK") =>
            wRecvCtr'[w] = IF Encrypt THEN wRecvCtr[w] + 1 ELSE wRecvCtr[w]
  BY <1>1, WorkerTook, Tags DEF CmdQ, ControlQ, TaskQ, InputQ
<1>4. /\ \A v \in Worker \ {w} : wpc'[v] = wpc[v] /\ wrun'[v] = wrun[v] /\ wtask'[v] = wtask[v]
      /\ \A pc \in WorkerAt : Goto(pc) => wpc'[w] = pc
  BY <1>1, <1>2 DEF IInv, WorkerOK
<1>5. \A v \in Worker \ {w} : Conv(v)'
  BY <1>1, <1>3, <1>4, OthersKept DEF Own
<1>6. /\ Alive(w) /\ Line(w) /\ Leave(w) /\ ~Gone(w) /\ InRun(w) /\ First(w) = 1
      /\ mpc # "exited" => Phase(w) /\ Answers(w)
  BY <1>1 DEF CInv, Conversation, Conv, Alive, Gone, InRun, First
<1>7. /\ Len(CmdQ(w)) \in Nat /\ Len(InputQ(w)) \in Nat
      /\ Len(ControlQ(w)) \in Nat /\ Len(TaskQ(w)) \in Nat /\ wrun[w] \in Nat
      /\ wRecvCtr[w] \in Nat /\ sendCtr[w] \in Nat /\ 1 \in 1 .. Len(TaskQ(w)) /\ run \in Nat
  BY <1>1, <1>3, ViewTypes
<1>8. task = TaskQ(w)[1].body
  BY <1>3 DEF Got, TaskQ
<1>9. /\ task.run = wrun[w] /\ wrun[w] <= run
      /\ \/ task.kind = "end"
         \/ /\ task.kind = "work" /\ Len(TaskQ(w)) = 1 /\ task.task = assigned[w]
            /\ wrun[w] = run
  <2>1. /\ TaskQ(w)[1].body.run = wrun[w] + (1 - 1) /\ TaskQ(w)[1].body.run <= run
        /\ \/ TaskQ(w)[1].body.kind = "end"
           \/ /\ TaskQ(w)[1].body.kind = "work" /\ 1 = Len(TaskQ(w))
              /\ TaskQ(w)[1].body.task = assigned[w] /\ TaskQ(w)[1].body.run = run
    BY <1>6, <1>7 DEF Line, TasksFit
  <2>2. wrun[w] + (1 - 1) = wrun[w]
    BY <1>7
  <2> HIDE DEF task
  <2> QED
    BY <1>8, <2>1, <2>2
<1>10. task.kind = "work" => task.task < TaskCount
  BY <1>1, <1>9 DEF IInv, MasterInv, MasterOK, TaskId
<1>11. mpc # "exited" => Answers(w)'
  BY <1>1, <1>3, <1>6, PositionKept, AnswersKept
<1>12. faults = 0 => WorkerOpens(w, "TASK")
  <2>1. Encrypt => TaskQ(w)[1].ctr = wRecvCtr[w]
    BY <1>6, <1>7 DEF Line, CountersFit
  <2> QED
    BY <1>1, <2>1, Opened, Tags DEF TaskQ
<1> HIDE DEF task
<1>13. CASE ~WorkerOpens(w, "TASK")
  <2>1. wpc'[w] = "disconnect" /\ faults' # 0 /\ wcode'[w] = wcode[w]
    BY <1>1, <1>2, <1>4, <1>12, <1>13 DEF WorkerAt
  <2> QED
    BY <1>1, <1>5, <1>6, <1>11, <2>1, FailureKept
<1>14. ASSUME WorkerOpens(w, "TASK"), task.kind = "work", wpc'[w] = "input", UNCHANGED wrun,
              wtask' = [wtask EXCEPT ![w] = task.task]
       PROVE  Conv(w)'
  <2>1. /\ Alive(w)' /\ ~InRun(w)' /\ Len(TaskQ(w)) = 1 /\ wrun[w] = run /\ HasWork(w)
        /\ wRecvCtr'[w] = IF Encrypt THEN wRecvCtr[w] + 1 ELSE wRecvCtr[w]
    BY <1>3, <1>8, <1>9, <1>14 DEF Alive, InRun, HasWork
  <2>2. Len(ControlQ(w)) = 0
    <3>1. SUFFICES ASSUME 1 \in 1 .. Len(ControlQ(w)) PROVE FALSE
      BY <1>7
    <3>2. ControlQ(w)[1].body.run = wrun[w] + (1 - 1) + 1 /\ ControlQ(w)[1].body.run <= run
      BY <1>6, <3>1 DEF Line, ControlsFit
    <3> QED
      BY <1>7, <2>1, <3>2
  <2>3. Len(CmdQ(w)) = 0 /\ Len(InputQ(w)) <= 1
    BY <1>6, <2>1 DEF Line, QueuesFit
  <2>4. /\ Len(CmdQ(w)') = 0 /\ Len(ControlQ(w)') = 0 /\ Len(TaskQ(w)') = 0
        /\ Len(InputQ(w)') <= 1 /\ ~HasWork(w)'
    BY <1>3, <2>1, <2>2, <2>3 DEF HasWork
  <2>5. wtask'[w] = assigned[w]
    BY <1>1, <1>9, <1>14 DEF IInv, WorkerOK
  <2>6. WorkFits(w)' /\ InputFits(w)'
    BY <1>1, <1>3, <1>6, <1>14, <2>1, <2>5, PositionKept DEF Line, WorkFits, InputFits
  <2>7. QueuesFit(w)' /\ TasksFit(w)' /\ ControlsFit(w)'
    BY <1>14, <2>1, <2>4 DEF QueuesFit, TasksFit, ControlsFit, Computing
  <2>8. CountersFit(w)'
    <3>1. Ahead(w) = (IF Encrypt THEN 1 + Len(InputQ(w)) ELSE 0)
          /\ Ahead(w)' = (IF Encrypt THEN Len(InputQ(w)) ELSE 0)
      BY <1>3, <1>7, <2>1, <2>2, <2>3, <2>4 DEF Ahead
    <3>2. sendCtr[w] = wRecvCtr[w] + Ahead(w)
      BY <1>6 DEF Line, CountersFit
    <3>3. sendCtr'[w] = sendCtr[w]
      BY <1>3
    <3>4. sendCtr'[w] = wRecvCtr'[w] + Ahead(w)'
      BY ONLY <1>7, <2>1, <3>1, <3>2, <3>3
    <3>5. Encrypt /\ Len(InputQ(w)') > 0 => InputQ(w)'[1].ctr = sendCtr'[w] - 1
      BY <1>3, <1>6, <3>3 DEF Line, CountersFit
    <3> QED
      BY <2>4, <3>4, <3>5 DEF CountersFit
  <2>9. Leave(w)'
    BY <1>1, <1>6, <2>1, StaysKept, TakenIntact, Tags
  <2>10. ASSUME mpc # "exited" PROVE Phase(w)'
    <3>1. Phase(w)
      BY <1>6, <2>10
    <3>2. /\ busy[w] \/ HeaderSent(w)
          /\ ~(Len(ResultQ(w)) > 0 \/ Len(OutputQ(w)) > 0 \/ Reading(w))
          /\ ~Unasked(w)
      BY <1>1, <2>1, <3>1 DEF Phase
    <3> QED
      BY <1>1, <1>3, <1>14, <2>1, <2>4, <3>1, <3>2, PositionKept DEF Phase, Upward
  <2>11. Line(w)' /\ mpc' = mpc
    BY <1>1, <2>6, <2>7, <2>8, PositionKept DEF Line
  <2> QED
    BY <1>11, <2>9, <2>10, <2>11 DEF Conv
<1>15. ASSUME WorkerOpens(w, "TASK"), task.kind = "end", wpc'[w] = "control", UNCHANGED wtask,
              wrun' = [wrun EXCEPT ![w] = wrun[w] + 1]
       PROVE  Conv(w)'
  <2>1. /\ Alive(w)' /\ InRun(w)' /\ First(w)' = 0
        /\ wRecvCtr'[w] = IF Encrypt THEN wRecvCtr[w] + 1 ELSE wRecvCtr[w]
    BY <1>3, <1>15 DEF Alive, InRun, First
  <2>2. wrun'[w] = wrun[w] + 1
    BY <1>1, <1>15 DEF IInv, WorkerOK
  <2>3. HasWork(w)' <=> HasWork(w)
    <3>1. CASE Len(TaskQ(w)) = 1
      BY <1>3, <1>8, <1>15, <3>1 DEF HasWork
    <3>2. CASE Len(TaskQ(w)) > 1
      <4>1. TaskQ(w)'[Len(TaskQ(w)) - 1] = TaskQ(w)[Len(TaskQ(w))]
        BY <1>3, <1>7, <3>2
      <4> QED
        BY <1>3, <1>7, <3>2, <4>1 DEF HasWork
    <3> QED
      BY <1>3, <1>7, <3>1, <3>2
  <2>4. QueuesFit(w)' /\ InputFits(w)' /\ WorkFits(w)'
    <3>1. QueuesFit(w)'
      BY <1>1, <1>3, <1>6, <1>15, <2>1, <2>3 DEF Line, QueuesFit, Computing
    <3> QED
      BY <1>1, <1>3, <1>6, <1>15, <3>1, PositionKept DEF Line, InputFits, WorkFits, Computing
  <2>5. TasksFit(w)'
    <3>1. SUFFICES ASSUME NEW i \in 1 .. Len(TaskQ(w)) - 1
                   PROVE  /\ TaskQ(w)'[i].body.run = wrun'[w] + (i - 1)
                          /\ TaskQ(w)'[i].body.run <= run
                          /\ \/ TaskQ(w)'[i].body.kind = "end"
                             \/ /\ TaskQ(w)'[i].body.kind = "work" /\ i = Len(TaskQ(w)) - 1
                                /\ TaskQ(w)'[i].body.task = assigned[w]
                                /\ TaskQ(w)'[i].body.run = run
      BY <1>1, <1>3, PositionKept DEF TasksFit
    <3>2. i + 1 \in 1 .. Len(TaskQ(w)) /\ TaskQ(w)'[i] = TaskQ(w)[i + 1]
      BY <1>3, <1>7
    <3>3. /\ TaskQ(w)[i + 1].body.run = wrun[w] + ((i + 1) - 1)
          /\ TaskQ(w)[i + 1].body.run <= run
          /\ \/ TaskQ(w)[i + 1].body.kind = "end"
             \/ /\ TaskQ(w)[i + 1].body.kind = "work" /\ i + 1 = Len(TaskQ(w))
                /\ TaskQ(w)[i + 1].body.task = assigned[w] /\ TaskQ(w)[i + 1].body.run = run
      BY <1>6, <3>2 DEF Line, TasksFit
    <3>4. /\ wrun[w] + ((i + 1) - 1) = wrun'[w] + (i - 1)
          /\ i + 1 = Len(TaskQ(w)) => i = Len(TaskQ(w)) - 1
      BY <1>7, <2>2, SMTT(40)
    <3> QED
      BY <3>2, <3>3, <3>4
  <2>6. ControlsFit(w)'
    <3>1. SUFFICES ASSUME NEW i \in 1 .. Len(ControlQ(w))
                   PROVE  /\ ControlQ(w)[i].body.run = wrun'[w] + (i - 1) + 0
                          /\ ControlQ(w)[i].body.run <= run
      BY <1>1, <1>3, <2>1, PositionKept DEF ControlsFit
    <3>2. /\ ControlQ(w)[i].body.run = wrun[w] + (i - 1) + 1
          /\ ControlQ(w)[i].body.run <= run
      BY <1>6 DEF Line, ControlsFit
    <3>3. wrun[w] + (i - 1) + 1 = wrun'[w] + (i - 1) + 0
      BY <1>7, <2>2
    <3> QED
      BY <3>2, <3>3
  <2>7. CountersFit(w)'
    <3>1. sendCtr'[w] = wRecvCtr'[w] + Ahead(w)'
      <4>1. sendCtr[w] = wRecvCtr[w] + Ahead(w)
        BY <1>6 DEF Line, CountersFit
      <4>2. Ahead(w)' = IF Encrypt THEN Ahead(w) - 1 ELSE Ahead(w)
        BY <1>3, <1>7 DEF Ahead
      <4>3. Ahead(w) \in Nat
        BY <1>7 DEF Ahead
      <4>4. sendCtr'[w] = sendCtr[w]
        BY <1>3
      <4> QED
        BY ONLY <1>7, <2>1, <4>1, <4>2, <4>3, <4>4, SMTT(40)
    <3>2. ASSUME Encrypt, NEW i \in 1 .. Len(TaskQ(w)) - 1
          PROVE  TaskQ(w)'[i].ctr = wRecvCtr'[w] + 2 * (i - 1) + (1 - 0)
      <4>1. i + 1 \in 1 .. Len(TaskQ(w)) /\ TaskQ(w)'[i] = TaskQ(w)[i + 1]
        BY <1>3, <1>7
      <4>2. TaskQ(w)[i + 1].ctr = wRecvCtr[w] + 2 * ((i + 1) - 1) + (1 - 1)
        BY <1>6, <3>2, <4>1 DEF Line, CountersFit
      <4>3. wRecvCtr'[w] = wRecvCtr[w] + 1
        BY <2>1, <3>2
      <4>4. i \in Nat /\ wRecvCtr[w] \in Nat
        BY <1>7
      <4> QED
        BY ONLY <4>1, <4>2, <4>3, <4>4, NextTaskCounter
    <3>3. ASSUME Encrypt, NEW i \in 1 .. Len(ControlQ(w))
          PROVE  ControlQ(w)'[i].ctr = wRecvCtr'[w] + 2 * (i - 1) + 0
      <4>1. ControlQ(w)[i].ctr = wRecvCtr[w] + 2 * (i - 1) + 1
        BY <1>6, <3>3 DEF Line, CountersFit
      <4> QED
        BY <1>3, <1>7, <2>1, <3>3, <4>1
    <3> QED
      BY <1>3, <1>6, <2>1, <3>1, <3>2, <3>3 DEF Line, CountersFit
  <2>8. Leave(w)'
    BY <1>1, <1>6, <2>1, StaysKept, TakenIntact, Tags
  <2>9. ASSUME mpc # "exited" PROVE Phase(w)'
    <3>1. /\ wrun[w] + Len(ControlQ(w)) + 1 = CtlSent(w) + 1
          /\ wrun[w] + Len(TaskQ(w)) = EndSent(w) + (IF HasWork(w) THEN 2 ELSE 1)
      BY <1>6, <2>9 DEF Phase
    <3>2. /\ (wrun[w] + Len(ControlQ(w)) + First(w) = CtlSent(w) + 1)'
          /\ (wrun[w] + Len(TaskQ(w)) = EndSent(w) + (IF HasWork(w) THEN 2 ELSE 1))'
      <4>1. /\ CtlSent(w)' = CtlSent(w) /\ EndSent(w)' = EndSent(w)
            /\ Len(TaskQ(w)') = Len(TaskQ(w)) - 1 /\ ControlQ(w)' = ControlQ(w)
        BY <1>1, <1>3, PositionKept
      <4>2. /\ wrun'[w] + Len(ControlQ(w)) + 0 = CtlSent(w) + 1
            /\ wrun'[w] + (Len(TaskQ(w)) - 1) = EndSent(w) + (IF HasWork(w) THEN 2 ELSE 1)
        <5>1. PICK k : k = EndSent(w) + (IF HasWork(w) THEN 2 ELSE 1)
          OBVIOUS
        <5>2. wrun[w] + Len(ControlQ(w)) + 1 = CtlSent(w) + 1 /\ wrun[w] + Len(TaskQ(w)) = k
          BY <3>1, <5>1
        <5>3. /\ wrun'[w] + Len(ControlQ(w)) + 0 = CtlSent(w) + 1
              /\ wrun'[w] + (Len(TaskQ(w)) - 1) = k
          BY ONLY <1>7, <2>2, <5>2, SMTT(40)
        <5> QED
          BY <5>1, <5>3
      <4> QED
        BY <2>1, <2>3, <4>1, <4>2
    <3>3. ~Unasked(w)'
      BY <1>1, <1>6, <2>9, PositionKept DEF Phase
    <3> QED
      BY <1>1, <1>3, <1>6, <1>15, <2>3, <2>9, <3>2, <3>3, PositionKept DEF Phase, Upward
  <2>10. Line(w)' /\ mpc' = mpc
    BY <1>1, <2>4, <2>5, <2>6, <2>7, PositionKept DEF Line
  <2> QED
    BY <1>11, <2>8, <2>9, <2>10 DEF Conv
<1>16. ASSUME WorkerOpens(w, "TASK"), task.kind = "end", wpc'[w] = "cmd", wrun[w] >= NumRuns,
              UNCHANGED <<wrun, wtask>>
       PROVE  Conv(w)'
  <2>1. /\ Alive(w)' /\ ~InRun(w)'
        /\ wRecvCtr'[w] = IF Encrypt THEN wRecvCtr[w] + 1 ELSE wRecvCtr[w]
    BY <1>3, <1>16 DEF Alive, InRun
  <2>2. run = NumRuns /\ wrun[w] = run
    BY <1>1, <1>7, <1>9, <1>16 DEF IInv, MasterInv, MasterOK
  <2>3. Len(TaskQ(w)) = 1
    <3>1. ASSUME Len(TaskQ(w)) > 1 PROVE FALSE
      <4>1. 2 \in 1 .. Len(TaskQ(w))
        BY <1>7, <3>1
      <4>2. TaskQ(w)[2].body.run = wrun[w] + (2 - 1) /\ TaskQ(w)[2].body.run <= run
        BY <1>6, <4>1 DEF Line, TasksFit
      <4> QED
        BY <1>7, <2>2, <4>2
    <3>2. ~(Len(TaskQ(w)) > 1)
      BY <3>1
    <3> QED
      BY <1>3, <1>7, <3>2
  <2>4. Len(ControlQ(w)) = 0
    <3>1. SUFFICES ASSUME 1 \in 1 .. Len(ControlQ(w)) PROVE FALSE
      BY <1>7
    <3>2. ControlQ(w)[1].body.run = wrun[w] + (1 - 1) + 1 /\ ControlQ(w)[1].body.run <= run
      BY <1>6, <3>1 DEF Line, ControlsFit
    <3> QED
      BY <1>7, <2>2, <3>2
  <2>5. ~HasWork(w)
    BY <1>8, <1>16, <2>3 DEF HasWork
  <2>6. Len(InputQ(w)) = 0 /\ Len(CmdQ(w)) <= 1
    BY <1>1, <1>6, <1>7, <2>5 DEF Line, QueuesFit
  <2>7. /\ Len(CmdQ(w)') <= 1 /\ Len(ControlQ(w)') = 0 /\ Len(TaskQ(w)') = 0
        /\ Len(InputQ(w)') = 0 /\ ~HasWork(w)'
    BY <1>3, <2>3, <2>4, <2>6 DEF HasWork
  <2>8. QueuesFit(w)' /\ TasksFit(w)' /\ ControlsFit(w)' /\ InputFits(w)' /\ WorkFits(w)'
    BY <1>16, <2>1, <2>7 DEF QueuesFit, TasksFit, ControlsFit, InputFits, WorkFits, Computing
  <2>9. CountersFit(w)'
    <3>1. Ahead(w) = (IF Encrypt THEN 1 + Len(CmdQ(w)) ELSE Len(CmdQ(w)))
          /\ Ahead(w)' = Len(CmdQ(w))
      BY <1>3, <1>7, <2>3, <2>4, <2>6, <2>7 DEF Ahead
    <3>2. sendCtr[w] = wRecvCtr[w] + Ahead(w)
      BY <1>6 DEF Line, CountersFit
    <3>3. sendCtr'[w] = sendCtr[w]
      BY <1>3
    <3>4. sendCtr'[w] = wRecvCtr'[w] + Ahead(w)'
      BY ONLY <1>7, <2>1, <3>1, <3>2, <3>3, SMTT(40)
    <3>5. Len(CmdQ(w)') > 0 => CmdQ(w)'[1].ctr = sendCtr'[w] - 1
      BY <1>3, <1>6, <3>3 DEF Line, CountersFit
    <3> QED
      BY <2>7, <3>4, <3>5 DEF CountersFit
  <2>10. Leave(w)'
    BY <1>1, <1>6, <2>1, StaysKept, TakenIntact, Tags
  <2>11. ASSUME mpc # "exited" PROVE Phase(w)'
    <3>1. Phase(w) /\ Answers(w)
      BY <1>6, <2>11
    <3>2. wrun[w] + Len(TaskQ(w)) = EndSent(w) + (IF HasWork(w) THEN 2 ELSE 1)
      BY <1>6, <3>1 DEF Phase
    <3>3. EndSent(w) \in Int
      BY <1>7 DEF EndSent
    <3>4. EndSent(w)' = run' /\ run' = NumRuns
      BY <1>1, <1>7, <2>2, <2>3, <2>5, <3>2, <3>3, PositionKept
    <3>5. ~Starting(w) /\ ~HeaderSent(w)
      <4>1. run # 0
        BY <2>2
      <4> QED
        BY <2>5, <3>1, <4>1, <1>1 DEF Starting, CInv, Conversation, Loops, Phase
    <3>6. Len(ReadyQ(w)) = 0
      BY <1>1, <3>1, <3>5, ViewTypes DEF Answers
    <3> QED
      BY <1>1, <1>3, <1>16, <2>1, <2>7, <3>1, <3>4, <3>5, <3>6, PositionKept DEF Phase, Upward
  <2>12. Line(w)' /\ mpc' = mpc
    BY <1>1, <2>8, <2>9, PositionKept DEF Line
  <2> QED
    BY <1>11, <2>10, <2>11, <2>12 DEF Conv
<1>17. CASE WorkerOpens(w, "TASK")
  <2>1. /\ Goto("input") => wpc'[w] = "input"
        /\ Goto("control") => wpc'[w] = "control"
        /\ Goto("cmd") => wpc'[w] = "cmd"
    BY <1>4 DEF WorkerAt
  <2> HIDE DEF Goto
  <2>2. CASE /\ task.kind = "work" /\ Goto("input") /\ UNCHANGED wrun
             /\ wtask' = [wtask EXCEPT ![w] = task.task]
    BY <1>5, <1>14, <1>17, <2>1, <2>2
  <2>3. CASE /\ task.kind = "end" /\ Goto("control") /\ UNCHANGED wtask
             /\ wrun' = [wrun EXCEPT ![w] = wrun[w] + 1]
    BY <1>5, <1>15, <1>17, <2>1, <2>3
  <2>4. CASE /\ task.kind = "end" /\ wrun[w] >= NumRuns /\ Goto("cmd")
             /\ UNCHANGED <<wrun, wtask>>
    BY <1>5, <1>16, <1>17, <2>1, <2>4
  <2>5. ~(task.kind = "work" /\ task.task >= TaskCount)
    <3>1. task.kind = "work" => task.task \in Nat
      BY <1>1, <1>9 DEF IInv, MasterInv, MasterOK, TaskId
    <3> QED
      BY <1>10, <3>1
  <2> QED
    BY <1>2, <1>9, <1>17, <2>2, <2>3, <2>4, <2>5
<1> QED
  BY <1>13, <1>17

LEMMA SendResultConv ==
    ASSUME CInv, NEW w \in Worker, SendResult(w)
    PROVE  \A v \in Worker : Conv(v)'
<1> DEFINE b == Msg("result", wrun[w], wtask[w], wok[w])
<1>1. /\ IInv /\ wpc[w] = "result" /\ WorkerSend(w, "RESULT", b)
      /\ wpc' = [wpc EXCEPT ![w] = "output"]
      /\ UNCHANGED <<wrun, wtask, wok, wcode, faults>> /\ UNCHANGED master
  BY DEF CInv, SendResult, WorkerGoto
<1>2. b \in Body
  BY <1>1 DEF IInv, WorkerOK, TaskId, Msg, Body, Kind
<1> HIDE DEF b
<1>3. /\ \A v \in Worker \ {w} : UNCHANGED <<Downward(v), Upward(v)>>
      /\ UNCHANGED <<Downward(w), recvCtr, ReadyQ(w), OutputQ(w)>>
      /\ Len(ResultQ(w)') = Len(ResultQ(w)) + 1
      /\ ResultQ(w)'[Len(ResultQ(w)) + 1] = MakeFrame(wSendCtr[w], b)
      /\ wSendCtr'[w] = IF Encrypt THEN wSendCtr[w] + 1 ELSE wSendCtr[w]
  BY <1>1, <1>2, WorkerSent, Tags DEF ReadyQ, ResultQ, OutputQ
<1>4. /\ wpc'[w] = "output" /\ \A v \in Worker \ {w} : wpc'[v] = wpc[v]
  BY <1>1 DEF IInv, WorkerOK
<1>5. \A v \in Worker \ {w} : Conv(v)'
  BY <1>1, <1>3, <1>4, OthersKept DEF Own
<1>6. /\ Alive(w) /\ Line(w) /\ Leave(w) /\ ~InRun(w) /\ Alive(w)' /\ ~InRun(w)'
      /\ mpc # "exited" => Phase(w) /\ Answers(w)
  BY <1>1, <1>4 DEF CInv, Conversation, Conv, Alive, InRun
<1>7. UNCHANGED <<CmdQ(w), ControlQ(w), TaskQ(w), InputQ(w), sendCtr[w], wRecvCtr[w]>>
  BY <1>3 DEF Downward
<1>8. Line(w)'
  <2>1. HasWork(w)' = HasWork(w)
    BY <1>7 DEF HasWork
  <2>2. QueuesFit(w)'
    BY <1>1, <1>4, <1>6, <1>7, <2>1 DEF Line, QueuesFit, Computing
  <2>3. Len(ControlQ(w)) = 0 /\ Len(TaskQ(w)) = 0
    BY <1>6 DEF Line, QueuesFit
  <2>4. TasksFit(w)' /\ ControlsFit(w)'
    BY <1>7, <2>3 DEF TasksFit, ControlsFit
  <2>5. InputFits(w)' /\ WorkFits(w)'
    BY <1>1, <1>4, <1>6, <1>7, PositionKept DEF Line, InputFits, WorkFits, Computing
  <2>6. CountersFit(w)'
    BY <1>6, <1>7, <2>3 DEF Line, CountersFit, Ahead
  <2> QED
    BY <2>2, <2>4, <2>5, <2>6 DEF Line
<1>9. Leave(w)'
  <2>1. \A t \in DownTag : net'[w][t] = net[w][t]
    BY <1>7, Tags DEF CmdQ, ControlQ, TaskQ, InputQ
  <2> QED
    BY <1>1, <1>6, <2>1, StaysKept DEF DownIntact
<1>10. ASSUME mpc # "exited"
       PROVE  /\ busy[w] /\ Len(ReadyQ(w)) = 0 /\ Len(ResultQ(w)) = 0 /\ Len(OutputQ(w)) = 0
              /\ ~Reading(w) /\ ~HeaderSent(w) /\ ~Unasked(w) /\ ~Starting(w)
  <2>1. Phase(w) /\ Answers(w)
    BY <1>6, <1>10
  <2>2. busy[w] /\ ~Reading(w) /\ ~Unasked(w) /\ Len(ResultQ(w)) = 0 /\ Len(OutputQ(w)) = 0
    BY <1>1, <2>1, ViewTypes DEF Phase
  <2>3. ~HeaderSent(w) /\ ~Starting(w)
    BY <1>1, <2>2 DEF HeaderSent, Starting, IInv, MasterInv, Bookkeeping, Worker, MasterOK
  <2> QED
    BY <1>1, <2>1, <2>2, <2>3, ViewTypes DEF Answers
<1>11. ASSUME mpc # "exited" PROVE Answers(w)'
  <2>1. /\ Len(ResultQ(w)') = 1 /\ ResultQ(w)'[1].ctr = wSendCtr[w]
        /\ Len(ReadyQ(w)') = 0 /\ Len(OutputQ(w)') = 0
    BY <1>3, <1>10, <1>11 DEF MakeFrame
  <2>2. Behind(w) = 0 /\ Behind(w)' = IF Encrypt THEN 1 ELSE 0
    BY <1>10, <1>11, <2>1 DEF Behind
  <2>3. wSendCtr[w] = recvCtr[w] /\ recvCtr'[w] = recvCtr[w] /\ recvCtr[w] \in Nat
    <3>1. wSendCtr[w] = recvCtr[w] + Behind(w)
      BY <1>6, <1>11 DEF Answers
    <3> QED
      BY <1>1, <1>3, <2>2, <3>1, ViewTypes, SMTT(40)
  <2>4. wSendCtr'[w] = recvCtr'[w] + Behind(w)'
    BY <1>3, <2>2, <2>3
  <2>5. busy'[w] /\ ~Reading(w)'
    BY <1>1, <1>10, <1>11, PositionKept
  <2> QED
    BY <2>1, <2>3, <2>4, <2>5 DEF Answers
<1>12. ASSUME mpc # "exited" PROVE Phase(w)'
  <2>1. busy'[w] /\ ~Reading(w)' /\ ~HeaderSent(w)' /\ ~Unasked(w)' /\ ~Starting(w)'
    BY <1>1, <1>10, <1>12, PositionKept
  <2>2. Len(ReadyQ(w)') = 0 /\ Len(OutputQ(w)') = 0
    BY <1>3, <1>10, <1>12
  <2>3. Len(TaskQ(w)') = 0 /\ Len(CmdQ(w)') = 0
    BY <1>1, <1>6, <1>7 DEF Line, QueuesFit, Computing
  <2> QED
    BY <1>4, <1>6, <2>1, <2>2, <2>3 DEF Phase, HasWork
<1>13. mpc' = mpc
  BY <1>1, PositionKept
<1> QED
  BY <1>5, <1>8, <1>9, <1>11, <1>12, <1>13 DEF Conv

LEMMA SendOutputConv ==
    ASSUME CInv, NEW w \in Worker, SendOutput(w)
    PROVE  \A v \in Worker : Conv(v)'
<1> DEFINE b == Msg("output", wrun[w], wtask[w], TRUE)
<1>1. /\ IInv /\ wpc[w] = "output" /\ WorkerSend(w, "OUTPUT", b)
      /\ wpc' = [wpc EXCEPT ![w] = "task"]
      /\ UNCHANGED <<wrun, wtask, wok, wcode, faults>> /\ UNCHANGED master
  BY DEF CInv, SendOutput, WorkerGoto
<1>2. b \in Body
  BY <1>1 DEF IInv, WorkerOK, TaskId, Msg, Body, Kind
<1> HIDE DEF b
<1>3. /\ \A v \in Worker \ {w} : UNCHANGED <<Downward(v), Upward(v)>>
      /\ UNCHANGED <<Downward(w), recvCtr, ReadyQ(w), ResultQ(w)>>
      /\ Len(OutputQ(w)') = Len(OutputQ(w)) + 1
      /\ OutputQ(w)'[Len(OutputQ(w)) + 1] = MakeFrame(wSendCtr[w], b)
      /\ wSendCtr'[w] = IF Encrypt THEN wSendCtr[w] + 1 ELSE wSendCtr[w]
  BY <1>1, <1>2, WorkerSent, Tags DEF ReadyQ, ResultQ, OutputQ
<1>4. /\ wpc'[w] = "task" /\ \A v \in Worker \ {w} : wpc'[v] = wpc[v]
  BY <1>1 DEF IInv, WorkerOK
<1>5. \A v \in Worker \ {w} : Conv(v)'
  BY <1>1, <1>3, <1>4, OthersKept DEF Own
<1>6. /\ Alive(w) /\ Line(w) /\ Leave(w) /\ ~InRun(w) /\ Alive(w)' /\ InRun(w)' /\ First(w)' = 1
      /\ mpc # "exited" => Phase(w) /\ Answers(w)
  BY <1>1, <1>4 DEF CInv, Conversation, Conv, Alive, InRun, First
<1>7. /\ Len(CmdQ(w)) = 0 /\ Len(ControlQ(w)) = 0 /\ Len(TaskQ(w)) = 0 /\ Len(InputQ(w)) = 0
      /\ wRecvCtr[w] \in Nat
  BY <1>1, <1>6, ViewTypes DEF Line, QueuesFit, Computing
<1>8. /\ Len(CmdQ(w)') = 0 /\ Len(ControlQ(w)') = 0 /\ Len(TaskQ(w)') = 0
      /\ Len(InputQ(w)') = 0 /\ sendCtr'[w] = wRecvCtr'[w] /\ wRecvCtr'[w] \in Nat
      /\ ~HasWork(w)'
  <2>1. Ahead(w) = 0
    BY <1>7 DEF Ahead
  <2>2. sendCtr[w] = wRecvCtr[w]
    BY <1>6, <1>7, <2>1 DEF Line, CountersFit
  <2> QED
    BY <1>3, <1>7, <2>2 DEF Downward, HasWork
<1>9. Line(w)'
  <2>1. QueuesFit(w)' /\ TasksFit(w)' /\ ControlsFit(w)' /\ InputFits(w)' /\ WorkFits(w)'
    BY <1>4, <1>6, <1>8 DEF QueuesFit, TasksFit, ControlsFit, InputFits, WorkFits, Computing
  <2>2. CountersFit(w)'
    BY <1>8 DEF CountersFit, Ahead
  <2> QED
    BY <2>1, <2>2 DEF Line
<1>10. Leave(w)'
  <2>1. \A t \in DownTag : net'[w][t] = net[w][t]
    BY <1>3, Tags DEF Downward, CmdQ, ControlQ, TaskQ, InputQ
  <2> QED
    BY <1>1, <1>6, <2>1, StaysKept DEF DownIntact
<1>11. ASSUME mpc # "exited"
       PROVE  /\ busy[w] /\ Len(ReadyQ(w)) = 0 /\ Len(OutputQ(w)) = 0 /\ Len(ResultQ(w)) \in Nat
              /\ ~HeaderSent(w) /\ ~Unasked(w) /\ ~Starting(w)
              /\ CtlSent(w) = run /\ EndSent(w) = run - 1 /\ wrun[w] = run
  <2>1. Phase(w) /\ Answers(w)
    BY <1>6, <1>11
  <2>2. busy[w] /\ ~Unasked(w) /\ Len(OutputQ(w)) = 0 /\ Len(ResultQ(w)) \in Nat
    BY <1>1, <2>1, ViewTypes DEF Phase
  <2>3. mpc \notin {"cmd", "ready", "run", "control", "end", "record", "shutdown", "disconnect"}
    BY <1>1, <2>2 DEF IInv, MasterInv, Bookkeeping, CInv, Conversation, Loops
  <2>4. ~HeaderSent(w) /\ ~Starting(w) /\ CtlSent(w) = run /\ EndSent(w) = run - 1
    BY <1>1, <2>2, <2>3 DEF HeaderSent, Starting, CtlSent, EndSent, IInv, MasterInv, Bookkeeping,
       Worker, MasterOK
  <2>5. wrun[w] = run
    BY <1>1, <1>6 DEF Line, WorkFits, Computing
  <2> QED
    BY <1>1, <2>1, <2>2, <2>4, <2>5, ViewTypes DEF Answers
<1>12. ASSUME mpc # "exited" PROVE Answers(w)'
  <2>1. /\ Len(OutputQ(w)') = 1 /\ OutputQ(w)'[1].ctr = wSendCtr[w]
        /\ Len(ReadyQ(w)') = 0 /\ ResultQ(w)' = ResultQ(w)
    BY <1>3, <1>11, <1>12 DEF MakeFrame
  <2>2. /\ Behind(w) = IF Encrypt THEN Len(ResultQ(w)) ELSE 0
        /\ Behind(w)' = IF Encrypt THEN Len(ResultQ(w)) + 1 ELSE 0
    BY <1>11, <1>12, <2>1 DEF Behind
  <2>3. wSendCtr[w] = recvCtr[w] + Behind(w) /\ recvCtr'[w] = recvCtr[w] /\ recvCtr[w] \in Nat
    BY <1>1, <1>3, <1>6, <1>12, ViewTypes DEF Answers
  <2>4. wSendCtr'[w] = recvCtr'[w] + Behind(w)'
    BY <1>3, <1>11, <1>12, <2>2, <2>3
  <2>5. busy'[w] /\ (Reading(w)' => Len(ResultQ(w)) = 0) /\ Len(ResultQ(w)) <= 1
    BY <1>1, <1>6, <1>11, <1>12, PositionKept DEF Answers
  <2>6. Encrypt => /\ Len(ResultQ(w)') > 0 => ResultQ(w)'[1].ctr = recvCtr'[w]
                   /\ OutputQ(w)'[1].ctr = recvCtr'[w] + Len(ResultQ(w)')
    BY <1>6, <1>12, <2>1, <2>2, <2>3 DEF Answers
  <2> QED
    BY <2>1, <2>4, <2>5, <2>6 DEF Answers
<1>13. ASSUME mpc # "exited" PROVE Phase(w)'
  <2>1. /\ busy'[w] /\ ~HeaderSent(w)' /\ ~Unasked(w)' /\ ~Starting(w)'
        /\ CtlSent(w)' = run /\ EndSent(w)' = run - 1 /\ wrun'[w] = run
    BY <1>1, <1>11, <1>13, PositionKept
  <2>2. Len(ReadyQ(w)') = 0 /\ run \in Nat
    BY <1>1, <1>3, <1>11, <1>13, ViewTypes
  <2> QED
    BY <1>4, <1>6, <1>8, <2>1, <2>2 DEF Phase
<1>14. mpc' = mpc
  BY <1>1, PositionKept
<1> QED
  BY <1>5, <1>9, <1>10, <1>12, <1>13, <1>14 DEF Conv
-----------------------------------------------------------------------------
(* The conversation is an invariant *)

\* When every task is counted, no worker can still hold one.
LEMMA AllCountedIdle ==
    ASSUME IInv, completed >= TaskCount
    PROVE  \A w \in Worker : ~busy[w]
<1>1. done = TaskId
  BY CountTasks DEF IInv, MasterInv, MasterOK, RecordedRunsComplete
<1> QED
  BY <1>1 DEF IInv, MasterInv, MasterOK, TaskPartition

LEMMA MasterStepLoops ==
    ASSUME CInv, MasterStep PROVE Loops'
<1>1. IInv /\ Loops /\ idx \in Worker /\ MasterOK /\ Bookkeeping
  BY DEF CInv, Conversation, IInv, MasterInv, MasterOK
<1>2. CASE SendCommand
  <2>1. mpc = "cmd" /\ mpc' \in {"cmd", "ready"} /\ run' = run /\ busy' = busy
    BY <1>1, <1>2, LoopStep DEF SendCommand, tasks
  <2> QED BY <1>1, <2>1 DEF Loops
<1>3. CASE ReceiveReady
  <2>1. /\ mpc = "ready" /\ run' = run /\ busy' = busy
        /\ mpc' \in {"ready", "exited"} \/ (mpc' = "run" /\ idx' = 0)
    BY <1>1, <1>3, LoopStep DEF ReceiveReady, MasterExit, tasks
  <2> QED BY <1>1, <2>1 DEF Loops
<1>4. CASE StartRun
  BY <1>4 DEF StartRun, Loops
<1>5. CASE SendControl
  <2>1. mpc' \in {"control", "scatter"}
    BY <1>1, <1>5, LoopStep DEF SendControl
  <2> QED BY <2>1 DEF Loops
<1>6. CASE SendTask("scatter", "scatterInput") \/ SendTask("assign", "assignInput")
  BY <1>6 DEF SendTask, Loops
<1>7. CASE SendInput("scatterInput") \/ SendInput("assignInput")
  <2>1. mpc' \in {"scatter", "poll"}
    BY <1>1, <1>7, LoopStep, SweepStep DEF SendInput
  <2> QED BY <2>1 DEF Loops
<1>8. CASE ScatterNothing
  <2>1. mpc' \in {"scatter", "poll"}
    BY <1>1, <1>8, LoopStep DEF ScatterNothing
  <2> QED BY <2>1 DEF Loops
<1>9. CASE PollMiss
  BY <1>1, <1>9, SweepStep DEF PollMiss, Loops
<1>10. CASE ReceiveResult
  BY <1>10 DEF ReceiveResult, MasterExit, Loops
<1>11. CASE ReceiveOutput
  <2>1. mpc' \in {"assign", "poll", "exited"}
    BY <1>1, <1>11, SweepStep DEF ReceiveOutput, MasterExit
  <2> QED BY <2>1 DEF Loops
<1>12. CASE LeaveSweep
  <2>1. mpc' = "end" /\ completed >= TaskCount /\ busy' = busy
    BY <1>12 DEF LeaveSweep, AllCompleted, tasks
  <2> QED BY <1>1, <2>1, AllCountedIdle DEF Loops
<1>13. CASE SendEnd
  <2>1. mpc = "end" /\ busy' = busy /\ (mpc' = "end" \/ (mpc' = "record" /\ idx' = 0))
    BY <1>1, <1>13, LoopStep DEF SendEnd, tasks
  <2> QED BY <1>1, <2>1 DEF Loops
<1>14. CASE RecordResult
  <2>1. mpc = "record" /\ busy' = busy /\ idx' = idx /\ mpc' \in {"run", "shutdown"}
    BY <1>14 DEF RecordResult, tasks
  <2> QED BY <1>1, <2>1 DEF Loops
<1>15. CASE SendDone
  <2>1. mpc = "shutdown" /\ busy' = busy /\ mpc' = "disconnect"
    BY <1>15 DEF SendDone, tasks
  <2> QED BY <1>1, <2>1 DEF Loops
<1> QED
  BY <1>2, <1>3, <1>4, <1>5, <1>6, <1>7, <1>8, <1>9, <1>10, <1>11, <1>12, <1>13, <1>14,
     <1>15 DEF MasterStep

LEMMA MasterStepConv ==
    ASSUME CInv, MasterStep PROVE \A v \in Worker : Conv(v)'
<1>1. CASE SendCommand BY <1>1, SendCommandConv
<1>2. CASE ReceiveReady BY <1>2, ReceiveReadyConv
<1>3. CASE StartRun BY <1>3, StartRunConv
<1>4. CASE SendControl BY <1>4, SendControlConv
<1>5. CASE SendTask("scatter", "scatterInput") BY <1>5, SendTaskConv
<1>6. CASE SendTask("assign", "assignInput") BY <1>6, SendTaskConv
<1>7. CASE SendInput("scatterInput") BY <1>7, SendInputConv
<1>8. CASE SendInput("assignInput") BY <1>8, SendInputConv
<1>9. CASE ScatterNothing \/ PollMiss \/ LeaveSweep \/ RecordResult BY <1>9, QuietConv
<1>10. CASE ReceiveResult BY <1>10, ReceiveResultConv
<1>11. CASE ReceiveOutput BY <1>11, ReceiveOutputConv
<1>12. CASE SendEnd BY <1>12, SendEndConv
<1>13. CASE SendDone BY <1>13, SendDoneConv
<1> QED
  BY <1>1, <1>2, <1>3, <1>4, <1>5, <1>6, <1>7, <1>8, <1>9, <1>10, <1>11, <1>12, <1>13
     DEF MasterStep

\* The steps that leave the master where it is.
LEMMA LoopsUntouched ==
    ASSUME Loops, UNCHANGED master PROVE Loops'
BY DEF Loops, master

LEMMA WorkerStepConv ==
    ASSUME CInv, NEW w \in Worker, WorkerStep(w) PROVE Conversation'
<1>1. UNCHANGED master
  BY DEF WorkerStep, ReceiveCommand, SetUp, ReceiveControl, ReceiveTask, ReceiveInput,
     SendResult, SendOutput
<1>2. \A v \in Worker : Conv(v)'
  BY ReceiveCommandConv, SetUpConv, ReceiveControlConv, ReceiveTaskConv, ReceiveInputConv,
     SendResultConv, SendOutputConv DEF WorkerStep
<1> QED
  BY <1>1, <1>2, LoopsUntouched DEF CInv, Conversation

LEMMA FaultStepConv ==
    ASSUME CInv, NEW w \in Worker,
           \/ WorkerDeadline(w) \/ MasterLost(w) \/ Kill(w) \/ SetUp(w, FALSE)
           \/ \E t \in AnyTag : Damage(w, t)
    PROVE  Conversation'
<1>1. UNCHANGED master
  BY DEF WorkerDeadline, MasterLost, Kill, SetUp, Damage
<1>2. \A v \in Worker : Conv(v)'
  BY CrashConv, SetUpConv, DamageConv
<1> QED
  BY <1>1, <1>2, LoopsUntouched DEF CInv, Conversation

LEMMA NextConv ==
    ASSUME CInv, [Next]_vars PROVE Conversation'
<1>1. CASE MasterStep
  BY <1>1, MasterStepConv, MasterStepLoops DEF Conversation
<1>2. CASE MasterDeadline \/ PeerLost
  <2>1. mpc' = "exited"
    BY <1>2 DEF MasterDeadline, PeerLost, MasterExit
  <2>2. Loops'
    BY <2>1 DEF Loops
  <2> QED BY <1>2, <2>2, MasterFailsConv DEF Conversation
<1>3. ASSUME NEW w \in Worker, WorkerStep(w) PROVE Conversation'
  BY <1>3, WorkerStepConv
<1>4. ASSUME NEW w \in Worker, Disconnect(w) PROVE Conversation'
  <2>1. mpc = "disconnect" /\ mpc' \in {"shutdown", "exited"} /\ busy' = busy
    BY <1>4, LoopStep DEF CInv, IInv, MasterInv, MasterOK, Disconnect, tasks
  <2>2. Loops'
    BY <2>1 DEF CInv, Conversation, Loops
  <2> QED BY <1>4, <2>2, DisconnectConv DEF Conversation
<1>5. ASSUME NEW w \in Worker,
             \/ WorkerDeadline(w) \/ MasterLost(w) \/ Kill(w) \/ SetUp(w, FALSE)
             \/ \E t \in AnyTag : Damage(w, t)
      PROVE  Conversation'
  BY <1>5, FaultStepConv
<1>6. CASE UNCHANGED vars
  <2>1. UNCHANGED <<link, worker, faults>> /\ UNCHANGED master
    BY <1>6 DEF vars
  <2>2. ASSUME NEW v \in Worker PROVE Conv(v)'
    <3>1. Conv(v) /\ UNCHANGED <<Position(v), Duty(v), run, mpc, mcode>>
      BY <2>1, PositionKept DEF CInv, Conversation
    <3>2. UNCHANGED <<Downward(v), Upward(v), Own(v)>>
      BY <2>1 DEF link, worker, Downward, Upward, Own, CmdQ, ControlQ, TaskQ, InputQ, ReadyQ,
         ResultQ, OutputQ
    <3> QED BY <2>1, <3>1, <3>2, ConvKept
  <2> QED BY <2>1, <2>2, LoopsUntouched DEF CInv, Conversation
<1> QED
  BY <1>1, <1>2, <1>3, <1>4, <1>5, <1>6 DEF Next, FaultStep, Finished, AnyTag

LEMMA InitConv == Init => Conversation
<1> SUFFICES ASSUME Init PROVE Conversation
  OBVIOUS
<1>1. Loops
  BY DEF Init, Loops
<1>2. ASSUME NEW w \in Worker PROVE Conv(w)
  <2>1. /\ \A t \in AnyTag : net[w][t] = <<>> /\ Len(net[w][t]) = 0
        /\ sendCtr[w] = 0 /\ recvCtr[w] = 0 /\ wSendCtr[w] = 0 /\ wRecvCtr[w] = 0
        /\ wpc[w] = "cmd" /\ wcode[w] = 0 /\ ~busy[w] /\ mpc = "cmd" /\ idx = 0 /\ w >= idx
    BY DEF Init, LinkInit, AnyTag, Worker
  <2>2. /\ Len(CmdQ(w)) = 0 /\ Len(ControlQ(w)) = 0 /\ Len(TaskQ(w)) = 0 /\ Len(InputQ(w)) = 0
        /\ Len(ReadyQ(w)) = 0 /\ Len(ResultQ(w)) = 0 /\ Len(OutputQ(w)) = 0
    BY <2>1, Tags DEF CmdQ, ControlQ, TaskQ, InputQ, ReadyQ, ResultQ, OutputQ
  <2>3. Unasked(w) /\ ~InRun(w) /\ ~HasWork(w) /\ Ahead(w) = 0 /\ Behind(w) = 0
    BY <2>1, <2>2 DEF Unasked, InRun, HasWork, Ahead, Behind
  <2>4. Line(w)
    <3>1. QueuesFit(w)
      BY <2>1, <2>2, <2>3 DEF QueuesFit, Computing
    <3>2. TasksFit(w) /\ ControlsFit(w) /\ InputFits(w) /\ WorkFits(w)
      BY <2>1, <2>2 DEF TasksFit, ControlsFit, InputFits, WorkFits, Computing
    <3>3. CountersFit(w)
      BY <2>1, <2>2, <2>3 DEF CountersFit
    <3> QED BY <3>1, <3>2, <3>3 DEF Line
  <2>5. Phase(w) /\ Answers(w)
    <3>1. ~HeaderSent(w) /\ ~Reading(w)
      BY <2>1 DEF HeaderSent, Reading
    <3>2. Phase(w)
      BY <2>1, <2>2, <2>3, <3>1 DEF Phase
    <3>3. Answers(w)
      BY <2>1, <2>2, <2>3, <3>1 DEF Answers
    <3> QED BY <3>2, <3>3
  <2>6. Leave(w)
    <3>1. ~Gone(w) /\ ~Dismissed(w) /\ DownIntact(w)
      BY <2>1 DEF Gone, Dismissed, DownIntact, AnyTag
    <3> QED BY <2>1, <3>1 DEF Leave
  <2> QED BY <2>4, <2>5, <2>6 DEF Conv
<1> QED
  BY <1>1, <1>2 DEF Conversation

\* The conversation of the master with each worker, whatever is damaged,
\* killed or late: what is in flight between the two, in which order, and
\* under which counters follows from where each of them is.
THEOREM ConversationHolds == Spec => []CInv
<1>1. Init => CInv
  BY InitInv, InitConv DEF CInv
<1>2. CInv /\ [Next]_vars => CInv'
  BY NextInv, NextConv DEF CInv
<1> QED
  BY <1>1, <1>2, PTL DEF Spec

\* run_taskq_workload computes and answers for the task and the run that
\* run_taskq_master has down for this worker, and the bytes it checked were
\* the ones of that task.
THEOREM WorkMatches == Spec => []WorkMatchesAssignment
<1>1. ASSUME CInv, NEW w \in Worker, wpc[w] \in {"input", "result", "output"}
      PROVE  wrun[w] = run /\ wtask[w] = assigned[w] /\ (wpc[w] # "input" => wok[w])
  <2>1. Alive(w)
    BY <1>1 DEF Alive
  <2> QED
    BY <1>1, <2>1 DEF CInv, Conversation, Conv, Line, WorkFits, Computing
<1>2. CInv => WorkMatchesAssignment
  BY <1>1 DEF WorkMatchesAssignment
<1> QED
  BY <1>2, ConversationHolds, PTL

\* The counter of a worker's next frame is the one it expects.
LEMMA WorkerAccepts ==
    ASSUME CInv, NEW w \in Worker, WorkerTag(w) \in DownTag \ PlainTag,
           Arrived(w, WorkerTag(w))
    PROVE  Head(net[w][WorkerTag(w)]).ctr = wRecvCtr[w]
<1>1. PICK t \in DownTag : t = WorkerTag(w) /\ t \notin PlainTag
  OBVIOUS
<1>2. /\ Len(net[w][t]) > 0 /\ Head(net[w][t]) = net[w][t][1]
  BY <1>1, QueueTypes DEF CInv, IInv, AnyTag
<1>3. \/ t = "CMD" /\ wpc[w] = "cmd"
      \/ t = "CONTROL" /\ wpc[w] = "control"
      \/ t = "TASK" /\ wpc[w] = "task"
      \/ t = "INPUT" /\ wpc[w] = "input"
  <2>1. /\ wpc[w] = "cmd" => WorkerTag(w) = "CMD"
        /\ wpc[w] = "control" => WorkerTag(w) = "CONTROL"
        /\ wpc[w] = "task" => WorkerTag(w) = "TASK"
        /\ wpc[w] = "input" => WorkerTag(w) = "INPUT"
        /\ wpc[w] \notin {"cmd", "control", "task", "input"} => WorkerTag(w) = "none"
    BY DEF WorkerTag
  <2> QED BY <1>1, <2>1, Tags
<1>4. Alive(w)
  BY <1>3 DEF Alive
<1>5. QueuesFit(w) /\ CountersFit(w)
  BY <1>4 DEF CInv, Conversation, Conv, Line
<1>6. /\ Len(CmdQ(w)) \in Nat /\ Len(ControlQ(w)) \in Nat /\ Len(TaskQ(w)) \in Nat
      /\ Len(InputQ(w)) \in Nat /\ sendCtr[w] \in Nat /\ wRecvCtr[w] \in Nat
  BY ViewTypes DEF CInv
<1>7. t # "CMD" => Encrypt
  BY <1>1, <1>3, Tags
<1>8. CASE t = "CMD"
  <2>1. /\ Len(ControlQ(w)) = 0 /\ Len(TaskQ(w)) = 0 /\ Len(InputQ(w)) = 0
        /\ Len(CmdQ(w)) = 1 /\ CmdQ(w)[1].ctr = sendCtr[w] - 1
    <3>1. wpc[w] = "cmd" /\ Len(CmdQ(w)) > 0 /\ wpc[w] # "input"
      BY <1>2, <1>3, <1>8 DEF CmdQ
    <3>2. ~InRun(w)
      BY <3>1 DEF InRun
    <3>3. /\ Len(ControlQ(w)) = 0 /\ Len(TaskQ(w)) = 0 /\ Len(CmdQ(w)) <= 1
          /\ ~(Len(InputQ(w)) > 0)
      BY <1>5, <3>1, <3>2, Zenon DEF QueuesFit
    <3>4. Len(CmdQ(w)) = 1 /\ Len(InputQ(w)) = 0
      <4>1. Len(CmdQ(w)) > 0 /\ Len(CmdQ(w)) <= 1 /\ Len(CmdQ(w)) \in Nat
        BY <1>6, <3>1, <3>3
      <4>2. Len(CmdQ(w)) = 1
        <5>1. PICK k \in Nat : k = Len(CmdQ(w))
          BY <4>1
        <5>2. k > 0 /\ k <= 1
          BY <4>1, <5>1
        <5>3. k = 1
          BY ONLY <5>2
        <5> QED BY <5>1, <5>3
      <4>3. Len(InputQ(w)) = 0
        BY <1>6, <3>3
      <4> QED BY <4>2, <4>3
    <3>5. CmdQ(w)[1].ctr = sendCtr[w] - 1
      BY <1>5, <3>1 DEF CountersFit
    <3> QED BY <3>3, <3>4, <3>5
  <2>2. Ahead(w) = 1
    BY <2>1 DEF Ahead
  <2>3. CmdQ(w)[1].ctr = wRecvCtr[w]
    BY <1>5, <1>6, <2>1, <2>2 DEF CountersFit
  <2> QED BY <1>1, <1>2, <1>8, <2>3 DEF CmdQ
<1>9. CASE t = "CONTROL"
  <2>1. Len(ControlQ(w)) > 0 /\ First(w) = 0 /\ 1 \in 1 .. Len(ControlQ(w))
    BY <1>2, <1>3, <1>6, <1>9 DEF First, ControlQ
  <2>2. ControlQ(w)[1].ctr = wRecvCtr[w] + 2 * (1 - 1) + First(w)
    BY <1>5, <1>7, <1>9, <2>1 DEF CountersFit
  <2>3. ControlQ(w)[1].ctr = wRecvCtr[w]
    BY ONLY <1>6, <2>1, <2>2
  <2> QED BY <1>1, <1>2, <1>9, <2>3 DEF ControlQ
<1>10. CASE t = "TASK"
  <2>1. Len(TaskQ(w)) > 0 /\ First(w) = 1 /\ 1 \in 1 .. Len(TaskQ(w))
    BY <1>2, <1>3, <1>6, <1>10 DEF First, TaskQ
  <2>2. TaskQ(w)[1].ctr = wRecvCtr[w] + 2 * (1 - 1) + (1 - First(w))
    BY <1>5, <1>7, <1>10, <2>1 DEF CountersFit
  <2>3. TaskQ(w)[1].ctr = wRecvCtr[w]
    BY ONLY <1>6, <2>1, <2>2
  <2> QED BY <1>1, <1>2, <1>10, <2>3 DEF TaskQ
<1>11. CASE t = "INPUT"
  <2>1. wpc[w] = "input" /\ Len(InputQ(w)) > 0
    BY <1>2, <1>3, <1>11 DEF InputQ
  <2>2. /\ Len(ControlQ(w)) = 0 /\ Len(TaskQ(w)) = 0 /\ Len(CmdQ(w)) = 0
        /\ Len(InputQ(w)) = 1 /\ InputQ(w)[1].ctr = sendCtr[w] - 1
    <3>1. /\ Len(ControlQ(w)) = 0 /\ Len(TaskQ(w)) = 0 /\ Len(CmdQ(w)) = 0
          /\ Len(InputQ(w)) = 1
      <4>1. ~InRun(w) /\ wpc[w] \in {"ready"} \cup Computing
        BY <2>1 DEF InRun, Computing
      <4>2. /\ Len(ControlQ(w)) = 0 /\ Len(TaskQ(w)) = 0 /\ Len(CmdQ(w)) = 0
            /\ Len(InputQ(w)) <= 1
        BY <1>5, <4>1, Zenon DEF QueuesFit
      <4> QED BY ONLY <1>6, <2>1, <4>2
    <3>2. InputQ(w)[1].ctr = sendCtr[w] - 1
      BY <1>5, <1>7, <1>11, <2>1 DEF CountersFit
    <3> QED BY <3>1, <3>2
  <2>3. Ahead(w) = 1
    BY <1>7, <1>11, <2>2 DEF Ahead
  <2>4. InputQ(w)[1].ctr = wRecvCtr[w]
    BY <1>5, <1>6, <2>2, <2>3 DEF CountersFit
  <2> QED BY <1>1, <1>2, <1>11, <2>4 DEF InputQ
<1> QED
  BY <1>3, <1>8, <1>9, <1>10, <1>11

LEMMA MasterAccepts ==
    ASSUME CInv, MasterTag \in UpTag \ PlainTag, Arrived(idx, MasterTag)
    PROVE  Head(net[idx][MasterTag]).ctr = recvCtr[idx]
<1>1. PICK w \in Worker, t \in UpTag : w = idx /\ t = MasterTag /\ t \notin PlainTag
  BY DEF CInv, IInv, MasterInv, MasterOK
<1>2. /\ Len(net[w][t]) > 0 /\ Head(net[w][t]) = net[w][t][1]
  BY <1>1, QueueTypes DEF CInv, IInv, AnyTag
<1>3. \/ t = "READY" /\ mpc = "ready"
      \/ t = "RESULT" /\ mpc = "poll"
      \/ t = "OUTPUT" /\ mpc = "output"
  <2>1. /\ mpc = "ready" => MasterTag = "READY"
        /\ mpc = "poll" => MasterTag = "RESULT"
        /\ mpc = "output" => MasterTag = "OUTPUT"
        /\ mpc \notin {"ready", "poll", "output"} => MasterTag = "none"
    BY DEF MasterTag
  <2> QED BY <1>1, <2>1, Tags
<1>4. Answers(w)
  BY <1>3 DEF CInv, Conversation, Conv
<1>5. recvCtr[w] \in Nat
  BY ViewTypes DEF CInv
<1>6. t # "READY" => Encrypt
  BY <1>1, <1>3, Tags
<1>7. CASE t = "READY"
  BY <1>1, <1>2, <1>4, <1>7 DEF Answers, ReadyQ
<1>8. CASE t = "RESULT"
  BY <1>1, <1>2, <1>4, <1>6, <1>8 DEF Answers, ResultQ
<1>9. CASE t = "OUTPUT"
  <2>1. Reading(w) /\ Len(OutputQ(w)) > 0
    BY <1>1, <1>2, <1>3, <1>9 DEF Reading, OutputQ
  <2>2. Len(ResultQ(w)) = 0 /\ OutputQ(w)[1].ctr = recvCtr[w] + Len(ResultQ(w))
    BY <1>4, <1>6, <1>9, <2>1 DEF Answers
  <2>3. OutputQ(w)[1].ctr = recvCtr[w]
    BY <1>5, <2>2
  <2> QED BY <1>1, <1>2, <1>9, <2>3 DEF OutputQ
<1> QED
  BY <1>3, <1>7, <1>8, <1>9

\* secure_recv and recv_bulk compare the counter of a frame with one counter
\* per direction, and MPI only orders the frames of one tag: in every state
\* the frame that a process is about to take carries the counter it expects.
THEOREM GoodMessagesAccepted == Spec => []NoFalseReject
<1>1. CInv => NoFalseReject
  BY WorkerAccepts, MasterAccepts DEF NoFalseReject
<1> QED
  BY <1>1, ConversationHolds, PTL

\* The master exits with 0 only after all the runs are recorded and every
\* worker has left with 0, and without faults every message was received.
THEOREM ExitIsClean == Spec => []CleanExit
<1>1. ASSUME CInv, mpc = "exited", mcode = 0
      PROVE  /\ Len(log) = NumRuns
             /\ \A w \in Worker : Gone(w) /\ wcode[w] = 0
             /\ \A w \in Worker, t \in DownTag \cup UpTag :
                   Arrived(w, t) => t \in DownTag /\ faults > 0
  <2>1. Len(log) = NumRuns
    BY <1>1 DEF CInv, IInv, MasterInv, Bookkeeping
  <2>2. ASSUME NEW w \in Worker
        PROVE  /\ Gone(w) /\ wcode[w] = 0 /\ UpEmpty(w)
               /\ faults = 0 => DownEmpty(w)
    BY <1>1, <2>2 DEF CInv, Conversation, Conv, Leave
  <2>3. ASSUME NEW w \in Worker, NEW t \in DownTag \cup UpTag, Arrived(w, t)
        PROVE  t \in DownTag /\ faults > 0
    <3>1. Len(net[w][t]) > 0
      BY <1>1, <2>3, QueueTypes DEF CInv, IInv, AnyTag
    <3>2. t \in DownTag
      BY <2>2, <3>1 DEF UpEmpty
    <3>3. faults # 0
      BY <2>2, <3>1, <3>2 DEF DownEmpty
    <3>4. faults \in Nat
      BY <1>1, ViewTypes DEF CInv
    <3> QED BY <3>2, <3>3, <3>4
  <2> QED BY <2>1, <2>2, <2>3
<1>2. CInv => CleanExit
  BY <1>1 DEF CleanExit
<1> QED
  BY <1>2, ConversationHolds, PTL
=============================================================================
