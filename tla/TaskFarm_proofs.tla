--------------------------- MODULE TaskFarm_proofs ---------------------------
(***************************************************************************)
(* Proofs about TaskFarm for any number of workers, tasks and faults.      *)
(***************************************************************************)
EXTENDS TaskFarm, FiniteSetTheorems, TLAPS

USE TaskFarmAssumption

-----------------------------------------------------------------------------
(* The inductive invariant *)

\* A frame but for what the environment may change in it.
Face(f) == [ctr |-> f.ctr, tag |-> f.tag, task |-> f.task]

Faces(q) == {Face(q[i]) : i \in 1 .. Len(q)}

\* What is on the way to a worker: a task it has not passed yet was not
\* computed, and no task is on the way with two workers or two counters.
DownOK ==
    /\ \A w \in Worker : \A f \in Faces(down[w]) :
          /\ f.ctr < sendCtr[w]
          /\ f.tag = "TASK" => /\ f.task \in 1 .. next
                               /\ f.ctr >= wRecvCtr[w] => worked[f.task] = 0
    /\ \A v, w \in Worker : \A f \in Faces(down[v]), g \in Faces(down[w]) :
          f.tag = "TASK" /\ g.tag = "TASK" /\ f.task = g.task => v = w /\ f.ctr = g.ctr

\* The same for the results on the way back.
UpOK ==
    /\ \A w \in Worker : \A f \in Faces(up[w]) :
          /\ f.ctr < wSendCtr[w] /\ f.task \in Task /\ worked[f.task] = 1
          /\ f.ctr >= recvCtr[w] => f.task \notin results
    /\ \A v, w \in Worker : \A f \in Faces(up[v]), g \in Faces(up[w]) :
          f.task = g.task => v = w /\ f.ctr = g.ctr

\* A worker that is about to reply is the only one to know the result.
Replying ==
    \A w \in Worker : wpc[w] = "reply" =>
        /\ wtask[w] \in Task /\ worked[wtask[w]] = 1 /\ wtask[w] \notin results
        /\ \A v \in Worker : \A f \in Faces(up[v]) : f.task # wtask[w]
        /\ \A v \in Worker : v # w /\ wpc[v] = "reply" => wtask[v] # wtask[w]

Once ==
    /\ \A t \in Task : worked[t] \in {0, 1} /\ (worked[t] = 1 => t <= next)
    /\ \A t \in results : worked[t] = 1
    /\ received = Cardinality(results)

\* A result answers a frame, so no side is ahead of the other.
Counters ==
    \A w \in Worker :
        /\ recvCtr[w] <= wSendCtr[w] /\ wSendCtr[w] <= wRecvCtr[w]
        /\ wRecvCtr[w] <= sendCtr[w]
        /\ wpc[w] = "reply" => wSendCtr[w] < wRecvCtr[w]

\* Who has been sent one message more than was accepted from it.
Owed(w) ==
    CASE mpc = "scatter" -> w < idx
      [] mpc = "answer"  -> w # idx
      [] OTHER           -> mpc = "poll"

Loop ==
    /\ mpc = "start" => idx = 1
    /\ mpc \notin {"start", "exited"} => idx \in 1 .. nworkers
    /\ mpc \in {"start", "scatter", "poll", "answer"} => \A w \in 1 .. nworkers :
          sendCtr[w] = IF Owed(w) THEN recvCtr[w] + 1 ELSE recvCtr[w]

IInv == TypeOK /\ DownOK /\ UpOK /\ Replying /\ Once /\ Counters /\ Loop
-----------------------------------------------------------------------------
(* Queues of frames *)

FaceSet == [ctr : Nat, tag : {"TASK", "IDLE", "SHUTDOWN", "RESULT"}, task : 0 .. NT]

LEMMA FaceType ==
    ASSUME NEW f \in Frames
    PROVE  /\ Face(f) \in FaceSet /\ Face(f).ctr = f.ctr /\ Face(f).tag = f.tag
           /\ Face(f).task = f.task
  BY DEF Frames, FaceSet, Face

LEMMA FacesType ==
    ASSUME NEW q \in Seq(Frames) PROVE Faces(q) \subseteq FaceSet
<1>1. ASSUME NEW i \in 1 .. Len(q) PROVE q[i] \in Frames
  OBVIOUS
<1> QED
  BY <1>1, FaceType DEF Faces

LEMMA NoFaces == Faces(<<>>) = {}
  BY DEF Faces

LEMMA AppendFaces ==
    ASSUME NEW q \in Seq(Frames), NEW f \in Frames
    PROVE  /\ Append(q, f) \in Seq(Frames)
           /\ \A x \in Faces(Append(q, f)) : x \in Faces(q) \/ x = Face(f)
<1> DEFINE r == Append(q, f)
<1>1. r \in Seq(Frames) /\ Len(r) = Len(q) + 1 /\ Len(q) \in Nat
      /\ \A i \in 1 .. Len(r) : r[i] = IF i <= Len(q) THEN q[i] ELSE f
  OBVIOUS
<1> HIDE DEF r
<1>2. ASSUME NEW x \in Faces(r) PROVE x \in Faces(q) \/ x = Face(f)
  <2>1. PICK i \in 1 .. Len(r) : x = Face(r[i])
    BY DEF Faces
  <2>2. CASE i <= Len(q)
    <3>1. r[i] = q[i] /\ i \in 1 .. Len(q)
      BY <1>1, <2>2
    <3> QED
      BY <2>1, <3>1 DEF Faces
  <2>3. CASE ~(i <= Len(q))
    BY <1>1, <2>1, <2>3
  <2> QED
    BY <2>2, <2>3
<1> QED
  BY <1>1, <1>2 DEF r

LEMMA TailFaces ==
    ASSUME NEW q \in Seq(Frames), q # <<>>
    PROVE  /\ Tail(q) \in Seq(Frames) /\ Head(q) \in Frames /\ Face(Head(q)) \in Faces(q)
           /\ \A x \in Faces(Tail(q)) : x \in Faces(q)
<1> DEFINE r == Tail(q)
<1>1. r \in Seq(Frames) /\ Len(r) = Len(q) - 1 /\ Len(q) \in Nat \ {0}
      /\ \A i \in 1 .. Len(r) : r[i] = q[i + 1]
  OBVIOUS
<1>2. Head(q) \in Frames /\ Head(q) = q[1] /\ 1 \in 1 .. Len(q)
  OBVIOUS
<1> HIDE DEF r
<1>3. ASSUME NEW x \in Faces(r) PROVE x \in Faces(q)
  <2>1. PICK i \in 1 .. Len(r) : x = Face(r[i])
    BY DEF Faces
  <2>2. r[i] = q[i + 1] /\ i + 1 \in 1 .. Len(q)
    BY <1>1
  <2> QED
    BY <2>1, <2>2 DEF Faces
<1>4. Face(Head(q)) \in Faces(q)
  BY <1>2 DEF Faces
<1> QED
  BY <1>1, <1>2, <1>3, <1>4 DEF r

LEMMA BrokenFaces ==
    ASSUME NEW q \in Seq(Frames), NEW i \in DOMAIN q
    PROVE  /\ Broken(q, i) \in Seq(Frames)
           /\ \A x \in Faces(Broken(q, i)) : x \in Faces(q)
<1> DEFINE b == [q[i] EXCEPT !.intact = FALSE]
           r == [q EXCEPT ![i] = b]
<1>1. i \in 1 .. Len(q) /\ q[i] \in Frames
  OBVIOUS
<1>2. b \in Frames /\ Face(b) = Face(q[i])
  BY <1>1 DEF Frames, Face
<1>3. Broken(q, i) = r
  BY DEF Broken
<1> HIDE DEF b
<1>4. r \in Seq(Frames) /\ Len(r) = Len(q)
      /\ \A j \in 1 .. Len(q) : r[j] = IF j = i THEN b ELSE q[j]
  BY <1>1, <1>2
<1> HIDE DEF r
<1>5. \A x \in Faces(r) : x \in Faces(q)
  BY <1>1, <1>2, <1>4 DEF Faces
<1> QED
  BY <1>3, <1>4, <1>5

LEMMA RepeatedFaces ==
    ASSUME NEW q \in Seq(Frames), NEW i \in DOMAIN q
    PROVE  /\ Repeated(q, i) \in Seq(Frames)
           /\ \A x \in Faces(Repeated(q, i)) : x \in Faces(q)
<1>1. i \in 1 .. Len(q) /\ q[i] \in Frames
  OBVIOUS
<1>2. Face(q[i]) \in Faces(q)
  BY <1>1 DEF Faces
<1> QED
  BY <1>1, <1>2, AppendFaces DEF Repeated
-----------------------------------------------------------------------------
(* The parts of the type *)

QueuesOK == down \in [Worker -> Seq(Frames)] /\ up \in [Worker -> Seq(Frames)]

CountersOK ==
    /\ sendCtr \in [Worker -> Nat] /\ recvCtr \in [Worker -> Nat]
    /\ wSendCtr \in [Worker -> Nat] /\ wRecvCtr \in [Worker -> Nat]

MasterOK ==
    /\ nworkers \in 0 .. Target
    /\ mpc \in MasterAt /\ idx \in Worker /\ next \in 0 .. NT
    /\ received \in 0 .. NT /\ results \subseteq Task /\ mcode \in {0, 1}

WorkersOK ==
    /\ wpc \in [Worker -> WorkerAt] /\ wtask \in [Worker -> 0 .. NT]
    /\ worked \in [Task -> Nat]

EnvOK ==
    synchronous \in BOOLEAN /\ faults \in 0 .. MaxFaults /\ injected \subseteq Fault

LEMMA TypeParts == TypeOK <=> QueuesOK /\ CountersOK /\ MasterOK /\ WorkersOK /\ EnvOK
  BY DEF TypeOK, QueuesOK, CountersOK, MasterOK, WorkersOK, EnvOK

LEMMA Types ==
    ASSUME IInv
    PROVE  /\ QueuesOK /\ CountersOK /\ MasterOK /\ WorkersOK /\ EnvOK
           /\ \A w \in Worker : down[w] \in Seq(Frames) /\ up[w] \in Seq(Frames)
           /\ \A w \in Worker : Faces(down[w]) \subseteq FaceSet /\ Faces(up[w]) \subseteq FaceSet
<1>1. QueuesOK /\ CountersOK /\ MasterOK /\ WorkersOK /\ EnvOK
  BY TypeParts DEF IInv
<1>2. \A w \in Worker : down[w] \in Seq(Frames) /\ up[w] \in Seq(Frames)
  BY <1>1 DEF QueuesOK
<1> QED
  BY <1>1, <1>2, FacesType

LEMMA Numbers ==
    /\ Task \subseteq 0 .. NT /\ Task \subseteq Nat /\ 0 \notin Task /\ 0 .. NT \subseteq Nat
    /\ Worker \subseteq Nat /\ 1 \in Worker
  BY DEF Task, Worker
-----------------------------------------------------------------------------
(* What a step has to show *)

LEMMA DownKept ==
    ASSUME IInv, UNCHANGED <<sendCtr, next, wRecvCtr, worked>>,
           \A w \in Worker : \A x \in Faces(down'[w]) : x \in Faces(down[w])
    PROVE  DownOK'
  BY DEF IInv, DownOK

LEMMA UpKept ==
    ASSUME IInv, UNCHANGED <<recvCtr, wSendCtr, results, worked>>,
           \A w \in Worker : \A x \in Faces(up'[w]) : x \in Faces(up[w])
    PROVE  UpOK'
  BY DEF IInv, UpOK

\* Nobody begins to reply.
LEMMA ReplyingKept ==
    ASSUME IInv, UNCHANGED <<results, worked, wtask>>,
           \A w \in Worker : \A x \in Faces(up'[w]) : x \in Faces(up[w]),
           \A w \in Worker : wpc'[w] = "reply" => wpc[w] = "reply"
    PROVE  Replying'
  BY DEF IInv, Replying

\* A step that loses frames, damages or repeats them, moves the master or ends
\* workers.
LEMMA Shrinks ==
    ASSUME IInv, UNCHANGED <<nworkers, next, received, results, sendCtr, recvCtr,
                             wtask, worked, wSendCtr, wRecvCtr>>,
           mpc' \in MasterAt, idx' \in Worker, mcode' \in {0, 1}, Loop', QueuesOK', EnvOK',
           \A w \in Worker : \A x \in Faces(down'[w]) : x \in Faces(down[w]),
           \A w \in Worker : \A x \in Faces(up'[w]) : x \in Faces(up[w]),
           wpc' \in [Worker -> WorkerAt],
           \A w \in Worker : wpc'[w] = "reply" => wpc[w] = "reply"
    PROVE  IInv'
<1>1. (QueuesOK /\ CountersOK /\ MasterOK /\ WorkersOK /\ EnvOK)'
  BY Types DEF CountersOK, MasterOK, WorkersOK
<1>2. TypeOK'
  BY <1>1 DEF TypeOK, QueuesOK, CountersOK, MasterOK, WorkersOK, EnvOK
<1>3. DownOK' /\ UpOK' /\ Replying'
  BY DownKept, UpKept, ReplyingKept
<1>4. Once' /\ Counters'
  BY DEF IInv, Once, Counters
<1> QED
  BY <1>2, <1>3, <1>4 DEF IInv

LEMMA MasterMoves ==
    ASSUME IInv, UNCHANGED <<nworkers, next, received, results, sendCtr, recvCtr,
                             wtask, worked, wSendCtr, wRecvCtr, down, up, env>>,
           mpc' \in MasterAt, idx' \in Worker, mcode' \in {0, 1}, Loop',
           wpc' \in [Worker -> WorkerAt],
           \A w \in Worker : wpc'[w] = "reply" => wpc[w] = "reply"
    PROVE  IInv'
<1>1. QueuesOK' /\ EnvOK'
  BY Types DEF QueuesOK, EnvOK, env
<1> QED
  BY <1>1, Shrinks

\* The loops of the master depend on the master only.
LEMMA LoopKept ==
    ASSUME IInv, UNCHANGED <<mpc, idx, nworkers, sendCtr, recvCtr>> PROVE Loop'
  BY DEF IInv, Loop, Owed
-----------------------------------------------------------------------------
(* The steps of the master *)

LEMMA LoopTypes ==
    ASSUME IInv
    PROVE  /\ nworkers \in Nat /\ nworkers <= Target /\ idx \in Nat /\ idx \in Worker
           /\ 1 .. nworkers \subseteq Worker
           /\ mpc \notin {"start", "exited"} => idx \in 1 .. nworkers
           /\ \A w \in Worker : sendCtr[w] \in Nat /\ recvCtr[w] \in Nat
           /\ \A w \in Worker : wSendCtr[w] \in Nat /\ wRecvCtr[w] \in Nat
           /\ next \in Nat /\ mcode \in {0, 1} /\ wpc \in [Worker -> WorkerAt]
<1>1. /\ nworkers \in 0 .. Target /\ idx \in Worker /\ next \in 0 .. NT /\ mcode \in {0, 1}
      /\ wpc \in [Worker -> WorkerAt]
  BY Types DEF MasterOK, WorkersOK
<1>2. nworkers \in Nat /\ nworkers <= Target /\ idx \in Nat /\ 1 .. nworkers \subseteq Worker
  BY <1>1 DEF Worker
<1>3. mpc \notin {"start", "exited"} => idx \in 1 .. nworkers
  BY DEF IInv, Loop
<1>4. /\ \A w \in Worker : sendCtr[w] \in Nat /\ recvCtr[w] \in Nat
      /\ \A w \in Worker : wSendCtr[w] \in Nat /\ wRecvCtr[w] \in Nat
  BY Types DEF CountersOK
<1>5. next \in Nat
  BY <1>1
<1> QED
  BY <1>1, <1>2, <1>3, <1>4, <1>5

LEMMA SweepType ==
    ASSUME NEW n \in Nat, NEW i \in 1 .. n PROVE (i % n) + 1 \in 1 .. n
  OBVIOUS

LEMMA SweepLoop ==
    ASSUME IInv, mpc \notin {"start", "exited"}, Sweep, UNCHANGED nworkers
    PROVE  mpc' = "poll" /\ idx' \in 1 .. nworkers /\ idx' \in Worker
<1>1. idx \in 1 .. nworkers /\ nworkers \in Nat
  BY LoopTypes
<1>2. (idx % nworkers) + 1 \in 1 .. nworkers
  BY <1>1, SweepType
<1> QED
  BY <1>2, LoopTypes DEF Sweep

LEMMA StartInvariant ==
    ASSUME IInv, Start PROVE IInv'
<1>1. /\ mpc = "start" /\ mpc' = (IF nworkers = 0 THEN "exited" ELSE "scatter")
      /\ UNCHANGED <<nworkers, idx, next, received, results, mcode, sendCtr, recvCtr,
                     worker, down, up, env>>
  BY DEF Start
<1>2. idx = 1 /\ \A w \in 1 .. nworkers : sendCtr[w] = recvCtr[w]
  BY <1>1 DEF IInv, Loop, Owed
<1>3. Loop'
  BY <1>1, <1>2, LoopTypes DEF Loop, Owed
<1> QED
  BY <1>1, <1>3, LoopTypes, MasterMoves DEF worker, MasterAt

LEMMA PollMissInvariant ==
    ASSUME IInv, PollMiss PROVE IInv'
<1>1. /\ mpc = "poll" /\ Sweep
      /\ UNCHANGED <<nworkers, next, received, results, mcode, sendCtr, recvCtr,
                     worker, down, up, env>>
  BY DEF PollMiss
<1>2. mpc' = "poll" /\ idx' \in 1 .. nworkers /\ idx' \in Worker
  BY <1>1, SweepLoop
<1>3. Loop'
  BY <1>1, <1>2 DEF IInv, Loop, Owed
<1> QED
  BY <1>1, <1>2, <1>3, LoopTypes, MasterMoves DEF worker, MasterAt

LEMMA LeaveSweepInvariant ==
    ASSUME IInv, LeaveSweep PROVE IInv'
<1>1. /\ mpc = "poll" /\ mpc' = "shutdown"
      /\ UNCHANGED <<nworkers, idx, next, received, results, mcode, sendCtr, recvCtr,
                     worker, down, up, env>>
  BY DEF LeaveSweep
<1>2. Loop'
  BY <1>1 DEF IInv, Loop
<1> QED
  BY <1>1, <1>2, LoopTypes, MasterMoves DEF worker, MasterAt

LEMMA PeerLostInvariant ==
    ASSUME IInv, PeerLost PROVE IInv'
<1>1. /\ mpc' = "exited" /\ mcode' = 1
      /\ UNCHANGED <<nworkers, idx, next, received, results, sendCtr, recvCtr,
                     worker, down, up, env>>
  BY DEF PeerLost
<1>2. Loop'
  BY <1>1 DEF Loop
<1> QED
  BY <1>1, <1>2, LoopTypes, MasterMoves DEF worker, MasterAt

\* The frame is new to its worker, and a task in it is new to everybody.
LEMMA SendKeeps ==
    ASSUME IInv, NEW w \in Worker, NEW tag \in {"TASK", "IDLE", "SHUTDOWN"}, NEW x,
           SendDown(w, tag, x),
           \/ tag = "TASK" /\ next < NT /\ x = next + 1 /\ next' = next + 1
           \/ tag # "TASK" /\ x = 0 /\ UNCHANGED next,
           UNCHANGED <<nworkers, received, results, mcode, recvCtr, worker, up, env>>,
           mpc' \in MasterAt, idx' \in Worker, Loop'
    PROVE  IInv'
<1>1. /\ x \in 0 .. NT /\ next' \in 0 .. NT /\ next \in 0 .. NT /\ next <= next'
      /\ (tag = "TASK" => x = next + 1 /\ x = next')
  BY LoopTypes, Types DEF MasterOK
<1> DEFINE f == Frame(sendCtr[w], tag, x)
<1>2. f \in Frames
  BY <1>1, LoopTypes DEF Frame, Frames
<1>3. f.ctr = sendCtr[w] /\ f.tag = tag /\ f.task = x
  BY DEF Frame
<1>4. PICK g : g = Face(f)
  OBVIOUS
<1>5. g.ctr = sendCtr[w] /\ g.tag = tag /\ g.task = x /\ g \in FaceSet
  BY <1>2, <1>3, <1>4, FaceType
<1>6. /\ down' = [down EXCEPT ![w] = Append(down[w], f)]
      /\ sendCtr' = [sendCtr EXCEPT ![w] = sendCtr[w] + 1]
  BY DEF SendDown
<1>7. /\ Append(down[w], f) \in Seq(Frames)
      /\ \A y \in Faces(Append(down[w], f)) : y \in Faces(down[w]) \/ y = g
  BY <1>2, <1>4, Types, AppendFaces
<1> HIDE DEF f
<1>8. /\ QueuesOK'
      /\ \A v \in Worker : \A y \in Faces(down'[v]) : y \in Faces(down[v]) \/ (v = w /\ y = g)
  BY <1>6, <1>7, Types DEF QueuesOK
<1>9. /\ CountersOK' /\ sendCtr'[w] = sendCtr[w] + 1
      /\ \A v \in Worker : sendCtr[v] <= sendCtr'[v]
  <2>1. \A v \in Worker : sendCtr[v] \in Nat
    BY LoopTypes
  <2>2. sendCtr \in [Worker -> Nat] /\ UNCHANGED <<recvCtr, wSendCtr, wRecvCtr>>
    BY Types DEF CountersOK, worker
  <2>3. sendCtr' \in [Worker -> Nat] /\ sendCtr'[w] = sendCtr[w] + 1
        /\ \A v \in Worker : v # w => sendCtr'[v] = sendCtr[v]
    BY <1>6, <2>1, <2>2
  <2>4. CountersOK'
    BY <2>2, <2>3, Types DEF CountersOK
  <2> QED
    BY <2>1, <2>3, <2>4
<1>10. (MasterOK /\ WorkersOK /\ EnvOK)'
  BY <1>1, Types DEF MasterOK, WorkersOK, EnvOK, worker, env
<1>11. TypeOK'
  BY <1>8, <1>9, <1>10 DEF TypeOK, QueuesOK, CountersOK, MasterOK, WorkersOK, EnvOK
<1>12. UNCHANGED <<wpc, wtask, worked, wSendCtr, wRecvCtr>>
  BY DEF worker
<1>13. UpOK' /\ Replying'
  BY <1>12, UpKept, ReplyingKept
<1>14. Once' /\ Counters'
  <2>1. Counters'
    <3>1. ASSUME NEW v \in Worker
          PROVE  wRecvCtr[v] <= sendCtr'[v]
      <4>1. /\ wRecvCtr[v] \in Nat /\ sendCtr[v] \in Nat /\ sendCtr'[v] \in Nat
            /\ wRecvCtr[v] <= sendCtr[v] /\ sendCtr[v] <= sendCtr'[v]
        BY <1>9, LoopTypes DEF IInv, Counters, CountersOK
      <4> QED
        BY ONLY <4>1
    <3> QED
      BY <1>12, <3>1 DEF IInv, Counters
  <2>2. ASSUME NEW t \in Task, worked[t] = 1 PROVE t <= next'
    BY <1>1, <2>2, Numbers DEF IInv, Once
  <2> QED
    BY <1>12, <2>1, <2>2 DEF IInv, Once
<1>15. DownOK'
  <2>1. ASSUME NEW v \in Worker, NEW y \in Faces(down'[v])
        PROVE  /\ y.ctr < sendCtr'[v]
               /\ y.tag = "TASK" => /\ y.task \in 1 .. next'
                                    /\ y.ctr >= wRecvCtr[v] => worked[y.task] = 0
    <3>1. CASE y \in Faces(down[v])
      <4>1. y \in FaceSet
        BY <3>1, Types
      <4>2. y.ctr < sendCtr[v] /\ (y.tag = "TASK" => /\ y.task \in 1 .. next
                                    /\ (y.ctr >= wRecvCtr[v] => worked[y.task] = 0))
        BY <3>1 DEF IInv, DownOK
      <4>3. y.ctr < sendCtr'[v]
        <5>1. /\ y.ctr \in Nat /\ sendCtr[v] \in Nat /\ sendCtr'[v] \in Nat
              /\ y.ctr < sendCtr[v] /\ sendCtr[v] <= sendCtr'[v]
          BY <1>9, <4>1, <4>2, LoopTypes DEF FaceSet, CountersOK
        <5> QED
          BY ONLY <5>1
      <4>4. 1 .. next \subseteq 1 .. next'
        BY ONLY <1>1
      <4> QED
        BY <4>2, <4>3, <4>4
    <3>2. CASE v = w /\ y = g
      <4>1. tag = "TASK" => x \in Task /\ ~(x <= next)
        BY <1>1, LoopTypes DEF Task
      <4>2. tag = "TASK" => worked[x] = 0
        BY <4>1 DEF IInv, Once
      <4>3. tag = "TASK" => x \in 1 .. next'
        BY <1>1, LoopTypes
      <4> QED
        BY <1>5, <1>9, <3>2, <4>2, <4>3, LoopTypes
    <3> QED
      BY <1>8, <3>1, <3>2
  <2>2. ASSUME NEW v \in Worker, NEW u \in Worker, NEW y \in Faces(down'[v]),
               NEW z \in Faces(down'[u]), y.tag = "TASK", z.tag = "TASK", y.task = z.task
        PROVE  v = u /\ y.ctr = z.ctr
    <3>1. ASSUME NEW r \in Worker, NEW o \in Faces(down[r]), o.tag = "TASK"
          PROVE  o.task # next + 1
      BY <3>1, LoopTypes DEF IInv, DownOK
    <3> QED
      BY <1>1, <1>5, <1>8, <2>2, <3>1 DEF IInv, DownOK
  <2> QED
    BY <1>12, <2>1, <2>2 DEF DownOK
<1> QED
  BY <1>11, <1>13, <1>14, <1>15 DEF IInv

\* HandOut is such a send.
LEMMA HandOutSends ==
    ASSUME NEW w \in Worker, HandOut(w)
    PROVE  \E tag \in {"TASK", "IDLE", "SHUTDOWN"}, x \in {0, next + 1} :
              /\ SendDown(w, tag, x)
              /\ \/ tag = "TASK" /\ next < NT /\ x = next + 1 /\ next' = next + 1
                 \/ tag # "TASK" /\ x = 0 /\ UNCHANGED next
  BY DEF HandOut

LEMMA ScatterInvariant ==
    ASSUME IInv, Scatter PROVE IInv'
<1>1. /\ mpc = "scatter" /\ HandOut(idx) /\ NextWorker("scatter", "poll")
      /\ UNCHANGED <<nworkers, received, results, mcode, recvCtr, worker, up, env>>
  BY DEF Scatter
<1>2. sendCtr' = [sendCtr EXCEPT ![idx] = sendCtr[idx] + 1]
  BY <1>1 DEF HandOut, SendDown
<1>3. idx \in 1 .. nworkers /\ \A w \in 1 .. nworkers :
         sendCtr[w] = IF w < idx THEN recvCtr[w] + 1 ELSE recvCtr[w]
  BY <1>1 DEF IInv, Loop, Owed
<1>4. \A w \in 1 .. nworkers : sendCtr'[w] = IF w <= idx THEN recvCtr[w] + 1 ELSE recvCtr[w]
  BY <1>2, <1>3, LoopTypes, Types DEF CountersOK
<1>5. Loop' /\ mpc' \in MasterAt /\ idx' \in Worker
  <2>1. CASE idx < nworkers /\ idx' = idx + 1 /\ mpc' = "scatter"
    BY <1>1, <1>3, <1>4, <2>1, LoopTypes DEF Loop, Owed, MasterAt
  <2>2. CASE idx >= nworkers /\ idx' = 1 /\ mpc' = "poll"
    BY <1>1, <1>3, <1>4, <2>2, LoopTypes, Numbers DEF Loop, Owed, MasterAt
  <2> QED
    BY <1>1, <2>1, <2>2, LoopTypes DEF NextWorker
<1> QED
  BY <1>1, <1>5, LoopTypes, HandOutSends, SendKeeps

LEMMA AnswerInvariant ==
    ASSUME IInv, Answer PROVE IInv'
<1>1. /\ mpc = "answer" /\ HandOut(idx) /\ Sweep
      /\ UNCHANGED <<nworkers, received, results, mcode, recvCtr, worker, up, env>>
  BY DEF Answer
<1>2. sendCtr' = [sendCtr EXCEPT ![idx] = sendCtr[idx] + 1]
  BY <1>1 DEF HandOut, SendDown
<1>3. idx \in 1 .. nworkers /\ \A w \in 1 .. nworkers :
         sendCtr[w] = IF w # idx THEN recvCtr[w] + 1 ELSE recvCtr[w]
  BY <1>1 DEF IInv, Loop, Owed
<1>4. \A w \in 1 .. nworkers : sendCtr'[w] = recvCtr[w] + 1
  BY <1>2, <1>3, LoopTypes, Types DEF CountersOK
<1>5. mpc' = "poll" /\ idx' \in 1 .. nworkers /\ idx' \in Worker
  BY <1>1, SweepLoop
<1>6. Loop' /\ mpc' \in MasterAt
  BY <1>1, <1>4, <1>5 DEF Loop, Owed, MasterAt
<1> QED
  BY <1>1, <1>5, <1>6, LoopTypes, HandOutSends, SendKeeps

LEMMA SendShutdownInvariant ==
    ASSUME IInv, SendShutdown PROVE IInv'
<1>1. /\ mpc = "shutdown" /\ SendDown(idx, "SHUTDOWN", 0) /\ mpc' = "disconnect"
      /\ UNCHANGED <<nworkers, idx, next, received, results, mcode, recvCtr, worker, up, env>>
  BY DEF SendShutdown
<1>2. Loop' /\ mpc' \in MasterAt
  BY <1>1 DEF IInv, Loop, MasterAt
<1> QED
  BY <1>1, <1>2, LoopTypes, SendKeeps

\* A result that opens is the one the master waits for, and a new one.
LEMMA ReceiveResultInvariant ==
    ASSUME IInv, ReceiveResult PROVE IInv'
<1>1. PICK w : w = idx
  OBVIOUS
<1>2. PICK f : f = Head(up[w])
  OBVIOUS
<1>3. /\ mpc = "poll" /\ up[w] # <<>> /\ up' = [up EXCEPT ![w] = Tail(up[w])]
      /\ UNCHANGED <<nworkers, next, mcode, sendCtr, worker, down, env>>
      /\ recvCtr' = Advance(recvCtr, w, f)
  BY <1>1, <1>2 DEF ReceiveResult
<1>4. w \in 1 .. nworkers /\ w \in Worker
  BY <1>1, <1>3, LoopTypes
<1>5. /\ f \in Frames /\ Face(f) \in Faces(up[w]) /\ Tail(up[w]) \in Seq(Frames)
      /\ \A x \in Faces(Tail(up[w])) : x \in Faces(up[w])
  BY <1>2, <1>3, <1>4, Types, TailFaces
<1>6. /\ QueuesOK' /\ EnvOK' /\ UNCHANGED <<wpc, wtask, worked, wSendCtr, wRecvCtr>>
      /\ \A v \in Worker : \A x \in Faces(up'[v]) : x \in Faces(up[v])
  BY <1>3, <1>4, <1>5, Types DEF QueuesOK, EnvOK, env, worker
<1>7. CASE ~Opens(f, recvCtr[w])
  <2>1. Sweep /\ UNCHANGED <<received, results, recvCtr>>
    BY <1>1, <1>2, <1>3, <1>7 DEF ReceiveResult, Advance
  <2>2. mpc' = "poll" /\ idx' \in 1 .. nworkers /\ idx' \in Worker
    BY <1>3, <2>1, SweepLoop
  <2>3. Loop'
    BY <1>3, <2>1, <2>2 DEF IInv, Loop, Owed
  <2> QED
    BY <1>3, <1>6, <2>1, <2>2, <2>3, LoopTypes, Shrinks DEF MasterAt
<1>8. CASE Opens(f, recvCtr[w])
  <2>1. /\ received' = received + 1 /\ results' = results \cup {f.task} /\ mpc' = "answer"
        /\ UNCHANGED idx /\ recvCtr' = [recvCtr EXCEPT ![w] = f.ctr + 1]
        /\ f.ctr >= recvCtr[w]
    BY <1>1, <1>2, <1>3, <1>8 DEF ReceiveResult, Advance, Opens
  <2>2. /\ f.ctr < wSendCtr[w] /\ f.task \in Task /\ worked[f.task] = 1
        /\ f.task \notin results
    BY <1>4, <1>5, <2>1, FaceType DEF IInv, UpOK
  <2>3. f.ctr = recvCtr[w] /\ recvCtr[w] \in Nat /\ sendCtr[w] = recvCtr[w] + 1
    <3>1. f.ctr \in Nat /\ recvCtr[w] \in Nat /\ wSendCtr[w] \in Nat /\ wRecvCtr[w] \in Nat
      BY <1>4, <1>5, LoopTypes DEF Frames
    <3>2. wSendCtr[w] <= wRecvCtr[w] /\ wRecvCtr[w] <= sendCtr[w]
      BY <1>4 DEF IInv, Counters
    <3>3. sendCtr[w] = recvCtr[w] + 1
      BY <1>3, <1>4 DEF IInv, Loop, Owed
    <3>4. f.ctr >= recvCtr[w] /\ f.ctr < wSendCtr[w]
      BY <2>1, <2>2
    <3> QED
      BY ONLY <3>1, <3>2, <3>3, <3>4
  <2>4. /\ recvCtr' \in [Worker -> Nat] /\ recvCtr'[w] = recvCtr[w] + 1
        /\ \A v \in Worker : v # w => recvCtr'[v] = recvCtr[v]
    BY <1>4, <2>1, <2>3, Types DEF CountersOK
  <2>5. /\ results' \subseteq Task /\ received' = Cardinality(results') /\ received' \in 0 .. NT
    <3>1. IsFiniteSet(Task) /\ Cardinality(Task) = NT
      BY FS_Interval DEF Task
    <3>2. results \subseteq Task /\ received = Cardinality(results)
      BY Types DEF IInv, Once, MasterOK
    <3>3. results' \subseteq Task
      BY <2>1, <2>2, <3>2
    <3>4. IsFiniteSet(results) /\ IsFiniteSet(results') /\ Cardinality(results') <= NT
      BY <3>1, <3>2, <3>3, FS_Subset
    <3>5. Cardinality(results') = received + 1
      BY <2>1, <2>2, <3>2, <3>4, FS_AddElement
    <3>6. received \in 0 .. NT
      BY Types DEF MasterOK
    <3> QED
      BY <2>1, <3>3, <3>4, <3>5, <3>6
  <2>6. TypeOK'
    <3>1. (CountersOK /\ MasterOK /\ WorkersOK)'
      BY <1>3, <1>6, <2>1, <2>4, <2>5, Types DEF CountersOK, MasterOK, WorkersOK, MasterAt
    <3> QED
      BY <1>6, <3>1 DEF TypeOK, QueuesOK, CountersOK, MasterOK, WorkersOK, EnvOK
  <2>7. DownOK'
    BY <1>3, <1>6, DownKept
  <2>8. UpOK'
    <3>1. ASSUME NEW v \in Worker, NEW y \in Faces(up'[v])
          PROVE  /\ y.ctr < wSendCtr[v] /\ y.task \in Task /\ worked[y.task] = 1
                 /\ y.ctr >= recvCtr'[v] => y.task \notin results'
      <4>1. y \in Faces(up[v]) /\ y.ctr \in Nat
        BY <1>6, Types DEF FaceSet
      <4>2. /\ y.ctr < wSendCtr[v] /\ y.task \in Task /\ worked[y.task] = 1
            /\ y.ctr >= recvCtr[v] => y.task \notin results
        BY <4>1 DEF IInv, UpOK
      <4>3. y.task = f.task => v = w /\ y.ctr = f.ctr
        BY <1>4, <1>5, <4>1, FaceType DEF IInv, UpOK
      <4>4. CASE v = w
        BY <2>1, <2>3, <2>4, <4>1, <4>2, <4>3, <4>4
      <4>5. CASE v # w
        BY <2>1, <2>4, <4>2, <4>3, <4>5
      <4> QED
        BY <4>4, <4>5
    <3>2. \A v, u \in Worker : \A y \in Faces(up'[v]), z \in Faces(up'[u]) :
             y.task = z.task => v = u /\ y.ctr = z.ctr
      BY <1>6 DEF IInv, UpOK
    <3> QED
      BY <1>6, <3>1, <3>2 DEF UpOK
  <2>9. Replying'
    <3>1. \A v \in Worker : wpc[v] = "reply" => wtask[v] # f.task
      BY <1>4, <1>5, FaceType DEF IInv, Replying
    <3> QED
      BY <1>6, <2>1, <3>1 DEF IInv, Replying
  <2>10. Once'
    BY <1>3, <1>6, <2>1, <2>2, <2>5 DEF IInv, Once
  <2>11. Counters'
    <3>1. ASSUME NEW v \in Worker PROVE recvCtr'[v] <= wSendCtr[v]
      <4>1. CASE v = w
        BY <1>4, <2>2, <2>3, <2>4, <4>1, LoopTypes
      <4>2. CASE v # w
        BY <2>4, <4>2 DEF IInv, Counters
      <4> QED
        BY <4>1, <4>2
    <3> QED
      BY <1>3, <1>6, <3>1 DEF IInv, Counters
  <2>12. Loop'
    <3>1. ASSUME NEW v \in 1 .. nworkers
          PROVE  sendCtr[v] = IF v # w THEN recvCtr'[v] + 1 ELSE recvCtr'[v]
      <4>1. v \in Worker /\ sendCtr[v] = recvCtr[v] + 1
        BY <1>3, LoopTypes DEF IInv, Loop, Owed
      <4> QED
        BY <2>3, <2>4, <4>1
    <3> QED
      BY <1>1, <1>3, <1>4, <2>1, <3>1 DEF Loop, Owed
  <2> QED
    BY <2>6, <2>7, <2>8, <2>9, <2>10, <2>11, <2>12 DEF IInv
<1> QED
  BY <1>7, <1>8
-----------------------------------------------------------------------------
(* The steps of a worker *)

\* A frame that opens moves the counter of the worker past it.
LEMMA ReceiveFrameInvariant ==
    ASSUME IInv, NEW w \in Worker, ReceiveFrame(w) PROVE IInv'
<1>1. PICK f : f = Head(down[w])
  OBVIOUS
<1>2. /\ wpc[w] = "loop" /\ down[w] # <<>> /\ down' = [down EXCEPT ![w] = Tail(down[w])]
      /\ UNCHANGED <<master, wSendCtr, up, env>> /\ wRecvCtr' = Advance(wRecvCtr, w, f)
  BY <1>1 DEF ReceiveFrame
<1>3. /\ f \in Frames /\ Face(f) \in Faces(down[w]) /\ Tail(down[w]) \in Seq(Frames)
      /\ \A x \in Faces(Tail(down[w])) : x \in Faces(down[w])
  BY <1>1, <1>2, Types, TailFaces
<1>4. /\ QueuesOK' /\ EnvOK' /\ UNCHANGED <<mpc, idx, nworkers, sendCtr, recvCtr, mcode>>
      /\ UNCHANGED <<next, received, results>>
      /\ \A v \in Worker : \A x \in Faces(down'[v]) : x \in Faces(down[v])
  BY <1>2, <1>3, Types DEF QueuesOK, EnvOK, env, master
<1>5. Loop' /\ MasterOK'
  BY <1>4, LoopKept, Types DEF MasterOK
<1>6. CASE ~Opens(f, wRecvCtr[w])
  <2>1. UNCHANGED <<wpc, wtask, worked, wRecvCtr>>
    BY <1>1, <1>2, <1>6 DEF ReceiveFrame, Advance
  <2> QED
    BY <1>2, <1>4, <1>5, <2>1, LoopTypes, Shrinks DEF MasterOK
<1>7. CASE Opens(f, wRecvCtr[w])
  <2>1. wRecvCtr' = [wRecvCtr EXCEPT ![w] = f.ctr + 1] /\ f.ctr >= wRecvCtr[w]
    BY <1>2, <1>7 DEF Advance, Opens
  <2>2. /\ f.ctr \in Nat /\ wRecvCtr[w] \in Nat /\ f.ctr < sendCtr[w] /\ sendCtr[w] \in Nat
    BY <1>3, LoopTypes, FaceType DEF Frames, IInv, DownOK
  <2>3. /\ wRecvCtr' \in [Worker -> Nat] /\ wRecvCtr'[w] = f.ctr + 1
        /\ \A v \in Worker : v # w => wRecvCtr'[v] = wRecvCtr[v]
    BY <2>1, <2>2, Types DEF CountersOK
  <2>4. \A v \in Worker : /\ wRecvCtr'[v] \in Nat /\ wRecvCtr[v] \in Nat
                          /\ wRecvCtr[v] <= wRecvCtr'[v]
    BY <2>1, <2>2, <2>3, LoopTypes
  <2>5. CountersOK'
    BY <1>2, <1>4, <2>3, Types DEF CountersOK
  <2>6. \A v \in Worker : /\ recvCtr[v] <= wSendCtr[v] /\ wSendCtr[v] <= wRecvCtr'[v]
                          /\ wRecvCtr'[v] <= sendCtr[v]
                          /\ v = w \/ wpc[v] = "reply" => wSendCtr[v] < wRecvCtr'[v]
    <3>1. ASSUME NEW v \in Worker
          PROVE  /\ recvCtr[v] <= wSendCtr[v] /\ wSendCtr[v] <= wRecvCtr'[v]
                 /\ wRecvCtr'[v] <= sendCtr[v]
                 /\ v = w \/ wpc[v] = "reply" => wSendCtr[v] < wRecvCtr'[v]
      <4>1. /\ recvCtr[v] <= wSendCtr[v] /\ wSendCtr[v] <= wRecvCtr[v]
            /\ wRecvCtr[v] <= sendCtr[v] /\ (wpc[v] = "reply" => wSendCtr[v] < wRecvCtr[v])
            /\ wSendCtr[v] \in Nat /\ wRecvCtr[v] \in Nat /\ sendCtr[v] \in Nat
        BY LoopTypes DEF IInv, Counters
      <4>2. CASE v = w
        BY <2>1, <2>2, <2>3, <4>1, <4>2
      <4>3. CASE v # w
        BY <2>3, <4>1, <4>3
      <4> QED
        BY <4>2, <4>3
    <3> QED
      BY <3>1
  <2>7. CASE UNCHANGED <<wtask, worked>> /\ wpc' \in {wpc, [wpc EXCEPT ![w] = "disconnect"]}
    <3>1. WorkersOK' /\ \A v \in Worker : wpc'[v] = "reply" => wpc[v] = "reply"
      BY <2>7, Types DEF WorkersOK, WorkerAt
    <3>2. TypeOK'
      BY <1>4, <1>5, <2>5, <3>1 DEF TypeOK, QueuesOK, CountersOK, MasterOK, WorkersOK, EnvOK
    <3>3. UpOK' /\ Replying'
      BY <1>2, <1>4, <2>7, <3>1, UpKept, ReplyingKept
    <3>4. Once' /\ Counters'
      BY <1>2, <1>4, <2>6, <2>7, <3>1 DEF IInv, Once, Counters
    <3>5. DownOK'
      <4>1. ASSUME NEW v \in Worker, NEW y \in Faces(down'[v]), y.ctr >= wRecvCtr'[v]
            PROVE  y.ctr >= wRecvCtr[v]
        <5>1. y.ctr \in Nat
          BY <1>4, Types DEF FaceSet
        <5> QED
          BY <2>4, <4>1, <5>1
      <4> QED
        BY <1>4, <2>7, <4>1 DEF IInv, DownOK
    <3> QED
      BY <1>5, <3>2, <3>3, <3>4, <3>5 DEF IInv
  <2>8. CASE /\ f.tag = "TASK" /\ wpc' = [wpc EXCEPT ![w] = "reply"]
             /\ wtask' = [wtask EXCEPT ![w] = f.task]
             /\ worked' = [worked EXCEPT ![f.task] = worked[f.task] + 1]
    <3>1. PICK t : t = f.task
      OBVIOUS
    <3>2. t \in Task /\ t <= next /\ worked[t] = 0 /\ t \in 0 .. NT
      <4>1. t \in 1 .. next /\ worked[t] = 0
        BY <1>3, <2>1, <2>8, <3>1, FaceType DEF IInv, DownOK
      <4>2. next \in 0 .. NT
        BY Types DEF MasterOK
      <4> QED
        BY <4>1, <4>2 DEF Task
    <3>3. /\ worked' \in [Task -> Nat] /\ worked'[t] = 1
          /\ \A u \in Task : u # t => worked'[u] = worked[u]
      BY <2>8, <3>1, <3>2, Types DEF WorkersOK
    <3>4. /\ WorkersOK' /\ wpc'[w] = "reply" /\ wtask'[w] = t
          /\ \A v \in Worker : v # w => wpc'[v] = wpc[v] /\ wtask'[v] = wtask[v]
      BY <2>8, <3>1, <3>2, <3>3, Types DEF WorkersOK, WorkerAt
    <3>5. TypeOK'
      BY <1>4, <1>5, <2>5, <3>4 DEF TypeOK, QueuesOK, CountersOK, MasterOK, WorkersOK, EnvOK
    <3>6. DownOK'
      <4>1. ASSUME NEW v \in Worker, NEW y \in Faces(down'[v])
            PROVE  /\ y.ctr < sendCtr[v]
                   /\ y.tag = "TASK" => /\ y.task \in 1 .. next
                                        /\ y.ctr >= wRecvCtr'[v] => worked'[y.task] = 0
        <5>1. y \in Faces(down[v]) /\ y.ctr \in Nat
          BY <1>4, Types DEF FaceSet
        <5>2. y.ctr < sendCtr[v] /\ (y.tag = "TASK" => /\ y.task \in 1 .. next
                                      /\ (y.ctr >= wRecvCtr[v] => worked[y.task] = 0))
          BY <5>1 DEF IInv, DownOK
        <5>3. y.ctr >= wRecvCtr'[v] => y.ctr >= wRecvCtr[v]
          BY <2>4, <5>1
        <5>4. y.tag = "TASK" /\ y.task = t => v = w /\ y.ctr = f.ctr
          BY <1>3, <2>8, <3>1, <5>1, FaceType DEF IInv, DownOK
        <5>5. y.tag = "TASK" /\ y.task = t => ~(y.ctr >= wRecvCtr'[v])
          BY <2>2, <2>3, <5>4
        <5>6. y.tag = "TASK" => y.task \in Task
          <6>1. next \in 0 .. NT
            BY Types DEF MasterOK
          <6> QED
            BY <5>2, <6>1 DEF Task
        <5> QED
          BY <3>3, <5>2, <5>3, <5>5, <5>6
      <4>2. \A v, u \in Worker : \A y \in Faces(down'[v]), z \in Faces(down'[u]) :
               y.tag = "TASK" /\ z.tag = "TASK" /\ y.task = z.task => v = u /\ y.ctr = z.ctr
        BY <1>4 DEF IInv, DownOK
      <4> QED
        BY <1>4, <4>1, <4>2 DEF DownOK
    <3>7. \A v \in Worker : \A y \in Faces(up[v]) : y.task # t
      BY <3>2 DEF IInv, UpOK
    <3>8. UpOK'
      BY <1>2, <1>4, <3>3, <3>7 DEF IInv, UpOK
    <3>9. Replying'
      <4>1. t \notin results /\ \A v \in Worker : wpc[v] = "reply" => wtask[v] # t
        BY <3>2 DEF IInv, Replying, Once
      <4>2. ASSUME NEW v \in Worker, wpc'[v] = "reply"
            PROVE  /\ wtask'[v] \in Task /\ worked'[wtask'[v]] = 1 /\ wtask'[v] \notin results
                   /\ \A u \in Worker : \A y \in Faces(up[u]) : y.task # wtask'[v]
                   /\ \A u \in Worker : u # v /\ wpc'[u] = "reply" => wtask'[u] # wtask'[v]
        <5>1. CASE v = w
          BY <3>2, <3>3, <3>4, <3>7, <4>1, <5>1
        <5>2. CASE v # w
          <6>1. wpc[v] = "reply" /\ wtask'[v] = wtask[v]
            BY <3>4, <4>2, <5>2
          <6>2. /\ wtask[v] \in Task /\ worked[wtask[v]] = 1 /\ wtask[v] \notin results
                /\ \A u \in Worker : \A y \in Faces(up[u]) : y.task # wtask[v]
                /\ \A u \in Worker : u # v /\ wpc[u] = "reply" => wtask[u] # wtask[v]
            BY <6>1 DEF IInv, Replying
          <6>3. wtask[v] # t
            BY <4>1, <6>1
          <6> QED
            BY <3>3, <3>4, <6>1, <6>2, <6>3
        <5> QED
          BY <5>1, <5>2
      <4> QED
        BY <1>2, <1>4, <4>2 DEF Replying
    <3>10. Once'
      <4>1. t \notin results
        BY <3>2 DEF IInv, Once
      <4>2. results \subseteq Task
        BY Types DEF MasterOK
      <4> QED
        BY <1>4, <3>2, <3>3, <4>1, <4>2 DEF IInv, Once
    <3>11. Counters'
      BY <1>2, <1>4, <2>6, <3>4 DEF Counters
    <3> QED
      BY <1>5, <3>5, <3>6, <3>8, <3>9, <3>10, <3>11 DEF IInv
  <2> QED
    BY <1>1, <1>7, <2>7, <2>8 DEF ReceiveFrame, WorkerGoto
<1> QED
  BY <1>6, <1>7

LEMMA SendResultInvariant ==
    ASSUME IInv, NEW w \in Worker, SendResult(w) PROVE IInv'
<1> DEFINE f == Frame(wSendCtr[w], "RESULT", wtask[w])
<1>1. /\ wpc[w] = "reply" /\ up' = [up EXCEPT ![w] = Append(up[w], f)]
      /\ wSendCtr' = [wSendCtr EXCEPT ![w] = wSendCtr[w] + 1]
      /\ wpc' = [wpc EXCEPT ![w] = "loop"]
      /\ UNCHANGED <<master, wtask, worked, wRecvCtr, down, env>>
  BY DEF SendResult, WorkerGoto
<1>2. wSendCtr[w] \in Nat /\ wtask[w] \in 0 .. NT
  BY LoopTypes, Types DEF WorkersOK
<1>3. f \in Frames /\ f.ctr = wSendCtr[w] /\ f.task = wtask[w]
  BY <1>2 DEF Frame, Frames
<1>4. PICK g : g = Face(f)
  OBVIOUS
<1>5. g.ctr = wSendCtr[w] /\ g.task = wtask[w]
  BY <1>3, <1>4, FaceType
<1>6. /\ Append(up[w], f) \in Seq(Frames)
      /\ \A y \in Faces(Append(up[w], f)) : y \in Faces(up[w]) \/ y = g
  BY <1>3, <1>4, Types, AppendFaces
<1> HIDE DEF f
<1>7. /\ QueuesOK' /\ EnvOK' /\ UNCHANGED <<mpc, idx, nworkers, sendCtr, recvCtr, mcode>>
      /\ UNCHANGED <<next, received, results>>
      /\ \A v \in Worker : \A y \in Faces(up'[v]) : y \in Faces(up[v]) \/ (v = w /\ y = g)
  BY <1>1, <1>6, Types DEF QueuesOK, EnvOK, env, master
<1>8. Loop' /\ MasterOK'
  BY <1>7, LoopKept, Types DEF MasterOK
<1>9. /\ wSendCtr' \in [Worker -> Nat] /\ wSendCtr'[w] = wSendCtr[w] + 1
      /\ \A v \in Worker : v # w => wSendCtr'[v] = wSendCtr[v]
  BY <1>1, <1>2, Types DEF CountersOK
<1>10. CountersOK' /\ WorkersOK'
  BY <1>1, <1>7, <1>9, Types DEF CountersOK, WorkersOK, WorkerAt
<1>11. TypeOK'
  BY <1>7, <1>8, <1>10 DEF TypeOK, QueuesOK, CountersOK, MasterOK, WorkersOK, EnvOK
<1>12. DownOK'
  BY <1>1, <1>7, DownKept
<1>13. \A v \in Worker : v # w => wpc'[v] = wpc[v]
  BY <1>1, Types DEF WorkersOK
<1>14. wpc'[w] # "reply"
  BY <1>1, Types DEF WorkersOK
<1>15. /\ wtask[w] \in Task /\ worked[wtask[w]] = 1 /\ wtask[w] \notin results
       /\ \A v \in Worker : \A y \in Faces(up[v]) : y.task # wtask[w]
       /\ \A v \in Worker : v # w /\ wpc[v] = "reply" => wtask[v] # wtask[w]
  BY <1>1 DEF IInv, Replying
<1>16. UpOK'
  <2>1. ASSUME NEW v \in Worker, NEW y \in Faces(up'[v])
        PROVE  /\ y.ctr < wSendCtr'[v] /\ y.task \in Task /\ worked[y.task] = 1
               /\ y.ctr >= recvCtr[v] => y.task \notin results
    <3>1. CASE y \in Faces(up[v])
      <4>1. /\ y.ctr < wSendCtr[v] /\ y.task \in Task /\ worked[y.task] = 1
            /\ y.ctr >= recvCtr[v] => y.task \notin results
        BY <3>1 DEF IInv, UpOK
      <4>2. y.ctr \in Nat /\ wSendCtr[v] \in Nat
        BY <3>1, Types, LoopTypes DEF FaceSet
      <4>3. y.ctr < wSendCtr'[v]
        BY <1>9, <4>1, <4>2
      <4> QED
        BY <4>1, <4>3
    <3>2. CASE v = w /\ y = g
      BY <1>2, <1>5, <1>9, <1>15, <3>2
    <3> QED
      BY <1>7, <3>1, <3>2
  <2>2. \A v, u \in Worker : \A y \in Faces(up'[v]), z \in Faces(up'[u]) :
           y.task = z.task => v = u /\ y.ctr = z.ctr
    BY <1>5, <1>7, <1>15 DEF IInv, UpOK
  <2> QED
    BY <1>1, <1>7, <2>1, <2>2 DEF UpOK
<1>17. Replying'
  <2>1. ASSUME NEW v \in Worker, wpc'[v] = "reply"
        PROVE  /\ wtask[v] \in Task /\ worked[wtask[v]] = 1 /\ wtask[v] \notin results
               /\ \A u \in Worker : \A y \in Faces(up'[u]) : y.task # wtask[v]
               /\ \A u \in Worker : u # v /\ wpc'[u] = "reply" => wtask[u] # wtask[v]
    <3>1. v # w /\ wpc[v] = "reply"
      BY <1>13, <1>14, <2>1
    <3>2. /\ wtask[v] \in Task /\ worked[wtask[v]] = 1 /\ wtask[v] \notin results
          /\ \A u \in Worker : \A y \in Faces(up[u]) : y.task # wtask[v]
          /\ \A u \in Worker : u # v /\ wpc[u] = "reply" => wtask[u] # wtask[v]
      BY <3>1 DEF IInv, Replying
    <3>3. \A u \in Worker : \A y \in Faces(up'[u]) : y.task # wtask[v]
      BY <1>5, <1>7, <1>15, <3>1, <3>2
    <3>4. \A u \in Worker : u # v /\ wpc'[u] = "reply" => wtask[u] # wtask[v]
      BY <1>13, <1>14, <3>2
    <3> QED
      BY <3>2, <3>3, <3>4
  <2> QED
    BY <1>1, <1>7, <2>1 DEF Replying
<1>18. Once'
  BY <1>1, <1>7 DEF IInv, Once
<1>19. Counters'
  <2>1. ASSUME NEW v \in Worker
        PROVE  /\ recvCtr[v] <= wSendCtr'[v] /\ wSendCtr'[v] <= wRecvCtr[v]
               /\ wRecvCtr[v] <= sendCtr[v]
               /\ wpc'[v] = "reply" => wSendCtr'[v] < wRecvCtr[v]
    <3>1. /\ recvCtr[v] <= wSendCtr[v] /\ wSendCtr[v] <= wRecvCtr[v]
          /\ wRecvCtr[v] <= sendCtr[v] /\ (wpc[v] = "reply" => wSendCtr[v] < wRecvCtr[v])
          /\ wSendCtr[v] \in Nat /\ wRecvCtr[v] \in Nat /\ recvCtr[v] \in Nat
      BY LoopTypes DEF IInv, Counters
    <3>2. CASE v = w
      BY <1>1, <1>9, <1>14, <3>1, <3>2
    <3>3. CASE v # w
      BY <1>9, <1>13, <3>1, <3>3
    <3> QED
      BY <3>2, <3>3
  <2> QED
    BY <1>1, <1>7, <2>1 DEF Counters
<1> QED
  BY <1>8, <1>11, <1>12, <1>16, <1>17, <1>18, <1>19 DEF IInv

\* A worker that ends, in the collective disconnect or without it.
LEMMA EndsInvariant ==
    ASSUME IInv, NEW w \in Worker, Disconnect(w) \/ Kill(w) \/ MasterLost(w) PROVE IInv'
<1>1. /\ wpc' = [wpc EXCEPT ![w] = "exited"]
      /\ UNCHANGED <<nworkers, next, received, results, sendCtr, recvCtr,
                     wtask, worked, wSendCtr, wRecvCtr, down, up, mcode>>
  BY DEF Disconnect, Kill, MasterLost, WorkerGoto, master
<1>2. wpc' \in [Worker -> WorkerAt] /\ \A v \in Worker : wpc'[v] = "reply" => wpc[v] = "reply"
  BY <1>1, LoopTypes DEF WorkerAt
<1>3. EnvOK'
  BY Types DEF EnvOK, Disconnect, Kill, MasterLost, Inject, env
<1>4. mpc' \in MasterAt /\ idx' \in Worker /\ Loop'
  <2>1. CASE UNCHANGED <<mpc, idx>>
    BY <1>1, <2>1, LoopKept, Types DEF MasterOK
  <2>2. CASE Disconnect(w)
    <3>1. /\ mpc = "disconnect" /\ idx \in 1 .. nworkers
          /\ \/ idx < nworkers /\ idx' = idx + 1 /\ mpc' = "shutdown"
             \/ idx' = 1 /\ mpc' = "exited"
      BY <2>2, LoopTypes DEF Disconnect, NextWorker
    <3>2. mpc' # "exited" => idx' \in 1 .. nworkers
      BY <3>1, LoopTypes
    <3> QED
      BY <1>1, <3>1, <3>2, LoopTypes, Numbers DEF Loop, MasterAt
  <2> QED
    BY <2>1, <2>2 DEF Kill, MasterLost, master
<1>5. QueuesOK' /\ mcode' \in {0, 1}
  BY <1>1, Types, LoopTypes DEF QueuesOK
<1> QED
  BY <1>1, <1>2, <1>3, <1>4, <1>5, Shrinks
-----------------------------------------------------------------------------
(* The environment *)

\* A queue in the place of another with the same faces.
LEMMA QueueReplaced ==
    ASSUME NEW c \in [Worker -> Seq(Frames)], NEW w \in Worker, NEW r \in Seq(Frames),
           \A x \in Faces(r) : x \in Faces(c[w])
    PROVE  /\ [c EXCEPT ![w] = r] \in [Worker -> Seq(Frames)]
           /\ \A v \in Worker : \A x \in Faces([c EXCEPT ![w] = r][v]) : x \in Faces(c[v])
  OBVIOUS

LEMMA NetworkInvariant ==
    ASSUME IInv, NEW w \in Worker, Damage(w) \/ Duplicate(w) PROVE IInv'
<1>1. EnvOK' /\ UNCHANGED <<master, worker>>
  BY Types DEF Damage, Duplicate, Inject, EnvOK
<1>2. /\ UNCHANGED <<nworkers, next, received, results, sendCtr, recvCtr>>
      /\ UNCHANGED <<mpc, idx, mcode, wpc, wtask, worked, wSendCtr, wRecvCtr>>
  BY <1>1 DEF master, worker
<1>3. Loop' /\ mpc' \in MasterAt /\ idx' \in Worker /\ mcode' \in {0, 1}
      /\ wpc' \in [Worker -> WorkerAt]
  BY <1>2, LoopKept, LoopTypes, Types DEF MasterOK
<1>4. /\ down \in [Worker -> Seq(Frames)] /\ up \in [Worker -> Seq(Frames)]
      /\ down[w] \in Seq(Frames) /\ up[w] \in Seq(Frames)
  BY Types DEF QueuesOK
<1>5. /\ QueuesOK'
      /\ \A v \in Worker : \A x \in Faces(down'[v]) : x \in Faces(down[v])
      /\ \A v \in Worker : \A x \in Faces(up'[v]) : x \in Faces(up[v])
  <2>1. CASE UNCHANGED up /\ \E r \in Seq(Frames) :
               (\A x \in Faces(r) : x \in Faces(down[w])) /\ down' = [down EXCEPT ![w] = r]
    BY <1>4, <2>1, QueueReplaced DEF QueuesOK
  <2>2. CASE UNCHANGED down /\ \E r \in Seq(Frames) :
               (\A x \in Faces(r) : x \in Faces(up[w])) /\ up' = [up EXCEPT ![w] = r]
    BY <1>4, <2>2, QueueReplaced DEF QueuesOK
  <2>3. CASE Damage(w)
    BY <1>4, <2>1, <2>2, <2>3, BrokenFaces DEF Damage
  <2>4. CASE Duplicate(w)
    BY <1>4, <2>1, <2>2, <2>4, RepeatedFaces DEF Duplicate
  <2> QED
    BY <2>3, <2>4
<1> QED
  BY <1>1, <1>2, <1>3, <1>5, Shrinks
-----------------------------------------------------------------------------
(* The invariant and what follows from it *)

LEMMA InitInvariant == Init => IInv
<1> SUFFICES ASSUME Init PROVE IInv
  OBVIOUS
<1>1. /\ nworkers \in 0 .. Target /\ mpc = "start" /\ idx = 1 /\ next = 0 /\ received = 0
      /\ results = {} /\ mcode = 0
      /\ \A w \in Worker : down[w] = <<>> /\ up[w] = <<>>
      /\ \A w \in Worker : sendCtr[w] = 0 /\ recvCtr[w] = 0 /\ wSendCtr[w] = 0 /\ wRecvCtr[w] = 0
      /\ \A w \in Worker : wpc[w] \in {"loop", "exited"}
      /\ \A t \in Task : worked[t] = 0
  BY DEF Init
<1>2. TypeOK
  <2>1. QueuesOK /\ EnvOK
    BY DEF Init, QueuesOK, EnvOK
  <2>2. CountersOK /\ WorkersOK
    BY DEF Init, CountersOK, WorkersOK, WorkerAt
  <2>3. MasterOK
    BY <1>1, Numbers DEF MasterOK, MasterAt
  <2> QED
    BY <2>1, <2>2, <2>3, TypeParts
<1>3. DownOK /\ UpOK
  BY <1>1, NoFaces DEF DownOK, UpOK
<1>4. Replying
  BY <1>1 DEF Replying
<1>5. Counters
  BY <1>1 DEF Counters
<1>6. Once
  BY <1>1, FS_EmptySet DEF Once
<1>7. Loop
  BY <1>1 DEF Loop, Owed, Worker
<1> QED
  BY <1>2, <1>3, <1>4, <1>5, <1>6, <1>7 DEF IInv

LEMMA NextInvariant == IInv /\ [Next]_vars => IInv'
<1> SUFFICES ASSUME IInv, [Next]_vars PROVE IInv'
  OBVIOUS
<1>1. CASE MasterStep
  BY <1>1, StartInvariant, ScatterInvariant, PollMissInvariant, ReceiveResultInvariant,
     AnswerInvariant, LeaveSweepInvariant, SendShutdownInvariant DEF MasterStep
<1>2. ASSUME NEW w \in Worker, WorkerStep(w) PROVE IInv'
  BY <1>2, ReceiveFrameInvariant, SendResultInvariant DEF WorkerStep
<1>3. ASSUME NEW w \in Worker, Disconnect(w) \/ Kill(w) \/ MasterLost(w) PROVE IInv'
  BY <1>3, EndsInvariant
<1>4. ASSUME NEW w \in Worker, Damage(w) \/ Duplicate(w) PROVE IInv'
  BY <1>4, NetworkInvariant
<1>5. CASE PeerLost
  BY <1>5, PeerLostInvariant
<1>6. CASE UNCHANGED vars
  <2>1. /\ UNCHANGED <<nworkers, next, received, results, sendCtr, recvCtr, env, down, up>>
        /\ UNCHANGED <<mpc, idx, mcode, wpc, wtask, worked, wSendCtr, wRecvCtr>>
    BY <1>6 DEF vars, master, worker
  <2>2. mpc' \in MasterAt /\ idx' \in Worker /\ mcode' \in {0, 1} /\ wpc' \in [Worker -> WorkerAt]
    BY <2>1, LoopTypes, Types DEF MasterOK
  <2> QED
    BY <2>1, <2>2, LoopKept, MasterMoves
<1> QED
  BY <1>1, <1>2, <1>3, <1>4, <1>5, <1>6 DEF Next, Finished

\* The inductive invariant holds in every reachable state.
THEOREM Invariance == Spec => []IInv
  BY InitInvariant, NextInvariant, PTL DEF Spec

\* Every variable stays in its range; in particular results_received never
\* passes NT, so the test that ends the sweep cannot be overshot.
THEOREM TypeCorrect == Spec => []TypeOK
<1>1. IInv => TypeOK
  BY DEF IInv
<1> QED
  BY <1>1, Invariance, PTL

\* No task is computed twice and no result is counted twice, whatever is
\* damaged, repeated or killed.
THEOREM EachTaskOnce == Spec => []EachOnce
<1>1. IInv => EachOnce
  <2> SUFFICES ASSUME IInv PROVE EachOnce
    OBVIOUS
  <2>1. \A t \in Task : worked[t] <= 1
    BY DEF IInv, Once
  <2>2. results \subseteq Task
    BY Types DEF MasterOK
  <2> QED
    BY <2>1, <2>2 DEF IInv, Once, EachOnce
<1> QED
  BY <1>1, Invariance, PTL

\* Between two sweeps every worker owes the master exactly one message.
THEOREM FarmInLockstep == Spec => []Lockstep
<1>1. IInv => Lockstep
  BY DEF IInv, Loop, Owed, Lockstep
<1> QED
  BY <1>1, Invariance, PTL
=============================================================================
