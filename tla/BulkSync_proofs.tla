--------------------------- MODULE BulkSync_proofs ---------------------------
(***************************************************************************)
(* Proofs about BulkSync: the results from the table of the master to the  *)
(* file, the division of the data, and the rounds, for any number of       *)
(* workers, runs and sizes, and whatever the network, the workers and the  *)
(* disk do.                                                                *)
(***************************************************************************)
EXTENDS BulkSync, FiniteSetTheorems, TLAPS

USE WorkloadsAssumption, BulkSyncAssumption

-----------------------------------------------------------------------------
(* The inductive invariant *)

Running == {"start", "ready", "scatter", "gather", "round"}
Writing == {"write", "sync", "close", "rename"}
After   == {"shutdown", "disconnect", "open", "finalize"} \cup Writing
Saving  == {"open", "finalize"} \cup Writing

Types ==
    /\ workload \in Workload
    /\ mpc \in {"size", "exited"} \cup Running \cup After
    /\ idx \in Worker /\ pos \in Nat \ {0} /\ size \in Nat \ {0} /\ run \in 1 .. NumRuns
    /\ skipped \subseteq 1 .. size - 1
    /\ ioerr \in BOOLEAN /\ outage \in BOOLEAN
    /\ DOMAIN wpc = Worker /\ DOMAIN wcode = Worker

\* Where the master is in its loop over the sizes.
Sizing ==
    /\ mpc \in {"size", "round"} => idx = 0
    /\ mpc \in {"size"} \cup After => run = 1
    /\ mpc = "size" => size <= NumSizes + 1
    /\ mpc \in Running => /\ size <= NumSizes
                          /\ workload = "DGEMM" => ~DgemmSkips(Sizes[size])
    /\ mpc \in After => size = NumSizes + 1

\* The sizes that are behind and were not left out.
Used == (1 .. size - 1) \ skipped

UsedFit == workload = "DGEMM" => \A s \in Used : ~DgemmSkips(Sizes[s])

Done(s, r) == (s \in Used /\ r \in 1 .. NumRuns) \/ (s = size /\ r \in 1 .. run - 1)

\* g_results has exactly the runs that are done, in order.
Recorded ==
    /\ records \in Seq(Nat \X Nat)
    /\ \A k \in 1 .. Len(records) : Done(records[k][1], records[k][2])
    /\ \A s, r \in Nat : Done(s, r) => \E k \in 1 .. Len(records) : records[k] = <<s, r>>
    /\ \A j, k \in 1 .. Len(records) : j < k => Before(records[j], records[k])
    /\ Len(records) = NumRuns * Cardinality(Used) + (run - 1)

\* What is in the directory is complete and on the disk.
Kept(f) == f.whole /\ f.synced /\ (f.new => AllRows(f.rows) /\ mpc \in {"finalize", "exited"})

Files ==
    /\ Kept(csv) /\ Kept(oldcsv)
    /\ tmp \in [there : BOOLEAN, new : BOOLEAN, whole : BOOLEAN, synced : BOOLEAN,
                rows : Seq(Nat \X Nat)]
    /\ mpc \in {"sync", "close", "rename"} /\ ~ioerr => tmp.whole /\ tmp.rows = records
    /\ mpc \in {"close", "rename"} /\ ~ioerr => tmp.synced
    /\ mpc \notin Writing \cup {"exited"} => tmp = NoFile
    /\ mpc = "exited" /\ mcode \in {0, 1} /\ ~outage => tmp = NoFile

Left(w) == Gone(w) /\ wcode[w] = 0

\* The master takes leave of one worker after the other.
Leaving ==
    /\ mpc \in {"shutdown", "disconnect"} => \A w \in 0 .. idx - 1 : Left(w)
    /\ mpc \in Saving \/ (mpc = "exited" /\ mcode = 0) => \A w \in Worker : Left(w)
    /\ mpc = "exited" /\ mcode = 0 => outage \/ csv.new

IInv == Types /\ Sizing /\ UsedFit /\ Recorded /\ Files /\ Leaving
-----------------------------------------------------------------------------
(* The table of results *)

LEMMA Steps ==
    ASSUME NEW a \in Nat, NEW c \in Nat, NEW t \in Nat, NEW m \in Nat, NEW r \in 1 .. a,
           c + 1 <= t, a * t <= m
    PROVE  a * c + (r - 1) < m
<1>1. PICK d \in Nat : t = (c + 1) + d
  <2>1. t - (c + 1) \in Nat /\ t = (c + 1) + (t - (c + 1))
    OBVIOUS
  <2> QED
    BY <2>1
<1>2. a * t = a * c + a + a * d
  BY <1>1
<1>3. a * c \in Nat /\ a * d \in Nat
  OBVIOUS
<1> QED
  BY <1>2, <1>3

LEMMA UsedFinite ==
    ASSUME IInv
    PROVE  IsFiniteSet(Used) /\ Cardinality(Used) \in Nat /\ size \notin Used
<1>1. size \in Nat \ {0}
  BY DEF IInv, Types
<1>2. IsFiniteSet(1 .. size - 1) /\ Used \subseteq 1 .. size - 1
  BY <1>1, FS_Interval DEF Used
<1>3. IsFiniteSet(Used)
  BY <1>2, FS_Subset
<1> QED
  BY <1>1, <1>2, <1>3, FS_CardinalityType

\* The table is never full.
LEMMA Fits ==
    ASSUME IInv, mpc \in Running PROVE ResultFits
<1>1. /\ size \in Nat \ {0} /\ run \in 1 .. NumRuns /\ size <= NumSizes
      /\ Len(records) = NumRuns * Cardinality(Used) + (run - 1)
  BY DEF IInv, Types, Sizing, Recorded
<1>2. CASE workload = "DGEMM"
  <2> DEFINE T == {i \in DOMAIN Sizes : ~DgemmSkips(Sizes[i])}
  <2>1. DOMAIN Sizes = 1 .. Len(Sizes) /\ Len(Sizes) \in Nat /\ NumSizes = Len(Sizes)
    BY <1>2 DEF NumSizes
  <2>2. IsFiniteSet(T)
    <3>1. IsFiniteSet(1 .. Len(Sizes))
      BY <2>1, FS_Interval
    <3> QED
      BY <2>1, <3>1, FS_Subset
  <2>3. Used \cup {size} \subseteq T
    <3>1. size \in T
      BY <1>1, <1>2, <2>1 DEF IInv, Sizing
    <3>2. ASSUME NEW s \in Used PROVE s \in T
      <4>1. s \in 1 .. Len(Sizes)
        BY <1>1, <2>1 DEF Used
      <4> QED
        BY <1>2, <2>1, <4>1 DEF IInv, UsedFit
    <3> QED
      BY <3>1, <3>2
  <2>4. Cardinality(Used \cup {size}) = Cardinality(Used) + 1
    BY UsedFinite, FS_AddElement
  <2>5. Cardinality(T) \in Nat /\ Cardinality(Used) + 1 <= Cardinality(T)
    BY <2>2, <2>3, <2>4, FS_Subset, FS_CardinalityType
  <2>6. NumRuns * Cardinality(T) <= MaxResults
    OBVIOUS
  <2> HIDE DEF T
  <2>7. NumRuns * Cardinality(Used) + (run - 1) < MaxResults
    BY <1>1, <2>5, <2>6, UsedFinite, Steps
  <2> QED
    BY <1>1, <2>7 DEF ResultFits
<1>3. CASE workload # "DGEMM"
  <2>1. size = 1
    BY <1>1, <1>3 DEF NumSizes
  <2>2. Used = {}
    BY <2>1 DEF Used
  <2>3. Cardinality(Used) = 0
    BY <2>2, FS_EmptySet
  <2>4. Len(records) = run - 1
    BY <1>1, <2>3
  <2> QED
    BY <1>1, <2>4 DEF ResultFits
<1> QED
  BY <1>2, <1>3

LEMMA RecordedKept ==
    ASSUME IInv, UNCHANGED <<workload, size, run, records, skipped>>
    PROVE  Recorded' /\ UsedFit'
  BY DEF IInv, Recorded, UsedFit, Used, Done

LEMMA DoneTypes ==
    ASSUME IInv, NEW s, NEW r, Done(s, r)
    PROVE  s \in Nat /\ r \in Nat /\ (s < size \/ (s = size /\ r < run))
  BY DEF IInv, Types, Done, Used

LEMMA OneMoreRecord ==
    ASSUME IInv, records' = Append(records, <<size, run>>),
           \A s, r \in Nat : Done(s, r)' <=> Done(s, r) \/ (s = size /\ r = run),
           Len(records) + 1 = NumRuns * Cardinality(Used') + (run' - 1)
    PROVE  Recorded'
<1> DEFINE P == Nat \X Nat
           m == <<size, run>>
<1>1. size \in Nat /\ run \in Nat /\ m \in P /\ records \in Seq(P) /\ m[1] = size /\ m[2] = run
  BY DEF IInv, Types, Recorded
<1> HIDE DEF P, m
<1>2. records' = Append(records, m)
  BY DEF m
<1>3. /\ records' \in Seq(P) /\ Len(records') = Len(records) + 1 /\ Len(records) \in Nat
      /\ \A k \in 1 .. Len(records) : records'[k] = records[k]
      /\ records'[Len(records) + 1] = m
  BY ONLY <1>1, <1>2
<1>4. ASSUME NEW k \in 1 .. Len(records'), k \notin 1 .. Len(records)
      PROVE  k = Len(records) + 1
  BY <1>3, <1>4
<1>5. \A k \in 1 .. Len(records) : Done(records[k][1], records[k][2])
  BY DEF IInv, Recorded
<1>6. ASSUME NEW k \in 1 .. Len(records') PROVE Done(records[k][1], records[k][2])'
  <2>1. CASE k \in 1 .. Len(records)
    <3>1. records'[k] = records[k] /\ Done(records[k][1], records[k][2])
      BY <1>3, <1>5, <2>1
    <3>2. PICK x : x = records[k][1]
      OBVIOUS
    <3>3. PICK y : y = records[k][2]
      OBVIOUS
    <3>4. x \in Nat /\ y \in Nat /\ Done(x, y)
      BY <3>1, <3>2, <3>3, DoneTypes
    <3>5. Done(x, y)'
      BY <3>4
    <3> QED
      BY <3>1, <3>2, <3>3, <3>5 DEF Done
  <2>2. CASE k = Len(records) + 1
    <3>1. PICK x : x = size
      OBVIOUS
    <3>2. PICK y : y = run
      OBVIOUS
    <3>3. Done(x, y)'
      BY <1>1, <3>1, <3>2
    <3>4. records'[k][1] = x /\ records'[k][2] = y
      BY <1>1, <1>3, <2>2, <3>1, <3>2
    <3> QED
      BY <3>3, <3>4 DEF Done
  <2> QED
    BY <1>4, <2>1, <2>2
<1>7. ASSUME NEW s \in Nat, NEW r \in Nat, Done(s, r)'
      PROVE  \E k \in 1 .. Len(records') : records'[k] = <<s, r>>
  <2>1. CASE Done(s, r)
    <3>1. PICK k \in 1 .. Len(records) : records[k] = <<s, r>>
      BY <2>1 DEF IInv, Recorded
    <3>2. k \in 1 .. Len(records') /\ records'[k] = <<s, r>>
      BY <1>3, <3>1
    <3> QED
      BY <3>2
  <2>2. CASE s = size /\ r = run
    <3>1. Len(records) + 1 \in 1 .. Len(records') /\ m = <<s, r>>
      BY <1>3, <2>2 DEF m
    <3> QED
      BY <1>3, <3>1
  <2> QED
    BY <1>7, <2>1, <2>2
<1>8. ASSUME NEW j \in 1 .. Len(records'), NEW k \in 1 .. Len(records'), j < k
      PROVE  Before(records'[j], records'[k])
  <2>1. j \in 1 .. Len(records)
    BY <1>3, <1>8
  <2>2. CASE k \in 1 .. Len(records)
    <3>1. Before(records[j], records[k])
      BY <1>8, <2>1, <2>2 DEF IInv, Recorded
    <3> QED
      BY <1>3, <2>1, <2>2, <3>1
  <2>3. CASE k = Len(records) + 1
    <3>1. records[j][1] < size \/ (records[j][1] = size /\ records[j][2] < run)
      BY <1>5, <2>1, DoneTypes
    <3>2. records'[j] = records[j] /\ records'[k] = m
      BY <1>3, <2>1, <2>3
    <3> QED
      BY <1>1, <3>1, <3>2 DEF Before
  <2> QED
    BY <1>4, <2>2, <2>3
<1>9. records' \in Seq(Nat \X Nat)
  BY <1>3 DEF P
<1>10. Len(records') = NumRuns * Cardinality(Used') + (run' - 1)
  BY <1>3
<1> QED
  BY <1>6, <1>7, <1>8, <1>9, <1>10 DEF Recorded
-----------------------------------------------------------------------------
(* The steps of the workers and of the network *)

\* What the invariant looks at but the workers and the place of the master.
kept == <<workload, size, run, records, skipped, ioerr, tmp, csv, oldcsv, outage>>

LEMMA FilesKept ==
    ASSUME IInv, UNCHANGED <<kept, mpc, mcode>> PROVE Files'
  BY DEF IInv, Files, Kept, AllRows, NumSizes, kept

\* A step of a worker that is not gone, and of nobody else.
LEMMA WorkerAlone ==
    ASSUME IInv, NEW w \in Worker, wpc[w] # "exited", UNCHANGED <<kept, mpc, idx, pos, mcode>>,
           DOMAIN wpc' = Worker, DOMAIN wcode' = Worker,
           \A v \in Worker : v # w => wpc'[v] = wpc[v] /\ wcode'[v] = wcode[v]
    PROVE  IInv'
<1>1. Types' /\ Sizing'
  BY DEF IInv, Types, Sizing, NumSizes, kept
<1>2. Recorded' /\ UsedFit'
  BY RecordedKept DEF kept
<1>3. \A v \in Worker : Left(v) => Left(v)'
  BY DEF Left, Gone
<1>4. Leaving'
  <2>1. 0 .. idx - 1 \subseteq Worker
    BY DEF IInv, Types, Worker
  <2> QED
    BY <1>3, <2>1 DEF IInv, Leaving, kept
<1> QED
  BY <1>1, <1>2, <1>4, FilesKept DEF IInv

\* The bookkeeping of the model under which every worker step falls.
LEMMA WorkerStepInvariant ==
    ASSUME IInv, NEW w \in Worker, WorkerStep(w) PROVE IInv'
<1>1. DOMAIN wpc = Worker /\ DOMAIN wcode = Worker
  BY DEF IInv, Types
<1>2. CASE ReceiveCommand(w)
  <2>1. wpc[w] # "exited" /\ UNCHANGED <<config, place, work, output, mcode, env>>
    BY <1>2 DEF ReceiveCommand
  <2>2. \E pc : wpc' = [wpc EXCEPT ![w] = pc]
    BY <1>2 DEF ReceiveCommand, WorkerExit, WorkerGoto
  <2>3. wcode' = wcode \/ wcode' = [wcode EXCEPT ![w] = 1]
    BY <1>2 DEF ReceiveCommand, WorkerExit
  <2> QED
    BY <1>1, <2>1, <2>2, <2>3, WorkerAlone DEF kept, config, place, work, output, env
<1>3. ASSUME NEW here, here # "exited", NEW seq, NEW after, Receive(w, here, seq, after)
      PROVE  IInv'
  <2>1. wpc[w] # "exited" /\ UNCHANGED <<config, place, work, output, mcode, env>>
    BY <1>3 DEF Receive
  <2>2. \/ wpc' = wpc
        \/ \E pc : wpc' = [wpc EXCEPT ![w] = pc]
    BY <1>3 DEF Receive, NextInProgram, WorkerFails, WorkerExit, WorkerGoto
  <2>3. wcode' = wcode \/ wcode' = [wcode EXCEPT ![w] = 1]
    BY <1>3 DEF Receive, WorkerFails, WorkerExit
  <2> QED
    BY <1>1, <2>1, <2>2, <2>3, WorkerAlone DEF kept, config, place, work, output, env
<1>4. CASE ReceiveMatrix(w) \/ ReceiveInput(w)
  BY <1>3, <1>4 DEF ReceiveMatrix, ReceiveInput
<1>5. CASE Ready(w)
  BY <1>1, <1>5, WorkerAlone
     DEF Ready, SendReady, WorkerGoto, kept, config, place, work, output, env
<1>6. CASE SendOutput(w)
  <2>1. /\ wpc[w] # "exited" /\ UNCHANGED <<config, place, work, output, mcode, wcode, env>>
        /\ NextRound(w)
    BY <1>6 DEF SendOutput
  <2>2. \/ wpc' = wpc
        \/ \E pc : wpc' = [wpc EXCEPT ![w] = pc]
    BY <2>1 DEF NextRound, NextInProgram, WorkerGoto
  <2> QED
    BY <1>1, <2>1, <2>2, WorkerAlone DEF kept, config, place, work, output, env
<1> QED
  BY <1>2, <1>4, <1>5, <1>6 DEF WorkerStep

LEMMA WorkerEndsInvariant ==
    ASSUME IInv, NEW w \in Worker,
           WorkerDeadline(w) \/ Kill(w) \/ MasterLost(w) \/ WorkerOutOfMemory(w)
    PROVE  IInv'
<1>1. DOMAIN wpc = Worker /\ DOMAIN wcode = Worker
  BY DEF IInv, Types
<1>2. wpc[w] # "exited" /\ UNCHANGED <<config, place, work, output, mcode, outage>>
  BY DEF WorkerDeadline, Kill, MasterLost, WorkerOutOfMemory, SendReady, FirstRound, Gone, env
<1>3. \E pc : wpc' = [wpc EXCEPT ![w] = pc]
  BY DEF WorkerDeadline, Kill, MasterLost, WorkerOutOfMemory, SendReady, WorkerExit, WorkerGoto
<1>4. wcode' = wcode \/ \E c : wcode' = [wcode EXCEPT ![w] = c]
  BY DEF WorkerDeadline, Kill, MasterLost, WorkerOutOfMemory, SendReady, WorkerExit
<1> QED
  BY <1>1, <1>2, <1>3, <1>4, WorkerAlone DEF kept, config, place, work, output

\* Nothing the invariant speaks of.
LEMMA Stutters ==
    ASSUME IInv, UNCHANGED <<kept, mpc, idx, pos, mcode, wpc, wcode>> PROVE IInv'
<1>1. Types' /\ Sizing' /\ Leaving'
  BY DEF IInv, Types, Sizing, Leaving, Left, Gone, NumSizes, kept
<1> QED
  BY <1>1, RecordedKept, FilesKept DEF IInv, kept
-----------------------------------------------------------------------------
(* The steps of the master *)

\* The master ends: with 0 or with 1 it has no temporary file.
LEMMA MasterExitInvariant ==
    ASSUME IInv, mpc # "exited", mpc' = "exited", mcode' # 0, mcode' = 1 => mpc \notin Writing,
           UNCHANGED <<kept, idx, pos, wpc, wcode>>
    PROVE  IInv'
<1>1. Types' /\ Sizing'
  BY DEF IInv, Types, Sizing, Running, After, Writing, kept
<1>2. Leaving'
  BY DEF Leaving, Saving, Writing
<1>3. Kept(csv)' /\ Kept(oldcsv)'
  BY DEF IInv, Files, Kept, AllRows, NumSizes, kept
<1>4. Files'
  BY <1>3 DEF IInv, Files, Writing, kept
<1> QED
  BY <1>1, <1>2, <1>4, RecordedKept DEF IInv, kept

LEMMA MasterEndsInvariant ==
    ASSUME IInv, MasterDeadline \/ FinalizeDeadline \/ PeerLost \/ KillMaster PROVE IInv'
<1>1. /\ mpc # "exited" /\ mpc' = "exited" /\ mcode' \in {1, 124, 137}
      /\ (mcode' = 1 => mpc \notin Writing)
      /\ UNCHANGED <<config, work, output, worker, idx, pos, outage>>
  BY DEF MasterDeadline, FinalizeDeadline, PeerLost, KillMaster, MasterExit, MasterGone, Writing, env
<1> QED
  BY <1>1, MasterExitInvariant DEF kept, config, work, output, worker

\* A step inside a run.
LEMMA RunningMoves ==
    ASSUME IInv, mpc \in Running, mpc' \in Running, mpc' = "round" => idx' = 0,
           idx' \in Worker, pos' \in Nat \ {0}, UNCHANGED <<kept, mcode, wpc, wcode>>
    PROVE  IInv'
<1>1. Types'
  BY DEF IInv, Types, kept
<1>2. Sizing' /\ Leaving'
  BY DEF IInv, Sizing, Leaving, Running, After, Writing, Saving, NumSizes, kept
<1>3. Files'
  BY DEF IInv, Files, Kept, AllRows, NumSizes, Running, Writing, kept
<1> QED
  BY <1>1, <1>2, <1>3, RecordedKept DEF IInv, kept

LEMMA NextSendMoves ==
    ASSUME IInv, NEW seq, NEW here, NEW after, NextSend(seq, here, after)
    PROVE  /\ idx' \in Worker /\ pos' \in Nat \ {0}
           /\ \/ mpc' = mpc /\ idx' = idx
              \/ mpc' = here /\ idx + 1 < N /\ idx' = idx + 1
              \/ mpc' = after /\ idx' = 0 /\ idx + 1 = N
<1>1. idx \in Worker /\ pos \in Nat \ {0}
  BY DEF IInv, Types
<1> QED
  BY <1>1 DEF NextSend, Worker

LEMMA RoundStepsInvariant ==
    ASSUME IInv, SendStart \/ ReceiveReady \/ Scatter \/ Gather \/ NextIter PROVE IInv'
<1>1. CASE SendStart \/ Scatter
  <2>1. /\ mpc \in {"start", "scatter"} /\ mpc' \in {"start", "scatter", "ready", "gather"}
        /\ idx' \in Worker /\ pos' \in Nat \ {0}
    BY <1>1, NextSendMoves DEF SendStart, Scatter
  <2>2. UNCHANGED <<kept, mcode, wpc, wcode>>
    BY <1>1 DEF SendStart, Scatter, kept, config, work, output, worker, env
  <2> QED
    BY <2>1, <2>2, RunningMoves DEF Running
<1>2. CASE ReceiveReady
  <2>1. mpc = "ready" /\ UNCHANGED <<kept, wpc, wcode>>
    BY <1>2 DEF ReceiveReady, kept, config, work, output, worker, env
  <2>2. CASE NextSend(<<"READY">>, "ready", "scatter") /\ UNCHANGED mcode
    <3>1. mpc' \in {"ready", "scatter"} /\ idx' \in Worker /\ pos' \in Nat \ {0}
      BY <2>1, <2>2, NextSendMoves
    <3> QED
      BY <2>1, <2>2, <3>1, RunningMoves DEF Running
  <2>3. CASE MasterExit(1)
    BY <2>1, <2>3, MasterExitInvariant DEF MasterExit, Writing
  <2> QED
    BY <1>2, <2>2, <2>3 DEF ReceiveReady
<1>3. CASE Gather
  <2>1. mpc = "gather" /\ UNCHANGED <<kept, wpc, wcode>>
    BY <1>3 DEF Gather, kept, config, output, worker, env
  <2>2. CASE NextSend(M.gather, "gather", "round") /\ UNCHANGED mcode
    <3>1. /\ mpc' \in {"gather", "round"} /\ idx' \in Worker /\ pos' \in Nat \ {0}
          /\ (mpc' = "round" => idx' = 0)
      BY <2>1, <2>2, NextSendMoves
    <3> QED
      BY <2>1, <2>2, <3>1, RunningMoves DEF Running
  <2>3. CASE MasterExit(1)
    BY <2>1, <2>3, MasterExitInvariant DEF MasterExit, Writing
  <2> QED
    BY <1>3, <2>2, <2>3 DEF Gather
<1>4. CASE NextIter
  <2>1. mpc = "round" /\ mpc' = "scatter" /\ UNCHANGED <<idx, pos, kept, mcode, wpc, wcode>>
    BY <1>4 DEF NextIter, MasterGoto, kept, config, output, worker, env
  <2>2. idx' \in Worker /\ pos' \in Nat \ {0}
    BY <2>1 DEF IInv, Types
  <2> QED
    BY <2>1, <2>2, RunningMoves DEF Running
<1> QED
  BY <1>1, <1>2, <1>3, <1>4

\* A size is left out: nothing was recorded for it.
LEMMA NextSizeInvariant ==
    ASSUME IInv, mpc = "size", size <= NumSizes, size' = size + 1,
           skipped' = skipped \cup {size},
           UNCHANGED <<workload, mpc, idx, pos, run, records, tmp, csv, oldcsv, ioerr, mcode,
                       wpc, wcode, outage>>
    PROVE  IInv'
<1>1. size \in Nat \ {0} /\ skipped \subseteq 1 .. size - 1 /\ run = 1
  BY DEF IInv, Types, Sizing
<1>2. Types'
  <2>1. size' \in Nat \ {0} /\ size \in 1 .. size' - 1 /\ 1 .. size - 1 \subseteq 1 .. size' - 1
    BY <1>1
  <2>2. skipped' \subseteq 1 .. size' - 1
    BY <1>1, <2>1
  <2> QED
    BY <2>1, <2>2 DEF IInv, Types
<1>3. Used' = Used
  BY <1>1 DEF Used
<1>4. \A x, r : Done(x, r)' <=> Done(x, r)
  BY <1>1, <1>3 DEF Done
<1>5. Recorded' /\ UsedFit'
  BY <1>3, <1>4 DEF IInv, Recorded, UsedFit
<1>6. NumSizes' = NumSizes /\ NumSizes \in Nat
  BY DEF NumSizes
<1>7. Sizing'
  BY <1>1, <1>6 DEF IInv, Sizing, Running, After, Writing
<1>8. Leaving'
  BY DEF IInv, Leaving, Saving, Writing
<1>9. Files'
  BY DEF IInv, Files, Kept, Writing
<1> QED
  BY <1>2, <1>5, <1>7, <1>8, <1>9 DEF IInv

LEMMA SizeStepsInvariant ==
    ASSUME IInv, SkipSize \/ StartSize \/ EndSizes \/ MasterOutOfMemory PROVE IInv'
<1>1. CASE SkipSize
  BY <1>1, NextSizeInvariant
     DEF SkipSize, NextSize, config, place, output, worker, env
<1>2. CASE StartSize
  <2>1. /\ mpc = "size" /\ mpc' = "start" /\ run' = 1
        /\ UNCHANGED <<workload, size, records, skipped, ioerr, tmp, csv, oldcsv, outage>>
        /\ UNCHANGED <<idx, pos, mcode, wpc, wcode>>
        /\ size <= NumSizes /\ (workload = "DGEMM" => ~DgemmSkips(Sizes[size]))
    BY <1>2 DEF StartSize, MasterGoto, config, output, worker, env
  <2>2. run = 1
    BY <2>1 DEF IInv, Sizing
  <2>3. UNCHANGED kept
    BY <2>1, <2>2 DEF kept
  <2>4. Types' /\ Sizing' /\ Leaving'
    BY <2>1, <2>2 DEF IInv, Types, Sizing, Leaving, Running, After, Writing, Saving, NumSizes
  <2>5. Files'
    BY <2>1 DEF IInv, Files, Kept, Writing
  <2> QED
    BY <2>3, <2>4, <2>5, RecordedKept DEF IInv, kept
<1>3. CASE EndSizes
  <2>1. /\ mpc = "size" /\ mpc' = "shutdown" /\ size > NumSizes
        /\ UNCHANGED <<workload, size, records, skipped, ioerr, tmp, csv, oldcsv, outage>>
        /\ UNCHANGED <<run, idx, pos, mcode, wpc, wcode>>
    BY <1>3 DEF EndSizes, MasterGoto, config, work, output, worker, env
  <2>2. size = NumSizes + 1 /\ idx = 0 /\ run = 1
    <3>1. size <= NumSizes + 1 /\ size \in Nat /\ NumSizes \in Nat
      BY <2>1 DEF IInv, Sizing, Types, NumSizes
    <3> QED
      BY <2>1, <3>1 DEF IInv, Sizing
  <2>3. Types' /\ Sizing'
    BY <2>1, <2>2 DEF IInv, Types, Sizing, Running, After, Writing, NumSizes
  <2>4. Leaving'
    BY <2>1, <2>2 DEF Leaving, Saving, Writing
  <2>5. Files'
    BY <2>1 DEF IInv, Files, Kept, Writing
  <2> QED
    BY <2>1, <2>3, <2>4, <2>5, RecordedKept DEF IInv
<1>4. CASE MasterOutOfMemory
  <2>1. UNCHANGED <<workload, tmp, csv, oldcsv, ioerr, wpc, wcode, outage>>
    BY <1>4 DEF MasterOutOfMemory, config, output, worker
  <2>2. CASE /\ mpc = "size" /\ size <= NumSizes
             /\ NextSize /\ skipped' = skipped \cup {size} /\ UNCHANGED <<place, mcode>>
    BY <2>1, <2>2, NextSizeInvariant DEF NextSize, place
  <2>3. CASE mpc \in {"size", "start", "scatter"} /\ MasterExit(1) /\ UNCHANGED work
    BY <2>1, <2>3, MasterExitInvariant DEF MasterExit, Writing, work, kept
  <2> QED
    BY <1>4, <2>2, <2>3 DEF MasterOutOfMemory
<1> QED
  BY <1>1, <1>2, <1>3, <1>4

\* One more run is in the table: the last of its size or not.
LEMMA RecordRunInvariant ==
    ASSUME IInv, RecordRun PROVE IInv'
<1>1. /\ mpc = "round" /\ UNCHANGED <<workload, tmp, csv, oldcsv, ioerr, wpc, wcode>>
      /\ UNCHANGED <<skipped, outage>>
  BY DEF RecordRun, config, output, worker, env
<1>2. CASE MasterExit(1) /\ UNCHANGED <<size, run, iter, records>>
  BY <1>1, <1>2, MasterExitInvariant DEF MasterExit, Writing, kept
<1>3. CASE /\ records' = IF ResultFits THEN Append(records, <<size, run>>) ELSE records
           /\ IF run < NumRuns
              THEN run' = run + 1 /\ UNCHANGED size /\ MasterGoto("scatter")
              ELSE run' = 1 /\ size' = size + 1 /\ MasterGoto("size")
  <2>1. records' = Append(records, <<size, run>>) /\ UNCHANGED <<idx, pos, mcode>>
    BY <1>1, <1>3, Fits DEF Running, MasterGoto
  <2>2. /\ size \in Nat \ {0} /\ run \in 1 .. NumRuns /\ skipped \subseteq 1 .. size - 1
        /\ idx = 0 /\ size <= NumSizes /\ (workload = "DGEMM" => ~DgemmSkips(Sizes[size]))
        /\ Len(records) = NumRuns * Cardinality(Used) + (run - 1)
    BY <1>1 DEF IInv, Types, Sizing, Recorded, Running
  <2>3. mpc' \in {"size", "scatter"}
    BY <1>3 DEF MasterGoto
  <2>4. Files' /\ Leaving'
    BY <1>1, <2>1, <2>3 DEF IInv, Files, Kept, Leaving, Writing, Saving
  <2>5. CASE run < NumRuns
    <3>1. run' = run + 1 /\ size' = size /\ mpc' = "scatter"
      BY <1>3, <2>5 DEF MasterGoto
    <3>2. Used' = Used
      BY <1>1, <3>1 DEF Used
    <3>3. \A x, r \in Nat : Done(x, r)' <=> Done(x, r) \/ (x = size /\ r = run)
      BY <2>2, <3>1, <3>2 DEF Done
    <3>4. Len(records) + 1 = NumRuns * Cardinality(Used') + (run' - 1)
      <4>1. PICK c : c = NumRuns * Cardinality(Used)
        OBVIOUS
      <4>2. c \in Int
        BY <4>1, UsedFinite
      <4> QED
        BY <2>2, <3>1, <3>2, <4>1, <4>2
    <3>5. Recorded'
      BY <2>1, <3>3, <3>4, OneMoreRecord
    <3>6. UsedFit'
      BY <1>1, <3>2 DEF IInv, UsedFit
    <3>7. Types' /\ Sizing'
      BY <1>1, <2>1, <2>2, <2>5, <3>1 DEF IInv, Types, Sizing, Running, After, Writing, NumSizes
    <3> QED
      BY <2>4, <3>5, <3>6, <3>7 DEF IInv
  <2>6. CASE ~(run < NumRuns)
    <3>1. run' = 1 /\ size' = size + 1 /\ mpc' = "size" /\ run = NumRuns
      BY <1>3, <2>2, <2>6 DEF MasterGoto
    <3>2. Used' = Used \cup {size}
      BY <1>1, <2>2, <3>1 DEF Used
    <3>3. \A x, r \in Nat : Done(x, r)' <=> Done(x, r) \/ (x = size /\ r = run)
      BY <2>2, <3>1, <3>2 DEF Done
    <3>4. Len(records) + 1 = NumRuns * Cardinality(Used') + (run' - 1)
      <4>1. Cardinality(Used') = Cardinality(Used) + 1
        BY <3>2, UsedFinite, FS_AddElement
      <4>2. NumRuns * (Cardinality(Used) + 1) = NumRuns * Cardinality(Used) + NumRuns
        BY UsedFinite
      <4>3. PICK c : c = NumRuns * Cardinality(Used)
        OBVIOUS
      <4>4. c \in Int
        BY <4>3, UsedFinite
      <4> QED
        BY <2>2, <3>1, <4>1, <4>2, <4>3, <4>4
    <3>5. Recorded'
      BY <2>1, <3>3, <3>4, OneMoreRecord
    <3>6. UsedFit'
      BY <1>1, <2>2, <3>2 DEF IInv, UsedFit
    <3>7. Types' /\ Sizing'
      <4>1. NumSizes' = NumSizes /\ NumSizes \in Nat
        BY <1>1 DEF NumSizes
      <4> QED
        BY <1>1, <2>1, <2>2, <3>1, <4>1 DEF IInv, Types, Sizing, Running, After, Writing
    <3> QED
      BY <2>4, <3>5, <3>6, <3>7 DEF IInv
  <2> QED
    BY <2>5, <2>6
<1> QED
  BY <1>2, <1>3 DEF RecordRun

LEMMA SendDoneInvariant ==
    ASSUME IInv, SendDone PROVE IInv'
<1>1. /\ mpc = "shutdown" /\ mpc' = "disconnect"
      /\ UNCHANGED <<workload, size, records, skipped, ioerr, tmp, csv, oldcsv, outage>>
      /\ UNCHANGED <<run, idx, pos, mcode, wpc, wcode>>
  BY DEF SendDone, MasterGoto, config, work, output, worker, env
<1>2. Types' /\ Sizing'
  BY <1>1 DEF IInv, Types, Sizing, Running, After, Writing, NumSizes
<1>3. Leaving'
  BY <1>1 DEF IInv, Leaving, Saving, Writing, Left, Gone
<1>4. Files'
  BY <1>1 DEF IInv, Files, Kept, Writing
<1> QED
  BY <1>1, <1>2, <1>3, <1>4, RecordedKept DEF IInv

\* The last disconnect is followed by the output.
LEMMA DisconnectInvariant ==
    ASSUME IInv, NEW w \in Worker, Disconnect(w) PROVE IInv'
<1>1. /\ mpc = "disconnect" /\ idx = w /\ NextSend(<<"DONE">>, "shutdown", "open")
      /\ wpc' = [wpc EXCEPT ![w] = "exited"] /\ wcode' = [wcode EXCEPT ![w] = 0]
      /\ UNCHANGED <<workload, size, records, skipped, ioerr, tmp, csv, oldcsv, outage>>
      /\ UNCHANGED <<run, mcode>>
  BY DEF Disconnect, WorkerExit, WorkerGoto, config, work, output, env
<1>2. /\ idx' \in Worker /\ pos' \in Nat \ {0} /\ idx \in Worker
      /\ \/ mpc' = "disconnect" /\ idx' = idx
         \/ mpc' = "shutdown" /\ idx + 1 < N /\ idx' = idx + 1
         \/ mpc' = "open" /\ idx' = 0 /\ idx + 1 = N
  BY <1>1, NextSendMoves DEF IInv, Types
<1>3. DOMAIN wpc = Worker /\ DOMAIN wcode = Worker
  BY DEF IInv, Types
<1>4. Types' /\ Sizing'
  BY <1>1, <1>2, <1>3 DEF IInv, Types, Sizing, Running, After, Writing, NumSizes
<1>5. \A v \in 0 .. idx : Left(v)'
  <2>1. \A v \in 0 .. idx - 1 : Left(v)
    BY <1>1 DEF IInv, Leaving
  <2>2. \A v \in 0 .. idx : v \in Worker /\ (v = w \/ v \in 0 .. idx - 1)
    BY <1>1, <1>2 DEF Worker
  <2> QED
    BY <1>1, <1>3, <2>1, <2>2 DEF Left, Gone
<1>6. Leaving'
  <2>1. CASE mpc' = "disconnect" /\ idx' = idx
    <3>1. \A v \in 0 .. idx' - 1 : v \in 0 .. idx
      BY <1>2, <2>1 DEF Worker
    <3> QED
      BY <1>5, <2>1, <3>1 DEF Leaving, Saving, Writing
  <2>2. CASE mpc' = "shutdown" /\ idx' = idx + 1
    <3>1. \A v \in 0 .. idx' - 1 : v \in 0 .. idx
      BY <1>2, <2>2 DEF Worker
    <3> QED
      BY <1>5, <2>2, <3>1 DEF Leaving, Saving, Writing
  <2>3. CASE mpc' = "open" /\ idx + 1 = N
    <3>1. \A v \in Worker : v \in 0 .. idx
      BY <1>2, <2>3 DEF Worker
    <3> QED
      BY <1>5, <2>3, <3>1 DEF Leaving, Saving, Writing
  <2> QED
    BY <1>2, <2>1, <2>2, <2>3
<1>7. Files'
  BY <1>1, <1>2 DEF IInv, Files, Kept, Writing
<1> QED
  BY <1>1, <1>4, <1>6, <1>7, RecordedKept DEF IInv
-----------------------------------------------------------------------------
(* The result file *)

\* When the sizes are through, the table has all the rows.
LEMMA TableIsComplete ==
    ASSUME IInv, mpc \in After PROVE AllRows(records)
<1>1. size = NumSizes + 1 /\ run = 1 /\ NumSizes \in Nat
  BY DEF IInv, Sizing, NumSizes
<1>2. Used = (1 .. NumSizes) \ skipped
  BY <1>1 DEF Used
<1>3. \A s, r : Done(s, r) <=> s \in Used /\ r \in 1 .. NumRuns
  BY <1>1 DEF Done
<1>4. records \in Seq(Nat \X Nat) /\ DOMAIN records = 1 .. Len(records)
  BY DEF IInv, Recorded
<1>5. ASSUME NEW k \in DOMAIN records
      PROVE  records[k] \in Used \X (1 .. NumRuns)
  <2>1. records[k] \in Nat \X Nat
    BY <1>4
  <2>2. records[k][1] \in Used /\ records[k][2] \in 1 .. NumRuns
    BY <1>3, <1>4 DEF IInv, Recorded
  <2> QED
    BY <2>1, <2>2
<1>6. ASSUME NEW s \in Used, NEW r \in 1 .. NumRuns
      PROVE  \E k \in DOMAIN records : records[k] = <<s, r>>
  <2>1. s \in Nat /\ r \in Nat /\ Done(s, r)
    BY <1>2, <1>3, <1>1
  <2> QED
    BY <1>4, <2>1 DEF IInv, Recorded
<1>7. \A j, k \in DOMAIN records : j < k => Before(records[j], records[k])
  BY <1>4 DEF IInv, Recorded
<1>8. {records[k] : k \in DOMAIN records} = Used \X (1 .. NumRuns)
  BY <1>5, <1>6
<1> QED
  BY <1>2, <1>7, <1>8 DEF AllRows

\* A step of the output: the workers have left, the table stays.
LEMMA OutputMoves ==
    ASSUME IInv, mpc \in Saving, mpc' \in Saving,
           UNCHANGED <<workload, size, run, records, skipped, outage, idx, pos, mcode, wpc, wcode>>,
           ioerr' \in BOOLEAN
    PROVE  /\ Types' /\ Sizing' /\ UsedFit' /\ Recorded' /\ Leaving'
           /\ \A rows : AllRows(rows)' <=> AllRows(rows)
<1>1. Types' /\ Sizing'
  BY DEF IInv, Types, Sizing, Running, After, Writing, Saving, NumSizes
<1>2. Leaving'
  BY DEF IInv, Leaving, Saving, Writing, Left, Gone
<1>3. \A rows : AllRows(rows)' <=> AllRows(rows)
  BY DEF AllRows, NumSizes
<1> QED
  BY <1>1, <1>2, <1>3, RecordedKept

TmpType == [there : BOOLEAN, new : BOOLEAN, whole : BOOLEAN, synced : BOOLEAN,
            rows : Seq(Nat \X Nat)]

LEMMA FileFields ==
    ASSUME NEW a \in BOOLEAN, NEW b \in BOOLEAN, NEW c \in BOOLEAN, NEW d \in BOOLEAN,
           NEW r \in Seq(Nat \X Nat)
    PROVE  /\ File(a, b, c, d, r) \in TmpType
           /\ File(a, b, c, d, r).there = a /\ File(a, b, c, d, r).new = b
           /\ File(a, b, c, d, r).whole = c /\ File(a, b, c, d, r).synced = d
           /\ File(a, b, c, d, r).rows = r
  BY Zenon DEF File, TmpType

LEMMA NoFileFields == NoFile \in TmpType /\ ~NoFile.there
<1>1. <<>> \in Seq(Nat \X Nat)
  OBVIOUS
<1> QED
  BY <1>1, FileFields DEF NoFile

\* What an edit of the temporary file leaves of it.
LEMMA WrittenFile ==
    ASSUME NEW f \in TmpType, NEW r \in Seq(Nat \X Nat)
    PROVE  /\ [f EXCEPT !.rows = r, !.whole = TRUE] \in TmpType
           /\ [f EXCEPT !.rows = r, !.whole = TRUE].whole
           /\ [f EXCEPT !.rows = r, !.whole = TRUE].rows = r
           /\ [f EXCEPT !.rows = r, !.whole = FALSE] \in TmpType
  BY DEF TmpType

LEMMA SyncedFile ==
    ASSUME NEW f \in TmpType
    PROVE  /\ [f EXCEPT !.synced = TRUE] \in TmpType
           /\ [f EXCEPT !.synced = TRUE].synced
           /\ [f EXCEPT !.synced = TRUE].whole = f.whole
           /\ [f EXCEPT !.synced = TRUE].rows = f.rows
  BY DEF TmpType

LEMMA TornFile ==
    ASSUME NEW f \in TmpType
    PROVE  [f EXCEPT !.whole = FALSE] \in TmpType
  BY DEF TmpType

LEMMA OutputStepsInvariant ==
    ASSUME IInv, Open \/ Write \/ Sync \/ Close \/ Rename PROVE IInv'
<1>1. /\ mpc \in Saving /\ mpc' \in Saving
      /\ UNCHANGED <<workload, size, run, records, skipped, outage, idx, pos, mcode, wpc, wcode>>
  BY DEF Open, Write, Sync, Close, Rename, Saving, Writing, config, work, worker
<1>2. ioerr' \in BOOLEAN
  BY DEF Open, Write, Sync, Close, Rename, IInv, Types
<1>3. /\ Types' /\ Sizing' /\ UsedFit' /\ Recorded' /\ Leaving'
      /\ \A rows : AllRows(rows)' <=> AllRows(rows)
  BY <1>1, <1>2, OutputMoves
<1>4. records \in Seq(Nat \X Nat) /\ tmp \in TmpType /\ ioerr \in BOOLEAN
  BY DEF IInv, Types, Recorded, Files, TmpType
<1>5. /\ csv.whole /\ csv.synced /\ oldcsv.whole /\ oldcsv.synced
      /\ mpc # "finalize" => ~csv.new /\ ~oldcsv.new
  BY <1>1 DEF IInv, Files, Kept, Saving, Writing
<1>6. CASE Open
  <2>1. mpc = "open" /\ mpc' \in {"write", "finalize"} /\ UNCHANGED <<csv, oldcsv>>
    BY <1>6 DEF Open, OpenTmp, files
  <2>2. tmp' \in TmpType
    <3>1. CASE OpenTmp
      <4>1. <<>> \in Seq(Nat \X Nat)
        OBVIOUS
      <4>2. File(TRUE, TRUE, FALSE, FALSE, <<>>) \in TmpType
        BY <4>1, FileFields
      <4> QED
        BY ONLY <3>1, <4>2 DEF OpenTmp
    <3>2. CASE UNCHANGED files
      BY ONLY <1>4, <3>2 DEF files
    <3> QED
      BY <1>6, <3>1, <3>2 DEF Open
  <2>3. mpc' = "finalize" => tmp' = NoFile
    BY <1>6, <2>1 DEF Open, IInv, Files, Writing, files
  <2>4. Files'
    BY <1>5, <2>1, <2>2, <2>3 DEF Files, Kept, Writing, TmpType
  <2> QED
    BY <1>3, <2>4 DEF IInv
<1>7. CASE Write
  <2>1. mpc = "write" /\ mpc' = "sync" /\ UNCHANGED <<csv, oldcsv>>
    BY <1>7 DEF Write, WriteTmp
  <2>2. tmp' \in TmpType /\ (~ioerr' => tmp'.whole /\ tmp'.rows = records')
    <3>1. CASE WriteTmp(records, TRUE)
      <4>1. tmp' = [tmp EXCEPT !.rows = records, !.whole = TRUE]
        BY <3>1 DEF WriteTmp
      <4> QED
        BY ONLY <1>1, <1>4, <4>1, WrittenFile
    <3>2. CASE WriteTmp(records, FALSE) /\ ioerr' = TRUE
      <4>1. <<>> \in Seq(Nat \X Nat)
        OBVIOUS
      <4>2. tmp' = [tmp EXCEPT !.rows = <<>>, !.whole = FALSE]
        BY <3>2 DEF WriteTmp
      <4>3. tmp' \in TmpType
        BY ONLY <1>4, <4>1, <4>2, WrittenFile
      <4> QED
        BY <3>2, <4>3
    <3> QED
      BY <1>7, <3>1, <3>2 DEF Write
  <2>3. Files'
    BY <1>5, <2>1, <2>2 DEF Files, Kept, Writing, TmpType
  <2> QED
    BY <1>3, <2>3 DEF IInv
<1>8. CASE Sync
  <2>1. mpc = "sync" /\ mpc' = "close" /\ UNCHANGED <<csv, oldcsv>>
    BY <1>8 DEF Sync, SyncTmp, files
  <2>2. ~ioerr => tmp.whole /\ tmp.rows = records
    BY <2>1 DEF IInv, Files
  <2>3. /\ tmp' \in TmpType
        /\ ~ioerr' => tmp'.whole /\ tmp'.rows = records' /\ tmp'.synced
    <3>1. CASE SyncTmp /\ ~ioerr
      <4>1. tmp' = [tmp EXCEPT !.synced = TRUE]
        BY <3>1 DEF SyncTmp
      <4> QED
        BY ONLY <1>1, <1>4, <2>2, <3>1, <4>1, SyncedFile
    <3>2. CASE UNCHANGED files /\ ioerr'
      BY <1>4, <3>2 DEF files
    <3>3. (SyncTmp /\ ~ioerr) \/ (UNCHANGED files /\ ioerr')
      BY <1>8 DEF Sync
    <3> QED
      BY <3>1, <3>2, <3>3
  <2>4. Files'
    BY <1>5, <2>1, <2>3 DEF Files, Kept, Writing, TmpType
  <2> QED
    BY <1>3, <2>4 DEF IInv
<1>9. CASE Close
  <2>1. /\ mpc = "close" /\ mpc' = "rename" /\ UNCHANGED <<tmp, csv, oldcsv>>
        /\ (ioerr => ioerr')
    BY <1>9 DEF Close, files
  <2>2. ~ioerr => tmp.whole /\ tmp.rows = records /\ tmp.synced
    BY <2>1 DEF IInv, Files
  <2>3. Files'
    BY <1>1, <1>4, <1>5, <2>1, <2>2 DEF Files, Kept, Writing, TmpType
  <2> QED
    BY <1>3, <2>3 DEF IInv
<1>10. CASE Rename
  <2>1. mpc = "rename" /\ mpc' = "finalize" /\ tmp' = NoFile /\ UNCHANGED oldcsv
    BY <1>10 DEF Rename, RenameTmp, RemoveTmp
  <2>2. tmp' \in TmpType
    BY <2>1, NoFileFields
  <2>3. CASE csv' = tmp /\ ~ioerr
    <3>1. tmp.whole /\ tmp.rows = records /\ tmp.synced
      BY <2>1, <2>3 DEF IInv, Files
    <3>2. AllRows(records)
      BY <2>1, TableIsComplete DEF After, Writing
    <3>3. Kept(csv)'
      <4>1. csv'.whole /\ csv'.synced /\ csv'.rows = records
        BY <2>3, <3>1
      <4>2. AllRows(csv.rows)'
        BY <1>1, <3>2, <4>1 DEF AllRows, NumSizes
      <4> QED
        BY <2>1, <4>1, <4>2 DEF Kept
    <3>4. Kept(oldcsv)'
      BY <1>5, <2>1 DEF Kept
    <3>5. Files'
      BY <2>1, <2>2, <3>3, <3>4 DEF Files, Writing, TmpType
    <3> QED
      BY <1>3, <3>5 DEF IInv
  <2>4. csv' = csv \/ (csv' = tmp /\ ~ioerr)
    BY <1>10 DEF Rename, RenameTmp, RemoveTmp
  <2>5. CASE csv' = csv
    <3>1. Files'
      BY <1>5, <2>1, <2>2, <2>5 DEF Files, Kept, Writing, TmpType
    <3> QED
      BY <1>3, <3>1 DEF IInv
  <2> QED
    BY <2>3, <2>4, <2>5
<1> QED
  BY <1>6, <1>7, <1>8, <1>9, <1>10

\* return output_ok ? 0 : 1.
LEMMA FinalizeInvariant ==
    ASSUME IInv, Finalize PROVE IInv'
<1>1. /\ mpc = "finalize" /\ mpc' = "exited" /\ mcode' = ReturnCode
      /\ UNCHANGED <<kept, idx, pos, wpc, wcode>>
  BY DEF Finalize, MasterExit, kept, config, work, output, worker, env
<1>2. Types' /\ Sizing'
  BY <1>1 DEF IInv, Types, Sizing, Running, After, Writing, kept
<1>3. mcode' = 0 => csv'.new
  BY <1>1 DEF ReturnCode, kept
<1>4. Leaving'
  <2>1. \A w \in Worker : Left(w)'
    BY <1>1 DEF IInv, Leaving, Saving, Left, Gone
  <2> QED
    BY <1>1, <1>3, <2>1 DEF Leaving, Saving, Writing
<1>5. Kept(csv)' /\ Kept(oldcsv)'
  BY <1>1 DEF IInv, Files, Kept, AllRows, NumSizes, kept
<1>6. Files'
  BY <1>1, <1>5 DEF IInv, Files, Writing, kept
<1> QED
  BY <1>1, <1>2, <1>4, <1>6, RecordedKept DEF IInv, kept

\* A power loss undoes at most the rename, and what is in the directory was
\* synced before it came there.
LEMMA PowerLossInvariant ==
    ASSUME IInv, PowerLoss PROVE IInv'
<1>1. /\ mpc' = "exited" /\ outage' = TRUE /\ UNCHANGED <<idx, pos, wpc, wcode>>
      /\ UNCHANGED <<workload, size, run, records, skipped, ioerr>>
      /\ (mpc = "exited" => mcode' = mcode) /\ (mpc # "exited" => mcode' = 137)
  BY DEF PowerLoss, MasterExit, MasterGone, place, config, work, worker
<1>2. csv.synced /\ oldcsv.synced /\ tmp \in TmpType
  BY DEF IInv, Files, Kept, TmpType
<1>3. csv' \in {csv, oldcsv} /\ oldcsv' = csv'
  BY <1>2 DEF PowerLoss, LosePower, AfterPowerLoss
<1>4. tmp' \in TmpType
  <2>1. tmp' = tmp \/ tmp' = [tmp EXCEPT !.whole = FALSE]
    BY DEF PowerLoss, LosePower, AfterPowerLoss
  <2> QED
    BY ONLY <1>2, <2>1, TornFile
<1>5. \A rows : AllRows(rows)' <=> AllRows(rows)
  BY <1>1 DEF AllRows, NumSizes
<1>6. Kept(csv)' /\ Kept(oldcsv)'
  <2>1. /\ csv.whole /\ csv.synced /\ (csv.new => AllRows(csv.rows))
        /\ oldcsv.whole /\ oldcsv.synced /\ (oldcsv.new => AllRows(oldcsv.rows))
    BY DEF IInv, Files, Kept
  <2> QED
    BY <1>1, <1>3, <2>1 DEF Kept, AllRows, NumSizes
<1>7. Files'
  BY <1>1, <1>4, <1>6 DEF Files, Writing, TmpType
<1>8. Types' /\ Sizing'
  BY <1>1 DEF IInv, Types, Sizing, Running, After, Writing
<1>9. Leaving'
  BY <1>1 DEF IInv, Leaving, Saving, Writing, Left, Gone
<1> QED
  BY <1>1, <1>7, <1>8, <1>9, RecordedKept DEF IInv
-----------------------------------------------------------------------------
(* The theorems *)

LEMMA InitInvariant ==
    ASSUME Init PROVE IInv
<1>1. /\ workload \in Workload /\ mpc = "size" /\ idx = 0 /\ pos = 1 /\ size = 1 /\ run = 1
      /\ records = <<>> /\ skipped = {} /\ ioerr = FALSE /\ mcode = 0 /\ outage = FALSE
      /\ wpc = [w \in Worker |-> "command"] /\ wcode = [w \in Worker |-> 0]
      /\ tmp = NoFile /\ csv = Previous /\ oldcsv = Previous
  BY DEF Init, FilesInit
<1>2. Types
  <2>1. DOMAIN wpc = Worker /\ DOMAIN wcode = Worker /\ ioerr \in BOOLEAN /\ outage \in BOOLEAN
    BY <1>1
  <2>2. /\ idx \in Worker /\ pos \in Nat \ {0} /\ size \in Nat \ {0} /\ run \in 1 .. NumRuns
        /\ skipped \subseteq 1 .. size - 1
    BY <1>1 DEF Worker
  <2> QED
    BY <1>1, <2>1, <2>2 DEF Types
<1>3. Sizing
  BY <1>1 DEF Sizing, Running, After, Writing, NumSizes
<1>4. Used = {}
  BY <1>1 DEF Used
<1>5. \A s, r : ~Done(s, r)
  BY <1>1, <1>4 DEF Done
<1>6. Recorded
  <2>1. Cardinality(Used) = 0
    BY <1>4, FS_EmptySet
  <2>2. records \in Seq(Nat \X Nat) /\ Len(records) = 0
    BY <1>1
  <2>3. Len(records) = NumRuns * Cardinality(Used) + (run - 1)
    BY <1>1, <2>1, <2>2
  <2> QED
    BY <1>5, <2>2, <2>3 DEF Recorded
<1>7. UsedFit /\ Leaving
  BY <1>1, <1>4 DEF UsedFit, Leaving, Saving, Writing
<1>8. Previous.whole /\ Previous.synced /\ ~Previous.new
  BY DEF Previous, File
<1>9. Files
  BY <1>1, <1>8, NoFileFields DEF Files, Kept, Writing, TmpType
<1> QED
  BY <1>2, <1>3, <1>6, <1>7, <1>9 DEF IInv

LEMMA NextInvariant ==
    ASSUME IInv, [Next]_vars PROVE IInv'
<1>1. CASE MasterStep
  BY <1>1, SizeStepsInvariant, RoundStepsInvariant, RecordRunInvariant, SendDoneInvariant,
     OutputStepsInvariant, FinalizeInvariant DEF MasterStep
<1>2. CASE MasterDeadline
  BY <1>2, MasterEndsInvariant
<1>3. CASE \E w \in Worker : WorkerStep(w) \/ Disconnect(w) \/ WorkerDeadline(w)
  BY <1>3, WorkerStepInvariant, DisconnectInvariant, WorkerEndsInvariant
<1>4. CASE FaultStep
  <2>1. CASE \E w \in Worker : \E t \in DownTag \cup UpTag : Damage(w, t)
    BY <2>1, Stutters DEF Damage, kept, config, place, work, output, worker
  <2>2. CASE \E w \in Worker : Kill(w) \/ MasterLost(w) \/ WorkerOutOfMemory(w)
    BY <2>2, WorkerEndsInvariant
  <2>3. CASE PeerLost \/ FinalizeDeadline \/ KillMaster
    BY <2>3, MasterEndsInvariant
  <2>4. CASE PowerLoss
    BY <2>4, PowerLossInvariant
  <2>5. CASE MasterOutOfMemory
    BY <2>5, SizeStepsInvariant
  <2> QED
    BY <1>4, <2>1, <2>2, <2>3, <2>4, <2>5 DEF FaultStep
<1>5. CASE UNCHANGED vars
  BY <1>5, Stutters DEF vars, kept, config, place, work, output, worker, env
<1> QED
  BY <1>1, <1>2, <1>3, <1>4, <1>5 DEF Next, Finished

\* The table, the file and the leave-taking of the master keep the
\* inductive invariant, for all six workloads and every fault.
THEOREM Invariance == Spec => []IInv
  BY InitInvariant, NextInvariant, PTL DEF Spec

\* main of master_npb.c and of master_bench.c: whatever is killed, late, out
\* of memory or without power, the result file always has the previous
\* results or every run of every size that was not left out, once and in
\* order.
THEOREM ResultsAreWhole == Spec => []ResultsWhole
<1>1. IInv => ResultsWhole
  BY DEF IInv, Files, Kept, ResultsWhole
<1> QED
  BY <1>1, Invariance, PTL

\* An exit code 0 of the master means that the new results are in the file
\* (a later power loss aside) and that every worker took leave with 0; no
\* end of its own leaves the temporary file behind.
THEOREM ExitMeansAllResults == Spec => []ExitMeansResults
<1>1. IInv => ExitMeansResults
  <2> SUFFICES ASSUME IInv PROVE ExitMeansResults
    OBVIOUS
  <2>1. mpc = "exited" /\ mcode = 0 =>
            (outage \/ csv.new) /\ \A w \in Worker : Gone(w) /\ wcode[w] = 0
    BY DEF IInv, Leaving, Left
  <2>2. mpc = "exited" /\ mcode \in {0, 1} /\ ~outage => ~tmp.there
    BY NoFileFields DEF IInv, Files
  <2> QED
    BY <2>1, <2>2 DEF ExitMeansResults
<1> QED
  BY <1>1, Invariance, PTL

\* record_generic_result never aborts and EP, CG and DGEMM never leave a
\* result out: with MAX_RESULTS as the programs check it against their
\* arguments, the table has room whenever a round ends.
THEOREM TableNeverFull == Spec => [](mpc = "round" => ResultFits)
<1>1. IInv => (mpc = "round" => ResultFits)
  BY Fits DEF Running
<1> QED
  BY <1>1, Invariance, PTL
-----------------------------------------------------------------------------
(* The division of the data *)

\* One of the rows e of the block of w.
InBlock(b, e) == b.first <= e /\ e < b.first + b.count

LEMMA BlockAfter ==
    ASSUME NEW q \in Nat, NEW v \in Nat, NEW w \in Nat, v < w
    PROVE  v * q + q <= w * q /\ v * q \in Nat /\ w * q \in Nat
<1>1. PICK d \in Nat : w = v + 1 + d
  <2>1. w - (v + 1) \in Nat /\ w = v + 1 + (w - (v + 1))
    OBVIOUS
  <2> QED
    BY <2>1
<1>2. w * q = v * q + q + d * q
  BY <1>1
<1>3. v * q \in Nat /\ d * q \in Nat
  OBVIOUS
<1> QED
  BY <1>2, <1>3

LEMMA DivRem ==
    ASSUME NEW x \in Nat, NEW k \in Nat \ {0}
    PROVE  \E d \in Nat, m \in 0 .. k - 1 :
              d = x \div k /\ m = x % k /\ d * k \in Nat /\ x = d * k + m
<1>1. PICK d : d = x \div k
  OBVIOUS
<1>2. PICK m : m = x % k
  OBVIOUS
<1>3. PICK p : p = d * k
  OBVIOUS
<1>4. d \in Nat /\ m \in 0 .. k - 1
  <2>1. x \div k \in Nat
    BY ONLY x \in Nat, k \in Nat \ {0}
  <2>2. x % k \in 0 .. k - 1
    BY ONLY x \in Nat, k \in Nat \ {0}
  <2> QED
    BY ONLY <1>1, <1>2, <2>1, <2>2
<1>5. p \in Nat
  BY ONLY <1>3, <1>4, k \in Nat
<1>6. x % k = x - (x \div k) * k
  BY ONLY x \in Nat, k \in Nat \ {0}
<1>7. m = x - p
  BY ONLY <1>1, <1>2, <1>3, <1>6
<1>8. x = p + m
  BY ONLY <1>4, <1>5, <1>7, x \in Nat, k \in Nat
<1> QED
  BY ONLY <1>1, <1>2, <1>3, <1>4, <1>5, <1>8

\* The equal blocks of q rows of all workers but the last one.
LEMMA EqualBlock ==
    ASSUME NEW q \in Nat, NEW m \in Nat, NEW e \in Nat, e < m * q
    PROVE  \E v \in 0 .. m - 1 : v * q <= e /\ e < v * q + q
<1>1. q > 0
  <2>1. CASE q = 0
    BY <2>1
  <2> QED
    BY <2>1
<1>2. PICK v : v = e \div q
  OBVIOUS
<1>3. v \in Nat /\ v * q <= e /\ e < v * q + q
  BY <1>1, <1>2
<1>4. v \in 0 .. m - 1
  <2>1. CASE m <= v
    <3>1. m * q <= v * q
      <4>1. CASE m = v
        BY <1>3, <4>1
      <4>2. CASE m < v
        BY <1>3, <4>2, BlockAfter
      <4> QED
        BY <1>3, <2>1, <4>1, <4>2
    <3>2. m * q \in Nat /\ v * q \in Nat
      BY <1>3
    <3> QED
      BY <1>3, <3>1, <3>2
  <2> QED
    BY <1>3, <2>1
<1> QED
  BY <1>3, <1>4

\* row_starts and row_counts_arr of CG: for any number of rows, also fewer
\* than there are workers, every row is in the block of exactly one worker,
\* and no block reaches beyond the last row.
THEOREM CgBlocksPartition ==
    ASSUME NEW n \in Nat, NEW e \in Nat
    PROVE  /\ e < n <=> \E w \in Worker : InBlock(CgBlock(n, w), e)
           /\ \A v, w \in Worker :
                 InBlock(CgBlock(n, v), e) /\ InBlock(CgBlock(n, w), e) => v = w
<1> DEFINE q == n \div N
<1>1. q \in Nat /\ N * q <= n
  <2>1. PICK d \in Nat, r \in 0 .. N - 1 :
           d = q /\ r = n % N /\ d * N \in Nat /\ n = d * N + r
    BY DivRem
  <2>2. d * N <= n /\ d * N = N * d
    BY ONLY <2>1, N \in Nat
  <2> QED
    BY <2>1, <2>2
<1>2. \A w \in Worker :
         InBlock(CgBlock(n, w), e) <=>
            IF w = N - 1 THEN w * q <= e /\ e < w * q + (n - w * q)
                         ELSE w * q <= e /\ e < w * q + q
  BY DEF InBlock, CgBlock
<1> HIDE DEF q
<1>3. \A w \in Worker : w \in Nat /\ w * q \in Nat
  BY <1>1 DEF Worker
<1>4. N - 1 \in Worker
  BY DEF Worker
<1>5. ASSUME e < n PROVE \E w \in Worker : InBlock(CgBlock(n, w), e)
  <2>1. CASE (N - 1) * q <= e
    <3>1. InBlock(CgBlock(n, N - 1), e)
      BY <1>2, <1>3, <1>4, <1>5, <2>1
    <3> QED
      BY <1>4, <3>1
  <2>2. CASE ~((N - 1) * q <= e)
    <3>1. e < (N - 1) * q
      BY <1>3, <1>4, <2>2
    <3>2. N - 1 \in Nat
      OBVIOUS
    <3>3. PICK v \in 0 .. (N - 1) - 1 : v * q <= e /\ e < v * q + q
      BY <1>1, <3>1, <3>2, EqualBlock
    <3>4. v \in Worker /\ v # N - 1
      BY <3>3 DEF Worker
    <3> QED
      BY <1>2, <3>3, <3>4
  <2> QED
    BY <2>1, <2>2
<1>6. ASSUME NEW w \in Worker, InBlock(CgBlock(n, w), e) PROVE e < n
  <2>1. CASE w = N - 1
    BY <1>2, <1>3, <1>6, <2>1
  <2>2. CASE w # N - 1
    <3>1. w * q + q <= N * q /\ N * q \in Nat
      BY <1>1, <1>3, BlockAfter DEF Worker
    <3> QED
      BY <1>1, <1>2, <1>3, <1>6, <2>2, <3>1
  <2> QED
    BY <2>1, <2>2
<1>7. ASSUME NEW v \in Worker, NEW w \in Worker, v < w,
             InBlock(CgBlock(n, v), e), InBlock(CgBlock(n, w), e)
      PROVE  FALSE
  <2>1. v # N - 1
    BY <1>7 DEF Worker
  <2>2. e < v * q + q /\ w * q <= e
    BY <1>2, <1>7, <2>1
  <2>3. v * q + q <= w * q
    BY <1>1, <1>3, <1>7, BlockAfter
  <2> QED
    BY <1>1, <1>3, <2>2, <2>3
<1>8. \A v, w \in Worker : v < w \/ w < v \/ v = w
  BY DEF Worker
<1> QED
  BY <1>5, <1>6, <1>7, <1>8

\* Sizes that divide evenly: the blocks of DGEMM are those of CG, so they
\* too have every row of C once.
THEOREM DgemmBlocksPartition ==
    ASSUME NEW m \in Nat, ~DgemmSkips(m), NEW w \in Worker
    PROVE  DgemmBlock(m, w) = CgBlock(m, w)
<1> DEFINE q == m \div N
<1>1. q \in Nat /\ m = q * N
  <2>1. PICK d \in Nat, r \in 0 .. N - 1 :
           d = q /\ r = m % N /\ d * N \in Nat /\ m = d * N + r
    BY DivRem
  <2>2. r = 0
    BY <2>1 DEF DgemmSkips
  <2>3. m = d * N
    BY ONLY <2>1, <2>2
  <2> QED
    BY <2>1, <2>3
<1> HIDE DEF q
<1>2. m = (N - 1) * q + q
  BY <1>1
<1>3. (N - 1) * q \in Nat
  BY <1>1
<1>4. m - (N - 1) * q = q
  BY <1>1, <1>2, <1>3
<1> QED
  BY <1>4 DEF DgemmBlock, CgBlock, q

\* ep_seed: two workers, or two runs of one worker, never have the same
\* seed; the worker's seed stands for its run and its number.
THEOREM SeedsAreDistinct ==
    ASSUME NEW r \in Nat, NEW w \in Worker
    PROVE  EpOfSeed(EpSeed(r, w)) = [run |-> r, worker |-> w]
<1>1. PICK p : p = r * N
  OBVIOUS
<1>2. w \in Nat /\ w < N /\ p \in Nat
  BY <1>1 DEF Worker
<1>3. PICK x \in Nat : x = p + w
  BY ONLY <1>2
<1>4. PICK k \in Nat, m \in 0 .. N - 1 :
         k = x \div N /\ m = x % N /\ k * N \in Nat /\ x = k * N + m
  BY DivRem
<1>5. k = r
  <2>1. CASE k < r
    <3>1. k * N + N <= p
      BY <1>1, <1>4, <2>1, BlockAfter
    <3> QED
      BY ONLY <1>2, <1>3, <1>4, <3>1, N \in Nat
  <2>2. CASE r < k
    <3>1. p + N <= k * N
      BY <1>1, <1>4, <2>2, BlockAfter
    <3> QED
      BY ONLY <1>2, <1>3, <1>4, <3>1, N \in Nat
  <2> QED
    BY <1>4, <2>1, <2>2
<1>6. k * N = p
  BY <1>1, <1>5
<1>7. m = w
  BY ONLY <1>2, <1>3, <1>4, <1>6, N \in Nat
<1>8. EpOfSeed(x) = [run |-> r, worker |-> w]
  BY ONLY <1>4, <1>5, <1>7 DEF EpOfSeed
<1> QED
  BY ONLY <1>1, <1>3, <1>8 DEF EpSeed
-----------------------------------------------------------------------------
(* The rounds.  RInv says of every worker what is under way between it and *)
(* the master, as long as the master is in a size: how many messages, with *)
(* which counters, and of which round.  It is inductive together with IInv.*)

Covered == {"size"} \cup Running

\* Messages of a start, of the input and of the output of a round, and READY
\* messages, per worker.
Starts   == Len(M.start)
Scatters == Len(M.scatter)
Gathers  == Len(M.gather)
Readies  == IF M.ready THEN 1 ELSE 0

\* Of n messages per worker, those that the master's loop has dealt with.
Ahead(w, n) == IF w < idx THEN n ELSE IF w = idx THEN pos - 1 ELSE 0

\* Input of this round sent to w; all that was sent to w in this size, as if
\* this round were the first; what was received from it.
InputSent(w) == CASE mpc = "scatter"             -> Ahead(w, Scatters)
                  [] mpc \in {"gather", "round"} -> Scatters
                  [] OTHER                       -> 0

SentDown(w) == CASE mpc = "size"  -> 0
                 [] mpc = "start" -> Ahead(w, Starts)
                 [] OTHER         -> Starts + InputSent(w)

TakenUp(w) == CASE mpc \in {"size", "start"} -> 0
                [] mpc = "ready"             -> Ahead(w, Readies)
                [] mpc = "scatter"           -> Readies
                [] mpc = "gather"            -> Readies + Ahead(w, Gathers)
                [] OTHER                     -> Readies + Gathers

\* What a worker that has not answered this round has received and sent.
Taken(w) == CASE wpc[w] = "command" -> 0
              [] wpc[w] = "start"   -> wpos[w]
              [] wpc[w] = "ready"   -> Starts
              [] wpc[w] = "take"    -> Starts + (wpos[w] - 1)
              [] OTHER              -> Starts + Scatters

Given(w) == CASE wpc[w] = "take" -> Readies
              [] wpc[w] = "give" -> Readies + (wpos[w] - 1)
              [] OTHER           -> 0

\* The counters differ by what was sent and not yet received.
Balanced(w, taken, given) ==
    /\ sendCtr[w] + taken = wRecvCtr[w] + SentDown(w)
    /\ wSendCtr[w] + TakenUp(w) = recvCtr[w] + given

\* A worker that has not answered this round.
Unanswered(w) ==
    /\ wpc[w] \in {"command", "start", "ready", "take", "give"}
    /\ Balanced(w, Taken(w), Given(w))
    /\ wpc[w] = "command" => run = 1 /\ iter = 1
    /\ wpc[w] # "command" => wblock[w] = Block(w) /\ wrun[w] = run /\ witer[w] = iter
    /\ wpc[w] = "give" => wof[w] = Round

\* A worker that has, and is in its next round or at the next command.
Answered(w) ==
    /\ Balanced(w, Starts + Scatters, Readies + Gathers) /\ wpos[w] = 1
    /\ IF iter < Iters
       THEN wpc[w] = "take" /\ wrun[w] = run /\ witer[w] = iter + 1
       ELSE IF run < NumRuns
       THEN wpc[w] = "take" /\ wrun[w] = run + 1 /\ witer[w] = 1
       ELSE wpc[w] = "command"
    /\ wpc[w] = "take" => wblock[w] = Block(w)

StartBody(w, b) == b.is = "start" /\ b.block = Block(w)
InputBody(w, b) ==
    IF workload = "EP" THEN b.is = "seed" /\ b.token = EpSeed(run, w)
                       ELSE b.block = Block(w) /\ b.of = Round

\* The last InputSent(w) messages to w are the input of this round.
DownFrame(w, f) ==
    /\ f.ctr < sendCtr[w]
    /\ wRecvCtr[w] <= f.ctr =>
          IF sendCtr[w] <= f.ctr + InputSent(w)
          THEN InputBody(w, f.body) ELSE StartBody(w, f.body)

\* EP sends everything with one tag, so nothing is passed by.
EpQueue(w) ==
    /\ wRecvCtr[w] + Len(net[w]["CMD"]) = sendCtr[w]
    /\ \A i \in 1 .. Len(net[w]["CMD"]) : net[w]["CMD"][i].ctr + 1 = wRecvCtr[w] + i

DownFrames(w) ==
    /\ wRecvCtr[w] <= sendCtr[w]
    /\ \A t \in DownTag : \A i \in 1 .. Len(net[w][t]) : DownFrame(w, net[w][t][i])
    /\ workload = "EP" => EpQueue(w)

Following(w) == DownFrames(w) /\ (Unanswered(w) \/ Answered(w))

\* A worker that is leaving, or one of EP that has lost a seed: it is at its
\* command loop again, and the next message does not open.
Stuck(w) ==
    /\ workload = "EP" /\ wpc[w] = "command" /\ wRecvCtr[w] < sendCtr[w]
    /\ \A i \in 1 .. Len(net[w]["CMD"]) : wRecvCtr[w] < net[w]["CMD"][i].ctr

Lost(w) == wpc[w] \in {"disconnect", "exited"} \/ Stuck(w)

\* What is under way from w and may still be opened is of this round.
UpFrame(w, t, f) ==
    /\ f.ctr < wSendCtr[w]
    /\ t # "READY" /\ recvCtr[w] <= f.ctr => f.body.block = Block(w) /\ f.body.of = Round

UpFrames(w) ==
    /\ recvCtr[w] <= wSendCtr[w]
    /\ IF mpc = "size" THEN wSendCtr[w] <= recvCtr[w]
       ELSE wSendCtr[w] + TakenUp(w) <= recvCtr[w] + (Readies + Gathers)
    /\ \A t \in UpTag : \A i \in 1 .. Len(net[w][t]) : UpFrame(w, t, net[w][t][i])

\* What was received is in its place.
Collected(w) == mpc = "round" \/ (mpc = "gather" /\ (w < idx \/ (w = idx /\ pos > 1)))

Stored(w) ==
    Collected(w) => \A e \in MaxEntries :
                       InBlock(Block(w), e) => part[e] = [row |-> e, of |-> Round]

Worked(w) == UpFrames(w) /\ (Following(w) \/ Lost(w)) /\ Stored(w)

\* Types, and the ends of the loops.
IsQueue(q) == \E B : q \in Seq([ctr : Nat, body : B, intact : BOOLEAN])

LinkTypes ==
    /\ DOMAIN net = Worker
    /\ \A w \in Worker : /\ DOMAIN net[w] = DownTag \cup UpTag
                         /\ \A t \in DownTag \cup UpTag : IsQueue(net[w][t])
    /\ sendCtr \in [Worker -> Nat] /\ recvCtr \in [Worker -> Nat]
    /\ wSendCtr \in [Worker -> Nat] /\ wRecvCtr \in [Worker -> Nat]

WorkerLoops ==
    /\ wpos \in [Worker -> Nat \ {0}] /\ wrun \in [Worker -> Nat] /\ witer \in [Worker -> Nat]
    /\ DOMAIN wblock = Worker /\ DOMAIN wof = Worker
    /\ \A w \in Worker :
          /\ wpc[w] \in {"command", "ready"} => wpos[w] = 1
          /\ wpc[w] = "start" => wpos[w] < Starts
          /\ wpc[w] = "ready" => M.ready
          /\ wpc[w] = "take" => wpos[w] <= Scatters
          /\ wpc[w] = "give" => wpos[w] <= Gathers

MasterLoops ==
    /\ cgn \in CgN /\ DOMAIN part = MaxEntries /\ iter \in 1 .. Iters
    /\ mpc \in {"size", "start", "ready"} => run = 1 /\ iter = 1
    /\ mpc \in {"size", "ready", "round"} => pos = 1
    /\ mpc = "start" => pos <= Starts
    /\ mpc = "scatter" => pos <= Scatters
    /\ mpc = "gather" => pos <= Gathers
    /\ mpc = "ready" => M.ready

RInv ==
    /\ LinkTypes /\ WorkerLoops /\ MasterLoops
    /\ mpc \in Covered => \A w \in Worker : Worked(w)
-----------------------------------------------------------------------------
(* The programs, and queues *)

LEMMA Programs ==
    ASSUME IInv
    PROVE  /\ Starts \in 1 .. 4 /\ Scatters \in 1 .. 2 /\ Gathers \in 1 .. 2 /\ Readies \in 0 .. 1
           /\ Len(W.start) = Starts - 1 /\ Len(W.take) = Scatters /\ Len(W.give) = Gathers
           /\ W.ready = M.ready /\ (M.ready => Starts = 1)
           /\ W.start = <<>> <=> Starts = 1
           /\ W.failed \in {"command", "disconnect", "abort"}
           /\ W.failed = "command" <=> workload = "EP"
<1>1. workload \in {"EP", "CG", "STREAM", "RANDOM", "VMAP", "DGEMM"}
  BY DEF IInv, Types, Workload
<1>2. CASE workload = "EP"
  <2>1. M = EPMaster /\ W = EPWorker
    BY <1>2 DEF M, W, MasterProgram, WorkerProgram
  <2>2. Starts = 1 /\ Scatters = 1 /\ Gathers = 2
    BY <2>1 DEF Starts, Scatters, Gathers, EPMaster
  <2>3. M.ready = FALSE
    BY <2>1 DEF EPMaster
  <2>4. Readies = 0
    BY <2>3 DEF Readies
  <2>5. /\ W.start = <<>> /\ Len(W.start) = 0 /\ Len(W.take) = 1 /\ Len(W.give) = 2
        /\ W.ready = FALSE /\ W.failed = "command"
    BY <2>1 DEF EPWorker
  <2>6. W.ready = M.ready /\ (M.ready => Starts = 1)
    BY <2>2, <2>5, <2>3
  <2>7. W.failed = "command" <=> workload = "EP"
    BY <1>2, <2>5
  <2> QED
    BY <2>2, <2>5, <2>4, <2>6, <2>7
<1>3. CASE workload = "CG"
  <2>1. M = CGMaster /\ W = CGWorker
    BY <1>3 DEF M, W, MasterProgram, WorkerProgram
  <2>2. Starts = 4 /\ Scatters = 1 /\ Gathers = 2
    BY <2>1 DEF Starts, Scatters, Gathers, CGMaster
  <2>3. M.ready = FALSE
    BY <2>1 DEF CGMaster
  <2>4. Readies = 0
    BY <2>3 DEF Readies
  <2>5. /\ W.start = <<"MATRIX", "MATRIX", "MATRIX">> /\ Len(W.start) = 3 /\ Len(W.take) = 1 /\ Len(W.give) = 2
        /\ W.ready = FALSE /\ W.failed = "disconnect"
    BY <2>1 DEF CGWorker
  <2>6. W.ready = M.ready /\ (M.ready => Starts = 1)
    BY <2>2, <2>5, <2>3
  <2>7. W.failed = "command" <=> workload = "EP"
    BY <1>3, <2>5
  <2> QED
    BY <2>2, <2>5, <2>4, <2>6, <2>7
<1>4. CASE workload = "STREAM"
  <2>1. M = STREAMMaster /\ W = STREAMWorker
    BY <1>4 DEF M, W, MasterProgram, WorkerProgram
  <2>2. Starts = 1 /\ Scatters = 1 /\ Gathers = 1
    BY <2>1 DEF Starts, Scatters, Gathers, STREAMMaster
  <2>3. M.ready = TRUE
    BY <2>1 DEF STREAMMaster
  <2>4. Readies = 1
    BY <2>3 DEF Readies
  <2>5. /\ W.start = <<>> /\ Len(W.start) = 0 /\ Len(W.take) = 1 /\ Len(W.give) = 1
        /\ W.ready = TRUE /\ W.failed = "disconnect"
    BY <2>1 DEF STREAMWorker
  <2>6. W.ready = M.ready /\ (M.ready => Starts = 1)
    BY <2>2, <2>5, <2>3
  <2>7. W.failed = "command" <=> workload = "EP"
    BY <1>4, <2>5
  <2> QED
    BY <2>2, <2>5, <2>4, <2>6, <2>7
<1>5. CASE workload = "RANDOM"
  <2>1. M = RANDOMMaster /\ W = RANDOMWorker
    BY <1>5 DEF M, W, MasterProgram, WorkerProgram
  <2>2. Starts = 1 /\ Scatters = 1 /\ Gathers = 1
    BY <2>1 DEF Starts, Scatters, Gathers, RANDOMMaster
  <2>3. M.ready = TRUE
    BY <2>1 DEF RANDOMMaster
  <2>4. Readies = 1
    BY <2>3 DEF Readies
  <2>5. /\ W.start = <<>> /\ Len(W.start) = 0 /\ Len(W.take) = 1 /\ Len(W.give) = 1
        /\ W.ready = TRUE /\ W.failed = "disconnect"
    BY <2>1 DEF RANDOMWorker
  <2>6. W.ready = M.ready /\ (M.ready => Starts = 1)
    BY <2>2, <2>5, <2>3
  <2>7. W.failed = "command" <=> workload = "EP"
    BY <1>5, <2>5
  <2> QED
    BY <2>2, <2>5, <2>4, <2>6, <2>7
<1>6. CASE workload = "VMAP"
  <2>1. M = VMAPMaster /\ W = VMAPWorker
    BY <1>6 DEF M, W, MasterProgram, WorkerProgram
  <2>2. Starts = 1 /\ Scatters = 1 /\ Gathers = 2
    BY <2>1 DEF Starts, Scatters, Gathers, VMAPMaster
  <2>3. M.ready = TRUE
    BY <2>1 DEF VMAPMaster
  <2>4. Readies = 1
    BY <2>3 DEF Readies
  <2>5. /\ W.start = <<>> /\ Len(W.start) = 0 /\ Len(W.take) = 1 /\ Len(W.give) = 2
        /\ W.ready = TRUE /\ W.failed = "disconnect"
    BY <2>1 DEF VMAPWorker
  <2>6. W.ready = M.ready /\ (M.ready => Starts = 1)
    BY <2>2, <2>5, <2>3
  <2>7. W.failed = "command" <=> workload = "EP"
    BY <1>6, <2>5
  <2> QED
    BY <2>2, <2>5, <2>4, <2>6, <2>7
<1>7. CASE workload = "DGEMM"
  <2>1. M = DGEMMMaster /\ W = DGEMMWorker
    BY <1>7 DEF M, W, MasterProgram, WorkerProgram
  <2>2. Starts = 1 /\ Scatters = 2 /\ Gathers = 2
    BY <2>1 DEF Starts, Scatters, Gathers, DGEMMMaster
  <2>3. M.ready = FALSE
    BY <2>1 DEF DGEMMMaster
  <2>4. Readies = 0
    BY <2>3 DEF Readies
  <2>5. /\ W.start = <<>> /\ Len(W.start) = 0 /\ Len(W.take) = 2 /\ Len(W.give) = 2
        /\ W.ready = FALSE /\ W.failed = "abort"
    BY <2>1 DEF DGEMMWorker
  <2>6. W.ready = M.ready /\ (M.ready => Starts = 1)
    BY <2>2, <2>5, <2>3
  <2>7. W.failed = "command" <=> workload = "EP"
    BY <1>7, <2>5
  <2> QED
    BY <2>2, <2>5, <2>4, <2>6, <2>7
<1> QED
  BY <1>1, <1>2, <1>3, <1>4, <1>5, <1>6, <1>7

\* The tags that the programs name.
LEMMA ProgramTags ==
    ASSUME IInv, NEW p \in Nat
    PROVE  /\ p \in 1 .. Starts => /\ M.start[p] \in DownTag
                                   /\ workload = "EP" => M.start[p] = "CMD"
           /\ p \in 1 .. Scatters => /\ M.scatter[p] \in DownTag
                                     /\ workload = "EP" => M.scatter[p] = "CMD"
           /\ p \in 1 .. Gathers => /\ M.gather[p] \in UpTag \ {"READY"}
                                    /\ p = 1 => M.gather[p] # "TIME"
           /\ p \in 1 .. Starts - 1 => W.start[p] = "MATRIX"
           /\ p \in 1 .. Scatters => /\ W.take[p] \in DownTag \ {"MATRIX"}
                                     /\ W.take[p] = "CMD" <=> workload = "EP"
           /\ p \in 1 .. Gathers => W.give[p] \in UpTag \ {"READY"}
<1>1. workload \in {"EP", "CG", "STREAM", "RANDOM", "VMAP", "DGEMM"}
  BY DEF IInv, Types, Workload
<1>2. CASE workload = "EP"
  <2>1. M = EPMaster /\ W = EPWorker
    BY <1>2 DEF M, W, MasterProgram, WorkerProgram
  <2>2. /\ M.start = <<"CMD">> /\ M.scatter = <<"CMD">> /\ M.gather = <<"EP_RESULT", "TIME">>
        /\ Starts = 1 /\ Scatters = 1 /\ Gathers = 2
    BY <2>1 DEF Starts, Scatters, Gathers, EPMaster
  <2>3. W.start = <<>> /\ W.take = <<"CMD">> /\ W.give = <<"EP_RESULT", "TIME">>
    BY <2>1 DEF EPWorker
  <2> QED
    BY <1>2, <2>2, <2>3 DEF DownTag, UpTag
<1>3. CASE workload = "CG"
  <2>1. M = CGMaster /\ W = CGWorker
    BY <1>3 DEF M, W, MasterProgram, WorkerProgram
  <2>2. /\ M.start = <<"CMD", "MATRIX", "MATRIX", "MATRIX">> /\ M.scatter = <<"X">> /\ M.gather = <<"Y", "TIME">>
        /\ Starts = 4 /\ Scatters = 1 /\ Gathers = 2
    BY <2>1 DEF Starts, Scatters, Gathers, CGMaster
  <2>3. W.start = <<"MATRIX", "MATRIX", "MATRIX">> /\ W.take = <<"X">> /\ W.give = <<"Y", "TIME">>
    BY <2>1 DEF CGWorker
  <2> QED
    BY <1>3, <2>2, <2>3 DEF DownTag, UpTag
<1>4. CASE workload = "STREAM"
  <2>1. M = STREAMMaster /\ W = STREAMWorker
    BY <1>4 DEF M, W, MasterProgram, WorkerProgram
  <2>2. /\ M.start = <<"CMD">> /\ M.scatter = <<"RUN">> /\ M.gather = <<"RESULT">>
        /\ Starts = 1 /\ Scatters = 1 /\ Gathers = 1
    BY <2>1 DEF Starts, Scatters, Gathers, STREAMMaster
  <2>3. W.start = <<>> /\ W.take = <<"RUN">> /\ W.give = <<"RESULT">>
    BY <2>1 DEF STREAMWorker
  <2> QED
    BY <1>4, <2>2, <2>3 DEF DownTag, UpTag
<1>5. CASE workload = "RANDOM"
  <2>1. M = RANDOMMaster /\ W = RANDOMWorker
    BY <1>5 DEF M, W, MasterProgram, WorkerProgram
  <2>2. /\ M.start = <<"CMD">> /\ M.scatter = <<"RUN">> /\ M.gather = <<"RESULT">>
        /\ Starts = 1 /\ Scatters = 1 /\ Gathers = 1
    BY <2>1 DEF Starts, Scatters, Gathers, RANDOMMaster
  <2>3. W.start = <<>> /\ W.take = <<"RUN">> /\ W.give = <<"RESULT">>
    BY <2>1 DEF RANDOMWorker
  <2> QED
    BY <1>5, <2>2, <2>3 DEF DownTag, UpTag
<1>6. CASE workload = "VMAP"
  <2>1. M = VMAPMaster /\ W = VMAPWorker
    BY <1>6 DEF M, W, MasterProgram, WorkerProgram
  <2>2. /\ M.start = <<"CMD">> /\ M.scatter = <<"INPUT">> /\ M.gather = <<"OUTPUT", "RESULT">>
        /\ Starts = 1 /\ Scatters = 1 /\ Gathers = 2
    BY <2>1 DEF Starts, Scatters, Gathers, VMAPMaster
  <2>3. W.start = <<>> /\ W.take = <<"INPUT">> /\ W.give = <<"OUTPUT", "RESULT">>
    BY <2>1 DEF VMAPWorker
  <2> QED
    BY <1>6, <2>2, <2>3 DEF DownTag, UpTag
<1>7. CASE workload = "DGEMM"
  <2>1. M = DGEMMMaster /\ W = DGEMMWorker
    BY <1>7 DEF M, W, MasterProgram, WorkerProgram
  <2>2. /\ M.start = <<"CMD">> /\ M.scatter = <<"A", "B">> /\ M.gather = <<"C", "TIME">>
        /\ Starts = 1 /\ Scatters = 2 /\ Gathers = 2
    BY <2>1 DEF Starts, Scatters, Gathers, DGEMMMaster
  <2>3. W.start = <<>> /\ W.take = <<"A", "B">> /\ W.give = <<"C", "TIME">>
    BY <2>1 DEF DGEMMWorker
  <2> QED
    BY <1>7, <2>2, <2>3 DEF DownTag, UpTag
<1> QED
  BY <1>1, <1>2, <1>3, <1>4, <1>5, <1>6, <1>7

LEMMA QueueFacts ==
    ASSUME NEW q, IsQueue(q)
    PROVE  /\ Len(q) \in Nat /\ (q # <<>> <=> Len(q) > 0)
           /\ \A i \in 1 .. Len(q) : q[i].ctr \in Nat
           /\ q # <<>> => Head(q) = q[1] /\ 1 \in 1 .. Len(q)
<1>1. PICK B : q \in Seq([ctr : Nat, body : B, intact : BOOLEAN])
  BY DEF IsQueue
<1>2. PICK F : F = [ctr : Nat, body : B, intact : BOOLEAN]
  OBVIOUS
<1>3. \A f \in F : f.ctr \in Nat
  BY <1>2
<1>4. q \in Seq(F)
  BY <1>1, <1>2
<1>5. \A i \in 1 .. Len(q) : q[i] \in F
  BY <1>4
<1>6. Len(q) \in Nat /\ (q # <<>> <=> Len(q) > 0) /\ (q # <<>> => Head(q) = q[1] /\ 1 \in 1 .. Len(q))
  BY <1>4
<1> QED
  BY <1>3, <1>5, <1>6

LEMMA QueueEmpty == IsQueue(<<>>) /\ Len(<<>>) = 0
<1>1. <<>> \in Seq([ctr : Nat, body : {}, intact : BOOLEAN])
  OBVIOUS
<1> QED
  BY <1>1 DEF IsQueue

IsFrame(f) == \E B : f \in [ctr : Nat, body : B, intact : BOOLEAN]

LEMMA FrameMade ==
    ASSUME NEW c \in Nat, NEW b
    PROVE  \E f : f = MakeFrame(c, b) /\ IsFrame(f) /\ f.ctr = c /\ f.body = b
<1>1. PICK C : C = {b}
  OBVIOUS
<1>2. PICK f : f = MakeFrame(c, b)
  OBVIOUS
<1>3. f \in [ctr : Nat, body : C, intact : BOOLEAN] /\ f.ctr = c /\ f.body = b
  BY <1>1, <1>2 DEF MakeFrame
<1> QED
  BY <1>2, <1>3 DEF IsFrame

LEMMA QueueAppend ==
    ASSUME NEW q, IsQueue(q), NEW f, IsFrame(f)
    PROVE  \E p : /\ p = Append(q, f)
                  /\ IsQueue(p) /\ Len(p) = Len(q) + 1 /\ Len(q) \in Nat
                  /\ \A i \in 1 .. Len(q) : p[i] = q[i]
                  /\ p[Len(q) + 1] = f
<1>1. PICK B : q \in Seq([ctr : Nat, body : B, intact : BOOLEAN])
  BY DEF IsQueue
<1>2. PICK C : f \in [ctr : Nat, body : C, intact : BOOLEAN]
  BY DEF IsFrame
<1>3. PICK D : D = B \cup C
  OBVIOUS
<1>4. PICK E : E = [ctr : Nat, body : B, intact : BOOLEAN]
  OBVIOUS
<1>5. PICK F : F = [ctr : Nat, body : D, intact : BOOLEAN]
  OBVIOUS
<1>6. f \in F /\ \A g \in E : g \in F
  BY <1>2, <1>3, <1>4, <1>5
<1>7. q \in Seq(F)
  <2>1. q \in Seq(E)
    BY <1>1, <1>4
  <2>2. Len(q) \in Nat /\ q \in [1 .. Len(q) -> E]
    BY <2>1
  <2>3. q \in [1 .. Len(q) -> F]
    BY <1>6, <2>2
  <2> QED
    BY <2>2, <2>3
<1>8. PICK p : p = Append(q, f)
  OBVIOUS
<1>9. /\ p \in Seq(F) /\ Len(p) = Len(q) + 1 /\ p[Len(q) + 1] = f /\ Len(q) \in Nat
      /\ \A i \in 1 .. Len(q) : p[i] = q[i]
  BY ONLY <1>6, <1>7, <1>8
<1> QED
  BY <1>5, <1>8, <1>9 DEF IsQueue

LEMMA QueueTail ==
    ASSUME NEW q, IsQueue(q), q # <<>>
    PROVE  /\ IsQueue(Tail(q)) /\ Len(Tail(q)) + 1 = Len(q) /\ Len(Tail(q)) \in Nat
           /\ \A i \in 1 .. Len(Tail(q)) : Tail(q)[i] = q[i + 1] /\ i + 1 \in 1 .. Len(q)
<1>1. PICK B : q \in Seq([ctr : Nat, body : B, intact : BOOLEAN])
  BY DEF IsQueue
<1>2. PICK F : F = [ctr : Nat, body : B, intact : BOOLEAN]
  OBVIOUS
<1>3. q \in Seq(F)
  BY <1>1, <1>2
<1>4. /\ Tail(q) \in Seq(F) /\ Len(Tail(q)) + 1 = Len(q) /\ Len(Tail(q)) \in Nat
      /\ \A i \in 1 .. Len(Tail(q)) : Tail(q)[i] = q[i + 1] /\ i + 1 \in 1 .. Len(q)
  BY ONLY <1>3, q # <<>>
<1> QED
  BY <1>2, <1>4 DEF IsQueue

LEMMA QueueDamage ==
    ASSUME NEW q, IsQueue(q), NEW k \in 1 .. Len(q)
    PROVE  \E p : /\ p = [q EXCEPT ![k].intact = FALSE]
                  /\ IsQueue(p) /\ Len(p) = Len(q)
                  /\ \A i \in 1 .. Len(q) : p[i].ctr = q[i].ctr /\ p[i].body = q[i].body
<1>1. PICK p : p = [q EXCEPT ![k].intact = FALSE]
  OBVIOUS
<1>2. PICK B : q \in Seq([ctr : Nat, body : B, intact : BOOLEAN])
  BY DEF IsQueue
<1>3. PICK f : f = [q[k] EXCEPT !.intact = FALSE]
  OBVIOUS
<1>4. PICK F : F = [ctr : Nat, body : B, intact : BOOLEAN]
  OBVIOUS
<1>5. q \in Seq(F)
  BY <1>2, <1>4
<1>6. q[k] \in F
  BY <1>5
<1>7. f \in F /\ f.ctr = q[k].ctr /\ f.body = q[k].body
  BY <1>3, <1>6, <1>4
<1>8. p = [q EXCEPT ![k] = f]
  BY <1>3, <1>1
<1>9. q \in Seq(F) /\ f \in F
  BY <1>7, <1>5
<1>10. p \in Seq(F) /\ Len(p) = Len(q) /\ p[k] = f /\ \A i \in 1 .. Len(q) : i # k => p[i] = q[i]
  BY ONLY <1>8, <1>9, k \in 1 .. Len(q)
<1> QED
  BY <1>7, <1>4, <1>10, <1>1 DEF IsQueue
-----------------------------------------------------------------------------
(* What a send, a receive or the network does to one queue *)

LEMMA MasterSends ==
    ASSUME LinkTypes, NEW w \in Worker, NEW t \in DownTag, NEW b, MasterSend(w, t, b)
    PROVE  /\ LinkTypes' /\ UNCHANGED <<recvCtr, wSendCtr, wRecvCtr>> /\ sendCtr'[w] = sendCtr[w] + 1
           /\ \A v \in Worker : v # w => net'[v] = net[v] /\ sendCtr'[v] = sendCtr[v]
           /\ \A s \in DownTag \cup UpTag : s # t => net'[w][s] = net[w][s]
           /\ Len(net'[w][t]) = Len(net[w][t]) + 1 /\ Len(net[w][t]) \in Nat
           /\ \A i \in 1 .. Len(net[w][t]) : net'[w][t][i] = net[w][t][i]
           /\ net'[w][t][Len(net[w][t]) + 1].ctr = sendCtr[w]
           /\ net'[w][t][Len(net[w][t]) + 1].body = b
<1>1. PICK q : q = net[w][t]
  OBVIOUS
<1>2. PICK c : c = sendCtr[w]
  OBVIOUS
<1>3. t \in DownTag \cup UpTag /\ IsQueue(q) /\ c \in Nat
  BY <1>1, <1>2 DEF LinkTypes
<1>4. PICK f : f = MakeFrame(c, b) /\ IsFrame(f) /\ f.ctr = c /\ f.body = b
  BY <1>3, FrameMade
<1>5. PICK p : /\ p = Append(q, f)
               /\ IsQueue(p) /\ Len(p) = Len(q) + 1 /\ Len(q) \in Nat
               /\ \A i \in 1 .. Len(q) : p[i] = q[i]
               /\ p[Len(q) + 1] = f
  BY ONLY <1>3, <1>4, QueueAppend
<1>6. net' = [net EXCEPT ![w][t] = p]
  BY <1>1, <1>2, <1>5, <1>4 DEF MasterSend
<1>7. sendCtr' = [sendCtr EXCEPT ![w] = @ + 1] /\ UNCHANGED <<recvCtr, wSendCtr, wRecvCtr>>
  BY DEF MasterSend
<1>8. p[Len(q) + 1].ctr = c /\ p[Len(q) + 1].body = b
  BY <1>5, <1>4
<1>9. /\ net'[w][t] = p /\ DOMAIN net' = Worker /\ DOMAIN net'[w] = DownTag \cup UpTag
      /\ \A v \in Worker : v # w => net'[v] = net[v]
      /\ \A s \in DownTag \cup UpTag : s # t => net'[w][s] = net[w][s]
  BY <1>3, <1>6 DEF LinkTypes
<1>10. sendCtr'[w] = c + 1 /\ \A v \in Worker : v # w => sendCtr'[v] = sendCtr[v]
  BY <1>2, <1>7 DEF LinkTypes
<1>11. sendCtr' \in [Worker -> Nat]
  BY <1>7 DEF LinkTypes
<1>12. \A v \in Worker, s \in DownTag \cup UpTag : IsQueue(net'[v][s])
  BY <1>5, <1>9 DEF LinkTypes
<1>13. \A v \in Worker : DOMAIN net'[v] = DownTag \cup UpTag
  BY <1>9 DEF LinkTypes
<1>14. LinkTypes'
  BY <1>7, <1>9, <1>11, <1>12, <1>13 DEF LinkTypes
<1> QED
  BY <1>1, <1>2, <1>5, <1>7, <1>8, <1>9, <1>10, <1>14

LEMMA WorkerSends ==
    ASSUME LinkTypes, NEW w \in Worker, NEW t \in UpTag, NEW b, WorkerSend(w, t, b)
    PROVE  /\ LinkTypes' /\ UNCHANGED <<sendCtr, recvCtr, wRecvCtr>> /\ wSendCtr'[w] = wSendCtr[w] + 1
           /\ \A v \in Worker : v # w => net'[v] = net[v] /\ wSendCtr'[v] = wSendCtr[v]
           /\ \A s \in DownTag \cup UpTag : s # t => net'[w][s] = net[w][s]
           /\ Len(net'[w][t]) = Len(net[w][t]) + 1 /\ Len(net[w][t]) \in Nat
           /\ \A i \in 1 .. Len(net[w][t]) : net'[w][t][i] = net[w][t][i]
           /\ net'[w][t][Len(net[w][t]) + 1].ctr = wSendCtr[w]
           /\ net'[w][t][Len(net[w][t]) + 1].body = b
<1>1. PICK q : q = net[w][t]
  OBVIOUS
<1>2. PICK c : c = wSendCtr[w]
  OBVIOUS
<1>3. t \in DownTag \cup UpTag /\ IsQueue(q) /\ c \in Nat
  BY <1>1, <1>2 DEF LinkTypes
<1>4. PICK f : f = MakeFrame(c, b) /\ IsFrame(f) /\ f.ctr = c /\ f.body = b
  BY <1>3, FrameMade
<1>5. PICK p : /\ p = Append(q, f)
               /\ IsQueue(p) /\ Len(p) = Len(q) + 1 /\ Len(q) \in Nat
               /\ \A i \in 1 .. Len(q) : p[i] = q[i]
               /\ p[Len(q) + 1] = f
  BY ONLY <1>3, <1>4, QueueAppend
<1>6. net' = [net EXCEPT ![w][t] = p]
  BY <1>1, <1>2, <1>5, <1>4 DEF WorkerSend
<1>7. wSendCtr' = [wSendCtr EXCEPT ![w] = @ + 1] /\ UNCHANGED <<sendCtr, recvCtr, wRecvCtr>>
  BY DEF WorkerSend
<1>8. p[Len(q) + 1].ctr = c /\ p[Len(q) + 1].body = b
  BY <1>5, <1>4
<1>9. /\ net'[w][t] = p /\ DOMAIN net' = Worker /\ DOMAIN net'[w] = DownTag \cup UpTag
      /\ \A v \in Worker : v # w => net'[v] = net[v]
      /\ \A s \in DownTag \cup UpTag : s # t => net'[w][s] = net[w][s]
  BY <1>3, <1>6 DEF LinkTypes
<1>10. wSendCtr'[w] = c + 1 /\ \A v \in Worker : v # w => wSendCtr'[v] = wSendCtr[v]
  BY <1>2, <1>7 DEF LinkTypes
<1>11. wSendCtr' \in [Worker -> Nat]
  BY <1>7 DEF LinkTypes
<1>12. \A v \in Worker, s \in DownTag \cup UpTag : IsQueue(net'[v][s])
  BY <1>5, <1>9 DEF LinkTypes
<1>13. \A v \in Worker : DOMAIN net'[v] = DownTag \cup UpTag
  BY <1>9 DEF LinkTypes
<1>14. LinkTypes'
  BY <1>7, <1>9, <1>11, <1>12, <1>13 DEF LinkTypes
<1> QED
  BY <1>1, <1>2, <1>5, <1>7, <1>8, <1>9, <1>10, <1>14

LEMMA MasterTakes ==
    ASSUME LinkTypes, NEW w \in Worker, NEW t \in UpTag, Arrived(w, t), MasterTake(w, t)
    PROVE  /\ LinkTypes' /\ UNCHANGED <<sendCtr, wSendCtr, wRecvCtr>>
           /\ recvCtr'[w] = IF MasterOpens(w, t) THEN recvCtr[w] + 1 ELSE recvCtr[w]
           /\ \A v \in Worker : v # w => net'[v] = net[v] /\ recvCtr'[v] = recvCtr[v]
           /\ \A s \in DownTag \cup UpTag : s # t => net'[w][s] = net[w][s]
           /\ Len(net'[w][t]) + 1 = Len(net[w][t]) /\ Len(net'[w][t]) \in Nat
           /\ \A i \in 1 .. Len(net'[w][t]) : /\ net'[w][t][i] = net[w][t][i + 1]
                                             /\ i + 1 \in 1 .. Len(net[w][t])
           /\ 1 \in 1 .. Len(net[w][t]) /\ Got(w, t) = net[w][t][1].body
           /\ MasterOpens(w, t) => net[w][t][1].ctr = recvCtr[w]
<1>1. PICK q : q = net[w][t]
  OBVIOUS
<1>2. PICK p : p = Tail(q)
  OBVIOUS
<1>3. t \in DownTag \cup UpTag /\ IsQueue(q) /\ q # <<>>
  BY <1>1 DEF LinkTypes, Arrived
<1>4. net' = [net EXCEPT ![w][t] = p]
  BY <1>1, <1>2 DEF MasterTake
<1>5. /\ recvCtr' = [recvCtr EXCEPT ![w] = IF MasterOpens(w, t) THEN @ + 1 ELSE @]
      /\ UNCHANGED <<sendCtr, wSendCtr, wRecvCtr>>
  BY DEF MasterTake
<1>6. /\ IsQueue(p) /\ Len(p) + 1 = Len(q) /\ Len(p) \in Nat
      /\ \A i \in 1 .. Len(p) : p[i] = q[i + 1] /\ i + 1 \in 1 .. Len(q)
  BY ONLY <1>2, <1>3, QueueTail
<1>7. /\ net'[w][t] = p /\ DOMAIN net' = Worker /\ DOMAIN net'[w] = DownTag \cup UpTag
      /\ \A v \in Worker : v # w => net'[v] = net[v]
      /\ \A s \in DownTag \cup UpTag : s # t => net'[w][s] = net[w][s]
  BY <1>3, <1>4 DEF LinkTypes
<1>8. /\ recvCtr'[w] = IF MasterOpens(w, t) THEN recvCtr[w] + 1 ELSE recvCtr[w]
      /\ \A v \in Worker : v # w => recvCtr'[v] = recvCtr[v]
  BY <1>5 DEF LinkTypes
<1>9. recvCtr' \in [Worker -> Nat]
  BY <1>5 DEF LinkTypes
<1>10. \A v \in Worker, s \in DownTag \cup UpTag : IsQueue(net'[v][s])
  BY <1>6, <1>7 DEF LinkTypes
<1>11. \A v \in Worker : DOMAIN net'[v] = DownTag \cup UpTag
  BY <1>7 DEF LinkTypes
<1>12. LinkTypes'
  BY <1>5, <1>7, <1>9, <1>10, <1>11 DEF LinkTypes
<1>13. 1 \in 1 .. Len(q) /\ Head(q) = q[1]
  BY <1>3, QueueFacts
<1>14. Got(w, t) = q[1].body
  BY <1>1, <1>13 DEF Got
<1>15. MasterOpens(w, t) => q[1].ctr = recvCtr[w]
  BY <1>1, <1>13 DEF MasterOpens, Opens
<1> QED
  BY <1>1, <1>5, <1>6, <1>7, <1>8, <1>12, <1>13, <1>14, <1>15

LEMMA WorkerTakes ==
    ASSUME LinkTypes, NEW w \in Worker, NEW t \in DownTag, Arrived(w, t), WorkerTake(w, t)
    PROVE  /\ LinkTypes' /\ UNCHANGED <<sendCtr, recvCtr, wSendCtr>>
           /\ wRecvCtr'[w] = IF WorkerOpens(w, t) THEN wRecvCtr[w] + 1 ELSE wRecvCtr[w]
           /\ \A v \in Worker : v # w => net'[v] = net[v] /\ wRecvCtr'[v] = wRecvCtr[v]
           /\ \A s \in DownTag \cup UpTag : s # t => net'[w][s] = net[w][s]
           /\ Len(net'[w][t]) + 1 = Len(net[w][t]) /\ Len(net'[w][t]) \in Nat
           /\ \A i \in 1 .. Len(net'[w][t]) : /\ net'[w][t][i] = net[w][t][i + 1]
                                             /\ i + 1 \in 1 .. Len(net[w][t])
           /\ 1 \in 1 .. Len(net[w][t]) /\ Got(w, t) = net[w][t][1].body
           /\ WorkerOpens(w, t) => net[w][t][1].ctr = wRecvCtr[w]
<1>1. PICK q : q = net[w][t]
  OBVIOUS
<1>2. PICK p : p = Tail(q)
  OBVIOUS
<1>3. t \in DownTag \cup UpTag /\ IsQueue(q) /\ q # <<>>
  BY <1>1 DEF LinkTypes, Arrived
<1>4. net' = [net EXCEPT ![w][t] = p]
  BY <1>1, <1>2 DEF WorkerTake
<1>5. /\ wRecvCtr' = [wRecvCtr EXCEPT ![w] = IF WorkerOpens(w, t) THEN @ + 1 ELSE @]
      /\ UNCHANGED <<sendCtr, recvCtr, wSendCtr>>
  BY DEF WorkerTake
<1>6. /\ IsQueue(p) /\ Len(p) + 1 = Len(q) /\ Len(p) \in Nat
      /\ \A i \in 1 .. Len(p) : p[i] = q[i + 1] /\ i + 1 \in 1 .. Len(q)
  BY ONLY <1>2, <1>3, QueueTail
<1>7. /\ net'[w][t] = p /\ DOMAIN net' = Worker /\ DOMAIN net'[w] = DownTag \cup UpTag
      /\ \A v \in Worker : v # w => net'[v] = net[v]
      /\ \A s \in DownTag \cup UpTag : s # t => net'[w][s] = net[w][s]
  BY <1>3, <1>4 DEF LinkTypes
<1>8. /\ wRecvCtr'[w] = IF WorkerOpens(w, t) THEN wRecvCtr[w] + 1 ELSE wRecvCtr[w]
      /\ \A v \in Worker : v # w => wRecvCtr'[v] = wRecvCtr[v]
  BY <1>5 DEF LinkTypes
<1>9. wRecvCtr' \in [Worker -> Nat]
  BY <1>5 DEF LinkTypes
<1>10. \A v \in Worker, s \in DownTag \cup UpTag : IsQueue(net'[v][s])
  BY <1>6, <1>7 DEF LinkTypes
<1>11. \A v \in Worker : DOMAIN net'[v] = DownTag \cup UpTag
  BY <1>7 DEF LinkTypes
<1>12. LinkTypes'
  BY <1>5, <1>7, <1>9, <1>10, <1>11 DEF LinkTypes
<1>13. 1 \in 1 .. Len(q) /\ Head(q) = q[1]
  BY <1>3, QueueFacts
<1>14. Got(w, t) = q[1].body
  BY <1>1, <1>13 DEF Got
<1>15. WorkerOpens(w, t) => q[1].ctr = wRecvCtr[w]
  BY <1>1, <1>13 DEF WorkerOpens, Opens
<1> QED
  BY <1>1, <1>5, <1>6, <1>7, <1>8, <1>12, <1>13, <1>14, <1>15

LEMMA NetDamages ==
    ASSUME LinkTypes, NEW w \in Worker, NEW t \in DownTag \cup UpTag, DamageFrame(w, t)
    PROVE  /\ LinkTypes' /\ UNCHANGED <<sendCtr, recvCtr, wSendCtr, wRecvCtr>>
           /\ \A v \in Worker, s \in DownTag \cup UpTag :
                 /\ Len(net'[v][s]) = Len(net[v][s])
                 /\ \A i \in 1 .. Len(net[v][s]) : /\ net'[v][s][i].ctr = net[v][s][i].ctr
                                                 /\ net'[v][s][i].body = net[v][s][i].body
<1>1. PICK q : q = net[w][t]
  OBVIOUS
<1>2. PICK k \in 1 .. Len(q) : net' = [net EXCEPT ![w][t][k].intact = FALSE]
  BY <1>1 DEF DamageFrame
<1>3. UNCHANGED <<sendCtr, recvCtr, wSendCtr, wRecvCtr>>
  BY DEF DamageFrame
<1>4. IsQueue(q)
  BY <1>1 DEF LinkTypes
<1>5. PICK p : /\ p = [q EXCEPT ![k].intact = FALSE]
               /\ IsQueue(p) /\ Len(p) = Len(q)
               /\ \A i \in 1 .. Len(q) : p[i].ctr = q[i].ctr /\ p[i].body = q[i].body
  BY <1>4, QueueDamage
<1>6. net' = [net EXCEPT ![w][t] = p]
  BY <1>1, <1>2, <1>5
<1>7. /\ IsQueue(p) /\ Len(p) = Len(q)
      /\ \A i \in 1 .. Len(q) : p[i].ctr = q[i].ctr /\ p[i].body = q[i].body
  BY <1>5
<1>8. /\ net'[w][t] = p /\ DOMAIN net' = Worker /\ DOMAIN net'[w] = DownTag \cup UpTag
      /\ \A v \in Worker : v # w => net'[v] = net[v]
      /\ \A s \in DownTag \cup UpTag : s # t => net'[w][s] = net[w][s]
  BY <1>6 DEF LinkTypes
<1>9. \A v \in Worker, s \in DownTag \cup UpTag : IsQueue(net'[v][s])
  BY <1>7, <1>8 DEF LinkTypes
<1>10. \A v \in Worker : DOMAIN net'[v] = DownTag \cup UpTag
  BY <1>8 DEF LinkTypes
<1>11. LinkTypes'
  BY <1>3, <1>8, <1>9, <1>10 DEF LinkTypes
<1>12. ASSUME NEW v \in Worker, NEW s \in DownTag \cup UpTag
       PROVE  /\ Len(net'[v][s]) = Len(net[v][s])
              /\ \A i \in 1 .. Len(net[v][s]) : /\ net'[v][s][i].ctr = net[v][s][i].ctr
                                              /\ net'[v][s][i].body = net[v][s][i].body
  <2>1. CASE v = w /\ s = t
    BY <1>1, <1>7, <1>8, <2>1
  <2>2. CASE ~(v = w /\ s = t)
    <3>1. net'[v][s] = net[v][s]
      BY <1>8, <2>2
    <3> QED
      BY <3>1
  <2> QED
    BY <2>1, <2>2
<1> QED
  BY <1>3, <1>11, <1>12
-----------------------------------------------------------------------------
(* Counting messages *)

LEMMA AheadType ==
    ASSUME IInv, NEW w \in Worker, NEW n \in Nat, pos <= n
    PROVE  Ahead(w, n) \in 0 .. n
<1>1. idx \in Nat /\ w \in Nat /\ pos \in Nat \ {0}
  BY DEF IInv, Types, Worker
<1> QED
  BY <1>1 DEF Ahead

LEMMA CountTypes ==
    ASSUME IInv, MasterLoops, mpc \in Covered, NEW w \in Worker
    PROVE  /\ InputSent(w) \in 0 .. Scatters /\ SentDown(w) \in Nat
           /\ \/ SentDown(w) = Starts + InputSent(w)
              \/ InputSent(w) = 0 /\ SentDown(w) <= Starts
           /\ TakenUp(w) \in 0 .. Readies + Gathers
           /\ mpc = "size" => SentDown(w) = 0 /\ TakenUp(w) = 0
           /\ mpc = "round" => /\ SentDown(w) = Starts + Scatters
                               /\ TakenUp(w) = Readies + Gathers
<1>1. Starts \in Nat \ {0} /\ Scatters \in Nat \ {0} /\ Gathers \in Nat \ {0} /\ Readies \in Nat
  BY Programs
<1>2. CASE mpc \in {"size", "round"}
  <2>1. /\ mpc = "size" => InputSent(w) = 0 /\ SentDown(w) = 0 /\ TakenUp(w) = 0
        /\ mpc = "round" => /\ InputSent(w) = Scatters /\ SentDown(w) = Starts + InputSent(w)
                            /\ TakenUp(w) = Readies + Gathers
    BY <1>2 DEF InputSent, SentDown, TakenUp
  <2> QED
    BY <1>1, <1>2, <2>1
<1>3. CASE mpc = "start"
  <2>1. Ahead(w, Starts) \in 0 .. Starts
    BY <1>1, <1>3, AheadType DEF MasterLoops
  <2>2. InputSent(w) = 0 /\ SentDown(w) = Ahead(w, Starts) /\ TakenUp(w) = 0
    BY <1>3 DEF InputSent, SentDown, TakenUp
  <2> QED
    BY <1>1, <1>3, <2>1, <2>2
<1>4. CASE mpc = "ready"
  <2>1. Readies = 1 /\ pos = 1
    BY <1>4 DEF MasterLoops, Readies
  <2>2. Ahead(w, Readies) \in 0 .. Readies
    BY <2>1, AheadType
  <2>3. InputSent(w) = 0 /\ SentDown(w) = Starts + InputSent(w) /\ TakenUp(w) = Ahead(w, Readies)
    BY <1>4 DEF InputSent, SentDown, TakenUp
  <2> QED
    BY <1>1, <1>4, <2>2, <2>3
<1>5. CASE mpc = "scatter"
  <2>1. Ahead(w, Scatters) \in 0 .. Scatters
    BY <1>1, <1>5, AheadType DEF MasterLoops
  <2>2. InputSent(w) = Ahead(w, Scatters) /\ SentDown(w) = Starts + InputSent(w)
        /\ TakenUp(w) = Readies
    BY <1>5 DEF InputSent, SentDown, TakenUp
  <2> QED
    BY <1>1, <1>5, <2>1, <2>2
<1>6. CASE mpc = "gather"
  <2>1. Ahead(w, Gathers) \in 0 .. Gathers
    BY <1>1, <1>6, AheadType DEF MasterLoops
  <2>2. InputSent(w) = Scatters /\ SentDown(w) = Starts + InputSent(w)
        /\ TakenUp(w) = Readies + Ahead(w, Gathers)
    BY <1>6 DEF InputSent, SentDown, TakenUp
  <2> QED
    BY <1>1, <1>6, <2>1, <2>2
<1> QED
  BY <1>2, <1>3, <1>4, <1>5, <1>6 DEF Covered, Running

LEMMA WorkerTypes ==
    ASSUME IInv, LinkTypes, WorkerLoops, NEW w \in Worker
    PROVE  /\ sendCtr[w] \in Nat /\ recvCtr[w] \in Nat /\ wSendCtr[w] \in Nat /\ wRecvCtr[w] \in Nat
           /\ wpos[w] \in Nat \ {0}
           /\ wpc[w] \in {"command", "start", "ready", "take", "give"} =>
                 /\ Taken(w) \in 0 .. Starts + Scatters /\ Given(w) \in Nat
                 /\ Taken(w) = 0 <=> wpc[w] = "command"
                 /\ Given(w) + 1 <= Readies + Gathers
<1>1. Starts \in Nat \ {0} /\ Scatters \in Nat \ {0} /\ Gathers \in Nat \ {0} /\ Readies \in Nat
  BY Programs
<1>2. wpos[w] \in Nat \ {0}
  BY DEF WorkerLoops
<1>3. ASSUME wpc[w] = "command" PROVE Taken(w) = 0 /\ Given(w) = 0
  BY <1>3 DEF Taken, Given
<1>4. ASSUME wpc[w] = "start" PROVE Taken(w) = wpos[w] /\ Given(w) = 0 /\ wpos[w] < Starts
  BY <1>4 DEF Taken, Given, WorkerLoops
<1>5. ASSUME wpc[w] = "ready" PROVE Taken(w) = Starts /\ Given(w) = 0
  BY <1>5 DEF Taken, Given
<1>6. ASSUME wpc[w] = "take"
      PROVE  Taken(w) = Starts + (wpos[w] - 1) /\ Given(w) = Readies /\ wpos[w] <= Scatters
  BY <1>6 DEF Taken, Given, WorkerLoops
<1>7. ASSUME wpc[w] = "give"
      PROVE  /\ Taken(w) = Starts + Scatters /\ Given(w) = Readies + (wpos[w] - 1)
             /\ wpos[w] <= Gathers
  BY <1>7 DEF Taken, Given, WorkerLoops
<1>8. /\ sendCtr[w] \in Nat /\ recvCtr[w] \in Nat /\ wSendCtr[w] \in Nat /\ wRecvCtr[w] \in Nat
  BY DEF LinkTypes
<1>9. ASSUME wpc[w] \in {"command", "start", "ready", "take", "give"}
      PROVE  /\ Taken(w) \in 0 .. Starts + Scatters /\ Given(w) \in Nat
             /\ Given(w) + 1 <= Readies + Gathers
             /\ wpc[w] = "command" => Taken(w) = 0
             /\ wpc[w] # "command" => Taken(w) # 0
  <2>1. CASE wpc[w] = "command"
    BY <1>1, <1>3, <2>1
  <2>2. CASE wpc[w] = "start"
    BY <1>1, <1>2, <1>4, <2>2
  <2>3. CASE wpc[w] = "ready"
    BY <1>1, <1>5, <2>3
  <2>4. CASE wpc[w] = "take"
    BY <1>1, <1>2, <1>6, <2>4
  <2>5. CASE wpc[w] = "give"
    BY <1>1, <1>2, <1>7, <2>5
  <2> QED
    BY <1>9, <2>1, <2>2, <2>3, <2>4, <2>5
<1> QED
  BY <1>2, <1>8, <1>9

\* Nothing is under way that can be opened when a round is complete, and
\* whoever is not lost has answered.
LEMMA AtRound ==
    ASSUME IInv, RInv, mpc = "round", NEW w \in Worker
    PROVE  /\ wSendCtr[w] = recvCtr[w]
           /\ Following(w) => Answered(w) /\ sendCtr[w] = wRecvCtr[w]
<1>1. /\ SentDown(w) = Starts + Scatters /\ TakenUp(w) = Readies + Gathers
      /\ SentDown(w) \in Nat /\ TakenUp(w) \in Nat
  BY CountTypes, Programs DEF RInv, Covered, Running
<1>2. UpFrames(w)
  BY DEF RInv, Covered, Running, Worked
<1>3. recvCtr[w] <= wSendCtr[w] /\ wSendCtr[w] + TakenUp(w) <= recvCtr[w] + (Readies + Gathers)
  BY <1>2 DEF UpFrames
<1>4. sendCtr[w] \in Nat /\ recvCtr[w] \in Nat /\ wSendCtr[w] \in Nat /\ wRecvCtr[w] \in Nat
  BY WorkerTypes DEF RInv
<1>5. wSendCtr[w] = recvCtr[w]
  BY <1>1, <1>3, <1>4
<1>6. ~Unanswered(w)
  <2> SUFFICES ASSUME Unanswered(w) PROVE FALSE
    OBVIOUS
  <2>1. Given(w) \in Nat /\ Given(w) + 1 <= Readies + Gathers
    BY WorkerTypes DEF Unanswered, RInv
  <2>2. wSendCtr[w] + TakenUp(w) = recvCtr[w] + Given(w)
    BY DEF Unanswered, Balanced
  <2> QED
    BY <1>1, <1>4, <1>5, <2>1, <2>2
<1>7. ASSUME Answered(w) PROVE sendCtr[w] = wRecvCtr[w]
  <2>1. sendCtr[w] + (Starts + Scatters) = wRecvCtr[w] + SentDown(w)
    BY <1>7 DEF Answered, Balanced
  <2> QED
    BY <1>1, <1>4, <2>1
<1> QED
  BY <1>5, <1>6, <1>7 DEF Following

\* The same between two sizes, where everybody waits for the command.
LEMMA AtSize ==
    ASSUME IInv, RInv, mpc = "size", NEW w \in Worker
    PROVE  /\ wSendCtr[w] = recvCtr[w]
           /\ Following(w) => /\ Unanswered(w) /\ wpc[w] = "command"
                              /\ sendCtr[w] = wRecvCtr[w]
<1>1. /\ SentDown(w) = 0 /\ TakenUp(w) = 0
  BY CountTypes DEF RInv, Covered
<1>2. Starts \in Nat \ {0} /\ Scatters \in Nat \ {0}
  BY Programs
<1>3. recvCtr[w] <= wSendCtr[w] /\ wSendCtr[w] <= recvCtr[w]
  BY DEF RInv, Covered, Worked, UpFrames
<1>4. sendCtr[w] \in Nat /\ recvCtr[w] \in Nat /\ wSendCtr[w] \in Nat /\ wRecvCtr[w] \in Nat
  BY WorkerTypes DEF RInv
<1>5. ASSUME Following(w) PROVE Unanswered(w) /\ wpc[w] = "command" /\ sendCtr[w] = wRecvCtr[w]
  <2>1. wRecvCtr[w] <= sendCtr[w]
    BY <1>5 DEF Following, DownFrames
  <2>2. ~Answered(w)
    <3> SUFFICES ASSUME Answered(w) PROVE FALSE
      OBVIOUS
    <3>1. sendCtr[w] + (Starts + Scatters) = wRecvCtr[w] + SentDown(w)
      BY DEF Answered, Balanced
    <3> QED
      BY <1>1, <1>2, <1>4, <2>1, <3>1
  <2>3. Unanswered(w)
    BY <1>5, <2>2 DEF Following
  <2>4. Taken(w) \in Nat /\ (Taken(w) = 0 <=> wpc[w] = "command")
    BY <1>2, <2>3, WorkerTypes DEF Unanswered, RInv
  <2>5. sendCtr[w] + Taken(w) = wRecvCtr[w] + SentDown(w)
    BY <2>3 DEF Unanswered, Balanced
  <2>6. Taken(w) = 0 /\ sendCtr[w] = wRecvCtr[w]
    BY <1>1, <1>4, <2>1, <2>4, <2>5
  <2> QED
    BY <2>3, <2>4, <2>6
<1> QED
  BY <1>3, <1>4, <1>5

\* One more message to or from worker idx.
LEMMA AheadStep ==
    ASSUME IInv, NEW n \in Nat, pos <= n, NEW seq, Len(seq) = n, NEW here, NEW after,
           here # after, mpc = here, NextSend(seq, here, after)
    PROVE  /\ mpc' \in {here, after} /\ idx' \in Worker /\ pos' \in Nat \ {0}
           /\ mpc' = here => /\ pos' <= n
                             /\ \A v \in Worker : Ahead(v, n)' = IF v = idx THEN Ahead(v, n) + 1
                                                                 ELSE Ahead(v, n)
           /\ mpc' = after => /\ pos' = 1 /\ idx' = 0
                              /\ \A v \in Worker : IF v = idx THEN Ahead(v, n) + 1 = n
                                                              ELSE Ahead(v, n) = n
<1>1. idx \in Worker /\ idx \in Nat /\ pos \in Nat \ {0} /\ \A v \in Worker : v \in Nat /\ v < N
  BY DEF IInv, Types, Worker
<1>2. \/ mpc' = here /\ pos < n /\ pos' = pos + 1 /\ idx' = idx
      \/ mpc' = here /\ pos = n /\ pos' = 1 /\ idx' = idx + 1 /\ idx + 1 < N
      \/ mpc' = after /\ pos = n /\ pos' = 1 /\ idx' = 0 /\ idx + 1 = N
  BY DEF NextSend
<1>3. mpc' \in {here, after} /\ idx' \in Worker /\ pos' \in Nat \ {0} /\ pos' <= n
  BY <1>1, <1>2 DEF Worker
<1>4. ASSUME mpc' = here, NEW v \in Worker
      PROVE  Ahead(v, n)' = IF v = idx THEN Ahead(v, n) + 1 ELSE Ahead(v, n)
  <2>1. CASE pos < n /\ pos' = pos + 1 /\ idx' = idx
    BY <1>1, <2>1 DEF Ahead
  <2>2. CASE pos = n /\ pos' = 1 /\ idx' = idx + 1
    <3>1. v = idx \/ v < idx \/ v = idx + 1 \/ v > idx + 1
      BY <1>1
    <3> QED
      BY <1>1, <2>2, <3>1 DEF Ahead
  <2> QED
    BY <1>2, <1>4, <2>1, <2>2
<1>5. ASSUME mpc' = after, NEW v \in Worker
      PROVE  IF v = idx THEN Ahead(v, n) + 1 = n ELSE Ahead(v, n) = n
  BY <1>1, <1>2, <1>5 DEF Ahead
<1>6. mpc' = after => pos' = 1 /\ idx' = 0
  BY <1>2
<1> QED
  BY <1>3, <1>4, <1>5, <1>6

LEMMA AheadReset ==
    ASSUME idx' = 0, pos' = 1, NEW v \in Worker, NEW n PROVE Ahead(v, n)' = 0
  BY DEF Ahead, Worker
-----------------------------------------------------------------------------
(* What a step leaves as it is *)

SameRound == UNCHANGED <<workload, cgn, size, run, iter>>

SameWorker(w) ==
    /\ wpc'[w] = wpc[w] /\ wpos'[w] = wpos[w] /\ wrun'[w] = wrun[w] /\ witer'[w] = witer[w]
    /\ wblock'[w] = wblock[w] /\ wof'[w] = wof[w]

SameDown(w) == sendCtr'[w] = sendCtr[w] /\ wRecvCtr'[w] = wRecvCtr[w]
SameUp(w)   == wSendCtr'[w] = wSendCtr[w] /\ recvCtr'[w] = recvCtr[w]

SameQueue(w, t) ==
    /\ Len(net'[w][t]) = Len(net[w][t])
    /\ \A i \in 1 .. Len(net[w][t]) : /\ net'[w][t][i].ctr = net[w][t][i].ctr
                                      /\ net'[w][t][i].body = net[w][t][i].body

SameSent(w) == InputSent(w)' = InputSent(w) /\ SentDown(w)' = SentDown(w)

LEMMA RoundKept ==
    ASSUME SameRound
    PROVE  /\ Starts' = Starts /\ Scatters' = Scatters /\ Gathers' = Gathers
           /\ Readies' = Readies /\ Iters' = Iters /\ Round' = Round
           /\ M' = M /\ W' = W /\ \A w \in Worker : Block(w)' = Block(w)
  BY DEF SameRound, Starts, Scatters, Gathers, Readies, M, W, Iters, Round, Block

LEMMA UpKept ==
    ASSUME NEW w \in Worker, UpFrames(w), SameRound, mpc' = "size" <=> mpc = "size", SameUp(w),
           TakenUp(w)' = TakenUp(w), \A t \in UpTag : SameQueue(w, t)
    PROVE  UpFrames(w)'
<1>1. /\ Readies' = Readies /\ Gathers' = Gathers /\ Block(w)' = Block(w) /\ Round' = Round
  BY RoundKept
<1>2. /\ recvCtr'[w] <= wSendCtr'[w]
      /\ IF mpc' = "size" THEN wSendCtr'[w] <= recvCtr'[w]
         ELSE wSendCtr'[w] + TakenUp(w)' <= recvCtr'[w] + (Readies' + Gathers')
  BY <1>1 DEF UpFrames, SameUp
<1>3. ASSUME NEW t \in UpTag, NEW i \in 1 .. Len(net'[w][t])
      PROVE  UpFrame(w, t, net[w][t][i])'
  <2>1. i \in 1 .. Len(net[w][t]) /\ net'[w][t][i].ctr = net[w][t][i].ctr
        /\ net'[w][t][i].body = net[w][t][i].body
    BY <1>3 DEF SameQueue
  <2>2. UpFrame(w, t, net[w][t][i])
    BY <2>1 DEF UpFrames
  <2> QED
    BY <1>1, <2>1, <2>2 DEF UpFrame, SameUp
<1> QED
  BY <1>2, <1>3 DEF UpFrames

LEMMA DownKept ==
    ASSUME NEW w \in Worker, DownFrames(w), SameRound, SameDown(w), SameSent(w),
           \A t \in DownTag : SameQueue(w, t)
    PROVE  DownFrames(w)'
<1>1. Block(w)' = Block(w) /\ Round' = Round
  BY RoundKept
<1>2. ASSUME NEW t \in DownTag, NEW i \in 1 .. Len(net'[w][t])
      PROVE  DownFrame(w, net[w][t][i])'
  <2>1. i \in 1 .. Len(net[w][t]) /\ net'[w][t][i].ctr = net[w][t][i].ctr
        /\ net'[w][t][i].body = net[w][t][i].body
    BY <1>2 DEF SameQueue
  <2>2. DownFrame(w, net[w][t][i])
    BY <2>1 DEF DownFrames
  <2> QED
    BY <1>1, <2>1, <2>2 DEF DownFrame, InputBody, StartBody, SameDown, SameSent, SameRound
<1>3. SameQueue(w, "CMD")
  BY DEF DownTag
<1>4. workload' = "EP" => EpQueue(w)'
  BY <1>3 DEF DownFrames, EpQueue, SameQueue, SameDown, SameRound
<1>5. wRecvCtr'[w] <= sendCtr'[w]
  BY DEF DownFrames, SameDown
<1> QED
  BY <1>2, <1>4, <1>5 DEF DownFrames

LEMMA FollowingKept ==
    ASSUME NEW w \in Worker, Following(w), SameRound, SameWorker(w), SameDown(w), SameUp(w),
           SameSent(w), TakenUp(w)' = TakenUp(w), \A t \in DownTag : SameQueue(w, t)
    PROVE  Following(w)'
<1>1. /\ Starts' = Starts /\ Scatters' = Scatters /\ Gathers' = Gathers /\ Readies' = Readies
      /\ Block(w)' = Block(w) /\ Round' = Round /\ Iters' = Iters
  BY RoundKept
<1>2. Taken(w)' = Taken(w) /\ Given(w)' = Given(w)
  BY <1>1 DEF Taken, Given, SameWorker
<1>3. CASE Unanswered(w)
  <2>1. Balanced(w, Taken(w), Given(w))'
    BY <1>2, <1>3 DEF Unanswered, Balanced, SameDown, SameUp, SameSent
  <2> QED
    BY <1>1, <1>3, <2>1, DownKept DEF Following, Unanswered, SameWorker, SameRound
<1>4. CASE Answered(w)
  <2>1. Balanced(w, Starts + Scatters, Readies + Gathers)'
    BY <1>1, <1>4 DEF Answered, Balanced, SameDown, SameUp, SameSent
  <2> QED
    BY <1>1, <1>4, <2>1, DownKept DEF Following, Answered, SameWorker, SameRound
<1> QED
  BY <1>3, <1>4 DEF Following

LEMMA LostKept ==
    ASSUME NEW w \in Worker, Lost(w), workload' = workload, wpc'[w] = wpc[w], SameDown(w),
           SameQueue(w, "CMD")
    PROVE  Lost(w)'
  BY DEF Lost, Stuck, SameDown, SameQueue

LEMMA StoredKept ==
    ASSUME NEW w \in Worker, Stored(w), SameRound, part' = part, Collected(w)' => Collected(w)
    PROVE  Stored(w)'
<1>1. Block(w)' = Block(w) /\ Round' = Round
  BY RoundKept
<1> QED
  BY <1>1 DEF Stored

LEMMA WorkedKept ==
    ASSUME NEW w \in Worker, Worked(w), SameRound, mpc' = "size" <=> mpc = "size",
           SameWorker(w), SameDown(w), SameUp(w), SameSent(w), TakenUp(w)' = TakenUp(w),
           \A t \in DownTag \cup UpTag : SameQueue(w, t), Stored(w)'
    PROVE  Worked(w)'
<1>1. UpFrames(w)'
  BY UpKept DEF Worked
<1>2. CASE Following(w)
  <2>1. Following(w)'
    BY <1>2, FollowingKept
  <2> QED
    BY <1>1, <2>1 DEF Worked
<1>3. CASE Lost(w)
  <2>1. workload' = workload /\ wpc'[w] = wpc[w] /\ SameQueue(w, "CMD")
    BY DEF SameRound, SameWorker, DownTag
  <2>2. Lost(w)'
    BY <1>3, <2>1, LostKept
  <2> QED
    BY <1>1, <2>2 DEF Worked
<1> QED
  BY <1>2, <1>3 DEF Worked

LEMMA QueueSame ==
    ASSUME NEW w, NEW t, net'[w][t] = net[w][t] PROVE SameQueue(w, t)
  BY DEF SameQueue

\* The master's counts, when it stays where it is.
LEMMA CountsKept ==
    ASSUME NEW w \in Worker, SameRound, UNCHANGED <<mpc, idx, pos>>
    PROVE  SameSent(w) /\ TakenUp(w)' = TakenUp(w) /\ (Collected(w)' => Collected(w))
<1>1. /\ Starts' = Starts /\ Scatters' = Scatters /\ Gathers' = Gathers /\ Readies' = Readies
  BY RoundKept
<1> QED
  BY <1>1 DEF SameSent, InputSent, SentDown, TakenUp, Ahead, Collected
-----------------------------------------------------------------------------
(* The master's sends and receives *)

LEMMA TagsApart == \A s \in UpTag, t \in DownTag : s # t /\ s \in DownTag \cup UpTag
  BY DEF UpTag, DownTag

LEMMA FrameTypes ==
    ASSUME LinkTypes, NEW w \in Worker, NEW t \in DownTag \cup UpTag, NEW i \in 1 .. Len(net[w][t])
    PROVE  net[w][t][i].ctr \in Nat /\ Len(net[w][t]) \in Nat
<1>1. PICK q : q = net[w][t]
  OBVIOUS
<1>2. IsQueue(q)
  BY <1>1 DEF LinkTypes
<1>3. i \in 1 .. Len(q) /\ Len(q) \in Nat /\ \A k \in 1 .. Len(q) : q[k].ctr \in Nat
  BY <1>1, <1>2, QueueFacts
<1> QED
  BY <1>1, <1>3

\* One more message to w, of the start or of this round's input.
LEMMA OneSent ==
    ASSUME IInv, RInv, mpc \in Covered \ {"size"}, mpc' # "size",
           NEW w \in Worker, NEW t \in DownTag, NEW b, MasterSend(w, t, b),
           SameRound, SameWorker(w), SentDown(w)' = SentDown(w) + 1, TakenUp(w)' = TakenUp(w),
           Stored(w)', workload = "EP" => t = "CMD",
           \/ InputSent(w) = 0 /\ InputSent(w)' = 0 /\ StartBody(w, b)
           \/ InputSent(w)' = InputSent(w) + 1 /\ InputBody(w, b)
    PROVE  Worked(w)'
<1>1. LinkTypes /\ Worked(w)
  BY DEF RInv
<1>2. /\ UNCHANGED <<recvCtr, wSendCtr, wRecvCtr>> /\ sendCtr'[w] = sendCtr[w] + 1
      /\ \A s \in DownTag \cup UpTag : s # t => net'[w][s] = net[w][s]
      /\ Len(net'[w][t]) = Len(net[w][t]) + 1 /\ Len(net[w][t]) \in Nat
      /\ \A i \in 1 .. Len(net[w][t]) : net'[w][t][i] = net[w][t][i]
      /\ net'[w][t][Len(net[w][t]) + 1].ctr = sendCtr[w]
      /\ net'[w][t][Len(net[w][t]) + 1].body = b
  BY <1>1, MasterSends
<1>3. /\ sendCtr'[w] = sendCtr[w] + 1 /\ recvCtr'[w] = recvCtr[w]
      /\ wSendCtr'[w] = wSendCtr[w] /\ wRecvCtr'[w] = wRecvCtr[w]
      /\ SentDown(w)' = SentDown(w) + 1 /\ TakenUp(w)' = TakenUp(w)
  BY <1>2
<1>4. (InputSent(w) = 0 /\ InputSent(w)' = 0) \/ InputSent(w)' = InputSent(w) + 1
  OBVIOUS
<1>5. /\ sendCtr[w] \in Nat /\ recvCtr[w] \in Nat /\ wSendCtr[w] \in Nat /\ wRecvCtr[w] \in Nat
  BY <1>1 DEF LinkTypes
<1>6. InputSent(w) \in Nat /\ SentDown(w) \in Nat
  BY CountTypes, Programs DEF RInv
<1>7. /\ Starts' = Starts /\ Scatters' = Scatters /\ Gathers' = Gathers /\ Readies' = Readies
      /\ Block(w)' = Block(w) /\ Round' = Round /\ Iters' = Iters /\ workload' = workload
      /\ run' = run /\ iter' = iter
  BY RoundKept DEF SameRound
<1>8. UpFrames(w)'
  <2>1. \A s \in UpTag : SameQueue(w, s)
    BY <1>2, TagsApart, QueueSame
  <2> QED
    BY <1>1, <1>2, <2>1, UpKept DEF Worked, SameUp
<1>9. ASSUME NEW f, f.ctr \in Nat, DownFrame(w, f) PROVE DownFrame(w, f)'
  <2>1. f.ctr < sendCtr[w]
    BY <1>9 DEF DownFrame
  <2>2. InputBody(w, f.body)' = InputBody(w, f.body) /\ StartBody(w, f.body)' = StartBody(w, f.body)
    BY <1>7 DEF InputBody, StartBody
  <2>3. f.ctr \in Nat
    BY <1>9
  <2>4. sendCtr'[w] <= f.ctr + InputSent(w)' <=> sendCtr[w] <= f.ctr + InputSent(w)
    <3>1. CASE InputSent(w) = 0 /\ InputSent(w)' = 0
      <4>1. ~(sendCtr'[w] <= f.ctr + InputSent(w)') /\ ~(sendCtr[w] <= f.ctr + InputSent(w))
        BY ONLY <1>5, <1>3, <2>1, <2>3, <3>1
      <4> QED
        BY <4>1
    <3>2. CASE InputSent(w)' = InputSent(w) + 1
      BY ONLY <1>5, <1>6, <1>3, <2>3, <3>2
    <3> QED
      BY <1>4, <3>1, <3>2
  <2>5. f.ctr < sendCtr'[w]
    BY ONLY <1>3, <1>5, <2>3, <2>1
  <2> QED
    BY <1>3, <1>9, <2>2, <2>4, <2>5 DEF DownFrame
<1>10. ASSUME NEW f, f.ctr = sendCtr[w], f.body = b PROVE DownFrame(w, f)'
  <2>1. InputBody(w, f.body)' = InputBody(w, b) /\ StartBody(w, f.body)' = StartBody(w, b)
    BY <1>7, <1>10 DEF InputBody, StartBody
  <2>2. f.ctr < sendCtr'[w]
    BY <1>2, <1>5, <1>10
  <2>3. CASE InputSent(w)' = 0 /\ StartBody(w, b)
    <3>1. ~(sendCtr'[w] <= f.ctr + InputSent(w)')
      BY <1>2, <1>5, <1>10, <2>3
    <3> QED
      BY <2>1, <2>2, <2>3, <3>1 DEF DownFrame
  <2>4. CASE InputSent(w)' = InputSent(w) + 1 /\ InputBody(w, b)
    <3>1. sendCtr'[w] <= f.ctr + InputSent(w)'
      BY <1>2, <1>5, <1>6, <1>10, <2>4
    <3> QED
      BY <2>1, <2>2, <2>4, <3>1 DEF DownFrame
  <2> QED
    BY <2>3, <2>4
<1>11. ASSUME DownFrames(w) PROVE DownFrames(w)'
  <2>1. ASSUME NEW s \in DownTag, NEW i \in 1 .. Len(net'[w][s])
        PROVE  DownFrame(w, net[w][s][i])'
    <3>1. CASE s # t
      <4>1. i \in 1 .. Len(net[w][s]) /\ net'[w][s] = net[w][s]
        BY <1>2, <2>1, <3>1
      <4>2. PICK f : f = net[w][s][i]
        OBVIOUS
      <4>3. f.ctr \in Nat /\ DownFrame(w, f)
        BY <1>1, <1>11, <4>1, <4>2, FrameTypes DEF DownFrames
      <4>4. DownFrame(w, f)'
        BY <1>9, <4>3
      <4> QED
        BY <4>1, <4>2, <4>4 DEF DownFrame
    <3>2. CASE s = t /\ i \in 1 .. Len(net[w][t])
      <4>1. net'[w][s][i] = net[w][s][i]
        BY <1>2, <3>2
      <4>2. PICK f : f = net[w][s][i]
        OBVIOUS
      <4>3. f.ctr \in Nat /\ DownFrame(w, f)
        BY <1>1, <1>11, <3>2, <4>2, FrameTypes DEF DownFrames
      <4>4. DownFrame(w, f)'
        BY <1>9, <4>3
      <4> QED
        BY <4>1, <4>2, <4>4 DEF DownFrame
    <3>3. CASE s = t /\ i = Len(net[w][t]) + 1
      <4>1. PICK f : f = net'[w][s][i]
        OBVIOUS
      <4>2. DownFrame(w, f)'
        BY <1>2, <1>10, <3>3, <4>1
      <4> QED
        BY <4>1, <4>2 DEF DownFrame
    <3>4. i \in 1 .. Len(net'[w][s]) /\ Len(net[w][t]) \in Nat /\ Len(net'[w][t]) = Len(net[w][t]) + 1
      BY <1>2, <2>1
    <3>5. s = t => i \in 1 .. Len(net[w][t]) \/ i = Len(net[w][t]) + 1
      BY ONLY <3>4
    <3> QED
      BY <3>1, <3>2, <3>3, <3>5
  <2>2. ASSUME workload = "EP" PROVE EpQueue(w)'
    <3>1. t = "CMD" /\ EpQueue(w)
      BY <1>11, <2>2 DEF DownFrames
    <3>2. /\ wRecvCtr[w] + Len(net[w]["CMD"]) = sendCtr[w]
          /\ Len(net'[w]["CMD"]) = Len(net[w]["CMD"]) + 1 /\ Len(net[w]["CMD"]) \in Nat
      BY <1>2, <3>1 DEF EpQueue
    <3>3. wRecvCtr'[w] + Len(net'[w]["CMD"]) = sendCtr'[w]
      BY ONLY <1>3, <1>5, <3>2
    <3>4. sendCtr[w] + 1 = wRecvCtr'[w] + (Len(net[w]["CMD"]) + 1)
      BY ONLY <1>3, <1>5, <3>2
    <3>5. ASSUME NEW i \in 1 .. Len(net'[w]["CMD"])
          PROVE  net'[w]["CMD"][i].ctr + 1 = wRecvCtr'[w] + i
      <4>1. CASE i \in 1 .. Len(net[w][t])
        <5>1. net'[w]["CMD"][i] = net[w]["CMD"][i]
          BY <1>2, <3>1, <4>1
        <5>2. net[w]["CMD"][i].ctr + 1 = wRecvCtr[w] + i
          BY <3>1, <4>1 DEF EpQueue
        <5> QED
          BY <1>3, <5>1, <5>2
      <4>2. CASE i = Len(net[w][t]) + 1
        <5>1. net'[w]["CMD"][i].ctr = sendCtr[w] /\ i = Len(net[w]["CMD"]) + 1
          BY <1>2, <3>1, <4>2
        <5> QED
          BY <3>4, <5>1
      <4>3. i \in 1 .. Len(net[w]["CMD"]) \/ i = Len(net[w]["CMD"]) + 1
        BY ONLY <3>5, <3>2
      <4> QED
        BY <3>1, <4>1, <4>2, <4>3
    <3> QED
      BY <3>3, <3>5 DEF EpQueue
  <2>3. wRecvCtr[w] <= sendCtr[w]
    BY <1>11 DEF DownFrames
  <2>4. wRecvCtr'[w] <= sendCtr'[w]
    BY ONLY <1>3, <1>5, <2>3
  <2> QED
    BY <1>7, <2>1, <2>2, <2>4 DEF DownFrames
<1>12. CASE Following(w)
  <2>1. CASE Unanswered(w)
    <3>1. Taken(w)' = Taken(w) /\ Given(w)' = Given(w)
      BY <1>7 DEF Taken, Given, SameWorker
    <3>2. /\ sendCtr[w] + Taken(w) = wRecvCtr[w] + SentDown(w)
          /\ wSendCtr[w] + TakenUp(w) = recvCtr[w] + Given(w)
          /\ Taken(w) \in Nat
      BY <1>1, <2>1, WorkerTypes, Programs DEF Unanswered, Balanced, RInv
    <3>3. /\ sendCtr'[w] + Taken(w) = wRecvCtr'[w] + SentDown(w)'
          /\ wSendCtr'[w] + TakenUp(w)' = recvCtr'[w] + Given(w)
      BY ONLY <1>5, <1>6, <1>3, <3>2
    <3>4. Balanced(w, Taken(w), Given(w))'
      BY <3>1, <3>3 DEF Balanced
    <3>5. Unanswered(w)'
      BY <1>7, <2>1, <3>4 DEF Unanswered, SameWorker
    <3> QED
      BY <1>8, <1>11, <1>12, <3>5 DEF Following, Worked
  <2>2. CASE Answered(w)
    <3>1. /\ sendCtr[w] + (Starts + Scatters) = wRecvCtr[w] + SentDown(w)
          /\ wSendCtr[w] + TakenUp(w) = recvCtr[w] + (Readies + Gathers)
          /\ Starts \in Nat /\ Scatters \in Nat
      BY <2>2, Programs DEF Answered, Balanced
    <3>2. /\ sendCtr'[w] + (Starts + Scatters) = wRecvCtr'[w] + SentDown(w)'
          /\ wSendCtr'[w] + TakenUp(w)' = recvCtr'[w] + (Readies + Gathers)
      BY ONLY <1>5, <1>6, <1>3, <3>1
    <3>3. Balanced(w, Starts + Scatters, Readies + Gathers)'
      BY <1>7, <3>2 DEF Balanced
    <3>4. Answered(w)'
      BY <1>7, <2>2, <3>3 DEF Answered, SameWorker
    <3> QED
      BY <1>8, <1>11, <1>12, <3>4 DEF Following, Worked
  <2> QED
    BY <1>12, <2>1, <2>2 DEF Following
<1>13. CASE Lost(w)
  <2>1. wpc'[w] = wpc[w]
    BY DEF SameWorker
  <2>2. ASSUME Stuck(w) PROVE Stuck(w)'
    <3>1. t = "CMD" /\ wRecvCtr[w] < sendCtr[w]
      BY <2>2 DEF Stuck
    <3>2. ASSUME NEW i \in 1 .. Len(net'[w]["CMD"]) PROVE wRecvCtr'[w] < net'[w]["CMD"][i].ctr
      <4>1. CASE i \in 1 .. Len(net[w][t])
        BY <1>2, <2>2, <3>1, <4>1 DEF Stuck
      <4>2. CASE i = Len(net[w][t]) + 1
        BY <1>2, <3>1, <4>2
      <4>3. /\ i \in 1 .. Len(net'[w]["CMD"]) /\ Len(net[w][t]) \in Nat
            /\ Len(net'[w]["CMD"]) = Len(net[w][t]) + 1
        BY <1>2, <3>1, <3>2
      <4>4. i \in 1 .. Len(net[w][t]) \/ i = Len(net[w][t]) + 1
        BY ONLY <4>3
      <4> QED
        BY <4>1, <4>2, <4>4
    <3>3. wRecvCtr'[w] < sendCtr'[w]
      BY ONLY <1>3, <1>5, <3>1
    <3> QED
      BY <1>7, <2>1, <2>2, <3>2, <3>3 DEF Stuck
  <2>3. Lost(w)'
    BY <1>13, <2>1, <2>2 DEF Lost
  <2> QED
    BY <1>8, <2>3 DEF Worked
<1> QED
  BY <1>1, <1>12, <1>13 DEF Worked

\* One message from w less.
LEMMA OneTaken ==
    ASSUME IInv, RInv, mpc \in Covered \ {"size"}, mpc' # "size",
           NEW w \in Worker, NEW t \in UpTag, Arrived(w, t), MasterTake(w, t), MasterOpens(w, t),
           SameRound, SameWorker(w), SameSent(w), TakenUp(w)' = TakenUp(w) + 1, Stored(w)'
    PROVE  Worked(w)'
<1>1. LinkTypes /\ Worked(w)
  BY DEF RInv
<1>2. /\ UNCHANGED <<sendCtr, wSendCtr, wRecvCtr>> /\ recvCtr'[w] = recvCtr[w] + 1
      /\ \A s \in DownTag \cup UpTag : s # t => net'[w][s] = net[w][s]
      /\ \A i \in 1 .. Len(net'[w][t]) : /\ net'[w][t][i] = net[w][t][i + 1]
                                         /\ i + 1 \in 1 .. Len(net[w][t])
      /\ 1 \in 1 .. Len(net[w][t]) /\ net[w][t][1].ctr = recvCtr[w]
  BY <1>1, MasterTakes
<1>3. /\ sendCtr'[w] = sendCtr[w] /\ recvCtr'[w] = recvCtr[w] + 1
      /\ wSendCtr'[w] = wSendCtr[w] /\ wRecvCtr'[w] = wRecvCtr[w]
      /\ SentDown(w)' = SentDown(w) /\ TakenUp(w)' = TakenUp(w) + 1
  BY <1>2 DEF SameSent
<1>4. /\ sendCtr[w] \in Nat /\ recvCtr[w] \in Nat /\ wSendCtr[w] \in Nat /\ wRecvCtr[w] \in Nat
  BY <1>1 DEF LinkTypes
<1>5. TakenUp(w) \in Nat /\ SentDown(w) \in Nat /\ Readies \in Nat /\ Gathers \in Nat
  BY CountTypes, Programs DEF RInv
<1>6. /\ Starts' = Starts /\ Scatters' = Scatters /\ Gathers' = Gathers /\ Readies' = Readies
      /\ Block(w)' = Block(w) /\ Round' = Round /\ Iters' = Iters /\ workload' = workload
      /\ run' = run /\ iter' = iter
  BY RoundKept DEF SameRound
<1>7. UpFrames(w)'
  <2>1. UpFrames(w)
    BY <1>1 DEF Worked
  <2>2. recvCtr[w] < wSendCtr[w]
    BY <1>2, <2>1 DEF UpFrames, UpFrame
  <2>3. recvCtr'[w] <= wSendCtr'[w]
    BY ONLY <1>3, <1>4, <2>2
  <2>4. wSendCtr[w] + TakenUp(w) <= recvCtr[w] + (Readies + Gathers)
    BY <2>1 DEF UpFrames
  <2>5. wSendCtr'[w] + TakenUp(w)' <= recvCtr'[w] + (Readies + Gathers)
    BY ONLY <1>3, <1>4, <1>5, <2>4
  <2>6. wSendCtr'[w] + TakenUp(w)' <= recvCtr'[w] + (Readies' + Gathers')
    BY <1>6, <2>5
  <2>7. ASSUME NEW s, NEW f, f.ctr \in Nat, UpFrame(w, s, f) PROVE UpFrame(w, s, f)'
    <3>1. recvCtr'[w] <= f.ctr => recvCtr[w] <= f.ctr
      BY <1>3, <1>4, <2>7
    <3> QED
      BY <1>2, <1>6, <2>7, <3>1 DEF UpFrame
  <2>8. ASSUME NEW s \in UpTag, NEW i \in 1 .. Len(net'[w][s])
        PROVE  UpFrame(w, s, net[w][s][i])'
    <3>1. PICK k \in 1 .. Len(net[w][s]) : net'[w][s][i] = net[w][s][k]
      <4>1. CASE s = t
        BY <1>2, <2>8, <4>1
      <4>2. CASE s # t
        BY <1>2, <2>8, <4>2
      <4> QED
        BY <4>1, <4>2
    <3>2. PICK f : f = net[w][s][k]
      OBVIOUS
    <3>3. f.ctr \in Nat /\ UpFrame(w, s, f)
      BY <1>1, <2>1, <3>1, <3>2, FrameTypes DEF UpFrames
    <3>4. UpFrame(w, s, f)'
      BY <2>7, <3>3
    <3> QED
      BY <3>1, <3>2, <3>4 DEF UpFrame
  <2> QED
    BY <2>3, <2>6, <2>8 DEF UpFrames
<1>8. \A s \in DownTag : SameQueue(w, s)
  BY <1>2, TagsApart, QueueSame
<1>9. SameDown(w)
  BY <1>2 DEF SameDown
<1>10. CASE Following(w)
  <2>1. DownFrames(w)'
    BY <1>8, <1>9, <1>10, DownKept DEF Following
  <2>2. CASE Unanswered(w)
    <3>1. Taken(w)' = Taken(w) /\ Given(w)' = Given(w)
      BY <1>6 DEF Taken, Given, SameWorker
    <3>2. /\ sendCtr[w] + Taken(w) = wRecvCtr[w] + SentDown(w)
          /\ wSendCtr[w] + TakenUp(w) = recvCtr[w] + Given(w)
          /\ Given(w) \in Nat /\ Taken(w) \in Nat
      BY <1>1, <2>2, WorkerTypes, Programs DEF Unanswered, Balanced, RInv
    <3>3. /\ sendCtr'[w] + Taken(w) = wRecvCtr'[w] + SentDown(w)'
          /\ wSendCtr'[w] + TakenUp(w)' = recvCtr'[w] + Given(w)
      BY ONLY <1>4, <1>5, <1>3, <3>2
    <3>4. Balanced(w, Taken(w), Given(w))'
      BY <3>1, <3>3 DEF Balanced
    <3>5. Unanswered(w)'
      BY <1>6, <2>2, <3>4 DEF Unanswered, SameWorker
    <3> QED
      BY <1>7, <2>1, <3>5 DEF Following, Worked
  <2>3. CASE Answered(w)
    <3>1. /\ sendCtr[w] + (Starts + Scatters) = wRecvCtr[w] + SentDown(w)
          /\ wSendCtr[w] + TakenUp(w) = recvCtr[w] + (Readies + Gathers)
      BY <2>3 DEF Answered, Balanced
    <3>2. /\ sendCtr'[w] + (Starts + Scatters) = wRecvCtr'[w] + SentDown(w)'
          /\ wSendCtr'[w] + TakenUp(w)' = recvCtr'[w] + (Readies + Gathers)
      <4>1. Starts \in Nat /\ Scatters \in Nat
        BY Programs
      <4> QED
        BY ONLY <1>4, <1>5, <1>3, <3>1, <4>1
    <3>3. Balanced(w, Starts + Scatters, Readies + Gathers)'
      BY <1>6, <3>2 DEF Balanced
    <3>4. Answered(w)'
      BY <1>6, <2>3, <3>3 DEF Answered, SameWorker
    <3> QED
      BY <1>7, <2>1, <3>4 DEF Following, Worked
  <2> QED
    BY <1>10, <2>2, <2>3 DEF Following
<1>11. CASE Lost(w)
  <2>1. wpc'[w] = wpc[w] /\ SameQueue(w, "CMD")
    BY <1>8 DEF SameWorker, DownTag
  <2>2. Lost(w)'
    BY <1>6, <1>9, <1>11, <2>1, LostKept
  <2> QED
    BY <1>7, <2>2 DEF Worked
<1> QED
  BY <1>1, <1>10, <1>11 DEF Worked
-----------------------------------------------------------------------------
(* The steps of the master *)

LEMMA LoopsKept ==
    ASSUME WorkerLoops, UNCHANGED <<workload, worker>> PROVE WorkerLoops'
<1>1. M' = M /\ Starts' = Starts /\ Scatters' = Scatters /\ Gathers' = Gathers
  BY DEF M, Starts, Scatters, Gathers
<1>2. UNCHANGED <<wpc, wpos, wrun, witer, wblock, wof>>
  BY DEF worker
<1> QED
  BY <1>1, <1>2 DEF WorkerLoops

LEMMA AllSame ==
    ASSUME UNCHANGED worker, NEW v \in Worker PROVE SameWorker(v)
  BY DEF worker, SameWorker

LEMMA EveryoneSent ==
    ASSUME IInv, RInv, mpc \in Covered \ {"size"}, mpc' # "size",
           NEW w \in Worker, NEW t \in DownTag, NEW b, MasterSend(w, t, b),
           SameRound, UNCHANGED worker, workload = "EP" => t = "CMD",
           \A v \in Worker : TakenUp(v)' = TakenUp(v) /\ Stored(v)',
           \A v \in Worker : v # w => SameSent(v),
           SentDown(w)' = SentDown(w) + 1,
           \/ InputSent(w) = 0 /\ InputSent(w)' = 0 /\ StartBody(w, b)
           \/ InputSent(w)' = InputSent(w) + 1 /\ InputBody(w, b)
    PROVE  LinkTypes' /\ WorkerLoops' /\ \A v \in Worker : Worked(v)'
<1>1. LinkTypes /\ WorkerLoops /\ \A v \in Worker : Worked(v)
  BY DEF RInv
<1>2. /\ LinkTypes' /\ UNCHANGED <<recvCtr, wSendCtr, wRecvCtr>>
      /\ \A v \in Worker : v # w => net'[v] = net[v] /\ sendCtr'[v] = sendCtr[v]
  BY <1>1, MasterSends
<1>3. WorkerLoops'
  BY <1>1, LoopsKept DEF SameRound
<1>4. Worked(w)'
  BY AllSame, OneSent
<1>5. ASSUME NEW v \in Worker, v # w PROVE Worked(v)'
  <2>1. SameDown(v) /\ SameUp(v)
    BY <1>2, <1>5 DEF SameDown, SameUp
  <2>2. \A s \in DownTag \cup UpTag : SameQueue(v, s)
    BY <1>2, <1>5, QueueSame
  <2>3. SameWorker(v) /\ SameSent(v) /\ TakenUp(v)' = TakenUp(v) /\ Stored(v)' /\ Worked(v)
    BY <1>1, <1>5, AllSame
  <2> QED
    BY <2>1, <2>2, <2>3, WorkedKept
<1> QED
  BY <1>2, <1>3, <1>4, <1>5

LEMMA EveryoneTaken ==
    ASSUME IInv, RInv, mpc \in Covered \ {"size"}, mpc' # "size",
           NEW w \in Worker, NEW t \in UpTag, Arrived(w, t), MasterTake(w, t), MasterOpens(w, t),
           SameRound, UNCHANGED worker,
           \A v \in Worker : SameSent(v) /\ Stored(v)',
           \A v \in Worker : v # w => TakenUp(v)' = TakenUp(v),
           TakenUp(w)' = TakenUp(w) + 1
    PROVE  LinkTypes' /\ WorkerLoops' /\ \A v \in Worker : Worked(v)'
<1>1. LinkTypes /\ WorkerLoops /\ \A v \in Worker : Worked(v)
  BY DEF RInv
<1>2. /\ LinkTypes' /\ UNCHANGED <<sendCtr, wSendCtr, wRecvCtr>>
      /\ \A v \in Worker : v # w => net'[v] = net[v] /\ recvCtr'[v] = recvCtr[v]
  BY <1>1, MasterTakes
<1>3. WorkerLoops'
  BY <1>1, LoopsKept DEF SameRound
<1>4. Worked(w)'
  BY AllSame, OneTaken
<1>5. ASSUME NEW v \in Worker, v # w PROVE Worked(v)'
  <2>1. SameDown(v) /\ SameUp(v)
    BY <1>2, <1>5 DEF SameDown, SameUp
  <2>2. \A s \in DownTag \cup UpTag : SameQueue(v, s)
    BY <1>2, <1>5, QueueSame
  <2>3. SameWorker(v) /\ SameSent(v) /\ TakenUp(v)' = TakenUp(v) /\ Stored(v)' /\ Worked(v)
    BY <1>1, <1>5, AllSame
  <2> QED
    BY <2>1, <2>2, <2>3, WorkedKept
<1> QED
  BY <1>2, <1>3, <1>4, <1>5

LEMMA SendStartRounds ==
    ASSUME IInv, RInv, SendStart PROVE RInv'
<1>1. PICK w \in Worker : w = idx
  BY DEF IInv, Types
<1>2. PICK n \in Nat : n = Starts
  BY Programs
<1>3. PICK t : t = M.start[pos]
  OBVIOUS
<1>4. PICK b : b = Msg("start", Block(w), 0, TRUE, 0, Never)
  OBVIOUS
<1>5. PICK after : after = IF M.ready THEN "ready" ELSE "scatter"
  OBVIOUS
<1>6. /\ mpc = "start" /\ MasterSend(w, t, b) /\ NextSend(M.start, "start", after)
      /\ UNCHANGED <<config, work, worker>>
  BY <1>1, <1>3, <1>4, <1>5 DEF SendStart
<1>7. SameRound /\ UNCHANGED <<part, workload, worker>>
  BY <1>6 DEF SameRound, config, work
<1>8. LinkTypes /\ WorkerLoops /\ MasterLoops
  BY DEF RInv
<1>9. pos <= n /\ run = 1 /\ iter = 1 /\ pos \in 1 .. Starts
  BY <1>2, <1>6, <1>8 DEF MasterLoops, IInv, Types
<1>10. t \in DownTag /\ (workload = "EP" => t = "CMD")
  BY <1>3, <1>9, ProgramTags
<1>11. /\ Starts' = Starts /\ Scatters' = Scatters /\ Gathers' = Gathers /\ Readies' = Readies
       /\ M' = M /\ Iters' = Iters
  BY <1>7, RoundKept
<1>12. Len(M.start) = n /\ "start" # after
  BY <1>2, <1>5 DEF Starts
<1>13. /\ mpc' \in {"start", after} /\ pos' \in Nat \ {0}
       /\ mpc' = "start" => /\ pos' <= n
                            /\ \A v \in Worker : Ahead(v, n)' = IF v = w THEN Ahead(v, n) + 1
                                                                ELSE Ahead(v, n)
       /\ mpc' = after => /\ pos' = 1 /\ idx' = 0
                          /\ \A v \in Worker : IF v = w THEN Ahead(v, n) + 1 = n
                                                         ELSE Ahead(v, n) = n
  BY <1>1, <1>6, <1>9, <1>12, AheadStep
<1>14. Scatters \in Nat /\ Readies \in Nat /\ (Readies = 1 <=> M.ready) /\ (~M.ready => Readies = 0)
  BY Programs DEF Readies
<1>15. ASSUME NEW v \in Worker
       PROVE  /\ InputSent(v) = 0 /\ InputSent(v)' = 0 /\ TakenUp(v) = 0 /\ TakenUp(v)' = 0
              /\ SentDown(v) = Ahead(v, n)
              /\ SentDown(v)' = IF v = w THEN SentDown(v) + 1 ELSE SentDown(v)
              /\ Stored(v)'
  <2>1. InputSent(v) = 0 /\ TakenUp(v) = 0 /\ SentDown(v) = Ahead(v, n)
    BY <1>2, <1>6 DEF InputSent, TakenUp, SentDown
  <2>2. CASE mpc' = "start"
    <3>1. InputSent(v)' = 0 /\ TakenUp(v)' = 0 /\ SentDown(v)' = Ahead(v, n)' /\ ~Collected(v)'
      BY <1>2, <1>11, <2>2 DEF InputSent, TakenUp, SentDown, Collected, Ahead
    <3> QED
      BY <1>13, <2>1, <2>2, <3>1 DEF Stored
  <2>3. CASE mpc' = after /\ after = "ready"
    <3>1. Ahead(v, Readies)' = 0
      BY <1>13, <2>3 DEF Ahead, Worker
    <3>2. InputSent(v)' = 0 /\ TakenUp(v)' = 0 /\ SentDown(v)' = n + 0 /\ ~Collected(v)'
      BY <1>2, <1>11, <2>3, <3>1 DEF InputSent, TakenUp, SentDown, Collected
    <3> QED
      BY <1>2, <1>13, <2>1, <2>3, <3>2 DEF Stored
  <2>4. CASE mpc' = after /\ after = "scatter"
    <3>1. Ahead(v, Scatters)' = 0
      BY <1>13, <2>4 DEF Ahead, Worker
    <3>2. Readies = 0
      BY <1>5, <1>14, <2>4
    <3>3. InputSent(v)' = 0 /\ TakenUp(v)' = 0 /\ SentDown(v)' = n + 0 /\ ~Collected(v)'
      BY <1>2, <1>11, <2>4, <3>1, <3>2 DEF InputSent, TakenUp, SentDown, Collected
    <3> QED
      BY <1>2, <1>13, <2>1, <2>4, <3>3 DEF Stored
  <2> QED
    BY <1>5, <1>13, <2>2, <2>3, <2>4
<1>16. StartBody(w, b)
  BY <1>4 DEF StartBody, Msg
<1>17. mpc' \in {"start", "ready", "scatter"}
  BY <1>5, <1>13
<1>18. LinkTypes' /\ WorkerLoops' /\ \A v \in Worker : Worked(v)'
  <2>1. mpc \in Covered \ {"size"} /\ mpc' # "size"
    BY <1>6, <1>17 DEF Covered, Running
  <2>2. \A v \in Worker : TakenUp(v)' = TakenUp(v) /\ Stored(v)'
    BY <1>15
  <2>3. \A v \in Worker : v # w => SameSent(v)
    BY <1>15 DEF SameSent
  <2>4. InputSent(w) = 0 /\ InputSent(w)' = 0 /\ SentDown(w)' = SentDown(w) + 1
    BY <1>15
  <2> QED
    BY <1>6, <1>7, <1>10, <1>16, <2>1, <2>2, <2>3, <2>4, EveryoneSent
<1>19. MasterLoops'
  <2>1. cgn' \in CgN /\ DOMAIN part' = MaxEntries /\ iter' \in 1 .. Iters'
    BY <1>7, <1>8, <1>11 DEF MasterLoops, SameRound
  <2>2. run' = 1 /\ iter' = 1
    BY <1>7, <1>9 DEF SameRound
  <2>3. Starts' = n /\ 1 <= Scatters' /\ (mpc' = "ready" => M'.ready)
    BY <1>2, <1>5, <1>11, <1>13, Programs
  <2> QED
    BY <1>13, <1>17, <2>1, <2>2, <2>3 DEF MasterLoops
<1> QED
  BY <1>18, <1>19 DEF RInv
-----------------------------------------------------------------------------
(* The blocks of a round *)

LEMMA CgBlockTypes ==
    ASSUME NEW n \in Nat, NEW w \in Worker
    PROVE  CgBlock(n, w).first \in Nat /\ CgBlock(n, w).count \in Int
<1>1. PICK q \in Nat : q = n \div N
  OBVIOUS
<1>2. w \in Nat /\ w * q \in Nat
  BY DEF Worker
<1> QED
  BY <1>1, <1>2 DEF CgBlock

\* y of CG, C of DGEMM, one result per worker otherwise.
LEMMA RoundBlocks ==
    ASSUME IInv, MasterLoops, mpc \in Running
    PROVE  \/ \E n \in Nat : /\ \A w \in Worker : Block(w) = CgBlock(n, w)
                             /\ Entries = 0 .. n - 1 /\ Entries \subseteq MaxEntries
           \/ /\ \A w \in Worker : Block(w) = [first |-> w, count |-> 1]
              /\ Entries = Worker /\ Entries \subseteq MaxEntries
<1>1. CASE workload = "CG"
  <2>1. cgn \in CgN /\ cgn \in Nat
    BY DEF MasterLoops
  <2>2. Entries = 0 .. cgn - 1 /\ \A w \in Worker : Block(w) = CgBlock(cgn, w)
    BY <1>1 DEF Entries, Block
  <2>3. Entries \subseteq MaxEntries
    <3>1. Entries \in {0 .. n - 1 : n \in CgN}
      BY <2>1, <2>2
    <3> QED
      BY ONLY <3>1 DEF MaxEntries
  <2> QED
    BY <2>1, <2>2, <2>3
<1>2. CASE workload = "DGEMM"
  <2>1. size \in 1 .. Len(Sizes) /\ ~DgemmSkips(Sizes[size])
    BY <1>2 DEF IInv, Types, Sizing, NumSizes
  <2>2. size \in DOMAIN Sizes /\ Sizes[size] \in Nat
    BY <2>1
  <2>3. PICK m \in Nat : m = Sizes[size]
    BY <2>2
  <2>4. \A w \in Worker : Block(w) = CgBlock(m, w)
    <3> SUFFICES ASSUME NEW w \in Worker PROVE Block(w) = CgBlock(m, w)
      OBVIOUS
    <3>1. Block(w) = DgemmBlock(m, w)
      BY <1>2, <2>3 DEF Block
    <3> QED
      BY <2>1, <2>3, <3>1, DgemmBlocksPartition
  <2>5. Entries = 0 .. m - 1
    BY <1>2, <2>3 DEF Entries
  <2>6. Entries \subseteq MaxEntries
    <3>1. Entries \in {0 .. Sizes[i] - 1 : i \in DOMAIN Sizes}
      BY <2>2, <2>3, <2>5
    <3> QED
      BY ONLY <3>1 DEF MaxEntries
  <2> QED
    BY <2>4, <2>5, <2>6
<1>3. CASE workload \notin {"CG", "DGEMM"}
  BY <1>3 DEF Entries, Block, MaxEntries
<1> QED
  BY <1>1, <1>2, <1>3

LEMMA BlockFacts ==
    ASSUME IInv, MasterLoops, mpc \in Running
    PROVE  /\ \A w \in Worker : Block(w).first \in Nat /\ Block(w).count \in Int
           /\ \A e \in Nat, v, w \in Worker :
                 InBlock(Block(v), e) /\ InBlock(Block(w), e) => v = w
           /\ Entries \subseteq MaxEntries
           /\ \A e \in Entries : \E w \in Worker : InBlock(Block(w), e)
<1>1. ASSUME NEW n \in Nat, \A w \in Worker : Block(w) = CgBlock(n, w), Entries = 0 .. n - 1
      PROVE  /\ \A w \in Worker : Block(w).first \in Nat /\ Block(w).count \in Int
             /\ \A e \in Nat, v, w \in Worker :
                   InBlock(Block(v), e) /\ InBlock(Block(w), e) => v = w
             /\ \A e \in Entries : \E w \in Worker : InBlock(Block(w), e)
  <2>1. \A w \in Worker : Block(w).first \in Nat /\ Block(w).count \in Int
    BY <1>1, CgBlockTypes
  <2>2. ASSUME NEW e \in Nat, NEW v \in Worker, NEW w \in Worker,
               InBlock(Block(v), e), InBlock(Block(w), e)
        PROVE  v = w
    BY <1>1, <2>2, CgBlocksPartition
  <2>3. ASSUME NEW e \in Entries PROVE \E w \in Worker : InBlock(Block(w), e)
    <3>1. e \in Nat /\ e < n
      BY <1>1, <2>3
    <3>2. PICK w \in Worker : InBlock(CgBlock(n, w), e)
      BY <3>1, CgBlocksPartition
    <3> QED
      BY <1>1, <3>2
  <2> QED
    BY <2>1, <2>2, <2>3
<1>2. ASSUME \A w \in Worker : Block(w) = [first |-> w, count |-> 1], Entries = Worker
      PROVE  /\ \A w \in Worker : Block(w).first \in Nat /\ Block(w).count \in Int
             /\ \A e \in Nat, v, w \in Worker :
                   InBlock(Block(v), e) /\ InBlock(Block(w), e) => v = w
             /\ \A e \in Entries : \E w \in Worker : InBlock(Block(w), e)
  <2>1. \A w \in Worker : Block(w).first = w /\ Block(w).count = 1 /\ w \in Nat
    BY <1>2 DEF Worker
  <2>2. \A w \in Worker, e \in Nat : InBlock(Block(w), e) <=> e = w
    <3> SUFFICES ASSUME NEW w \in Worker, NEW e \in Nat PROVE InBlock(Block(w), e) <=> e = w
      OBVIOUS
    <3>1. Block(w).first = w /\ Block(w).count = 1 /\ w \in Nat
      BY <2>1
    <3> QED
      BY <3>1 DEF InBlock
  <2> QED
    BY <1>2, <2>1, <2>2
<1>3. CASE \E n \in Nat : /\ \A w \in Worker : Block(w) = CgBlock(n, w)
                          /\ Entries = 0 .. n - 1 /\ Entries \subseteq MaxEntries
  <2>1. PICK n \in Nat : /\ \A w \in Worker : Block(w) = CgBlock(n, w)
                         /\ Entries = 0 .. n - 1 /\ Entries \subseteq MaxEntries
    BY <1>3
  <2> QED
    BY <1>1, <2>1
<1>4. CASE /\ \A w \in Worker : Block(w) = [first |-> w, count |-> 1]
           /\ Entries = Worker /\ Entries \subseteq MaxEntries
  BY <1>2, <1>4
<1> QED
  BY <1>3, <1>4, RoundBlocks

LEMMA EntriesAreNat == MaxEntries \subseteq Nat
<1>1. \A i \in DOMAIN Sizes : 0 .. Sizes[i] - 1 \subseteq Nat
  OBVIOUS
<1>2. \A n \in CgN : 0 .. n - 1 \subseteq Nat
  OBVIOUS
<1>3. Worker \subseteq Nat
  BY DEF Worker
<1> QED
  BY ONLY <1>1, <1>2, <1>3 DEF MaxEntries

\* What is stored for w goes to the block of w.
LEMMA StoreFacts ==
    ASSUME IInv, MasterLoops, mpc \in Running, NEW w \in Worker, w = idx, NEW t, NEW b,
           part' = Store(t, b), NEW e \in MaxEntries
    PROVE  /\ t = "TIME" \/ ~InBlock(Block(w), e) => part'[e] = part[e]
           /\ t # "TIME" /\ InBlock(Block(w), e) /\ b.block = Block(w) =>
                 part'[e] = [row |-> e, of |-> b.of]
<1>1. PICK f \in Nat : f = Block(w).first
  BY BlockFacts
<1>2. PICK c \in Int : c = Block(w).count
  BY BlockFacts
<1>3. e \in Nat
  BY EntriesAreNat
<1>4. (e \in f .. f + c - 1) <=> InBlock(Block(w), e)
  BY <1>1, <1>2, <1>3 DEF InBlock
<1>5. part'[e] = IF t # "TIME" /\ e \in f .. f + c - 1
                 THEN [row |-> b.block.first + (e - f), of |-> b.of] ELSE part[e]
  BY <1>1, <1>2 DEF Store
<1>6. f + (e - f) = e
  BY ONLY <1>1, <1>3, f \in Nat, e \in Nat
<1>7. b.block = Block(w) => b.block.first = f
  BY <1>1
<1>8. b.block = Block(w) => b.block.first + (e - f) = e
  BY <1>6, <1>7
<1>9. t = "TIME" \/ ~InBlock(Block(w), e) => part'[e] = part[e]
  BY <1>4, <1>5
<1>10. ASSUME t # "TIME", InBlock(Block(w), e), b.block = Block(w)
       PROVE  part'[e] = [row |-> e, of |-> b.of]
  <2>1. part'[e] = [row |-> b.block.first + (e - f), of |-> b.of]
    BY <1>4, <1>5, <1>10
  <2> QED
    BY <1>8, <1>10, <2>1
<1> QED
  BY <1>9, <1>10
-----------------------------------------------------------------------------
(* The rounds of the master *)

LEMMA ReceiveReadyRounds ==
    ASSUME IInv, RInv, ReceiveReady, mpc' # "exited" PROVE RInv'
<1>1. PICK w \in Worker : w = idx
  BY DEF IInv, Types
<1>2. /\ mpc = "ready" /\ Arrived(w, "READY") /\ MasterTake(w, "READY") /\ MasterOpens(w, "READY")
      /\ NextSend(<<"READY">>, "ready", "scatter")
      /\ UNCHANGED <<config, work, worker>>
  BY <1>1 DEF ReceiveReady, MasterExit
<1>3. SameRound /\ UNCHANGED <<part, workload, worker>>
  BY <1>2 DEF SameRound, config, work
<1>4. LinkTypes /\ WorkerLoops /\ MasterLoops
  BY DEF RInv
<1>5. pos = 1 /\ run = 1 /\ iter = 1 /\ Readies = 1
  BY <1>2, <1>4 DEF MasterLoops, Readies
<1>6. /\ Starts' = Starts /\ Scatters' = Scatters /\ Gathers' = Gathers /\ Readies' = Readies
      /\ M' = M /\ Iters' = Iters
  BY <1>3, RoundKept
<1>7. Len(<<"READY">>) = 1
  OBVIOUS
<1>8. PICK n \in Nat : n = 1
  OBVIOUS
<1>9. PICK seq : seq = <<"READY">>
  OBVIOUS
<1>10. NextSend(seq, "ready", "scatter") /\ pos <= n /\ Len(seq) = n
  BY <1>2, <1>5, <1>7, <1>8, <1>9
<1>11. /\ mpc' \in {"ready", "scatter"} /\ pos' \in Nat \ {0}
       /\ mpc' = "ready" => /\ pos' <= n
                            /\ \A v \in Worker : Ahead(v, n)' = IF v = w THEN Ahead(v, n) + 1
                                                                ELSE Ahead(v, n)
       /\ mpc' = "scatter" => /\ pos' = 1 /\ idx' = 0
                              /\ \A v \in Worker : IF v = w THEN Ahead(v, n) + 1 = n
                                                             ELSE Ahead(v, n) = n
  BY <1>1, <1>2, <1>10, AheadStep
<1>12. Starts \in Nat /\ Scatters \in Nat \ {0}
  BY Programs
<1>13. ASSUME NEW v \in Worker
       PROVE  /\ SameSent(v) /\ Stored(v)'
              /\ TakenUp(v)' = IF v = w THEN TakenUp(v) + 1 ELSE TakenUp(v)
  <2>1. InputSent(v) = 0 /\ SentDown(v) = Starts + 0 /\ TakenUp(v) = Ahead(v, n)
    BY <1>2, <1>5, <1>8 DEF InputSent, TakenUp, SentDown
  <2>2. CASE mpc' = "ready"
    <3>1. InputSent(v)' = 0 /\ SentDown(v)' = Starts + 0 /\ TakenUp(v)' = Ahead(v, n)'
          /\ ~Collected(v)'
      BY <1>5, <1>6, <1>8, <2>2 DEF InputSent, TakenUp, SentDown, Collected, Ahead
    <3> QED
      BY <1>11, <2>1, <2>2, <3>1 DEF Stored, SameSent
  <2>3. CASE mpc' = "scatter"
    <3>1. Ahead(v, Scatters)' = 0
      BY <1>11, <2>3 DEF Ahead, Worker
    <3>2. InputSent(v)' = 0 /\ SentDown(v)' = Starts + 0 /\ TakenUp(v)' = 1 /\ ~Collected(v)'
      BY <1>5, <1>6, <2>3, <3>1 DEF InputSent, TakenUp, SentDown, Collected
    <3> QED
      BY <1>11, <1>8, <2>1, <2>3, <3>2 DEF Stored, SameSent
  <2> QED
    BY <1>11, <2>2, <2>3
<1>14. LinkTypes' /\ WorkerLoops' /\ \A v \in Worker : Worked(v)'
  <2>1. mpc \in Covered \ {"size"} /\ mpc' # "size" /\ "READY" \in UpTag
    BY <1>2, <1>11 DEF Covered, Running, UpTag
  <2>2. \A v \in Worker : SameSent(v) /\ Stored(v)'
    BY <1>13
  <2>3. \A v \in Worker : v # w => TakenUp(v)' = TakenUp(v)
    BY <1>13
  <2>4. TakenUp(w)' = TakenUp(w) + 1
    BY <1>13
  <2> QED
    BY <1>2, <1>3, <2>1, <2>2, <2>3, <2>4, EveryoneTaken
<1>15. MasterLoops'
  <2>1. cgn' \in CgN /\ DOMAIN part' = MaxEntries /\ iter' \in 1 .. Iters'
    BY <1>3, <1>4, <1>6 DEF MasterLoops, SameRound
  <2>2. run' = 1 /\ iter' = 1
    BY <1>3, <1>5 DEF SameRound
  <2>3. pos' = 1 /\ 1 <= Scatters' /\ M'.ready
    BY <1>2, <1>4, <1>6, <1>11, <1>12, <1>8 DEF MasterLoops
  <2> QED
    BY <1>11, <2>1, <2>2, <2>3 DEF MasterLoops
<1> QED
  BY <1>14, <1>15 DEF RInv

LEMMA ScatterRounds ==
    ASSUME IInv, RInv, Scatter PROVE RInv'
<1>1. PICK w \in Worker : w = idx
  BY DEF IInv, Types
<1>2. PICK n \in Nat : n = Scatters
  BY Programs
<1>3. PICK t : t = M.scatter[pos]
  OBVIOUS
<1>4. PICK b : b = ScatterMsg(t)
  OBVIOUS
<1>5. /\ mpc = "scatter" /\ MasterSend(w, t, b) /\ NextSend(M.scatter, "scatter", "gather")
      /\ UNCHANGED <<config, work, worker>>
  BY <1>1, <1>3, <1>4 DEF Scatter
<1>6. SameRound /\ UNCHANGED <<part, workload, worker>>
  BY <1>5 DEF SameRound, config, work
<1>7. LinkTypes /\ WorkerLoops /\ MasterLoops
  BY DEF RInv
<1>8. pos <= n /\ pos \in 1 .. Scatters
  BY <1>2, <1>5, <1>7 DEF MasterLoops, IInv, Types
<1>9. t \in DownTag /\ (workload = "EP" => t = "CMD")
  BY <1>3, <1>8, ProgramTags
<1>10. /\ Starts' = Starts /\ Scatters' = Scatters /\ Gathers' = Gathers /\ Readies' = Readies
       /\ M' = M /\ Iters' = Iters
  BY <1>6, RoundKept
<1>11. Len(M.scatter) = n
  BY <1>2 DEF Scatters
<1>12. /\ mpc' \in {"scatter", "gather"} /\ pos' \in Nat \ {0}
       /\ mpc' = "scatter" => /\ pos' <= n
                            /\ \A v \in Worker : Ahead(v, n)' = IF v = w THEN Ahead(v, n) + 1
                                                                ELSE Ahead(v, n)
       /\ mpc' = "gather" => /\ pos' = 1 /\ idx' = 0
                          /\ \A v \in Worker : IF v = w THEN Ahead(v, n) + 1 = n
                                                         ELSE Ahead(v, n) = n
  BY <1>1, <1>5, <1>8, <1>11, AheadStep
<1>13. Starts \in Nat /\ Gathers \in Nat \ {0} /\ Readies \in Nat
  BY Programs
<1>14. ASSUME NEW v \in Worker
       PROVE  /\ InputSent(v)' = IF v = w THEN InputSent(v) + 1 ELSE InputSent(v)
              /\ SentDown(v)' = IF v = w THEN SentDown(v) + 1 ELSE SentDown(v)
              /\ TakenUp(v)' = TakenUp(v) /\ Stored(v)'
  <2>1. InputSent(v) = Ahead(v, n) /\ TakenUp(v) = Readies /\ SentDown(v) = Starts + Ahead(v, n)
    BY <1>2, <1>5 DEF InputSent, TakenUp, SentDown
  <2>2. Ahead(v, n) \in Nat
    BY <1>8, AheadType
  <2>3. CASE mpc' = "scatter"
    <3>1. /\ InputSent(v)' = Ahead(v, n)' /\ TakenUp(v)' = Readies /\ ~Collected(v)'
          /\ SentDown(v)' = Starts + Ahead(v, n)'
      BY <1>2, <1>10, <2>3 DEF InputSent, TakenUp, SentDown, Collected, Ahead
    <3>2. Ahead(v, n)' = IF v = w THEN Ahead(v, n) + 1 ELSE Ahead(v, n)
      BY <1>12, <2>3
    <3>3. Stored(v)'
      BY <3>1 DEF Stored
    <3> QED
      BY <1>13, <2>1, <2>2, <3>1, <3>2, <3>3
  <2>4. CASE mpc' = "gather"
    <3>1. Ahead(v, Gathers)' = 0 /\ ~Collected(v)'
      BY <1>12, <2>4 DEF Ahead, Worker, Collected
    <3>2. InputSent(v)' = n /\ TakenUp(v)' = Readies + 0 /\ SentDown(v)' = Starts + n
      BY <1>2, <1>10, <2>4, <3>1 DEF InputSent, TakenUp, SentDown
    <3>3. n = IF v = w THEN Ahead(v, n) + 1 ELSE Ahead(v, n)
      BY <1>12, <2>4
    <3>4. Stored(v)'
      BY <3>1 DEF Stored
    <3> QED
      BY <1>13, <2>1, <2>2, <3>2, <3>3, <3>4
  <2> QED
    BY <1>12, <2>3, <2>4
<1>15. InputBody(w, b)
  <2>1. CASE workload = "EP"
    BY <1>1, <1>4, <2>1 DEF InputBody, ScatterMsg, Msg
  <2>2. CASE workload # "EP"
    BY <1>1, <1>4, <2>2 DEF InputBody, ScatterMsg, Msg
  <2> QED
    BY <2>1, <2>2
<1>16. LinkTypes' /\ WorkerLoops' /\ \A v \in Worker : Worked(v)'
  <2>1. mpc \in Covered \ {"size"} /\ mpc' # "size"
    BY <1>5, <1>12 DEF Covered, Running
  <2>2. \A v \in Worker : TakenUp(v)' = TakenUp(v) /\ Stored(v)'
    BY <1>14
  <2>3. \A v \in Worker : v # w => SameSent(v)
    BY <1>14 DEF SameSent
  <2>4. InputSent(w)' = InputSent(w) + 1 /\ SentDown(w)' = SentDown(w) + 1
    BY <1>14
  <2> QED
    BY <1>5, <1>6, <1>9, <1>15, <2>1, <2>2, <2>3, <2>4, EveryoneSent
<1>17. MasterLoops'
  <2>1. cgn' \in CgN /\ DOMAIN part' = MaxEntries /\ iter' \in 1 .. Iters'
    BY <1>6, <1>7, <1>10 DEF MasterLoops, SameRound
  <2>2. Scatters' = n /\ 1 <= Gathers'
    BY <1>2, <1>10, <1>13
  <2> QED
    BY <1>12, <2>1, <2>2 DEF MasterLoops
<1> QED
  BY <1>16, <1>17 DEF RInv

LEMMA GatherRounds ==
    ASSUME IInv, RInv, Gather, mpc' # "exited" PROVE RInv'
<1>1. PICK w \in Worker : w = idx
  BY DEF IInv, Types
<1>2. PICK n \in Nat : n = Gathers
  BY Programs
<1>3. PICK t : t = M.gather[pos]
  OBVIOUS
<1>4. PICK b : b = Got(w, t)
  OBVIOUS
<1>5. /\ mpc = "gather" /\ Arrived(w, t) /\ MasterTake(w, t) /\ MasterOpens(w, t)
      /\ NextSend(M.gather, "gather", "round") /\ part' = Store(t, b)
      /\ UNCHANGED <<config, size, run, iter, worker>>
  BY <1>1, <1>3, <1>4 DEF Gather, MasterExit
<1>6. SameRound /\ UNCHANGED <<workload, worker>>
  BY <1>5 DEF SameRound, config
<1>7. LinkTypes /\ WorkerLoops /\ MasterLoops
  BY DEF RInv
<1>8. pos <= n /\ pos \in 1 .. Gathers
  BY <1>2, <1>5, <1>7 DEF MasterLoops, IInv, Types
<1>9. t \in UpTag \ {"READY"} /\ (pos = 1 => t # "TIME")
  BY <1>3, <1>8, ProgramTags
<1>10. /\ Starts' = Starts /\ Scatters' = Scatters /\ Gathers' = Gathers /\ Readies' = Readies
       /\ M' = M /\ Iters' = Iters /\ Round' = Round /\ \A v \in Worker : Block(v)' = Block(v)
  BY <1>6, RoundKept
<1>11. Len(M.gather) = n
  BY <1>2 DEF Gathers
<1>12. /\ mpc' \in {"gather", "round"} /\ pos' \in Nat \ {0}
       /\ mpc' = "gather" => /\ pos' <= n
                            /\ \A v \in Worker : Ahead(v, n)' = IF v = w THEN Ahead(v, n) + 1
                                                                ELSE Ahead(v, n)
       /\ mpc' = "round" => /\ pos' = 1 /\ idx' = 0
                          /\ \A v \in Worker : IF v = w THEN Ahead(v, n) + 1 = n
                                                         ELSE Ahead(v, n) = n
  BY <1>1, <1>5, <1>8, <1>11, AheadStep
<1>13. Starts \in Nat /\ Scatters \in Nat /\ Readies \in Nat
  BY Programs
<1>14. ASSUME NEW v \in Worker
       PROVE  /\ SameSent(v)
              /\ TakenUp(v)' = IF v = w THEN TakenUp(v) + 1 ELSE TakenUp(v)
              /\ v # w => (Collected(v)' => Collected(v))
              /\ v = w => (pos > 1 => Collected(v))
  <2>1. InputSent(v) = Scatters /\ TakenUp(v) = Readies + Ahead(v, n)
        /\ SentDown(v) = Starts + Scatters
    BY <1>2, <1>5 DEF InputSent, TakenUp, SentDown
  <2>2. Ahead(v, n) \in Nat
    BY <1>8, AheadType
  <2>3. InputSent(v)' = Scatters /\ SentDown(v)' = Starts + Scatters
    BY <1>10, <1>12 DEF InputSent, SentDown
  <2>4. TakenUp(v)' = IF v = w THEN TakenUp(v) + 1 ELSE TakenUp(v)
    <3>1. CASE mpc' = "gather"
      <4>1. TakenUp(v)' = Readies + Ahead(v, n)'
        BY <1>2, <1>10, <3>1 DEF TakenUp, Ahead
      <4>2. Ahead(v, n)' = IF v = w THEN Ahead(v, n) + 1 ELSE Ahead(v, n)
        BY <1>12, <3>1
      <4> QED
        BY <1>13, <2>1, <2>2, <4>1, <4>2
    <3>2. CASE mpc' = "round"
      <4>1. TakenUp(v)' = Readies + n
        BY <1>2, <1>10, <3>2 DEF TakenUp
      <4>2. n = IF v = w THEN Ahead(v, n) + 1 ELSE Ahead(v, n)
        BY <1>12, <3>2
      <4> QED
        BY <1>13, <2>1, <2>2, <4>1, <4>2
    <3> QED
      BY <1>12, <3>1, <3>2
  <2>5. ASSUME v # w, Collected(v)' PROVE Collected(v)
    <3>1. v \in Nat /\ w \in Nat /\ idx' \in Nat /\ v < N /\ w < N
      <4>1. idx' \in Worker
        BY <1>1, <1>5, <1>8, <1>11, AheadStep
      <4> QED
        BY <4>1 DEF Worker
    <3>2. \/ mpc' = "gather" /\ idx' = w /\ pos' = pos + 1
          \/ mpc' = "gather" /\ idx' = w + 1 /\ pos' = 1
          \/ mpc' = "round" /\ w + 1 = N
      BY <1>1, <1>5 DEF NextSend
    <3>3. v < w
      BY <2>5, <3>1, <3>2 DEF Collected
    <3> QED
      BY <1>1, <1>5, <3>3 DEF Collected
  <2>6. v = w /\ pos > 1 => Collected(v)
    BY <1>1, <1>5 DEF Collected
  <2> QED
    BY <2>1, <2>3, <2>4, <2>5, <2>6 DEF SameSent
<1>15. b.block = Block(w) /\ b.of = Round
  <2>1. /\ 1 \in 1 .. Len(net[w][t]) /\ b = net[w][t][1].body /\ net[w][t][1].ctr = recvCtr[w]
    BY <1>4, <1>5, <1>7, <1>9, MasterTakes
  <2>2. UpFrames(w)
    BY <1>5 DEF RInv, Worked, Covered, Running
  <2>3. UpFrame(w, t, net[w][t][1])
    BY <1>9, <2>1, <2>2 DEF UpFrames
  <2>4. recvCtr[w] <= recvCtr[w]
    BY <1>7 DEF LinkTypes
  <2> QED
    BY <1>9, <2>1, <2>3, <2>4 DEF UpFrame
<1>16. ASSUME NEW v \in Worker PROVE Stored(v)'
  <2> SUFFICES ASSUME Collected(v)', NEW e \in MaxEntries, InBlock(Block(v), e)
               PROVE  part'[e] = [row |-> e, of |-> Round]
    BY <1>10 DEF Stored
  <2>1. e \in Nat /\ Stored(v) /\ mpc \in Running
    BY <1>5, EntriesAreNat DEF RInv, Worked, Covered, Running
  <2>2. /\ t = "TIME" \/ ~InBlock(Block(w), e) => part'[e] = part[e]
        /\ t # "TIME" /\ InBlock(Block(w), e) => part'[e] = [row |-> e, of |-> Round]
    BY <1>1, <1>5, <1>7, <1>15, <2>1, StoreFacts
  <2>3. CASE v # w
    <3>1. ~InBlock(Block(w), e)
      BY <1>7, <2>1, <2>3, BlockFacts
    <3>2. Collected(v)
      BY <1>14, <2>3
    <3> QED
      BY <2>1, <2>2, <3>1, <3>2 DEF Stored
  <2>4. CASE v = w /\ t # "TIME"
    BY <2>2, <2>4
  <2>5. CASE v = w /\ t = "TIME"
    <3>1. pos > 1
      BY <1>8, <1>9, <2>5
    <3>2. Collected(v)
      BY <1>14, <2>5, <3>1
    <3> QED
      BY <2>1, <2>2, <2>5, <3>2 DEF Stored
  <2> QED
    BY <2>3, <2>4, <2>5
<1>17. LinkTypes' /\ WorkerLoops' /\ \A v \in Worker : Worked(v)'
  <2>1. mpc \in Covered \ {"size"} /\ mpc' # "size" /\ t \in UpTag
    BY <1>5, <1>9, <1>12 DEF Covered, Running
  <2>2. \A v \in Worker : SameSent(v) /\ Stored(v)'
    BY <1>14, <1>16
  <2>3. \A v \in Worker : v # w => TakenUp(v)' = TakenUp(v)
    BY <1>14
  <2>4. TakenUp(w)' = TakenUp(w) + 1
    BY <1>14
  <2> QED
    BY <1>5, <1>6, <2>1, <2>2, <2>3, <2>4, EveryoneTaken
<1>18. MasterLoops'
  <2>1. cgn' \in CgN /\ iter' \in 1 .. Iters'
    BY <1>6, <1>7, <1>10 DEF MasterLoops, SameRound
  <2>2. DOMAIN part' = MaxEntries
    BY <1>5 DEF Store
  <2>3. Gathers' = n
    BY <1>2, <1>10
  <2> QED
    BY <1>12, <2>1, <2>2, <2>3 DEF MasterLoops
<1> QED
  BY <1>17, <1>18 DEF RInv
-----------------------------------------------------------------------------
(* From one round, or one size, to the next *)

\* Between two rounds nothing is under way that could be opened.
LEMMA Rested ==
    ASSUME IInv, RInv, mpc \in Covered, NEW w \in Worker, UNCHANGED <<link, worker, workload>>,
           wSendCtr[w] = recvCtr[w],
           Following(w) => sendCtr[w] = wRecvCtr[w] /\ Unanswered(w)',
           mpc' = "size" \/ TakenUp(w)' \in 0 .. Readies + Gathers, ~Collected(w)'
    PROVE  Worked(w)'
<1>1. LinkTypes /\ Worked(w)
  BY DEF RInv
<1>2. /\ net' = net /\ sendCtr' = sendCtr /\ recvCtr' = recvCtr
      /\ wSendCtr' = wSendCtr /\ wRecvCtr' = wRecvCtr /\ wpc' = wpc
  BY DEF link, worker
<1>3. /\ sendCtr[w] \in Nat /\ recvCtr[w] \in Nat /\ wSendCtr[w] \in Nat /\ wRecvCtr[w] \in Nat
  BY <1>1 DEF LinkTypes
<1>4. Readies' = Readies /\ Gathers' = Gathers /\ Readies \in Nat /\ Gathers \in Nat
  BY Programs DEF Readies, Gathers, M
<1>5. UpFrames(w)'
  <2>1. recvCtr[w] <= wSendCtr[w] /\ wSendCtr[w] <= recvCtr[w]
    BY <1>3
  <2>2. mpc' # "size" => wSendCtr[w] + TakenUp(w)' <= recvCtr[w] + (Readies + Gathers)
    BY <1>3, <1>4
  <2>3. ASSUME NEW t \in UpTag, NEW i \in 1 .. Len(net[w][t]) PROVE UpFrame(w, t, net[w][t][i])'
    <3>1. net[w][t][i].ctr \in Nat
      BY <1>1, FrameTypes
    <3>2. net[w][t][i].ctr < wSendCtr[w]
      BY <1>1 DEF Worked, UpFrames, UpFrame
    <3>3. ~(recvCtr[w] <= net[w][t][i].ctr)
      BY <1>3, <3>1, <3>2
    <3> QED
      BY <1>2, <3>2, <3>3 DEF UpFrame
  <2> QED
    BY <1>2, <1>4, <2>1, <2>2, <2>3 DEF UpFrames
<1>6. Stored(w)'
  BY DEF Stored
<1>7. CASE Following(w)
  <2>1. sendCtr[w] = wRecvCtr[w] /\ Unanswered(w)'
    BY <1>7
  <2>2. ASSUME NEW t \in DownTag, NEW i \in 1 .. Len(net[w][t]) PROVE DownFrame(w, net[w][t][i])'
    <3>1. net[w][t][i].ctr \in Nat
      BY <1>1, FrameTypes
    <3>2. net[w][t][i].ctr < sendCtr[w]
      BY <1>7 DEF Following, DownFrames, DownFrame
    <3>3. ~(wRecvCtr[w] <= net[w][t][i].ctr)
      BY <1>3, <2>1, <3>1, <3>2
    <3> QED
      BY <1>2, <3>2, <3>3 DEF DownFrame
  <2>3. workload' = "EP" => EpQueue(w)'
    BY <1>2, <1>7 DEF Following, DownFrames, EpQueue
  <2>4. wRecvCtr'[w] <= sendCtr'[w]
    BY <1>2, <1>3, <2>1
  <2>5. DownFrames(w)'
    BY <1>2, <2>2, <2>3, <2>4 DEF DownFrames
  <2> QED
    BY <1>5, <1>6, <2>1, <2>5 DEF Worked, Following
<1>8. CASE Lost(w)
  <2>1. Lost(w)'
    BY <1>2, <1>8 DEF Lost, Stuck
  <2> QED
    BY <1>5, <1>6, <2>1 DEF Worked
<1> QED
  BY <1>1, <1>7, <1>8 DEF Worked

LEMMA LinkKept ==
    ASSUME LinkTypes, UNCHANGED link PROVE LinkTypes'
<1>1. /\ net' = net /\ sendCtr' = sendCtr /\ recvCtr' = recvCtr
      /\ wSendCtr' = wSendCtr /\ wRecvCtr' = wRecvCtr
  BY DEF link
<1> QED
  BY <1>1 DEF LinkTypes

LEMMA ProgramKept ==
    ASSUME UNCHANGED workload
    PROVE  /\ Starts' = Starts /\ Scatters' = Scatters /\ Gathers' = Gathers
           /\ Readies' = Readies /\ Iters' = Iters /\ M' = M
  BY DEF Starts, Scatters, Gathers, Readies, M, Iters

LEMMA NewRound ==
    ASSUME IInv, RInv, mpc = "round", mpc' = "scatter",
           UNCHANGED <<workload, cgn, link, idx, pos, size, part, worker>>,
           \/ iter < Iters /\ iter' = iter + 1 /\ run' = run
           \/ iter = Iters /\ iter' = 1 /\ run < NumRuns /\ run' = run + 1
    PROVE  RInv'
<1>1. LinkTypes /\ WorkerLoops /\ MasterLoops
  BY DEF RInv
<1>2. idx' = 0 /\ pos' = 1
  BY <1>1 DEF IInv, Sizing, MasterLoops
<1>3. /\ Starts' = Starts /\ Scatters' = Scatters /\ Gathers' = Gathers /\ Readies' = Readies
      /\ Iters' = Iters /\ \A v \in Worker : Block(v)' = Block(v)
  BY ProgramKept DEF Block
<1>4. Starts \in Nat /\ Scatters \in Nat \ {0} /\ Readies \in Nat /\ Gathers \in Nat
  BY Programs
<1>5. UNCHANGED <<wpc, wpos, wrun, witer, wblock>> /\ UNCHANGED <<sendCtr, recvCtr, wSendCtr, wRecvCtr>>
  BY DEF worker, link
<1>6. ASSUME NEW w \in Worker PROVE Worked(w)'
  <2>1. /\ wSendCtr[w] = recvCtr[w]
        /\ Following(w) => Answered(w) /\ sendCtr[w] = wRecvCtr[w]
    BY AtRound
  <2>2. Ahead(w, Scatters)' = 0 /\ ~Collected(w)'
    BY <1>2 DEF Ahead, Collected, Worker
  <2>3. InputSent(w)' = 0 /\ SentDown(w)' = Starts /\ TakenUp(w)' = Readies
    BY <1>3, <1>4, <2>2 DEF InputSent, SentDown, TakenUp
  <2>4. ASSUME Following(w) PROVE Unanswered(w)'
    <3>1. Answered(w) /\ sendCtr[w] = wRecvCtr[w]
      BY <2>1, <2>4
    <3>2. wpc[w] = "take" /\ wpos[w] = 1 /\ wblock[w] = Block(w)
      BY <3>1 DEF Answered
    <3>3. wrun[w] = run' /\ witer[w] = iter'
      <4>1. iter \in Nat /\ Iters \in Nat
        BY <1>1 DEF MasterLoops, Iters
      <4> QED
        BY <3>1, <4>1 DEF Answered
    <3>4. Taken(w)' = Starts /\ Given(w)' = Readies
      BY <1>3, <1>4, <1>5, <3>2 DEF Taken, Given
    <3>5. Balanced(w, Taken(w), Given(w))'
      BY <1>5, <2>1, <2>3, <3>1, <3>4 DEF Balanced
    <3> QED
      BY <1>3, <1>5, <3>2, <3>3, <3>5 DEF Unanswered
  <2>5. TakenUp(w)' \in 0 .. Readies + Gathers
    BY <1>4, <2>3
  <2> QED
    BY <2>1, <2>2, <2>4, <2>5, Rested DEF Covered, Running
<1>7. MasterLoops'
  <2>1. iter' \in 1 .. Iters
    <3>1. iter \in 1 .. Iters /\ Iters \in Nat
      BY <1>1 DEF MasterLoops, Iters
    <3> QED
      BY <3>1
  <2> QED
    BY <1>1, <1>2, <1>3, <1>4, <2>1 DEF MasterLoops
<1>8. LinkTypes' /\ WorkerLoops'
  BY <1>1, LinkKept, LoopsKept
<1> QED
  BY <1>6, <1>7, <1>8 DEF RInv

LEMMA NewSize ==
    ASSUME IInv, RInv, mpc' = "size", run' = 1, iter' = 1,
           mpc = "size" \/ (mpc = "round" /\ iter = Iters /\ run = NumRuns),
           UNCHANGED <<workload, cgn, link, idx, pos, part, worker>>
    PROVE  RInv'
<1>1. LinkTypes /\ WorkerLoops /\ MasterLoops
  BY DEF RInv
<1>2. pos' = 1
  BY <1>1 DEF MasterLoops
<1>3. Iters' = Iters /\ Iters \in Nat \ {0}
  BY ProgramKept DEF Iters
<1>4. UNCHANGED <<wpc, wpos>> /\ UNCHANGED <<sendCtr, recvCtr, wSendCtr, wRecvCtr>>
  BY DEF worker, link
<1>5. ASSUME NEW w \in Worker PROVE Worked(w)'
  <2>1. /\ wSendCtr[w] = recvCtr[w]
        /\ Following(w) => wpc[w] = "command" /\ sendCtr[w] = wRecvCtr[w]
    <3>1. CASE mpc = "size"
      BY <3>1, AtSize
    <3>2. CASE mpc = "round" /\ iter = Iters /\ run = NumRuns
      <4>1. wSendCtr[w] = recvCtr[w] /\ (Following(w) => Answered(w) /\ sendCtr[w] = wRecvCtr[w])
        BY <3>2, AtRound
      <4>2. ~(iter < Iters) /\ ~(run < NumRuns)
        BY <1>3, <3>2
      <4> QED
        BY <4>1, <4>2 DEF Answered
    <3> QED
      BY <3>1, <3>2
  <2>2. ~Collected(w)'
    BY DEF Collected
  <2>3. InputSent(w)' = 0 /\ SentDown(w)' = 0 /\ TakenUp(w)' = 0
    BY DEF InputSent, SentDown, TakenUp
  <2>4. ASSUME Following(w) PROVE Unanswered(w)'
    <3>1. wpc'[w] = "command" /\ sendCtr[w] = wRecvCtr[w]
      BY <1>4, <2>1, <2>4
    <3>2. Taken(w)' = 0 /\ Given(w)' = 0
      BY <3>1 DEF Taken, Given
    <3>3. Balanced(w, Taken(w), Given(w))'
      BY <1>4, <2>1, <2>3, <3>1, <3>2 DEF Balanced
    <3> QED
      BY <3>1, <3>3 DEF Unanswered
  <2>5. mpc \in Covered
    BY DEF Covered, Running
  <2> QED
    BY <2>1, <2>2, <2>4, <2>5, Rested
<1>6. MasterLoops'
  BY <1>1, <1>2, <1>3 DEF MasterLoops
<1>7. LinkTypes' /\ WorkerLoops'
  BY <1>1, LinkKept, LoopsKept
<1> QED
  BY <1>5, <1>6, <1>7 DEF RInv

LEMMA StartSizeRounds ==
    ASSUME IInv, RInv, StartSize PROVE RInv'
<1>1. LinkTypes /\ WorkerLoops /\ MasterLoops
  BY DEF RInv
<1>2. /\ mpc = "size" /\ mpc' = "start" /\ run' = 1 /\ iter' = 1
      /\ UNCHANGED <<workload, cgn, link, idx, pos, size, part, worker>>
  BY DEF StartSize, MasterGoto, config
<1>3. idx' = 0 /\ pos' = 1
  BY <1>1, <1>2 DEF IInv, Sizing, MasterLoops
<1>4. Starts' = Starts /\ Readies' = Readies /\ Gathers' = Gathers /\ Iters' = Iters
      /\ Iters \in Nat \ {0} /\ Starts \in Nat \ {0} /\ Readies \in Nat /\ Gathers \in Nat
  BY <1>2, ProgramKept, Programs DEF Iters
<1>5. UNCHANGED <<wpc, wpos>> /\ UNCHANGED <<sendCtr, recvCtr, wSendCtr, wRecvCtr>>
  BY <1>2 DEF worker, link
<1>6. ASSUME NEW w \in Worker PROVE Worked(w)'
  <2>1. /\ wSendCtr[w] = recvCtr[w]
        /\ Following(w) => wpc[w] = "command" /\ sendCtr[w] = wRecvCtr[w]
    BY <1>2, AtSize
  <2>2. ~Collected(w)' /\ Ahead(w, Starts)' = 0
    BY <1>2, <1>3 DEF Collected, Ahead, Worker
  <2>3. InputSent(w)' = 0 /\ SentDown(w)' = 0 /\ TakenUp(w)' = 0
    BY <1>2, <2>2 DEF InputSent, SentDown, TakenUp
  <2>4. ASSUME Following(w) PROVE Unanswered(w)'
    <3>1. wpc'[w] = "command" /\ sendCtr[w] = wRecvCtr[w]
      BY <1>5, <2>1, <2>4
    <3>2. Taken(w)' = 0 /\ Given(w)' = 0
      BY <3>1 DEF Taken, Given
    <3>3. Balanced(w, Taken(w), Given(w))'
      BY <1>5, <2>1, <2>3, <3>1, <3>2 DEF Balanced
    <3> QED
      BY <1>2, <3>1, <3>3 DEF Unanswered
  <2>5. mpc \in Covered /\ TakenUp(w)' \in 0 .. Readies + Gathers
    BY <1>2, <1>4, <2>3 DEF Covered, Running
  <2> QED
    BY <1>2, <2>1, <2>2, <2>4, <2>5, Rested
<1>7. MasterLoops'
  BY <1>1, <1>2, <1>3, <1>4 DEF MasterLoops
<1>8. LinkTypes' /\ WorkerLoops'
  BY <1>1, <1>2, LinkKept, LoopsKept
<1> QED
  BY <1>6, <1>7, <1>8 DEF RInv

\* The master leaves the loop over the sizes, or has left it.
LEMMA UncoveredRounds ==
    ASSUME RInv, mpc' \notin Covered, LinkTypes', WorkerLoops',
           UNCHANGED <<workload, cgn, part, iter>>
    PROVE  RInv'
<1>1. MasterLoops /\ Iters' = Iters
  BY ProgramKept DEF RInv
<1>2. MasterLoops'
  BY <1>1 DEF MasterLoops, Covered, Running
<1> QED
  BY <1>2 DEF RInv
-----------------------------------------------------------------------------
(* The steps of a worker *)

LEMMA WorkerRounds ==
    ASSUME IInv, RInv, NEW w \in Worker, UNCHANGED <<config, place, work>>,
           LinkTypes', WorkerLoops', mpc \in Covered => Worked(w)',
           \A v \in Worker : v # w => /\ SameWorker(v) /\ SameDown(v) /\ SameUp(v)
                                      /\ net'[v] = net[v]
    PROVE  RInv'
<1>1. SameRound /\ UNCHANGED <<workload, cgn, mpc, idx, pos, part, run, iter>>
  BY DEF SameRound, config, place, work
<1>2. MasterLoops'
  <2>1. MasterLoops /\ M' = M /\ Starts' = Starts /\ Scatters' = Scatters /\ Gathers' = Gathers
        /\ Iters' = Iters
    BY <1>1, ProgramKept DEF RInv
  <2> QED
    BY <1>1, <2>1 DEF MasterLoops
<1>3. ASSUME mpc \in Covered, NEW v \in Worker PROVE Worked(v)'
  <2>1. CASE v = w
    BY <1>3, <2>1
  <2>2. CASE v # w
    <3>1. Worked(v)
      BY <1>3 DEF RInv
    <3>2. SameSent(v) /\ TakenUp(v)' = TakenUp(v) /\ Stored(v)'
      BY <1>1, <3>1, CountsKept, StoredKept DEF Worked
    <3>3. SameWorker(v) /\ SameDown(v) /\ SameUp(v) /\ \A t \in DownTag \cup UpTag : SameQueue(v, t)
      BY <2>2, QueueSame
    <3> QED
      BY <1>1, <3>1, <3>2, <3>3, WorkedKept
  <2> QED
    BY <2>1, <2>2
<1> QED
  BY <1>1, <1>2, <1>3 DEF RInv

WorkerPlaces == {"command", "start", "ready", "take", "give", "disconnect", "exited"}

\* The ends of the loops, when a worker goes somewhere else or one further.
LEMMA LoopsMove ==
    ASSUME IInv, WorkerLoops, UNCHANGED workload, NEW w \in Worker, NEW pc \in WorkerPlaces,
           WorkerGoto(w, pc), pc = "start" => 1 < Starts, pc = "ready" => M.ready,
           wrun' \in [Worker -> Nat], witer' \in [Worker -> Nat],
           DOMAIN wblock' = Worker, DOMAIN wof' = Worker
    PROVE  WorkerLoops' /\ wpc'[w] = pc /\ wpos'[w] = 1
<1>1. M' = M /\ Starts' = Starts /\ Scatters' = Scatters /\ Gathers' = Gathers
  BY ProgramKept
<1>2. Scatters \in Nat \ {0} /\ Gathers \in Nat \ {0}
  BY Programs
<1>3. DOMAIN wpc = Worker /\ wpos \in [Worker -> Nat \ {0}]
  BY DEF IInv, Types, WorkerLoops
<1>4. /\ wpc'[w] = pc /\ wpos'[w] = 1 /\ wpos' \in [Worker -> Nat \ {0}]
      /\ \A v \in Worker : v # w => wpc'[v] = wpc[v] /\ wpos'[v] = wpos[v]
  BY <1>3 DEF WorkerGoto
<1>5. ASSUME NEW v \in Worker
      PROVE  /\ wpc'[v] \in {"command", "ready"} => wpos'[v] = 1
             /\ wpc'[v] = "start" => wpos'[v] < Starts
             /\ wpc'[v] = "ready" => M.ready
             /\ wpc'[v] = "take" => wpos'[v] <= Scatters
             /\ wpc'[v] = "give" => wpos'[v] <= Gathers
  <2>1. CASE v = w
    BY <1>2, <1>4, <2>1
  <2>2. CASE v # w
    BY <1>4, <2>2 DEF WorkerLoops
  <2> QED
    BY <2>1, <2>2
<1> QED
  BY <1>1, <1>4, <1>5 DEF WorkerLoops

LEMMA LoopsNext ==
    ASSUME IInv, WorkerLoops, UNCHANGED <<workload, wpc>>, NEW w \in Worker,
           wpos' = [wpos EXCEPT ![w] = @ + 1],
           \/ wpc[w] = "start" /\ wpos[w] < Starts - 1
           \/ wpc[w] = "take" /\ wpos[w] < Scatters
           \/ wpc[w] = "give" /\ wpos[w] < Gathers,
           wrun' \in [Worker -> Nat], witer' \in [Worker -> Nat],
           DOMAIN wblock' = Worker, DOMAIN wof' = Worker
    PROVE  WorkerLoops' /\ wpos'[w] = wpos[w] + 1
<1>1. M' = M /\ Starts' = Starts /\ Scatters' = Scatters /\ Gathers' = Gathers
  BY ProgramKept
<1>2. Starts \in Nat /\ Scatters \in Nat \ {0} /\ Gathers \in Nat \ {0}
  BY Programs
<1>3. wpos \in [Worker -> Nat \ {0}] /\ wpos[w] \in Nat \ {0}
  BY DEF WorkerLoops
<1>4. /\ wpos'[w] = wpos[w] + 1 /\ wpos' \in [Worker -> Nat \ {0}]
      /\ \A v \in Worker : v # w => wpos'[v] = wpos[v]
  BY <1>3
<1>5. ASSUME NEW v \in Worker
      PROVE  /\ wpc[v] \in {"command", "ready"} => wpos'[v] = 1
             /\ wpc[v] = "start" => wpos'[v] < Starts
             /\ wpc[v] = "ready" => M.ready
             /\ wpc[v] = "take" => wpos'[v] <= Scatters
             /\ wpc[v] = "give" => wpos'[v] <= Gathers
  <2>1. CASE v = w
    BY <1>2, <1>3, <1>4, <2>1
  <2>2. CASE v # w
    BY <1>4, <2>2 DEF WorkerLoops
  <2> QED
    BY <2>1, <2>2
<1> QED
  BY <1>1, <1>4, <1>5 DEF WorkerLoops

\* A worker that leaves, whatever it last did with the link.
LEMMA WorkerLeaves ==
    ASSUME NEW w \in Worker, UpFrames(w)', Stored(w)', wpc'[w] \in {"disconnect", "exited"}
    PROVE  Worked(w)'
  BY DEF Worked, Lost
-----------------------------------------------------------------------------
(* A worker receives *)

LEMMA TakeKeepsUp ==
    ASSUME LinkTypes, NEW w \in Worker, NEW t \in DownTag, Arrived(w, t), WorkerTake(w, t),
           UNCHANGED <<config, place, work>>, UpFrames(w), Stored(w)
    PROVE  /\ UpFrames(w)' /\ Stored(w)' /\ SameSent(w) /\ TakenUp(w)' = TakenUp(w) /\ SameUp(w)
           /\ SameRound
<1>1. /\ UNCHANGED <<sendCtr, recvCtr, wSendCtr>>
      /\ \A s \in DownTag \cup UpTag : s # t => net'[w][s] = net[w][s]
  BY WorkerTakes
<1>2. \A s \in UpTag : SameQueue(w, s)
  BY <1>1, TagsApart, QueueSame
<1>3. SameRound /\ UNCHANGED <<mpc, idx, pos, part>>
  BY DEF SameRound, config, place, work
<1>4. SameUp(w)
  BY <1>1 DEF SameUp
<1>5. SameSent(w) /\ TakenUp(w)' = TakenUp(w) /\ (Collected(w)' => Collected(w))
  BY <1>3, CountsKept
<1>6. UpFrames(w)'
  BY <1>2, <1>3, <1>4, <1>5, UpKept
<1>7. Stored(w)'
  BY <1>3, <1>5, StoredKept
<1> QED
  BY <1>3, <1>4, <1>5, <1>6, <1>7

LEMMA OneReceived ==
    ASSUME LinkTypes, NEW w \in Worker, NEW t \in DownTag, Arrived(w, t), WorkerTake(w, t),
           WorkerOpens(w, t), SameRound, SameSent(w), DownFrames(w),
           workload = "EP" => t = "CMD"
    PROVE  /\ DownFrames(w)' /\ wRecvCtr'[w] = wRecvCtr[w] + 1 /\ sendCtr'[w] = sendCtr[w]
           /\ wRecvCtr[w] < sendCtr[w] /\ Got(w, t) = net[w][t][1].body
           /\ net[w][t][1].ctr = wRecvCtr[w] /\ DownFrame(w, net[w][t][1])
<1>1. /\ UNCHANGED <<sendCtr, recvCtr, wSendCtr>> /\ wRecvCtr'[w] = wRecvCtr[w] + 1
      /\ \A s \in DownTag \cup UpTag : s # t => net'[w][s] = net[w][s]
      /\ Len(net'[w][t]) + 1 = Len(net[w][t]) /\ Len(net'[w][t]) \in Nat
      /\ \A i \in 1 .. Len(net'[w][t]) : /\ net'[w][t][i] = net[w][t][i + 1]
                                         /\ i + 1 \in 1 .. Len(net[w][t])
      /\ 1 \in 1 .. Len(net[w][t]) /\ Got(w, t) = net[w][t][1].body
      /\ net[w][t][1].ctr = wRecvCtr[w]
  BY WorkerTakes
<1>2. sendCtr[w] \in Nat /\ wRecvCtr[w] \in Nat
  BY DEF LinkTypes
<1>3. sendCtr'[w] = sendCtr[w] /\ wRecvCtr'[w] = wRecvCtr[w] + 1
  BY <1>1
<1>4. DownFrame(w, net[w][t][1])
  BY <1>1 DEF DownFrames
<1>5. wRecvCtr[w] < sendCtr[w]
  BY <1>1, <1>4 DEF DownFrame
<1>6. wRecvCtr'[w] <= sendCtr'[w]
  BY ONLY <1>2, <1>5, <1>3
<1>7. Block(w)' = Block(w) /\ Round' = Round
  BY RoundKept
<1>8. ASSUME NEW f, f.ctr \in Nat, DownFrame(w, f) PROVE DownFrame(w, f)'
  <2>1. InputBody(w, f.body)' = InputBody(w, f.body) /\ StartBody(w, f.body)' = StartBody(w, f.body)
    BY <1>7 DEF InputBody, StartBody, SameRound
  <2>2. wRecvCtr'[w] <= f.ctr => wRecvCtr[w] <= f.ctr
    BY <1>2, <1>8, <1>3
  <2> QED
    BY <1>8, <1>3, <2>1, <2>2 DEF DownFrame, SameSent
<1>9. ASSUME NEW s \in DownTag, NEW i \in 1 .. Len(net'[w][s])
      PROVE  DownFrame(w, net[w][s][i])'
  <2>1. PICK k \in 1 .. Len(net[w][s]) : net'[w][s][i] = net[w][s][k]
    <3>1. CASE s = t
      BY <1>1, <1>9, <3>1
    <3>2. CASE s # t
      BY <1>1, <1>9, <3>2
    <3> QED
      BY <3>1, <3>2
  <2>2. PICK f : f = net[w][s][k]
    OBVIOUS
  <2>3. f.ctr \in Nat /\ DownFrame(w, f)
    BY <2>1, <2>2, FrameTypes DEF DownFrames
  <2>4. DownFrame(w, f)'
    BY <1>8, <2>3
  <2> QED
    BY <2>1, <2>2, <2>4 DEF DownFrame
<1>10. ASSUME workload = "EP" PROVE EpQueue(w)'
  <2>1. t = "CMD" /\ EpQueue(w)
    BY <1>10 DEF DownFrames
  <2>2. /\ wRecvCtr[w] + Len(net[w]["CMD"]) = sendCtr[w]
        /\ Len(net'[w]["CMD"]) + 1 = Len(net[w]["CMD"]) /\ Len(net'[w]["CMD"]) \in Nat
    BY <1>1, <2>1 DEF EpQueue
  <2>3. PICK n \in Nat : n = Len(net'[w]["CMD"])
    BY <2>2
  <2>4. wRecvCtr[w] + (n + 1) = sendCtr[w]
    BY <2>2, <2>3
  <2>5. wRecvCtr'[w] + Len(net'[w]["CMD"]) = sendCtr'[w]
    BY ONLY <1>2, <1>3, <2>3, <2>4, n \in Nat
  <2>6. \A k \in Nat : wRecvCtr[w] + (k + 1) = wRecvCtr'[w] + k
    BY ONLY <1>2, <1>3
  <2>7. ASSUME NEW i \in 1 .. Len(net'[w]["CMD"])
        PROVE  net'[w]["CMD"][i].ctr + 1 = wRecvCtr'[w] + i
    <3>1. net'[w]["CMD"][i] = net[w]["CMD"][i + 1] /\ i + 1 \in 1 .. Len(net[w]["CMD"])
      BY <1>1, <2>1, <2>7
    <3>2. net[w]["CMD"][i + 1].ctr + 1 = wRecvCtr[w] + (i + 1)
      BY <2>1, <3>1 DEF EpQueue
    <3>3. i \in Nat
      BY <2>7
    <3>4. wRecvCtr[w] + (i + 1) = wRecvCtr'[w] + i
      BY <2>6, <3>3
    <3> QED
      BY <3>1, <3>2, <3>4
  <2> QED
    BY <2>5, <2>7 DEF EpQueue
<1> QED
  BY <1>1, <1>4, <1>5, <1>6, <1>9, <1>10 DEF DownFrames, SameRound

\* What opens is a start for who has not had all of it, then the input.
LEMMA WhatIsReceived ==
    ASSUME IInv, RInv, mpc \in Covered, NEW w \in Worker, NEW b, Following(w),
           wRecvCtr[w] < sendCtr[w],
           NEW f, DownFrame(w, f), f.ctr = wRecvCtr[w], f.body = b
    PROVE  /\ Unanswered(w)
           /\ Taken(w) < Starts => StartBody(w, b)
           /\ Starts <= Taken(w) => InputBody(w, b) /\ mpc \in {"scatter", "gather", "round"}
<1>1. LinkTypes /\ WorkerLoops /\ MasterLoops
  BY DEF RInv
<1>2. sendCtr[w] \in Nat /\ wRecvCtr[w] \in Nat
  BY <1>1, WorkerTypes
<1>3. /\ InputSent(w) \in 0 .. Scatters /\ SentDown(w) \in Nat
      /\ \/ SentDown(w) = Starts + InputSent(w)
         \/ InputSent(w) = 0 /\ SentDown(w) <= Starts
  BY <1>1, CountTypes
<1>4. Starts \in Nat /\ Scatters \in Nat
  BY Programs
<1>5. ~Answered(w)
  <2> SUFFICES ASSUME Answered(w) PROVE FALSE
    OBVIOUS
  <2>1. sendCtr[w] + (Starts + Scatters) = wRecvCtr[w] + SentDown(w)
    BY DEF Answered, Balanced
  <2>2. wRecvCtr[w] < sendCtr[w]
    OBVIOUS
  <2> QED
    BY ONLY <1>2, <1>3, <1>4, <2>1, <2>2
<1>6. Unanswered(w)
  BY <1>5 DEF Following
<1>7. sendCtr[w] + Taken(w) = wRecvCtr[w] + SentDown(w) /\ Taken(w) \in Nat
  BY <1>1, <1>4, <1>6, WorkerTypes DEF Unanswered, Balanced
<1>8. wRecvCtr[w] < sendCtr[w] /\ wRecvCtr[w] <= wRecvCtr[w]
  BY <1>2
<1>9. IF sendCtr[w] <= wRecvCtr[w] + InputSent(w) THEN InputBody(w, b) ELSE StartBody(w, b)
  BY <1>8 DEF DownFrame
<1>10. /\ Taken(w) < Starts => ~(sendCtr[w] <= wRecvCtr[w] + InputSent(w))
       /\ Starts <= Taken(w) => /\ sendCtr[w] <= wRecvCtr[w] + InputSent(w)
                                /\ InputSent(w) # 0
  BY ONLY <1>2, <1>3, <1>4, <1>7, <1>8
<1>11. InputSent(w) # 0 => mpc \in {"scatter", "gather", "round"}
  BY DEF InputSent
<1> QED
  BY <1>6, <1>9, <1>10, <1>11

LEMMA CommandRounds ==
    ASSUME IInv, RInv, NEW w \in Worker, ReceiveCommand(w),
           RightLength(w, "CMD", Got(w, "CMD"))
    PROVE  RInv'
<1> DEFINE b == Got(w, "CMD")
           start == /\ WorkerOpens(w, "CMD") /\ b.is = "start"
                    /\ workload = "DGEMM" => b.block.count > 0
           pc == IF start THEN AfterCommand ELSE "disconnect"
<1>1. /\ wpc[w] = "command" /\ Arrived(w, "CMD") /\ WorkerTake(w, "CMD")
      /\ WorkerGoto(w, pc)
      /\ wrun' = [wrun EXCEPT ![w] = 1] /\ witer' = [witer EXCEPT ![w] = 1]
      /\ wblock' = [wblock EXCEPT ![w] = IF start THEN b.block ELSE @]
      /\ UNCHANGED <<config, place, work, wof>>
  BY DEF ReceiveCommand
<1>2. LinkTypes /\ WorkerLoops /\ "CMD" \in DownTag
  BY DEF RInv, DownTag
<1>3. /\ LinkTypes' /\ UNCHANGED <<sendCtr, recvCtr, wSendCtr>>
      /\ \A v \in Worker : v # w => net'[v] = net[v] /\ wRecvCtr'[v] = wRecvCtr[v]
  BY <1>1, <1>2, WorkerTakes
<1>4. /\ wrun' \in [Worker -> Nat] /\ witer' \in [Worker -> Nat]
      /\ DOMAIN wblock' = Worker /\ DOMAIN wof' = Worker
      /\ wrun'[w] = 1 /\ witer'[w] = 1 /\ wblock'[w] = IF start THEN b.block ELSE wblock[w]
      /\ \A v \in Worker : v # w => /\ wrun'[v] = wrun[v] /\ witer'[v] = witer[v]
                                    /\ wblock'[v] = wblock[v] /\ wof'[v] = wof[v]
  BY <1>1, <1>2 DEF WorkerLoops
<1>5. /\ Starts \in Nat \ {0} /\ W.ready = M.ready /\ (M.ready => Starts = 1)
      /\ W.start = <<>> <=> Starts = 1
  BY Programs
<1>6. /\ AfterCommand \in {"start", "ready", "take"}
      /\ AfterCommand = "start" => 1 < Starts
      /\ AfterCommand # "start" => Starts = 1
      /\ AfterCommand = "ready" <=> M.ready
  BY <1>5 DEF AfterCommand
<1>7. pc \in WorkerPlaces /\ (pc = "start" => 1 < Starts) /\ (pc = "ready" => M.ready)
  BY <1>6 DEF WorkerPlaces
<1>8. WorkerLoops' /\ wpc'[w] = pc /\ wpos'[w] = 1
  <2> HIDE DEF pc
  <2>1. UNCHANGED workload
    BY <1>1 DEF config
  <2> QED
    BY <1>1, <1>2, <1>4, <1>7, <2>1, LoopsMove
<1>9. \A v \in Worker : v # w => /\ SameWorker(v) /\ SameDown(v) /\ SameUp(v) /\ net'[v] = net[v]
  <2>1. \A v \in Worker : v # w => wpc'[v] = wpc[v] /\ wpos'[v] = wpos[v]
    BY <1>1, <1>2 DEF WorkerGoto, IInv, Types, WorkerLoops
  <2> QED
    BY <1>3, <1>4, <2>1 DEF SameWorker, SameDown, SameUp
<1>10. ASSUME mpc \in Covered PROVE Worked(w)'
  <2>1. Worked(w)
    BY <1>10 DEF RInv
  <2>2. /\ UpFrames(w)' /\ Stored(w)' /\ SameSent(w) /\ TakenUp(w)' = TakenUp(w) /\ SameUp(w)
        /\ SameRound
    BY <1>1, <1>2, <2>1, TakeKeepsUp DEF Worked
  <2>3. CASE ~start
    BY <1>8, <2>2, <2>3, WorkerLeaves
  <2>4. CASE start /\ Lost(w)
    <3>1. Stuck(w)
      BY <1>1, <2>4 DEF Lost
    <3>2. 1 \in 1 .. Len(net[w]["CMD"]) /\ net[w]["CMD"][1].ctr = wRecvCtr[w]
      BY <1>1, <1>2, <2>4, WorkerTakes
    <3>3. wRecvCtr[w] < wRecvCtr[w] /\ wRecvCtr[w] \in Nat
      BY <1>2, <3>1, <3>2 DEF Stuck, LinkTypes
    <3> QED
      BY ONLY <3>3
  <2>5. CASE start /\ Following(w)
    <3>1. WorkerOpens(w, "CMD")
      BY <2>5
    <3> HIDE DEF start, b, pc
    <3>2. /\ DownFrames(w)' /\ wRecvCtr'[w] = wRecvCtr[w] + 1 /\ sendCtr'[w] = sendCtr[w]
          /\ wRecvCtr[w] < sendCtr[w] /\ Got(w, "CMD") = net[w]["CMD"][1].body
          /\ net[w]["CMD"][1].ctr = wRecvCtr[w] /\ DownFrame(w, net[w]["CMD"][1])
      BY <1>1, <1>2, <2>2, <2>5, <3>1, OneReceived DEF Following
    <3>3. b = net[w]["CMD"][1].body
      BY <3>2 DEF b
    <3>4. Unanswered(w) /\ (Taken(w) < Starts => StartBody(w, b))
      BY <1>10, <2>5, <3>2, <3>3, WhatIsReceived
    <3>5. Taken(w) = 0 /\ Given(w) = 0 /\ run = 1 /\ iter = 1
      BY <1>1, <3>4 DEF Taken, Given, Unanswered
    <3>6. b.block = Block(w)
      BY <1>5, <3>4, <3>5 DEF StartBody
    <3>7. /\ wblock'[w] = Block(w) /\ wpc'[w] = AfterCommand /\ wpos'[w] = 1
      BY <1>4, <1>8, <2>5, <3>6 DEF pc
    <3>8. Taken(w)' = 1 /\ Given(w)' = 0
      <4>1. Starts' = Starts /\ Readies' = Readies
        BY <2>2, RoundKept
      <4>2. AfterCommand = "take" => Readies = 0
        BY <1>6 DEF Readies
      <4> QED
        BY <1>5, <1>6, <3>7, <4>1, <4>2 DEF Taken, Given
    <3>9. Balanced(w, Taken(w), Given(w))'
      <4>1. /\ sendCtr[w] + Taken(w) = wRecvCtr[w] + SentDown(w)
            /\ wSendCtr[w] + TakenUp(w) = recvCtr[w] + Given(w)
        BY <3>4 DEF Unanswered, Balanced
      <4>2. sendCtr[w] \in Nat /\ wRecvCtr[w] \in Nat /\ SentDown(w) \in Nat
        BY <1>2, <1>10, CountTypes DEF LinkTypes, RInv
      <4>3. /\ sendCtr'[w] = sendCtr[w] /\ wRecvCtr'[w] = wRecvCtr[w] + 1 /\ SentDown(w)' = SentDown(w)
            /\ wSendCtr'[w] = wSendCtr[w] /\ recvCtr'[w] = recvCtr[w] /\ TakenUp(w)' = TakenUp(w)
        BY <2>2, <3>2 DEF SameSent, SameUp
      <4>4. sendCtr'[w] + 1 = wRecvCtr'[w] + SentDown(w)'
        BY ONLY <3>5, <4>1, <4>2, <4>3
      <4> QED
        BY <3>5, <3>8, <4>1, <4>3, <4>4 DEF Balanced
    <3>10. Unanswered(w)'
      <4>1. Block(w)' = Block(w) /\ run' = run /\ iter' = iter
        BY <2>2, RoundKept DEF SameRound
      <4> QED
        BY <1>4, <1>6, <3>5, <3>7, <3>9, <4>1 DEF Unanswered
    <3> QED
      BY <2>2, <3>2, <3>10 DEF Worked, Following
  <2> QED
    BY <2>1, <2>3, <2>4, <2>5 DEF Worked
<1> QED
  BY <1>1, <1>3, <1>8, <1>9, <1>10, WorkerRounds
-----------------------------------------------------------------------------
(* A worker receives its share of the matrix, or its input *)

\* A message of the wrong length ends the worker.
LEMMA ReceiveAborts ==
    ASSUME IInv, RInv, NEW w \in Worker, NEW t \in DownTag,
           Arrived(w, t), WorkerTake(w, t), WorkerExit(w, 1),
           UNCHANGED <<config, place, work, wrun, witer, wblock, wof>>
    PROVE  RInv'
<1>1. LinkTypes /\ WorkerLoops
  BY DEF RInv
<1>2. /\ LinkTypes' /\ UNCHANGED <<sendCtr, recvCtr, wSendCtr>>
      /\ \A v \in Worker : v # w => net'[v] = net[v] /\ wRecvCtr'[v] = wRecvCtr[v]
  BY <1>1, WorkerTakes
<1>3. WorkerGoto(w, "exited")
  BY DEF WorkerExit
<1>4. WorkerLoops' /\ wpc'[w] = "exited"
  <2>1. /\ wrun' \in [Worker -> Nat] /\ witer' \in [Worker -> Nat]
        /\ DOMAIN wblock' = Worker /\ DOMAIN wof' = Worker /\ UNCHANGED workload
    BY <1>1 DEF WorkerLoops, config
  <2> QED
    BY <1>1, <1>3, <2>1, LoopsMove DEF WorkerPlaces
<1>5. \A v \in Worker : v # w => /\ SameWorker(v) /\ SameDown(v) /\ SameUp(v) /\ net'[v] = net[v]
  <2>1. \A v \in Worker : v # w => wpc'[v] = wpc[v] /\ wpos'[v] = wpos[v]
    BY <1>1, <1>3 DEF WorkerGoto, IInv, Types, WorkerLoops
  <2> QED
    BY <1>2, <2>1 DEF SameWorker, SameDown, SameUp
<1>6. ASSUME mpc \in Covered PROVE Worked(w)'
  <2>1. Worked(w)
    BY <1>6 DEF RInv
  <2>2. UpFrames(w)' /\ Stored(w)'
    BY <1>1, <2>1, TakeKeepsUp DEF Worked
  <2> QED
    BY <1>4, <2>2, WorkerLeaves
<1> QED
  BY <1>2, <1>4, <1>5, <1>6, WorkerRounds

LEMMA ReceiveCommandRounds ==
    ASSUME IInv, RInv, NEW w \in Worker, ReceiveCommand(w) PROVE RInv'
<1>1. CASE RightLength(w, "CMD", Got(w, "CMD"))
  BY <1>1, CommandRounds
<1>2. CASE ~RightLength(w, "CMD", Got(w, "CMD"))
  BY <1>2, ReceiveAborts DEF ReceiveCommand, DownTag
<1> QED
  BY <1>1, <1>2

\* Only EP goes on after a failed receive, and what it waits for is gone.
LEMMA ReceiveFails ==
    ASSUME IInv, RInv, NEW w \in Worker, NEW t \in DownTag, wpc[w] \in {"start", "take"},
           Arrived(w, t), WorkerTake(w, t), WorkerFails(w),
           UNCHANGED <<config, place, work, wrun, witer, wblock, wof>>,
           workload = "EP" /\ mpc \in Covered => t = "CMD" /\ ~WorkerOpens(w, t)
    PROVE  RInv'
<1>1. LinkTypes /\ WorkerLoops
  BY DEF RInv
<1>2. /\ LinkTypes' /\ UNCHANGED <<sendCtr, recvCtr, wSendCtr>>
      /\ \A v \in Worker : v # w => net'[v] = net[v] /\ wRecvCtr'[v] = wRecvCtr[v]
  BY <1>1, WorkerTakes
<1>3. PICK pc \in {"command", "disconnect", "exited"} :
         WorkerGoto(w, pc) /\ (pc = "command" => workload = "EP")
  <2>1. W.failed \in {"command", "disconnect", "abort"} /\ (W.failed = "command" <=> workload = "EP")
    BY Programs
  <2> QED
    BY <2>1 DEF WorkerFails, WorkerExit
<1>4. WorkerLoops' /\ wpc'[w] = pc
  <2>1. /\ pc \in WorkerPlaces /\ wrun' \in [Worker -> Nat] /\ witer' \in [Worker -> Nat]
        /\ DOMAIN wblock' = Worker /\ DOMAIN wof' = Worker /\ UNCHANGED workload
    BY <1>1 DEF WorkerPlaces, WorkerLoops, config
  <2> QED
    BY <1>1, <1>3, <2>1, LoopsMove
<1>5. \A v \in Worker : v # w => /\ SameWorker(v) /\ SameDown(v) /\ SameUp(v) /\ net'[v] = net[v]
  <2>1. \A v \in Worker : v # w => wpc'[v] = wpc[v] /\ wpos'[v] = wpos[v]
    BY <1>1, <1>3 DEF WorkerGoto, IInv, Types, WorkerLoops
  <2> QED
    BY <1>2, <2>1 DEF SameWorker, SameDown, SameUp
<1>6. ASSUME mpc \in Covered PROVE Worked(w)'
  <2>1. Worked(w) /\ ~Lost(w)
    BY <1>6 DEF RInv, Lost, Stuck
  <2>2. UpFrames(w)' /\ Stored(w)'
    BY <1>1, <2>1, TakeKeepsUp DEF Worked
  <2>3. CASE pc \in {"disconnect", "exited"}
    BY <1>4, <2>2, <2>3, WorkerLeaves
  <2>4. CASE pc = "command"
    <3>1. workload = "EP" /\ t = "CMD" /\ ~WorkerOpens(w, "CMD") /\ workload' = "EP"
      BY <1>3, <1>6, <2>4 DEF config
    <3>2. EpQueue(w)
      BY <2>1, <3>1 DEF Worked, Following, DownFrames
    <3>3. /\ wRecvCtr'[w] = wRecvCtr[w] /\ sendCtr'[w] = sendCtr[w]
          /\ Len(net'[w]["CMD"]) + 1 = Len(net[w]["CMD"]) /\ Len(net'[w]["CMD"]) \in Nat
          /\ \A i \in 1 .. Len(net'[w]["CMD"]) : /\ net'[w]["CMD"][i] = net[w]["CMD"][i + 1]
                                                 /\ i + 1 \in 1 .. Len(net[w]["CMD"])
      BY <1>1, <3>1, WorkerTakes
    <3>4. sendCtr[w] \in Nat /\ wRecvCtr[w] \in Nat
      BY <1>1 DEF LinkTypes
    <3>5. wRecvCtr'[w] < sendCtr'[w]
      <4>1. PICK n \in Nat : n = Len(net'[w]["CMD"])
        BY <3>3
      <4>2. wRecvCtr[w] + (n + 1) = sendCtr[w]
        BY <3>2, <3>3, <4>1 DEF EpQueue
      <4>3. wRecvCtr'[w] = wRecvCtr[w] /\ sendCtr'[w] = sendCtr[w]
        BY <3>3
      <4> QED
        BY ONLY <3>4, <4>2, <4>3, n \in Nat
    <3>6. ASSUME NEW i \in 1 .. Len(net'[w]["CMD"]) PROVE wRecvCtr'[w] < net'[w]["CMD"][i].ctr
      <4>1. i \in Nat \ {0}
        OBVIOUS
      <4>2. net'[w]["CMD"][i] = net[w]["CMD"][i + 1] /\ i + 1 \in 1 .. Len(net[w]["CMD"])
        BY <3>3
      <4>3. PICK c \in Nat : c = net[w]["CMD"][i + 1].ctr
        BY <1>1, <4>2, FrameTypes DEF DownTag
      <4>4. c + 1 = wRecvCtr[w] + (i + 1)
        BY <3>2, <4>2, <4>3 DEF EpQueue
      <4>5. wRecvCtr[w] < c
        BY <3>4, <4>4, <4>1
      <4> QED
        BY <3>3, <4>2, <4>3, <4>5
    <3> QED
      BY <1>4, <2>2, <2>4, <3>1, <3>5, <3>6 DEF Worked, Lost, Stuck
  <2> QED
    BY <2>3, <2>4
<1> QED
  BY <1>2, <1>4, <1>5, <1>6, WorkerRounds

LEMMA ReceiveMatrixRounds ==
    ASSUME IInv, RInv, NEW w \in Worker, ReceiveMatrix(w) PROVE RInv'
<1> DEFINE t == W.start[wpos[w]]
           b == Got(w, t)
<1>1. /\ wpc[w] = "start" /\ Arrived(w, t) /\ WorkerTake(w, t)
      /\ UNCHANGED <<config, place, work, wrun, witer>>
      /\ \/ /\ WorkerOpens(w, t) /\ NextInProgram(w, W.start, "take")
            /\ wblock' = [wblock EXCEPT ![w] = Input(w, t, b).block]
            /\ wof' = [wof EXCEPT ![w] = Input(w, t, b).of]
         \/ WorkerFails(w) /\ UNCHANGED <<wblock, wof>>
         \/ WorkerExit(w, 1) /\ UNCHANGED <<wblock, wof>>
  BY DEF ReceiveMatrix, Receive
<1>2. LinkTypes /\ WorkerLoops
  BY DEF RInv
<1>3. /\ wpos[w] \in Nat \ {0} /\ wpos[w] < Starts /\ Starts \in Nat /\ Len(W.start) = Starts - 1
      /\ (M.ready => Starts = 1)
  BY <1>1, <1>2, Programs DEF WorkerLoops
<1>4. workload # "EP"
  <2> SUFFICES ASSUME workload = "EP" PROVE FALSE
    OBVIOUS
  <2>1. M.start = <<"CMD">>
    BY DEF M, MasterProgram, EPMaster
  <2>2. Starts = 1
    BY <2>1 DEF Starts
  <2> QED
    BY <1>3, <2>2
<1>5. t = "MATRIX" /\ t \in DownTag
  <2>1. wpos[w] \in 1 .. Starts - 1
    BY <1>3
  <2>2. t = "MATRIX"
    BY <1>3, <2>1, ProgramTags
  <2> QED
    BY <2>2 DEF DownTag
<1>6. CASE WorkerFails(w) /\ UNCHANGED <<wblock, wof>>
  <2> HIDE DEF t, b
  <2> QED
    BY <1>1, <1>4, <1>5, <1>6, ReceiveFails
<1>7. CASE WorkerExit(w, 1) /\ UNCHANGED <<wblock, wof>>
  <2> HIDE DEF t, b
  <2> QED
    BY <1>1, <1>5, <1>7, ReceiveAborts
<1>8. CASE /\ WorkerOpens(w, t) /\ NextInProgram(w, W.start, "take")
           /\ wblock' = [wblock EXCEPT ![w] = Input(w, t, b).block]
           /\ wof' = [wof EXCEPT ![w] = Input(w, t, b).of]
  <2> HIDE DEF t, b
  <2>1. /\ LinkTypes' /\ UNCHANGED <<sendCtr, recvCtr, wSendCtr>>
        /\ \A v \in Worker : v # w => net'[v] = net[v] /\ wRecvCtr'[v] = wRecvCtr[v]
    BY <1>1, <1>2, <1>5, WorkerTakes
  <2>2. Input(w, t, b).block = b.block
    BY <1>5 DEF Input
  <2>3. /\ DOMAIN wblock' = Worker /\ DOMAIN wof' = Worker /\ wblock'[w] = b.block
        /\ wrun' \in [Worker -> Nat] /\ witer' \in [Worker -> Nat]
        /\ \A v \in Worker : v # w => wblock'[v] = wblock[v] /\ wof'[v] = wof[v]
    BY <1>1, <1>2, <1>8, <2>2 DEF WorkerLoops
  <2>4. UNCHANGED workload
    BY <1>1 DEF config
  <2>5. /\ WorkerLoops'
        /\ \/ wpc'[w] = "start" /\ wpos'[w] = wpos[w] + 1
           \/ wpc'[w] = "take" /\ wpos'[w] = 1 /\ wpos[w] = Starts - 1
    <3>1. CASE wpos[w] < Starts - 1
      <4>1. wpos' = [wpos EXCEPT ![w] = @ + 1] /\ UNCHANGED wpc
        BY <1>3, <1>8, <3>1 DEF NextInProgram
      <4> QED
        BY <1>1, <1>2, <2>3, <2>4, <3>1, <4>1, LoopsNext
    <3>2. CASE ~(wpos[w] < Starts - 1)
      <4>1. WorkerGoto(w, "take")
        BY <1>3, <1>8, <3>2 DEF NextInProgram
      <4>2. wpos[w] = Starts - 1
        BY <1>3, <3>2
      <4> QED
        BY <1>2, <2>3, <2>4, <4>1, <4>2, LoopsMove DEF WorkerPlaces
    <3> QED
      BY <3>1, <3>2
  <2>6. \A v \in Worker : v # w => /\ SameWorker(v) /\ SameDown(v) /\ SameUp(v) /\ net'[v] = net[v]
    <3>1. \A v \in Worker : v # w => wpc'[v] = wpc[v] /\ wpos'[v] = wpos[v]
      BY <1>2, <1>8 DEF NextInProgram, WorkerGoto, IInv, Types, WorkerLoops
    <3> QED
      BY <1>1, <2>1, <2>3, <3>1 DEF SameWorker, SameDown, SameUp
  <2>7. ASSUME mpc \in Covered PROVE Worked(w)'
    <3>1. Worked(w) /\ Following(w)
      BY <1>1, <2>7 DEF RInv, Worked, Lost, Stuck
    <3>2. /\ UpFrames(w)' /\ Stored(w)' /\ SameSent(w) /\ TakenUp(w)' = TakenUp(w) /\ SameUp(w)
          /\ SameRound
      BY <1>1, <1>2, <1>5, <3>1, TakeKeepsUp DEF Worked
    <3>3. /\ DownFrames(w)' /\ wRecvCtr'[w] = wRecvCtr[w] + 1 /\ sendCtr'[w] = sendCtr[w]
          /\ wRecvCtr[w] < sendCtr[w] /\ Got(w, t) = net[w][t][1].body
          /\ net[w][t][1].ctr = wRecvCtr[w] /\ DownFrame(w, net[w][t][1])
      BY <1>1, <1>2, <1>4, <1>5, <1>8, <3>1, <3>2, OneReceived DEF Following
    <3>4. Unanswered(w) /\ (Taken(w) < Starts => StartBody(w, b))
      BY <2>7, <3>1, <3>3, WhatIsReceived DEF b
    <3>5. Taken(w) = wpos[w] /\ Given(w) = 0
      BY <1>1 DEF Taken, Given
    <3>6. b.block = Block(w)
      BY <1>3, <3>4, <3>5 DEF StartBody
    <3>7. Taken(w)' = wpos[w] + 1 /\ Given(w)' = 0
      <4>1. Starts' = Starts /\ Readies' = Readies
        BY <3>2, RoundKept
      <4>2. Readies = 0
        BY <1>3 DEF Readies
      <4>3. CASE wpc'[w] = "start" /\ wpos'[w] = wpos[w] + 1
        BY <4>3 DEF Taken, Given
      <4>4. CASE wpc'[w] = "take" /\ wpos'[w] = 1 /\ wpos[w] = Starts - 1
        <5>1. Taken(w)' = Starts + (1 - 1) /\ Given(w)' = 0
          BY <4>1, <4>2, <4>4 DEF Taken, Given
        <5> QED
          BY <1>3, <4>4, <5>1
      <4> QED
        BY <2>5, <4>3, <4>4
    <3>8. Balanced(w, Taken(w), Given(w))'
      <4>1. /\ sendCtr[w] + Taken(w) = wRecvCtr[w] + SentDown(w)
            /\ wSendCtr[w] + TakenUp(w) = recvCtr[w] + Given(w)
        BY <3>4 DEF Unanswered, Balanced
      <4>2. sendCtr[w] \in Nat /\ wRecvCtr[w] \in Nat /\ SentDown(w) \in Nat
        BY <1>2, <2>7, CountTypes DEF LinkTypes, RInv
      <4>3. /\ sendCtr'[w] = sendCtr[w] /\ wRecvCtr'[w] = wRecvCtr[w] + 1 /\ SentDown(w)' = SentDown(w)
            /\ wSendCtr'[w] = wSendCtr[w] /\ recvCtr'[w] = recvCtr[w] /\ TakenUp(w)' = TakenUp(w)
        BY <3>2, <3>3 DEF SameSent, SameUp
      <4>4. sendCtr[w] + wpos[w] = wRecvCtr[w] + SentDown(w)
        BY <3>5, <4>1
      <4>5. wpos[w] \in Nat
        BY <1>3
      <4>6. sendCtr'[w] + (wpos[w] + 1) = wRecvCtr'[w] + SentDown(w)'
        BY ONLY <4>2, <4>3, <4>4, <4>5
      <4> QED
        BY <3>5, <3>7, <4>1, <4>3, <4>6 DEF Balanced
    <3>9. Unanswered(w)'
      <4>1. Block(w)' = Block(w) /\ run' = run /\ iter' = iter
        BY <3>2, RoundKept DEF SameRound
      <4>2. wrun'[w] = run /\ witer'[w] = iter
        BY <1>1, <3>4 DEF Unanswered
      <4> QED
        BY <2>3, <2>5, <3>6, <3>8, <4>1, <4>2 DEF Unanswered
    <3> QED
      BY <3>2, <3>3, <3>9 DEF Worked, Following
  <2> QED
    BY <1>1, <2>1, <2>5, <2>6, <2>7, WorkerRounds
<1> QED
  BY <1>1, <1>6, <1>8, <1>7

\* The input of a round: what the worker then works on is its own block,
\* and of this round.
LEMMA InputOfRound ==
    ASSUME IInv, MasterLoops, mpc \in {"scatter", "gather", "round"}, NEW w \in Worker,
           NEW t, NEW b, InputBody(w, b), t = "CMD" <=> workload = "EP", wblock[w] = Block(w)
    PROVE  Input(w, t, b).block = Block(w) /\ Input(w, t, b).of = Round
<1>1. CASE workload = "EP"
  <2>1. t = "CMD" /\ b.is = "seed" /\ b.token = EpSeed(run, w) /\ run \in Nat
    BY <1>1 DEF InputBody, IInv, Types
  <2>2. EpOfSeed(b.token) = [run |-> run, worker |-> w]
    BY <2>1, SeedsAreDistinct
  <2>3. EpOfSeed(b.token).run = run /\ EpOfSeed(b.token).worker = w
    BY <2>2
  <2>4. Block(w) = [first |-> w, count |-> 1]
    BY <1>1 DEF Block
  <2>5. size = 1 /\ iter = 1
    <3>1. Iters = 1 /\ NumSizes = 1
      BY <1>1 DEF Iters, NumSizes
    <3> QED
      BY <3>1 DEF MasterLoops, IInv, Types, Sizing, Running
  <2> QED
    BY <2>1, <2>3, <2>4, <2>5 DEF Input, Round
<1>2. CASE workload # "EP"
  BY <1>2 DEF InputBody, Input
<1> QED
  BY <1>1, <1>2

LEMMA ReceiveInputRounds ==
    ASSUME IInv, RInv, NEW w \in Worker, ReceiveInput(w) PROVE RInv'
<1> DEFINE t == W.take[wpos[w]]
           b == Got(w, t)
           ok == WorkerOpens(w, t) /\ WorkerAccepts(w, t, b)
<1>1. /\ wpc[w] = "take" /\ Arrived(w, t) /\ WorkerTake(w, t)
      /\ UNCHANGED <<config, place, work, wrun, witer>>
      /\ \/ /\ ok /\ NextInProgram(w, W.take, "give")
            /\ wblock' = [wblock EXCEPT ![w] = Input(w, t, b).block]
            /\ wof' = [wof EXCEPT ![w] = Input(w, t, b).of]
         \/ ~ok /\ WorkerFails(w) /\ UNCHANGED <<wblock, wof>>
         \/ WorkerExit(w, 1) /\ UNCHANGED <<wblock, wof>>
  BY DEF ReceiveInput, Receive
<1>2. LinkTypes /\ WorkerLoops /\ MasterLoops
  BY DEF RInv
<1>3. /\ wpos[w] \in Nat \ {0} /\ wpos[w] <= Scatters /\ Scatters \in Nat /\ Starts \in Nat
      /\ Len(W.take) = Scatters
  BY <1>1, <1>2, Programs DEF WorkerLoops
<1>4. t \in DownTag /\ t # "MATRIX" /\ (t = "CMD" <=> workload = "EP")
  <2>1. wpos[w] \in 1 .. Scatters
    BY <1>3
  <2> QED
    BY <1>3, <2>1, ProgramTags
<1> HIDE DEF t, b
\* What opens is the input of this round.
<1>5. ASSUME mpc \in Covered, WorkerOpens(w, t)
      PROVE  /\ Unanswered(w) /\ Input(w, t, b).block = Block(w) /\ Input(w, t, b).of = Round
             /\ DownFrames(w)' /\ wRecvCtr'[w] = wRecvCtr[w] + 1 /\ sendCtr'[w] = sendCtr[w]
  <2>1. Worked(w) /\ Following(w)
    BY <1>1, <1>5 DEF RInv, Worked, Lost, Stuck
  <2>2. SameSent(w) /\ SameRound
    BY <1>1, <1>2, <1>4, <2>1, TakeKeepsUp DEF Worked
  <2>3. /\ DownFrames(w)' /\ wRecvCtr'[w] = wRecvCtr[w] + 1 /\ sendCtr'[w] = sendCtr[w]
        /\ wRecvCtr[w] < sendCtr[w] /\ Got(w, t) = net[w][t][1].body
        /\ net[w][t][1].ctr = wRecvCtr[w] /\ DownFrame(w, net[w][t][1])
    BY <1>1, <1>2, <1>4, <1>5, <2>1, <2>2, OneReceived DEF Following
  <2>4. /\ Unanswered(w)
        /\ Starts <= Taken(w) => InputBody(w, b) /\ mpc \in {"scatter", "gather", "round"}
    BY <1>5, <2>1, <2>3, WhatIsReceived DEF b
  <2>5. Taken(w) = Starts + (wpos[w] - 1) /\ wblock[w] = Block(w)
    BY <1>1, <2>4 DEF Taken, Unanswered
  <2>6. Starts <= Taken(w)
    BY <1>3, <2>5
  <2>7. Input(w, t, b).block = Block(w) /\ Input(w, t, b).of = Round
    BY <1>2, <1>4, <2>4, <2>5, <2>6, InputOfRound
  <2> QED
    BY <2>3, <2>4, <2>7
<1>6. CASE ~ok /\ WorkerFails(w) /\ UNCHANGED <<wblock, wof>>
  <2>1. ASSUME workload = "EP", mpc \in Covered PROVE t = "CMD" /\ ~WorkerOpens(w, t)
    <3>1. t = "CMD"
      BY <1>4, <2>1
    <3>2. WorkerAccepts(w, t, b)
      BY <3>1 DEF WorkerAccepts
    <3> QED
      BY <1>6, <3>1, <3>2
  <2> QED
    BY <1>1, <1>4, <1>6, <2>1, ReceiveFails
<1>7. CASE WorkerExit(w, 1) /\ UNCHANGED <<wblock, wof>>
  BY <1>1, <1>4, <1>7, ReceiveAborts
<1>8. CASE /\ ok /\ NextInProgram(w, W.take, "give")
           /\ wblock' = [wblock EXCEPT ![w] = Input(w, t, b).block]
           /\ wof' = [wof EXCEPT ![w] = Input(w, t, b).of]
  <2>1. /\ LinkTypes' /\ UNCHANGED <<sendCtr, recvCtr, wSendCtr>>
        /\ \A v \in Worker : v # w => net'[v] = net[v] /\ wRecvCtr'[v] = wRecvCtr[v]
    BY <1>1, <1>2, <1>4, WorkerTakes
  <2>2. /\ DOMAIN wblock' = Worker /\ DOMAIN wof' = Worker
        /\ wblock'[w] = Input(w, t, b).block /\ wof'[w] = Input(w, t, b).of
        /\ wrun' \in [Worker -> Nat] /\ witer' \in [Worker -> Nat]
        /\ \A v \in Worker : v # w => wblock'[v] = wblock[v] /\ wof'[v] = wof[v]
    BY <1>1, <1>2, <1>8 DEF WorkerLoops
  <2>3. UNCHANGED workload
    BY <1>1 DEF config
  <2>4. /\ WorkerLoops'
        /\ \/ wpc'[w] = "take" /\ wpos'[w] = wpos[w] + 1
           \/ wpc'[w] = "give" /\ wpos'[w] = 1 /\ wpos[w] = Scatters
    <3>1. CASE wpos[w] < Scatters
      <4>1. wpos' = [wpos EXCEPT ![w] = @ + 1] /\ UNCHANGED wpc
        BY <1>3, <1>8, <3>1 DEF NextInProgram
      <4> QED
        BY <1>1, <1>2, <2>2, <2>3, <3>1, <4>1, LoopsNext
    <3>2. CASE ~(wpos[w] < Scatters)
      <4>1. WorkerGoto(w, "give")
        BY <1>3, <1>8, <3>2 DEF NextInProgram
      <4>2. wpos[w] = Scatters
        BY <1>3, <3>2
      <4> QED
        BY <1>2, <2>2, <2>3, <4>1, <4>2, LoopsMove DEF WorkerPlaces
    <3> QED
      BY <3>1, <3>2
  <2>5. \A v \in Worker : v # w => /\ SameWorker(v) /\ SameDown(v) /\ SameUp(v) /\ net'[v] = net[v]
    <3>1. \A v \in Worker : v # w => wpc'[v] = wpc[v] /\ wpos'[v] = wpos[v]
      BY <1>2, <1>8 DEF NextInProgram, WorkerGoto, IInv, Types, WorkerLoops
    <3> QED
      BY <1>1, <2>1, <2>2, <3>1 DEF SameWorker, SameDown, SameUp
  <2>6. ASSUME mpc \in Covered PROVE Worked(w)'
    <3>1. Worked(w)
      BY <2>6 DEF RInv
    <3>2. /\ UpFrames(w)' /\ Stored(w)' /\ SameSent(w) /\ TakenUp(w)' = TakenUp(w) /\ SameUp(w)
          /\ SameRound
      BY <1>1, <1>2, <1>4, <3>1, TakeKeepsUp DEF Worked
    <3>3. /\ Unanswered(w) /\ Input(w, t, b).block = Block(w) /\ Input(w, t, b).of = Round
          /\ DownFrames(w)' /\ wRecvCtr'[w] = wRecvCtr[w] + 1 /\ sendCtr'[w] = sendCtr[w]
      BY <1>5, <1>8, <2>6
    <3>4. Taken(w) = Starts + (wpos[w] - 1) /\ Given(w) = Readies
      BY <1>1 DEF Taken, Given
    <3>5. /\ Starts' = Starts /\ Readies' = Readies /\ Scatters' = Scatters
          /\ Block(w)' = Block(w) /\ Round' = Round /\ run' = run /\ iter' = iter
      BY <3>2, RoundKept DEF SameRound
    <3>6. Taken(w)' = Starts + wpos[w] /\ Given(w)' = Readies
      <4>1. Readies \in Nat
        BY Programs
      <4>2. CASE wpc'[w] = "take" /\ wpos'[w] = wpos[w] + 1
        <5>1. Taken(w)' = Starts + ((wpos[w] + 1) - 1) /\ Given(w)' = Readies
          BY <3>5, <4>2 DEF Taken, Given
        <5> QED
          BY <1>3, <5>1
      <4>3. CASE wpc'[w] = "give" /\ wpos'[w] = 1 /\ wpos[w] = Scatters
        <5>1. Taken(w)' = Starts + Scatters /\ Given(w)' = Readies + (1 - 1)
          BY <3>5, <4>3 DEF Taken, Given
        <5> QED
          BY <4>1, <4>3, <5>1
      <4> QED
        BY <2>4, <4>2, <4>3
    <3>7. Balanced(w, Taken(w), Given(w))'
      <4>1. /\ sendCtr[w] + (Starts + (wpos[w] - 1)) = wRecvCtr[w] + SentDown(w)
            /\ wSendCtr[w] + TakenUp(w) = recvCtr[w] + Readies
        BY <3>3, <3>4 DEF Unanswered, Balanced
      <4>2. sendCtr[w] \in Nat /\ wRecvCtr[w] \in Nat /\ SentDown(w) \in Nat
        BY <1>2, <2>6, CountTypes DEF LinkTypes, RInv
      <4>3. /\ sendCtr'[w] = sendCtr[w] /\ wRecvCtr'[w] = wRecvCtr[w] + 1 /\ SentDown(w)' = SentDown(w)
            /\ wSendCtr'[w] = wSendCtr[w] /\ recvCtr'[w] = recvCtr[w] /\ TakenUp(w)' = TakenUp(w)
        BY <3>2, <3>3 DEF SameSent, SameUp
      <4>4. wpos[w] \in Nat /\ Starts \in Nat
        BY <1>3
      <4>5. sendCtr'[w] + (Starts + wpos[w]) = wRecvCtr'[w] + SentDown(w)'
        BY ONLY <4>1, <4>2, <4>3, <4>4
      <4> QED
        BY <3>6, <4>1, <4>3, <4>5 DEF Balanced
    <3>8. Unanswered(w)'
      <4>1. wrun'[w] = run /\ witer'[w] = iter
        BY <1>1, <3>3 DEF Unanswered
      <4> QED
        BY <2>2, <2>4, <3>3, <3>5, <3>7, <4>1 DEF Unanswered
    <3> QED
      BY <3>2, <3>3, <3>8 DEF Worked, Following
  <2> QED
    BY <1>1, <2>1, <2>4, <2>5, <2>6, WorkerRounds
<1> QED
  BY <1>1, <1>6, <1>8, <1>7
-----------------------------------------------------------------------------
(* A worker sends, or leaves *)

LEMMA OneAnswered ==
    ASSUME IInv, RInv, mpc \in Covered, NEW w \in Worker, NEW t \in UpTag, NEW b,
           Following(w), Unanswered(w), wpc[w] # "command", WorkerSend(w, t, b),
           UNCHANGED <<config, place, work>>,
           t # "READY" => b.block = Block(w) /\ b.of = Round
    PROVE  /\ UpFrames(w)' /\ DownFrames(w)' /\ Stored(w)'
           /\ SameRound /\ SameSent(w) /\ TakenUp(w)' = TakenUp(w) /\ SameDown(w)
           /\ wSendCtr'[w] = wSendCtr[w] + 1 /\ recvCtr'[w] = recvCtr[w]
<1>1. LinkTypes /\ WorkerLoops /\ MasterLoops /\ UpFrames(w) /\ Stored(w)
  BY DEF RInv, Worked
<1>2. /\ UNCHANGED <<sendCtr, recvCtr, wRecvCtr>> /\ wSendCtr'[w] = wSendCtr[w] + 1
      /\ \A s \in DownTag \cup UpTag : s # t => net'[w][s] = net[w][s]
      /\ Len(net'[w][t]) = Len(net[w][t]) + 1 /\ Len(net[w][t]) \in Nat
      /\ \A i \in 1 .. Len(net[w][t]) : net'[w][t][i] = net[w][t][i]
      /\ net'[w][t][Len(net[w][t]) + 1].ctr = wSendCtr[w]
      /\ net'[w][t][Len(net[w][t]) + 1].body = b
  BY <1>1, WorkerSends, SMTT(20)
<1>3. SameRound /\ UNCHANGED <<mpc, idx, pos, part>>
  BY DEF SameRound, config, place, work
<1>4. SameSent(w) /\ TakenUp(w)' = TakenUp(w) /\ (Collected(w)' => Collected(w))
  BY <1>3, CountsKept
<1>5. /\ Gathers' = Gathers /\ Readies' = Readies /\ Block(w)' = Block(w) /\ Round' = Round
  BY <1>3, RoundKept
<1>6. Stored(w)'
  BY <1>1, <1>3, <1>4, StoredKept
<1>7. SameDown(w)
  BY <1>2 DEF SameDown
<1>8. DownFrames(w)'
  <2>1. \A s \in DownTag : SameQueue(w, s)
    BY <1>2, TagsApart, QueueSame
  <2> QED
    BY <1>3, <1>4, <1>7, <2>1, DownKept DEF Following
<1>9. mpc # "size"
  BY AtSize
<1>10. /\ wSendCtr[w] \in Nat /\ recvCtr[w] \in Nat /\ Given(w) \in Nat
       /\ Given(w) + 1 <= Readies + Gathers
  BY <1>1, WorkerTypes DEF Unanswered
<1>11. Readies \in Nat /\ Gathers \in Nat /\ TakenUp(w) \in Nat
  BY <1>1, CountTypes, Programs
<1>12. wSendCtr'[w] = wSendCtr[w] + 1 /\ recvCtr'[w] = recvCtr[w]
  BY <1>2
<1>13. UpFrames(w)'
  <2>1. wSendCtr[w] + TakenUp(w) = recvCtr[w] + Given(w)
    BY DEF Unanswered, Balanced
  <2>2. recvCtr[w] <= wSendCtr[w]
    BY <1>1 DEF UpFrames
  <2>3. wSendCtr'[w] + TakenUp(w) <= recvCtr'[w] + (Readies + Gathers)
    BY ONLY <1>10, <1>11, <1>12, <2>1
  <2>4. recvCtr'[w] <= wSendCtr'[w]
    BY ONLY <1>10, <1>12, <2>2
  <2>5. ASSUME NEW s \in UpTag, NEW f, f.ctr \in Nat, UpFrame(w, s, f) PROVE UpFrame(w, s, f)'
    <3>1. f.ctr < wSendCtr[w]
      BY <2>5 DEF UpFrame
    <3>2. f.ctr < wSendCtr'[w]
      BY <1>10, <1>12, <2>5, <3>1
    <3> QED
      BY <1>5, <1>12, <2>5, <3>2 DEF UpFrame
  <2>6. ASSUME NEW f, f.ctr = wSendCtr[w], f.body = b PROVE UpFrame(w, t, f)'
    <3>1. f.ctr < wSendCtr'[w]
      BY <1>10, <1>12, <2>6
    <3>2. (b.block = Block(w) /\ b.of = Round) \/ t = "READY"
      OBVIOUS
    <3> QED
      BY <1>5, <2>6, <3>1, <3>2 DEF UpFrame
  <2>7. ASSUME NEW s \in UpTag, NEW i \in 1 .. Len(net'[w][s])
        PROVE  UpFrame(w, s, net[w][s][i])'
    <3>1. CASE i \in 1 .. Len(net[w][s]) /\ net'[w][s][i] = net[w][s][i]
      <4>1. PICK f : f = net[w][s][i]
        OBVIOUS
      <4>2. f.ctr \in Nat /\ UpFrame(w, s, f)
        BY <1>1, <3>1, <4>1, FrameTypes DEF UpFrames
      <4>3. UpFrame(w, s, f)'
        BY <2>5, <4>2
      <4> QED
        BY <3>1, <4>1, <4>3 DEF UpFrame
    <3>2. CASE s = t /\ i = Len(net[w][t]) + 1
      <4>1. PICK f : f = net'[w][s][i]
        OBVIOUS
      <4>2. UpFrame(w, t, f)'
        BY <1>2, <2>6, <3>2, <4>1
      <4> QED
        BY <3>2, <4>1, <4>2 DEF UpFrame
    <3>3. CASE s # t
      BY <1>2, <2>7, <3>1, <3>3
    <3>4. i \in 1 .. Len(net'[w][s]) /\ Len(net[w][t]) \in Nat /\ Len(net'[w][t]) = Len(net[w][t]) + 1
      BY <1>2, <2>7
    <3>5. s = t => i \in 1 .. Len(net[w][t]) \/ i = Len(net[w][t]) + 1
      BY ONLY <3>4
    <3> QED
      BY <1>2, <3>1, <3>2, <3>3, <3>5
  <2> QED
    BY <1>3, <1>4, <1>5, <1>9, <2>3, <2>4, <2>7 DEF UpFrames
<1> QED
  BY <1>3, <1>4, <1>6, <1>7, <1>8, <1>12, <1>13

LEMMA SendReadyRounds ==
    ASSUME IInv, RInv, NEW w \in Worker, NEW ok \in BOOLEAN, SendReady(w, ok) PROVE RInv'
<1>1. PICK b : b = Msg("ready", NoBlock, 0, ok, 0, Never)
  OBVIOUS
<1>2. PICK pc : pc = IF ok THEN "take" ELSE "disconnect"
  OBVIOUS
<1>3. /\ wpc[w] = "ready" /\ WorkerSend(w, "READY", b) /\ WorkerGoto(w, pc)
      /\ UNCHANGED <<config, place, work, wrun, witer, wblock, wof>>
  BY <1>1, <1>2 DEF SendReady
<1>4. LinkTypes /\ WorkerLoops /\ MasterLoops /\ "READY" \in UpTag
  BY DEF RInv, UpTag
<1>5. /\ LinkTypes' /\ UNCHANGED <<sendCtr, recvCtr, wRecvCtr>>
      /\ \A v \in Worker : v # w => net'[v] = net[v] /\ wSendCtr'[v] = wSendCtr[v]
  BY <1>3, <1>4, WorkerSends
<1>6. WorkerLoops' /\ wpc'[w] = pc /\ wpos'[w] = 1
  <2>1. pc \in WorkerPlaces /\ pc # "start" /\ pc # "ready"
    BY <1>2 DEF WorkerPlaces
  <2>2. /\ wrun' \in [Worker -> Nat] /\ witer' \in [Worker -> Nat]
        /\ DOMAIN wblock' = Worker /\ DOMAIN wof' = Worker /\ UNCHANGED workload
    BY <1>3, <1>4 DEF WorkerLoops, config
  <2> QED
    BY <1>3, <1>4, <2>1, <2>2, LoopsMove
<1>7. \A v \in Worker : v # w => /\ SameWorker(v) /\ SameDown(v) /\ SameUp(v) /\ net'[v] = net[v]
  <2>1. \A v \in Worker : v # w => wpc'[v] = wpc[v] /\ wpos'[v] = wpos[v]
    BY <1>3, <1>4 DEF WorkerGoto, IInv, Types, WorkerLoops
  <2> QED
    BY <1>3, <1>5, <2>1 DEF SameWorker, SameDown, SameUp
<1>8. ASSUME mpc \in Covered PROVE Worked(w)'
  <2>1. Following(w) /\ Unanswered(w)
    BY <1>3, <1>8 DEF RInv, Worked, Lost, Stuck, Following, Answered
  <2>2. /\ UpFrames(w)' /\ DownFrames(w)' /\ Stored(w)'
        /\ SameRound /\ SameSent(w) /\ TakenUp(w)' = TakenUp(w) /\ SameDown(w)
        /\ wSendCtr'[w] = wSendCtr[w] + 1 /\ recvCtr'[w] = recvCtr[w]
    BY <1>3, <1>4, <1>8, <2>1, OneAnswered
  <2>3. CASE ~ok
    BY <1>2, <1>6, <2>2, <2>3, WorkerLeaves
  <2>4. CASE ok
    <3>1. wpc'[w] = "take"
      BY <1>2, <1>6, <2>4
    <3>2. /\ Starts' = Starts /\ Readies' = Readies
          /\ Block(w)' = Block(w) /\ run' = run /\ iter' = iter
      BY <2>2, RoundKept DEF SameRound
    <3>3. Readies = 1 /\ Starts \in Nat
      BY <1>3, <1>4, Programs DEF WorkerLoops, Readies
    <3>4. Taken(w) = Starts /\ Given(w) = 0
      BY <1>3 DEF Taken, Given
    <3>5. Taken(w)' = Starts + (1 - 1) /\ Given(w)' = 1
      BY <1>6, <3>1, <3>2, <3>3 DEF Taken, Given
    <3>6. Balanced(w, Taken(w), Given(w))'
      <4>1. /\ sendCtr[w] + Starts = wRecvCtr[w] + SentDown(w)
            /\ wSendCtr[w] + TakenUp(w) = recvCtr[w] + 0
        BY <2>1, <3>4 DEF Unanswered, Balanced
      <4>2. wSendCtr[w] \in Nat /\ recvCtr[w] \in Nat /\ TakenUp(w) \in Nat
        BY <1>4, <1>8, CountTypes, Programs DEF LinkTypes
      <4>3. /\ sendCtr'[w] = sendCtr[w] /\ wRecvCtr'[w] = wRecvCtr[w] /\ SentDown(w)' = SentDown(w)
            /\ wSendCtr'[w] = wSendCtr[w] + 1 /\ recvCtr'[w] = recvCtr[w]
            /\ TakenUp(w)' = TakenUp(w)
        BY <2>2 DEF SameSent, SameDown
      <4>4. wSendCtr'[w] + TakenUp(w)' = recvCtr'[w] + 1
        BY ONLY <4>1, <4>2, <4>3
      <4>5. Taken(w)' = Starts
        BY <3>3, <3>5
      <4> QED
        BY <3>5, <4>1, <4>3, <4>4, <4>5 DEF Balanced
    <3>7. Unanswered(w)'
      BY <1>3, <2>1, <3>1, <3>2, <3>6 DEF Unanswered
    <3> QED
      BY <2>2, <3>7 DEF Worked, Following
  <2> QED
    BY <2>3, <2>4
<1> QED
  BY <1>3, <1>5, <1>6, <1>7, <1>8, WorkerRounds

LEMMA SendOutputRounds ==
    ASSUME IInv, RInv, NEW w \in Worker, SendOutput(w) PROVE RInv'
<1>1. PICK t : t = W.give[wpos[w]]
  OBVIOUS
<1>2. PICK b : b = Msg("result", wblock[w], wrun[w], Verified, FinalToken, wof[w])
  OBVIOUS
<1>3. /\ wpc[w] = "give" /\ WorkerSend(w, t, b) /\ NextRound(w)
      /\ UNCHANGED <<config, place, work, wblock, wof>>
  BY <1>1, <1>2 DEF SendOutput
<1>4. LinkTypes /\ WorkerLoops /\ MasterLoops
  BY DEF RInv
<1>5. /\ wpos[w] \in Nat \ {0} /\ wpos[w] <= Gathers /\ Gathers \in Nat /\ Readies \in Nat
      /\ Len(W.give) = Gathers
  BY <1>3, <1>4, Programs DEF WorkerLoops
<1>6. t \in UpTag \ {"READY"}
  <2>1. wpos[w] \in 1 .. Gathers
    BY <1>5
  <2> QED
    BY <1>1, <1>5, <2>1, ProgramTags
<1>7. /\ LinkTypes' /\ UNCHANGED <<sendCtr, recvCtr, wRecvCtr>>
      /\ \A v \in Worker : v # w => net'[v] = net[v] /\ wSendCtr'[v] = wSendCtr[v]
  BY <1>3, <1>4, <1>6, WorkerSends
<1>8. \/ /\ wpos[w] < Gathers /\ wpos' = [wpos EXCEPT ![w] = @ + 1]
         /\ UNCHANGED <<wpc, wrun, witer>>
      \/ /\ wpos[w] = Gathers /\ witer[w] < Iters
         /\ WorkerGoto(w, "take") /\ witer' = [witer EXCEPT ![w] = @ + 1] /\ UNCHANGED wrun
      \/ /\ wpos[w] = Gathers /\ ~(witer[w] < Iters)
         /\ WorkerGoto(w, IF wrun[w] < NumRuns THEN "take" ELSE "command")
         /\ wrun' = [wrun EXCEPT ![w] = IF @ < NumRuns THEN @ + 1 ELSE @]
         /\ witer' = [witer EXCEPT ![w] = 1]
  <2>1. wpos[w] < Gathers \/ (wpos[w] = Gathers /\ ~(wpos[w] < Gathers))
    BY <1>5
  <2> QED
    BY <1>3, <1>5, <2>1 DEF NextRound, NextInProgram
<1>9. wrun' \in [Worker -> Nat] /\ witer' \in [Worker -> Nat]
  <2>1. wrun \in [Worker -> Nat] /\ witer \in [Worker -> Nat] /\ wrun[w] \in Nat /\ witer[w] \in Nat
    BY <1>4 DEF WorkerLoops
  <2>2. CASE UNCHANGED <<wrun, witer>>
    BY <2>1, <2>2
  <2>3. CASE witer' = [witer EXCEPT ![w] = @ + 1] /\ UNCHANGED wrun
    BY <2>1, <2>3
  <2>4. CASE /\ wrun' = [wrun EXCEPT ![w] = IF @ < NumRuns THEN @ + 1 ELSE @]
             /\ witer' = [witer EXCEPT ![w] = 1]
    BY <2>1, <2>4
  <2> QED
    BY <1>8, <2>2, <2>3, <2>4
<1>10. DOMAIN wblock' = Worker /\ DOMAIN wof' = Worker /\ UNCHANGED workload
  BY <1>3, <1>4 DEF WorkerLoops, config
<1>11. WorkerLoops'
  <2>1. CASE wpos[w] < Gathers /\ wpos' = [wpos EXCEPT ![w] = @ + 1] /\ UNCHANGED wpc
    BY <1>3, <1>4, <1>9, <1>10, <2>1, LoopsNext
  <2>2. ASSUME NEW pc \in {"take", "command"}, WorkerGoto(w, pc) PROVE WorkerLoops'
    <3>1. pc \in WorkerPlaces
      BY <2>2 DEF WorkerPlaces
    <3> QED
      BY <1>4, <1>9, <1>10, <2>2, <3>1, LoopsMove
  <2> QED
    BY <1>8, <2>1, <2>2
<1>12. \A v \in Worker : v # w => /\ SameWorker(v) /\ SameDown(v) /\ SameUp(v) /\ net'[v] = net[v]
  <2>1. ASSUME NEW v \in Worker, v # w
        PROVE  wpc'[v] = wpc[v] /\ wpos'[v] = wpos[v] /\ wrun'[v] = wrun[v] /\ witer'[v] = witer[v]
    BY <1>4, <1>8, <2>1 DEF WorkerGoto, IInv, Types, WorkerLoops
  <2> QED
    BY <1>3, <1>7, <2>1 DEF SameWorker, SameDown, SameUp
<1>13. ASSUME mpc \in Covered PROVE Worked(w)'
  <2>1. Following(w) /\ Unanswered(w)
    BY <1>3, <1>13 DEF RInv, Worked, Lost, Stuck, Following, Answered
  <2>2. b.block = Block(w) /\ b.of = Round
    BY <1>2, <1>3, <2>1 DEF Unanswered, Msg
  <2>3. /\ UpFrames(w)' /\ DownFrames(w)' /\ Stored(w)'
        /\ SameRound /\ SameSent(w) /\ TakenUp(w)' = TakenUp(w) /\ SameDown(w)
        /\ wSendCtr'[w] = wSendCtr[w] + 1 /\ recvCtr'[w] = recvCtr[w]
    BY <1>3, <1>6, <1>13, <2>1, <2>2, OneAnswered
  <2>4. /\ Starts' = Starts /\ Readies' = Readies /\ Scatters' = Scatters /\ Gathers' = Gathers
        /\ Block(w)' = Block(w) /\ Round' = Round /\ run' = run /\ iter' = iter /\ Iters' = Iters
    BY <2>3, RoundKept DEF SameRound
  <2>5. Taken(w) = Starts + Scatters /\ Given(w) = Readies + (wpos[w] - 1)
    BY <1>3 DEF Taken, Given
  <2>6. /\ sendCtr'[w] + (Starts + Scatters) = wRecvCtr'[w] + SentDown(w)'
        /\ wSendCtr'[w] + TakenUp(w)' = recvCtr'[w] + (Readies + wpos[w])
    <3>1. /\ sendCtr[w] + (Starts + Scatters) = wRecvCtr[w] + SentDown(w)
          /\ wSendCtr[w] + TakenUp(w) = recvCtr[w] + (Readies + (wpos[w] - 1))
      BY <2>1, <2>5 DEF Unanswered, Balanced
    <3>2. wSendCtr[w] \in Nat /\ recvCtr[w] \in Nat /\ TakenUp(w) \in Nat
      BY <1>4, <1>13, CountTypes, Programs DEF LinkTypes
    <3>3. /\ sendCtr'[w] = sendCtr[w] /\ wRecvCtr'[w] = wRecvCtr[w] /\ SentDown(w)' = SentDown(w)
          /\ wSendCtr'[w] = wSendCtr[w] + 1 /\ recvCtr'[w] = recvCtr[w]
          /\ TakenUp(w)' = TakenUp(w)
      BY <2>3 DEF SameSent, SameDown
    <3>4. wpos[w] \in Nat /\ Readies \in Nat
      BY <1>5
    <3>5. wSendCtr'[w] + TakenUp(w)' = recvCtr'[w] + (Readies + wpos[w])
      BY ONLY <3>1, <3>2, <3>3, <3>4
    <3> QED
      BY <3>1, <3>3, <3>5
  <2>7. wblock'[w] = Block(w) /\ wof'[w] = Round /\ wrun[w] = run /\ witer[w] = iter
    BY <1>3, <2>1 DEF Unanswered
  <2>8. CASE wpos[w] < Gathers /\ wpos' = [wpos EXCEPT ![w] = @ + 1] /\ UNCHANGED <<wpc, wrun, witer>>
    <3>1. wpc'[w] = "give" /\ wpos'[w] = wpos[w] + 1 /\ wrun'[w] = run /\ witer'[w] = iter
      BY <1>3, <1>4, <2>7, <2>8 DEF WorkerLoops
    <3>2. Taken(w)' = Starts + Scatters /\ Given(w)' = Readies + ((wpos[w] + 1) - 1)
      BY <2>4, <3>1 DEF Taken, Given
    <3>3. Given(w)' = Readies + wpos[w]
      BY <1>5, <3>2
    <3>4. Balanced(w, Taken(w), Given(w))'
      BY <2>6, <3>2, <3>3 DEF Balanced
    <3>5. Unanswered(w)'
      BY <2>4, <2>7, <3>1, <3>4 DEF Unanswered
    <3> QED
      BY <2>3, <3>5 DEF Worked, Following
  <2>9. ASSUME wpos[w] = Gathers PROVE Balanced(w, Starts + Scatters, Readies + Gathers)'
    BY <2>4, <2>6, <2>9 DEF Balanced
  <2>10. CASE /\ wpos[w] = Gathers /\ witer[w] < Iters
              /\ WorkerGoto(w, "take") /\ witer' = [witer EXCEPT ![w] = @ + 1] /\ UNCHANGED wrun
    <3>1. wpc'[w] = "take" /\ wpos'[w] = 1 /\ wrun'[w] = run /\ witer'[w] = iter + 1 /\ iter < Iters
      BY <1>4, <2>7, <2>10 DEF WorkerGoto, IInv, Types, WorkerLoops
    <3>2. Answered(w)'
      BY <2>4, <2>7, <2>9, <2>10, <3>1 DEF Answered
    <3> QED
      BY <2>3, <3>2 DEF Worked, Following
  <2>11. CASE /\ wpos[w] = Gathers /\ ~(witer[w] < Iters)
              /\ WorkerGoto(w, IF wrun[w] < NumRuns THEN "take" ELSE "command")
              /\ wrun' = [wrun EXCEPT ![w] = IF @ < NumRuns THEN @ + 1 ELSE @]
              /\ witer' = [witer EXCEPT ![w] = 1]
    <3>1. ~(iter < Iters) /\ wpos'[w] = 1 /\ witer'[w] = 1
      BY <1>4, <2>7, <2>11 DEF WorkerGoto, IInv, Types, WorkerLoops
    <3>2. run < NumRuns => wpc'[w] = "take" /\ wrun'[w] = run + 1
      BY <1>4, <2>7, <2>11 DEF WorkerGoto, IInv, Types, WorkerLoops
    <3>3. ~(run < NumRuns) => wpc'[w] = "command"
      BY <1>4, <2>7, <2>11 DEF WorkerGoto, IInv, Types, WorkerLoops
    <3>4. Answered(w)'
      BY <2>4, <2>7, <2>9, <2>11, <3>1, <3>2, <3>3 DEF Answered
    <3> QED
      BY <2>3, <3>4 DEF Worked, Following
  <2> QED
    BY <1>8, <2>8, <2>10, <2>11
<1> QED
  BY <1>3, <1>7, <1>11, <1>12, <1>13, WorkerRounds
-----------------------------------------------------------------------------
(* Everything else *)

\* Nothing but the ciphertexts in flight may have changed.
LEMMA LinkOnly ==
    ASSUME IInv, RInv, UNCHANGED <<config, place, work, worker>>, LinkTypes',
           UNCHANGED <<sendCtr, recvCtr, wSendCtr, wRecvCtr>>,
           \A v \in Worker, s \in DownTag \cup UpTag : SameQueue(v, s)
    PROVE  RInv'
<1>1. SameRound /\ UNCHANGED <<workload, cgn, mpc, idx, pos, part, run, iter>>
  BY DEF SameRound, config, place, work
<1>2. WorkerLoops'
  BY <1>1, LoopsKept DEF RInv
<1>3. MasterLoops'
  <2>1. MasterLoops /\ M' = M /\ Starts' = Starts /\ Scatters' = Scatters /\ Gathers' = Gathers
        /\ Iters' = Iters
    BY <1>1, ProgramKept DEF RInv
  <2> QED
    BY <1>1, <2>1 DEF MasterLoops
<1>4. ASSUME mpc \in Covered, NEW v \in Worker PROVE Worked(v)'
  <2>1. Worked(v)
    BY <1>4 DEF RInv
  <2>2. SameSent(v) /\ TakenUp(v)' = TakenUp(v) /\ Stored(v)'
    BY <1>1, <2>1, CountsKept, StoredKept DEF Worked
  <2>3. SameWorker(v) /\ SameDown(v) /\ SameUp(v)
    BY AllSame DEF SameDown, SameUp
  <2> QED
    BY <1>1, <2>1, <2>2, <2>3, WorkedKept
<1> QED
  BY <1>1, <1>2, <1>3, <1>4 DEF RInv

LEMMA Untouched ==
    ASSUME IInv, RInv, UNCHANGED <<config, place, work, worker, link>> PROVE RInv'
<1>1. LinkTypes'
  BY LinkKept DEF RInv
<1>2. UNCHANGED <<net, sendCtr, recvCtr, wSendCtr, wRecvCtr>>
  BY DEF link
<1>3. \A v \in Worker, s \in DownTag \cup UpTag : SameQueue(v, s)
  BY <1>2, QueueSame
<1> QED
  BY <1>1, <1>2, <1>3, LinkOnly

LEMMA DamageRounds ==
    ASSUME IInv, RInv, NEW w \in Worker, NEW t \in DownTag \cup UpTag, Damage(w, t) PROVE RInv'
<1>1. DamageFrame(w, t) /\ UNCHANGED <<config, place, work, worker>>
  BY DEF Damage
<1>2. /\ LinkTypes' /\ UNCHANGED <<sendCtr, recvCtr, wSendCtr, wRecvCtr>>
      /\ \A v \in Worker, s \in DownTag \cup UpTag : SameQueue(v, s)
  BY <1>1, NetDamages DEF RInv, SameQueue
<1> QED
  BY <1>1, <1>2, LinkOnly

LEMMA WorkerGoesRounds ==
    ASSUME IInv, RInv, NEW w \in Worker, NEW pc \in {"disconnect", "exited"}, WorkerGoto(w, pc),
           UNCHANGED <<config, link, place, work, wrun, witer, wblock, wof>>
    PROVE  RInv'
<1>1. LinkTypes /\ WorkerLoops /\ LinkTypes'
  BY LinkKept DEF RInv
<1>2. UNCHANGED <<net, sendCtr, recvCtr, wSendCtr, wRecvCtr>>
  BY DEF link
<1>3. WorkerLoops' /\ wpc'[w] = pc
  <2>1. /\ wrun' \in [Worker -> Nat] /\ witer' \in [Worker -> Nat]
        /\ DOMAIN wblock' = Worker /\ DOMAIN wof' = Worker /\ UNCHANGED workload
        /\ pc \in WorkerPlaces
    BY <1>1 DEF WorkerLoops, config, WorkerPlaces
  <2> QED
    BY <1>1, <2>1, LoopsMove
<1>4. \A v \in Worker : v # w => /\ SameWorker(v) /\ SameDown(v) /\ SameUp(v) /\ net'[v] = net[v]
  <2>1. \A v \in Worker : v # w => wpc'[v] = wpc[v] /\ wpos'[v] = wpos[v]
    BY <1>1 DEF WorkerGoto, IInv, Types, WorkerLoops
  <2> QED
    BY <1>2, <2>1 DEF SameWorker, SameDown, SameUp
<1>5. ASSUME mpc \in Covered PROVE Worked(w)'
  <2>1. Worked(w) /\ SameRound /\ UNCHANGED <<mpc, idx, pos, part>>
    BY <1>5 DEF RInv, SameRound, config, place, work
  <2>2. TakenUp(w)' = TakenUp(w) /\ Stored(w)'
    BY <2>1, CountsKept, StoredKept DEF Worked
  <2>3. SameUp(w) /\ \A s \in UpTag : SameQueue(w, s)
    BY <1>2, QueueSame DEF SameUp
  <2>4. UpFrames(w)'
    BY <2>1, <2>2, <2>3, UpKept DEF Worked
  <2> QED
    BY <1>3, <2>2, <2>4, WorkerLeaves
<1> QED
  BY <1>1, <1>3, <1>4, <1>5, WorkerRounds

LEMMA WorkerEndsRounds ==
    ASSUME IInv, RInv, NEW w \in Worker,
           \/ WorkerDeadline(w) \/ MasterLost(w) \/ Kill(w) \/ WorkerOutOfMemory(w)
    PROVE  RInv'
<1>1. CASE WorkerDeadline(w)
  <2>1. WorkerGoto(w, "exited") /\ UNCHANGED <<config, link, place, work, wrun, witer, wblock, wof>>
    BY <1>1 DEF WorkerDeadline, WorkerExit
  <2> QED
    BY <2>1, WorkerGoesRounds
<1>2. CASE MasterLost(w)
  <2>1. WorkerGoto(w, "exited") /\ UNCHANGED <<config, link, place, work, wrun, witer, wblock, wof>>
    BY <1>2 DEF MasterLost, WorkerExit
  <2> QED
    BY <2>1, WorkerGoesRounds
<1>3. CASE Kill(w)
  <2>1. WorkerGoto(w, "exited") /\ UNCHANGED <<config, link, place, work, wrun, witer, wblock, wof>>
    BY <1>3 DEF Kill, WorkerExit
  <2> QED
    BY <2>1, WorkerGoesRounds
<1>4. CASE WorkerOutOfMemory(w)
  <2>1. \/ SendReady(w, FALSE)
        \/ /\ WorkerGoto(w, "disconnect") \/ WorkerGoto(w, "exited")
           /\ UNCHANGED <<config, link, place, work, wrun, witer, wblock, wof>>
    BY <1>4 DEF WorkerOutOfMemory, WorkerExit
  <2> QED
    BY <2>1, SendReadyRounds, WorkerGoesRounds
<1> QED
  BY <1>1, <1>2, <1>3, <1>4

LEMMA WorkerStepRounds ==
    ASSUME IInv, RInv, NEW w \in Worker, WorkerStep(w) PROVE RInv'
<1>1. CASE Ready(w)
  <2>1. SendReady(w, SetUpOk) /\ SetUpOk \in BOOLEAN
    BY <1>1 DEF Ready, SetUpOk
  <2>2. PICK ok \in BOOLEAN : ok = SetUpOk
    BY <2>1
  <2>3. SendReady(w, ok)
    BY <2>1, <2>2
  <2> QED
    BY <2>3, SendReadyRounds
<1> QED
  BY <1>1, ReceiveCommandRounds, ReceiveMatrixRounds, ReceiveInputRounds, SendOutputRounds
     DEF WorkerStep

LEMMA DisconnectRounds ==
    ASSUME IInv, RInv, NEW w \in Worker, Disconnect(w) PROVE RInv'
<1>1. /\ mpc = "disconnect" /\ NextSend(<<"DONE">>, "shutdown", "open") /\ WorkerGoto(w, "exited")
      /\ UNCHANGED <<config, link, work, wrun, witer, wblock, wof>>
  BY DEF Disconnect, WorkerExit
<1>2. mpc' \notin Covered
  BY <1>1 DEF NextSend, Covered, Running
<1>3. LinkTypes' /\ UNCHANGED <<workload, cgn, part, iter>>
  BY <1>1, LinkKept DEF RInv, config, work
<1>4. WorkerLoops'
  <2>1. WorkerLoops
    BY DEF RInv
  <2>2. /\ wrun' \in [Worker -> Nat] /\ witer' \in [Worker -> Nat]
        /\ DOMAIN wblock' = Worker /\ DOMAIN wof' = Worker /\ "exited" \in WorkerPlaces
    BY <1>1, <2>1 DEF WorkerLoops, WorkerPlaces
  <2> QED
    BY <1>1, <1>3, <2>1, <2>2, LoopsMove
<1> QED
  BY <1>2, <1>3, <1>4, UncoveredRounds

\* The master ends, or is past its sizes.
LEMMA MasterLeavesRounds ==
    ASSUME IInv, RInv, mpc' \notin Covered, LinkTypes', UNCHANGED <<config, part, iter, worker>>
    PROVE  RInv'
<1>1. UNCHANGED <<workload, cgn>>
  BY DEF config
<1>2. WorkerLoops'
  BY <1>1, LoopsKept DEF RInv
<1> QED
  BY <1>1, <1>2, UncoveredRounds

LEMMA MasterEndsRounds ==
    ASSUME IInv, RInv,
           \/ EndSizes \/ SendDone \/ Open \/ Write \/ Sync \/ Close \/ Rename \/ Finalize
           \/ MasterDeadline \/ FinalizeDeadline \/ PeerLost \/ KillMaster \/ PowerLoss
    PROVE  RInv'
<1>1. CASE SendDone
  <2>1. /\ MasterSend(idx, "CMD", Msg("done", NoBlock, 0, TRUE, 0, Never)) /\ mpc' = "disconnect"
        /\ UNCHANGED <<config, work, worker>>
    BY <1>1 DEF SendDone, MasterGoto
  <2>2. LinkTypes'
    <3>1. idx \in Worker /\ "CMD" \in DownTag /\ LinkTypes
      BY DEF RInv, IInv, Types, DownTag
    <3> QED
      BY <2>1, <3>1, MasterSends
  <2>3. mpc' \notin Covered /\ UNCHANGED <<part, iter>>
    BY <2>1 DEF Covered, Running, work
  <2> QED
    BY <2>1, <2>2, <2>3, MasterLeavesRounds
<1>2. CASE PowerLoss /\ mpc = "exited"
  <2>1. UNCHANGED <<config, link, work, worker, place>>
    BY <1>2 DEF PowerLoss, MasterGone
  <2> QED
    BY <2>1, Untouched
<1>3. CASE \/ EndSizes \/ Open \/ Write \/ Sync \/ Close \/ Rename \/ Finalize
           \/ MasterDeadline \/ FinalizeDeadline \/ PeerLost \/ KillMaster
           \/ (PowerLoss /\ mpc # "exited")
  <2>1. UNCHANGED <<config, link, work, worker>>
    BY <1>3 DEF EndSizes, Open, Write, Sync, Close, Rename, Finalize, MasterDeadline,
                FinalizeDeadline, PeerLost, KillMaster, PowerLoss
  <2>2. mpc' \in {"shutdown", "write", "finalize", "sync", "close", "rename", "exited"}
    BY <1>3 DEF EndSizes, Open, Write, Sync, Close, Rename, Finalize, MasterDeadline,
                FinalizeDeadline, PeerLost, KillMaster, PowerLoss, MasterGoto, MasterExit, MasterGone
  <2>3. LinkTypes' /\ mpc' \notin Covered /\ UNCHANGED <<part, iter>>
    BY <2>1, <2>2, LinkKept DEF RInv, Covered, Running, work
  <2> QED
    BY <2>1, <2>3, MasterLeavesRounds
<1> QED
  BY <1>1, <1>2, <1>3

LEMMA RecordRunRounds ==
    ASSUME IInv, RInv, RecordRun PROVE RInv'
<1>1. /\ mpc = "round" /\ iter = Iters
      /\ UNCHANGED <<config, link, part, worker>> /\ UNCHANGED <<workload, cgn>>
  BY DEF RecordRun, config
<1>2. CASE MasterExit(1) /\ UNCHANGED <<size, run, iter, records>>
  <2>1. mpc' = "exited" /\ LinkTypes'
    BY <1>1, <1>2, LinkKept DEF MasterExit, RInv
  <2> QED
    BY <1>1, <1>2, <2>1, MasterLeavesRounds DEF Covered, Running
<1>3. CASE iter' = 1 /\ run < NumRuns /\ run' = run + 1 /\ UNCHANGED size /\ MasterGoto("scatter")
  BY <1>1, <1>3, NewRound DEF MasterGoto
<1>4. CASE iter' = 1 /\ ~(run < NumRuns) /\ run' = 1 /\ size' = size + 1 /\ MasterGoto("size")
  <2>1. run = NumRuns
    BY <1>4 DEF IInv, Types
  <2> QED
    BY <1>1, <1>4, <2>1, NewSize DEF MasterGoto
<1> QED
  BY <1>2, <1>3, <1>4 DEF RecordRun

LEMMA MasterStepRounds ==
    ASSUME IInv, RInv, MasterStep PROVE RInv'
<1>1. CASE SkipSize
  <2>1. run = 1 /\ iter = 1 /\ mpc = "size"
    BY <1>1 DEF SkipSize, IInv, Sizing, RInv, MasterLoops
  <2>2. UNCHANGED <<workload, cgn, link, mpc, idx, pos, run, iter, part, worker>>
    BY <1>1 DEF SkipSize, NextSize, config, place
  <2> QED
    BY <2>1, <2>2, NewSize
<1>2. CASE ReceiveReady /\ mpc' = "exited"
  <2>1. MasterTake(idx, "READY") /\ Arrived(idx, "READY") /\ UNCHANGED <<config, work, worker>>
    BY <1>2 DEF ReceiveReady
  <2>2. LinkTypes'
    <3>1. idx \in Worker /\ "READY" \in UpTag /\ LinkTypes
      BY DEF RInv, IInv, Types, UpTag
    <3> QED
      BY <2>1, <3>1, MasterTakes
  <2> QED
    BY <1>2, <2>1, <2>2, MasterLeavesRounds DEF Covered, Running, work
<1>3. CASE Gather /\ mpc' = "exited"
  <2>1. PICK t : t = M.gather[pos]
    OBVIOUS
  <2>2. /\ mpc = "gather" /\ MasterTake(idx, t) /\ Arrived(idx, t)
        /\ UNCHANGED <<config, iter, worker, part>>
    BY <1>3, <2>1 DEF Gather, NextSend
  <2>3. LinkTypes'
    <3>1. idx \in Worker /\ LinkTypes /\ pos \in 1 .. Gathers
      BY <2>2, Programs DEF RInv, IInv, Types, MasterLoops
    <3>2. t \in UpTag
      BY <2>1, <3>1, ProgramTags
    <3> QED
      BY <2>2, <3>1, <3>2, MasterTakes
  <2> QED
    BY <1>3, <2>2, <2>3, MasterLeavesRounds DEF Covered, Running
<1>4. CASE NextIter
  <2>1. /\ mpc = "round" /\ mpc' = "scatter" /\ iter < Iters /\ iter' = iter + 1
        /\ UNCHANGED <<workload, cgn, link, idx, pos, size, run, part, worker>>
    BY <1>4 DEF NextIter, MasterGoto, config
  <2> QED
    BY <2>1, NewRound
<1> QED
  BY <1>1, <1>2, <1>3, <1>4, StartSizeRounds, SendStartRounds, ReceiveReadyRounds, ScatterRounds,
     GatherRounds, RecordRunRounds, MasterEndsRounds DEF MasterStep

LEMMA OutOfMemoryRounds ==
    ASSUME IInv, RInv, MasterOutOfMemory PROVE RInv'
<1>1. UNCHANGED <<config, link, worker>> /\ UNCHANGED <<workload, cgn>>
  BY DEF MasterOutOfMemory, config
<1>2. CASE mpc = "size" /\ NextSize /\ UNCHANGED place
  <2>1. run = 1 /\ iter = 1
    BY <1>2 DEF IInv, Sizing, RInv, MasterLoops
  <2> QED
    BY <1>1, <1>2, <2>1, NewSize DEF NextSize, place
<1>3. CASE MasterExit(1) /\ UNCHANGED work
  <2>1. mpc' \notin Covered /\ UNCHANGED <<part, iter>> /\ LinkTypes'
    BY <1>1, <1>3, LinkKept DEF MasterExit, Covered, Running, work, RInv
  <2> QED
    BY <1>1, <2>1, MasterLeavesRounds
<1> QED
  BY <1>2, <1>3 DEF MasterOutOfMemory
-----------------------------------------------------------------------------
(* The invariant *)

LEMMA InitRounds ==
    ASSUME Init PROVE RInv
<1>1. /\ LinkInit /\ mpc = "size" /\ idx = 0 /\ pos = 1 /\ run = 1 /\ iter = 1
      /\ cgn \in CgN /\ DOMAIN part = MaxEntries
      /\ wpc = [w \in Worker |-> "command"] /\ wpos = [w \in Worker |-> 1]
      /\ wrun = [w \in Worker |-> 1] /\ witer = [w \in Worker |-> 1]
      /\ DOMAIN wblock = Worker /\ DOMAIN wof = Worker
  BY DEF Init
<1>2. /\ DOMAIN net = Worker
      /\ \A w \in Worker : DOMAIN net[w] = DownTag \cup UpTag
      /\ \A w \in Worker, t \in DownTag \cup UpTag : net[w][t] = <<>>
      /\ sendCtr = [w \in Worker |-> 0] /\ recvCtr = [w \in Worker |-> 0]
      /\ wSendCtr = [w \in Worker |-> 0] /\ wRecvCtr = [w \in Worker |-> 0]
  BY <1>1 DEF LinkInit
<1>3. LinkTypes
  <2>1. \A w \in Worker, t \in DownTag \cup UpTag : IsQueue(net[w][t])
    BY <1>2, QueueEmpty
  <2> QED
    BY <1>2, <2>1 DEF LinkTypes
<1>4. WorkerLoops
  BY <1>1 DEF WorkerLoops
<1>5. MasterLoops
  <2>1. iter \in 1 .. Iters
    BY <1>1 DEF Iters
  <2> QED
    BY <1>1, <2>1 DEF MasterLoops
<1>6. ASSUME NEW w \in Worker PROVE Worked(w)
  <2>1. /\ sendCtr[w] = 0 /\ recvCtr[w] = 0 /\ wSendCtr[w] = 0 /\ wRecvCtr[w] = 0
        /\ wpc[w] = "command"
    BY <1>1, <1>2
  <2>2. \A t \in DownTag \cup UpTag, i \in Nat : i \notin 1 .. Len(net[w][t])
    <3>1. \A t \in DownTag \cup UpTag : Len(net[w][t]) = 0
      BY <1>2, QueueEmpty
    <3> QED
      BY <3>1
  <2>3. "CMD" \in DownTag /\ Len(net[w]["CMD"]) = 0
    BY <1>2, QueueEmpty DEF DownTag
  <2>4. SentDown(w) = 0 /\ TakenUp(w) = 0 /\ Taken(w) = 0 /\ Given(w) = 0
    BY <1>1, <2>1 DEF SentDown, TakenUp, Taken, Given
  <2>5. Unanswered(w)
    BY <1>1, <2>1, <2>4 DEF Unanswered, Balanced
  <2>6. DownFrames(w)
    BY <2>1, <2>2, <2>3 DEF DownFrames, EpQueue
  <2>7. UpFrames(w)
    BY <1>1, <2>1, <2>2 DEF UpFrames
  <2>8. Stored(w)
    BY <1>1 DEF Stored, Collected
  <2> QED
    BY <2>5, <2>6, <2>7, <2>8 DEF Worked, Following
<1> QED
  BY <1>3, <1>4, <1>5, <1>6 DEF RInv

LEMMA NextRounds ==
    ASSUME IInv, RInv, [Next]_vars PROVE RInv'
<1>1. CASE MasterStep
  BY <1>1, MasterStepRounds
<1>2. CASE MasterDeadline \/ PeerLost \/ FinalizeDeadline \/ KillMaster \/ PowerLoss
  BY <1>2, MasterEndsRounds
<1>3. CASE MasterOutOfMemory
  BY <1>3, OutOfMemoryRounds
<1>4. ASSUME NEW w \in Worker, WorkerStep(w) PROVE RInv'
  BY <1>4, WorkerStepRounds
<1>5. ASSUME NEW w \in Worker, Disconnect(w) PROVE RInv'
  BY <1>5, DisconnectRounds
<1>6. ASSUME NEW w \in Worker,
             WorkerDeadline(w) \/ MasterLost(w) \/ Kill(w) \/ WorkerOutOfMemory(w)
      PROVE  RInv'
  BY <1>6, WorkerEndsRounds
<1>7. ASSUME NEW w \in Worker, NEW t \in DownTag \cup UpTag, Damage(w, t) PROVE RInv'
  BY <1>7, DamageRounds
<1>8. CASE Finished \/ UNCHANGED vars
  <2>1. UNCHANGED <<config, place, work, worker, link>>
    BY <1>8 DEF Finished, vars
  <2> QED
    BY <2>1, Untouched
<1>9. MasterStep \/ MasterDeadline \/ (\E w \in Worker : WorkerStep(w) \/ Disconnect(w) \/ WorkerDeadline(w))
      \/ FaultStep \/ Finished \/ UNCHANGED vars
  BY DEF Next
<1>10. CASE \E w \in Worker : WorkerStep(w) \/ Disconnect(w) \/ WorkerDeadline(w)
  BY <1>4, <1>5, <1>6, <1>10
<1>11. CASE FaultStep
  BY <1>2, <1>3, <1>6, <1>7, <1>11 DEF FaultStep
<1> QED
  BY <1>1, <1>2, <1>8, <1>9, <1>10, <1>11

LEMMA RoundsInvariant ==
    ASSUME IInv, RInv PROVE RoundsDoNotMix
<1> SUFFICES ASSUME mpc = "round", NEW e \in Entries PROVE part[e] = [row |-> e, of |-> Round]
  BY DEF RoundsDoNotMix
<1>1. MasterLoops /\ mpc \in Running /\ mpc \in Covered
  BY DEF RInv, Running, Covered
<1>2. e \in MaxEntries /\ \E w \in Worker : InBlock(Block(w), e)
  BY <1>1, BlockFacts
<1>3. PICK w \in Worker : InBlock(Block(w), e)
  BY <1>2
<1>4. Stored(w)
  BY <1>1 DEF RInv, Worked
<1> QED
  BY <1>2, <1>3, <1>4 DEF Stored, Collected

\* Scatter, compute and gather: when a gather is complete, every row of y and
\* of C and every worker's result was computed in this very round and from its
\* own share of the data.  Whatever is damaged, late, killed or out of memory,
\* with any number of workers, runs, iterations, rows and sizes, no message
\* of an earlier round and no entry of an earlier gather takes its place.
THEOREM RoundsNeverMix == Spec => []RoundsDoNotMix
<1>1. Init => IInv /\ RInv
  BY InitInvariant, InitRounds
<1>2. IInv /\ RInv /\ [Next]_vars => (IInv /\ RInv)'
  BY NextInvariant, NextRounds
<1>3. IInv /\ RInv => RoundsDoNotMix
  BY RoundsInvariant
<1> QED
  BY <1>1, <1>2, <1>3, PTL DEF Spec
=============================================================================
