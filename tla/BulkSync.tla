------------------------------ MODULE BulkSync -------------------------------
(***************************************************************************)
(* The bulk-synchronous workloads from the moment every worker is enrolled *)
(* to the exit of the last process: start commands, READY, rounds of       *)
(* scatter, compute and gather, shutdown, and the result file.             *)
(*                                                                         *)
(* The programs of a workload are in Workloads, the link in AeadLink, the  *)
(* file in ResultFile.  All messages are encrypted, as in every build but  *)
(* the SKIP_ATTESTATION baseline.  Nothing resets y, C or the results of a *)
(* round before the next one: a part that does not come leaves the old one.*)
(*                                                                         *)
(* A definition X_Y is X with the bug Y put in; the specification does not *)
(* use it.                                                                 *)
(***************************************************************************)
EXTENDS Workloads, FiniteSets

CONSTANTS
    CgN,          \* the values of cg_n to try
    ChaseLen,     \* element_count of RANDOM
    MaxResults,   \* MAX_RESULTS
    Fault,        \* kinds of faults the environment may inject
    MaxFaults     \* bound on their number

ASSUME BulkSyncAssumption ==
    /\ CgN \subseteq Nat \ {0} /\ ChaseLen \in Nat \ {0}
    /\ MaxResults \in Nat /\ MaxResults >= NumRuns
    /\ MaxResults >= NumRuns * Cardinality({i \in DOMAIN Sizes : ~DgemmSkips(Sizes[i])})
    /\ Fault \subseteq {"damage", "kill", "memory", "io", "power"}
    /\ MaxFaults \in Nat

VARIABLES net, sendCtr, recvCtr, wSendCtr, wRecvCtr    \* see AeadLink

INSTANCE AeadLink WITH PlainTag <- {}, Synchronous <- TRUE

VARIABLES tmp, csv, oldcsv                             \* see ResultFile

INSTANCE ResultFile

VARIABLES
    workload,  \* workload (all six kinds, also the program of DGEMM)
    synchronous,  \* MPI_Send returns only when the message is received
    timely,    \* as long as nothing fails, peers answer within the deadline
    cgn,       \* cg_n
    order,     \* order of RANDOM, which every worker computes alike
    verify,    \* --verify of DGEMM
    mpc,       \* where the master is
    idx,       \* its loop variable "w"
    pos,       \* the send or receive of the loop body it is at
    size,      \* si: DGEMM runs through its sizes, the others have one
    run,       \* run
    iter,      \* iter of CG
    part,      \* y, C, or the workers' results: where each entry is from
    token,     \* expected_token of RANDOM
    records,   \* g_results
    skipped,   \* sizes of DGEMM that were left out (history)
    ioerr,     \* output_error
    mcode,     \* exit code of the master
    wpc,       \* where each worker is
    wpos,      \* the send or receive of its program it is at
    wrun, witer,     \* its loop variables
    wblock,    \* the rows it works on
    wof,       \* the round its input was sent in (history)
    wcode,     \* exit code of each worker
    faults,    \* faults injected so far
    outage     \* the power was lost (history)

config == <<workload, synchronous, timely, cgn, order, verify>>
link   == <<net, sendCtr, recvCtr, wSendCtr, wRecvCtr>>
place  == <<mpc, idx, pos>>
files  == <<tmp, csv, oldcsv>>
work   == <<size, run, iter, part, token, records, skipped>>
output == <<ioerr, tmp, csv, oldcsv>>
worker == <<wpc, wpos, wrun, witer, wblock, wof, wcode>>
env    == <<faults, outage>>
vars   == <<config, link, place, work, output, mcode, worker, env>>

\* MPI_Send of the master, or of worker w, has returned.
MasterReturned    == synchronous => MasterFree
WorkerReturned(w) == synchronous => WorkerFree(w)

M == MasterProgram[workload]
W == WorkerProgram[workload]

NumSizes == IF workload = "DGEMM" THEN Len(Sizes) ELSE 1
Iters    == IF workload = "CG" THEN CgIters ELSE 1

\* Entries of the gathered result, and the block of each worker: rows for
\* CG and DGEMM, one result per worker otherwise.
Entries == CASE workload = "CG" -> 0 .. cgn - 1
             [] workload = "DGEMM" -> 0 .. Sizes[size] - 1
             [] OTHER -> Worker

Block(w) == CASE workload = "CG" -> CgBlock(cgn, w)
              [] workload = "DGEMM" -> DgemmBlock(Sizes[size], w)
              [] OTHER -> [first |-> w, count |-> 1]

\* Fields of the messages that a receiver looks at, and (history) the round
\* the message belongs to.
Msg(is, block, r, ok, t, of) ==
    [is |-> is, block |-> block, run |-> r, ok |-> ok, token |-> t, of |-> of]

NoBlock == [first |-> 0, count |-> 0]
Round   == <<size, run, iter>>
Never   == <<0, 0, 0>>
NoPart  == [row |-> 0, of |-> Never]

\* y and C are as long as the largest of them, a workload uses the first Entries.
MaxEntries == UNION ({Worker} \cup {0 .. n - 1 : n \in CgN}
                              \cup {0 .. Sizes[i] - 1 : i \in DOMAIN Sizes})

Init ==
    /\ workload \in Workload /\ synchronous \in BOOLEAN /\ timely \in BOOLEAN
    /\ cgn \in CgN /\ order \in Orders(ChaseLen)
    /\ workload # "CG" => cgn = CHOOSE n \in CgN : TRUE
    /\ workload # "RANDOM" => order = [i \in 0 .. ChaseLen - 1 |-> i]
    /\ verify \in BOOLEAN /\ (workload # "DGEMM" => ~verify)
    /\ LinkInit /\ FilesInit
    /\ mpc = "size" /\ idx = 0 /\ pos = 1 /\ size = 1 /\ run = 1 /\ iter = 1
    /\ part = [e \in MaxEntries |-> NoPart] /\ token = 0
    /\ records = <<>> /\ skipped = {} /\ ioerr = FALSE /\ mcode = 0
    /\ wpc = [w \in Worker |-> "command"] /\ wpos = [w \in Worker |-> 1]
    /\ wrun = [w \in Worker |-> 1] /\ witer = [w \in Worker |-> 1]
    /\ wblock = [w \in Worker |-> NoBlock] /\ wof = [w \in Worker |-> Never]
    /\ wcode = [w \in Worker |-> 0]
    /\ faults = 0 /\ outage = FALSE
-----------------------------------------------------------------------------
(* The master *)

\* The next statement of a loop body, the next worker, or what follows.
NextSend(seq, here, after) ==
    \/ pos < Len(seq) /\ pos' = pos + 1 /\ UNCHANGED <<idx, mpc>>
    \/ pos = Len(seq) /\ idx + 1 < N /\ pos' = 1 /\ idx' = idx + 1 /\ mpc' = here
    \/ pos = Len(seq) /\ idx + 1 = N /\ pos' = 1 /\ idx' = 0 /\ mpc' = after

MasterGoto(pc)   == mpc' = pc /\ UNCHANGED <<idx, pos, mcode>>
MasterExit(code) == mpc' = "exited" /\ mcode' = code /\ UNCHANGED <<idx, pos>>

NextSize == size' = size + 1 /\ UNCHANGED <<run, iter, part, token, records>>

\* "for si": DGEMM leaves out sizes that it cannot divide evenly.
SkipSize ==
    /\ mpc = "size" /\ size <= NumSizes
    /\ workload = "DGEMM" /\ DgemmSkips(Sizes[size])
    /\ NextSize /\ skipped' = skipped \cup {size}
    /\ UNCHANGED <<config, link, place, output, mcode, worker, env>>

StartSize ==
    /\ mpc = "size" /\ size <= NumSizes
    /\ workload = "DGEMM" => ~DgemmSkips(Sizes[size])
    /\ MasterGoto("start") /\ run' = 1 /\ iter' = 1
    /\ UNCHANGED <<config, link, size, part, token, records, skipped, output,
                   worker, env>>

EndSizes ==
    /\ mpc = "size" /\ size > NumSizes
    /\ MasterGoto("shutdown")
    /\ UNCHANGED <<config, link, work, output, worker, env>>

\* The start command, for CG followed by three messages with the matrix rows.
SendStart ==
    /\ mpc = "start" /\ MasterReturned
    /\ MasterSend(idx, M.start[pos], Msg("start", Block(idx), 0, TRUE, 0, Never))
    /\ NextSend(M.start, "start", IF M.ready THEN "ready" ELSE "scatter")
    /\ UNCHANGED <<config, work, output, mcode, worker, env>>

\* wait_for_workload_ready.
ReceiveReady ==
    /\ mpc = "ready" /\ MasterReturned /\ Arrived(idx, "READY")
    /\ MasterTake(idx, "READY")
    /\ IF MasterOpens(idx, "READY") /\ Got(idx, "READY").ok
       THEN NextSend(<<"READY">>, "ready", "scatter") /\ UNCHANGED mcode
       ELSE MasterExit(1)
    /\ UNCHANGED <<config, work, output, worker, env>>

\* Seed, x, trigger, input, or A block and B.
ScatterMsg(t) ==
    IF workload = "EP"
    THEN Msg("seed", NoBlock, 0, TRUE, EpSeed(run, idx), Round)
    ELSE Msg("data", Block(idx), IF t = "RUN" THEN run ELSE 0, TRUE, 0, Round)

Scatter ==
    /\ mpc = "scatter" /\ MasterReturned
    /\ MasterSend(idx, M.scatter[pos], ScatterMsg(M.scatter[pos]))
    /\ NextSend(M.scatter, "scatter", "gather")
    /\ UNCHANGED <<config, work, output, mcode, worker, env>>

\* A bulk message has the length of the block; a result names the run and
\* is verified; the tokens of RANDOM agree with the one of worker 0.
Accepts(t, b) ==
    /\ t \in {"Y", "C"} => b.block.count = Block(idx).count
    /\ t = "RESULT" => b.run = run /\ b.ok
    /\ t = "RESULT" /\ workload = "RANDOM" /\ idx > 0 => b.token = token

\* What the message brings is stored at the block of the worker.
Store(t, b) ==
    LET mine == Block(idx)
    IN  [e \in MaxEntries |->
            IF t # "TIME" /\ e \in mine.first .. mine.first + mine.count - 1
            THEN [row |-> b.block.first + (e - mine.first), of |-> b.of]
            ELSE part[e]]

Gather ==
    LET t == M.gather[pos]
        b == Got(idx, t)
    IN  /\ mpc = "gather" /\ MasterReturned /\ Arrived(idx, t)
        /\ MasterTake(idx, t)
        /\ IF MasterOpens(idx, t) /\ Accepts(t, b)
           THEN /\ NextSend(M.gather, "gather", "round")
                /\ part' = Store(t, b)
                /\ token' = IF workload = "RANDOM" /\ idx = 0 THEN b.token ELSE token
                /\ UNCHANGED mcode
           ELSE MasterExit(1) /\ UNCHANGED <<part, token>>
        /\ UNCHANGED <<config, size, run, iter, records, skipped, output, worker, env>>

\* CG: x = y / ||y||, and the next iteration of the run.
NextIter ==
    /\ mpc = "round" /\ iter < Iters
    /\ iter' = iter + 1 /\ MasterGoto("scatter")
    /\ UNCHANGED <<config, link, size, run, part, token, records, skipped, output,
                   worker, env>>

\* verify_row: after the last run of a size, one row of every block.
DgemmVerified ==
    verify /\ run = NumRuns => \A w \in Worker :
        LET row == Block(w).first + (Block(w).count \div 2)
        IN  part[row].row = row /\ part[row].of[1] = size

ResultFits == Len(records) < MaxResults

\* record_generic_result aborts when the table is full; EP, CG and DGEMM
\* leave the result out.
RecordRun ==
    /\ mpc = "round" /\ iter = Iters
    /\ \/ /\ \/ workload \in {"STREAM", "RANDOM", "VMAP"} /\ ~ResultFits
             \/ workload = "DGEMM" /\ ~DgemmVerified
          /\ MasterExit(1) /\ UNCHANGED <<size, run, iter, records>>
       \/ /\ workload \in {"STREAM", "RANDOM", "VMAP"} => ResultFits
          /\ workload = "DGEMM" => DgemmVerified
          /\ records' = IF ResultFits THEN Append(records, <<size, run>>) ELSE records
          /\ IF run < NumRuns
             THEN run' = run + 1 /\ UNCHANGED size /\ MasterGoto("scatter")
             ELSE run' = 1 /\ size' = size + 1 /\ MasterGoto("size")
          /\ iter' = 1
    /\ UNCHANGED <<config, link, part, token, skipped, output, worker, env>>

SendDone ==
    /\ mpc = "shutdown" /\ MasterReturned
    /\ MasterSend(idx, "CMD", Msg("done", NoBlock, 0, TRUE, 0, Never))
    /\ MasterGoto("disconnect")
    /\ UNCHANGED <<config, work, output, worker, env>>
-----------------------------------------------------------------------------
(* The result file *)

\* An operation on the file fails (external: the file system).
Fails == "io" \in Fault /\ faults < MaxFaults /\ faults' = faults + 1
Works == UNCHANGED faults

Open ==
    /\ mpc = "open"
    /\ \/ Works /\ OpenTmp /\ mpc' = "write"
       \/ Fails /\ UNCHANGED files /\ mpc' = "finalize"
    /\ UNCHANGED <<config, link, idx, pos, work, ioerr, mcode, worker, outage>>

Write ==
    /\ mpc = "write" /\ mpc' = "sync"
    /\ \/ Works /\ WriteTmp(records, TRUE) /\ UNCHANGED ioerr
       \/ Fails /\ WriteTmp(records, FALSE) /\ ioerr' = TRUE
    /\ UNCHANGED <<config, link, idx, pos, work, mcode, worker, outage>>

Sync ==
    /\ mpc = "sync" /\ mpc' = "close"
    /\ \/ ioerr /\ Works /\ UNCHANGED <<files, ioerr>>
       \/ ~ioerr /\ Works /\ SyncTmp /\ UNCHANGED ioerr
       \/ ~ioerr /\ Fails /\ UNCHANGED files /\ ioerr' = TRUE
    /\ UNCHANGED <<config, link, idx, pos, work, mcode, worker, outage>>

Close ==
    /\ mpc = "close" /\ mpc' = "rename"
    /\ \/ Works /\ UNCHANGED ioerr
       \/ Fails /\ ioerr' = TRUE
    /\ UNCHANGED <<config, link, idx, pos, work, files, mcode, worker, outage>>

\* Rename, or remove the temporary file.
Rename ==
    /\ mpc = "rename" /\ mpc' = "finalize"
    /\ \/ ~ioerr /\ Works /\ RenameTmp
       \/ ~ioerr /\ Fails /\ RemoveTmp
       \/ ioerr /\ Works /\ RemoveTmp
    /\ UNCHANGED <<config, link, idx, pos, work, ioerr, mcode, worker, outage>>

ReturnCode_Always == 0

\* return output_ok ? 0 : 1.
ReturnCode == IF csv.new THEN 0 ELSE 1

Finalize ==
    /\ mpc = "finalize" /\ MasterExit(ReturnCode)
    /\ UNCHANGED <<config, link, work, output, worker, env>>
-----------------------------------------------------------------------------
(* A worker *)

WorkerGoto(w, pc) ==
    /\ wpc' = [wpc EXCEPT ![w] = pc] /\ wpos' = [wpos EXCEPT ![w] = 1]

WorkerExit(w, code) ==
    /\ WorkerGoto(w, "exited") /\ wcode' = [wcode EXCEPT ![w] = code]

\* A receive failed: EP only leaves its loop over the runs.
WorkerFails(w) ==
    IF W.failed = "abort" THEN WorkerExit(w, 1)
    ELSE WorkerGoto(w, W.failed) /\ UNCHANGED wcode

\* The next send or receive of a sequence, or what follows.
NextInProgram(w, seq, after) ==
    IF wpos[w] < Len(seq)
    THEN wpos' = [wpos EXCEPT ![w] = @ + 1] /\ UNCHANGED wpc
    ELSE WorkerGoto(w, after)

AfterCommand == IF W.start # <<>> THEN "start" ELSE IF W.ready THEN "ready" ELSE "take"

\* npb_recv_exact: a message of another length than expected ends the
\* worker.  A seed is not as long as a command, rows have announced lengths.
RightLength(w, t, b) ==
    /\ t = "CMD" => (b.is = "seed" <=> wpc[w] = "take")
    /\ t \in {"MATRIX", "A"} => b.block.count = wblock[w].count

\* The command loop.  DGEMM refuses an empty block.
ReceiveCommand(w) ==
    LET b == Got(w, "CMD")
        start == /\ WorkerOpens(w, "CMD") /\ b.is = "start"
                 /\ workload = "DGEMM" => b.block.count > 0
    IN  /\ wpc[w] = "command" /\ WorkerReturned(w) /\ Arrived(w, "CMD")
        /\ WorkerTake(w, "CMD")
        /\ IF RightLength(w, "CMD", b)
           THEN /\ WorkerGoto(w, IF start THEN AfterCommand ELSE "disconnect")
                /\ wrun' = [wrun EXCEPT ![w] = 1] /\ witer' = [witer EXCEPT ![w] = 1]
                /\ wblock' = [wblock EXCEPT ![w] = IF start THEN b.block ELSE @]
                /\ UNCHANGED wcode
           ELSE WorkerExit(w, 1) /\ UNCHANGED <<wrun, witer, wblock>>
        /\ UNCHANGED <<config, place, work, output, mcode, wof, env>>

\* The trigger names the run.
WorkerAccepts(w, t, b) == t = "RUN" => b.run = wrun[w]

\* What the worker works on next: its rows, or what the seed stands for.
Input(w, t, b) ==
    CASE t = "CMD" -> [block |-> [first |-> EpOfSeed(b.token).worker, count |-> 1],
                       of |-> <<1, EpOfSeed(b.token).run, 1>>]
      [] t \in {"MATRIX", "A"} -> [block |-> b.block, of |-> b.of]
      [] OTHER -> [block |-> wblock[w], of |-> b.of]

Receive(w, here, seq, after) ==
    LET t == seq[wpos[w]]
        b == Got(w, t)
    IN  /\ wpc[w] = here /\ WorkerReturned(w) /\ Arrived(w, t)
        /\ WorkerTake(w, t)
        /\ IF ~RightLength(w, t, b)
           THEN WorkerExit(w, 1) /\ UNCHANGED <<wblock, wof>>
           ELSE IF WorkerOpens(w, t) /\ WorkerAccepts(w, t, b)
           THEN /\ NextInProgram(w, seq, after)
                /\ wblock' = [wblock EXCEPT ![w] = Input(w, t, b).block]
                /\ wof' = [wof EXCEPT ![w] = Input(w, t, b).of]
                /\ UNCHANGED wcode
           ELSE WorkerFails(w) /\ UNCHANGED <<wblock, wof>>
        /\ UNCHANGED <<config, place, work, output, mcode, wrun, witer, env>>

\* The matrix of CG.
ReceiveMatrix(w) == Receive(w, "start", W.start, "take")

\* The input of a round.
ReceiveInput(w) == Receive(w, "take", W.take, "give")

\* RANDOM compares the warm-up with the order before it says READY.
SetUpOk == workload = "RANDOM" =>
              ChaseToken(order, ChaseLen, Warmup) = ExpectedWarmToken(order, ChaseLen)

\* send_workload_ready; a worker that is not ready leaves the command loop.
SendReady(w, ok) ==
    /\ wpc[w] = "ready" /\ WorkerReturned(w)
    /\ WorkerSend(w, "READY", Msg("ready", NoBlock, 0, ok, 0, Never))
    /\ WorkerGoto(w, IF ok THEN "take" ELSE "disconnect")
    /\ UNCHANGED <<config, place, work, output, mcode, wrun, witer, wblock, wof, wcode>>

Ready(w) == SendReady(w, SetUpOk) /\ UNCHANGED env

FinalToken == IF workload = "RANDOM" THEN ChaseToken(order, ChaseLen, Warmup + Accesses)
              ELSE 0

Verified == workload = "RANDOM" => FinalToken = ExpectedFinalToken(order, ChaseLen)

\* The next send of the round, iteration, run, or the command loop again.
NextRound(w) ==
    IF wpos[w] < Len(W.give) THEN NextInProgram(w, W.give, "take") /\ UNCHANGED <<wrun, witer>>
    ELSE IF witer[w] < Iters
    THEN WorkerGoto(w, "take") /\ witer' = [witer EXCEPT ![w] = @ + 1] /\ UNCHANGED wrun
    ELSE /\ WorkerGoto(w, IF wrun[w] < NumRuns THEN "take" ELSE "command")
         /\ wrun' = [wrun EXCEPT ![w] = IF @ < NumRuns THEN @ + 1 ELSE @]
         /\ witer' = [witer EXCEPT ![w] = 1]

\* The results of a round, computed from the input received last.
SendOutput(w) ==
    /\ wpc[w] = "give" /\ WorkerReturned(w)
    /\ WorkerSend(w, W.give[wpos[w]],
                  Msg("result", wblock[w], wrun[w], Verified, FinalToken, wof[w]))
    /\ NextRound(w)
    /\ UNCHANGED <<config, place, work, output, mcode, wblock, wof, wcode, env>>

\* MPI_Comm_disconnect is collective; the worker then exits with 0 and the
\* master goes to the next worker, or to the output.
Disconnect(w) ==
    /\ mpc = "disconnect" /\ idx = w /\ MasterReturned
    /\ wpc[w] = "disconnect" /\ WorkerReturned(w)
    /\ WorkerExit(w, 0)
    /\ NextSend(<<"DONE">>, "shutdown", "open")
    /\ UNCHANGED <<config, link, work, output, mcode, wrun, witer, wblock, wof, env>>
-----------------------------------------------------------------------------
(* Deadlines and faults *)

Gone(w)    == wpc[w] = "exited"
MasterGone == mpc = "exited"

\* mpi_send_f, mpi_recv_f and npb_mpi_disconnect are under npb_wait_begin.
MasterWaitsFor(w) ==
    \/ synchronous /\ \E t \in DownTag : Arrived(w, t)
    \/ idx = w /\ mpc = "ready" /\ ~Arrived(w, "READY")
    \/ idx = w /\ mpc = "gather" /\ ~Arrived(w, M.gather[pos])
    \/ idx = w /\ mpc = "disconnect" /\ wpc[w] # "disconnect"

WorkerWaits_NoRound(w) ==
    \/ ~WorkerReturned(w)
    \/ wpc[w] = "command" /\ ~Arrived(w, "CMD")
    \/ wpc[w] = "start" /\ ~Arrived(w, W.start[wpos[w]])
    \/ wpc[w] = "disconnect" /\ ~(mpc = "disconnect" /\ idx = w)

WorkerWaits(w) ==
    \/ ~WorkerReturned(w)
    \/ wpc[w] = "command" /\ ~Arrived(w, "CMD")
    \/ wpc[w] = "start" /\ ~Arrived(w, W.start[wpos[w]])
    \/ wpc[w] = "take" /\ ~Arrived(w, W.take[wpos[w]])
    \/ wpc[w] = "disconnect" /\ ~(mpc = "disconnect" /\ idx = w)

MayExpire == timely => faults > 0

MasterDeadline ==
    /\ ~MasterGone
    /\ \E w \in Worker : MasterWaitsFor(w)
    /\ MayExpire
    /\ MasterExit(124)
    /\ UNCHANGED <<config, link, work, output, worker, env>>

\* npb_mpi_finalize has a deadline too, after the results are written.
FinalizeDeadline ==
    /\ mpc = "finalize" /\ MayExpire
    /\ MasterExit(124)
    /\ UNCHANGED <<config, link, work, output, worker, env>>

WorkerDeadline(w) ==
    /\ ~Gone(w) /\ WorkerWaits(w) /\ MayExpire
    /\ WorkerExit(w, 124)
    /\ UNCHANGED <<config, link, place, work, output, mcode, wrun, witer, wblock, wof, env>>

\* die_mpi: an MPI call may report that the other end is gone.
PeerLost ==
    /\ mpc \in {"start", "ready", "scatter", "gather", "shutdown", "disconnect"}
    /\ Gone(idx)
    /\ MasterExit(1)
    /\ UNCHANGED <<config, link, work, output, worker, env>>

MasterLost(w) ==
    /\ MasterGone /\ ~Gone(w)
    /\ WorkerExit(w, 1)
    /\ UNCHANGED <<config, link, place, work, output, mcode, wrun, witer, wblock, wof, env>>

Inject(kind) ==
    kind \in Fault /\ faults < MaxFaults /\ faults' = faults + 1

Kill(w) ==
    /\ Inject("kill") /\ ~Gone(w)
    /\ WorkerExit(w, 137)
    /\ UNCHANGED <<config, link, place, work, output, mcode, wrun, witer, wblock, wof, outage>>

KillMaster ==
    /\ Inject("kill") /\ ~MasterGone
    /\ MasterExit(137)
    /\ UNCHANGED <<config, link, work, output, worker, outage>>

\* The machine of the master loses power, also after the master has exited.
PowerLoss ==
    /\ Inject("power") /\ outage' = TRUE
    /\ LosePower
    /\ IF MasterGone THEN UNCHANGED <<place, mcode>> ELSE MasterExit(137)
    /\ UNCHANGED <<config, link, work, ioerr, worker>>

Damage(w, t) ==
    /\ Inject("damage") /\ DamageFrame(w, t)
    /\ UNCHANGED <<config, place, work, output, mcode, worker, outage>>

FirstRound(w) == wpc[w] = "take" /\ wrun[w] = 1 /\ witer[w] = 1 /\ wpos[w] = 1

\* malloc fails on a worker: CG leaves the command loop without a word,
\* DGEMM aborts, the others answer that they are not ready.
WorkerOutOfMemory(w) ==
    /\ Inject("memory") /\ UNCHANGED outage
    /\ \/ SendReady(w, FALSE)
       \/ /\ workload = "CG" /\ WorkerReturned(w)
          /\ (wpc[w] = "start" /\ wpos[w] <= 2) \/ FirstRound(w)
          /\ WorkerGoto(w, "disconnect")
          /\ UNCHANGED <<config, link, place, work, output, mcode,
                         wrun, witer, wblock, wof, wcode>>
       \/ /\ workload = "DGEMM" /\ FirstRound(w)
          /\ WorkerExit(w, 1)
          /\ UNCHANGED <<config, link, place, work, output, mcode,
                         wrun, witer, wblock, wof>>

\* malloc fails on the master: DGEMM leaves the size out, CG and VMAP abort.
MasterOutOfMemory ==
    /\ Inject("memory") /\ UNCHANGED outage
    /\ \/ /\ workload = "DGEMM" /\ mpc = "size" /\ size <= NumSizes
          /\ ~DgemmSkips(Sizes[size])
          /\ NextSize /\ skipped' = skipped \cup {size} /\ UNCHANGED <<place, mcode>>
       \/ /\ \/ workload = "CG" /\ mpc = "size" /\ size <= NumSizes
             \/ workload = "CG" /\ mpc = "start" /\ pos = 2 /\ MasterReturned
             \/ /\ workload \in {"CG", "VMAP"} /\ mpc = "scatter" /\ MasterReturned
                /\ run = 1 /\ iter = 1 /\ idx = 0 /\ pos = 1
          /\ MasterExit(1) /\ UNCHANGED work
    /\ UNCHANGED <<config, link, output, worker>>

Finished ==
    /\ MasterGone /\ \A w \in Worker : Gone(w)
    /\ UNCHANGED vars
-----------------------------------------------------------------------------
MasterStep ==
    \/ SkipSize \/ StartSize \/ EndSizes \/ SendStart \/ ReceiveReady \/ Scatter
    \/ Gather \/ NextIter \/ RecordRun \/ SendDone
    \/ Open \/ Write \/ Sync \/ Close \/ Rename \/ Finalize

WorkerStep(w) ==
    \/ ReceiveCommand(w) \/ ReceiveMatrix(w) \/ Ready(w) \/ ReceiveInput(w)
    \/ SendOutput(w)

FaultStep ==
    \/ PeerLost \/ FinalizeDeadline \/ KillMaster \/ PowerLoss \/ MasterOutOfMemory
    \/ \E w \in Worker : \/ Kill(w) \/ MasterLost(w) \/ WorkerOutOfMemory(w)
                         \/ \E t \in DownTag \cup UpTag : Damage(w, t)

Next ==
    \/ MasterStep
    \/ MasterDeadline
    \/ \E w \in Worker : WorkerStep(w) \/ Disconnect(w) \/ WorkerDeadline(w)
    \/ FaultStep
    \/ Finished

Spec == Init /\ [][Next]_vars

\* Every process is scheduled, a collective call both ends entered returns,
\* an armed alarm fires.
FairSpec ==
    /\ Spec
    /\ WF_vars(MasterStep) /\ WF_vars(MasterDeadline)
    /\ \A w \in Worker : /\ WF_vars(WorkerStep(w)) /\ WF_vars(Disconnect(w))
                         /\ WF_vars(WorkerDeadline(w))
-----------------------------------------------------------------------------
(* Properties *)

\* When a gather is complete, every entry of the result (every row of y and
\* of C, the result of every worker) was computed in this very round from
\* the entry's own share of the data: no row is left over from an earlier
\* round, taken from another block, or missing because of the division.
RoundsDoNotMix ==
    mpc = "round" => \A e \in Entries : part[e] = [row |-> e, of |-> Round]

Before(r, q) == r[1] < q[1] \/ (r[1] = q[1] /\ r[2] < q[2])

\* All the runs of all the sizes that were not left out, in order.
AllRows(rows) ==
    /\ {rows[k] : k \in DOMAIN rows} = ((1 .. NumSizes) \ skipped) \X (1 .. NumRuns)
    /\ \A j, k \in DOMAIN rows : j < k => Before(rows[j], rows[k])

\* Whoever reads the result file, at any time and also after a kill or a
\* power loss, finds the previous results or all the new ones.
ResultsWhole ==
    /\ csv.whole
    /\ csv.new => AllRows(csv.rows)

\* The master exits with 0 only when all the results are in the file and
\* every worker had taken the end of the benchmark; it leaves no temporary
\* file behind when it ends by itself.
ExitMeansResults ==
    /\ mpc = "exited" /\ mcode = 0 =>
          /\ outage \/ csv.new
          /\ \A w \in Worker : Gone(w) /\ wcode[w] = 0
    /\ mpc = "exited" /\ mcode \in {0, 1} /\ ~outage => ~tmp.there

\* With peers that answer in time and no faults every run of every workload
\* is done, no good message is rejected, also when no MPI_Send is buffered.
BulkCompletes ==
    timely /\ [](faults = 0) =>
    <>(/\ MasterGone /\ mcode = 0 /\ csv.new /\ tmp = NoFile
       /\ \A w \in Worker : Gone(w) /\ wcode[w] = 0)

\* Whatever is damaged, killed, late or out of memory, every process exits.
EverybodyExits == <>(MasterGone /\ \A w \in Worker : Gone(w))
=============================================================================
