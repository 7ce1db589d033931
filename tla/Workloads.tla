------------------------------ MODULE Workloads ------------------------------
(***************************************************************************)
(* The bulk-synchronous workloads: EP, CG, STREAM, RANDOM and VMAP of      *)
(* master_npb.c and worker_npb.c, DGEMM of master_bench.c and              *)
(* worker_bench.c.  For each one, which tags the master sends and receives *)
(* in which order, which tags the worker does, and how the data is divided.*)
(* The two programs of a workload are written from their own source; only  *)
(* the machine of BulkSync makes them meet.                                *)
(*                                                                         *)
(* The tags of STREAM, RANDOM and VMAP differ only by their prefix in the  *)
(* code; the prefix is left out.                                           *)
(***************************************************************************)
EXTENDS Integers, Sequences

CONSTANTS
    N,         \* nworkers
    NumRuns,   \* num_runs
    CgIters,   \* cg_iters
    Sizes,     \* sizes[] of DGEMM
    Accesses,  \* random_accesses
    Warmup     \* random_warmup_accesses

ASSUME WorkloadsAssumption ==
    /\ N \in Nat \ {0} /\ NumRuns \in Nat \ {0} /\ CgIters \in Nat \ {0}
    /\ Sizes \in Seq(Nat \ {0})
    /\ Accesses \in Nat \ {0} /\ Warmup \in Nat

Worker   == 0 .. N - 1
Workload == {"EP", "CG", "STREAM", "RANDOM", "VMAP", "DGEMM"}
DownTag  == {"CMD", "MATRIX", "X", "RUN", "INPUT", "A", "B"}
UpTag    == {"READY", "EP_RESULT", "TIME", "Y", "RESULT", "OUTPUT", "C"}
-----------------------------------------------------------------------------
(* The master: sends that start a worker, whether it waits for READY, what *)
(* it sends to each worker in a round and what it then receives from each. *)

EPMaster == [start |-> <<"CMD">>, ready |-> FALSE,
             scatter |-> <<"CMD">>, gather |-> <<"EP_RESULT", "TIME">>]

CGMaster == [start |-> <<"CMD", "MATRIX", "MATRIX", "MATRIX">>, ready |-> FALSE,
             scatter |-> <<"X">>, gather |-> <<"Y", "TIME">>]

STREAMMaster == [start |-> <<"CMD">>, ready |-> TRUE,
                 scatter |-> <<"RUN">>, gather |-> <<"RESULT">>]

RANDOMMaster == [start |-> <<"CMD">>, ready |-> TRUE,
                 scatter |-> <<"RUN">>, gather |-> <<"RESULT">>]

VMAPMaster == [start |-> <<"CMD">>, ready |-> TRUE,
               scatter |-> <<"INPUT">>, gather |-> <<"OUTPUT", "RESULT">>]

DGEMMMaster == [start |-> <<"CMD">>, ready |-> FALSE,
                scatter |-> <<"A", "B">>, gather |-> <<"C", "TIME">>]

MasterProgram == [EP |-> EPMaster, CG |-> CGMaster, STREAM |-> STREAMMaster,
                  RANDOM |-> RANDOMMaster, VMAP |-> VMAPMaster, DGEMM |-> DGEMMMaster]
-----------------------------------------------------------------------------
(* The worker: what it receives after the command, whether it sends READY, *)
(* what it receives and sends in a round, and where a failed receive leads:*)
(* back to the command loop, out of it, or to MPI_Abort.                   *)

EPWorker == [start |-> <<>>, ready |-> FALSE, take |-> <<"CMD">>,
             give |-> <<"EP_RESULT", "TIME">>, failed |-> "command"]

CGWorker_TimeFirst == [start |-> <<"MATRIX", "MATRIX", "MATRIX">>, ready |-> FALSE,
             take |-> <<"X">>, give |-> <<"TIME", "Y">>, failed |-> "disconnect"]

CGWorker == [start |-> <<"MATRIX", "MATRIX", "MATRIX">>, ready |-> FALSE,
             take |-> <<"X">>, give |-> <<"Y", "TIME">>, failed |-> "disconnect"]

STREAMWorker == [start |-> <<>>, ready |-> TRUE, take |-> <<"RUN">>,
                 give |-> <<"RESULT">>, failed |-> "disconnect"]

RANDOMWorker == [start |-> <<>>, ready |-> TRUE, take |-> <<"RUN">>,
                 give |-> <<"RESULT">>, failed |-> "disconnect"]

VMAPWorker == [start |-> <<>>, ready |-> TRUE, take |-> <<"INPUT">>,
               give |-> <<"OUTPUT", "RESULT">>, failed |-> "disconnect"]

DGEMMWorker == [start |-> <<>>, ready |-> FALSE, take |-> <<"A", "B">>,
                give |-> <<"C", "TIME">>, failed |-> "abort"]

WorkerProgram == [EP |-> EPWorker, CG |-> CGWorker, STREAM |-> STREAMWorker,
                  RANDOM |-> RANDOMWorker, VMAP |-> VMAPWorker, DGEMM |-> DGEMMWorker]
-----------------------------------------------------------------------------
(* How the data is divided: worker w has the rows first .. first+count-1 *)

CgBlock_NoRemainder(n, w) == [first |-> w * (n \div N), count |-> n \div N]

\* row_starts, row_counts_arr: equal blocks, the last worker has the rest.
CgBlock(n, w) ==
    LET rows_per_worker == n \div N
    IN  [first |-> w * rows_per_worker,
         count |-> IF w = N - 1 THEN n - w * rows_per_worker ELSE rows_per_worker]

\* row_starts, row_counts of DGEMM: equal blocks.
DgemmBlock(m, w) == [first |-> w * (m \div N), count |-> m \div N]

\* Sizes that cannot be divided evenly are left out.
DgemmSkips(m) == m % N # 0

\* The seed of EP tells run and worker apart.
EpSeed(run, w) == run * N + w

\* The seed determines all the numbers ep_compute draws, and so its result: the
\* result is named by the run and the worker whose seed it was computed from.
EpOfSeed(seed) == [run |-> seed \div N, worker |-> seed % N]
-----------------------------------------------------------------------------
(* The pointer chase of RANDOM *)

\* order, the shuffled elements: xorshift may give any permutation.
Orders(n) == {f \in [0 .. n - 1 -> 0 .. n - 1] :
                 \A i, j \in 0 .. n - 1 : f[i] = f[j] => i = j}

PositionOf(order, v) == CHOOSE i \in DOMAIN order : order[i] = v

Successor(i, n) == IF i + 1 = n THEN 0 ELSE i + 1

\* links: from each element of the order to the next one, in a cycle.
Links(order, n) ==
    [v \in 0 .. n - 1 |-> order[Successor(PositionOf(order, v), n)]]

\* The token after k accesses from element 0.
ChaseToken(order, n, k) ==
    LET links == Links(order, n)
        walk[i \in 0 .. k] == IF i = 0 THEN 0 ELSE links[walk[i - 1]]
    IN  walk[k]

\* expected_warm_token and expected_final_token, read off the order.
WarmPosition(order, n) == (PositionOf(order, 0) + (Warmup % n)) % n

ExpectedWarmToken(order, n) == order[WarmPosition(order, n)]

ExpectedFinalToken(order, n) == order[(WarmPosition(order, n) + (Accesses % n)) % n]
=============================================================================
