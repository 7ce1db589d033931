# DistributedEnclave: TLA+ models, checks and proofs

The modules in this directory model the protocol code of DistributedEnclave: how
the central node (the *master*) and the worker VMs find each other, agree on
keys, share out work, and stop. Paths below are relative to the repository root,
which is `src/` in `PROJECT.json`; `PROJECT.json` maps every definition to the
lines it models.

## 1. The system

Two stacks benchmark SEV-SNP virtual machines. The **OpenMPI stack** is a set of
C programs in `src/`: a master that accepts workers one after the other over an
MPI intercommunicator each, checks their attestation evidence, agrees on AEAD
keys with them and drives a workload. The **Ray stack** is Go code in `fort/`:
attested TLS between a worker VM and a server on the host that issues
certificates. Scripts launch campaigns, Python analyses the results.

| Component | State it keeps | Operations | What makes it correct |
|---|---|---|---|
| TASKQ workload (`master_npb.c` 1577-1774, `worker_npb.c` 1160-1268) | `busy`, `assigned_task`, `next_task`, `completed`, the run; on a worker its run and task | command, ready, control, task + input, result + output, end of run, shutdown | every task of a run is done once, whoever fails; a result is counted for the task it answers; everybody stops |
| AEAD transport (`secure_send`, `secure_recv`, `send_bulk`, `recv_bulk`) | a counter per direction | send, receive | messages of several tags are opened in the order they were sealed in |
| Enrollment (`master_npb.c` 1989-2180, `worker_npb.c` 1281-1442) | `workers[]`, `wkey[]`, `channel_binding[]`, `nworkers` | request, authenticator, verdict, server key and signature, two confirmations, start or send home | a slot is held by an attested worker with the same keys; no start with too few workers; nobody waits for ever |
| Rendezvous (`bench_rendezvous.c`) | the published name | publish, accept, barrier, unpublish; lookup, connect | a worker gets to a live port or gives up |
| Wait deadlines (`npb_timeout.c`, `npb_mpi_wait.h`) | nesting depth, deadline | begin, end, alarm | the outermost deadline holds, every armed wait ends |
| EP, CG, STREAM, RANDOM, VMAP (`master_npb.c`, `worker_npb.c`) | per-run partial results, row split | scatter, compute, gather | blocks cover the data; rounds do not mix |
| Result output (`master_npb.c` 2546-2641) | temporary file, result file | write, fsync, rename, remove | the result file is whole, old or new |
| VCEK cache (`master_npb.c` 667-786, `master_bench.c` 460-628, `master_attest.c` 398-454) | cached certificate | fetch, verify, delete, fetch again | a stale certificate costs one retry and never the verdict |
| Star programs (`master_star.c` = `master.c`, `worker_star.c` = `worker.c`), attested task programs (`master_attest.c`, `worker_attest.c`) | port file, `workers[]`, `wkey[]`; `next`, `results_received`, counters | challenge, report, verdict, server key; task, result, IDLE, SHUTDOWN | a slot and its worker have one key; every round ends; a result counts once |
| DGEMM (`master_bench.c`, `worker_bench.c`) | result table | scatter, gather per size and run | no size and no row disappears silently |
| Owner keys (`owner_keygen.c`) | two files | exclusive create, undo | both files or none |
| ATLS library, server, client (`fort/`) | identity and CA files, connections, the worker's three files | load or generate the identity, accept, request and validation, CSR, retry | the identity of the image stays the server's; a worker never runs with files that do not belong together |
| Scripts (`run-scaling-*.sh`, `vmbuild/refresh-server-cert.sh`), analysis | files of the server | make and pin the identity, start and stop server, head, VMs | what is pinned is what is served |

The components interact through MPI messages (master and worker), collective MPI
calls (accept/connect, barrier, disconnect), the name server (rendezvous), the
alarm signal (deadlines) and files (results, certificates).

What is hard here: several processes that block on each other in both directions;
collective calls in which one side may never arrive; one AEAD counter under
several MPI tags; deadlines that pass while the peer is only slow; workers that
die, or are rejected, while the others wait. `PROJECT.json` lists the hazards
with their lines.

## 2. Modules

### TaskQueue (with AeadLink): the TASKQ workload

`AeadLink` is the link between the master and each worker after enrollment: one
FIFO queue per worker and tag (MPI keeps the order within a tag only) and one
counter per direction. A frame carries the counter it was sealed with. A receive
opens it only at exactly the expected counter, as `secure_recv` and `recv_bulk`
do, and moves the counter only then. Tags in `PlainTag` are not sealed. With
`Synchronous` a send returns only when it is received, which is what MPI_Send may
do.

`TaskQueue` starts with all workers enrolled and ends when all processes have
exited.

| Variable | Code |
|---|---|
| `mpc`, `idx`, `run` | place in `run_taskq_master` or in the shutdown of `main`, loop variable `worker`, `run` |
| `busy`, `assigned`, `nextTask`, `completed` | `busy`, `assigned_task`, `next_task`, `completed` |
| `done`, `log` | history: the tasks counted in `completed`, the runs given to `record_generic_result` |
| `wpc`, `wrun`, `wtask`, `wok` | place in `run_taskq_workload`, its `run`, the received `task_id`, `verified` |
| `mcode`, `wcode` | exit codes; 124 is the alarm, 137 a kill |

Each message the code sends or receives is one action (`SendCommand`,
`ReceiveReady`, `SendControl`, `SendTask`, `SendInput`, `ReceiveResult`,
`ReceiveOutput`, `SendEnd`, `SendDone` on the master; `ReceiveCommand`, `SetUp`,
`ReceiveControl`, `ReceiveTask`, `ReceiveInput`, `SendResult`, `SendOutput` on a
worker). `PollMiss` and `LeaveSweep` are the two other outcomes of the polling
loop, `Disconnect` the collective `MPI_Comm_disconnect`. A payload is the task
and the run its bytes are computed from; comparing samples is comparing those.
`MasterDeadline` and `WorkerDeadline` are the alarm in the waits that are under
`npb_wait_begin`; `mpi_iprobe_f` is not. `PeerLost` and `MasterLost` are MPI
calls that fail because the other side is gone: they *may* happen, nothing
guarantees that MPI reports a lost peer.

### TaskPool: what TaskQueue promises

A pool of tasks: a run opens, a free task is assigned to a free worker, a held
task completes, the run is recorded when all tasks are done. `TaskQueue!Pool`
maps `busy` and `assigned` to `held`.

### Enrollment: rendezvous and attested key exchange

One action per message of both programs, plus the calls of `bench_rendezvous.c`.
The round number stands for the fresh context and server key of the round, the
worker's number for its key. Bindings, reports, transcripts, signatures and
confirmations are the tuples they are computed from, and two of them are equal
when those are; 0 stands for a value no process made. `genuine` and `paired` are
chosen once: the workers whose report passes measurement and policy, and the
workers that hold this owner's public key. `Collective` actions (accept,
barrier, the two disconnects) need both sides. The name is published before the
accept and taken back after the barrier, so a second worker may read a port that
is already used; what MPI_Comm_connect does with it is external and left open
(it fails, or it hangs until the deadline). A master that exits on its deadline
leaves the name published.

### TaskFarm: tasks of the attested and of the star programs

`master_attest.c` 798-865 and `worker_attest.c` 610-676; the star programs have
the same phase statement for statement. It starts with the workers of the slots
1 .. `nworkers` enrolled, for every `nworkers` up to the target.

| Variable | Code |
|---|---|
| `next`, `received`, `idx`, `mpc` | `next`, `results_received`, loop variable `i`, place in `main` |
| `sendCtr`, `recvCtr`, `wSendCtr`, `wRecvCtr` | `send_nonce_ctr`, `recv_nonce_ctr` of both programs |
| `wpc`, `wtask` | place in the work loop, `x` |
| `results`, `worked` | history: tasks of the counted results, how often a task was computed |

The link differs from the one of the NPB programs: a worker probes for any tag,
so one queue per direction suffices, and `secure_recv` takes every counter that
was not passed (`>=`, not `=`), so what is lost does not spoil what follows.
`Scatter`, `PollMiss`, `ReceiveResult`, `Answer`, `LeaveSweep` and
`SendShutdown` are the steps of the master, `ReceiveFrame` and `SendResult` those
of a worker. `Damage` and `Duplicate` change the queues, `Kill` ends a worker;
`PeerLost` and `MasterLost` are again calls that may fail. Discarding an unknown
tag is left out: the master sends none.

### StarEnrollment: enrollment of the star and of the attested task programs

Both pairs of programs in one module, chosen by `program`, because their
handshakes have one shape: a challenge goes down; key, length and report come up
(the star programs send three messages, the attested ones a header, the evidence
and a hash over the transcript); verdict and server key go down. `StarUps` and
`AttestUps` are the two orders of receives. A failed allocation of the report
buffer (`OutOfMemory`) and a public key libsodium refuses (`Degenerate`: only one
that was changed on the way can be) end the process with 1. `OpenPort` writes
`port.txt`; a worker is started (`Start`) with whatever the file says at that
moment and may come to a port that is gone. A length is one of five classes (none,
short, exact, long, and huge for more than MAX_REPORT_LEN). `skip` is the
SKIP_ATTESTATION build, of both ends. `harmed` remembers workers whose verdict or
server key was changed under way, which nothing in these programs protects.

### BulkSync, Workloads, ResultFile: EP, CG, STREAM, RANDOM, VMAP and DGEMM

The six workloads differ in what is sent under which tag and in what order, so
`Workloads` gives each a *program* for either end: the sends before the first
round, whether READY is asked for, the tags scattered and gathered in a round, and
what a failed receive does. It also has the pure parts: the row splits `CgBlock`
and `DgemmBlock`, `EpSeed`, and the pointer chase of RANDOM (`ChaseToken` follows
the links, `ExpectedFinalToken` is the closed form the code compares with).
`BulkSync` interprets the programs over `AeadLink`: `SendStart`, `ReceiveReady`,
`Scatter`, `Gather`, `NextIter`, `RecordRun`, `SendDone` on the master,
`ReceiveCommand`, `ReceiveMatrix`, `Ready`, `ReceiveInput`, `SendOutput` on a
worker. `part` says for every row of `y` or `C` (or every worker's result) which
row of which round it really holds; neither program clears them between rounds.
`ResultFile` is the temporary and the final file with the operations `Open`,
`Write`, `Sync`, `Close` and `Rename` use; `AfterPowerLoss` leaves a file that was
not synced whole or torn. `synchronous` (sends are unbuffered) and `timely`
(deadlines pass only after a fault) are chosen in Init and never change, so one
run covers both; `verify` is the option of DGEMM. All messages are encrypted: plain
ones exist only in the SKIP_ATTESTATION build. A worker that receives a message of
another length than it expects (`RightLength`, `npb_recv_exact`) leaves with 1, one
that receives a wrong value goes to its command loop or to the disconnect.

### WaitDeadline: npb_wait_begin and npb_wait_end

One action per statement that touches the depth, the flag, the signal mask, the
handler or the timer. `CallBegin`, `CallEnd`, `Hang`, `Return` and `Abort` are the
ways the wrappers in `npb_mpi_wait.h`, `mpi_send_f`, `mpi_recv_f`, `die_mpi` and
the enrollment use scopes. `Tick` lets time pass and `Deliver` runs
`timeout_handler` between any two statements while SIGALRM is not blocked. The
process has one thread, as these programs do.

### VcekCache: certificates kept on disk

`verify_sev_snp_report` for one report after the other, across restarts of the
master: `program` selects the NPB and DGEMM text (a directory per chip and firmware
level, two attempts) or the one of `master_attest.c` (one directory, always
fetched). A fetch may fail and leave a torn or empty file, the master may crash,
and `ChildAfterCrash` is what becomes of a running snpguest: PR_SET_PDEATHSIG ends
it in the NPB and DGEMM programs; nothing does in `master_attest.c`, where the
orphan goes on writing (`OrphanWrites`). One master at a time uses a directory.

### Fort: certificates of the Ray stack

Server, clients and the scripts around them, joined by files. `os.WriteFile`
creates or truncates a file and then fills it: two steps, with a crash or a reader
in between. `disk[f]` is the start of the server that made a file. `Load` is
`loadOrGenerateATLSCert`; `Accept`, `Handshake` and `Validate` run in the one accept
loop, `IssueCert` and `SendCA` in a goroutine per client; `Dial`, `SendEvidence`,
`ReadCerts`, `CreateWorkerFile` and `FillWorkerFile` are a try of the client,
`RayStart` the unit after it. `RefreshStart`, `RefreshStop` and `Copy` are
`refresh-server-cert.sh`; `CampaignStart`, `CampaignReady`, `HeadStart`, `Boot` and
`CleanUp` the scaling scripts, which an operator may run again; the refresh script
runs once, before them. It gives the server the paths of certificate and key only,
so the CA and head files of that start land in the caller's directory
(`RayFilesElsewhere`). A closed connection
is noticed at once; a client that falls silent stays so.

### The proofs

`TaskQueue_proofs`, `Enrollment_proofs`, `StarEnrollment_proofs`,
`TaskFarm_proofs`, `BulkSync_proofs`, `WaitDeadline_proofs`, `VcekCache_proofs` and
`Fort_proofs` each extend the module of their component with its inductive
invariant, one lemma per action, and the theorems of section 5.

A definition named `X_Y` is definition `X` with the slip `Y`. No specification
uses it; `PROJECT.json` pairs each property with one of them that it detects.

## 3. Runs

| Run | Bounds | What it shows |
|---|---|---|
| `taskq_complete` | 2 workers, 3 tasks, 2 runs, encrypted, unbuffered sends | `AllRunsComplete`: the pairs of sends never block each other, every run completes, all exit with 0 |
| `taskq_plain` | 3 workers, 2 tasks, 2 runs, plain, buffered | the same with an idle worker in every run. Plain workloads exist only in the SKIP_ATTESTATION build (`worker_npb.c` 1456-1463) |
| `taskq_faults` | 2 workers, 3 tasks, 2 runs, 1 fault, deadlines at any time | `TaskPartition`, `RecordedRunsComplete`, `WorkMatchesAssignment`, `NoFalseReject`, `CleanExit`, the refinement `ImplementsPool`; `WorkersExit`; `MasterExitsOrPolls`: the master exits, or polls for ever a busy worker that is gone |
| `farm` | up to 3 workers, 2 tasks, 2 faults (damage, repetition, kill), sends buffered or not | `EachOnce`, `Lockstep`; `AllCollected`: repeated messages do no harm and idle workers go home; `EndsOrWaitsForLost`: the master ends, or polls for ever for a lost task, or stays in the disconnect of a worker that is gone or dropped its SHUTDOWN |
| `enrollment_timely` | 3 workers for 3 rounds, started one after the other, no deadline while anyone can move | `AllEnrolled`, `RejectIsClean` |
| `enrollment_faults` | 2 workers for 2 rounds, both builds, started together, 1 fault, deadlines at any time | `SlotsAttested`, `KeysAgree`, `NoPartialStart`, `EnrollmentSettles` |
| `bulk_sync` | 6 workloads, 2 workers, 2 runs, 2 iterations and 1 or 3 rows of CG, DGEMM sizes 6, 4, 3, every order of 3 elements for RANDOM, 1 fault | `RoundsDoNotMix`, `ResultsWhole`, `ExitMeansResults`; `BulkCompletes` with timely peers and no fault; `EverybodyExits` always |
| `star_enrollment` | both programs and builds, 2 workers, 2 rounds, worker table of 1 or 2, 1 fault (a changed message, a kill, a failing allocation, report or port file) | `SlotsAgree`; `RoundsEnd` and `WorkersSettle` name every way these programs, which have no deadline, wait for ever |
| `wait_deadline` | scopes 3 deep, 3 outermost waits, limits 2, 3 and 4 ticks | `OutermostDeadlineKept`, `NoStrayExit`, `HungWaitEnds` |
| `vcek_cache` | 2 keys, 3 reports, 2 faults | `VerdictRight`, `CacheUsable`, `CertificateKept` |
| `fort` | 2 workers, 3 starts of the server, 2 faults | `RayTlsAgrees`; `IdentityKept`: an identity that was complete on disk or in the image is the only one served from then on; `WorkersJoin` |
| `fort_refresh` | 1 worker, 2 starts, no fault | violates `PinnedIdentityServed`, see below |

`fort_refresh` is a disagreement between script and server.
`vmbuild/refresh-server-cert.sh` stops the server as soon as the certificate file
exists (lines 40-46), and the server writes the key after the certificate
(`fort/server/main.go` 155, 163). If it is stopped in between, the image pins a
certificate without a key; the next start of the server makes a new pair, or, if
the key file was just created, refuses to start. The script reports "New ATLS
identity is baked into the worker image." `IdentityKept` shows that this is the only
way: from the moment both files of an identity are written, whether or not an image
was built with it yet, no crash and no later start brings another one.

`SlotsAgree` has one exception, stated in it: an attested worker whose request
arrives without the attestation offer sends no evidence, and `master_attest.c` 716
verifies a report only when there is one.

Why the bounds are enough to be interesting: with two workers and three tasks
one worker gets a second task while the other is busy, and the last answer can
come at either end of a sweep; two runs are needed for anything carried over from
one to the next; two workers at one port are the contention the rendezvous has;
three rounds have a rejected worker before, between and after good ones. One
fault (a killed worker, one damaged message, a failing set-up or report) at every
point of the protocol, combined with deadlines at every point, keeps the runs in
the range of 10^5 states.

Two faults in the task farm let a repetition follow a damage, and damage hit two
workers at once. Three workers for two tasks leave one idle.

In `bulk_sync`, 3 rows over 2 workers are a split with a remainder and 1 row
leaves a worker with an empty block; size 3 is one that DGEMM skips, and two good
sizes fill the result table exactly. In `wait_deadline` every limit is longer than
the statements of one call, so an alarm can meet every one of them. Three starts
in `fort` are the one that makes the identity and two campaigns, so a worker can
hold files of the campaign before.

`EndsOrWaitsForLost` says exactly what the code gives: these programs have no
deadline and no second attempt, so one damaged result is enough to keep the
master polling.

`MasterExitsOrPolls` says exactly what the code gives: the loop at
`master_npb.c` 1691 has no deadline. If MPI does not report the lost worker the
master does not end by itself; the launch scripts have a watchdog for it.

## 4. Assumptions

*Fairness.* Weak fairness of the master's steps and of each worker's steps (the
operating system schedules every process), of a collective call both sides have
entered (MPI returns), and of the alarm (an armed timer fires). None for lost
peers, faults, `ConnectFails`, starting a worker, or ending a campaign. In
`WaitDeadline` fairness is of the process, of the passing of time and of the
delivery of an unblocked signal; in `Fort` of every process and goroutine. The star
and the attested task programs have no deadline, and their runs assume none.

*Timely.* In the runs about completion a deadline passes only when the peer is
gone (`TaskQueue`), after a fault (`BulkSync`, where it is a choice of Init), or
when no process can move at all (`Enrollment`): the limits are 300 s for an
enrollment and 600 s for a message, and these properties ask what happens when
they suffice. The fault runs drop the assumption.

*Staggered.* `uputstvo.md`, step 6, starts the workers one after the other;
`enrollment_timely` needs it because a worker that reads a used port fails. The
fault run starts them together.

*Network.* MPI neither loses nor duplicates messages of the NPB programs; a message
may be changed under way, in one field for enrollment messages, or made unreadable
for AEAD messages. In `TaskFarm` messages may also be duplicated, since
`secure_recv` there has a check against it.

## 5. Proofs

Every theorem holds for all values of the constants that satisfy the assumptions
below, so for any number of workers, tasks, rounds, runs, sizes and faults, and for
every choice of Init. The assumptions are the `ASSUME` of each module: the constants
have their types, and the counts that cannot be 0 in the code are not. Two say
more: `BulkSyncAssumption` has a result table large enough for the good sizes times
the runs (`MAX_RESULTS`, with the sizes and runs of the scripts), and
`VcekCacheAssumption` that a chip is not called as one of the words for a broken
certificate.

Each invariant is implied by an inductive one. That the initial states satisfy the
inductive invariant is a lemma or a step of the theorem `Invariance`, that the
actions preserve it is a lemma per action or group of actions, and that it implies
the invariant is the step of the theorem before the last.

| Module | Theorem | States | Inductive invariant |
|---|---|---|---|
| `TaskQueue` | `TypeCorrect`, `TasksArePartitioned`, `RecordedRunsAreComplete` | `TypeOK`, `TaskPartition`, `RecordedRunsComplete` | `IInv` |
| | `Refinement` | `ImplementsPool` | `IInv` |
| | `ConversationHolds`, `WorkMatches`, `GoodMessagesAccepted`, `ExitIsClean` | `WorkMatchesAssignment`, `NoFalseReject`, `CleanExit` | `CInv == IInv /\ Conversation` |
| `Enrollment` | `TypeCorrect`, `SlotsAreAttested`, `BothEndsAgree`, `StartIsComplete` | `TypeOK`, `SlotsAttested`, `KeysAgree`, `NoPartialStart` | `IInv` |
| `StarEnrollment` | `SlotsAreAgreed` | `SlotsAgree` | `IInv` |
| `TaskFarm` | `TypeCorrect`, `EachTaskOnce`, `FarmInLockstep` | `TypeOK`, `EachOnce`, `Lockstep` | `IInv` |
| `BulkSync` | `ResultsAreWhole`, `ExitMeansAllResults`, `TableNeverFull` | `ResultsWhole`, `ExitMeansResults`, `ResultFits` at every record | `IInv` |
| | `RoundsNeverMix` | `RoundsDoNotMix` | `IInv /\ RInv` |
| `Workloads` | `CgBlocksPartition`, `DgemmBlocksPartition`, `SeedsAreDistinct` | facts about operators (in `BulkSync_proofs`) | none |
| `WaitDeadline` | `DeadlineKept`, `NoStrayExits` | `OutermostDeadlineKept`, `NoStrayExit` | `IInv` |
| `VcekCache` | `VerdictIsRight`, `CacheIsUsable`, `CertificatesKept` | `VerdictRight`, `CacheUsable`, `CertificateKept` | `IInv` |
| `Fort` | `IdentityStays` | `IdentityKept` | `PinnedInv` |
| | `RayTlsFits` | `RayTlsAgrees` | `RayInv`, relative to `PinnedInv` |

What the inductive invariants add, and why they need it:

*TaskQueue.* `IInv == LinkOK /\ WorkerOK /\ MasterOK /\ TaskPartition /\
RecordedRunsComplete /\ Bookkeeping`. `TaskPartition` is not inductive by itself: at
`SendInput` a task becomes held, and one must know that it is the task of
`next_task` (`assigned[idx] = nextTask` between header and input) and that the
worker is free (during the first distribution no worker from `idx` on is busy;
before a new task the worker was set free). `RecordedRunsComplete` needs that
`completed` is the number of tasks in `done`, which turns the loop condition
`completed >= task_count` into `done = TaskId`, and that `log` has one entry per
finished run. `Bookkeeping` holds these facts, one conjunct per place of the master.
What workers send does not matter for them: whatever fails a check ends the
master, and what passes is compared with `assigned`. The refinement shows that
`StartRun`, `SendInput`, `ReceiveOutput` and `RecordResult` are the four steps of
the pool and everything else a stutter.

`WorkMatchesAssignment`, `NoFalseReject` and `CleanExit` relate the queues to both
ends, and for them what workers send does matter. `Conversation` says of each worker
where it is when the master is somewhere (`Phase`), and from that which frames are
in flight, in which order and with which counters (`Line`): the worker may be runs
behind, with the ends of several runs waiting for it and the next task under
another tag. A frame names its counter, so the order across tags is a statement
about counters, and `Answers` says the same of the way back. `Leave` ties exit codes
together.

*Enrollment.* `SlotsAttested` needs that a confirmation on its way can only be one
the worker with that key computed (`Messages`), that a worker connects once
(`Accepted`), so that the slots are of different workers, and that past
`judge` the evidence is genuine (`Rounds`). For `KeysAgree`, a server confirmation on
its way implies the slot. `NoPartialStart` follows from `Complete`: a start command on
its way means that all slots are taken.

*StarEnrollment.* `SlotsAgree` follows from `Table` and `Keys`. `Mail` says that a
worker and the master never have two messages of a tag under way, and that
damage never makes a true statement about something else out of a message;
`Place` relates the two ends of a round, and `Received` carries what was received
from the first message to the verdict.

*TaskFarm.* `EachOnce` needs that no task is under way to two workers, or twice with
two counters, or both to be computed and already computed: `DownOK`, `UpOK` and
`Replying` say so of the queues, up to what repetition and damage can change.
`Counters` orders the four counters of a link, `Loop` fixes the difference that
`Lockstep` asks for at every place of the sweep.

*BulkSync.* `ResultsWhole` says that the rows in the file are a set and in order, so
`Recorded` says of the table which runs of which sizes it holds, in terms of the
master's loop variables, and counts them, which also gives `TableNeverFull`.
`Files` follows the temporary file from `Open` to `Rename`; `Leaving` is the
argument for `ExitMeansResults`.

`RoundsDoNotMix` is about the end of a gather and needs to know what is under way
at any time before. `RInv` says it of each worker, for all six programs at once in
terms of the lengths of their start, scatter and gather sequences. A worker that
keeps up is `Unanswered` or `Answered` in this round. In both cases the counters of
its two directions differ by what was sent and not yet received (`Balanced`), its
loop variables are those of the master or one round ahead, and, by its counter,
each frame to it is part of the start or input of this very round (`DownFrames`).
A worker that does not keep up is `Lost` for good: it is leaving, or it is an EP
worker that lost a seed, went back to its command loop and finds only frames whose
counter is too high. In all cases a result under way that would still be opened
is of this round and of the worker's own block (`UpFrames`), and no more of them
are under way than the master has yet to collect. `Stored` has the master's side:
a collected block is in its place, which stays so because blocks are disjoint
(`CgBlocksPartition`), and that they cover all rows gives the theorem.

*WaitDeadline.* One conjunct per statement. The heart is `Armed`: timer and elapsed
time add up to the limit of the outermost scope, or the signal is raised.

*VcekCache.* One conjunct per place of `verify_sev_snp_report`; `AtVerify` says
that a certificate that was not fetched now is looked at only in the first
attempt, and a fetched one is the report's unless an orphan wrote since.

*Fort.* `IdentityKept` speaks of everything after a moment, so `PinnedInv` is followed
by a step lemma: certificate and key of one start (`Together`) are never written
again (`FilesStay`), because the server generates only when the key is missing and no
script removes them once they are there; and who listens with both there has loaded
them (`Identity`). `RayInv` says per worker of which try
and which start of the server each received and each written file is.

Not proved, and checked by TLC only:

- everything about liveness (`AllRunsComplete`, `WorkersExit`,
  `MasterExitsOrPolls`, `AllCollected`, `EndsOrWaitsForLost`, `AllEnrolled`,
  `RejectIsClean`, `EnrollmentSettles`, `BulkCompletes`, `EverybodyExits`,
  `RoundsEnd`, `WorkersSettle`, `HungWaitEnds`, `WorkersJoin`): the prover has neither
  fairness nor ENABLED;
- that `ChaseToken` equals `ExpectedFinalToken` for every order of the elements,
  which is an induction over data.

Every safety invariant of the runs is stated by a theorem.

## 6. Not modelled

- Kernels and their numerical results: an entry of a result is the row and the
  round it was computed for.
- `MPI_Init`, argument parsing and the loading of keys; a failing
  `crypto_sign_detached`, which no input of the modelled part reaches.
- The chunks of `send_bulk` and the counter's end at UINT64_MAX: a chunk follows
  the one before under the same tag and counter.
- Plain workload messages of the bulk-synchronous workloads (TaskQueue has them).
- The enrollment of `master_bench.c` and `worker_bench.c`, whose text is that of
  the NPB programs.
- The encoding and cryptography of exported authenticators (`fort/atls/protocol.go`,
  `ea/`, `attestation/`): pure functions on bytes; their result is symbolic.
- `owner_keygen.c`: two exclusive creations in one short sequential program.
- The measurement tool, plots, benchmark drivers, image building and VM launching,
  `run-both-campaigns.sh`: sequential or pure I/O without protocol state.

## 7. Plan

Done: all the modules of section 2 and the proofs of section 5. Left:

1. `Enrollment` and `TaskFarm`: abstract specifications (a table of slots, a set of
   tasks) and the refinements.
