------------------------------ MODULE VcekCache ------------------------------
(***************************************************************************)
(* verify_sev_snp_report: the master verifies one report after the other   *)
(* with certificates it fetches and keeps on disk, across restarts.        *)
(*                                                                         *)
(* "npb" is master_npb.c (and the same text in master_bench.c), which has a*)
(* directory for every chip and firmware level; "attest" is master_attest.c*)
(* with one directory for all, fetched into each time.  Which chip and     *)
(* level a report names is its key.  snpguest, its files and the network it*)
(* fetches from are external.                                              *)
(*                                                                         *)
(* A definition X_Y is X with the bug Y put in; the specification does not *)
(* use it.                                                                 *)
(***************************************************************************)
EXTENDS Naturals

CONSTANTS
    Keys,        \* chips and firmware levels
    MaxReports,  \* bound on the verifications
    MaxFaults    \* bound on failing tools, file operations and crashes

ASSUME VcekCacheAssumption ==
    /\ MaxReports \in Nat \ {0} /\ MaxFaults \in Nat
    \* The names below are not the names of keys.
    /\ Keys \cap {"none", "empty", "torn", "shared"} = {}

\* What vcek.pem holds: the certificate of a key, a part of one, or nothing.
Content == Keys \cup {"none", "empty", "torn"}

\* A report: its key, whether it is signed and about the expected data, and
\* whether its claims are the expected ones.
Reports == [key : Keys, genuine : BOOLEAN, claims : BOOLEAN]

VARIABLES
    program,    \* "npb" or "attest"
    cache,      \* vcek.pem in each directory
    pc,         \* where the master is
    report,     \* report
    attempt,    \* attempt
    fetched,    \* fetched_now
    result,     \* the report is accepted
    orphan,     \* fetches that outlive the master that started them
    reports,    \* verifications so far
    fetches,    \* fetches in this verification (history)
    disturbed,  \* a tool or file operation failed in it (history)
    faults      \* faults injected so far

vars == <<program, cache, pc, report, attempt, fetched, result, orphan, reports,
          fetches, disturbed, faults>>

Dirs == Keys \cup {"shared"}

\* worker_certs: named after the hash of chip id and reported TCB.
DirOf(key) == IF program = "npb" THEN key ELSE "shared"
Dir        == DirOf(report.key)

\* An earlier master may have left anything behind.
Init ==
    /\ program \in {"npb", "attest"} /\ cache \in [Dirs -> Content]
    /\ program = "npb" => cache["shared"] = "none"
    /\ program = "attest" => \A k \in Keys : cache[k] = "none"
    /\ pc = "idle" /\ report \in Reports /\ attempt = 0 /\ fetched = FALSE
    /\ report = CHOOSE r \in Reports : ~r.genuine /\ ~r.claims
    /\ result = FALSE /\ orphan = {} /\ reports = 0 /\ fetches = 0
    /\ disturbed = FALSE /\ faults = 0

Goto(l) == pc' = l

\* A tool or file operation fails (external).
Fails == faults < MaxFaults /\ faults' = faults + 1 /\ disturbed' = TRUE
Works == UNCHANGED <<faults, disturbed>>
-----------------------------------------------------------------------------
\* The next worker's report; claims are looked at first, by "npb" only.
Begin(r) ==
    /\ pc \in {"idle", "done"} /\ reports < MaxReports
    /\ report' = r /\ reports' = reports + 1
    /\ attempt' = 0 /\ fetched' = FALSE /\ result' = FALSE /\ fetches' = 0
    /\ disturbed' = (program = "attest" /\ orphan # {})
    /\ Goto(IF program = "npb" /\ ~r.claims THEN "done" ELSE "store")
    /\ UNCHANGED <<program, cache, orphan, faults>>

\* report.bin, and for "npb" the directory with links to the certificates of
\* the manufacturer.
Store ==
    /\ pc = "store"
    /\ \/ Works /\ Goto(IF program = "npb" THEN "stat" ELSE "fetch")
       \/ Fails /\ Goto("done")
    /\ UNCHANGED <<program, cache, report, attempt, fetched, result, orphan, reports,
                   fetches>>

Stat_AlwaysFetches ==
    /\ pc = "stat"
    /\ cache' = [cache EXCEPT ![Dir] = "none"] /\ Goto("fetch")
    /\ fetched' = FALSE
    /\ UNCHANGED <<program, report, attempt, result, orphan, reports, fetches,
                   disturbed, faults>>

\* A certificate that is there is used as it is.
Stat ==
    /\ pc = "stat"
    /\ IF cache[Dir] \in {"none", "empty"}
       THEN cache' = [cache EXCEPT ![Dir] = "none"] /\ Goto("fetch")
       ELSE UNCHANGED cache /\ Goto("certs")
    /\ fetched' = FALSE
    /\ UNCHANGED <<program, report, attempt, result, orphan, reports, fetches,
                   disturbed, faults>>

\* run_process or system starts "snpguest fetch".
FetchStarts ==
    /\ pc = "fetch" /\ Goto("fetching") /\ fetches' = fetches + 1
    /\ UNCHANGED <<program, cache, report, attempt, fetched, result, orphan, reports,
                   disturbed, faults>>

\* What a fetch that fails or is stopped leaves in the file.
Remains(content) == {content, "empty", "torn"}

\* "npb" gives up when the fetch fails; "attest" goes on with what is there.
FetchEnds ==
    /\ pc = "fetching"
    /\ \/ /\ Works /\ cache' = [cache EXCEPT ![Dir] = report.key]
          /\ fetched' = TRUE /\ Goto(IF program = "npb" THEN "certs" ELSE "attestation")
       \/ /\ Fails /\ \E c \in Remains(cache[Dir]) : cache' = [cache EXCEPT ![Dir] = c]
          /\ UNCHANGED fetched /\ Goto(IF program = "npb" THEN "done" ELSE "attestation")
    /\ UNCHANGED <<program, report, attempt, result, orphan, reports, fetches>>

Retry_FetchesAgain ==
    IF program = "attest" THEN Goto("done") /\ UNCHANGED <<attempt, cache>>
    ELSE /\ cache' = [cache EXCEPT ![Dir] = "none"]
         /\ attempt' = attempt + 1
         /\ Goto(IF attempt + 1 < 2 THEN "stat" ELSE "done")

\* A certificate that was fetched now is not fetched again; a cached one is
\* removed, and the loop has two attempts.
Retry ==
    IF fetched \/ program = "attest" THEN Goto("done") /\ UNCHANGED <<attempt, cache>>
    ELSE /\ cache' = [cache EXCEPT ![Dir] = "none"]
         /\ attempt' = attempt + 1
         /\ Goto(IF attempt + 1 < 2 THEN "stat" ELSE "done")

\* "snpguest verify certs": the file is a whole certificate.
VerifyCerts ==
    /\ pc = "certs"
    /\ \/ Works /\ cache[Dir] \in Keys /\ Goto("attestation") /\ UNCHANGED <<attempt, cache>>
       \/ Works /\ cache[Dir] \notin Keys /\ Retry
       \/ Fails /\ Retry
    /\ UNCHANGED <<program, report, fetched, result, orphan, reports, fetches>>

Passes == cache[Dir] = report.key /\ report.genuine

\* "snpguest verify attestation".
VerifyAttestation ==
    /\ pc = "attestation"
    /\ \/ Works /\ Passes /\ result' = TRUE /\ Goto("done") /\ UNCHANGED <<attempt, cache>>
       \/ Works /\ ~Passes /\ Retry /\ UNCHANGED result
       \/ Fails /\ Retry /\ UNCHANGED result
    /\ UNCHANGED <<program, report, fetched, orphan, reports, fetches>>
-----------------------------------------------------------------------------
ChildAfterCrash_LivesOn ==
    orphan' = orphan \cup {report.key} /\ UNCHANGED cache

\* npb_bind_child_to_parent: the child of run_process is killed with its
\* parent; the child of system is not.
ChildAfterCrash ==
    \/ /\ program = "npb" /\ UNCHANGED orphan
       /\ \E c \in Remains(cache[Dir]) \cup {report.key} : cache' = [cache EXCEPT ![Dir] = c]
    \/ program = "attest" /\ orphan' = orphan \cup {report.key} /\ UNCHANGED cache

\* The deadline of the enrollment passes, or the process is killed; another
\* master is started later.
Crash ==
    /\ pc \notin {"idle", "done"} /\ faults < MaxFaults /\ faults' = faults + 1
    /\ IF pc = "fetching" THEN ChildAfterCrash ELSE UNCHANGED <<cache, orphan>>
    /\ Goto("idle") /\ result' = FALSE
    /\ UNCHANGED <<program, report, attempt, fetched, reports, fetches, disturbed>>

\* A fetch without a parent opens its file, and ends.
OrphanWrites(k) ==
    /\ k \in orphan
    /\ \/ cache' = [cache EXCEPT ![DirOf(k)] = "torn"] /\ UNCHANGED orphan
       \/ cache' = [cache EXCEPT ![DirOf(k)] = k] /\ orphan' = orphan \ {k}
    /\ UNCHANGED <<program, pc, report, attempt, fetched, result, reports, fetches,
                   disturbed, faults>>

Finished ==
    /\ pc \in {"idle", "done"} /\ reports = MaxReports /\ UNCHANGED vars
-----------------------------------------------------------------------------
Next ==
    \/ \E r \in Reports : Begin(r)
    \/ Store \/ Stat \/ FetchStarts \/ FetchEnds \/ VerifyCerts \/ VerifyAttestation
    \/ Crash \/ \E k \in Keys : OrphanWrites(k)
    \/ Finished

Spec == Init /\ [][Next]_vars
-----------------------------------------------------------------------------
(* Properties *)

Good(r) == r.genuine /\ (program = "npb" => r.claims)

\* A report is accepted only if it is good; and a good one is accepted
\* whatever the cache held before, an empty, torn or wrong certificate left
\* by an earlier master included, unless a tool fails meanwhile or a fetch
\* of a dead master is still writing.
VerdictRight ==
    pc = "done" => /\ result => Good(report)
                   /\ Good(report) /\ ~disturbed => result

\* A verification fetches at most once, and after it accepted a report the
\* certificate of its key is in its directory, so the next one needs none.
CacheUsable ==
    /\ fetches <= 1
    /\ pc = "done" /\ result /\ ~disturbed => cache[Dir] = report.key

\* The certificate in the directory of its key is lost only to a report that
\* does not pass, to a failing tool or to a crash; a good report never costs
\* the certificate it can be verified with.
CertificateKept ==
    [][\A k \in Keys : program = "npb" /\ cache[k] = k /\ cache'[k] # k =>
          report.key = k /\ (~report.genuine \/ disturbed')]_vars
=============================================================================
