-------------------------- MODULE VcekCache_proofs ---------------------------
(***************************************************************************)
(* Proofs about VcekCache for any chips, any number of reports and any     *)
(* number of faults.                                                       *)
(***************************************************************************)
EXTENDS VcekCache, TLAPS

-----------------------------------------------------------------------------
(* The inductive invariant *)

Working == {"store", "stat", "fetch", "fetching", "certs", "attestation"}

Types ==
    /\ program \in {"npb", "attest"} /\ cache \in [Dirs -> Content]
    /\ pc \in Working \cup {"idle", "done"} /\ report \in Reports
    /\ attempt \in Nat /\ fetches \in Nat
    /\ fetched \in BOOLEAN /\ result \in BOOLEAN /\ disturbed \in BOOLEAN

\* Only a fetch of "attest" outlives its master, and a verification that
\* meets one is disturbed.
Orphans ==
    /\ program = "npb" => orphan = {}
    /\ pc # "idle" /\ ~disturbed => orphan = {}

\* A verification that went past the claims has good ones.
Claims == program = "npb" /\ pc \in Working => report.claims

\* The fetched certificate is the one of the report.
Fetched == cache[Dir] = report.key

AtStart == pc = "store" => attempt = 0 /\ fetches = 0 /\ ~fetched

\* After a failed attempt there is no certificate, so the next one fetches.
AtStat ==
    pc = "stat" => /\ program = "npb" /\ fetches = 0 /\ ~fetched
                   /\ attempt = 0 \/ (attempt = 1 /\ cache[Dir] = "none")

AtFetch ==
    pc \in {"fetch", "fetching"} =>
        /\ ~fetched /\ fetches = (IF pc = "fetch" THEN 0 ELSE 1)
        /\ program = "npb" => cache[Dir] = "none"

\* A certificate that was not fetched now is looked at in the first attempt.
AtVerify ==
    /\ pc = "certs" => program = "npb"
    /\ pc \in {"certs", "attestation"} /\ program = "npb" =>
           IF fetched THEN fetches = 1 /\ Fetched ELSE fetches = 0 /\ attempt = 0
    /\ pc = "attestation" /\ program = "npb" => cache[Dir] \in Keys
    /\ pc = "attestation" /\ program = "attest" => fetches = 1 /\ (~disturbed => Fetched)

AtDone ==
    /\ result => pc = "done" /\ Good(report)
    /\ pc = "done" /\ Good(report) /\ ~disturbed => result
    /\ result /\ ~disturbed => Fetched

IInv ==
    /\ Types /\ Orphans /\ Claims /\ fetches <= 1
    /\ AtStart /\ AtStat /\ AtFetch /\ AtVerify /\ AtDone
-----------------------------------------------------------------------------
(* The directories *)

LEMMA Directories ==
    ASSUME Types
    PROVE  /\ report.key \in Keys /\ Dir \in Dirs /\ cache[Dir] \in Content
           /\ \A k \in Keys : DirOf(k) \in Dirs
           /\ Keys \subseteq Content /\ {"none", "empty", "torn"} \subseteq Content
  BY DEF Types, Reports, Dir, DirOf, Dirs, Content

LEMMA Written ==
    ASSUME NEW f, f \in [Dirs -> Content], NEW d \in Dirs, NEW c \in Content
    PROVE  /\ [f EXCEPT ![d] = c] \in [Dirs -> Content]
           /\ [f EXCEPT ![d] = c][d] = c
           /\ \A e \in Dirs : e # d => [f EXCEPT ![d] = c][e] = f[e]
  OBVIOUS

LEMMA NotKeys == "none" \notin Keys /\ "empty" \notin Keys /\ "torn" \notin Keys
  BY VcekCacheAssumption

-----------------------------------------------------------------------------
(* Every step keeps the invariant *)

LEMMA InitInvariant == Init => IInv
<1> SUFFICES ASSUME Init PROVE IInv
  OBVIOUS
<1>1. /\ program \in {"npb", "attest"} /\ cache \in [Dirs -> Content] /\ pc = "idle"
      /\ report \in Reports /\ attempt = 0 /\ fetches = 0 /\ fetched = FALSE
      /\ result = FALSE /\ disturbed = FALSE /\ orphan = {}
  BY DEF Init
<1>2. Types /\ fetches <= 1
  <2>1. attempt \in Nat /\ fetches \in Nat /\ fetches <= 1
    BY ONLY <1>1
  <2>2. fetched \in BOOLEAN /\ result \in BOOLEAN /\ disturbed \in BOOLEAN
    BY ONLY <1>1
  <2> QED
    BY <1>1, <2>1, <2>2 DEF Types, Working
<1>3. Orphans /\ Claims /\ AtStart /\ AtStat /\ AtFetch /\ AtVerify
  BY <1>1 DEF Orphans, Claims, AtStart, AtStat, AtFetch, AtVerify, Working
<1>4. AtDone
  BY <1>1 DEF AtDone
<1> QED
  BY <1>2, <1>3, <1>4 DEF IInv

LEMMA BeginInvariant ==
    ASSUME IInv, NEW r \in Reports, Begin(r)
    PROVE  IInv'
<1>1. /\ pc' = IF program = "npb" /\ ~r.claims THEN "done" ELSE "store"
      /\ report' = r /\ attempt' = 0 /\ fetched' = FALSE /\ result' = FALSE /\ fetches' = 0
      /\ program' = program /\ cache' = cache /\ orphan' = orphan
  BY DEF Begin, Goto
<1>2. Types'
  <2>1. disturbed' \in BOOLEAN
    BY DEF Begin
  <2> QED
    BY <1>1, <2>1 DEF IInv, Types, Working
<1>3. Orphans'
  BY <1>1 DEF Begin, IInv, Types, Orphans
<1>4. Claims' /\ (fetches <= 1)'
  BY <1>1 DEF Claims, Working
<1>5. AtStart' /\ AtStat' /\ AtFetch' /\ AtVerify'
  BY <1>1 DEF AtStart, AtStat, AtFetch, AtVerify
<1>6. AtDone'
  BY <1>1 DEF AtDone, Good
<1> QED
  BY <1>2, <1>3, <1>4, <1>5, <1>6 DEF IInv

LEMMA StoreInvariant == IInv /\ Store => IInv'
<1> SUFFICES ASSUME IInv, Store PROVE IInv'
  OBVIOUS
<1> USE DEF IInv, Types, Orphans, Claims, AtStart, AtStat, AtFetch, AtVerify, AtDone,
      Working, Goto, Fetched, Good
<1>1. /\ pc = "store" /\ attempt = 0 /\ fetches = 0 /\ ~fetched /\ result = FALSE
      /\ UNCHANGED <<program, cache, report, attempt, fetched, result, orphan, fetches>>
      /\ Dir' = Dir
  BY DEF Store, Dir, DirOf
<1>2. CASE Works /\ pc' = IF program = "npb" THEN "stat" ELSE "fetch"
  BY <1>1, <1>2 DEF Works
<1>3. CASE Fails /\ pc' = "done"
  <2>1. disturbed' = TRUE
    BY <1>3 DEF Fails
  <2> QED
    BY <1>1, <1>3, <2>1
<1> QED
  BY <1>2, <1>3 DEF Store

LEMMA StatInvariant == IInv /\ Stat => IInv'
<1> SUFFICES ASSUME IInv, Stat PROVE IInv'
  OBVIOUS
<1> USE DEF IInv, Types, Orphans, Claims, AtStart, AtStat, AtFetch, AtVerify, AtDone,
      Working, Goto, Fetched, Good
<1>1. /\ pc = "stat" /\ program = "npb" /\ fetches = 0 /\ ~fetched /\ result = FALSE
      /\ attempt = 0 \/ (attempt = 1 /\ cache[Dir] = "none")
      /\ UNCHANGED <<program, report, attempt, result, orphan, fetches, disturbed>>
      /\ fetched' = FALSE /\ Dir' = Dir
  BY DEF Stat, Dir, DirOf
<1>2. CASE cache[Dir] \in {"none", "empty"}
  <2>1. cache' = [cache EXCEPT ![Dir] = "none"] /\ pc' = "fetch"
    BY <1>2 DEF Stat
  <2>2. cache' \in [Dirs -> Content] /\ cache'[Dir] = "none"
    BY <2>1, Directories, Written
  <2> QED
    BY <1>1, <2>1, <2>2
<1>3. CASE cache[Dir] \notin {"none", "empty"}
  <2>1. cache' = cache /\ pc' = "certs" /\ attempt = 0
    BY <1>1, <1>3 DEF Stat
  <2> QED
    BY <1>1, <2>1
<1> QED
  BY <1>2, <1>3

LEMMA FetchStartsInvariant == IInv /\ FetchStarts => IInv'
  BY DEF FetchStarts, Goto, IInv, Types, Orphans, Claims, AtStart, AtStat, AtFetch,
      AtVerify, AtDone, Working, Dir, DirOf, Fetched, Good

LEMMA FetchEndsInvariant == IInv /\ FetchEnds => IInv'
<1> SUFFICES ASSUME IInv, FetchEnds PROVE IInv'
  OBVIOUS
<1> USE DEF IInv, Types, Orphans, Claims, AtStart, AtStat, AtFetch, AtVerify, AtDone,
      Working, Goto, Fetched, Good
<1>1. /\ pc = "fetching" /\ ~fetched /\ fetches = 1 /\ result = FALSE
      /\ UNCHANGED <<program, report, attempt, result, orphan, fetches>> /\ Dir' = Dir
  BY DEF FetchEnds, Dir, DirOf
<1>2. ASSUME Works, cache' = [cache EXCEPT ![Dir] = report.key], fetched' = TRUE,
             pc' = IF program = "npb" THEN "certs" ELSE "attestation"
      PROVE  IInv'
  <2>1. cache' \in [Dirs -> Content] /\ cache'[Dir] = report.key
    BY <1>2, Directories, Written
  <2>2. disturbed' = disturbed
    BY <1>2 DEF Works
  <2> QED
    BY <1>1, <1>2, <2>1, <2>2
<1>3. ASSUME Fails, NEW c \in Remains(cache[Dir]), cache' = [cache EXCEPT ![Dir] = c],
             fetched' = fetched, pc' = IF program = "npb" THEN "done" ELSE "attestation"
      PROVE  IInv'
  <2>1. cache' \in [Dirs -> Content]
    BY <1>3, Directories, Written DEF Remains
  <2>2. disturbed' = TRUE
    BY <1>3 DEF Fails
  <2> QED
    BY <1>1, <1>3, <2>1, <2>2
<1> QED
  BY <1>2, <1>3 DEF FetchEnds

\* A verification that is not over and whose certificate was not fetched now
\* starts its second attempt; another one ends.
LEMMA RetryInvariant ==
    ASSUME IInv, pc \in {"certs", "attestation"}, Retry, disturbed' \in BOOLEAN,
           UNCHANGED <<program, report, fetched, result, orphan, fetches>>,
           disturbed => disturbed',
           fetched \/ program = "attest" => disturbed' \/ ~report.genuine
    PROVE  IInv'
<1> USE DEF IInv, Types, Orphans, Claims, AtStart, AtStat, AtFetch, AtVerify, AtDone,
      Working, Goto, Fetched, Good
<1>1. Dir' = Dir /\ result = FALSE
  BY DEF Dir, DirOf
<1>2. CASE fetched \/ program = "attest"
  <2>1. pc' = "done" /\ UNCHANGED <<attempt, cache>>
    BY <1>2 DEF Retry
  <2> QED
    BY <1>1, <1>2, <2>1
<1>3. CASE ~fetched /\ program = "npb"
  <2>1. attempt = 0 /\ fetches = 0
    BY <1>3
  <2>2. cache' = [cache EXCEPT ![Dir] = "none"] /\ attempt' = 1 /\ pc' = "stat"
    BY <1>3, <2>1 DEF Retry
  <2>3. cache' \in [Dirs -> Content] /\ cache'[Dir] = "none"
    BY <2>2, Directories, Written
  <2> QED
    BY <1>1, <1>3, <2>1, <2>2, <2>3
<1> QED
  BY <1>2, <1>3

LEMMA VerifyCertsInvariant == IInv /\ VerifyCerts => IInv'
<1> SUFFICES ASSUME IInv, VerifyCerts PROVE IInv'
  OBVIOUS
<1>1. /\ pc = "certs" /\ program = "npb" /\ report.key \in Keys
      /\ UNCHANGED <<program, report, fetched, result, orphan, fetches>>
  BY Directories DEF VerifyCerts, IInv, AtVerify
<1>2. ASSUME Works, cache[Dir] \in Keys, pc' = "attestation", UNCHANGED <<attempt, cache>>
      PROVE  IInv'
  BY <1>1, <1>2 DEF Works, IInv, Types, Orphans, Claims, AtStart, AtStat, AtFetch, AtVerify,
      AtDone, Working, Fetched, Good, Dir, DirOf
<1>3. ASSUME Works, cache[Dir] \notin Keys, Retry PROVE IInv'
  <2>1. ~fetched
    BY <1>1, <1>3 DEF IInv, AtVerify, Fetched
  <2>2. disturbed' = disturbed /\ disturbed \in BOOLEAN
    BY <1>3 DEF Works, IInv, Types
  <2> QED
    BY <1>1, <1>3, <2>1, <2>2, RetryInvariant
<1>4. ASSUME Fails, Retry PROVE IInv'
  <2>1. disturbed' = TRUE
    BY <1>4 DEF Fails
  <2> QED
    BY <1>1, <1>4, <2>1, RetryInvariant
<1> QED
  BY <1>2, <1>3, <1>4 DEF VerifyCerts, Goto

LEMMA VerifyAttestationInvariant == IInv /\ VerifyAttestation => IInv'
<1> SUFFICES ASSUME IInv, VerifyAttestation PROVE IInv'
  OBVIOUS
<1>1. /\ pc = "attestation" /\ program \in {"npb", "attest"}
      /\ UNCHANGED <<program, report, fetched, orphan, fetches>>
  BY DEF VerifyAttestation, IInv, Types
<1>2. ASSUME Works, Passes, result' = TRUE, pc' = "done", UNCHANGED <<attempt, cache>>
      PROVE  IInv'
  BY <1>1, <1>2 DEF Works, Passes, IInv, Types, Orphans, Claims, AtStart, AtStat, AtFetch,
      AtVerify, AtDone, Working, Fetched, Good, Dir, DirOf
<1>3. ASSUME Works, ~Passes, Retry, result' = result PROVE IInv'
  <2>1. disturbed' = disturbed /\ disturbed \in BOOLEAN
    BY <1>3 DEF Works, IInv, Types
  <2>2. fetched \/ program = "attest" => disturbed' \/ ~report.genuine
    BY <1>1, <1>3, <2>1 DEF IInv, AtVerify, Fetched, Passes
  <2> QED
    BY <1>1, <1>3, <2>1, <2>2, RetryInvariant
<1>4. ASSUME Fails, Retry, result' = result PROVE IInv'
  <2>1. disturbed' = TRUE
    BY <1>4 DEF Fails
  <2> QED
    BY <1>1, <1>4, <2>1, RetryInvariant
<1> QED
  BY <1>2, <1>3, <1>4 DEF VerifyAttestation, Goto

LEMMA CrashInvariant == IInv /\ Crash => IInv'
<1> SUFFICES ASSUME IInv, Crash PROVE IInv'
  OBVIOUS
<1>1. /\ pc' = "idle" /\ result' = FALSE
      /\ UNCHANGED <<program, report, attempt, fetched, fetches, disturbed>>
  BY DEF Crash, Goto
<1>2. cache' \in [Dirs -> Content] /\ (program = "npb" => orphan' = {})
  <2>1. CASE pc = "fetching" /\ program = "npb"
    <3>1. PICK c \in Remains(cache[Dir]) \cup {report.key} : cache' = [cache EXCEPT ![Dir] = c]
      BY <2>1 DEF Crash, ChildAfterCrash
    <3>2. c \in Content
      BY Directories DEF IInv, Remains
    <3>3. orphan' = {}
      BY <2>1 DEF Crash, ChildAfterCrash, IInv, Orphans
    <3> QED
      BY <3>1, <3>2, <3>3, Directories, Written DEF IInv, Types
  <2>2. CASE ~(pc = "fetching" /\ program = "npb")
    BY <2>2 DEF Crash, ChildAfterCrash, IInv, Types, Orphans
  <2> QED
    BY <2>1, <2>2
<1> QED
  BY <1>1, <1>2 DEF IInv, Types, Orphans, Claims, AtStart, AtStat, AtFetch, AtVerify, AtDone,
      Working

LEMMA OrphanInvariant ==
    ASSUME IInv, NEW k \in Keys, OrphanWrites(k)
    PROVE  IInv'
<1>1. /\ UNCHANGED <<program, pc, report, attempt, fetched, result, fetches, disturbed>>
      /\ Dir' = Dir /\ orphan # {}
  BY DEF OrphanWrites, Dir, DirOf
<1>2. program = "attest" /\ (pc = "idle" \/ disturbed)
  BY <1>1 DEF IInv, Types, Orphans
<1>3. cache' \in [Dirs -> Content]
  BY Directories, Written DEF OrphanWrites, IInv, Types
<1> QED
  BY <1>1, <1>2, <1>3 DEF IInv, Types, Orphans, Claims, AtStart, AtStat, AtFetch, AtVerify,
      AtDone, Working, Fetched, Good

LEMMA NextInvariant == IInv /\ [Next]_vars => IInv'
<1> SUFFICES ASSUME IInv, [Next]_vars PROVE IInv'
  OBVIOUS
<1>1. CASE Finished \/ UNCHANGED vars
  BY <1>1 DEF Finished, vars, IInv, Types, Orphans, Claims, AtStart, AtStat, AtFetch,
      AtVerify, AtDone, Working, Fetched, Good, Dir, DirOf
<1> QED
  BY <1>1, BeginInvariant, StoreInvariant, StatInvariant, FetchStartsInvariant,
     FetchEndsInvariant, VerifyCertsInvariant, VerifyAttestationInvariant, CrashInvariant,
     OrphanInvariant DEF Next

\* The invariant holds in every behaviour of verify_sev_snp_report.
THEOREM Invariance == Spec => []IInv
  BY InitInvariant, NextInvariant, PTL DEF Spec

-----------------------------------------------------------------------------
(* What follows from it *)

\* verify_sev_snp_report accepts only good reports, and every good one unless
\* a tool failed or a fetch of a dead master is still writing, for any
\* contents of the certificate directories.
THEOREM VerdictIsRight == Spec => []VerdictRight
<1>1. IInv => VerdictRight
  BY DEF IInv, AtDone, VerdictRight
<1> QED
  BY <1>1, Invariance, PTL

\* A verification runs "snpguest fetch" at most once, and leaves the
\* certificate of an accepted report in its directory.
THEOREM CacheIsUsable == Spec => []CacheUsable
<1>1. IInv => CacheUsable
  BY DEF IInv, AtDone, Fetched, CacheUsable
<1> QED
  BY <1>1, Invariance, PTL

\* No step takes the certificate of a key out of its directory but a
\* verification of that key's report that does not pass or is disturbed.
THEOREM CertificatesKept == Spec => CertificateKept
<1> DEFINE A(k) == program = "npb" /\ cache[k] = k /\ cache'[k] # k =>
                      report.key = k /\ (~report.genuine \/ disturbed')
<1>1. IInv /\ [Next]_vars => [\A k \in Keys : A(k)]_vars
  <2> SUFFICES ASSUME IInv, Next, NEW k \in Keys, program = "npb", cache[k] = k,
                      cache'[k] # k
               PROVE  report.key = k /\ (~report.genuine \/ disturbed')
    OBVIOUS
  <2>1. /\ report.key \in Keys /\ Dir = report.key /\ orphan = {} /\ k \in Dirs
        /\ cache \in [Dirs -> Content]
    BY Directories DEF IInv, Types, Orphans, Dir, DirOf, Dirs
  <2>2. Stat => k = Dir /\ cache[Dir] \in {"none", "empty"}
    BY <2>1 DEF Stat
  <2>3. ~Stat
    BY <2>2, NotKeys
  <2>4. pc \in {"fetching"} => cache[Dir] # k
    BY NotKeys DEF IInv, AtFetch
  <2>5. ~FetchEnds
    BY <2>1, <2>4 DEF FetchEnds
  <2>6. ~Crash
    BY <2>1, <2>4 DEF Crash, ChildAfterCrash
  <2>7. CASE VerifyCerts
    <3>1. Retry /\ (Fails \/ cache[Dir] \notin Keys)
      BY <2>7 DEF VerifyCerts
    <3>2. k = Dir
      BY <3>1, <2>1 DEF Retry
    <3> QED
      BY <3>1, <3>2, <2>1 DEF Fails
  <2>8. CASE VerifyAttestation
    <3>1. Retry /\ (Fails \/ ~Passes)
      BY <2>8 DEF VerifyAttestation
    <3>2. k = Dir
      BY <3>1, <2>1 DEF Retry
    <3> QED
      BY <3>1, <3>2, <2>1 DEF Fails, Passes
  <2>9. VerifyCerts \/ VerifyAttestation
    BY <2>1, <2>3, <2>5, <2>6
    DEF Next, Begin, Store, FetchStarts, OrphanWrites, Finished, vars
  <2> QED
    BY <2>7, <2>8, <2>9
<1> QED
  BY <1>1, Invariance, PTL DEF Spec, CertificateKept
=============================================================================
