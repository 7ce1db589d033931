-------------------------------- MODULE Fort ---------------------------------
(***************************************************************************)
(* How a Ray worker gets its TLS files: refresh-server-cert.sh makes the   *)
(* identity of the Fort server and builds it into the worker image,        *)
(* run-scaling-sev.sh (and -nosnp) starts the server, the Ray head and the *)
(* worker VMs, and in each VM fort-client and then ray_init.sh run.        *)
(*                                                                         *)
(* What the processes have in common is files, which os.WriteFile creates  *)
(* or truncates first and fills later.  The TLS session, the exported      *)
(* authenticator and the verification of the evidence are symbolic: a      *)
(* worker is genuine or not.                                               *)
(*                                                                         *)
(* A definition X_Y is X with the bug Y put in; the specification does not *)
(* use it.                                                                 *)
(***************************************************************************)
EXTENDS Naturals, Sequences

CONSTANTS
    Workers,    \* worker VMs
    MaxStarts,  \* bound on the starts of the server
    Fault,      \* kinds of faults the environment may inject
    MaxFaults   \* bound on their number

ASSUME FortAssumption ==
    /\ MaxStarts \in Nat \ {0} /\ MaxFaults \in Nat
    /\ Fault \subseteq {"disk", "crash", "evidence", "silent", "kill"}

VARIABLES
    disk,      \* the server's files: the start they were made in (see below)
    spc,       \* where the server is
    todo,      \* the files it has still to write
    half,      \* the first of them is created and not yet filled
    starts,    \* starts of the server; each makes a CA of its own
    ident,     \* atlasCert: the start the identity in use was made in
    backlog,   \* connections the kernel holds for Accept
    cur,       \* the client whose handshake Accept is in
    conn,      \* each client's connection: none, csr, ca, closed, broken
    sent,      \* what the server has written to it
    script,    \* where the scripts on the host are
    pinned,    \* atls-server.crt in the worker image
    paired,    \* the key was there when the image was built (history)
    head,      \* what the Ray head read of its files
    cpc,       \* where each client is
    try,       \* its tries that came to the files
    next,      \* the file it writes next
    chalf,     \* that file is created and not yet filled
    files,     \* /root/ray-worker.crt, ray-worker.key, ca.crt
    ray,       \* what ray start read of them
    genuine,   \* workers whose evidence is accepted
    silent,    \* workers that stopped, with their connection open
    faults     \* faults injected so far

server  == <<disk, spc, todo, half, starts, ident, backlog, cur>>
network == <<conn, sent>>
host    == <<script, pinned, paired, head>>
client  == <<cpc, try, next, chalf, files, ray>>
env     == <<genuine, silent, faults>>
vars    == <<server, network, host, client, env>>

\* A file is absent, empty, or was filled in start n.
Absent  == 0
Empty   == MaxStarts + 1
Full(n) == n \in 1 .. MaxStarts

RayFiles      == <<"ca.crt", "head.crt", "head.key">>
IdentityFiles == <<"atls-server.crt", "atls-server.key">>
ServerFiles   == {"ca.crt", "head.crt", "head.key", "atls-server.crt", "atls-server.key",
                  "elsewhere"}

\* Relative paths: the refresh script stays in the directory it was called
\* from, where nobody reads these files.
RayFilesElsewhere == <<"elsewhere", "elsewhere", "elsewhere">>

\* A worker's file holds a try's key, a CA's signature, or both.
NoFile    == <<>>
EmptyFile == <<0, 0>>

WorkerFiles_CaFirst == <<"ca", "crt", "key">>

\* In the order they are written.
WorkerFiles == <<"crt", "key", "ca">>

NoFiles == [f \in {"crt", "key", "ca"} |-> NoFile]
NoHead  == [f \in {"ca.crt", "head.crt", "head.key"} |-> Absent]

Init ==
    /\ disk = [f \in ServerFiles |-> Absent]
    /\ spc = "off" /\ todo = <<>> /\ half = FALSE /\ starts = 0 /\ ident = 0
    /\ backlog = <<>> /\ cur \in Workers /\ cur = CHOOSE w \in Workers : TRUE
    /\ conn = [w \in Workers |-> "none"] /\ sent = [w \in Workers |-> <<>>]
    /\ script = "refresh" /\ pinned = Absent /\ paired = FALSE /\ head = NoHead
    /\ cpc = [w \in Workers |-> "off"] /\ try = [w \in Workers |-> 1]
    /\ next = [w \in Workers |-> 1] /\ chalf = [w \in Workers |-> FALSE]
    /\ files = [w \in Workers |-> NoFiles] /\ ray = [w \in Workers |-> NoFiles]
    /\ genuine \in SUBSET Workers /\ silent = {} /\ faults = 0

Inject(kind) == kind \in Fault /\ faults < MaxFaults /\ faults' = faults + 1
Works        == UNCHANGED faults

Set(f, w, v) == [f EXCEPT ![w] = v]
-----------------------------------------------------------------------------
(* The server *)

Handshaking == spc \in {"handshake", "auth"}
Listening   == spc = "accept" \/ Handshaking

\* The process is gone, its connections are reset.
ServerOff ==
    /\ spc' = "off" /\ todo' = <<>> /\ half' = FALSE /\ ident' = 0 /\ backlog' = <<>>
    /\ conn' = [w \in Workers |-> IF conn[w] = "closed" THEN "closed" ELSE "broken"]

CreateFile ==
    /\ spc \in {"write", "generate"} /\ ~half
    /\ disk' = [disk EXCEPT ![Head(todo)] = Empty] /\ half' = TRUE
    /\ UNCHANGED <<spc, todo, starts, ident, backlog, cur, network, host, client, env>>

\* The identity is in use as soon as both of its files are written.
AfterFile ==
    IF Len(todo) > 1 THEN UNCHANGED <<spc, ident>>
    ELSE IF spc = "write" THEN spc' = "load" /\ UNCHANGED ident
    ELSE spc' = "accept" /\ ident' = starts

\* A write that fails is fatal.
FillFile ==
    /\ spc \in {"write", "generate"} /\ half
    /\ \/ /\ Works /\ disk' = [disk EXCEPT ![Head(todo)] = starts]
          /\ todo' = Tail(todo) /\ half' = FALSE /\ AfterFile
          /\ UNCHANGED <<backlog, conn>>
       \/ Inject("disk") /\ ServerOff /\ UNCHANGED disk
    /\ UNCHANGED <<starts, cur, sent, host, client, genuine, silent>>

Load_Anew ==
    /\ spc = "load"
    /\ spc' = "generate" /\ todo' = IdentityFiles
    /\ UNCHANGED <<disk, half, starts, ident, backlog, cur, network, host, client, env>>

\* loadOrGenerateATLSCert: both files are there and belong together, or are
\* there and do not, which is fatal, or one is missing and both are made.
Load ==
    LET crt == disk["atls-server.crt"]
        key == disk["atls-server.key"]
    IN  /\ spc = "load"
        /\ \/ /\ crt # Absent /\ key # Absent /\ Full(crt) /\ crt = key
              /\ ident' = crt /\ spc' = "accept" /\ UNCHANGED <<todo, half, backlog, conn>>
           \/ /\ crt # Absent /\ key # Absent /\ ~(Full(crt) /\ crt = key)
              /\ ServerOff
           \/ /\ crt = Absent \/ key = Absent
              /\ spc' = "generate" /\ todo' = IdentityFiles
              /\ UNCHANGED <<half, ident, backlog, conn>>
        /\ UNCHANGED <<disk, starts, cur, sent, host, client, env>>

\* Listener.Accept: one connection after the other, each with its handshake.
Accept ==
    /\ spc = "accept" /\ backlog # <<>>
    /\ cur' = Head(backlog) /\ backlog' = Tail(backlog) /\ spc' = "handshake"
    /\ UNCHANGED <<disk, todo, half, starts, ident, network, host, client, env>>

\* The TLS handshake, in which the client compares the server's certificate
\* with the pinned one, and the authenticator request.
Handshake ==
    /\ spc = "handshake" /\ cpc[cur] = "tls" /\ cur \notin silent
    /\ IF pinned = ident
       THEN spc' = "auth" /\ cpc' = Set(cpc, cur, "evidence")
       ELSE spc' = "accept" /\ cpc' = Set(cpc, cur, "sleep")
    /\ UNCHANGED <<disk, todo, half, starts, ident, backlog, cur, network, host,
                   try, next, chalf, files, ray, env>>

\* ValidateAuthenticatorWithAttestation; then Accept returns and handleConn
\* has a goroutine of its own.
Validate ==
    /\ spc = "auth" /\ cpc[cur] = "read"
    /\ spc' = "accept"
    /\ conn' = Set(conn, cur, IF cur \in genuine THEN "csr" ELSE "closed")
    /\ UNCHANGED <<disk, todo, half, starts, ident, backlog, cur, sent, host, client, env>>

\* signCSR, and the worker's certificate goes out.
IssueCert(w) ==
    /\ conn[w] = "csr"
    /\ sent' = Set(sent, w, <<starts>>) /\ conn' = Set(conn, w, "ca")
    /\ UNCHANGED <<server, host, client, env>>

SendCA_KeepsOpen(w) ==
    /\ conn[w] = "ca"
    /\ sent' = Set(sent, w, Append(sent[w], starts)) /\ conn' = Set(conn, w, "none")
    /\ UNCHANGED <<server, host, client, env>>

\* The CA's certificate, and the deferred close.
SendCA(w) ==
    /\ conn[w] = "ca"
    /\ sent' = Set(sent, w, Append(sent[w], starts)) /\ conn' = Set(conn, w, "closed")
    /\ UNCHANGED <<server, host, client, env>>
-----------------------------------------------------------------------------
(* A worker: fort-client, then ray_init.sh *)

Able(w) == w \notin silent

\* The client closes its connection; the server's end of it fails.
Hangup(w) ==
    /\ spc' = IF Handshaking /\ cur = w THEN "accept" ELSE spc
    /\ backlog' = SelectSeq(backlog, LAMBDA v : v # w)
    /\ conn' = Set(conn, w, "none")

Boot(w) ==
    /\ script = "run" /\ cpc[w] = "off"
    /\ cpc' = Set(cpc, w, "dial")
    /\ UNCHANGED <<server, network, host, try, next, chalf, files, ray, env>>

\* A fresh key and CSR, the pinned certificate is read, and net.Dial.
Dial(w) ==
    /\ cpc[w] = "dial" /\ Able(w)
    /\ IF Full(pinned) /\ Listening
       THEN /\ cpc' = Set(cpc, w, "tls") /\ backlog' = Append(backlog, w)
            /\ conn' = Set(conn, w, "none") /\ sent' = Set(sent, w, <<>>)
       ELSE cpc' = Set(cpc, w, "sleep") /\ UNCHANGED <<backlog, network>>
    /\ UNCHANGED <<disk, spc, todo, half, starts, ident, cur, host,
                   try, next, chalf, files, ray, env>>

\* connectRetryInterval.
Sleep(w) ==
    /\ cpc[w] = "sleep" /\ Able(w)
    /\ cpc' = Set(cpc, w, "dial")
    /\ UNCHANGED <<server, network, host, try, next, chalf, files, ray, env>>

\* The authenticator with the evidence, and at once the CSR.
SendEvidence(w) ==
    /\ cpc[w] = "evidence" /\ Able(w) /\ conn[w] # "broken"
    /\ \/ Works /\ cpc' = Set(cpc, w, "read") /\ UNCHANGED <<spc, backlog, conn>>
       \/ Inject("evidence") /\ cpc' = Set(cpc, w, "sleep") /\ Hangup(w)
    /\ UNCHANGED <<disk, todo, half, starts, ident, cur, sent, host,
                   try, next, chalf, files, ray, genuine, silent>>

ConnectionLost(w) ==
    /\ cpc[w] \in {"tls", "evidence", "read"} /\ Able(w) /\ conn[w] = "broken"
    /\ cpc' = Set(cpc, w, "sleep")
    /\ UNCHANGED <<server, network, host, try, next, chalf, files, ray, env>>

\* io.ReadAll and splitCerts: both certificates, or another try.
ReadCerts(w) ==
    /\ cpc[w] = "read" /\ Able(w) /\ conn[w] = "closed"
    /\ cpc' = Set(cpc, w, IF Len(sent[w]) = 2 THEN "write" ELSE "sleep")
    /\ next' = Set(next, w, 1)
    /\ UNCHANGED <<server, network, host, try, chalf, files, ray, env>>

Content(w, f) ==
    CASE f = "crt" -> <<try[w], sent[w][1]>>
      [] f = "key" -> <<try[w], 0>>
      [] f = "ca"  -> <<0, sent[w][2]>>

CreateWorkerFile(w) ==
    /\ cpc[w] = "write" /\ Able(w) /\ ~chalf[w]
    /\ files' = [files EXCEPT ![w][WorkerFiles[next[w]]] = EmptyFile]
    /\ chalf' = Set(chalf, w, TRUE)
    /\ UNCHANGED <<server, network, host, cpc, try, next, ray, env>>

\* A write that fails leads to another try, with another key.
FillWorkerFile(w) ==
    LET f == WorkerFiles[next[w]]
    IN  /\ cpc[w] = "write" /\ Able(w) /\ chalf[w]
        /\ chalf' = Set(chalf, w, FALSE)
        /\ \/ /\ Works /\ files' = [files EXCEPT ![w][f] = Content(w, f)]
              /\ IF next[w] < Len(WorkerFiles)
                 THEN next' = Set(next, w, next[w] + 1) /\ UNCHANGED cpc
                 ELSE cpc' = Set(cpc, w, "done") /\ UNCHANGED next
              /\ UNCHANGED try
           \/ /\ Inject("disk") /\ cpc' = Set(cpc, w, "sleep")
              /\ try' = Set(try, w, try[w] + 1) /\ UNCHANGED <<next, files>>
        /\ UNCHANGED <<server, network, host, ray, genuine, silent>>

\* fort-init.service is ordered after the end of fort-client, whatever its
\* result; ray_init.sh waits for the three files and ray start reads them.
RayStart(w) ==
    /\ cpc[w] \in {"done", "dead"} /\ ray[w] = NoFiles
    /\ \A f \in DOMAIN NoFiles : files[w][f] # NoFile
    /\ ray' = Set(ray, w, files[w])
    /\ UNCHANGED <<server, network, host, cpc, try, next, chalf, files, env>>
-----------------------------------------------------------------------------
(* The scripts on the host *)

StartServer(removed, rayfiles) ==
    /\ starts < MaxStarts /\ starts' = starts + 1
    /\ disk' = [f \in ServerFiles |-> IF f \in removed THEN Absent ELSE disk[f]]
    /\ spc' = "write" /\ todo' = rayfiles /\ half' = FALSE
    /\ UNCHANGED <<ident, backlog, cur, network, pinned, paired, head, client, env>>

\* refresh-server-cert.sh.
RefreshStart ==
    /\ script = "refresh" /\ script' = "refresh_wait"
    /\ StartServer({"atls-server.crt", "atls-server.key"}, RayFilesElsewhere)

\* The script waits for the certificate, for ten seconds, and then kills
\* the server.
RefreshStop ==
    /\ script = "refresh_wait"
    /\ script' = IF disk["atls-server.crt"] # Absent THEN "copy" ELSE "failed"
    /\ ServerOff
    /\ UNCHANGED <<disk, starts, cur, sent, pinned, paired, head, client, env>>

\* The certificate is copied and the image is built.
Copy ==
    /\ script = "copy" /\ script' = "campaign"
    /\ pinned' = disk["atls-server.crt"]
    /\ paired' = (Full(disk["atls-server.crt"])
                  /\ disk["atls-server.key"] = disk["atls-server.crt"])
    /\ UNCHANGED <<server, network, head, client, env>>

\* run-scaling-sev.sh.
CampaignStart ==
    /\ script = "campaign" /\ script' = "campaign_wait"
    /\ StartServer({"ca.crt", "head.crt", "head.key"}, RayFiles)

\* cleanup: server, Ray and VMs are stopped.
CleanUp ==
    /\ ServerOff /\ script' = "campaign" /\ head' = NoHead
    /\ cpc' = [w \in Workers |-> "off"] /\ try' = [w \in Workers |-> 1]
    /\ next' = [w \in Workers |-> 1] /\ chalf' = [w \in Workers |-> FALSE]
    /\ files' = [w \in Workers |-> NoFiles] /\ ray' = [w \in Workers |-> NoFiles]
    /\ silent' = {}
    /\ UNCHANGED <<disk, starts, cur, sent, pinned, paired, genuine, faults>>

\* "Verifier ready": the script waits for ca.crt, for ten seconds.
CampaignReady ==
    /\ script = "campaign_wait"
    /\ \/ disk["ca.crt"] # Absent /\ script' = "head"
          /\ UNCHANGED <<server, network, pinned, paired, head, client, env>>
       \/ disk["ca.crt"] = Absent /\ CleanUp

\* ray start --head reads its files, or ends the script.
HeadStart ==
    LET usable == \A f \in DOMAIN NoHead : Full(disk[f])
    IN  /\ script = "head"
        /\ \/ /\ usable /\ script' = "run" /\ head' = [f \in DOMAIN NoHead |-> disk[f]]
              /\ UNCHANGED <<server, network, pinned, paired, client, env>>
           \/ ~usable /\ CleanUp

\* The campaign is over or was stopped.
EndCampaign == script = "run" /\ CleanUp
-----------------------------------------------------------------------------
(* Faults *)

ServerCrash ==
    /\ spc # "off" /\ Inject("crash") /\ ServerOff
    /\ UNCHANGED <<disk, starts, cur, sent, host, client, genuine, silent>>

\* A client or its VM stops in the middle of something, and its kernel
\* keeps the connection.
FallSilent(w) ==
    /\ cpc[w] \notin {"off", "done", "dead"} /\ Able(w) /\ Inject("silent")
    /\ silent' = silent \cup {w}
    /\ UNCHANGED <<server, network, host, client, genuine>>

KillClient(w) ==
    /\ cpc[w] \notin {"off", "done", "dead"} /\ Able(w) /\ Inject("kill")
    /\ cpc' = Set(cpc, w, "dead") /\ Hangup(w)
    /\ UNCHANGED <<disk, todo, half, starts, ident, cur, sent, host,
                   try, next, chalf, files, ray, genuine, silent>>

\* Nobody starts another campaign.
Finished ==
    /\ script = "failed" \/ starts = MaxStarts
    /\ UNCHANGED vars
-----------------------------------------------------------------------------
ServerStep == CreateFile \/ FillFile \/ Load \/ Accept \/ Handshake \/ Validate
Handler(w) == IssueCert(w) \/ SendCA(w)
ClientStep(w) ==
    \/ Boot(w) \/ Dial(w) \/ Sleep(w) \/ SendEvidence(w) \/ ConnectionLost(w)
    \/ ReadCerts(w) \/ CreateWorkerFile(w) \/ FillWorkerFile(w) \/ RayStart(w)
ScriptStep ==
    \/ RefreshStart \/ RefreshStop \/ Copy \/ CampaignStart \/ CampaignReady \/ HeadStart

Next ==
    \/ ServerStep \/ ScriptStep \/ EndCampaign \/ ServerCrash \/ Finished
    \/ \E w \in Workers : Handler(w) \/ ClientStep(w) \/ FallSilent(w) \/ KillClient(w)

Spec == Init /\ [][Next]_vars

\* Every process and goroutine is scheduled; nobody has to end a campaign.
FairSpec ==
    /\ Spec
    /\ WF_vars(ServerStep) /\ WF_vars(ScriptStep)
    /\ \A w \in Workers : WF_vars(Handler(w)) /\ WF_vars(ClientStep(w))
-----------------------------------------------------------------------------
(* Properties *)

\* Somebody may rely on identity n: certificate and key are both in their
\* files, or a worker image was built when they were.
Relied(n) ==
    \/ disk["atls-server.crt"] = n /\ disk["atls-server.key"] = n
    \/ paired /\ pinned = n

\* From then on, whatever crashes between any two writes and however often
\* the server is started again, no server listens with another identity:
\* loadOrGenerateATLSCert loads this one and never makes a new one.
IdentityKept ==
    \A n \in 1 .. MaxStarts : [](Relied(n) => [](Listening => ident = n))

\* What refresh-server-cert.sh says when it is done: the identity of the
\* server is baked into the worker image.
PinnedIdentityServed ==
    script \in {"campaign_wait", "head", "run"} /\ Listening => ident = pinned

\* Ray on a worker whose client is done, and Ray on any worker that has a CA
\* certificate, has a certificate for its own key, signed by the CA that the
\* worker and the head trust, although keys, CAs and files come and go with
\* tries, starts and campaigns.
RayTlsAgrees ==
    \A w \in Workers :
        ray[w] # NoFiles /\ (cpc[w] = "done" \/ ray[w].ca # EmptyFile) =>
            /\ ray[w].crt[1] = ray[w].key[1] /\ ray[w].key # EmptyFile
            /\ \A f \in DOMAIN head : head[f] = ray[w].crt[2]
            /\ ray[w].ca = <<0, ray[w].crt[2]>>

\* A campaign that goes on has every worker with good evidence in Ray in the
\* end (one that had joined an earlier campaign has to join again), unless
\* its client was ended or fell silent, the server is gone or has another
\* identity than the image, or Accept is in the handshake of a client that
\* fell silent: the handshake has no deadline and nobody else is accepted.
WorkersJoin ==
    \A w \in Workers :
        <>[](script = "run" /\ w \in genuine) =>
            \/ <>[](ray[w] # NoFiles)
            \/ <>[](cpc[w] = "dead" \/ w \in silent)
            \/ <>[](spc = "off")
            \/ <>[](Listening /\ ident # pinned)
            \/ <>[](Handshaking /\ cur \in silent)
=============================================================================
