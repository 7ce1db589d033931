--------------------------- MODULE StarEnrollment ----------------------------
(***************************************************************************)
(* Enrollment in master_star.c and worker_star.c (and their copies         *)
(* master.c and worker.c) and in master_attest.c and worker_attest.c, up   *)
(* to the task farm of TaskFarm.                                           *)
(*                                                                         *)
(* In every round the master opens a port, leaves its name in port.txt and *)
(* accepts one worker, which was started with a port name somebody read    *)
(* from that file.  No wait of either program has a deadline.              *)
(*                                                                         *)
(* The handshake of the two programs has the same shape: a challenge goes  *)
(* down, a key, a length and the report come up ("star" in three messages, *)
(* "attest" with a header and a hash over everything), a verdict and the   *)
(* public key of the master go down.                                       *)
(*                                                                         *)
(* A definition X_Y is X with the bug Y put in; the specification does not *)
(* use it.                                                                 *)
(***************************************************************************)
EXTENDS Integers, Sequences, FiniteSets

CONSTANTS
    NProc,       \* worker processes that may be started
    Target,      \* target: the rounds
    TableSizes,  \* the values of MAX_WORKERS to try
    Fault,       \* kinds of faults the environment may inject
    MaxFaults    \* bound on their number

ASSUME StarEnrollmentAssumption ==
    /\ NProc \in Nat \ {0} /\ Target \in Nat \ {0} /\ TableSizes \subseteq Nat \ {0}
    /\ Fault \subseteq {"damage", "kill", "report", "file", "memory"}
    /\ MaxFaults \in Nat

Proc == 1 .. NProc

VARIABLES
    program,      \* which of the two pairs of programs
    skip,         \* built with SKIP_ATTESTATION
    synchronous,  \* MPI_Send returns only when the message is received
    maxWorkers,   \* MAX_WORKERS
    genuine,      \* workers whose reports the verifier accepts
    file,         \* port.txt: the round of the port named there, 0 of none
    port,         \* the round of the port that is open, 0 of none
    net,          \* net[w][t]: message of tag t under way between master and w
    mpc,          \* where the master is
    round,        \* round
    cur,          \* inter: the worker of this round, 0 before the accept
    pos,          \* the receive of the handshake it is at
    got,          \* got[t]: what it received with tag t in this round
    verdict,      \* attest_ok
    slots,        \* workers[], wkey[]
    mcode,        \* exit code of the master
    wpc,          \* where each worker is
    wpos,         \* the send of the handshake it is at
    warg,         \* PORT
    wlen,         \* report_len, evidence_len
    wchal,        \* the challenge it received
    wkey,         \* g_session_key_bytes
    wcode,        \* exit code of each worker
    faults,       \* faults injected so far
    harmed        \* workers whose verdict or master key was damaged (history)

config == <<program, skip, synchronous, maxWorkers, genuine>>
master == <<file, port, mpc, round, cur, pos, got, verdict, slots, mcode>>
worker == <<wpc, wpos, warg, wlen, wchal, wkey, wcode>>
env    == <<faults, harmed>>
vars   == <<config, master, worker, net, env>>

DownTag == {"CHALLENGE", "RESULT", "SERVER_PK"}
UpTag   == {"PK", "LEN", "HDR", "DATA", "FINISHED"}

\* The messages of the worker, in the order of its sends and of the
\* master's receives; DATA is left out when the length is zero.
StarUps   == <<"PK", "LEN", "DATA">>
AttestUps == <<"HDR", "DATA", "FINISHED">>
Ups       == IF program = "star" THEN StarUps ELSE AttestUps

\* A length is that of the report, or differs from it in one of the ways
\* that matter to the receive of the report.
Length == {"none", "short", "exact", "long", "huge"}

\* report_data: what the report has to be about.
Binding(challenge, pk) == <<challenge, pk>>

Report(w, challenge) == [about |-> Binding(challenge, w), whole |-> TRUE]
Header(w, challenge, len) ==
    [pk |-> w, len |-> len, binding |-> Binding(challenge, w)]

\* The session key is made from both public keys.
Key(pk, serverPk) == <<pk, serverPk>>
NoKey == Key(0, 0)

NoMessages == [t \in DownTag \cup UpTag |-> <<>>]
Nothing    == [t \in UpTag |-> <<>>]

Init ==
    /\ program \in {"star", "attest"} /\ skip \in BOOLEAN /\ synchronous \in BOOLEAN
    /\ maxWorkers \in TableSizes /\ genuine \in SUBSET Proc
    /\ file = 0 /\ port = 0 /\ net = [w \in Proc |-> NoMessages]
    /\ mpc = "open" /\ round = 1 /\ cur = 0 /\ pos = 1 /\ got = Nothing
    /\ verdict = FALSE /\ slots = <<>> /\ mcode = 0
    /\ wpc = [w \in Proc |-> "idle"] /\ wpos = [w \in Proc |-> 1]
    /\ warg = [w \in Proc |-> 0] /\ wlen = [w \in Proc |-> "none"]
    /\ wchal = [w \in Proc |-> 0] /\ wkey = [w \in Proc |-> NoKey]
    /\ wcode = [w \in Proc |-> 0]
    /\ faults = 0 /\ harmed = {}
-----------------------------------------------------------------------------
(* mpi_send and mpi_recv *)

Arrived(w, t) == net[w][t] # <<>>
Post(w, t, v) == net' = [net EXCEPT ![w][t] = <<v>>]
Take(w, t)    == net' = [net EXCEPT ![w][t] = <<>>]

MasterFree    == synchronous => \A w \in Proc : \A t \in DownTag : ~Arrived(w, t)
WorkerFree(w) == synchronous => \A t \in UpTag : ~Arrived(w, t)
-----------------------------------------------------------------------------
(* The master *)

Inject(kind) == kind \in Fault /\ faults < MaxFaults /\ faults' = faults + 1

MasterGoto(pc) == mpc' = pc

MasterExit(code) == mpc' = "exited" /\ mcode' = code

\* MPI_Open_port, write_port_file: a reader sees the old name or the new one.
OpenPort ==
    /\ mpc = "open"
    /\ \/ /\ port' = round /\ file' = round /\ MasterGoto("accept")
          /\ UNCHANGED <<mcode, faults>>
       \/ Inject("file") /\ MasterExit(1) /\ port' = round /\ UNCHANGED file
    /\ UNCHANGED <<config, round, cur, pos, got, verdict, slots, worker, net, harmed>>

\* MPI_Comm_accept meets MPI_Comm_connect.
Accept(w) ==
    /\ mpc = "accept" /\ wpc[w] = "connect" /\ warg[w] = port
    /\ MasterGoto("barrier") /\ cur' = w
    /\ wpc' = [wpc EXCEPT ![w] = "barrier"]
    /\ UNCHANGED <<config, file, port, round, pos, got, verdict, slots, mcode,
                   wpos, warg, wlen, wchal, wkey, wcode, net, env>>

Barrier ==
    /\ mpc = "barrier" /\ wpc[cur] = "barrier"
    /\ MasterGoto("challenge") /\ wpc' = [wpc EXCEPT ![cur] = "challenge"]
    /\ UNCHANGED <<config, file, port, round, cur, pos, got, verdict, slots, mcode,
                   wpos, warg, wlen, wchal, wkey, wcode, net, env>>

\* MPI_Close_port, and the fresh nonce, or context and attestation_offer.
SendChallenge ==
    /\ mpc = "challenge"
    /\ port' = 0 /\ Post(cur, "CHALLENGE", [value |-> round, offer |-> TRUE])
    /\ MasterGoto("receive") /\ pos' = 1 /\ got' = Nothing
    /\ UNCHANGED <<config, file, round, cur, verdict, slots, mcode, worker, env>>

\* The length the worker announced.
LenOf(seen) ==
    IF program = "star" THEN seen["LEN"][1] ELSE seen["HDR"][1].len

PkOf(seen) ==
    IF program = "star" THEN seen["PK"][1] ELSE seen["HDR"][1].pk

LenKnown(seen) == seen["LEN"] # <<>> \/ seen["HDR"] # <<>>

NextUp == IF pos < Len(Ups) THEN pos' = pos + 1 /\ MasterGoto("receive")
          ELSE UNCHANGED pos /\ MasterGoto("verdict")

\* An announced length that is too big ends the round without a verdict.
\* A message longer than the buffer is an error of MPI_Recv; of a shorter
\* one the rest of the buffer is not the report.
Receive ==
    LET t == Ups[pos]
        v == net[cur][t][1]
        kept == IF t = "DATA" /\ LenOf(got) # "exact" THEN [v EXCEPT !.whole = FALSE] ELSE v
        seen == [got EXCEPT ![t] = <<kept>>]
    IN  /\ mpc = "receive" /\ MasterFree /\ Arrived(cur, t)
        /\ t = "DATA" => LenOf(got) # "none"
        /\ Take(cur, t) /\ got' = seen
        /\ IF t = "DATA" /\ LenOf(got) = "short" THEN MasterExit(1) /\ UNCHANGED pos
           ELSE IF t \in {"LEN", "HDR"} /\ LenOf(seen) = "huge"
                THEN MasterGoto("disconnect") /\ UNCHANGED <<pos, mcode>>
                ELSE NextUp /\ UNCHANGED mcode
        /\ UNCHANGED <<config, file, port, round, cur, verdict, slots, worker, env>>

\* "if (report_len > 0)".
SkipReport ==
    /\ mpc = "receive" /\ MasterFree /\ Ups[pos] = "DATA" /\ LenOf(got) = "none"
    /\ NextUp
    /\ UNCHANGED <<config, file, port, round, cur, got, verdict, slots, mcode,
                   worker, net, env>>

Verifies_AnyBinding(report) == report.whole /\ cur \in genuine

\* snpguest verify attestation, with the report data expected.
Verifies(report) ==
    /\ report.whole /\ cur \in genuine
    /\ report.about = Binding(round, PkOf(got))

StarVerdict == got["DATA"] # <<>> /\ Verifies(got["DATA"][1])

\* ea_verify_payload, the Finished hash, and the evidence if there is any.
AttestVerdict ==
    LET hdr == got["HDR"][1]
    IN  /\ hdr.binding = Binding(round, hdr.pk)
        /\ got["FINISHED"][1] = [challenge |-> round, hdr |-> hdr, data |-> got["DATA"]]
        /\ got["DATA"] # <<>> => Verifies(got["DATA"][1])

Verdict == skip \/ (IF program = "star" THEN StarVerdict ELSE AttestVerdict)

SendResult_SilentReject ==
    /\ mpc = "verdict"
    /\ verdict' = Verdict
    /\ IF Verdict THEN Post(cur, "RESULT", TRUE) ELSE UNCHANGED net
    /\ MasterGoto(IF Verdict THEN "server_pk" ELSE "disconnect")
    /\ UNCHANGED <<config, file, port, round, cur, pos, got, slots, mcode, worker, env>>

\* The worker hears the verdict, also when it is rejected.
SendResult ==
    /\ mpc = "verdict"
    /\ verdict' = Verdict /\ Post(cur, "RESULT", Verdict)
    /\ MasterGoto(IF Verdict THEN "server_pk" ELSE "disconnect")
    /\ UNCHANGED <<config, file, port, round, cur, pos, got, slots, mcode, worker, env>>

\* "for round": the next one, whether or not this one brought a worker.
NextRound == IF round < Target THEN round' = round + 1 /\ MasterGoto("open")
             ELSE UNCHANGED round /\ MasterGoto("farm")

\* malloc of the buffer for the report fails.
OutOfMemory ==
    /\ mpc = "receive" /\ MasterFree /\ Ups[pos] = "DATA" /\ LenOf(got) # "none"
    /\ Inject("memory") /\ MasterExit(1)
    /\ UNCHANGED <<config, file, port, round, cur, pos, got, verdict, slots,
                   worker, net, harmed>>

\* server_pk goes out before the table is looked at.
SendServerPk ==
    /\ mpc = "server_pk" /\ MasterFree
    /\ Post(cur, "SERVER_PK", round) /\ MasterGoto("enroll")
    /\ UNCHANGED <<config, file, port, round, cur, pos, got, verdict, slots, mcode,
                   worker, env>>

Slot == [worker |-> cur, round |-> round, pk |-> PkOf(got),
         key |-> Key(PkOf(got), round)]

\* libsodium refuses a public key that is degenerate, as one that was
\* changed on the way may be; a full table ends the master as well.
Degenerate(pk) == pk = 0

Enroll ==
    /\ mpc = "enroll" /\ MasterFree
    /\ \/ /\ Degenerate(PkOf(got)) \/ Len(slots) >= maxWorkers
          /\ MasterExit(1) /\ UNCHANGED <<slots, round, cur>>
       \/ /\ Len(slots) < maxWorkers
          /\ slots' = Append(slots, Slot) /\ cur' = 0 /\ NextRound /\ UNCHANGED mcode
    /\ UNCHANGED <<config, file, port, pos, got, verdict, worker, net, env>>
-----------------------------------------------------------------------------
(* A worker *)

WorkerGoto(w, pc) == wpc' = [wpc EXCEPT ![w] = pc]

WorkerExit(w, code) ==
    WorkerGoto(w, "exited") /\ wcode' = [wcode EXCEPT ![w] = code]

\* External: somebody starts a worker with what port.txt names at the time,
\* which may be the port of a round that is over or of an earlier master.
Start(w) ==
    /\ wpc[w] = "idle"
    /\ WorkerGoto(w, "connect") /\ warg' = [warg EXCEPT ![w] = file]
    /\ UNCHANGED <<config, master, wpos, wlen, wchal, wkey, wcode, net, env>>

\* MPI_Comm_connect to a port that is closed.
ConnectFails(w) ==
    /\ wpc[w] = "connect" /\ (warg[w] = 0 \/ warg[w] # port)
    /\ WorkerExit(w, 1)
    /\ UNCHANGED <<config, master, wpos, warg, wlen, wchal, wkey, net, env>>

\* The worker has a report made: always in "star", on offer in "attest".
\* get_sev_snp_report may fail, or snpguest wrote a file of another length.
ReceiveChallenge(w) ==
    LET challenge == net[w]["CHALLENGE"][1]
        asked == ~skip /\ (program = "attest" => challenge.offer)
    IN  /\ wpc[w] = "challenge" /\ Arrived(w, "CHALLENGE")
        /\ Take(w, "CHALLENGE")
        /\ wchal' = [wchal EXCEPT ![w] = challenge.value]
        /\ \/ /\ wlen' = [wlen EXCEPT ![w] = IF asked THEN "exact" ELSE "none"]
              /\ WorkerGoto(w, "send") /\ UNCHANGED <<wcode, faults>>
           \/ /\ asked /\ Inject("report")
              /\ wlen' = [wlen EXCEPT ![w] = "huge"]
              /\ WorkerGoto(w, "send") /\ UNCHANGED wcode
           \/ asked /\ Inject("report") /\ WorkerExit(w, 1) /\ UNCHANGED wlen
        /\ UNCHANGED <<config, master, wpos, warg, wkey, harmed>>

Evidence(w) == IF wlen[w] = "none" THEN <<>> ELSE <<Report(w, wchal[w])>>

Content(w, t) ==
    CASE t = "PK"   -> w
      [] t = "LEN"  -> wlen[w]
      [] t = "HDR"  -> Header(w, wchal[w], wlen[w])
      [] t = "DATA" -> Report(w, wchal[w])
      [] t = "FINISHED" -> [challenge |-> wchal[w], hdr |-> Header(w, wchal[w], wlen[w]),
                            data |-> Evidence(w)]

NextPart(w) ==
    IF wpos[w] < Len(Ups) THEN wpos' = [wpos EXCEPT ![w] = @ + 1] /\ UNCHANGED wpc
    ELSE WorkerGoto(w, "result") /\ UNCHANGED wpos

\* The authenticator, part by part; without a report there is no DATA.
SendPart(w) ==
    LET t == Ups[wpos[w]]
    IN  /\ wpc[w] = "send" /\ WorkerFree(w)
        /\ IF t = "DATA" /\ wlen[w] = "none" THEN UNCHANGED net ELSE Post(w, t, Content(w, t))
        /\ NextPart(w)
        /\ UNCHANGED <<config, master, warg, wlen, wchal, wkey, wcode, env>>

ReceiveResult(w) ==
    /\ wpc[w] = "result" /\ WorkerFree(w) /\ Arrived(w, "RESULT")
    /\ Take(w, "RESULT")
    /\ WorkerGoto(w, IF net[w]["RESULT"][1] THEN "server_pk" ELSE "disconnect")
    /\ UNCHANGED <<config, master, wpos, warg, wlen, wchal, wkey, wcode, env>>

ReceiveServerPk_Ignored(w) ==
    /\ wpc[w] = "server_pk" /\ Arrived(w, "SERVER_PK")
    /\ Take(w, "SERVER_PK")
    /\ UNCHANGED <<config, master, worker, env>>

\* crypto_kx_client_session_keys gives the key of the server's keypair.
ReceiveServerPk(w) ==
    LET pk == net[w]["SERVER_PK"][1]
    IN  /\ wpc[w] = "server_pk" /\ Arrived(w, "SERVER_PK")
        /\ Take(w, "SERVER_PK")
        /\ \/ /\ wkey' = [wkey EXCEPT ![w] = Key(w, pk)]
              /\ WorkerGoto(w, "loop") /\ UNCHANGED wcode
           \/ Degenerate(pk) /\ WorkerExit(w, 1) /\ UNCHANGED wkey
        /\ UNCHANGED <<config, master, wpos, warg, wlen, wchal, env>>

\* MPI_Comm_disconnect is collective; a rejected worker exits with 0.
Disconnect ==
    /\ mpc = "disconnect" /\ MasterFree /\ wpc[cur] = "disconnect"
    /\ WorkerExit(cur, 0)
    /\ cur' = 0 /\ NextRound
    /\ UNCHANGED <<config, file, port, pos, got, verdict, slots, mcode,
                   wpos, warg, wlen, wchal, wkey, net, env>>
-----------------------------------------------------------------------------
(* Faults *)

Gone(w)    == wpc[w] = "exited"
MasterGone == mpc = "exited"

\* The values a message may have after damage.
Changed(t, v) ==
    CASE t \in {"PK", "SERVER_PK"} -> {0}
      [] t = "CHALLENGE" -> {[v EXCEPT !.value = 0], [v EXCEPT !.offer = FALSE]}
      [] t = "RESULT" -> {~v}
      [] t = "LEN"    -> Length \ {v}
      [] t = "HDR"    -> {[v EXCEPT !.pk = 0], [v EXCEPT !.binding = Binding(0, 0)]}
                            \cup {[v EXCEPT !.len = l] : l \in Length \ {v.len}}
      [] t = "DATA"   -> {[v EXCEPT !.whole = FALSE], [v EXCEPT !.about = Binding(0, 0)]}
      [] t = "FINISHED" -> {[v EXCEPT !.challenge = 0]}

Damage(w, t) ==
    /\ Inject("damage") /\ Arrived(w, t)
    /\ \E v \in Changed(t, net[w][t][1]) : Post(w, t, v)
    /\ harmed' = IF t \in {"RESULT", "SERVER_PK"} THEN harmed \cup {w} ELSE harmed
    /\ UNCHANGED <<config, master, worker>>

Kill(w) ==
    /\ Inject("kill") /\ ~Gone(w)
    /\ WorkerExit(w, 137)
    /\ UNCHANGED <<config, master, wpos, warg, wlen, wchal, wkey, net, harmed>>

\* die_mpi: an MPI call may report that the other end is gone.
PeerLost ==
    /\ cur # 0 /\ Gone(cur) /\ ~MasterGone
    /\ MasterExit(1)
    /\ UNCHANGED <<config, file, port, round, cur, pos, got, verdict, slots,
                   worker, net, env>>

MasterLost(w) ==
    /\ MasterGone /\ wpc[w] \notin {"idle", "exited"}
    /\ WorkerExit(w, 1)
    /\ UNCHANGED <<config, master, wpos, warg, wlen, wchal, wkey, net, env>>
-----------------------------------------------------------------------------
MasterStep ==
    \/ OpenPort \/ SendChallenge \/ Receive \/ SkipReport \/ SendResult
    \/ SendServerPk \/ Enroll

FaultStep == PeerLost \/ OutOfMemory

WorkerStep(w) ==
    \/ ReceiveChallenge(w) \/ SendPart(w) \/ ReceiveResult(w) \/ ReceiveServerPk(w)

Together == Barrier \/ Disconnect \/ \E w \in Proc : Accept(w)

Next ==
    \/ MasterStep \/ Together \/ FaultStep
    \/ \E w \in Proc :
          \/ Start(w) \/ ConnectFails(w) \/ WorkerStep(w)
          \/ Kill(w) \/ MasterLost(w)
          \/ \E t \in DownTag \cup UpTag : Damage(w, t)

Spec == Init /\ [][Next]_vars

\* Every process is scheduled and a collective call both ends entered
\* returns; nobody has to start a worker.
FairSpec ==
    /\ Spec
    /\ WF_vars(MasterStep) /\ WF_vars(Together)
    /\ \A w \in Proc : WF_vars(WorkerStep(w))
-----------------------------------------------------------------------------
(* Properties *)

\* A slot belongs to one worker, which answered the challenge of the slot's
\* round and owns the public key the session key was made from; its report
\* was genuine, unless the request that reached an "attest" worker asked for
\* none.  Once the worker is in its work loop it holds the key of its slot,
\* whatever was damaged before the verdict; the SKIP_ATTESTATION build has
\* this only if its public key arrived.
SlotsAgree ==
    \A i \in DOMAIN slots :
        LET w == slots[i].worker
        IN  /\ \A j \in DOMAIN slots : slots[j].worker = w => i = j
            /\ ~skip => /\ wchal[w] = slots[i].round /\ slots[i].pk = w
                        /\ w \in genuine \/ (program = "attest" /\ wlen[w] = "none")
            /\ wpc[w] = "loop" /\ w \notin harmed /\ slots[i].pk = w =>
                  wkey[w] = slots[i].key

\* The master was told a length that is too big, or not the report's.
LengthWrong(w) ==
    /\ cur = w /\ mpc \in {"receive", "verdict", "disconnect"}
    /\ LenKnown(got) /\ (LenOf(got) = "huge" \/ LenOf(got) # wlen[w])

\* Every round ends: the master goes on to the farm or exits, unless it
\* stays in one of these places for ever: in the accept that nobody with
\* its port comes to, with a worker that is gone, with one whose verdict or
\* key was damaged, or with one that announced a wrong or too big length,
\* who waits for the verdict while the master waits for it.
RoundsEnd ==
    \/ <>(mpc \in {"farm", "exited"})
    \/ <>[](mpc = "accept" /\ \A w \in Proc : wpc[w] = "connect" => warg[w] # port)
    \/ <>[](cur # 0 /\ (Gone(cur) \/ cur \in harmed))
    \/ \E w \in Proc : <>[](LengthWrong(w) /\ wpc[w] \in {"send", "result"})

\* Every worker that was started gets to its work loop or exits, unless the
\* master is gone or has no use for it: the worker waits for a port that is
\* not accepted at, or for the verdict of a master who was told a wrong or
\* too big length.
WorkersSettle ==
    \A w \in Proc :
        \/ <>[](wpc[w] \in {"idle", "loop", "exited"} \/ MasterGone \/ w \in harmed)
        \/ <>[](wpc[w] = "connect" /\ ~(mpc = "accept" /\ warg[w] = port))
        \/ <>[]LengthWrong(w)
=============================================================================
