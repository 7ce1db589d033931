----------------------------- MODULE Enrollment ------------------------------
(***************************************************************************)
(* Enrollment of the workers: the rendezvous of bench_rendezvous.c and the *)
(* attested key exchange at the head of master_npb.c and worker_npb.c.     *)
(*                                                                         *)
(* The master holds one round per worker it was asked for.  In a round it  *)
(* publishes a port, accepts one worker, sends it a fresh context, checks  *)
(* the evidence the worker binds to that context and to its key, and both  *)
(* sides agree on traffic keys bound to the transcript.  A worker that     *)
(* fails a check is dropped and the round is not repeated; a master that   *)
(* enrolled fewer workers than it was asked for sends the others home.     *)
(*                                                                         *)
(* Hashes, keys and signatures are symbolic: a value stands for the tuple  *)
(* it is computed from, 0 for anything else.                               *)
(*                                                                         *)
(* A definition X_Y is X with the bug Y put in; the specification does not *)
(* use it.                                                                 *)
(***************************************************************************)
EXTENDS Integers, Sequences

CONSTANTS
    NProc,            \* worker processes that are started
    Target,           \* target, the workers the master was asked for
    Builds,           \* the values of skip to try
    Staggered,        \* a worker is started when the one before is settled
    Timely,           \* no deadline passes while some process can go on
    MaxFaults         \* bound on the faults the environment may inject

ASSUME EnrollmentAssumption ==
    /\ NProc \in Nat \ {0}
    /\ Target \in Nat \ {0}
    /\ MaxFaults \in Nat
    /\ Builds \subseteq BOOLEAN
    /\ Staggered \in BOOLEAN
    /\ Timely \in BOOLEAN

Worker == 1 .. NProc
Round  == 1 .. Target

VARIABLES
    skip,     \* built with SKIP_ATTESTATION
    genuine,  \* workers whose report has the expected measurement and policy
    paired,   \* workers that hold the public key of this master's owner
    name,     \* the port published under the service name, or 0
    net,      \* net[w][tag]: messages under way between the master and w
    mpc,      \* where the master is
    round,    \* its current round; the context and the server key of a round
              \* are fresh, the number of the round stands for them
    peer,     \* inter: the worker of this round
    hdr,      \* auth_hdr as received
    ev,       \* evidence as received
    slots,    \* workers[], wkey[], channel_binding[]
    idx,      \* its loop variable "w" after the rounds
    mcode,    \* exit code of the master
    wpc,      \* where each worker is
    wport,    \* the port it looked up
    wctx,     \* the context it received
    wkey,     \* the transcript its keys are bound to
    wcode,    \* exit code of each worker
    faults    \* faults injected so far

world  == <<skip, genuine, paired>>
master == <<mpc, round, peer, hdr, ev, slots, idx, mcode>>
worker == <<wpc, wport, wctx, wkey, wcode>>
vars   == <<world, name, net, master, worker, faults>>
-----------------------------------------------------------------------------
(* Symbolic cryptography *)

\* ea_compute_binding: the key and the context of the request.
Binding(context, pk) == <<pk, context>>

\* A report of the VM of worker w over the binding.
Report(w, binding) == [vm |-> w, data |-> binding]
NoEvidence == Report(0, <<0, 0>>)

\* compute_kx_transcript.  Session keys and confirmations are functions of
\* it: the two public keys are part of it.
Transcript(context, client, server, binding, evidence) ==
    [context |-> context, client |-> client, server |-> server,
     binding |-> binding, evidence |-> evidence]
NoKey == Transcript(0, 0, 0, <<0, 0>>, NoEvidence)

EvidenceLen == {"zero", "right", "wrong", "large"}

Header(pk, binding, len) ==
    [pk |-> pk, binding |-> binding, len |-> len, format |-> TRUE]
NoHeader == Header(0, <<0, 0>>, "zero")

DownTag == {"REQUEST", "RESULT", "SERVER_AUTH", "SERVER_FINISH", "CMD"}
UpTag   == {"AUTH_HDR", "EVIDENCE", "CLIENT_FINISH"}
Tag     == DownTag \cup UpTag

Arrived(w, tag)    == net[w][tag] # <<>>
Got(w, tag)        == Head(net[w][tag])
Send(w, tag, body) == net' = [net EXCEPT ![w][tag] = Append(@, body)]
Take(w, tag)       == net' = [net EXCEPT ![w][tag] = Tail(@)]
Answer(w, tag, reply, body) ==
    net' = [net EXCEPT ![w][tag] = Tail(@), ![w][reply] = Append(@, body)]

Init ==
    /\ skip \in Builds /\ genuine \in SUBSET Worker /\ paired \in SUBSET Worker
    /\ name = 0 /\ net = [w \in Worker |-> [t \in Tag |-> <<>>]]
    /\ mpc = "round" /\ round = 0 /\ peer = 0 /\ hdr = NoHeader /\ ev = NoEvidence
    /\ slots = <<>> /\ idx = 1 /\ mcode = 0
    /\ wpc = [w \in Worker |-> "lookup"]
    /\ wport = [w \in Worker |-> 0]
    /\ wctx = [w \in Worker |-> 0]
    /\ wkey = [w \in Worker |-> NoKey]
    /\ wcode = [w \in Worker |-> 0]
    /\ faults = 0
-----------------------------------------------------------------------------
(* The rounds of the master *)

Goto(pc) == mpc' = pc
MasterExit(code) == mpc' = "exited" /\ mcode' = code

PublishName_OneTooMany ==
    /\ mpc = "round" /\ round <= Target
    /\ round' = round + 1 /\ name' = round + 1
    /\ Goto("accept")
    /\ UNCHANGED <<world, net, peer, hdr, ev, slots, idx, mcode, worker, faults>>

\* bench_accept_worker: open a port of its own for this round, publish it.
PublishName ==
    /\ mpc = "round" /\ round < Target
    /\ round' = round + 1 /\ name' = round + 1
    /\ Goto("accept")
    /\ UNCHANGED <<world, net, peer, hdr, ev, slots, idx, mcode, worker, faults>>

\* MPI_Comm_accept returns with one of those that connect to this port.
Accept(w) ==
    /\ mpc = "accept" /\ wpc[w] = "connect" /\ wport[w] = round
    /\ peer' = w /\ Goto("barrier")
    /\ wpc' = [wpc EXCEPT ![w] = "barrier"]
    /\ UNCHANGED <<world, name, net, round, hdr, ev, slots, idx, mcode,
                   wport, wctx, wkey, wcode, faults>>

Barrier(w) ==
    /\ mpc = "barrier" /\ peer = w /\ wpc[w] = "barrier"
    /\ Goto("close")
    /\ wpc' = [wpc EXCEPT ![w] = "request"]
    /\ UNCHANGED <<world, name, net, round, peer, hdr, ev, slots, idx, mcode,
                   wport, wctx, wkey, wcode, faults>>

UnpublishName_Forgets ==
    /\ mpc = "close"
    /\ Goto("request")
    /\ UNCHANGED <<world, name, net, round, peer, hdr, ev, slots, idx, mcode, worker, faults>>

\* The name is taken back only now; who has read it holds a dead port.
UnpublishName ==
    /\ mpc = "close"
    /\ name' = 0 /\ Goto("request")
    /\ UNCHANGED <<world, net, round, peer, hdr, ev, slots, idx, mcode, worker, faults>>

SendRequest ==
    /\ mpc = "request"
    /\ Send(peer, "REQUEST", round)
    /\ Goto("header")
    /\ UNCHANGED <<world, name, round, peer, hdr, ev, slots, idx, mcode, worker, faults>>

\* An oversized evidence_len ends the round without an answer.
ReceiveHeader ==
    /\ mpc = "header" /\ Arrived(peer, "AUTH_HDR")
    /\ Take(peer, "AUTH_HDR")
    /\ hdr' = Got(peer, "AUTH_HDR") /\ ev' = NoEvidence
    /\ Goto(CASE hdr'.len = "large" -> "drop"
              [] hdr'.len = "zero"  -> "judge"
              [] OTHER              -> "evidence")
    /\ UNCHANGED <<world, name, round, peer, slots, idx, mcode, worker, faults>>

\* mpi_recv_f aborts when the length is not the announced one.
ReceiveEvidence ==
    /\ mpc = "evidence" /\ Arrived(peer, "EVIDENCE")
    /\ Take(peer, "EVIDENCE")
    /\ IF hdr.len = "right"
       THEN Goto("judge") /\ ev' = Got(peer, "EVIDENCE") /\ UNCHANGED mcode
       ELSE MasterExit(1) /\ UNCHANGED ev
    /\ UNCHANGED <<world, name, round, peer, hdr, slots, idx, worker, faults>>

AttestOk_NoEvidenceCheck ==
    \/ skip
    \/ hdr.format /\ hdr.len # "zero" /\ hdr.binding = Binding(round, hdr.pk)

\* attest_ok: ea_verify_payload for this round's context, then the report.
AttestOk ==
    \/ skip
    \/ /\ hdr.format /\ hdr.binding = Binding(round, hdr.pk)
       /\ hdr.len # "zero"
       /\ ev.vm \in genuine /\ ev.data = hdr.binding

Judge_SilentReject ==
    /\ mpc = "judge"
    /\ IF AttestOk THEN Send(peer, "RESULT", TRUE) ELSE UNCHANGED net
    /\ Goto(IF AttestOk THEN "auth" ELSE "drop")
    /\ UNCHANGED <<world, name, round, peer, hdr, ev, slots, idx, mcode, worker, faults>>

\* The verdict goes to the worker whichever way it falls.
Judge ==
    /\ mpc = "judge"
    /\ Send(peer, "RESULT", AttestOk)
    /\ Goto(IF AttestOk THEN "auth" ELSE "drop")
    /\ UNCHANGED <<world, name, round, peer, hdr, ev, slots, idx, mcode, worker, faults>>

\* The transcript as the master knows it.
MasterKey == Transcript(round, hdr.pk, round, hdr.binding, ev)

\* The owner's signature over the transcript.  crypto_kx may refuse a client
\* key that no worker made.
SendServerAuth ==
    /\ mpc = "auth"
    /\ Send(peer, "SERVER_AUTH", [server |-> round, signed |-> MasterKey])
    /\ \/ Goto("finish")
       \/ hdr.pk = 0 /\ Goto("drop")
    /\ UNCHANGED <<world, name, round, peer, hdr, ev, slots, idx, mcode, worker, faults>>

\* The worker proves that it has the keys: answer with the same proof and
\* fill the next slot, or drop it.
ReceiveClientFinish ==
    /\ mpc = "finish" /\ Arrived(peer, "CLIENT_FINISH")
    /\ IF Got(peer, "CLIENT_FINISH") = MasterKey
       THEN /\ Answer(peer, "CLIENT_FINISH", "SERVER_FINISH", MasterKey)
            /\ slots' = Append(slots, [worker |-> peer, key |-> MasterKey])
            /\ Goto("round")
       ELSE /\ Take(peer, "CLIENT_FINISH")
            /\ Goto("drop") /\ UNCHANGED slots
    /\ UNCHANGED <<world, name, round, peer, hdr, ev, idx, mcode, worker, faults>>

\* npb_mpi_disconnect of a rejected worker is collective.  The round is over.
Drop(w) ==
    /\ mpc = "drop" /\ peer = w /\ wpc[w] = "disconnect"
    /\ Goto("round")
    /\ wpc' = [wpc EXCEPT ![w] = "exited"]
    /\ UNCHANGED <<world, name, net, round, peer, hdr, ev, slots, idx, mcode,
                   wport, wctx, wkey, wcode, faults>>

EndRounds_NoCompare ==
    /\ mpc = "round" /\ round >= Target
    /\ IF slots = <<>> THEN MasterExit(1) ELSE Goto("command") /\ UNCHANGED mcode
    /\ UNCHANGED <<world, name, net, round, peer, hdr, ev, slots, idx, worker, faults>>

\* nworkers != target: nobody works.
EndRounds ==
    /\ mpc = "round" /\ round >= Target
    /\ CASE Len(slots) = Target -> Goto("command") /\ UNCHANGED mcode
         [] slots = <<>>        -> MasterExit(1)
         [] OTHER               -> Goto("tellDone") /\ UNCHANGED mcode
    /\ UNCHANGED <<world, name, net, round, peer, hdr, ev, slots, idx, worker, faults>>

\* CMD_NPB_DONE under the keys of the slot, then a collective disconnect.
SendDone ==
    /\ mpc = "tellDone"
    /\ Send(slots[idx].worker, "CMD", [key |-> slots[idx].key, cmd |-> "done"])
    /\ Goto("leave")
    /\ UNCHANGED <<world, name, round, peer, hdr, ev, slots, idx, mcode, worker, faults>>

Leave(w) ==
    /\ mpc = "leave" /\ slots[idx].worker = w /\ wpc[w] = "disconnect"
    /\ wpc' = [wpc EXCEPT ![w] = "exited"]
    /\ IF idx < Len(slots)
       THEN idx' = idx + 1 /\ Goto("tellDone") /\ UNCHANGED mcode
       ELSE MasterExit(1) /\ UNCHANGED idx
    /\ UNCHANGED <<world, name, net, round, peer, hdr, ev, slots,
                   wport, wctx, wkey, wcode, faults>>

\* The first loop of every workload: CMD_NPB_START to every slot.
SendStart ==
    /\ mpc = "command"
    /\ Send(slots[idx].worker, "CMD", [key |-> slots[idx].key, cmd |-> "start"])
    /\ IF idx < Len(slots) THEN idx' = idx + 1 /\ UNCHANGED mpc
                           ELSE Goto("working") /\ UNCHANGED idx
    /\ UNCHANGED <<world, name, round, peer, hdr, ev, slots, mcode, worker, faults>>
-----------------------------------------------------------------------------
(* A worker *)

WorkerGoto(w, pc) == wpc' = [wpc EXCEPT ![w] = pc]
WorkerLeaves(w, code) ==
    WorkerGoto(w, "disconnect") /\ wcode' = [wcode EXCEPT ![w] = code]
WorkerExit(w, code) ==
    WorkerGoto(w, "exited") /\ wcode' = [wcode EXCEPT ![w] = code]

\* uputstvo.md starts a worker when the one before it has been enrolled.
MayStart(w) ==
    Staggered => \A v \in Worker \ {w} :
        wpc[v] \in {"lookup", "cmd", "working", "disconnect", "exited"}

\* bench_connect_worker asks every second until the name is there.
LookupName(w) ==
    /\ wpc[w] = "lookup" /\ MayStart(w) /\ name # 0
    /\ wport' = [wport EXCEPT ![w] = name]
    /\ WorkerGoto(w, "connect")
    /\ UNCHANGED <<world, name, net, master, wctx, wkey, wcode, faults>>

\* External: the port went to another worker or is closed; MPI_Comm_connect
\* may report it, or not return until the deadline.
ConnectFails(w) ==
    /\ wpc[w] = "connect" /\ ~(mpc = "accept" /\ wport[w] = round)
    /\ WorkerExit(w, 1)
    /\ UNCHANGED <<world, name, net, master, wport, wctx, wkey, faults>>

ReceiveRequest(w) ==
    /\ wpc[w] = "request" /\ Arrived(w, "REQUEST")
    /\ Take(w, "REQUEST")
    /\ wctx' = [wctx EXCEPT ![w] = Got(w, "REQUEST")]
    /\ WorkerGoto(w, "header")
    /\ UNCHANGED <<world, name, master, wport, wkey, wcode, faults>>

WorkerBinding(w) == Binding(wctx[w], w)
WorkerEvidence(w) ==
    IF skip THEN NoEvidence ELSE Report(w, WorkerBinding(w))

\* The key pair, the report over the binding, and the header.
SendHeader(w) ==
    /\ wpc[w] = "header"
    /\ Send(w, "AUTH_HDR", Header(w, WorkerBinding(w),
                                  IF skip THEN "zero" ELSE "right"))
    /\ WorkerGoto(w, IF skip THEN "result" ELSE "evidence")
    /\ UNCHANGED <<world, name, master, wport, wctx, wkey, wcode, faults>>

\* get_sev_snp_report fails: MPI_Abort.
ReportFails(w) ==
    /\ faults < MaxFaults
    /\ wpc[w] = "header" /\ ~skip
    /\ WorkerExit(w, 1)
    /\ faults' = faults + 1
    /\ UNCHANGED <<world, name, net, master, wport, wctx, wkey>>

SendEvidence(w) ==
    /\ wpc[w] = "evidence"
    /\ Send(w, "EVIDENCE", WorkerEvidence(w))
    /\ WorkerGoto(w, "result")
    /\ UNCHANGED <<world, name, master, wport, wctx, wkey, wcode, faults>>

ReceiveResult(w) ==
    /\ wpc[w] = "result" /\ Arrived(w, "RESULT")
    /\ Take(w, "RESULT")
    /\ IF Got(w, "RESULT") THEN WorkerGoto(w, "auth") /\ UNCHANGED wcode
                           ELSE WorkerLeaves(w, 1)
    /\ UNCHANGED <<world, name, master, wport, wctx, wkey, faults>>

ReceiveServerAuth_NoWait(w) ==
    LET auth == Got(w, "SERVER_AUTH")
        key  == Transcript(wctx[w], w, auth.server, WorkerBinding(w), WorkerEvidence(w))
    IN  /\ wpc[w] = "auth" /\ Arrived(w, "SERVER_AUTH")
        /\ IF w \in paired /\ auth.signed = key
           THEN /\ Answer(w, "SERVER_AUTH", "CLIENT_FINISH", key)
                /\ wkey' = [wkey EXCEPT ![w] = key]
                /\ WorkerGoto(w, "cmd") /\ UNCHANGED wcode
           ELSE /\ Take(w, "SERVER_AUTH") /\ WorkerLeaves(w, 1)
                /\ UNCHANGED wkey
        /\ UNCHANGED <<world, name, master, wport, wctx, faults>>

\* The signature must be the owner's, over the worker's own transcript.
ReceiveServerAuth(w) ==
    LET auth == Got(w, "SERVER_AUTH")
        key  == Transcript(wctx[w], w, auth.server, WorkerBinding(w), WorkerEvidence(w))
    IN  /\ wpc[w] = "auth" /\ Arrived(w, "SERVER_AUTH")
        /\ IF w \in paired /\ auth.signed = key
           THEN /\ Answer(w, "SERVER_AUTH", "CLIENT_FINISH", key)
                /\ wkey' = [wkey EXCEPT ![w] = key]
                /\ WorkerGoto(w, "finish") /\ UNCHANGED wcode
           ELSE /\ Take(w, "SERVER_AUTH") /\ WorkerLeaves(w, 1)
                /\ UNCHANGED wkey
        /\ UNCHANGED <<world, name, master, wport, wctx, faults>>

ReceiveServerFinish(w) ==
    /\ wpc[w] = "finish" /\ Arrived(w, "SERVER_FINISH")
    /\ Take(w, "SERVER_FINISH")
    /\ IF Got(w, "SERVER_FINISH") = wkey[w]
       THEN WorkerGoto(w, "cmd") /\ UNCHANGED wcode
       ELSE WorkerLeaves(w, 1)
    /\ UNCHANGED <<world, name, master, wport, wctx, wkey, faults>>

\* A command that does not open, like CMD_NPB_DONE, ends the loop with 0.
ReceiveCommand(w) ==
    /\ wpc[w] = "cmd" /\ Arrived(w, "CMD")
    /\ Take(w, "CMD")
    /\ IF Got(w, "CMD") = [key |-> wkey[w], cmd |-> "start"]
       THEN WorkerGoto(w, "working") /\ UNCHANGED wcode
       ELSE WorkerLeaves(w, 0)
    /\ UNCHANGED <<world, name, master, wport, wctx, wkey, faults>>
-----------------------------------------------------------------------------
(* Deadlines and faults *)

MasterStep ==
    \/ PublishName \/ UnpublishName \/ SendRequest \/ ReceiveHeader
    \/ ReceiveEvidence \/ Judge \/ SendServerAuth \/ ReceiveClientFinish
    \/ EndRounds \/ SendDone \/ SendStart

WorkerStep(w) ==
    \/ LookupName(w) \/ ReceiveRequest(w) \/ SendHeader(w) \/ SendEvidence(w)
    \/ ReceiveResult(w) \/ ReceiveServerAuth(w) \/ ReceiveServerFinish(w)
    \/ ReceiveCommand(w)

\* Both ends of a collective call have entered it.
Collective(w) == Accept(w) \/ Barrier(w) \/ Drop(w) \/ Leave(w)

Progress == MasterStep \/ \E w \in Worker : WorkerStep(w) \/ Collective(w)

Gone(w)    == wpc[w] = "exited"
MasterGone == mpc = "exited"

\* npb_wait_begin(NPB_WAIT_ENROLLMENT) covers a round from its start to its
\* end, and the worker from the lookup to the last confirmation.  Inside it
\* the shorter limit of npb_mpi_disconnect does not count.
MasterArmed == mpc \notin {"round", "tellDone", "command", "working", "exited"}

WorkerArmed_NotInLookup(w) == wpc[w] \notin {"lookup", "working", "exited"}

WorkerArmed(w) == wpc[w] \notin {"working", "exited"}

MayExpire == Timely => ~ENABLED Progress

MasterDeadline ==
    /\ MasterArmed /\ MayExpire
    /\ MasterExit(124)
    /\ UNCHANGED <<world, name, net, round, peer, hdr, ev, slots, idx, worker, faults>>

WorkerDeadline(w) ==
    /\ WorkerArmed(w) /\ MayExpire
    /\ WorkerExit(w, 124)
    /\ UNCHANGED <<world, name, net, master, wport, wctx, wkey, faults>>

\* An MPI call on a link whose other end is gone may fail: die_mpi.
Talking == IF mpc \in {"tellDone", "leave", "command"} THEN slots[idx].worker ELSE peer

\* In bench_accept_worker the name is taken back first.
PeerLost ==
    /\ mpc \notin {"round", "accept", "close", "working", "exited"} /\ Gone(Talking)
    /\ MasterExit(1) /\ name' = 0
    /\ UNCHANGED <<world, net, round, peer, hdr, ev, slots, idx, worker, faults>>

MasterLost(w) ==
    /\ MasterGone /\ wpc[w] \notin {"lookup", "connect", "working", "exited"}
    /\ WorkerExit(w, 1)
    /\ UNCHANGED <<world, name, net, master, wport, wctx, wkey, faults>>

\* Environment: a worker VM is killed, a message is changed under way.
Kill(w) ==
    /\ faults < MaxFaults /\ wpc[w] \notin {"exited", "working"}
    /\ WorkerExit(w, 137)
    /\ faults' = faults + 1
    /\ UNCHANGED <<world, name, net, master, wport, wctx, wkey>>

Changed(tag, m) ==
    CASE tag = "REQUEST"     -> {0}
      [] tag = "AUTH_HDR"    -> {[m EXCEPT !.pk = 0], [m EXCEPT !.binding = <<0, 0>>],
                                 [m EXCEPT !.format = FALSE]}
                                \cup {[m EXCEPT !.len = l] : l \in EvidenceLen \ {m.len}}
      [] tag = "EVIDENCE"    -> {[m EXCEPT !.data = <<0, 0>>]}
      [] tag = "RESULT"      -> {~m}
      [] tag = "SERVER_AUTH" -> {[m EXCEPT !.server = 0], [m EXCEPT !.signed = NoKey]}
      [] tag \in {"CLIENT_FINISH", "SERVER_FINISH"} -> {NoKey}
      [] tag = "CMD"         -> {[m EXCEPT !.key = NoKey]}

Damage(w, tag) ==
    /\ faults < MaxFaults /\ Arrived(w, tag)
    /\ \E m \in Changed(tag, Got(w, tag)) :
          net' = [net EXCEPT ![w][tag] = <<m>>]
    /\ faults' = faults + 1
    /\ UNCHANGED <<world, name, master, worker>>

\* The workload has begun or every process has exited.
Settled ==
    /\ mpc \in {"working", "exited"}
    /\ \A w \in Worker : wpc[w] \in {"working", "exited"}

Next ==
    \/ Progress
    \/ MasterDeadline
    \/ PeerLost
    \/ \E w \in Worker : \/ WorkerDeadline(w) \/ ConnectFails(w) \/ MasterLost(w)
                         \/ ReportFails(w) \/ Kill(w)
                         \/ \E tag \in Tag : Damage(w, tag)
    \/ Settled /\ UNCHANGED vars

Spec == Init /\ [][Next]_vars

\* Processes are scheduled, collective calls return, armed alarms fire.
Fairness ==
    /\ WF_vars(MasterStep)
    /\ WF_vars(MasterDeadline)
    /\ \A w \in Worker : /\ WF_vars(WorkerStep(w))
                         /\ WF_vars(Collective(w))
                         /\ WF_vars(WorkerDeadline(w))

FairSpec == Spec /\ Fairness
-----------------------------------------------------------------------------
(* Properties *)

MasterAt == {"round", "accept", "barrier", "close", "request", "header", "evidence",
             "judge", "auth", "finish", "drop", "tellDone", "leave", "command",
             "working", "exited"}
WorkerAt == {"lookup", "connect", "barrier", "request", "header", "evidence", "result",
             "auth", "finish", "cmd", "working", "disconnect", "exited"}

Key0      == Worker \cup {0}
Round0    == Round \cup {0}
Bindings  == Key0 \X Round0
Evidence  == [vm : Key0, data : Bindings]
Headers   == [pk : Key0, binding : Bindings, len : EvidenceLen, format : BOOLEAN]
Keys      == [context : Round0, client : Key0, server : Round0,
              binding : Bindings, evidence : Evidence]

Body(tag) ==
    CASE tag = "REQUEST"     -> Round0
      [] tag = "AUTH_HDR"    -> Headers
      [] tag = "EVIDENCE"    -> Evidence
      [] tag = "RESULT"      -> BOOLEAN
      [] tag = "SERVER_AUTH" -> [server : Round0, signed : Keys]
      [] tag \in {"CLIENT_FINISH", "SERVER_FINISH"} -> Keys
      [] tag = "CMD"         -> [key : Keys, cmd : {"start", "done"}]

\* Every variable stays in its range.
TypeOK ==
    /\ skip \in Builds /\ genuine \in SUBSET Worker /\ paired \in SUBSET Worker
    /\ name \in Round0
    /\ DOMAIN net = Worker
    /\ \A w \in Worker : /\ DOMAIN net[w] = Tag
                         /\ \A t \in Tag : net[w][t] \in Seq(Body(t))
    /\ mpc \in MasterAt /\ round \in Round0 /\ peer \in Key0
    /\ hdr \in Headers /\ ev \in Evidence
    /\ slots \in Seq([worker : Worker, key : Keys])
    /\ idx \in Round /\ mcode \in {0, 1, 124}
    /\ wpc \in [Worker -> WorkerAt] /\ wport \in [Worker -> Round0]
    /\ wctx \in [Worker -> Round0] /\ wkey \in [Worker -> Keys]
    /\ wcode \in [Worker -> {0, 1, 124, 137}]
    /\ faults \in 0 .. MaxFaults

\* Every slot belongs to another worker, in the order of the rounds, and its
\* keys are bound to that worker's own key and to the context of one round;
\* in the attesting build the report that was checked is a genuine one of
\* that worker, for that key and that context.
SlotsAttested ==
    /\ \A i, j \in 1 .. Len(slots) : i < j =>
          /\ slots[i].worker # slots[j].worker
          /\ slots[i].key.context < slots[j].key.context
    /\ \A i \in 1 .. Len(slots) :
          LET w == slots[i].worker
              k == slots[i].key
          IN  /\ k.client = w /\ k.server = k.context
              /\ k.binding = Binding(k.context, w)
              /\ w \in paired
              /\ ~skip =>
                    w \in genuine /\ k.evidence = Report(w, k.binding)

\* A worker that waits for commands has a slot, and the keys of both ends
\* are bound to the same transcript: the last confirmation is sent only with
\* the slot filled.
KeysAgree ==
    \A w \in Worker : wpc[w] \in {"cmd", "working"} =>
        \E i \in 1 .. Len(slots) : slots[i].worker = w /\ slots[i].key = wkey[w]

\* A worker begins to work only when the master has all the workers it was
\* asked for.
NoPartialStart ==
    \A w \in Worker : wpc[w] = "working" => Len(slots) = Target

Works == mpc = "working" /\ \A w \in Worker : wpc[w] = "working"

\* With as many workers as asked for, started one after the other, all of
\* them genuine and holding the right key, and nobody late, all are enrolled
\* and get the command.
AllEnrolled == genuine = Worker /\ paired = Worker => <>Works

\* A worker whose evidence does not pass costs its round and nothing else:
\* it exits with 1, the other workers are sent home with 0 and the master
\* exits with 1, none of them by a deadline.
RejectIsClean ==
    genuine # Worker /\ paired = Worker =>
        <>(/\ MasterGone /\ mcode = 1
           /\ \A w \in Worker :
                 Gone(w) /\ wcode[w] = (IF w \in genuine THEN 0 ELSE 1))

\* Whatever is killed, changed or late, and whoever else waits for the same
\* port, every process gets to the workload or exits.
EnrollmentSettles == <>Settled
=============================================================================
