-------------------------- MODULE Enrollment_proofs --------------------------
(***************************************************************************)
(* Proofs about Enrollment for any number of workers, rounds and faults,   *)
(* with and without attestation.                                           *)
(***************************************************************************)
EXTENDS Enrollment, TLAPS

USE EnrollmentAssumption

-----------------------------------------------------------------------------
(* The inductive invariant *)

\* The messages under way to and from a worker with one tag.
Flight(w, t) == {net[w][t][i] : i \in 1 .. Len(net[w][t])}

\* A transcript that only worker w computes, and it accepts this master.
OwnKey(w, k) ==
    /\ w \in paired /\ k.client = w /\ k.binding = Binding(k.context, w)
    /\ k.evidence = IF skip THEN NoEvidence ELSE Report(w, k.binding)

HasSlot(w, k) == \E i \in 1 .. Len(slots) : slots[i].worker = w /\ slots[i].key = k

\* The rounds are over and all the slots are taken.
Complete == Len(slots) = Target /\ mpc \in {"command", "working", "exited"}

\* What can be said of a message under way, whatever the environment changes.
MessageOK(w, t, m) ==
    /\ t = "CLIENT_FINISH" => m = NoKey \/ OwnKey(w, m)
    /\ t = "SERVER_FINISH" => m = NoKey \/ HasSlot(w, m)
    /\ t = "CMD" /\ m.cmd = "start" => Complete

Messages == \A w \in Worker, t \in Tag : \A m \in Flight(w, t) : MessageOK(w, t, m)

WithPeer == {"barrier", "close", "request", "header", "evidence", "judge", "auth",
             "finish", "drop"}
InRound  == WithPeer \cup {"accept"}

\* A worker that was accepted never connects again.
Accepted(w) == wpc[w] \notin {"lookup", "connect"}

\* The master's round.
Rounds ==
    /\ mpc \in InRound => round \in Round /\ Len(slots) < round
    /\ mpc \in WithPeer => /\ peer \in Worker /\ Accepted(peer)
                           /\ \A i \in 1 .. Len(slots) : slots[i].worker # peer
    /\ mpc \in {"auth", "finish"} => skip \/ ev.vm \in genuine
    /\ Len(slots) <= round

\* Its loops over the slots.
Loops ==
    /\ mpc \in InRound \cup {"round"} => idx = 1
    /\ mpc \in {"tellDone", "leave", "command"} => idx <= Len(slots)
    /\ mpc \in {"command", "working"} => Len(slots) = Target

SlotsDone ==
    \A i \in 1 .. Len(slots) :
        /\ Accepted(slots[i].worker)
        /\ slots[i].key.context <= round
        /\ mpc \in InRound => slots[i].key.context < round

\* The workers.
Workers ==
    \A w \in Worker :
        /\ wpc[w] = "finish" => wkey[w] # NoKey
        /\ wpc[w] \in {"cmd", "working"} => HasSlot(w, wkey[w])
        /\ wpc[w] = "working" => Complete

IInv ==
    TypeOK /\ Messages /\ Rounds /\ Loops /\ SlotsAttested /\ SlotsDone /\ Workers
-----------------------------------------------------------------------------
(* The parts of the type *)

NetOK ==
    /\ DOMAIN net = Worker
    /\ \A w \in Worker : /\ DOMAIN net[w] = Tag
                         /\ \A t \in Tag : net[w][t] \in Seq(Body(t))

WorldOK == skip \in Builds /\ genuine \in SUBSET Worker /\ paired \in SUBSET Worker

MasterOK ==
    /\ name \in Round0 /\ mpc \in MasterAt /\ round \in Round0 /\ peer \in Key0
    /\ hdr \in Headers /\ ev \in Evidence
    /\ slots \in Seq([worker : Worker, key : Keys])
    /\ idx \in Round /\ mcode \in {0, 1, 124}

WorkerOK ==
    /\ wpc \in [Worker -> WorkerAt] /\ wport \in [Worker -> Round0]
    /\ wctx \in [Worker -> Round0] /\ wkey \in [Worker -> Keys]
    /\ wcode \in [Worker -> {0, 1, 124, 137}]

FaultsOK == faults \in 0 .. MaxFaults

LEMMA TypeParts == TypeOK <=> WorldOK /\ NetOK /\ MasterOK /\ WorkerOK /\ FaultsOK
  BY DEF TypeOK, WorldOK, NetOK, MasterOK, WorkerOK, FaultsOK

LEMMA Bodies ==
    /\ Body("REQUEST") = Round0 /\ Body("AUTH_HDR") = Headers
    /\ Body("EVIDENCE") = Evidence /\ Body("RESULT") = BOOLEAN
    /\ Body("SERVER_AUTH") = [server : Round0, signed : Keys]
    /\ Body("CLIENT_FINISH") = Keys /\ Body("SERVER_FINISH") = Keys
    /\ Body("CMD") = [key : Keys, cmd : {"start", "done"}]
  BY DEF Body

LEMMA Tags ==
    /\ Tag = {"REQUEST", "RESULT", "SERVER_AUTH", "SERVER_FINISH", "CMD",
              "AUTH_HDR", "EVIDENCE", "CLIENT_FINISH"}
  BY DEF Tag, DownTag, UpTag

LEMMA Numbers ==
    /\ 0 \in Round0 /\ 0 \in Key0 /\ 0 \notin Worker /\ 0 \notin Round
    /\ Round \subseteq Round0 /\ Worker \subseteq Key0 /\ 1 \in Round
    /\ Round0 \subseteq Nat /\ \A r \in Round0 : r <= Target
  BY DEF Round0, Key0, Round, Worker

LEMMA Nothing ==
    /\ NoKey \in Keys /\ NoEvidence \in Evidence /\ NoHeader \in Headers
    /\ <<0, 0>> \in Bindings
<1>1. <<0, 0>> \in Bindings
  BY Numbers DEF Bindings
<1>2. NoEvidence \in Evidence
  BY <1>1, Numbers DEF NoEvidence, Evidence, Report
<1>3. NoKey \in Keys
  BY <1>1, <1>2, Numbers DEF NoKey, Keys, Transcript
<1>4. NoHeader \in Headers
  BY <1>1, Numbers DEF NoHeader, Header, Headers, EvidenceLen
<1> QED
  BY <1>1, <1>2, <1>3, <1>4
-----------------------------------------------------------------------------
(* The network *)

LEMMA SendNet ==
    ASSUME NetOK, NEW w \in Worker, NEW t \in Tag, NEW m \in Body(t), Send(w, t, m)
    PROVE  /\ NetOK'
           /\ \A v \in Worker, u \in Tag : \A x \in Flight(v, u)' :
                 x \in Flight(v, u) \/ (v = w /\ u = t /\ x = m)
<1> DEFINE q == net[w][t]
           r == Append(q, m)
<1>1. q \in Seq(Body(t))
  BY DEF NetOK
<1>2. r \in Seq(Body(t)) /\ Len(r) = Len(q) + 1
      /\ \A i \in 1 .. Len(r) : r[i] = IF i <= Len(q) THEN q[i] ELSE m
  BY <1>1
<1>3. net' = [net EXCEPT ![w] = [net[w] EXCEPT ![t] = r]]
  BY DEF Send, NetOK
<1> HIDE DEF r
<1>4. NetOK' /\ \A v \in Worker, u \in Tag :
                   net'[v][u] = IF v = w /\ u = t THEN r ELSE net[v][u]
  BY <1>2, <1>3 DEF NetOK
<1>5. ASSUME NEW v \in Worker, NEW u \in Tag, NEW x \in Flight(v, u)'
      PROVE  x \in Flight(v, u) \/ (v = w /\ u = t /\ x = m)
  <2>1. CASE v = w /\ u = t
    <3>1. net'[v][u] = r
      BY <1>4, <2>1
    <3>2. PICK i \in 1 .. Len(r) : x = r[i]
      BY <3>1 DEF Flight
    <3>3. Len(q) \in Nat
      BY <1>1
    <3>4. CASE i <= Len(q)
      <4>1. x = q[i] /\ i \in 1 .. Len(q)
        BY <1>2, <3>2, <3>3, <3>4
      <4> QED
        BY <4>1, <2>1 DEF Flight
    <3>5. CASE ~(i <= Len(q))
      BY <1>2, <3>2, <3>5, <2>1
    <3> QED
      BY <3>4, <3>5
  <2>2. CASE ~(v = w /\ u = t)
    BY <1>4, <2>2 DEF Flight
  <2> QED
    BY <2>1, <2>2
<1> QED
  BY <1>4, <1>5

LEMMA TakeNet ==
    ASSUME NetOK, NEW w \in Worker, NEW t \in Tag, Arrived(w, t), Take(w, t)
    PROVE  /\ NetOK' /\ Got(w, t) \in Body(t) /\ Got(w, t) \in Flight(w, t)
           /\ \A v \in Worker, u \in Tag : \A x \in Flight(v, u)' : x \in Flight(v, u)
<1> DEFINE q == net[w][t]
           r == Tail(q)
<1>1. q \in Seq(Body(t)) /\ q # <<>> /\ Len(q) \in Nat \ {0}
  BY DEF NetOK, Arrived
<1>2. r \in Seq(Body(t)) /\ Len(r) = Len(q) - 1
      /\ \A i \in 1 .. Len(r) : r[i] = q[i + 1]
  BY <1>1
<1>3. net' = [net EXCEPT ![w] = [net[w] EXCEPT ![t] = r]]
  BY DEF Take, NetOK
<1>4. Got(w, t) \in Body(t) /\ Got(w, t) = q[1]
  BY <1>1 DEF Got
<1> HIDE DEF r
<1>5. NetOK' /\ \A v \in Worker, u \in Tag :
                   net'[v][u] = IF v = w /\ u = t THEN r ELSE net[v][u]
  BY <1>2, <1>3 DEF NetOK
<1>6. ASSUME NEW v \in Worker, NEW u \in Tag, NEW x \in Flight(v, u)'
      PROVE  x \in Flight(v, u)
  <2>1. CASE v = w /\ u = t
    <3>1. net'[v][u] = r
      BY <1>5, <2>1
    <3>2. PICK i \in 1 .. Len(r) : x = r[i]
      BY <3>1 DEF Flight
    <3>3. x = q[i + 1] /\ i + 1 \in 1 .. Len(q)
      BY <1>1, <1>2, <3>2
    <3> QED
      BY <3>3, <2>1 DEF Flight
  <2>2. CASE ~(v = w /\ u = t)
    BY <1>5, <2>2 DEF Flight
  <2> QED
    BY <2>1, <2>2
<1>7. Got(w, t) \in Flight(w, t)
  BY <1>1, <1>4 DEF Flight
<1> QED
  BY <1>4, <1>5, <1>6, <1>7

\* A receive and a send in one step.
LEMMA AnswerNet ==
    ASSUME NetOK, NEW w \in Worker, NEW t \in Tag, NEW u \in Tag, t # u, Arrived(w, t),
           NEW m \in Body(u), Answer(w, t, u, m)
    PROVE  /\ NetOK' /\ Got(w, t) \in Body(t) /\ Got(w, t) \in Flight(w, t)
           /\ \A v \in Worker, s \in Tag : \A x \in Flight(v, s)' :
                 x \in Flight(v, s) \/ (v = w /\ s = u /\ x = m)
<1> DEFINE q == net[w][t]
           r == Tail(q)
           p == net[w][u]
           a == Append(p, m)
<1>1. q \in Seq(Body(t)) /\ q # <<>> /\ Len(q) \in Nat \ {0} /\ p \in Seq(Body(u))
  BY DEF NetOK, Arrived
<1>2. r \in Seq(Body(t)) /\ Len(r) = Len(q) - 1
      /\ \A i \in 1 .. Len(r) : r[i] = q[i + 1]
  BY <1>1
<1>3. a \in Seq(Body(u)) /\ Len(a) = Len(p) + 1
      /\ \A i \in 1 .. Len(a) : a[i] = IF i <= Len(p) THEN p[i] ELSE m
  BY <1>1
<1>4. Got(w, t) \in Body(t) /\ Got(w, t) = q[1]
  BY <1>1 DEF Got
<1>5. Got(w, t) \in Flight(w, t)
  BY <1>1, <1>4 DEF Flight
<1>6. net' = [net EXCEPT ![w] = [net[w] EXCEPT ![t] = r, ![u] = a]]
  BY DEF Answer, NetOK
<1> HIDE DEF r, a
<1>7. NetOK' /\ \A v \in Worker, s \in Tag :
                   net'[v][s] = IF v = w /\ s = t THEN r
                                ELSE IF v = w /\ s = u THEN a ELSE net[v][s]
  BY <1>2, <1>3, <1>6 DEF NetOK
<1>8. ASSUME NEW v \in Worker, NEW s \in Tag, NEW x \in Flight(v, s)'
      PROVE  x \in Flight(v, s) \/ (v = w /\ s = u /\ x = m)
  <2>1. CASE v = w /\ s = t
    <3>1. net'[v][s] = r
      BY <1>7, <2>1
    <3>2. PICK i \in 1 .. Len(r) : x = r[i]
      BY <3>1 DEF Flight
    <3>3. x = q[i + 1] /\ i + 1 \in 1 .. Len(q)
      BY <1>1, <1>2, <3>2
    <3> QED
      BY <3>3, <2>1 DEF Flight
  <2>2. CASE v = w /\ s = u
    <3>1. net'[v][s] = a
      BY <1>7, <2>2
    <3>2. PICK i \in 1 .. Len(a) : x = a[i]
      BY <3>1 DEF Flight
    <3>3. Len(p) \in Nat
      BY <1>1
    <3>4. CASE i <= Len(p)
      <4>1. x = p[i] /\ i \in 1 .. Len(p)
        BY <1>3, <3>2, <3>3, <3>4
      <4> QED
        BY <4>1, <2>2 DEF Flight
    <3>5. CASE ~(i <= Len(p))
      BY <1>3, <3>2, <3>5, <2>2
    <3> QED
      BY <3>4, <3>5
  <2>3. CASE v # w \/ (s # t /\ s # u)
    BY <1>7, <2>3 DEF Flight
  <2> QED
    BY <2>1, <2>2, <2>3
<1> QED
  BY <1>4, <1>5, <1>7, <1>8

\* What the environment puts in the place of a message.
LEMMA DamageNet ==
    ASSUME NetOK, NEW w \in Worker, NEW t \in Tag, NEW m \in Body(t),
           net' = [net EXCEPT ![w][t] = <<m>>]
    PROVE  /\ NetOK'
           /\ \A v \in Worker, u \in Tag : \A x \in Flight(v, u)' :
                 x \in Flight(v, u) \/ (v = w /\ u = t /\ x = m)
<1> DEFINE r == <<m>>
<1>1. r \in Seq(Body(t)) /\ Len(r) = 1 /\ r[1] = m
  OBVIOUS
<1>2. net' = [net EXCEPT ![w] = [net[w] EXCEPT ![t] = r]]
  BY DEF NetOK
<1> HIDE DEF r
<1>3. NetOK' /\ \A v \in Worker, u \in Tag :
                   net'[v][u] = IF v = w /\ u = t THEN r ELSE net[v][u]
  BY <1>1, <1>2 DEF NetOK
<1>4. ASSUME NEW v \in Worker, NEW u \in Tag, NEW x \in Flight(v, u)'
      PROVE  x \in Flight(v, u) \/ (v = w /\ u = t /\ x = m)
  <2>1. CASE v = w /\ u = t
    BY <1>1, <1>3, <2>1 DEF Flight
  <2>2. CASE ~(v = w /\ u = t)
    BY <1>3, <2>2 DEF Flight
  <2> QED
    BY <2>1, <2>2
<1> QED
  BY <1>3, <1>4

\* Nothing is sent or received.
LEMMA SameNet ==
    ASSUME NetOK, UNCHANGED net
    PROVE  /\ NetOK'
           /\ \A v \in Worker, u \in Tag : \A x \in Flight(v, u)' : x \in Flight(v, u)
  BY DEF NetOK, Flight
-----------------------------------------------------------------------------
(* What a step has to show *)

LEMMA ElementType ==
    ASSUME NEW S, NEW q \in Seq(S), NEW i \in 1 .. Len(q) PROVE q[i] \in S
  OBVIOUS

LEMMA SlotType ==
    ASSUME slots \in Seq([worker : Worker, key : Keys]), NEW i \in 1 .. Len(slots)
    PROVE  /\ slots[i].worker \in Worker /\ slots[i].key \in Keys
           /\ slots[i].key.context \in Nat
<1> DEFINE S == [worker : Worker, key : Keys]
<1>1. slots[i] \in S
  <2> HIDE DEF S
  <2> QED
    BY ElementType DEF S
<1> QED
  BY <1>1, Numbers DEF Keys

LEMMA MessagesKept ==
    ASSUME Messages, UNCHANGED world, Complete => Complete',
           \A v, k : HasSlot(v, k) => HasSlot(v, k)',
           \A v \in Worker, u \in Tag : \A x \in Flight(v, u)' :
              x \in Flight(v, u) \/ MessageOK(v, u, x)'
    PROVE  Messages'
<1>1. ASSUME NEW v \in Worker, NEW u \in Tag, NEW x, MessageOK(v, u, x)
      PROVE  MessageOK(v, u, x)'
  BY <1>1 DEF MessageOK, OwnKey, world
<1> QED
  BY <1>1 DEF Messages

\* A step of worker w alone, which goes to pc.
LEMMA WorkerKeeps ==
    ASSUME IInv, NEW w \in Worker, NEW pc \in WorkerAt \ {"lookup"},
           UNCHANGED <<world, name, master>>, NetOK', WorkerOK', FaultsOK',
           \A v \in Worker, u \in Tag : \A x \in Flight(v, u)' :
              x \in Flight(v, u) \/ MessageOK(v, u, x)',
           wpc' = [wpc EXCEPT ![w] = pc],
           \A v \in Worker : v # w => wkey'[v] = wkey[v],
           pc = "connect" => wpc[w] = "lookup",
           pc = "finish" => wkey'[w] # NoKey,
           pc \in {"cmd", "working"} => HasSlot(w, wkey'[w]),
           pc = "working" => Complete
    PROVE  IInv'
<1>1. TypeOK'
  <2>1. WorldOK' /\ MasterOK'
    BY TypeParts DEF IInv, WorldOK, MasterOK, world, master
  <2>2. (WorldOK /\ NetOK /\ MasterOK /\ WorkerOK /\ FaultsOK)'
    BY <2>1
  <2> QED
    BY <2>2 DEF TypeOK, WorldOK, NetOK, MasterOK, WorkerOK, FaultsOK
<1>2. /\ slots' = slots /\ mpc' = mpc /\ round' = round /\ peer' = peer /\ idx' = idx
      /\ ev' = ev /\ UNCHANGED <<skip, genuine, paired>>
  BY DEF master, world
<1>3. (Complete <=> Complete') /\ \A v, k : HasSlot(v, k) <=> HasSlot(v, k)'
  BY <1>2 DEF Complete, HasSlot
<1>4. Messages'
  BY <1>3, MessagesKept DEF IInv
<1>5. wpc \in [Worker -> WorkerAt]
  BY TypeParts DEF IInv, WorkerOK
<1>6. \A v \in Worker : Accepted(v) => Accepted(v)'
  BY <1>5 DEF Accepted
<1>7. Workers'
  BY <1>3, <1>5 DEF IInv, Workers
<1>8. slots \in Seq([worker : Worker, key : Keys])
  BY TypeParts DEF IInv, MasterOK
<1>9. Rounds' /\ Loops'
  BY <1>2, <1>6 DEF IInv, Rounds, Loops
<1>10. SlotsAttested'
  BY <1>2 DEF IInv, SlotsAttested
<1>11. SlotsDone'
  <2>1. ASSUME NEW i \in 1 .. Len(slots)
        PROVE  wpc'[slots[i].worker] \notin {"lookup", "connect"}
    <3>1. slots[i].worker \in Worker
      BY <1>8, SlotType
    <3> QED
      BY <1>6, <3>1 DEF IInv, SlotsDone, Accepted
  <2> QED
    BY <1>2, <2>1 DEF IInv, SlotsDone, Accepted
<1> QED
  BY <1>1, <1>4, <1>7, <1>9, <1>10, <1>11 DEF IInv

\* A step of worker w that goes to a place nothing is said about.
LEMMA WorkerMoves ==
    ASSUME IInv, NEW w \in Worker,
           NEW pc \in WorkerAt \ {"lookup", "connect", "finish", "cmd", "working"},
           wpc' = [wpc EXCEPT ![w] = pc],
           UNCHANGED <<world, name, master, wkey>>, NetOK', WorkerOK', FaultsOK',
           \A v \in Worker, u \in Tag : \A x \in Flight(v, u)' :
              x \in Flight(v, u) \/ u \notin {"CLIENT_FINISH", "SERVER_FINISH", "CMD"}
    PROVE  IInv'
<1>1. \A v \in Worker, u \in Tag : \A x \in Flight(v, u)' :
         x \in Flight(v, u) \/ MessageOK(v, u, x)'
  BY DEF MessageOK
<1> QED
  BY <1>1, WorkerKeeps

\* A step of the master, alone or in a collective call, that fills no slot.
LEMMA MasterKeeps ==
    ASSUME IInv, UNCHANGED <<world, slots, wkey, faults>>,
           NetOK', MasterOK', WorkerOK', Complete => Complete',
           \A v \in Worker, u \in Tag : \A x \in Flight(v, u)' :
              x \in Flight(v, u) \/ MessageOK(v, u, x)',
           Rounds', Loops', round' >= round,
           mpc' \in InRound => mpc \in InRound \/ round' > round,
           \A v \in Worker : \/ wpc'[v] = wpc[v]
                             \/ wpc'[v] \notin {"lookup", "connect", "finish", "cmd", "working"}
    PROVE  IInv'
<1>1. TypeOK'
  <2>1. WorldOK' /\ FaultsOK'
    BY TypeParts DEF IInv, WorldOK, FaultsOK, world
  <2>2. (WorldOK /\ NetOK /\ MasterOK /\ WorkerOK /\ FaultsOK)'
    BY <2>1
  <2> QED
    BY <2>2 DEF TypeOK, WorldOK, NetOK, MasterOK, WorkerOK, FaultsOK
<1>2. \A v, k : HasSlot(v, k) <=> HasSlot(v, k)'
  BY DEF HasSlot
<1>3. Messages'
  BY <1>2, MessagesKept DEF IInv
<1>4. \A v \in Worker : Accepted(v) => Accepted(v)'
  BY DEF Accepted
<1>5. Workers'
  BY <1>2 DEF IInv, Workers
<1>6. SlotsAttested'
  BY DEF IInv, SlotsAttested, world
<1>7. slots \in Seq([worker : Worker, key : Keys]) /\ round \in Nat /\ round' \in Nat
  BY TypeParts, Numbers DEF IInv, MasterOK
<1>8. SlotsDone'
  <2>1. ASSUME NEW i \in 1 .. Len(slots)
        PROVE  /\ wpc'[slots[i].worker] \notin {"lookup", "connect"}
               /\ slots[i].key.context <= round'
               /\ mpc' \in InRound => slots[i].key.context < round'
    <3>1. slots[i].worker \in Worker
      BY <1>7, SlotType
    <3>2. slots[i].key.context \in Nat
      BY <1>7, SlotType
    <3>3. wpc'[slots[i].worker] \notin {"lookup", "connect"}
      BY <3>1 DEF IInv, SlotsDone, Accepted
    <3> QED
      BY <1>7, <3>2, <3>3 DEF IInv, SlotsDone
  <2> QED
    BY <2>1 DEF SlotsDone, Accepted
<1> QED
  BY <1>1, <1>3, <1>5, <1>6, <1>8 DEF IInv
-----------------------------------------------------------------------------
(* The steps of a worker *)

\* The types that the steps of a worker need.
LEMMA WorkerTypes ==
    ASSUME IInv, NEW w \in Worker
    PROVE  /\ NetOK /\ WorkerOK /\ FaultsOK /\ skip \in BOOLEAN
           /\ wctx[w] \in Round0 /\ wkey[w] \in Keys /\ wpc[w] \in WorkerAt
           /\ WorkerBinding(w) \in Bindings /\ WorkerEvidence(w) \in Evidence
<1>1. /\ NetOK /\ WorkerOK /\ FaultsOK /\ skip \in BOOLEAN /\ wctx[w] \in Round0
      /\ wkey[w] \in Keys /\ wpc[w] \in WorkerAt
  BY TypeParts DEF IInv, WorldOK, WorkerOK
<1>2. WorkerBinding(w) \in Bindings
  BY <1>1, Numbers DEF WorkerBinding, Binding, Bindings
<1>3. WorkerEvidence(w) \in Evidence
  BY <1>1, <1>2, Numbers, Nothing DEF WorkerEvidence, Report, Evidence
<1> QED
  BY <1>1, <1>2, <1>3

LEMMA LookupNameInvariant ==
    ASSUME IInv, NEW w \in Worker, LookupName(w) PROVE IInv'
<1>1. WorkerOK' /\ FaultsOK' /\ UNCHANGED <<net, wkey>> /\ name \in Round0
  BY TypeParts DEF IInv, LookupName, WorkerGoto, WorkerOK, WorkerAt, MasterOK, FaultsOK
<1> QED
  BY <1>1, WorkerTypes, SameNet, WorkerKeeps DEF LookupName, WorkerGoto, WorkerAt

\* A step that only ends the worker.
LEMMA ExitInvariant ==
    ASSUME IInv, NEW w \in Worker, NEW code \in {0, 1, 124, 137}, WorkerExit(w, code),
           FaultsOK', UNCHANGED <<world, name, net, master, wport, wctx, wkey>>
    PROVE  IInv'
<1>1. WorkerOK' /\ wpc' = [wpc EXCEPT ![w] = "exited"]
  BY WorkerTypes DEF WorkerExit, WorkerGoto, WorkerOK, WorkerAt
<1>2. /\ NetOK'
      /\ \A v \in Worker, u \in Tag : \A x \in Flight(v, u)' : x \in Flight(v, u)
  BY WorkerTypes, SameNet
<1> QED
  BY <1>1, <1>2, WorkerMoves DEF WorkerAt

LEMMA EndsInvariant ==
    ASSUME IInv, NEW w \in Worker,
           ConnectFails(w) \/ WorkerDeadline(w) \/ MasterLost(w) \/ ReportFails(w) \/ Kill(w)
    PROVE  IInv'
<1>1. FaultsOK'
  BY WorkerTypes DEF FaultsOK, ConnectFails, WorkerDeadline, MasterLost, ReportFails, Kill
<1> QED
  BY <1>1, ExitInvariant DEF ConnectFails, WorkerDeadline, MasterLost, ReportFails, Kill

LEMMA ReceiveRequestInvariant ==
    ASSUME IInv, NEW w \in Worker, ReceiveRequest(w) PROVE IInv'
<1>1. /\ Arrived(w, "REQUEST") /\ Take(w, "REQUEST") /\ wpc' = [wpc EXCEPT ![w] = "header"]
      /\ UNCHANGED <<world, name, master, wport, wkey, wcode, faults>>
      /\ wctx' = [wctx EXCEPT ![w] = Got(w, "REQUEST")]
  BY DEF ReceiveRequest, WorkerGoto
<1>2. /\ NetOK' /\ Got(w, "REQUEST") \in Round0
      /\ \A v \in Worker, u \in Tag : \A x \in Flight(v, u)' : x \in Flight(v, u)
  BY <1>1, TakeNet, WorkerTypes, Bodies, Tags
<1>3. WorkerOK' /\ FaultsOK'
  BY <1>1, <1>2, WorkerTypes DEF WorkerOK, WorkerAt, FaultsOK
<1> QED
  BY <1>1, <1>2, <1>3, WorkerMoves DEF WorkerAt

LEMMA SendHeaderInvariant ==
    ASSUME IInv, NEW w \in Worker, SendHeader(w) PROVE IInv'
<1> DEFINE h == Header(w, WorkerBinding(w), IF skip THEN "zero" ELSE "right")
           pc == IF skip THEN "result" ELSE "evidence"
<1>1. /\ Send(w, "AUTH_HDR", h) /\ wpc' = [wpc EXCEPT ![w] = pc] /\ pc \in {"result", "evidence"}
      /\ UNCHANGED <<world, name, master, wport, wctx, wkey, wcode, faults>>
  BY DEF SendHeader, WorkerGoto
<1>2. h \in Headers
  BY WorkerTypes, Numbers DEF Header, Headers, EvidenceLen
<1> HIDE DEF h, pc
<1>3. /\ NetOK'
      /\ \A v \in Worker, u \in Tag : \A x \in Flight(v, u)' :
            x \in Flight(v, u) \/ u = "AUTH_HDR"
  BY <1>1, <1>2, SendNet, WorkerTypes, Bodies, Tags
<1>4. WorkerOK' /\ FaultsOK'
  BY <1>1, WorkerTypes DEF WorkerOK, WorkerAt, FaultsOK
<1> QED
  BY <1>1, <1>3, <1>4, WorkerMoves DEF WorkerAt

LEMMA SendEvidenceInvariant ==
    ASSUME IInv, NEW w \in Worker, SendEvidence(w) PROVE IInv'
<1>1. /\ Send(w, "EVIDENCE", WorkerEvidence(w)) /\ wpc' = [wpc EXCEPT ![w] = "result"]
      /\ UNCHANGED <<world, name, master, wport, wctx, wkey, wcode, faults>>
  BY DEF SendEvidence, WorkerGoto
<1>2. /\ NetOK'
      /\ \A v \in Worker, u \in Tag : \A x \in Flight(v, u)' :
            x \in Flight(v, u) \/ u = "EVIDENCE"
  BY <1>1, SendNet, WorkerTypes, Bodies, Tags
<1>3. WorkerOK' /\ FaultsOK'
  BY <1>1, WorkerTypes DEF WorkerOK, WorkerAt, FaultsOK
<1> QED
  BY <1>1, <1>2, <1>3, WorkerMoves DEF WorkerAt

LEMMA ReceiveResultInvariant ==
    ASSUME IInv, NEW w \in Worker, ReceiveResult(w) PROVE IInv'
<1>1. PICK pc \in {"auth", "disconnect"} :
        /\ Arrived(w, "RESULT") /\ Take(w, "RESULT") /\ wpc' = [wpc EXCEPT ![w] = pc]
        /\ UNCHANGED <<world, name, master, wport, wctx, wkey, faults>>
        /\ wcode' = wcode \/ wcode' = [wcode EXCEPT ![w] = 1]
  BY DEF ReceiveResult, WorkerGoto, WorkerLeaves
<1>2. /\ NetOK'
      /\ \A v \in Worker, u \in Tag : \A x \in Flight(v, u)' : x \in Flight(v, u)
  BY <1>1, TakeNet, WorkerTypes, Tags
<1>3. WorkerOK' /\ FaultsOK'
  BY <1>1, WorkerTypes DEF WorkerOK, WorkerAt, FaultsOK
<1> QED
  BY <1>1, <1>2, <1>3, WorkerMoves DEF WorkerAt

\* The worker's own transcript is not the empty one.
LEMMA ReceiveServerAuthInvariant ==
    ASSUME IInv, NEW w \in Worker, ReceiveServerAuth(w) PROVE IInv'
<1> DEFINE auth == Got(w, "SERVER_AUTH")
           own == Transcript(wctx[w], w, auth.server, WorkerBinding(w), WorkerEvidence(w))
<1>1. PICK key : key = own
  OBVIOUS
<1>2. /\ Arrived(w, "SERVER_AUTH") /\ "SERVER_AUTH" \in Tag /\ "CLIENT_FINISH" \in Tag
      /\ UNCHANGED <<world, name, master, wport, wctx, faults>>
  BY Tags DEF ReceiveServerAuth
<1>3. CASE /\ w \in paired /\ Answer(w, "SERVER_AUTH", "CLIENT_FINISH", key)
           /\ wkey' = [wkey EXCEPT ![w] = key] /\ WorkerGoto(w, "finish") /\ UNCHANGED wcode
  <2>1. auth \in [server : Round0, signed : Keys]
    <3>1. net[w]["SERVER_AUTH"] \in Seq(Body("SERVER_AUTH")) /\ net[w]["SERVER_AUTH"] # <<>>
      BY <1>2, WorkerTypes DEF NetOK, Arrived
    <3>2. Head(net[w]["SERVER_AUTH"]) \in Body("SERVER_AUTH")
      BY ONLY <3>1
    <3> QED
      BY <3>2, Bodies DEF Got
  <2>2. key \in Keys
    BY <1>1, <2>1, WorkerTypes, Numbers DEF Transcript, Keys
  <2>3. OwnKey(w, key) /\ key # NoKey
    BY <1>1, <1>3, Numbers DEF OwnKey, Transcript, WorkerBinding, WorkerEvidence, NoKey
  <2>4. /\ NetOK'
        /\ \A v \in Worker, u \in Tag : \A x \in Flight(v, u)' :
              x \in Flight(v, u) \/ (v = w /\ u = "CLIENT_FINISH" /\ x = key)
    <3>1. key \in Body("CLIENT_FINISH") /\ NetOK /\ "SERVER_AUTH" # "CLIENT_FINISH"
      BY <2>2, Bodies, WorkerTypes
    <3> QED
      BY <1>2, <1>3, <3>1, AnswerNet
  <2>5. MessageOK(w, "CLIENT_FINISH", key)'
    BY <1>2, <2>3 DEF MessageOK, OwnKey, world
  <2>6. WorkerOK' /\ FaultsOK' /\ wkey'[w] = key
    BY <1>2, <1>3, <2>2, WorkerTypes DEF WorkerOK, WorkerAt, FaultsOK, WorkerGoto
  <2>7. wpc' = [wpc EXCEPT ![w] = "finish"] /\ \A v \in Worker : v # w => wkey'[v] = wkey[v]
    BY <1>3, WorkerTypes DEF WorkerGoto, WorkerOK
  <2>8. "finish" \in WorkerAt \ {"lookup"}
    BY DEF WorkerAt
  <2>9. \A v \in Worker, u \in Tag : \A x \in Flight(v, u)' :
           x \in Flight(v, u) \/ MessageOK(v, u, x)'
    BY <2>4, <2>5
  <2> QED
    BY <1>2, <2>3, <2>4, <2>6, <2>7, <2>8, <2>9, WorkerKeeps
<1>4. CASE Take(w, "SERVER_AUTH") /\ WorkerLeaves(w, 1) /\ UNCHANGED wkey
  <2>1. /\ NetOK'
        /\ \A v \in Worker, u \in Tag : \A x \in Flight(v, u)' : x \in Flight(v, u)
    BY <1>2, <1>4, TakeNet, WorkerTypes
  <2>2. WorkerOK' /\ FaultsOK' /\ wpc' = [wpc EXCEPT ![w] = "disconnect"]
    BY <1>2, <1>4, WorkerTypes DEF WorkerOK, WorkerAt, FaultsOK, WorkerLeaves, WorkerGoto
  <2> QED
    BY <1>2, <1>4, <2>1, <2>2, WorkerMoves DEF WorkerAt
<1> QED
  BY <1>1, <1>3, <1>4 DEF ReceiveServerAuth

\* A confirmation that is the worker's own was sent with the slot filled.
LEMMA ReceiveServerFinishInvariant ==
    ASSUME IInv, NEW w \in Worker, ReceiveServerFinish(w) PROVE IInv'
<1>1. /\ Arrived(w, "SERVER_FINISH") /\ Take(w, "SERVER_FINISH") /\ "SERVER_FINISH" \in Tag
      /\ UNCHANGED <<world, name, master, wport, wctx, wkey, faults>> /\ wpc[w] = "finish"
  BY Tags DEF ReceiveServerFinish
<1>2. /\ NetOK' /\ Got(w, "SERVER_FINISH") \in Flight(w, "SERVER_FINISH")
      /\ \A v \in Worker, u \in Tag : \A x \in Flight(v, u)' : x \in Flight(v, u)
  BY <1>1, TakeNet, WorkerTypes
<1>3. CASE /\ Got(w, "SERVER_FINISH") = wkey[w] /\ WorkerGoto(w, "cmd") /\ UNCHANGED wcode
  <2>1. HasSlot(w, wkey[w])
    BY <1>1, <1>2, <1>3 DEF IInv, Messages, MessageOK, Workers
  <2>2. WorkerOK' /\ FaultsOK' /\ wpc' = [wpc EXCEPT ![w] = "cmd"]
    BY <1>1, <1>3, WorkerTypes DEF WorkerOK, WorkerAt, FaultsOK, WorkerGoto
  <2> QED
    BY <1>1, <1>2, <2>1, <2>2, WorkerKeeps DEF WorkerAt
<1>4. CASE WorkerLeaves(w, 1)
  <2>1. WorkerOK' /\ FaultsOK' /\ wpc' = [wpc EXCEPT ![w] = "disconnect"]
    BY <1>1, <1>4, WorkerTypes DEF WorkerOK, WorkerAt, FaultsOK, WorkerLeaves, WorkerGoto
  <2> QED
    BY <1>1, <1>2, <2>1, WorkerMoves DEF WorkerAt
<1> QED
  BY <1>3, <1>4 DEF ReceiveServerFinish

LEMMA ReceiveCommandInvariant ==
    ASSUME IInv, NEW w \in Worker, ReceiveCommand(w) PROVE IInv'
<1>1. /\ Arrived(w, "CMD") /\ Take(w, "CMD") /\ "CMD" \in Tag
      /\ UNCHANGED <<world, name, master, wport, wctx, wkey, faults>> /\ wpc[w] = "cmd"
  BY Tags DEF ReceiveCommand
<1>2. /\ NetOK' /\ Got(w, "CMD") \in Flight(w, "CMD")
      /\ \A v \in Worker, u \in Tag : \A x \in Flight(v, u)' : x \in Flight(v, u)
  BY <1>1, TakeNet, WorkerTypes
<1>3. CASE /\ Got(w, "CMD") = [key |-> wkey[w], cmd |-> "start"]
           /\ WorkerGoto(w, "working") /\ UNCHANGED wcode
  <2>1. HasSlot(w, wkey[w])
    BY <1>1 DEF IInv, Workers
  <2>2. Complete
    <3>1. MessageOK(w, "CMD", Got(w, "CMD")) /\ Got(w, "CMD").cmd = "start"
      BY <1>1, <1>2, <1>3 DEF IInv, Messages
    <3> QED
      BY <3>1 DEF MessageOK
  <2>3. WorkerOK' /\ FaultsOK' /\ wpc' = [wpc EXCEPT ![w] = "working"]
    BY <1>1, <1>3, WorkerTypes DEF WorkerOK, WorkerAt, FaultsOK, WorkerGoto
  <2> QED
    BY <1>1, <1>2, <2>1, <2>2, <2>3, WorkerKeeps DEF WorkerAt
<1>4. CASE WorkerLeaves(w, 0)
  <2>1. WorkerOK' /\ FaultsOK' /\ wpc' = [wpc EXCEPT ![w] = "disconnect"]
    BY <1>1, <1>4, WorkerTypes DEF WorkerOK, WorkerAt, FaultsOK, WorkerLeaves, WorkerGoto
  <2> QED
    BY <1>1, <1>2, <2>1, WorkerMoves DEF WorkerAt
<1> QED
  BY <1>3, <1>4 DEF ReceiveCommand
-----------------------------------------------------------------------------
(* The steps of the master *)

LEMMA MasterTypes ==
    ASSUME IInv
    PROVE  /\ NetOK /\ MasterOK /\ WorkerOK /\ round \in Nat /\ round \in Round0
           /\ slots \in Seq([worker : Worker, key : Keys]) /\ Len(slots) \in Nat
           /\ idx \in Round /\ idx \in Nat /\ hdr \in Headers /\ ev \in Evidence
           /\ skip \in BOOLEAN
<1>1. NetOK /\ MasterOK /\ WorkerOK /\ skip \in BOOLEAN
  BY TypeParts DEF IInv, WorldOK
<1>2. /\ round \in Round0 /\ idx \in Round /\ hdr \in Headers /\ ev \in Evidence
      /\ slots \in Seq([worker : Worker, key : Keys])
  BY <1>1 DEF MasterOK
<1> QED
  BY <1>1, <1>2, Numbers DEF Round

\* Messages nothing is said about.
LEMMA Quiet ==
    ASSUME \A v \in Worker, u \in Tag : \A x \in Flight(v, u)' :
              x \in Flight(v, u) \/ u \notin {"CLIENT_FINISH", "SERVER_FINISH", "CMD"}
    PROVE  \A v \in Worker, u \in Tag : \A x \in Flight(v, u)' :
              x \in Flight(v, u) \/ MessageOK(v, u, x)'
  BY DEF MessageOK

\* A step inside a round, or out of it, or to the exit.
LEMMA RoundKeeps ==
    ASSUME IInv, NEW pc \in WithPeer \cup {"round", "exited"}, mpc' = pc,
           mpc \in WithPeer \/ pc = "exited",
           pc \in {"auth", "finish"} => skip \/ ev'.vm \in genuine,
           UNCHANGED <<world, round, peer, slots, idx, wkey, faults>>,
           name' \in Round0, hdr' \in Headers, ev' \in Evidence, mcode' \in {0, 1, 124},
           NetOK', WorkerOK',
           \A v \in Worker, u \in Tag : \A x \in Flight(v, u)' :
              x \in Flight(v, u) \/ u \notin {"CLIENT_FINISH", "SERVER_FINISH", "CMD"},
           \A v \in Worker : \/ wpc'[v] = wpc[v]
                             \/ wpc'[v] \notin {"lookup", "connect", "finish", "cmd", "working"}
    PROVE  IInv'
<1>1. pc \in MasterAt
  BY DEF WithPeer, MasterAt
<1>2. MasterOK'
  BY <1>1, MasterTypes DEF MasterOK
<1>3. Complete => Complete'
  BY DEF Complete, WithPeer
<1>4. Rounds'
  <2>1. pc \in InRound => mpc \in InRound
    BY DEF InRound, WithPeer
  <2>2. pc \in InRound => round \in Round /\ Len(slots) < round
    BY <2>1 DEF IInv, Rounds
  <2>3. pc \in WithPeer => /\ peer \in Worker /\ wpc'[peer] \notin {"lookup", "connect"}
                           /\ \A i \in 1 .. Len(slots) : slots[i].worker # peer
    BY DEF IInv, Rounds, Accepted, WithPeer
  <2> QED
    BY <2>2, <2>3 DEF IInv, Rounds, Accepted, world
<1>5. Loops'
  BY DEF IInv, Loops, InRound, WithPeer
<1>6. round' >= round /\ (mpc' \in InRound => mpc \in InRound)
  BY MasterTypes DEF InRound, WithPeer
<1> QED
  BY <1>2, <1>3, <1>4, <1>5, <1>6, Quiet, MasterKeeps

LEMMA PublishNameInvariant ==
    ASSUME IInv, PublishName PROVE IInv'
<1>1. /\ mpc = "round" /\ round < Target /\ round' = round + 1 /\ name' = round + 1
      /\ mpc' = "accept"
      /\ UNCHANGED <<world, net, peer, hdr, ev, slots, idx, mcode, worker, faults>>
  BY DEF PublishName, Goto
<1>2. round + 1 \in Round /\ round + 1 \in Round0 /\ round' \in Nat
  BY <1>1, MasterTypes, Numbers DEF Round
<1>3. MasterOK' /\ WorkerOK' /\ UNCHANGED <<wpc, wkey>>
  BY <1>1, <1>2, MasterTypes DEF MasterOK, MasterAt, WorkerOK, worker
<1>4. /\ NetOK'
      /\ \A v \in Worker, u \in Tag : \A x \in Flight(v, u)' : x \in Flight(v, u)
  BY <1>1, MasterTypes, SameNet
<1>5. ~Complete
  BY <1>1 DEF Complete
<1>6. Len(slots) <= round
  BY DEF IInv, Rounds
<1>7. Rounds' /\ Loops'
  BY <1>1, <1>2, <1>6, MasterTypes DEF IInv, Rounds, Loops, InRound, WithPeer
<1>8. round' >= round /\ round' > round
  BY <1>1, MasterTypes
<1> QED
  BY <1>1, <1>3, <1>4, <1>5, <1>7, <1>8, MasterKeeps

LEMMA AcceptInvariant ==
    ASSUME IInv, NEW w \in Worker, Accept(w) PROVE IInv'
<1>1. /\ mpc = "accept" /\ wpc[w] = "connect" /\ peer' = w /\ mpc' = "barrier"
      /\ wpc' = [wpc EXCEPT ![w] = "barrier"]
      /\ UNCHANGED <<world, name, net, round, hdr, ev, slots, idx, mcode,
                     wport, wctx, wkey, wcode, faults>>
  BY DEF Accept, Goto
<1>2. MasterOK' /\ WorkerOK' /\ wpc'[w] = "barrier"
      /\ \A v \in Worker : wpc'[v] = wpc[v] \/ wpc'[v] = "barrier"
  BY <1>1, MasterTypes, Numbers DEF MasterOK, MasterAt, WorkerOK, WorkerAt
<1>3. /\ NetOK'
      /\ \A v \in Worker, u \in Tag : \A x \in Flight(v, u)' : x \in Flight(v, u)
  BY <1>1, MasterTypes, SameNet
<1>4. ~Complete
  BY <1>1 DEF Complete
<1>5. \A i \in 1 .. Len(slots) : slots[i].worker # w
  BY <1>1 DEF IInv, SlotsDone, Accepted
<1>6. Rounds' /\ Loops'
  BY <1>1, <1>2, <1>5 DEF IInv, Rounds, Loops, InRound, WithPeer, Accepted
<1>7. round' >= round /\ mpc \in InRound
  BY <1>1, MasterTypes DEF InRound
<1> QED
  BY <1>1, <1>2, <1>3, <1>4, <1>6, <1>7, MasterKeeps

LEMMA BarrierInvariant ==
    ASSUME IInv, NEW w \in Worker, Barrier(w) PROVE IInv'
<1>1. /\ mpc = "barrier" /\ mpc' = "close" /\ wpc' = [wpc EXCEPT ![w] = "request"]
      /\ UNCHANGED <<world, name, net, round, peer, hdr, ev, slots, idx, mcode,
                     wport, wctx, wkey, wcode, faults>>
  BY DEF Barrier, Goto
<1>2. WorkerOK' /\ \A v \in Worker : wpc'[v] = wpc[v] \/ wpc'[v] = "request"
  BY <1>1, MasterTypes DEF WorkerOK, WorkerAt
<1>3. /\ NetOK'
      /\ \A v \in Worker, u \in Tag : \A x \in Flight(v, u)' : x \in Flight(v, u)
  BY <1>1, MasterTypes, SameNet
<1> QED
  BY <1>1, <1>2, <1>3, MasterTypes, RoundKeeps DEF WithPeer, MasterOK

LEMMA DropInvariant ==
    ASSUME IInv, NEW w \in Worker, Drop(w) PROVE IInv'
<1>1. /\ mpc = "drop" /\ mpc' = "round" /\ wpc' = [wpc EXCEPT ![w] = "exited"]
      /\ UNCHANGED <<world, name, net, round, peer, hdr, ev, slots, idx, mcode,
                     wport, wctx, wkey, wcode, faults>>
  BY DEF Drop, Goto
<1>2. WorkerOK' /\ \A v \in Worker : wpc'[v] = wpc[v] \/ wpc'[v] = "exited"
  BY <1>1, MasterTypes DEF WorkerOK, WorkerAt
<1>3. /\ NetOK'
      /\ \A v \in Worker, u \in Tag : \A x \in Flight(v, u)' : x \in Flight(v, u)
  BY <1>1, MasterTypes, SameNet
<1> QED
  BY <1>1, <1>2, <1>3, MasterTypes, RoundKeeps DEF WithPeer, MasterOK

LEMMA UnpublishNameInvariant ==
    ASSUME IInv, UnpublishName PROVE IInv'
<1>1. /\ mpc = "close" /\ mpc' = "request" /\ name' = 0
      /\ UNCHANGED <<world, net, round, peer, hdr, ev, slots, idx, mcode, worker, faults>>
  BY DEF UnpublishName, Goto
<1>2. WorkerOK' /\ UNCHANGED <<wpc, wkey>>
  BY <1>1, MasterTypes DEF WorkerOK, worker
<1>3. /\ NetOK'
      /\ \A v \in Worker, u \in Tag : \A x \in Flight(v, u)' : x \in Flight(v, u)
  BY <1>1, MasterTypes, SameNet
<1> QED
  BY <1>1, <1>2, <1>3, MasterTypes, Numbers, RoundKeeps DEF WithPeer, MasterOK

\* The master of a round talks to a worker.
LEMMA PeerType ==
    ASSUME IInv, mpc \in WithPeer PROVE peer \in Worker
  BY DEF IInv, Rounds

\* A message of the master to its peer about which nothing is said.
LEMMA SendKeeps ==
    ASSUME IInv, mpc \in WithPeer, NEW pc \in WithPeer, mpc' = pc,
           NEW t \in Tag \ {"CLIENT_FINISH", "SERVER_FINISH", "CMD"}, NEW m \in Body(t),
           Send(peer, t, m), pc \in {"auth", "finish"} => skip \/ ev.vm \in genuine,
           UNCHANGED <<world, name, round, peer, hdr, ev, slots, idx, mcode, worker, faults>>
    PROVE  IInv'
<1>1. WorkerOK' /\ UNCHANGED <<wpc, wkey>>
  BY MasterTypes DEF WorkerOK, worker
<1>2. /\ NetOK'
      /\ \A v \in Worker, u \in Tag : \A x \in Flight(v, u)' :
            x \in Flight(v, u) \/ u = t
  BY MasterTypes, PeerType, SendNet
<1>3. /\ name' \in Round0 /\ hdr' \in Headers /\ ev' \in Evidence
      /\ mcode' \in {0, 1, 124} /\ (pc \in {"auth", "finish"} => skip \/ ev'.vm \in genuine)
  BY MasterTypes DEF MasterOK
<1> QED
  BY <1>1, <1>2, <1>3, RoundKeeps

LEMMA SendRequestInvariant ==
    ASSUME IInv, SendRequest PROVE IInv'
  BY SendKeeps, MasterTypes, Bodies, Tags DEF SendRequest, Goto, WithPeer

\* A message of the peer that is taken.
LEMMA TakeKeeps ==
    ASSUME IInv, mpc \in WithPeer, NEW pc \in (WithPeer \ {"auth", "finish"}) \cup {"exited"},
           mpc' = pc, NEW t \in Tag, Arrived(peer, t), Take(peer, t),
           hdr' \in Headers, ev' \in Evidence, mcode' \in {0, 1, 124},
           UNCHANGED <<world, name, round, peer, slots, idx, worker, faults>>
    PROVE  IInv'
<1>1. WorkerOK' /\ UNCHANGED <<wpc, wkey>> /\ name' \in Round0
  BY MasterTypes DEF WorkerOK, worker, MasterOK
<1>2. /\ NetOK'
      /\ \A v \in Worker, u \in Tag : \A x \in Flight(v, u)' : x \in Flight(v, u)
  BY MasterTypes, PeerType, TakeNet
<1> QED
  BY <1>1, <1>2, RoundKeeps

LEMMA GotType ==
    ASSUME NetOK, NEW w \in Worker, NEW t \in Tag, Arrived(w, t) PROVE Got(w, t) \in Body(t)
<1>1. net[w][t] \in Seq(Body(t)) /\ net[w][t] # <<>>
  BY DEF NetOK, Arrived
<1>2. Head(net[w][t]) \in Body(t)
  BY ONLY <1>1
<1> QED
  BY <1>2 DEF Got

LEMMA ReceiveHeaderInvariant ==
    ASSUME IInv, ReceiveHeader PROVE IInv'
<1>1. /\ mpc = "header" /\ Arrived(peer, "AUTH_HDR") /\ Take(peer, "AUTH_HDR")
      /\ hdr' = Got(peer, "AUTH_HDR") /\ ev' = NoEvidence
      /\ mpc' \in {"drop", "judge", "evidence"}
      /\ UNCHANGED <<world, name, round, peer, slots, idx, mcode, worker, faults>>
  BY DEF ReceiveHeader, Goto
<1>2. hdr' \in Headers /\ ev' \in Evidence /\ mcode' \in {0, 1, 124}
  BY <1>1, GotType, PeerType, MasterTypes, Bodies, Tags, Nothing DEF MasterOK, WithPeer
<1> QED
  BY <1>1, <1>2, TakeKeeps, Tags DEF WithPeer

LEMMA ReceiveEvidenceInvariant ==
    ASSUME IInv, ReceiveEvidence PROVE IInv'
<1>1. /\ mpc = "evidence" /\ Arrived(peer, "EVIDENCE") /\ Take(peer, "EVIDENCE")
      /\ \/ mpc' = "judge" /\ ev' = Got(peer, "EVIDENCE") /\ UNCHANGED mcode
         \/ mpc' = "exited" /\ mcode' = 1 /\ UNCHANGED ev
      /\ UNCHANGED <<world, name, round, peer, hdr, slots, idx, worker, faults>>
  BY DEF ReceiveEvidence, Goto, MasterExit
<1>2. hdr' \in Headers /\ ev' \in Evidence /\ mcode' \in {0, 1, 124}
  BY <1>1, GotType, PeerType, MasterTypes, Bodies, Tags DEF MasterOK, WithPeer
<1> QED
  BY <1>1, <1>2, TakeKeeps, Tags DEF WithPeer

LEMMA JudgeInvariant ==
    ASSUME IInv, Judge PROVE IInv'
<1>1. AttestOk \in BOOLEAN /\ (AttestOk => skip \/ ev.vm \in genuine)
  BY MasterTypes DEF AttestOk, Headers
<1>2. PICK verdict : verdict = AttestOk
  OBVIOUS
<1>3. /\ mpc = "judge" /\ Send(peer, "RESULT", verdict)
      /\ mpc' = (IF verdict THEN "auth" ELSE "drop")
      /\ UNCHANGED <<world, name, round, peer, hdr, ev, slots, idx, mcode, worker, faults>>
  BY <1>2 DEF Judge, Goto
<1>4. verdict \in Body("RESULT") /\ "RESULT" \in Tag \ {"CLIENT_FINISH", "SERVER_FINISH", "CMD"}
  BY <1>1, <1>2, Bodies, Tags
<1> QED
  BY <1>1, <1>2, <1>3, <1>4, SendKeeps DEF WithPeer

LEMMA MasterKeyType ==
    ASSUME IInv PROVE MasterKey \in Keys
  BY MasterTypes DEF MasterKey, Transcript, Keys, Headers

LEMMA SendServerAuthInvariant ==
    ASSUME IInv, SendServerAuth PROVE IInv'
<1>1. PICK m : m = [server |-> round, signed |-> MasterKey]
  OBVIOUS
<1>2. /\ mpc = "auth" /\ Send(peer, "SERVER_AUTH", m) /\ mpc' \in {"finish", "drop"}
      /\ UNCHANGED <<world, name, round, peer, hdr, ev, slots, idx, mcode, worker, faults>>
  BY <1>1 DEF SendServerAuth, Goto
<1>3. /\ m \in Body("SERVER_AUTH")
      /\ "SERVER_AUTH" \in Tag \ {"CLIENT_FINISH", "SERVER_FINISH", "CMD"}
  BY <1>1, MasterKeyType, MasterTypes, Bodies, Tags
<1>4. skip \/ ev.vm \in genuine
  BY <1>2 DEF IInv, Rounds
<1> QED
  BY <1>2, <1>3, <1>4, SendKeeps DEF WithPeer

LEMMA MasterEndsInvariant ==
    ASSUME IInv, MasterDeadline \/ PeerLost PROVE IInv'
<1>1. /\ mpc' = "exited" /\ mcode' \in {1, 124} /\ (name' = name \/ name' = 0)
      /\ UNCHANGED <<world, net, round, peer, hdr, ev, slots, idx, worker, faults>>
  BY DEF MasterDeadline, PeerLost, MasterExit
<1>2. WorkerOK' /\ UNCHANGED <<wpc, wkey>> /\ name' \in Round0
  BY <1>1, MasterTypes, Numbers DEF WorkerOK, worker, MasterOK
<1>3. /\ NetOK'
      /\ \A v \in Worker, u \in Tag : \A x \in Flight(v, u)' : x \in Flight(v, u)
  BY <1>1, MasterTypes, SameNet
<1> QED
  BY <1>1, <1>2, <1>3, MasterTypes, RoundKeeps

\* A step after the rounds.
LEMMA LoopKeeps ==
    ASSUME IInv, NEW pc \in {"tellDone", "leave", "command", "working", "exited"}, mpc' = pc,
           UNCHANGED <<world, name, round, peer, hdr, ev, slots, wkey, faults>>,
           idx' \in Round, mcode' \in {0, 1, 124},
           pc \in {"tellDone", "leave", "command"} => idx' <= Len(slots),
           pc \in {"command", "working"} => Len(slots) = Target,
           Complete => pc \in {"command", "working", "exited"},
           NetOK', WorkerOK',
           \A v \in Worker, u \in Tag : \A x \in Flight(v, u)' :
              x \in Flight(v, u) \/ MessageOK(v, u, x)',
           \A v \in Worker : wpc'[v] = wpc[v] \/ wpc'[v] = "exited"
    PROVE  IInv'
<1>1. MasterOK'
  BY MasterTypes DEF MasterOK, MasterAt
<1>2. Complete => Complete'
  BY DEF Complete
<1>3. Rounds' /\ Loops' /\ mpc' \notin InRound
  BY DEF IInv, Rounds, Loops, InRound, WithPeer
<1>4. round' >= round
  BY MasterTypes
<1> QED
  BY <1>1, <1>2, <1>3, <1>4, MasterKeeps

LEMMA EndRoundsInvariant ==
    ASSUME IInv, EndRounds PROVE IInv'
<1>1. /\ mpc = "round"
      /\ \/ mpc' = "command" /\ Len(slots) = Target /\ UNCHANGED mcode
         \/ mpc' = "exited" /\ mcode' = 1
         \/ mpc' = "tellDone" /\ slots # <<>> /\ UNCHANGED mcode
      /\ UNCHANGED <<world, name, net, round, peer, hdr, ev, slots, idx, worker, faults>>
  BY DEF EndRounds, Goto, MasterExit
<1>2. idx = 1 /\ ~Complete
  BY <1>1 DEF IInv, Loops, Complete
<1>3. slots # <<>> => Len(slots) >= 1
  BY MasterTypes
<1>4. WorkerOK' /\ UNCHANGED <<wpc, wkey>> /\ mcode' \in {0, 1, 124} /\ idx' \in Round
  BY <1>1, MasterTypes DEF WorkerOK, worker, MasterOK
<1>5. /\ NetOK'
      /\ \A v \in Worker, u \in Tag : \A x \in Flight(v, u)' : x \in Flight(v, u)
  BY <1>1, MasterTypes, SameNet
<1>6. mpc' \in {"tellDone", "command"} => idx' <= Len(slots)
  BY <1>1, <1>2, <1>3
<1> QED
  BY <1>1, <1>2, <1>4, <1>5, <1>6, LoopKeeps

LEMMA SendDoneInvariant ==
    ASSUME IInv, SendDone PROVE IInv'
<1>1. PICK m : m = [key |-> slots[idx].key, cmd |-> "done"]
  OBVIOUS
<1>2. /\ mpc = "tellDone" /\ Send(slots[idx].worker, "CMD", m) /\ mpc' = "leave"
      /\ UNCHANGED <<world, name, round, peer, hdr, ev, slots, idx, mcode, worker, faults>>
  BY <1>1 DEF SendDone, Goto
<1>3. idx \in 1 .. Len(slots) /\ ~Complete /\ idx <= Len(slots)
  BY <1>2, MasterTypes DEF IInv, Loops, Complete, Round
<1>4. slots[idx].worker \in Worker /\ slots[idx].key \in Keys
  BY <1>3, MasterTypes, SlotType
<1>5. m \in Body("CMD") /\ "CMD" \in Tag /\ m.cmd = "done"
  BY <1>1, <1>4, Bodies, Tags
<1>6. /\ NetOK'
      /\ \A v \in Worker, u \in Tag : \A x \in Flight(v, u)' :
            x \in Flight(v, u) \/ (u = "CMD" /\ x = m)
  BY <1>2, <1>4, <1>5, MasterTypes, SendNet
<1>7. \A v \in Worker, u \in Tag : \A x \in Flight(v, u)' :
         x \in Flight(v, u) \/ MessageOK(v, u, x)'
  BY <1>5, <1>6 DEF MessageOK
<1>8. WorkerOK' /\ UNCHANGED <<wpc, wkey>> /\ mcode' \in {0, 1, 124} /\ idx' \in Round
  BY <1>2, MasterTypes DEF WorkerOK, worker, MasterOK
<1> QED
  BY <1>2, <1>3, <1>6, <1>7, <1>8, LoopKeeps

LEMMA LeaveInvariant ==
    ASSUME IInv, NEW w \in Worker, Leave(w) PROVE IInv'
<1>1. /\ mpc = "leave" /\ wpc' = [wpc EXCEPT ![w] = "exited"]
      /\ \/ idx < Len(slots) /\ idx' = idx + 1 /\ mpc' = "tellDone" /\ UNCHANGED mcode
         \/ mpc' = "exited" /\ mcode' = 1 /\ UNCHANGED idx
      /\ UNCHANGED <<world, name, net, round, peer, hdr, ev, slots,
                     wport, wctx, wkey, wcode, faults>>
  BY DEF Leave, Goto, MasterExit
<1>2. WorkerOK' /\ \A v \in Worker : wpc'[v] = wpc[v] \/ wpc'[v] = "exited"
  BY <1>1, MasterTypes DEF WorkerOK, WorkerAt
<1>3. /\ NetOK'
      /\ \A v \in Worker, u \in Tag : \A x \in Flight(v, u)' : x \in Flight(v, u)
  BY <1>1, MasterTypes, SameNet
<1>4. ~Complete /\ Len(slots) <= Target
  BY <1>1, MasterTypes, Numbers DEF IInv, Complete, Rounds
<1>5. idx' \in Round /\ mcode' \in {0, 1, 124}
  BY <1>1, <1>4, MasterTypes DEF Round, MasterOK
<1>6. mpc' = "tellDone" => idx' <= Len(slots)
  BY <1>1, MasterTypes
<1> QED
  BY <1>1, <1>2, <1>3, <1>4, <1>5, <1>6, LoopKeeps

\* The command to start is sent only with all the slots taken.
LEMMA SendStartInvariant ==
    ASSUME IInv, SendStart PROVE IInv'
<1>1. PICK m : m = [key |-> slots[idx].key, cmd |-> "start"]
  OBVIOUS
<1>2. /\ mpc = "command" /\ Send(slots[idx].worker, "CMD", m)
      /\ \/ idx < Len(slots) /\ idx' = idx + 1 /\ mpc' = "command"
         \/ mpc' = "working" /\ UNCHANGED idx
      /\ UNCHANGED <<world, name, round, peer, hdr, ev, slots, mcode, worker, faults>>
  BY <1>1 DEF SendStart, Goto
<1>3. idx \in 1 .. Len(slots) /\ Len(slots) = Target
  BY <1>2, MasterTypes DEF IInv, Loops, Round
<1>4. slots[idx].worker \in Worker /\ slots[idx].key \in Keys
  BY <1>3, MasterTypes, SlotType
<1>5. m \in Body("CMD") /\ "CMD" \in Tag
  BY <1>1, <1>4, Bodies, Tags
<1>6. /\ NetOK'
      /\ \A v \in Worker, u \in Tag : \A x \in Flight(v, u)' : x \in Flight(v, u) \/ u = "CMD"
  BY <1>2, <1>4, <1>5, MasterTypes, SendNet
<1>7. Complete'
  BY <1>2, <1>3 DEF Complete
<1>8. \A v \in Worker, u \in Tag : \A x \in Flight(v, u)' :
         x \in Flight(v, u) \/ MessageOK(v, u, x)'
  BY <1>6, <1>7 DEF MessageOK
<1>9. WorkerOK' /\ UNCHANGED <<wpc, wkey>> /\ mcode' \in {0, 1, 124}
  BY <1>2, MasterTypes DEF WorkerOK, worker, MasterOK
<1>10. idx' \in Round /\ idx' <= Len(slots)
  BY <1>2, <1>3, MasterTypes DEF Round
<1> QED
  BY <1>2, <1>3, <1>6, <1>8, <1>9, <1>10, LoopKeeps

\* What one more slot leaves of the ones before.
LEMMA OneMoreSlot ==
    ASSUME NEW s, s \in [worker : Worker, key : Keys], slots' = Append(slots, s),
           slots \in Seq([worker : Worker, key : Keys])
    PROVE  /\ slots' \in Seq([worker : Worker, key : Keys])
           /\ Len(slots') = Len(slots) + 1 /\ Len(slots) \in Nat
           /\ \A i \in 1 .. Len(slots) : slots'[i] = slots[i]
           /\ slots'[Len(slots) + 1] = s
           /\ \A i \in 1 .. Len(slots') : i \in 1 .. Len(slots) \/ i = Len(slots) + 1
<1> DEFINE S == [worker : Worker, key : Keys]
<1> HIDE DEF S
<1>1. slots \in Seq(S) /\ s \in S
  BY DEF S
<1>2. /\ slots' \in Seq(S) /\ Len(slots') = Len(slots) + 1 /\ Len(slots) \in Nat
      /\ \A i \in 1 .. Len(slots) : slots'[i] = slots[i]
      /\ slots'[Len(slots) + 1] = s
  BY <1>1
<1>3. \A i \in 1 .. Len(slots') : i \in 1 .. Len(slots) \/ i = Len(slots) + 1
  BY <1>2
<1> QED
  BY <1>2, <1>3 DEF S

\* The proof of the keys is the master's own transcript, so only its peer can
\* have computed it, and the evidence in it is the peer's.
LEMMA ReceiveClientFinishInvariant ==
    ASSUME IInv, ReceiveClientFinish PROVE IInv'
<1>1. /\ mpc = "finish" /\ Arrived(peer, "CLIENT_FINISH") /\ "CLIENT_FINISH" \in Tag
      /\ "SERVER_FINISH" \in Tag /\ peer \in Worker
      /\ UNCHANGED <<world, name, round, peer, hdr, ev, idx, mcode, worker, faults>>
  BY PeerType, Tags DEF ReceiveClientFinish, WithPeer
<1>2. CASE Take(peer, "CLIENT_FINISH") /\ mpc' = "drop" /\ UNCHANGED slots
  <2>1. hdr' \in Headers /\ ev' \in Evidence /\ mcode' \in {0, 1, 124}
    BY <1>1, MasterTypes DEF MasterOK
  <2> QED
    BY <1>1, <1>2, <2>1, TakeKeeps DEF WithPeer
<1>3. ASSUME NEW k, k = MasterKey, Got(peer, "CLIENT_FINISH") = k,
             Answer(peer, "CLIENT_FINISH", "SERVER_FINISH", k),
             slots' = Append(slots, [worker |-> peer, key |-> k]), mpc' = "round"
      PROVE  IInv'
  <2>1. k \in Keys /\ k.context = round /\ k.server = round
    BY <1>3, MasterKeyType DEF MasterKey, Transcript
  <2>2. /\ NetOK' /\ k \in Flight(peer, "CLIENT_FINISH")
        /\ \A v \in Worker, u \in Tag : \A x \in Flight(v, u)' :
              x \in Flight(v, u) \/ (v = peer /\ u = "SERVER_FINISH" /\ x = k)
    <3>1. k \in Body("SERVER_FINISH")
      BY <2>1, Bodies
    <3> QED
      BY <1>1, <1>3, <3>1, MasterTypes, AnswerNet
  <2>3. OwnKey(peer, k) /\ round \in Round /\ Len(slots) < round
    <3>1. round \in Round /\ Len(slots) < round
      BY <1>1 DEF IInv, Rounds, InRound, WithPeer
    <3>2. k # NoKey
      BY <2>1, <3>1, Numbers DEF NoKey, Transcript
    <3>3. MessageOK(peer, "CLIENT_FINISH", k)
      BY <1>1, <2>2 DEF IInv, Messages
    <3> QED
      BY <3>1, <3>2, <3>3 DEF MessageOK
  <2>4. ~skip => peer \in genuine /\ k.evidence = Report(peer, k.binding)
    <3>1. SUFFICES ASSUME ~skip
                   PROVE  peer \in genuine /\ k.evidence = Report(peer, k.binding)
      OBVIOUS
    <3>2. k.evidence = Report(peer, k.binding) /\ k.evidence = ev
      BY <1>3, <2>3, <3>1 DEF OwnKey, MasterKey, Transcript
    <3>3. ev.vm \in genuine
      BY <1>1, <3>1 DEF IInv, Rounds
    <3> QED
      BY <3>2, <3>3 DEF Report
  <2>5. \A j \in 1 .. Len(slots) : slots[j].worker # peer /\ slots[j].key.context < round
    BY <1>1 DEF IInv, Rounds, SlotsDone, InRound, WithPeer
  <2> DEFINE s == [worker |-> peer, key |-> k]
             n == Len(slots) + 1
  <2>6. s \in [worker : Worker, key : Keys] /\ s.worker = peer /\ s.key = k
    BY <1>1, <2>1
  <2>7. /\ slots' \in Seq([worker : Worker, key : Keys])
        /\ Len(slots') = n /\ Len(slots) \in Nat
        /\ \A j \in 1 .. Len(slots) : slots'[j] = slots[j]
        /\ slots'[n].worker = peer /\ slots'[n].key = k
        /\ \A j \in 1 .. Len(slots') : j \in 1 .. Len(slots) \/ j = n
    BY <1>3, <2>6, MasterTypes, OneMoreSlot
  <2> HIDE DEF s
  <2>8. /\ UNCHANGED <<skip, genuine, paired>> /\ UNCHANGED <<wpc, wkey, wcode, wport, wctx>>
        /\ UNCHANGED <<name, round, peer, hdr, ev, idx, mcode, faults>>
    BY <1>1 DEF world, worker
  <2>9. TypeOK'
    <3>1. WorldOK' /\ WorkerOK' /\ FaultsOK' /\ MasterOK'
      BY <1>3, <2>7, <2>8, TypeParts DEF IInv, WorldOK, WorkerOK, FaultsOK, MasterOK, MasterAt
    <3>2. (WorldOK /\ NetOK /\ MasterOK /\ WorkerOK /\ FaultsOK)'
      BY <2>2, <3>1
    <3> QED
      BY <3>2 DEF TypeOK, WorldOK, NetOK, MasterOK, WorkerOK, FaultsOK
  <2>10. \A v, x : HasSlot(v, x) => HasSlot(v, x)'
    BY <2>7 DEF HasSlot
  <2>11. HasSlot(peer, k)' /\ ~Complete
    BY <1>1, <2>7, <2>8 DEF HasSlot, Complete
  <2>12. Messages'
    <3>1. MessageOK(peer, "SERVER_FINISH", k)'
      BY <2>8, <2>11 DEF MessageOK
    <3>2. \A v \in Worker, u \in Tag : \A x \in Flight(v, u)' :
             x \in Flight(v, u) \/ MessageOK(v, u, x)'
      BY <2>2, <2>8, <3>1
    <3> QED
      BY <1>1, <2>10, <2>11, <3>2, MessagesKept DEF IInv
  <2>13. Rounds' /\ Loops'
    BY <1>1, <1>3, <2>3, <2>7, <2>8, MasterTypes DEF IInv, Rounds, Loops, InRound, WithPeer
  <2>14. Workers'
    BY <2>8, <2>10, <2>11 DEF IInv, Workers
  <2>15. SlotsDone'
    <3>1. ASSUME NEW j \in 1 .. Len(slots')
          PROVE  /\ wpc[slots'[j].worker] \notin {"lookup", "connect"}
                 /\ slots'[j].key.context <= round
      <4>1. CASE j \in 1 .. Len(slots)
        BY <2>7, <4>1 DEF IInv, SlotsDone, Accepted
      <4>2. CASE j = n
        BY <1>1, <2>1, <2>7, <4>2, MasterTypes DEF IInv, Rounds, Accepted, WithPeer
      <4> QED
        BY <2>7, <4>1, <4>2
    <3>2. mpc' \notin InRound
      BY <1>3 DEF InRound, WithPeer
    <3> QED
      BY <2>8, <3>1, <3>2 DEF SlotsDone, Accepted
  <2>16. SlotsAttested'
    <3>1. ASSUME NEW a \in 1 .. Len(slots'), NEW b \in 1 .. Len(slots'), a < b
          PROVE  /\ slots'[a].worker # slots'[b].worker
                 /\ slots'[a].key.context < slots'[b].key.context
      <4>1. a \in 1 .. Len(slots)
        BY <2>7, <3>1
      <4>2. CASE b \in 1 .. Len(slots)
        BY <2>7, <3>1, <4>1, <4>2 DEF IInv, SlotsAttested
      <4>3. CASE b = n
        BY <2>1, <2>5, <2>7, <4>1, <4>3
      <4> QED
        BY <2>7, <4>2, <4>3
    <3>2. ASSUME NEW j \in 1 .. Len(slots'), NEW v, v = slots'[j].worker,
                 NEW x, x = slots'[j].key
          PROVE  /\ x.client = v /\ x.server = x.context /\ x.binding = Binding(x.context, v)
                 /\ v \in paired
                 /\ ~skip => v \in genuine /\ x.evidence = Report(v, x.binding)
      <4>1. CASE j \in 1 .. Len(slots)
        BY <2>7, <3>2, <4>1 DEF IInv, SlotsAttested
      <4>2. CASE j = n
        BY <2>1, <2>3, <2>4, <2>7, <3>2, <4>2 DEF OwnKey
      <4> QED
        BY <2>7, <4>1, <4>2
    <3> QED
      BY <2>8, <3>1, <3>2 DEF SlotsAttested
  <2> QED
    BY <2>9, <2>12, <2>13, <2>14, <2>15, <2>16 DEF IInv
<1> QED
  BY <1>2, <1>3 DEF ReceiveClientFinish, Goto

-----------------------------------------------------------------------------
(* The environment *)

\* A changed message has the type of its tag, proves nothing and carries the
\* same command.
LEMMA ChangedMessage ==
    ASSUME NEW t \in Tag, NEW m \in Body(t), NEW c \in Changed(t, m)
    PROVE  /\ c \in Body(t)
           /\ t \in {"CLIENT_FINISH", "SERVER_FINISH"} => c = NoKey
           /\ t = "CMD" => c.cmd = m.cmd
<1>1. CASE t = "REQUEST"
  BY <1>1, Bodies, Numbers DEF Changed
<1>2. CASE t = "AUTH_HDR"
  <2>1. /\ m \in Headers
        /\ \/ c = [m EXCEPT !.pk = 0] \/ c = [m EXCEPT !.binding = <<0, 0>>]
           \/ c = [m EXCEPT !.format = FALSE]
           \/ \E l \in EvidenceLen : c = [m EXCEPT !.len = l]
    BY <1>2, Bodies DEF Changed
  <2>2. c \in Headers
    BY <2>1, Numbers, Nothing DEF Headers
  <2> QED
    BY <1>2, <2>2, Bodies
<1>3. CASE t = "EVIDENCE"
  <2>1. m \in Evidence /\ c = [m EXCEPT !.data = <<0, 0>>]
    BY <1>3, Bodies DEF Changed
  <2>2. c \in Evidence
    BY <2>1, Nothing DEF Evidence
  <2> QED
    BY <1>3, <2>2, Bodies
<1>4. CASE t = "RESULT"
  BY <1>4, Bodies DEF Changed
<1>5. CASE t = "SERVER_AUTH"
  <2>1. /\ m \in [server : Round0, signed : Keys]
        /\ c = [m EXCEPT !.server = 0] \/ c = [m EXCEPT !.signed = NoKey]
    BY <1>5, Bodies DEF Changed
  <2>2. c \in [server : Round0, signed : Keys]
    BY <2>1, Numbers, Nothing
  <2> QED
    BY <1>5, <2>2, Bodies
<1>6. CASE t \in {"CLIENT_FINISH", "SERVER_FINISH"}
  BY <1>6, Bodies, Nothing DEF Changed
<1>7. CASE t = "CMD"
  <2>1. m \in [key : Keys, cmd : {"start", "done"}] /\ c = [m EXCEPT !.key = NoKey]
    BY <1>7, Bodies DEF Changed
  <2>2. c \in [key : Keys, cmd : {"start", "done"}] /\ c.cmd = m.cmd
    BY <2>1, Nothing
  <2> QED
    BY <1>7, <2>2, Bodies
<1> QED
  BY <1>1, <1>2, <1>3, <1>4, <1>5, <1>6, <1>7, Tags

LEMMA DamageInvariant ==
    ASSUME IInv, NEW w \in Worker, NEW t \in Tag, Damage(w, t) PROVE IInv'
<1>1. /\ faults < MaxFaults /\ faults' = faults + 1 /\ Arrived(w, t)
      /\ UNCHANGED <<world, name, master, worker>>
  BY DEF Damage
<1>2. PICK g : g = Got(w, t)
  OBVIOUS
<1>3. PICK c \in Changed(t, g) : net' = [net EXCEPT ![w][t] = <<c>>]
  BY <1>2 DEF Damage
<1>4. g \in Body(t) /\ g \in Flight(w, t)
  <2>1. net[w][t] \in Seq(Body(t)) /\ net[w][t] # <<>>
    BY <1>1, MasterTypes DEF NetOK, Arrived
  <2>2. Head(net[w][t]) \in Body(t) /\ Head(net[w][t]) = net[w][t][1] /\ 1 \in 1 .. Len(net[w][t])
    BY ONLY <2>1
  <2> QED
    BY <1>2, <2>2 DEF Got, Flight
<1>5. /\ c \in Body(t) /\ (t \in {"CLIENT_FINISH", "SERVER_FINISH"} => c = NoKey)
      /\ (t = "CMD" => c.cmd = g.cmd)
  BY <1>3, <1>4, ChangedMessage
<1>6. /\ NetOK'
      /\ \A v \in Worker, u \in Tag : \A x \in Flight(v, u)' :
            x \in Flight(v, u) \/ (v = w /\ u = t /\ x = c)
  BY <1>3, <1>5, MasterTypes, DamageNet
<1>7. MessageOK(w, t, g)
  BY <1>4 DEF IInv, Messages
<1>8. /\ UNCHANGED <<skip, genuine, paired, mpc, round, peer, hdr, ev, slots, idx, mcode>>
      /\ UNCHANGED <<name, wpc, wport, wctx, wkey, wcode>>
  BY <1>1 DEF world, master, worker
<1>9. (Complete <=> Complete') /\ \A v, k : HasSlot(v, k) <=> HasSlot(v, k)'
  BY <1>8 DEF Complete, HasSlot
<1>10. MessageOK(w, t, c)'
  BY <1>5, <1>7, <1>9 DEF MessageOK
<1>11. Messages'
  BY <1>1, <1>6, <1>9, <1>10, MessagesKept DEF IInv
<1>12. TypeOK'
  <2>1. WorldOK' /\ WorkerOK' /\ FaultsOK' /\ MasterOK'
    BY <1>1, <1>8, TypeParts DEF IInv, WorldOK, WorkerOK, FaultsOK, MasterOK
  <2>2. (WorldOK /\ NetOK /\ MasterOK /\ WorkerOK /\ FaultsOK)'
    BY <1>6, <2>1
  <2> QED
    BY <2>2 DEF TypeOK, WorldOK, NetOK, MasterOK, WorkerOK, FaultsOK
<1>13. Workers'
  BY <1>8, <1>9 DEF IInv, Workers
<1>14. Rounds' /\ Loops' /\ SlotsAttested' /\ SlotsDone'
  BY <1>8 DEF IInv, Rounds, Loops, SlotsAttested, SlotsDone, Accepted
<1> QED
  BY <1>11, <1>12, <1>13, <1>14 DEF IInv
-----------------------------------------------------------------------------
(* The invariant and what follows from it *)

LEMMA InitInvariant == Init => IInv
<1> SUFFICES ASSUME Init PROVE IInv
  OBVIOUS
<1>1. /\ slots = <<>> /\ Len(slots) = 0 /\ slots \in Seq([worker : Worker, key : Keys])
      /\ mpc = "round" /\ round = 0 /\ idx = 1
  BY DEF Init
<1>2. NetOK /\ \A w \in Worker, t \in Tag : Flight(w, t) = {}
  <2>1. net = [w \in Worker |-> [t \in Tag |-> <<>>]]
    BY DEF Init
  <2>2. \A w \in Worker, t \in Tag : net[w][t] = <<>> /\ Len(net[w][t]) = 0
    BY <2>1
  <2> QED
    BY <2>1, <2>2 DEF NetOK, Flight
<1>3. WorldOK /\ MasterOK /\ FaultsOK
  BY <1>1, Numbers, Nothing DEF Init, WorldOK, MasterOK, MasterAt, FaultsOK
<1>4. WorkerOK
  BY Numbers, Nothing DEF Init, WorkerOK, WorkerAt
<1>5. Messages /\ Workers
  BY <1>2 DEF Init, Messages, Workers
<1>6. Rounds /\ Loops /\ SlotsAttested /\ SlotsDone
  BY <1>1 DEF Rounds, Loops, SlotsAttested, SlotsDone, InRound, WithPeer
<1> QED
  BY <1>2, <1>3, <1>4, <1>5, <1>6, TypeParts DEF IInv

LEMMA NextInvariant == IInv /\ [Next]_vars => IInv'
<1> SUFFICES ASSUME IInv, [Next]_vars PROVE IInv'
  OBVIOUS
<1>1. CASE MasterStep
  BY <1>1, PublishNameInvariant, UnpublishNameInvariant, SendRequestInvariant,
     ReceiveHeaderInvariant, ReceiveEvidenceInvariant, JudgeInvariant,
     SendServerAuthInvariant, ReceiveClientFinishInvariant, EndRoundsInvariant,
     SendDoneInvariant, SendStartInvariant DEF MasterStep
<1>2. ASSUME NEW w \in Worker, WorkerStep(w) PROVE IInv'
  BY <1>2, LookupNameInvariant, ReceiveRequestInvariant, SendHeaderInvariant,
     SendEvidenceInvariant, ReceiveResultInvariant, ReceiveServerAuthInvariant,
     ReceiveServerFinishInvariant, ReceiveCommandInvariant DEF WorkerStep
<1>3. ASSUME NEW w \in Worker, Collective(w) PROVE IInv'
  BY <1>3, AcceptInvariant, BarrierInvariant, DropInvariant, LeaveInvariant DEF Collective
<1>4. CASE MasterDeadline \/ PeerLost
  BY <1>4, MasterEndsInvariant
<1>5. ASSUME NEW w \in Worker,
             WorkerDeadline(w) \/ ConnectFails(w) \/ MasterLost(w) \/ ReportFails(w) \/ Kill(w)
      PROVE  IInv'
  BY <1>5, EndsInvariant
<1>6. ASSUME NEW w \in Worker, NEW t \in Tag, Damage(w, t) PROVE IInv'
  BY <1>6, DamageInvariant
<1>7. CASE UNCHANGED vars
  <2>1. /\ UNCHANGED <<skip, genuine, paired, mpc, round, peer, hdr, ev, slots, idx, mcode>>
        /\ UNCHANGED <<name, net, wpc, wport, wctx, wkey, wcode, faults>>
    BY <1>7 DEF vars, world, master, worker
  <2>2. TypeOK' /\ Messages'
    BY <2>1 DEF IInv, TypeOK, Messages, Flight, MessageOK, OwnKey, HasSlot, Complete
  <2>3. Rounds' /\ Loops' /\ SlotsAttested' /\ SlotsDone' /\ Workers'
    BY <2>1 DEF IInv, Rounds, Loops, SlotsAttested, SlotsDone, Workers, Accepted, HasSlot, Complete
  <2> QED
    BY <2>2, <2>3 DEF IInv
<1> QED
  BY <1>1, <1>2, <1>3, <1>4, <1>5, <1>6, <1>7 DEF Next, Progress

\* The inductive invariant holds in every reachable state.
THEOREM Invariance == Spec => []IInv
  BY InitInvariant, NextInvariant, PTL DEF Spec

\* Every variable of both programs stays in its range: the loop variable is
\* always a slot number, the round at most the number of workers asked for.
THEOREM TypeCorrect == Spec => []TypeOK
<1>1. IInv => TypeOK
  BY DEF IInv
<1> QED
  BY <1>1, Invariance, PTL

\* Whatever is killed, changed under way or late, and however many processes
\* connect, a slot is filled only for a worker whose evidence passed, for the
\* key and the context of its own round, and for no worker twice.
THEOREM SlotsAreAttested == Spec => []SlotsAttested
<1>1. IInv => SlotsAttested
  BY DEF IInv
<1> QED
  BY <1>1, Invariance, PTL

\* A worker that has left the key exchange well has a slot with its own keys.
THEOREM BothEndsAgree == Spec => []KeysAgree
<1>1. IInv => KeysAgree
  BY DEF IInv, Workers, KeysAgree, HasSlot
<1> QED
  BY <1>1, Invariance, PTL

\* No worker begins to work for a master that is short of workers.
THEOREM StartIsComplete == Spec => []NoPartialStart
<1>1. IInv => NoPartialStart
  BY DEF IInv, Workers, NoPartialStart, Complete
<1> QED
  BY <1>1, Invariance, PTL
=============================================================================
