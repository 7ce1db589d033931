------------------------ MODULE StarEnrollment_proofs ------------------------
(***************************************************************************)
(* Proofs about StarEnrollment for every number of workers, rounds and     *)
(* faults, every size of the table, both programs and both builds.         *)
(***************************************************************************)
EXTENDS StarEnrollment, TLAPS

USE StarEnrollmentAssumption

-----------------------------------------------------------------------------
(* The inductive invariant *)

Tag      == DownTag \cup UpTag
MasterAt == {"open", "accept", "barrier", "challenge", "receive", "verdict", "server_pk",
             "enroll", "disconnect", "farm", "exited"}
WorkerAt == {"idle", "connect", "barrier", "challenge", "send", "result", "server_pk",
             "disconnect", "loop", "exited"}

SlotSet == [worker : Proc, round : Nat, pk : Nat, key : Nat \X Nat]

\* At most one value, as a message under way or one that was received.
Maybe(q, S) == q = <<>> \/ (q = <<q[1]>> /\ q[1] \in S)

\* What w sends with tag t, or what damage makes of it: no field that says
\* what the report, the header or the hash is about can come to say
\* something else that is true.
Fits(w, t) ==
    CASE t = "CHALLENGE" -> [value : Nat, offer : BOOLEAN]
      [] t = "RESULT"    -> BOOLEAN
      [] t = "SERVER_PK" -> Nat
      [] t = "PK"        -> {w, 0}
      [] t = "LEN"       -> Length
      [] t = "HDR"       -> [pk : {w, 0}, len : Length,
                             binding : {Binding(wchal[w], w), Binding(0, 0)}]
      [] t = "DATA"      -> [about : {Binding(wchal[w], w), Binding(0, 0)}, whole : BOOLEAN]
      [] t = "FINISHED"  -> [challenge : {wchal[w], 0}, hdr : {Header(w, wchal[w], wlen[w])},
                             data : {Evidence(w)}]

Types ==
    /\ program \in {"star", "attest"} /\ skip \in BOOLEAN
    /\ mpc \in MasterAt /\ round \in Nat \ {0} /\ cur \in 0 .. NProc /\ pos \in 1 .. 3
    /\ net = [w \in Proc |-> [t \in Tag |-> net[w][t]]]
    /\ got = [t \in UpTag |-> got[t]]
    /\ slots \in Seq(SlotSet)
    /\ wpc \in [Proc -> WorkerAt] /\ wpos \in [Proc -> 1 .. 3]
    /\ wlen \in [Proc -> Length] /\ wchal \in [Proc -> Nat]
    /\ wkey \in [Proc -> Nat \X Nat]

\* A worker that has not heard the challenge has sent nothing, and nothing
\* is sent to one that has not passed the barrier.
Mail ==
    \A w \in Proc :
        /\ \A t \in Tag : Maybe(net[w][t], Fits(w, t))
        /\ wpc[w] \in {"idle", "connect", "barrier"} => \A t \in Tag : net[w][t] = <<>>
        /\ wpc[w] = "challenge" => \A t \in UpTag : net[w][t] = <<>>

\* Where the worker of the round is when the master is somewhere.
Place ==
    /\ mpc \in {"open", "accept", "farm"} => cur = 0
    /\ mpc \notin {"open", "accept", "farm", "exited"} => cur # 0
    /\ cur # 0 =>
          /\ wpc[cur] \notin {"idle", "connect"}
          /\ wpc[cur] = "barrier" => mpc \in {"barrier", "exited"}
          /\ wpc[cur] = "challenge" => \/ mpc \in {"challenge", "exited"}
                                       \/ mpc = "receive" /\ pos = 1 /\ got = Nothing

\* The worker answered the challenge of round r with the public key pk, and
\* its report is genuine or it was not asked for one.
Qualifies(w, r, pk) ==
    /\ wchal[w] = r /\ pk = w
    /\ w \in genuine \/ (program = "attest" /\ wlen[w] = "none")

Received ==
    /\ mpc \in {"receive", "verdict"} => \A t \in UpTag : Maybe(got[t], Fits(cur, t))
    /\ (mpc = "receive" /\ pos > 1) \/ mpc = "verdict" => got[Ups[1]] # <<>>
    /\ mpc = "verdict" /\ program = "attest" => got["FINISHED"] # <<>>
    /\ mpc \in {"server_pk", "enroll"} =>
          /\ PkOf(got) \in {cur, 0}
          /\ ~skip => Qualifies(cur, round, PkOf(got))

\* The public key of the master that is on the way to w, or that w made its
\* key from, is the one of round r.
Holds(w, r) ==
    /\ Maybe(net[w]["SERVER_PK"], {r})
    /\ wpc[w] = "loop" => wkey[w] = Key(w, r)

Keys ==
    /\ cur # 0 /\ cur \notin harmed => Holds(cur, round)
    /\ \A i \in 1 .. Len(slots) :
          slots[i].worker \notin harmed => Holds(slots[i].worker, slots[i].round)

Early == {"idle", "connect", "barrier", "challenge"}

Table ==
    \A i \in 1 .. Len(slots) :
        /\ \A j \in 1 .. Len(slots) : slots[j].worker = slots[i].worker => i = j
        /\ slots[i].worker # cur /\ wpc[slots[i].worker] \notin Early
        /\ slots[i].key = Key(slots[i].pk, slots[i].round)
        /\ ~skip => Qualifies(slots[i].worker, slots[i].round, slots[i].pk)

IInv == Types /\ Mail /\ Place /\ Received /\ Keys /\ Table
-----------------------------------------------------------------------------
(* The mail *)

LEMMA TagSets ==
    /\ Tag = {"CHALLENGE", "RESULT", "SERVER_PK", "PK", "LEN", "HDR", "DATA", "FINISHED"}
    /\ UpTag = {"PK", "LEN", "HDR", "DATA", "FINISHED"}
BY DEF Tag, DownTag, UpTag

\* The sets of good messages, tag by tag.
LEMMA FitsTags ==
    ASSUME NEW w
    PROVE  /\ Fits(w, "CHALLENGE") = [value : Nat, offer : BOOLEAN]
           /\ Fits(w, "RESULT") = BOOLEAN
           /\ Fits(w, "SERVER_PK") = Nat
           /\ Fits(w, "PK") = {w, 0}
           /\ Fits(w, "LEN") = Length
           /\ Fits(w, "HDR") = [pk : {w, 0}, len : Length,
                                binding : {Binding(wchal[w], w), Binding(0, 0)}]
           /\ Fits(w, "DATA") = [about : {Binding(wchal[w], w), Binding(0, 0)},
                                 whole : BOOLEAN]
           /\ Fits(w, "FINISHED") = [challenge : {wchal[w], 0},
                                     hdr : {Header(w, wchal[w], wlen[w])},
                                     data : {Evidence(w)}]
BY DEF Fits

\* What fits depends on the worker's challenge and length only.
LEMMA FitsKept ==
    ASSUME NEW w, wchal'[w] = wchal[w], wlen'[w] = wlen[w]
    PROVE  \A t : Fits(w, t)' = Fits(w, t)
BY DEF Fits, Evidence, Report, Header

LEMMA UpsTags ==
    ASSUME Types
    PROVE  /\ Len(Ups) = 3 /\ Ups[1] \in {"PK", "HDR"}
           /\ \A i \in 1 .. 3 : Ups[i] \in UpTag
           /\ program = "star" => Ups = <<"PK", "LEN", "DATA">>
           /\ program = "attest" => Ups = <<"HDR", "DATA", "FINISHED">>
<1>1. program \in {"star", "attest"}
  BY DEF Types
<1>2. CASE program = "star"
  <2>1. Ups = <<"PK", "LEN", "DATA">>
    BY <1>2 DEF Ups, StarUps
  <2> QED BY <1>2, <2>1 DEF UpTag
<1>3. CASE program = "attest"
  <2>1. Ups = <<"HDR", "DATA", "FINISHED">>
    BY <1>3 DEF Ups, AttestUps
  <2> QED BY <1>3, <2>1 DEF UpTag
<1> QED
  BY <1>1, <1>2, <1>3

\* Post and Take touch one queue.
OneQueue(w, t, q) ==
    /\ net' = [v \in Proc |-> [s \in Tag |-> net'[v][s]]]
    /\ net'[w][t] = q
    /\ \A v \in Proc, s \in Tag : v # w \/ s # t => net'[v][s] = net[v][s]

LEMMA Written ==
    ASSUME Types, NEW w \in Proc, NEW t \in Tag, NEW q, net' = [net EXCEPT ![w][t] = q]
    PROVE  OneQueue(w, t, q)
<1>1. net = [v \in Proc |-> [s \in Tag |-> net[v][s]]]
  BY DEF Types
<1>2. \A v \in Proc, s \in Tag : net'[v][s] = IF v = w /\ s = t THEN q ELSE net[v][s]
  BY <1>1
<1>3. net' = [v \in Proc |-> [s \in Tag |-> IF v = w /\ s = t THEN q ELSE net[v][s]]]
  BY <1>1
<1> QED
  BY <1>2, <1>3 DEF OneQueue

\* One queue is written; the challenges and lengths stay.
LEMMA MailStep ==
    ASSUME IInv, NEW w \in Proc, NEW t \in Tag, NEW q, net' = [net EXCEPT ![w][t] = q],
           UNCHANGED <<wchal, wlen>>, Maybe(q, Fits(w, t)),
           q # <<>> => /\ wpc[w] \notin {"idle", "connect", "barrier"}
                       /\ t \in UpTag => wpc[w] # "challenge",
           \A v \in Proc : wpc'[v] = wpc[v] \/ wpc'[v] \notin Early
    PROVE  Mail'
<1>1. /\ Types /\ Mail /\ net'[w][t] = q
      /\ \A v \in Proc, s \in Tag : v # w \/ s # t => net'[v][s] = net[v][s]
  <2>1. Types /\ Mail
    BY DEF IInv
  <2>2. OneQueue(w, t, q)
    BY <2>1, Written
  <2> QED BY <2>1, <2>2 DEF OneQueue
<1>2. SUFFICES ASSUME NEW v \in Proc
               PROVE  /\ \A s \in Tag : Maybe(net[v][s], Fits(v, s))'
                      /\ wpc'[v] \in {"idle", "connect", "barrier"} =>
                            \A s \in Tag : net'[v][s] = <<>>
                      /\ wpc'[v] = "challenge" => \A s \in UpTag : net'[v][s] = <<>>
  BY DEF Mail
<1>3. ASSUME NEW s \in Tag
      PROVE  /\ Maybe(net[v][s], Fits(v, s))'
             /\ net'[v][s] = net[v][s] \/ (v = w /\ s = t /\ net'[v][s] = q)
  <2>1. Fits(v, s)' = Fits(v, s)
    BY FitsKept
  <2>2. CASE v = w /\ s = t
    <3>1. net'[v][s] = q
      BY <1>1, <2>2
    <3> QED BY <2>1, <2>2, <3>1 DEF Maybe
  <2>3. CASE ~(v = w /\ s = t)
    <3>1. net'[v][s] = net[v][s]
      BY <1>1, <2>3
    <3> QED BY <1>1, <2>1, <2>3, <3>1 DEF Mail, Maybe
  <2> QED BY <2>2, <2>3
<1>4. UpTag \subseteq Tag
  BY DEF Tag
<1>5. wpc'[v] \in Early => wpc'[v] = wpc[v]
  OBVIOUS
<1>6. ASSUME wpc'[v] \in {"idle", "connect", "barrier"}, NEW s \in Tag PROVE net'[v][s] = <<>>
  BY <1>1, <1>3, <1>5, <1>6 DEF Mail, Early
<1>7. ASSUME wpc'[v] = "challenge", NEW s \in UpTag PROVE net'[v][s] = <<>>
  BY <1>1, <1>3, <1>4, <1>5, <1>7 DEF Mail, Early
<1> QED
  BY <1>3, <1>6, <1>7

\* Nothing is written.
LEMMA MailKept ==
    ASSUME IInv, UNCHANGED <<net, wchal, wlen>>,
           \A v \in Proc : \/ wpc'[v] = wpc[v] \/ wpc'[v] \notin Early
                           \/ wpc[v] \in {"idle", "connect", "barrier"}
    PROVE  Mail'
<1>1. Mail /\ UpTag \subseteq Tag
  BY DEF IInv, Tag
<1>2. SUFFICES ASSUME NEW v \in Proc
               PROVE  /\ \A s \in Tag : Maybe(net[v][s], Fits(v, s))'
                      /\ wpc'[v] \in {"idle", "connect", "barrier"} =>
                            \A s \in Tag : net'[v][s] = <<>>
                      /\ wpc'[v] = "challenge" => \A s \in UpTag : net'[v][s] = <<>>
  BY DEF Mail
<1>3. ASSUME NEW s \in Tag PROVE Maybe(net[v][s], Fits(v, s))'
  <2>1. Fits(v, s)' = Fits(v, s)
    BY FitsKept
  <2> QED BY <1>1, <2>1 DEF Mail, Maybe
<1>4. CASE wpc[v] \in {"idle", "connect", "barrier"}
  BY <1>1, <1>3, <1>4 DEF Mail
<1>5. CASE wpc'[v] = wpc[v] \/ wpc'[v] \notin Early
  BY <1>1, <1>3, <1>5 DEF Mail, Early
<1> QED
  BY <1>4, <1>5

-----------------------------------------------------------------------------
(* What a step leaves alone *)

LEMMA SlotTypes ==
    ASSUME IInv, NEW i \in 1 .. Len(slots)
    PROVE  slots[i] \in SlotSet /\ slots[i].worker \in Proc /\ slots[i].worker # 0
<1>1. slots \in Seq(SlotSet)
  BY DEF IInv, Types
<1>2. slots[i] \in SlotSet
  BY <1>1
<1> QED
  BY <1>2 DEF SlotSet, Proc

LEMMA TableKept ==
    ASSUME IInv, UNCHANGED <<slots, skip, program, genuine>>,
           \A i \in 1 .. Len(slots) : slots[i].worker # cur',
           \A v \in Proc : wpc[v] \notin Early =>
               wpc'[v] \notin Early /\ wchal'[v] = wchal[v] /\ wlen'[v] = wlen[v]
    PROVE  Table'
<1>1. Table /\ \A i \in 1 .. Len(slots) : slots[i].worker \in Proc
  BY SlotTypes DEF IInv
<1> QED
  BY <1>1 DEF Table, Qualifies

\* What every worker holds, it holds after the step.
LEMMA KeysFollow ==
    ASSUME IInv, UNCHANGED slots, harmed \subseteq harmed',
           cur' = 0 \/ (cur' = cur /\ round' = round),
           \A v \in Proc : v \notin harmed' => \A r : Holds(v, r) => Holds(v, r)'
    PROVE  Keys'
<1>1. Keys /\ \A i \in 1 .. Len(slots) : slots[i].worker \in Proc
  BY SlotTypes DEF IInv
<1>2. cur \in Proc \/ cur = 0
  BY DEF IInv, Types, Proc
<1>3. cur' # 0 /\ cur' \notin harmed' => Holds(cur, round)'
  <2>1. CASE cur' = 0
    BY <2>1
  <2>2. CASE cur' = cur /\ round' = round /\ cur # 0 /\ cur \notin harmed'
    <3>1. PICK r : r = round
      OBVIOUS
    <3>2. PICK v \in Proc : v = cur
      BY <1>2, <2>2
    <3>3. Holds(v, r)'
      BY <1>1, <2>2, <3>1, <3>2 DEF Keys
    <3> QED BY <2>2, <3>1, <3>2, <3>3 DEF Holds
  <2> QED BY <2>1, <2>2
<1>4. ASSUME NEW i \in 1 .. Len(slots), slots[i].worker \notin harmed'
      PROVE  Holds(slots[i].worker, slots[i].round)'
  <2>1. PICK r : r = slots[i].round
    OBVIOUS
  <2>2. PICK v \in Proc : v = slots[i].worker
    BY <1>1
  <2>3. Holds(v, r)'
    BY <1>1, <1>4, <2>1, <2>2 DEF Keys
  <2> QED BY <2>1, <2>2, <2>3 DEF Holds
<1> QED
  BY <1>3, <1>4 DEF Keys

LEMMA KeysKept ==
    ASSUME IInv, UNCHANGED <<slots, harmed>>,
           cur' = 0 \/ (cur' = cur /\ round' = round),
           \A v \in Proc : /\ net'[v]["SERVER_PK"] = net[v]["SERVER_PK"]
                           /\ wkey'[v] = wkey[v] /\ (wpc'[v] = "loop" => wpc[v] = "loop")
    PROVE  Keys'
<1>1. ASSUME NEW v \in Proc, NEW r, Holds(v, r) PROVE Holds(v, r)'
  BY <1>1 DEF Holds
<1> QED
  BY <1>1, KeysFollow

\* A step of workers who have heard their challenge, or that were not
\* started yet, changes nothing for the master.
LEMMA MasterKept ==
    ASSUME IInv, UNCHANGED <<config, master, wchal, wlen>>,
           \A v \in Proc : wpc'[v] = wpc[v] \/ wpc'[v] \notin Early \/ wpc[v] = "idle"
    PROVE  Place' /\ Received' /\ Table'
<1>1. /\ UNCHANGED <<program, skip, genuine>> /\ Types /\ Place /\ Received /\ Table
      /\ UNCHANGED <<mpc, round, cur, pos, got, slots>>
  BY DEF config, master, IInv
<1>2. Place'
  <2>1. CASE cur = 0
    BY <1>1, <2>1 DEF Place
  <2>2. CASE cur # 0
    <3>1. cur \in Proc
      BY <1>1, <2>2 DEF Types, Proc
    <3>2. wpc'[cur] = wpc[cur] \/ wpc'[cur] \notin Early
      BY <1>1, <2>2, <3>1 DEF Place
    <3> QED BY <1>1, <2>2, <3>2 DEF Place, Early
  <2> QED BY <2>1, <2>2
<1>3. Received'
  <2>1. \A t : Fits(cur, t)' = Fits(cur, t)
    BY <1>1 DEF Fits, Evidence, Report, Header
  <2>2. Ups' = Ups /\ PkOf(got)' = PkOf(got)
    BY <1>1 DEF Ups, PkOf
  <2> QED BY <1>1, <2>1, <2>2 DEF Received, Maybe, Qualifies
<1>4. Table'
  BY <1>1, TableKept DEF Table, Early
<1> QED
  BY <1>2, <1>3, <1>4
-----------------------------------------------------------------------------
(* The steps of the workers *)

LEMMA StartInv ==
    ASSUME IInv, NEW w \in Proc, Start(w) PROVE IInv'
<1>1. /\ UNCHANGED <<config, master, wpos, wlen, wchal, wkey, net, harmed>>
      /\ wpc[w] = "idle" /\ wpc' = [wpc EXCEPT ![w] = "connect"] /\ Types
  BY DEF Start, WorkerGoto, env, IInv
<1>2. Types'
  BY <1>1 DEF Types, config, master, WorkerAt
<1>3. wpc'[w] = "connect" /\ \A v \in Proc \ {w} : wpc'[v] = wpc[v]
  BY <1>1 DEF Types
<1>4. Mail'
  BY <1>1, <1>3, MailKept
<1>5. Keys'
  BY <1>1, <1>3, KeysKept DEF master
<1> QED
  BY <1>1, <1>2, <1>3, <1>4, <1>5, MasterKept DEF IInv

LEMMA ExitInv ==
    ASSUME IInv, NEW w \in Proc, ConnectFails(w) \/ Kill(w) \/ MasterLost(w) PROVE IInv'
<1>1. /\ UNCHANGED <<config, master, wpos, wlen, wchal, wkey, net, harmed>>
      /\ wpc' = [wpc EXCEPT ![w] = "exited"] /\ Types
  BY DEF ConnectFails, Kill, MasterLost, WorkerExit, WorkerGoto, env, IInv
<1>2. Types'
  BY <1>1 DEF Types, config, master, WorkerAt
<1>3. wpc'[w] = "exited" /\ \A v \in Proc \ {w} : wpc'[v] = wpc[v]
  BY <1>1 DEF Types
<1>4. \A v \in Proc : wpc'[v] = wpc[v] \/ wpc'[v] \notin Early
  BY <1>3 DEF Early
<1>5. Mail'
  BY <1>1, <1>4, MailKept
<1>6. Keys'
  BY <1>1, <1>3, KeysKept DEF master
<1> QED
  BY <1>1, <1>2, <1>4, <1>5, <1>6, MasterKept DEF IInv

\* A part of the authenticator is what the worker says it is.
LEMMA ContentFits ==
    ASSUME Types, NEW w \in Proc, NEW t \in UpTag PROVE Content(w, t) \in Fits(w, t)
<1>1. wlen[w] \in Length
  BY DEF Types
<1>2. CASE t = "PK"
  <2>1. Fits(w, "PK") = {w, 0}
    BY FitsTags
  <2>2. Content(w, "PK") = w
    BY DEF Content
  <2> QED BY <1>2, <2>1, <2>2
<1>3. CASE t = "LEN"
  <2>1. Fits(w, "LEN") = Length
    BY FitsTags
  <2>2. Content(w, "LEN") = wlen[w]
    BY DEF Content
  <2> QED BY <1>1, <1>3, <2>1, <2>2
<1>4. CASE t = "HDR"
  <2>1. PICK B : B = {Binding(wchal[w], w), Binding(0, 0)}
    OBVIOUS
  <2>2. Fits(w, t) = [pk : {w, 0}, len : Length, binding : B] /\ Binding(wchal[w], w) \in B
    BY <1>4, <2>1, FitsTags
  <2>3. Content(w, t) = [pk |-> w, len |-> wlen[w], binding |-> Binding(wchal[w], w)]
    BY <1>4 DEF Content, Header
  <2> QED BY <1>1, <2>2, <2>3
<1>5. CASE t = "DATA"
  <2>1. PICK B : B = {Binding(wchal[w], w), Binding(0, 0)}
    OBVIOUS
  <2>2. Fits(w, t) = [about : B, whole : BOOLEAN] /\ Binding(wchal[w], w) \in B
    BY <1>5, <2>1, FitsTags
  <2>3. Content(w, t) = [about |-> Binding(wchal[w], w), whole |-> TRUE]
    BY <1>5 DEF Content, Report
  <2> QED BY <2>2, <2>3
<1>6. CASE t = "FINISHED"
  <2>1. PICK H : H = Header(w, wchal[w], wlen[w])
    OBVIOUS
  <2>2. PICK D : D = Evidence(w)
    OBVIOUS
  <2>3. Fits(w, t) = [challenge : {wchal[w], 0}, hdr : {H}, data : {D}]
    BY <1>6, <2>1, <2>2, FitsTags
  <2>4. Content(w, t) = [challenge |-> wchal[w], hdr |-> H, data |-> D]
    BY <1>6, <2>1, <2>2 DEF Content
  <2> QED BY <2>3, <2>4
<1> QED
  BY <1>2, <1>3, <1>4, <1>5, <1>6, TagSets

LEMMA SendPartInv ==
    ASSUME IInv, NEW w \in Proc, SendPart(w) PROVE IInv'
<1> DEFINE t == Ups[wpos[w]]
<1>1. /\ UNCHANGED <<config, master, wlen, wchal, wkey, harmed>> /\ wpc[w] = "send"
      /\ (t = "DATA" /\ wlen[w] = "none" /\ net' = net) \/ Post(w, t, Content(w, t))
      /\ NextPart(w) /\ Types
  BY DEF SendPart, env, IInv
<1>2. wpos[w] \in 1 .. 3 /\ t \in UpTag /\ t \in Tag /\ Len(Ups) = 3
  BY <1>1, UpsTags DEF Types, Tag
<1>3. /\ wpos' \in [Proc -> 1 .. 3] /\ wpc' \in [Proc -> WorkerAt]
      /\ wpc'[w] \in {"send", "result"} /\ \A v \in Proc \ {w} : wpc'[v] = wpc[v]
  <2>1. CASE wpos[w] < 3
    <3>1. wpos[w] + 1 \in 1 .. 3
      BY <1>2, <2>1
    <3>2. wpos' = [wpos EXCEPT ![w] = wpos[w] + 1] /\ wpc' = wpc
      BY <1>1, <1>2, <2>1 DEF NextPart
    <3> QED BY <1>1, <3>1, <3>2 DEF Types
  <2>2. CASE ~(wpos[w] < 3)
    BY <1>1, <1>2, <2>2 DEF NextPart, Types, WorkerGoto, WorkerAt
  <2> QED BY <2>1, <2>2
<1>4. \A v \in Proc : wpc'[v] = wpc[v] \/ wpc'[v] \notin Early
  BY <1>3 DEF Early
<1>5. /\ Mail' /\ net' = [v \in Proc |-> [s \in Tag |-> net'[v][s]]]
      /\ \A v \in Proc : net'[v]["SERVER_PK"] = net[v]["SERVER_PK"]
  <2>1. CASE net' = net
    BY <1>1, <1>4, <2>1, MailKept DEF Types
  <2>2. CASE Post(w, t, Content(w, t))
    <3>1. Content(w, t) \in Fits(w, t)
      BY <1>1, <1>2, ContentFits
    <3>2. PICK q : q = <<Content(w, t)>>
      OBVIOUS
    <3>3. net' = [net EXCEPT ![w][t] = q] /\ Maybe(q, Fits(w, t))
      BY <2>2, <3>1, <3>2 DEF Post, Maybe
    <3>4. Mail'
      BY <1>1, <1>2, <1>4, <3>3, MailStep
    <3>5. OneQueue(w, t, q)
      BY <1>1, <1>2, <3>3, Written
    <3>6. t # "SERVER_PK" /\ "SERVER_PK" \in Tag
      BY <1>2, TagSets
    <3> QED BY <3>4, <3>5, <3>6 DEF OneQueue
  <2> QED BY <1>1, <2>1, <2>2
<1>6. Types'
  BY <1>1, <1>3, <1>5 DEF Types, config, master
<1>7. Keys'
  BY <1>1, <1>3, <1>5, KeysKept DEF master
<1> QED
  BY <1>1, <1>4, <1>5, <1>6, <1>7, MasterKept DEF IInv

LEMMA ReceiveResultInv ==
    ASSUME IInv, NEW w \in Proc, ReceiveResult(w) PROVE IInv'
<1>1. /\ UNCHANGED <<config, master, wpos, wlen, wchal, wkey, harmed>>
      /\ net' = [net EXCEPT ![w]["RESULT"] = <<>>] /\ Types
      /\ wpc' = [wpc EXCEPT ![w] = IF net[w]["RESULT"][1] THEN "server_pk" ELSE "disconnect"]
  BY DEF ReceiveResult, WorkerGoto, Take, env, IInv
<1>2. /\ wpc' \in [Proc -> WorkerAt] /\ wpc'[w] \in {"server_pk", "disconnect"}
      /\ \A v \in Proc \ {w} : wpc'[v] = wpc[v]
  BY <1>1 DEF Types, WorkerAt
<1>3. \A v \in Proc : wpc'[v] = wpc[v] \/ wpc'[v] \notin Early
  BY <1>2 DEF Early
<1>4. "RESULT" \in Tag /\ "SERVER_PK" \in Tag /\ Maybe(<<>>, Fits(w, "RESULT"))
  BY TagSets DEF Maybe
<1>5. Mail'
  BY <1>1, <1>3, <1>4, MailStep
<1>6. OneQueue(w, "RESULT", <<>>)
  BY <1>1, <1>4, Written
<1>7. Types'
  BY <1>1, <1>2, <1>6 DEF Types, config, master, OneQueue
<1>8. Keys'
  BY <1>1, <1>2, <1>4, <1>6, KeysKept DEF master, OneQueue
<1> QED
  BY <1>1, <1>3, <1>5, <1>7, <1>8, MasterKept DEF IInv

\* The key is made from the public key that arrived.
LEMMA ReceiveServerPkInv ==
    ASSUME IInv, NEW w \in Proc, ReceiveServerPk(w) PROVE IInv'
<1> DEFINE arrived == net[w]["SERVER_PK"][1]
<1>1. /\ UNCHANGED <<config, master, wpos, wlen, wchal, harmed>>
      /\ net' = [net EXCEPT ![w]["SERVER_PK"] = <<>>] /\ net[w]["SERVER_PK"] # <<>>
      /\ \/ /\ wpc' = [wpc EXCEPT ![w] = "loop"]
            /\ wkey' = [wkey EXCEPT ![w] = Key(w, arrived)]
         \/ wpc' = [wpc EXCEPT ![w] = "exited"] /\ UNCHANGED wkey
      /\ Types /\ Mail /\ Keys
  BY DEF ReceiveServerPk, WorkerGoto, WorkerExit, Take, Arrived, env, IInv
<1>2. "SERVER_PK" \in Tag /\ Maybe(<<>>, Fits(w, "SERVER_PK"))
  BY TagSets DEF Maybe
<1>3. arrived \in Nat
  <2>1. Fits(w, "SERVER_PK") = Nat
    BY FitsTags
  <2> QED BY <1>1, <1>2, <2>1 DEF Mail, Maybe
<1>4. /\ wpc' \in [Proc -> WorkerAt] /\ wkey' \in [Proc -> Nat \X Nat]
      /\ wpc'[w] \in {"loop", "exited"}
      /\ wpc'[w] = "loop" => wkey'[w] = Key(w, arrived)
      /\ \A v \in Proc \ {w} : wpc'[v] = wpc[v] /\ wkey'[v] = wkey[v]
  <2>1. Key(w, arrived) \in Nat \X Nat
    BY <1>3 DEF Key, Proc
  <2>2. CASE wpc' = [wpc EXCEPT ![w] = "loop"] /\ wkey' = [wkey EXCEPT ![w] = Key(w, arrived)]
    BY <1>1, <2>1, <2>2 DEF Types, WorkerAt
  <2>3. CASE wpc' = [wpc EXCEPT ![w] = "exited"] /\ UNCHANGED wkey
    BY <1>1, <2>3 DEF Types, WorkerAt
  <2> QED BY <1>1, <2>2, <2>3
<1>5. \A v \in Proc : wpc'[v] = wpc[v] \/ wpc'[v] \notin Early
  BY <1>4 DEF Early
<1>6. Mail'
  BY <1>1, <1>2, <1>5, MailStep
<1>7. OneQueue(w, "SERVER_PK", <<>>)
  BY <1>1, <1>2, Written
<1>8. Types'
  BY <1>1, <1>4, <1>7 DEF Types, config, master, OneQueue
<1>9. ASSUME NEW v \in Proc, NEW r, Holds(v, r) PROVE Holds(v, r)'
  <2>1. CASE v = w
    <3>1. arrived = r
      BY <1>1, <1>9, <2>1 DEF Holds, Maybe
    <3> QED BY <1>4, <1>7, <2>1, <3>1 DEF Holds, Maybe, OneQueue
  <2>2. CASE v # w
    <3>1. net'[v]["SERVER_PK"] = net[v]["SERVER_PK"]
      BY <1>2, <1>7, <2>2 DEF OneQueue
    <3> QED BY <1>4, <1>9, <2>2, <3>1 DEF Holds
  <2> QED BY <2>1, <2>2
<1>10. Keys'
  BY <1>1, <1>9, KeysFollow DEF master
<1> QED
  BY <1>1, <1>5, <1>6, <1>8, <1>10, MasterKept DEF IInv

\* From here on the worker has a challenge, and a length to send.  It had
\* sent nothing, and the master had received nothing from it.
LEMMA ReceiveChallengeInv ==
    ASSUME IInv, NEW w \in Proc, ReceiveChallenge(w) PROVE IInv'
<1> DEFINE heard == net[w]["CHALLENGE"][1].value
<1>1. /\ UNCHANGED <<config, master, wpos, wkey, harmed>> /\ wpc[w] = "challenge"
      /\ net[w]["CHALLENGE"] # <<>> /\ net' = [net EXCEPT ![w]["CHALLENGE"] = <<>>]
      /\ wchal' = [wchal EXCEPT ![w] = heard]
      /\ \E l \in Length : wlen' = [wlen EXCEPT ![w] = l]
      /\ \E p \in {"send", "exited"} : wpc' = [wpc EXCEPT ![w] = p]
  <2>1. /\ UNCHANGED <<config, master, wpos, wkey, harmed>> /\ wpc[w] = "challenge"
        /\ net[w]["CHALLENGE"] # <<>> /\ net' = [net EXCEPT ![w]["CHALLENGE"] = <<>>]
        /\ wchal' = [wchal EXCEPT ![w] = heard]
    BY DEF ReceiveChallenge, Take, Arrived
  <2>2. /\ \/ \E l \in {"exact", "none", "huge"} : wlen' = [wlen EXCEPT ![w] = l]
           \/ wlen' = wlen
        /\ \E p \in {"send", "exited"} : wpc' = [wpc EXCEPT ![w] = p]
    BY DEF ReceiveChallenge, WorkerGoto, WorkerExit
  <2>3. wlen = [wlen EXCEPT ![w] = wlen[w]] /\ wlen[w] \in Length
    BY DEF IInv, Types
  <2>4. \E l \in Length : wlen' = [wlen EXCEPT ![w] = l]
    BY <2>2, <2>3 DEF Length
  <2> QED BY <2>1, <2>2, <2>4
<1>2. Types /\ Mail /\ Place /\ Received /\ UpTag \subseteq Tag /\ "CHALLENGE" \in Tag
      /\ "SERVER_PK" \in Tag /\ "CHALLENGE" \notin UpTag
  BY TagSets DEF IInv
<1>3. heard \in Nat
  <2>1. Fits(w, "CHALLENGE") = [value : Nat, offer : BOOLEAN]
    BY FitsTags
  <2>2. net[w]["CHALLENGE"][1] \in Fits(w, "CHALLENGE")
    BY <1>1, <1>2 DEF Mail, Maybe
  <2>3. \A m \in [value : Nat, offer : BOOLEAN] : m.value \in Nat
    OBVIOUS
  <2>4. net[w]["CHALLENGE"][1] \in [value : Nat, offer : BOOLEAN]
    BY <2>1, <2>2
  <2> QED BY ONLY <2>3, <2>4
<1>4. /\ wpc' \in [Proc -> WorkerAt] /\ wpc'[w] \in {"send", "exited"}
      /\ wchal' \in [Proc -> Nat] /\ wlen' \in [Proc -> Length]
      /\ \A v \in Proc \ {w} :
            wpc'[v] = wpc[v] /\ wchal'[v] = wchal[v] /\ wlen'[v] = wlen[v]
  BY <1>1, <1>2, <1>3 DEF Types, WorkerAt
<1>5. OneQueue(w, "CHALLENGE", <<>>)
  BY <1>1, <1>2, Written
<1>6. Types'
  BY <1>1, <1>2, <1>4, <1>5 DEF Types, config, master, OneQueue
<1>7. Mail'
  <2>1. SUFFICES ASSUME NEW v \in Proc
                 PROVE  /\ \A s \in Tag : Maybe(net[v][s], Fits(v, s))'
                        /\ wpc'[v] \in {"idle", "connect", "barrier"} =>
                              \A s \in Tag : net'[v][s] = <<>>
                        /\ wpc'[v] = "challenge" => \A s \in UpTag : net'[v][s] = <<>>
    BY DEF Mail
  <2>2. CASE v = w
    <3>1. \A s \in UpTag : net'[w][s] = <<>>
      BY <1>1, <1>2, <1>5 DEF Mail, OneQueue
    <3>2. ASSUME NEW s \in DownTag PROVE Fits(w, s)' = Fits(w, s)
      BY <3>2 DEF DownTag, Fits
    <3>3. ASSUME NEW s \in Tag PROVE Maybe(net[w][s], Fits(w, s))'
      <4>1. CASE s \in UpTag \/ s = "CHALLENGE"
        <5>1. net'[w][s] = <<>>
          BY <3>1, <4>1, <1>5 DEF OneQueue
        <5> QED BY <5>1 DEF Maybe
      <4>2. CASE s \notin UpTag /\ s # "CHALLENGE"
        <5>1. net'[w][s] = net[w][s] /\ Fits(w, s)' = Fits(w, s)
          BY <1>5, <3>2, <3>3, <4>2 DEF OneQueue, Tag
        <5> QED BY <1>2, <5>1 DEF Mail, Maybe
      <4> QED BY <4>1, <4>2
    <3> QED BY <1>4, <2>2, <3>3
  <2>3. CASE v # w
    <3>1. \A s \in Tag : net'[v][s] = net[v][s]
      BY <1>5, <2>3 DEF OneQueue
    <3>2. wpc'[v] = wpc[v] /\ wchal'[v] = wchal[v] /\ wlen'[v] = wlen[v]
      BY <1>4, <2>3
    <3>3. \A s : Fits(v, s)' = Fits(v, s)
      BY <3>2, FitsKept
    <3> QED BY <1>2, <3>1, <3>2, <3>3 DEF Mail, Maybe
  <2> QED BY <2>2, <2>3
<1>8. UNCHANGED <<program, skip, genuine, mpc, round, cur, pos, got, slots>>
  BY <1>1 DEF config, master
<1>9. Place' /\ Received'
  <2>1. cur \in Proc \/ cur = 0
    BY <1>2 DEF Types, Proc
  <2>2. CASE cur = w
    <3>1. mpc \in {"challenge", "exited"} \/ (mpc = "receive" /\ pos = 1 /\ got = Nothing)
      BY <1>1, <1>2, <2>2 DEF Place, Proc
    <3>2. Place'
      BY <1>2, <1>4, <1>8, <2>2 DEF Place
    <3>3. mpc = "receive" => \A s \in UpTag : got[s] = <<>>
      BY <3>1 DEF Nothing
    <3> QED BY <1>8, <3>1, <3>2, <3>3 DEF Received, Maybe
  <2>3. CASE cur # w
    <3>1. Place'
      BY <1>2, <1>4, <1>8, <2>1, <2>3 DEF Place
    <3>2. cur # 0 => /\ wchal'[cur] = wchal[cur] /\ wlen'[cur] = wlen[cur]
                     /\ \A s : Fits(cur, s)' = Fits(cur, s)
      <4>1. cur # 0 => wchal'[cur] = wchal[cur] /\ wlen'[cur] = wlen[cur]
        BY <1>4, <2>1, <2>3
      <4> QED BY <1>8, <4>1 DEF Fits, Evidence, Report, Header
    <3>3. mpc \in {"receive", "verdict", "server_pk", "enroll"} => cur # 0
      BY <1>2 DEF Place
    <3>4. Ups' = Ups /\ PkOf(got)' = PkOf(got)
      BY <1>8 DEF Ups, PkOf
    <3> QED BY <1>2, <1>8, <3>1, <3>2, <3>3, <3>4 DEF Received, Maybe, Qualifies
  <2> QED BY <2>2, <2>3
<1>10. Table'
  <2>1. \A i \in 1 .. Len(slots) : slots[i].worker # cur'
    BY <1>8 DEF IInv, Table
  <2>2. \A v \in Proc : wpc[v] \notin Early =>
            wpc'[v] \notin Early /\ wchal'[v] = wchal[v] /\ wlen'[v] = wlen[v]
    BY <1>1, <1>4 DEF Early
  <2> QED BY <1>8, <2>1, <2>2, TableKept
<1>11. Keys'
  BY <1>1, <1>2, <1>4, <1>5, <1>8, KeysKept DEF OneQueue
<1> QED
  BY <1>6, <1>7, <1>9, <1>10, <1>11 DEF IInv

\* Damage never makes a message say something else that is true.
LEMMA ChangedFits ==
    ASSUME NEW w, NEW t \in Tag, NEW m \in Fits(w, t), NEW v \in Changed(t, m)
    PROVE  v \in Fits(w, t)
<1>1. CASE t = "PK"
  BY <1>1, FitsTags DEF Changed
<1>2. CASE t = "SERVER_PK"
  BY <1>2, FitsTags DEF Changed
<1>3. CASE t = "CHALLENGE"
  <2>1. m \in [value : Nat, offer : BOOLEAN] /\ Fits(w, t) = [value : Nat, offer : BOOLEAN]
    BY <1>3, FitsTags
  <2>2. v \in {[m EXCEPT !.value = 0], [m EXCEPT !.offer = FALSE]}
    BY <1>3 DEF Changed
  <2> QED BY <2>1, <2>2
<1>4. CASE t = "RESULT"
  <2>1. Fits(w, t) = BOOLEAN
    BY <1>4, FitsTags
  <2>2. v \in {~m}
    BY <1>4 DEF Changed
  <2> QED BY <2>1, <2>2
<1>5. CASE t = "LEN"
  BY <1>5, FitsTags DEF Changed
<1>6. CASE t = "HDR"
  <2>1. PICK B : B = {Binding(wchal[w], w), Binding(0, 0)}
    OBVIOUS
  <2>2. m \in [pk : {w, 0}, len : Length, binding : B]
        /\ Fits(w, t) = [pk : {w, 0}, len : Length, binding : B] /\ Binding(0, 0) \in B
    BY <1>6, <2>1, FitsTags
  <2>3. \/ v = [m EXCEPT !.pk = 0] \/ v = [m EXCEPT !.binding = Binding(0, 0)]
        \/ \E l \in Length : v = [m EXCEPT !.len = l]
    BY <1>6 DEF Changed
  <2> QED BY <2>2, <2>3
<1>7. CASE t = "DATA"
  <2>1. PICK B : B = {Binding(wchal[w], w), Binding(0, 0)}
    OBVIOUS
  <2>2. m \in [about : B, whole : BOOLEAN] /\ Fits(w, t) = [about : B, whole : BOOLEAN]
        /\ Binding(0, 0) \in B
    BY <1>7, <2>1, FitsTags
  <2>3. v = [m EXCEPT !.whole = FALSE] \/ v = [m EXCEPT !.about = Binding(0, 0)]
    BY <1>7 DEF Changed
  <2> QED BY <2>2, <2>3
<1>8. CASE t = "FINISHED"
  <2>1. v = [m EXCEPT !.challenge = 0]
    BY <1>8 DEF Changed
  <2>2. PICK C : C = {wchal[w], 0}
    OBVIOUS
  <2>3. PICK H : H = {Header(w, wchal[w], wlen[w])}
    OBVIOUS
  <2>4. PICK D : D = {Evidence(w)}
    OBVIOUS
  <2>5. Fits(w, t) = [challenge : C, hdr : H, data : D] /\ 0 \in C
    BY <1>8, <2>2, <2>3, <2>4, FitsTags
  <2> QED BY <2>1, <2>5
<1> QED
  BY <1>1, <1>2, <1>3, <1>4, <1>5, <1>6, <1>7, <1>8, TagSets

\* A damaged public key of the master makes its worker a harmed one.
LEMMA DamageInv ==
    ASSUME IInv, NEW w \in Proc, NEW t \in Tag, Damage(w, t) PROVE IInv'
<1>1. /\ UNCHANGED <<config, master, worker>> /\ net[w][t] # <<>>
      /\ harmed \subseteq harmed' /\ (t = "SERVER_PK" => w \in harmed')
      /\ Types /\ Mail /\ UpTag \subseteq Tag /\ "SERVER_PK" \in Tag
  BY TagSets DEF Damage, Arrived, IInv
<1>2. PICK v \in Changed(t, net[w][t][1]) : Post(w, t, v)
  BY DEF Damage
<1>3. v \in Fits(w, t)
  <2>1. net[w][t][1] \in Fits(w, t)
    BY <1>1 DEF Mail, Maybe
  <2> QED BY <2>1, ChangedFits
<1>4. UNCHANGED <<wpc, wpos, wlen, wchal, wkey, mpc, round, cur, slots>>
  BY <1>1 DEF worker, master
<1>5. PICK q : q = <<v>>
  OBVIOUS
<1>6. net' = [net EXCEPT ![w][t] = q] /\ Maybe(q, Fits(w, t))
  BY <1>2, <1>3, <1>5 DEF Post, Maybe
<1>7. OneQueue(w, t, q)
  BY <1>1, <1>6, Written
<1>8. Types'
  BY <1>1, <1>4, <1>7 DEF Types, config, master, OneQueue
<1>9. Mail'
  <2>1. wpc[w] \notin {"idle", "connect", "barrier"}
    BY <1>1 DEF Mail
  <2>2. t \in UpTag => wpc[w] # "challenge"
    BY <1>1 DEF Mail
  <2> QED BY <1>4, <1>6, <2>1, <2>2, MailStep
<1>10. Keys'
  <2>1. ASSUME NEW u \in Proc, u \notin harmed', NEW r, Holds(u, r) PROVE Holds(u, r)'
    <3>1. net'[u]["SERVER_PK"] = net[u]["SERVER_PK"]
      BY <1>1, <1>7, <2>1 DEF OneQueue
    <3> QED BY <1>4, <2>1, <3>1 DEF Holds
  <2> QED BY <1>1, <1>4, <2>1, KeysFollow
<1> QED
  BY <1>1, <1>4, <1>8, <1>9, <1>10, MasterKept DEF IInv
-----------------------------------------------------------------------------
(* The steps of the master *)

\* A step of the master alone that sends nothing and fills no slot.
LEMMA AloneKept ==
    ASSUME IInv, UNCHANGED <<config, worker, net, env, slots>>,
           cur' = 0 \/ (cur' = cur /\ round' = round)
    PROVE  Mail' /\ Keys' /\ Table'
<1>1. UNCHANGED <<program, skip, genuine, wpc, wlen, wchal, wkey, harmed>>
  BY DEF config, worker, env
<1>2. Mail'
  BY <1>1, MailKept
<1>3. Keys'
  BY <1>1, KeysKept
<1>4. \A i \in 1 .. Len(slots) : slots[i].worker # cur'
  BY SlotTypes DEF IInv, Table
<1>5. Table'
  BY <1>1, <1>4, TableKept
<1> QED
  BY <1>2, <1>3, <1>5

\* The end of a round, or of the enrollment.
LEMMA NextRoundTypes ==
    ASSUME IInv, NextRound PROVE mpc' \in {"open", "farm"} /\ round' \in Nat \ {0}
<1>1. round \in Nat \ {0}
  BY DEF IInv, Types
<1>2. CASE round < Target
  BY <1>1, <1>2 DEF NextRound, MasterGoto
<1>3. CASE ~(round < Target)
  BY <1>1, <1>3 DEF NextRound, MasterGoto
<1> QED
  BY <1>2, <1>3

LEMMA OpenPortInv ==
    ASSUME IInv, OpenPort PROVE IInv'
<1>1. /\ UNCHANGED <<config, round, cur, pos, got, slots, worker, net, harmed>>
      /\ mpc = "open" /\ mpc' \in {"accept", "exited"} /\ Types /\ Place
  BY DEF OpenPort, MasterGoto, MasterExit, IInv
<1>2. UNCHANGED <<program, skip, genuine, wpc, wpos, wlen, wchal, wkey>>
  BY <1>1 DEF config, worker
<1>3. Types'
  BY <1>1, <1>2 DEF Types, MasterAt
<1>4. Place' /\ Received'
  BY <1>1 DEF Place, Received
<1>5. Mail'
  BY <1>1, <1>2, MailKept
<1>6. Keys'
  BY <1>1, <1>2, KeysKept
<1>7. Table'
  BY <1>1, <1>2, TableKept DEF IInv, Table
<1> QED
  BY <1>3, <1>4, <1>5, <1>6, <1>7 DEF IInv

LEMMA OutOfMemoryInv ==
    ASSUME IInv, OutOfMemory PROVE IInv'
<1>1. /\ UNCHANGED <<config, round, cur, pos, got, slots, worker, net, harmed>>
      /\ mpc = "receive" /\ mpc' = "exited" /\ Types /\ Place
  BY DEF OutOfMemory, MasterExit, IInv
<1>2. UNCHANGED <<program, skip, genuine, wpc, wpos, wlen, wchal, wkey>>
  BY <1>1 DEF config, worker
<1>3. Types'
  BY <1>1, <1>2 DEF Types, MasterAt
<1>4. Place' /\ Received'
  BY <1>1, <1>2 DEF Place, Received
<1>5. Mail'
  BY <1>1, <1>2, MailKept
<1>6. Keys'
  BY <1>1, <1>2, KeysKept
<1>7. Table'
  BY <1>1, <1>2, TableKept DEF IInv, Table
<1> QED
  BY <1>3, <1>4, <1>5, <1>6, <1>7 DEF IInv

LEMMA PeerLostInv ==
    ASSUME IInv, PeerLost PROVE IInv'
<1>1. /\ UNCHANGED <<config, round, cur, pos, got, slots, worker, net, env>>
      /\ cur # 0 /\ wpc[cur] = "exited" /\ mpc' = "exited" /\ Types /\ Place
  BY DEF PeerLost, MasterExit, Gone, IInv
<1>2. UNCHANGED <<program, skip, genuine, wpc, wpos, wlen, wchal, wkey>>
  BY <1>1 DEF config, worker
<1>3. Types'
  BY <1>1, <1>2 DEF Types, MasterAt
<1>4. Place' /\ Received'
  BY <1>1, <1>2 DEF Place, Received
<1> QED
  BY <1>1, <1>3, <1>4, AloneKept DEF IInv

\* A worker that connects holds nothing and is in no slot yet.
LEMMA AcceptInv ==
    ASSUME IInv, NEW w \in Proc, Accept(w) PROVE IInv'
<1>1. /\ UNCHANGED <<config, round, pos, got, slots, wpos, wlen, wchal, wkey, net, harmed>>
      /\ mpc = "accept" /\ mpc' = "barrier" /\ cur' = w /\ wpc[w] = "connect"
      /\ wpc' = [wpc EXCEPT ![w] = "barrier"]
      /\ Types /\ Mail /\ Place /\ Keys /\ Table /\ w # 0
  BY DEF Accept, MasterGoto, env, IInv, Proc
<1>2. UNCHANGED <<program, skip, genuine>>
  BY <1>1 DEF config
<1>3. wpc'[w] = "barrier" /\ \A v \in Proc \ {w} : wpc'[v] = wpc[v]
  BY <1>1 DEF Types
<1>4. Types'
  BY <1>1, <1>2 DEF Types, MasterAt, WorkerAt, Proc
<1>5. Place' /\ Received'
  BY <1>1, <1>3 DEF Place, Received
<1>6. Mail'
  BY <1>1, <1>3, MailKept
<1>7. \A i \in 1 .. Len(slots) : slots[i].worker # w /\ slots[i].worker \in Proc
  BY <1>1, SlotTypes DEF Table, Early
<1>8. Table'
  <2>1. \A v \in Proc : wpc[v] \notin Early => wpc'[v] \notin Early
    BY <1>1, <1>3 DEF Early
  <2> QED BY <1>1, <1>2, <1>7, <2>1, TableKept
<1>9. Keys'
  <2>1. Holds(w, round)'
    <3>1. net[w]["SERVER_PK"] = <<>>
      BY <1>1, TagSets DEF Mail
    <3> QED BY <1>1, <1>3, <3>1 DEF Holds, Maybe
  <2>2. ASSUME NEW i \in 1 .. Len(slots), slots[i].worker \notin harmed
        PROVE  Holds(slots[i].worker, slots[i].round)'
    BY <1>1, <1>3, <1>7, <2>2 DEF Keys, Holds
  <2>3. cur' = w /\ Holds(cur, round)'
    BY <1>1, <2>1 DEF Holds
  <2> QED BY <1>1, <2>2, <2>3 DEF Keys
<1> QED
  BY <1>4, <1>5, <1>6, <1>8, <1>9 DEF IInv

\* The master meets the worker of the round.
LEMMA CurIsWorker ==
    ASSUME IInv, mpc \notin {"open", "accept", "farm", "exited"}
    PROVE  /\ cur \in Proc /\ cur # 0 /\ wpc[cur] \notin {"idle", "connect"}
           /\ mpc # "barrier" => wpc[cur] # "barrier"
           /\ mpc \notin {"barrier", "challenge", "receive"} => wpc[cur] \notin Early
BY DEF IInv, Types, Place, Proc, Early

LEMMA BarrierInv ==
    ASSUME IInv, Barrier PROVE IInv'
<1>1. /\ UNCHANGED <<config, round, cur, pos, got, slots, wpos, wlen, wchal, wkey, net, harmed>>
      /\ mpc = "barrier" /\ mpc' = "challenge" /\ wpc[cur] = "barrier"
      /\ wpc' = [wpc EXCEPT ![cur] = "challenge"] /\ Types /\ Place /\ Table
  BY DEF Barrier, MasterGoto, env, IInv
<1>2. PICK w \in Proc : w = cur /\ w # 0
  BY <1>1, CurIsWorker
<1>3. UNCHANGED <<program, skip, genuine>>
  BY <1>1 DEF config
<1>4. wpc'[w] = "challenge" /\ \A v \in Proc \ {w} : wpc'[v] = wpc[v]
  BY <1>1, <1>2 DEF Types
<1>5. Types'
  BY <1>1, <1>2, <1>3 DEF Types, MasterAt, WorkerAt
<1>6. Place' /\ Received'
  BY <1>1, <1>2, <1>4 DEF Place, Received
<1>7. Mail'
  BY <1>1, <1>2, <1>4, MailKept
<1>8. Table'
  <2>1. \A v \in Proc : wpc[v] \notin Early => wpc'[v] \notin Early
    BY <1>1, <1>2, <1>4 DEF Early
  <2> QED BY <1>1, <1>3, <2>1, TableKept DEF Table
<1>9. Keys'
  BY <1>1, <1>2, <1>4, KeysKept
<1> QED
  BY <1>5, <1>6, <1>7, <1>8, <1>9 DEF IInv

LEMMA DisconnectInv ==
    ASSUME IInv, Disconnect PROVE IInv'
<1>1. /\ UNCHANGED <<config, pos, got, slots, wpos, wlen, wchal, wkey, net, harmed>>
      /\ mpc = "disconnect" /\ wpc[cur] = "disconnect" /\ cur' = 0 /\ NextRound
      /\ wpc' = [wpc EXCEPT ![cur] = "exited"] /\ Types /\ Table
  BY DEF Disconnect, WorkerExit, WorkerGoto, env, IInv
<1>2. PICK w \in Proc : w = cur
  BY <1>1, CurIsWorker
<1>3. UNCHANGED <<program, skip, genuine>>
  BY <1>1 DEF config
<1>4. wpc'[w] = "exited" /\ \A v \in Proc \ {w} : wpc'[v] = wpc[v]
  BY <1>1, <1>2 DEF Types
<1>5. mpc' \in {"open", "farm"} /\ round' \in Nat \ {0}
  BY <1>1, NextRoundTypes
<1>6. Types'
  BY <1>1, <1>2, <1>3, <1>5 DEF Types, MasterAt, WorkerAt
<1>7. Place' /\ Received'
  BY <1>1, <1>5 DEF Place, Received
<1>8. \A v \in Proc : wpc'[v] = wpc[v] \/ wpc'[v] \notin Early
  BY <1>4 DEF Early
<1>9. Mail'
  BY <1>1, <1>8, MailKept
<1>10. Table'
  <2>1. \A i \in 1 .. Len(slots) : slots[i].worker # cur'
    BY <1>1, SlotTypes
  <2> QED BY <1>1, <1>3, <1>8, <2>1, TableKept
<1>11. Keys'
  BY <1>1, <1>4, KeysKept
<1> QED
  BY <1>6, <1>7, <1>9, <1>10, <1>11 DEF IInv

\* A message of the master to the worker of the round.
LEMMA SendKept ==
    ASSUME IInv, UNCHANGED <<config, worker, env, slots, cur>>,
           mpc \notin {"open", "accept", "farm", "exited", "barrier"},
           NEW t \in DownTag, NEW m \in Fits(cur, t), Post(cur, t, m)
    PROVE  Mail' /\ Table' /\ OneQueue(cur, t, <<m>>)
<1>1. UNCHANGED <<program, skip, genuine, wpc, wlen, wchal, wkey, harmed>> /\ Types
  BY DEF config, worker, env, IInv
<1>2. /\ cur \in Proc /\ wpc[cur] \notin {"idle", "connect", "barrier"}
      /\ t \in Tag /\ t \notin UpTag
  BY CurIsWorker DEF Tag, DownTag, UpTag
<1>3. PICK q : q = <<m>>
  OBVIOUS
<1>4. net' = [net EXCEPT ![cur][t] = q] /\ Maybe(q, Fits(cur, t))
  BY <1>3 DEF Post, Maybe
<1>5. OneQueue(cur, t, q)
  BY <1>1, <1>2, <1>4, Written
<1>6. Mail'
  <2>1. PICK w \in Proc : w = cur
    BY <1>2
  <2> QED BY <1>1, <1>2, <1>4, <2>1, MailStep
<1>7. Table'
  BY <1>1, TableKept DEF IInv, Table
<1> QED
  BY <1>3, <1>5, <1>6, <1>7

LEMMA SendChallengeInv ==
    ASSUME IInv, SendChallenge PROVE IInv'
<1> DEFINE m == [value |-> round, offer |-> TRUE]
<1>1. /\ UNCHANGED <<config, round, cur, slots, worker, env>>
      /\ mpc = "challenge" /\ mpc' = "receive" /\ pos' = 1 /\ got' = Nothing
      /\ Post(cur, "CHALLENGE", m) /\ Types /\ Place
  BY DEF SendChallenge, MasterGoto, IInv
<1>2. UNCHANGED <<program, skip, genuine, wpc, wpos, wlen, wchal, wkey, harmed>>
  BY <1>1 DEF config, worker, env
<1>3. m \in Fits(cur, "CHALLENGE")
  <2>1. Fits(cur, "CHALLENGE") = [value : Nat, offer : BOOLEAN]
    BY FitsTags
  <2>2. round \in Nat
    BY <1>1 DEF Types
  <2> QED BY <2>1, <2>2
<1>4. "CHALLENGE" \in DownTag /\ "SERVER_PK" \in Tag
  BY TagSets DEF DownTag
<1>5. Mail' /\ Table' /\ OneQueue(cur, "CHALLENGE", <<m>>)
  <2>1. PICK k : k = m
    OBVIOUS
  <2>2. k \in Fits(cur, "CHALLENGE") /\ Post(cur, "CHALLENGE", k)
    BY <1>1, <1>3, <2>1
  <2>3. Mail' /\ Table' /\ OneQueue(cur, "CHALLENGE", <<k>>)
    BY <1>1, <1>4, <2>2, SendKept
  <2> QED BY <2>1, <2>3
<1>6. Types'
  BY <1>1, <1>2, <1>5 DEF Types, MasterAt, OneQueue, Nothing
<1>7. Place'
  BY <1>1, <1>2 DEF Place
<1>8. Received'
  <2>1. \A t \in UpTag : got'[t] = <<>>
    BY <1>1 DEF Nothing
  <2> QED BY <1>1, <2>1 DEF Received, Maybe
<1>9. Keys'
  BY <1>1, <1>2, <1>4, <1>5, KeysKept DEF OneQueue
<1> QED
  BY <1>5, <1>6, <1>7, <1>8, <1>9 DEF IInv

\* The end of a receive.
LEMMA NextUpTypes ==
    ASSUME IInv, NextUp
    PROVE  \/ pos < 3 /\ pos' = pos + 1 /\ pos' \in 1 .. 3 /\ mpc' = "receive"
           \/ pos = 3 /\ pos' = pos /\ mpc' = "verdict"
<1>1. pos \in 1 .. 3 /\ Len(Ups) = 3
  BY UpsTags DEF IInv, Types
<1>2. CASE pos < 3
  BY <1>1, <1>2 DEF NextUp, MasterGoto
<1>3. CASE ~(pos < 3)
  BY <1>1, <1>3 DEF NextUp, MasterGoto
<1> QED
  BY <1>2, <1>3

\* What is received is what was sent to it, or less.
LEMMA ReceiveInv ==
    ASSUME IInv, Receive PROVE IInv'
<1> DEFINE t == Ups[pos]
           v == net[cur][t][1]
           kept == IF t = "DATA" /\ LenOf(got) # "exact" THEN [v EXCEPT !.whole = FALSE] ELSE v
<1>1. /\ UNCHANGED <<config, round, cur, slots, worker, env>>
      /\ mpc = "receive" /\ net[cur][t] # <<>> /\ got' = [got EXCEPT ![t] = <<kept>>]
      /\ Take(cur, t) /\ Types /\ Mail /\ Place /\ Received
      /\ \/ mpc' \in {"exited", "disconnect"} /\ pos' = pos
         \/ NextUp
  BY DEF Receive, Arrived, MasterGoto, MasterExit, IInv
<1>2. UNCHANGED <<program, skip, genuine, wpc, wpos, wlen, wchal, wkey, harmed>>
  BY <1>1 DEF config, worker, env
<1>3. /\ cur \in Proc /\ cur # 0 /\ t \in UpTag /\ t \in Tag /\ t # "SERVER_PK"
      /\ "SERVER_PK" \in Tag /\ UpTag \subseteq Tag
  BY <1>1, CurIsWorker, UpsTags, TagSets DEF Types
<1>4. wpc[cur] \notin Early
  BY <1>1, <1>3 DEF Mail, Early
<1>5. /\ mpc' \in {"exited", "disconnect", "receive", "verdict"} /\ pos' \in 1 .. 3
      /\ mpc' = "verdict" => pos = 3
  <2>1. CASE mpc' \in {"exited", "disconnect"} /\ pos' = pos
    BY <1>1, <2>1 DEF Types
  <2>2. CASE NextUp
    BY <1>1, <2>2, NextUpTypes DEF Types
  <2> QED BY <1>1, <2>1, <2>2
<1>6. kept \in Fits(cur, t)
  <2>1. v \in Fits(cur, t)
    BY <1>1, <1>3 DEF Mail, Maybe
  <2>2. CASE t = "DATA" /\ LenOf(got) # "exact"
    <3>1. "DATA" \in Tag /\ kept \in Changed("DATA", v)
      BY <2>2, TagSets DEF Changed
    <3> QED BY <1>3, <2>1, <2>2, <3>1, ChangedFits
  <2>3. CASE ~(t = "DATA" /\ LenOf(got) # "exact")
    <3>1. kept = v
      BY <2>3
    <3> QED BY <2>1, <3>1
  <2> QED BY <2>2, <2>3
<1>7. PICK k : k = kept
  OBVIOUS
<1>8. /\ got'[t] = <<k>> /\ \A s \in UpTag \ {t} : got'[s] = got[s]
      /\ got' = [s \in UpTag |-> got'[s]]
  BY <1>1, <1>3, <1>7 DEF Types
<1>9. OneQueue(cur, t, <<>>) /\ net' = [net EXCEPT ![cur][t] = <<>>]
  BY <1>1, <1>3, Written DEF Take
<1>10. Types'
  BY <1>1, <1>2, <1>5, <1>8, <1>9 DEF Types, MasterAt, OneQueue
<1>11. Mail'
  <2>1. PICK w \in Proc : w = cur
    BY <1>3
  <2>2. PICK s \in Tag : s = t
    BY <1>3
  <2>3. Maybe(<<>>, Fits(w, s))
    BY DEF Maybe
  <2>4. net' = [net EXCEPT ![w][s] = <<>>] /\ UNCHANGED <<wchal, wlen, wpc>>
    BY <1>2, <1>9, <2>1, <2>2
  <2> QED BY <2>3, <2>4, MailStep
<1>12. Place'
  BY <1>1, <1>2, <1>3, <1>4, <1>5 DEF Place, Early
<1>13. Received'
  <2>1. \A s : Fits(cur, s)' = Fits(cur, s)
    BY <1>1, <1>2 DEF Fits, Evidence, Report, Header
  <2>2. ASSUME NEW s \in UpTag PROVE Maybe(got[s], Fits(cur, s))'
    <3>1. CASE s = t
      <4>1. got'[s] = <<k>> /\ k \in Fits(cur, s)'
        BY <1>6, <1>7, <1>8, <2>1, <3>1
      <4> QED BY <4>1 DEF Maybe
    <3>2. CASE s # t
      <4>1. got'[s] = got[s]
        BY <1>8, <2>2, <3>2
      <4> QED BY <1>1, <2>1, <2>2, <4>1 DEF Received, Maybe
    <3> QED BY <3>1, <3>2
  <2>3. Ups' = Ups /\ Ups[1] \in UpTag /\ (program = "attest" => Ups[3] = "FINISHED")
    BY <1>1, <1>2, UpsTags, TagSets DEF Ups
  <2>4. got'[Ups[1]] # <<>>
    <3>1. CASE t = Ups[1]
      <4>1. got'[Ups[1]] = <<k>>
        BY ONLY <1>8, <3>1
      <4> QED BY ONLY <4>1
    <3>2. CASE t # Ups[1]
      <4>1. got'[Ups[1]] = got[Ups[1]] /\ pos \in 1 .. 3 /\ pos # 1
        BY <1>1, <1>8, <2>3, <3>2 DEF Types
      <4> QED BY <1>1, <4>1 DEF Received
    <3> QED BY <3>1, <3>2
  <2>5. mpc' = "verdict" /\ program = "attest" => got'["FINISHED"] # <<>>
    BY <1>5, <1>8, <2>3
  <2> QED BY <1>2, <1>5, <2>2, <2>3, <2>4, <2>5 DEF Received
<1>14. Table'
  BY <1>1, <1>2, TableKept DEF IInv, Table
<1>15. Keys'
  BY <1>1, <1>2, <1>3, <1>9, KeysKept DEF OneQueue
<1> QED
  BY <1>10, <1>11, <1>12, <1>13, <1>14, <1>15 DEF IInv

LEMMA SkipReportInv ==
    ASSUME IInv, SkipReport PROVE IInv'
<1>1. /\ UNCHANGED <<config, round, cur, got, slots, worker, net, env>>
      /\ mpc = "receive" /\ Ups[pos] = "DATA" /\ NextUp /\ Types /\ Place /\ Received
  BY DEF SkipReport, IInv
<1>2. UNCHANGED <<program, skip, genuine, wpc, wpos, wlen, wchal, wkey, harmed>>
  BY <1>1 DEF config, worker, env
<1>3. /\ pos \in 1 .. 3 /\ pos > 1 /\ (program = "attest" => pos # 3)
      /\ mpc' \in {"receive", "verdict"} /\ pos' \in 1 .. 3
      /\ mpc' = "verdict" => pos = 3
  BY <1>1, UpsTags, NextUpTypes DEF Types
<1>4. Types'
  BY <1>1, <1>2, <1>3 DEF Types, MasterAt
<1>5. Place'
  BY <1>1, <1>2, <1>3 DEF Place
<1>6. Received'
  <2>1. \A s : Fits(cur, s)' = Fits(cur, s)
    BY <1>1, <1>2 DEF Fits, Evidence, Report, Header
  <2>2. Ups' = Ups
    BY <1>2 DEF Ups
  <2> QED BY <1>1, <1>2, <1>3, <2>1, <2>2 DEF Received, Maybe
<1> QED
  BY <1>1, <1>4, <1>5, <1>6, AloneKept DEF IInv

\* A public key is known when the verdict is given, and a good verdict is
\* about the worker of the round, its challenge and its key.
LEMMA VerdictMeans ==
    ASSUME IInv, mpc = "verdict"
    PROVE  /\ PkOf(got) \in {cur, 0}
           /\ Verdict /\ ~skip => Qualifies(cur, round, PkOf(got))
<1>1. Types /\ Received /\ program \in {"star", "attest"} /\ round # 0
  BY DEF IInv, Types
<1>2. /\ \A t \in UpTag : Maybe(got[t], Fits(cur, t))
      /\ got[Ups[1]] # <<>> /\ (program = "attest" => got["FINISHED"] # <<>>)
  BY <1>1 DEF Received
<1>3. Ups[1] = IF program = "star" THEN "PK" ELSE "HDR"
  BY <1>1, UpsTags
<1>4. got["DATA"] # <<>> => got["DATA"][1] \in Fits(cur, "DATA")
  BY <1>2, TagSets DEF Maybe
<1>5. CASE program = "star"
  <2>1. got["PK"][1] \in Fits(cur, "PK")
    BY <1>2, <1>3, <1>5, TagSets DEF Maybe
  <2>2. PkOf(got) \in {cur, 0}
    BY <1>5, <2>1, FitsTags DEF PkOf
  <2>3. ASSUME Verdict, ~skip PROVE Qualifies(cur, round, PkOf(got))
    <3>1. /\ got["DATA"] # <<>> /\ cur \in genuine
          /\ got["DATA"][1].about = Binding(round, PkOf(got))
      BY <1>5, <2>3 DEF Verdict, StarVerdict, Verifies
    <3>2. got["DATA"][1].about \in {Binding(wchal[cur], cur), Binding(0, 0)}
      <4>1. PICK B : B = {Binding(wchal[cur], cur), Binding(0, 0)}
        OBVIOUS
      <4>2. got["DATA"][1] \in [about : B, whole : BOOLEAN]
        BY <1>4, <3>1, <4>1, FitsTags
      <4> QED BY <4>1, <4>2
    <3>3. wchal[cur] = round /\ PkOf(got) = cur
      BY <1>1, <3>1, <3>2 DEF Binding
    <3> QED BY <3>1, <3>3 DEF Qualifies
  <2> QED BY <2>2, <2>3
<1>6. CASE program = "attest"
  <2> DEFINE hdr == got["HDR"][1]
             fin == got["FINISHED"][1]
  <2>1. /\ hdr \in Fits(cur, "HDR") /\ fin \in Fits(cur, "FINISHED")
    BY <1>2, <1>3, <1>6, TagSets DEF Maybe
  <2>2. hdr.pk \in {cur, 0} /\ hdr.binding \in {Binding(wchal[cur], cur), Binding(0, 0)}
    <3>1. PICK B : B = {Binding(wchal[cur], cur), Binding(0, 0)}
      OBVIOUS
    <3>2. hdr \in [pk : {cur, 0}, len : Length, binding : B]
      BY <2>1, <3>1, FitsTags
    <3> QED BY <3>1, <3>2
  <2>3. fin.data = Evidence(cur)
    <3>1. PICK C : C = {wchal[cur], 0}
      OBVIOUS
    <3>2. PICK H : H = {Header(cur, wchal[cur], wlen[cur])}
      OBVIOUS
    <3>3. PICK D : D = {Evidence(cur)}
      OBVIOUS
    <3>4. fin \in [challenge : C, hdr : H, data : D]
      BY <2>1, <3>1, <3>2, <3>3, FitsTags
    <3> QED BY <3>3, <3>4
  <2>4. PkOf(got) = hdr.pk
    BY <1>6 DEF PkOf
  <2>5. ASSUME Verdict, ~skip PROVE Qualifies(cur, round, PkOf(got))
    <3>1. /\ hdr.binding = Binding(round, hdr.pk)
          /\ fin = [challenge |-> round, hdr |-> hdr, data |-> got["DATA"]]
          /\ got["DATA"] # <<>> => cur \in genuine
      BY <1>6, <2>5 DEF Verdict, AttestVerdict, Verifies
    <3>2. wchal[cur] = round /\ hdr.pk = cur
      BY <1>1, <2>2, <3>1 DEF Binding
    <3>3. got["DATA"] = Evidence(cur)
      BY <2>3, <3>1
    <3>4. got["DATA"] = <<>> => wlen[cur] = "none"
      BY <3>3 DEF Evidence
    <3> QED BY <1>6, <2>4, <3>1, <3>2, <3>4 DEF Qualifies
  <2> QED BY <2>2, <2>4, <2>5
<1> QED
  BY <1>1, <1>5, <1>6

LEMMA SendResultInv ==
    ASSUME IInv, SendResult PROVE IInv'
<1>1. /\ UNCHANGED <<config, round, cur, pos, got, slots, worker, env>>
      /\ mpc = "verdict" /\ Post(cur, "RESULT", Verdict) /\ Types /\ Place
      /\ mpc' = IF Verdict THEN "server_pk" ELSE "disconnect"
  BY DEF SendResult, MasterGoto, IInv
<1>2. UNCHANGED <<program, skip, genuine, wpc, wpos, wlen, wchal, wkey, harmed>>
  BY <1>1 DEF config, worker, env
<1>3. mpc' \in {"server_pk", "disconnect"}
  BY <1>1
<1>4. "RESULT" \in DownTag /\ "SERVER_PK" \in Tag
  BY TagSets DEF DownTag
<1>5. Mail' /\ Table' /\ \E b \in BOOLEAN : OneQueue(cur, "RESULT", <<b>>)
  <2>1. Fits(cur, "RESULT") = BOOLEAN
    BY FitsTags
  <2>2. PICK b \in BOOLEAN : b = Verdict
    BY DEF Verdict, StarVerdict, AttestVerdict
  <2>3. Post(cur, "RESULT", b)
    BY <1>1, <2>2
  <2>4. b \in Fits(cur, "RESULT")
    BY <2>1, <2>2
  <2>5. Mail' /\ Table' /\ OneQueue(cur, "RESULT", <<b>>)
    BY <1>1, <1>4, <2>3, <2>4, SendKept
  <2> QED BY <2>5
<1>6. Types'
  BY <1>1, <1>2, <1>3, <1>5 DEF Types, MasterAt, OneQueue
<1>7. cur # 0 /\ wpc[cur] \notin Early
  BY <1>1, CurIsWorker
<1>8. Place'
  BY <1>1, <1>2, <1>3, <1>7 DEF Place, Early
<1>9. Received'
  <2>1. PkOf(got)' = PkOf(got) /\ PkOf(got) \in {cur, 0}
    BY <1>1, <1>2, VerdictMeans DEF PkOf
  <2>2. mpc' = "server_pk" /\ ~skip => Qualifies(cur, round, PkOf(got))
    BY <1>1, VerdictMeans
  <2> QED BY <1>1, <1>2, <1>3, <2>1, <2>2 DEF Received, Qualifies
<1>10. Keys'
  BY <1>1, <1>2, <1>4, <1>5, KeysKept DEF OneQueue
<1> QED
  BY <1>5, <1>6, <1>8, <1>9, <1>10 DEF IInv

\* The public key of this round goes to the worker of this round.
LEMMA SendServerPkInv ==
    ASSUME IInv, SendServerPk PROVE IInv'
<1>1. /\ UNCHANGED <<config, round, cur, pos, got, slots, worker, env>>
      /\ mpc = "server_pk" /\ Post(cur, "SERVER_PK", round) /\ mpc' = "enroll"
      /\ Types /\ Place /\ Received /\ Keys /\ Table
  BY DEF SendServerPk, MasterGoto, IInv
<1>2. UNCHANGED <<program, skip, genuine, wpc, wpos, wlen, wchal, wkey, harmed>>
  BY <1>1 DEF config, worker, env
<1>3. "SERVER_PK" \in DownTag /\ "SERVER_PK" \in Tag
  BY TagSets DEF DownTag
<1>4. Mail' /\ Table' /\ OneQueue(cur, "SERVER_PK", <<round>>)
  <2>1. round \in Fits(cur, "SERVER_PK")
    BY <1>1, FitsTags DEF Types
  <2> QED BY <1>1, <1>3, <2>1, SendKept
<1>5. Types'
  BY <1>1, <1>2, <1>4 DEF Types, MasterAt, OneQueue
<1>6. cur \in Proc /\ cur # 0 /\ wpc[cur] \notin Early
  BY <1>1, CurIsWorker
<1>7. Place'
  BY <1>1, <1>2, <1>6 DEF Place, Early
<1>8. Received'
  <2>1. PkOf(got)' = PkOf(got)
    BY <1>1, <1>2 DEF PkOf
  <2> QED BY <1>1, <1>2, <2>1 DEF Received, Qualifies
<1>9. Keys'
  <2>1. cur \notin harmed => Holds(cur, round)'
    <3>1. net'[cur]["SERVER_PK"] = <<round>>
      BY <1>4 DEF OneQueue
    <3> QED BY <1>1, <1>2, <1>6, <3>1 DEF Keys, Holds, Maybe
  <2>2. ASSUME NEW i \in 1 .. Len(slots), slots[i].worker \notin harmed
        PROVE  Holds(slots[i].worker, slots[i].round)'
    <3>1. slots[i].worker \in Proc /\ slots[i].worker # cur
      BY <1>1, SlotTypes DEF Table
    <3>2. net'[slots[i].worker]["SERVER_PK"] = net[slots[i].worker]["SERVER_PK"]
      BY <1>3, <1>4, <3>1 DEF OneQueue
    <3> QED BY <1>1, <1>2, <2>2, <3>2 DEF Keys, Holds
  <2> QED BY <1>1, <1>2, <2>1, <2>2 DEF Keys
<1> QED
  BY <1>4, <1>5, <1>7, <1>8, <1>9 DEF IInv

\* The worker of the round gets the next slot, unless the table is full.
LEMMA EnrollInv ==
    ASSUME IInv, Enroll PROVE IInv'
<1>1. /\ UNCHANGED <<config, pos, got, worker, net, env>> /\ mpc = "enroll"
      /\ Types /\ Mail /\ Place /\ Received /\ Keys /\ Table
      /\ \/ mpc' = "exited" /\ UNCHANGED <<slots, round, cur>>
         \/ slots' = Append(slots, Slot) /\ cur' = 0 /\ NextRound
  BY DEF Enroll, MasterExit, IInv
<1>2. UNCHANGED <<program, skip, genuine, wpc, wpos, wlen, wchal, wkey, harmed>>
  BY <1>1 DEF config, worker, env
<1>3. cur \in Proc /\ cur # 0 /\ wpc[cur] \notin Early
  BY <1>1, CurIsWorker
<1>4. CASE mpc' = "exited" /\ UNCHANGED <<slots, round, cur>>
  <2>1. Types'
    BY <1>1, <1>2, <1>4 DEF Types, MasterAt
  <2>2. Place' /\ Received'
    BY <1>1, <1>2, <1>3, <1>4 DEF Place, Received, Early
  <2> QED BY <1>1, <1>4, <2>1, <2>2, AloneKept DEF IInv
<1>5. CASE slots' = Append(slots, Slot) /\ cur' = 0 /\ NextRound
  <2>1. mpc' \in {"open", "farm"} /\ round' \in Nat \ {0}
    BY <1>5, NextRoundTypes
  <2>2. /\ PkOf(got) \in {cur, 0} /\ (~skip => Qualifies(cur, round, PkOf(got)))
        /\ round \in Nat /\ slots \in Seq(SlotSet)
    BY <1>1 DEF Received, Types
  <2>3. Slot \in SlotSet
    BY <1>3, <2>2 DEF Slot, SlotSet, Key, Proc
  <2>4. PICK s \in SlotSet : s = Slot
    BY <2>3
  <2>5. /\ s.worker = cur /\ s.round = round /\ s.pk = PkOf(got)
        /\ s.key = Key(PkOf(got), round)
    BY <2>4 DEF Slot
  <2>6. PICK n \in Nat : n = Len(slots)
    BY <2>2
  <2>7. /\ slots' \in Seq(SlotSet) /\ Len(slots') = n + 1 /\ slots'[n + 1] = s
        /\ \A i \in 1 .. n : slots'[i] = slots[i]
    BY <1>5, <2>2, <2>4, <2>6
  <2>8. \A i \in 1 .. Len(slots') : i \in 1 .. n \/ i = n + 1
    BY <2>6, <2>7
  <2>9. \A i \in 1 .. n : slots[i].worker \in Proc /\ slots[i].worker # cur
    BY <1>1, <2>6, SlotTypes DEF Table
  <2>10. Types'
    BY <1>1, <1>2, <1>5, <2>1, <2>7 DEF Types, MasterAt
  <2>11. Place' /\ Received'
    BY <1>5, <2>1 DEF Place, Received
  <2>12. Mail'
    BY <1>1, <1>2, MailKept
  <2>13. Keys'
    <3>1. ASSUME NEW i \in 1 .. Len(slots'), slots'[i].worker \notin harmed
          PROVE  Holds(slots[i].worker, slots[i].round)'
      <4>1. CASE i \in 1 .. n
        BY <1>1, <1>2, <2>6, <2>7, <3>1, <4>1 DEF Keys, Holds
      <4>2. CASE i = n + 1
        BY <1>1, <1>2, <1>3, <2>5, <2>7, <3>1, <4>2 DEF Keys, Holds
      <4> QED BY <2>8, <3>1, <4>1, <4>2
    <3> QED BY <1>2, <1>5, <3>1 DEF Keys
  <2>14. Table'
    <3>1. \A i \in 1 .. Len(slots'), j \in 1 .. Len(slots') :
              slots'[j].worker = slots'[i].worker => i = j
      BY <1>1, <2>5, <2>6, <2>7, <2>8, <2>9 DEF Table
    <3>2. ASSUME NEW i \in 1 .. Len(slots')
          PROVE  /\ slots'[i].worker # cur' /\ wpc[slots'[i].worker] \notin Early
                 /\ slots'[i].key = Key(slots'[i].pk, slots'[i].round)
                 /\ ~skip => Qualifies(slots'[i].worker, slots'[i].round, slots'[i].pk)
      <4>1. CASE i \in 1 .. n
        BY <1>1, <1>5, <2>6, <2>7, <2>9, <4>1, SlotTypes DEF Table
      <4>2. CASE i = n + 1
        BY <1>3, <1>5, <2>2, <2>5, <2>7, <4>2
      <4> QED BY <2>8, <3>2, <4>1, <4>2
    <3> QED BY <1>2, <3>1, <3>2 DEF Table, Qualifies
  <2> QED BY <2>10, <2>11, <2>12, <2>13, <2>14 DEF IInv
<1> QED
  BY <1>1, <1>4, <1>5
-----------------------------------------------------------------------------
(* The theorem *)

LEMMA InitInv ==
    ASSUME Init PROVE IInv
<1>1. /\ net = [w \in Proc |-> [t \in Tag |-> net[w][t]]]
      /\ \A w \in Proc, t \in Tag : net[w][t] = <<>>
  BY DEF Init, NoMessages, Tag
<1>2. Types
  BY <1>1 DEF Init, Types, MasterAt, WorkerAt, Nothing, NoKey, Key, Length
<1>3. Mail
  BY <1>1 DEF Init, Mail, Maybe, Tag
<1>4. Place /\ Received
  BY DEF Init, Place, Received
<1>5. Keys /\ Table
  BY DEF Init, Keys, Table
<1> QED
  BY <1>2, <1>3, <1>4, <1>5 DEF IInv

LEMMA NextInv ==
    ASSUME IInv, [Next]_vars PROVE IInv'
<1>1. CASE MasterStep
  BY <1>1, OpenPortInv, SendChallengeInv, ReceiveInv, SkipReportInv, SendResultInv,
     SendServerPkInv, EnrollInv DEF MasterStep
<1>2. CASE Together \/ FaultStep
  BY <1>2, BarrierInv, DisconnectInv, AcceptInv, PeerLostInv, OutOfMemoryInv
  DEF Together, FaultStep
<1>3. ASSUME NEW w \in Proc,
             Start(w) \/ ConnectFails(w) \/ WorkerStep(w) \/ Kill(w) \/ MasterLost(w)
      PROVE  IInv'
  BY <1>3, StartInv, ExitInv, ReceiveChallengeInv, SendPartInv, ReceiveResultInv,
     ReceiveServerPkInv DEF WorkerStep
<1>4. ASSUME NEW w \in Proc, NEW t \in Tag, Damage(w, t) PROVE IInv'
  BY <1>4, DamageInv
<1>5. CASE UNCHANGED vars
  <2>1. /\ UNCHANGED <<config, master, worker, net, env>> /\ IInv
    BY <1>5 DEF vars
  <2>2. UNCHANGED <<program, skip, genuine, wpc, wpos, wlen, wchal, wkey, harmed,
                    mpc, round, cur, pos, got, slots>>
    BY <2>1 DEF config, master, worker, env
  <2>3. Types'
    BY <2>1, <2>2 DEF IInv, Types
  <2>4. Mail' /\ Keys'
    BY <2>1, <2>2, AloneKept
  <2>5. Place' /\ Received' /\ Table'
    BY <2>1, <2>2, MasterKept
  <2> QED BY <2>3, <2>4, <2>5 DEF IInv
<1> QED
  BY <1>1, <1>2, <1>3, <1>4, <1>5 DEF Next, Tag

\* The invariant holds in every reachable state.
THEOREM Invariance == Spec => []IInv
<1>1. Init => IInv
  BY InitInv
<1>2. IInv /\ [Next]_vars => IInv'
  BY NextInv
<1> QED
  BY <1>1, <1>2, PTL DEF Spec

\* Whatever is damaged, killed or started with an old port name, and however
\* large the table is: a slot of workers[] belongs to one worker, which
\* answered the challenge of that round with the public key the master made
\* wkey[] from and with a genuine report if it was asked for one, and once
\* that worker is in its loop both ends hold the same session key.
THEOREM SlotsAreAgreed == Spec => []SlotsAgree
<1>1. ASSUME IInv PROVE SlotsAgree
  <2>1. Table /\ Keys /\ slots \in Seq(SlotSet) /\ DOMAIN slots = 1 .. Len(slots)
    BY <1>1 DEF IInv, Types
  <2>2. \A i \in 1 .. Len(slots) :
            ~skip => Qualifies(slots[i].worker, slots[i].round, slots[i].pk)
    BY <2>1 DEF Table
  <2>3. ASSUME NEW i \in 1 .. Len(slots), wpc[slots[i].worker] = "loop",
               slots[i].worker \notin harmed, slots[i].pk = slots[i].worker
        PROVE  wkey[slots[i].worker] = slots[i].key
    BY <2>1, <2>3 DEF Table, Keys, Holds
  <2> QED BY <2>1, <2>2, <2>3 DEF SlotsAgree, Table, Qualifies
<1> QED
  BY <1>1, Invariance, PTL
=============================================================================
