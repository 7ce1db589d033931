------------------------------ MODULE AeadLink -------------------------------
(***************************************************************************)
(* The link between the central node and one worker after enrollment, as   *)
(* the workloads of master_npb.c and worker_npb.c use it: secure_send,     *)
(* secure_recv, workload_send_small, workload_recv_small, send_bulk and    *)
(* recv_bulk.                                                              *)
(*                                                                         *)
(* MPI matches a receive with the oldest message of the same tag on the    *)
(* same intercommunicator, so the network is one FIFO queue per worker and *)
(* tag.  One AEAD counter per direction spans all the tags of that         *)
(* direction: a receiver that takes the tags in another order than they    *)
(* were sent in rejects good messages.                                     *)
(***************************************************************************)
EXTENDS Naturals, Sequences

CONSTANTS
    Worker,       \* the enrolled workers
    DownTag,      \* tags of messages to a worker
    UpTag,        \* tags of messages from a worker
    PlainTag,     \* tags that travel in plaintext (encrypt_data = 0)
    Synchronous   \* MPI_Send returns only when the message is received

VARIABLES
    net,        \* net[w][t]: frames in flight between the master and w, tag t
    sendCtr,    \* send_nonce_ctr of the master, per worker
    recvCtr,    \* recv_nonce_ctr of the master, per worker
    wSendCtr,   \* send_nonce_ctr of each worker
    wRecvCtr    \* recv_nonce_ctr of each worker

\* On the wire: the counter in the AEAD nonce, what the message says, and
\* whether the ciphertext is the one that was sent.
MakeFrame(c, b) == [ctr |-> c, body |-> b, intact |-> TRUE]

Frame(Body) == [ctr : Nat, body : Body, intact : BOOLEAN]

LinkInit ==
    /\ net = [w \in Worker |-> [t \in DownTag \cup UpTag |-> <<>>]]
    /\ sendCtr  = [w \in Worker |-> 0]
    /\ recvCtr  = [w \in Worker |-> 0]
    /\ wSendCtr = [w \in Worker |-> 0]
    /\ wRecvCtr = [w \in Worker |-> 0]

Arrived(w, t) == net[w][t] # <<>>

\* The message the next receive with tag t gets.
Got(w, t) == Head(net[w][t]).body

\* A send appends to the queue of its tag; secure_send and send_bulk count
\* the frames they encrypt.
MasterSend(w, t, b) ==
    /\ net' = [net EXCEPT ![w][t] = Append(@, MakeFrame(sendCtr[w], b))]
    /\ sendCtr' = [sendCtr EXCEPT ![w] = IF t \in PlainTag THEN @ ELSE @ + 1]
    /\ UNCHANGED <<recvCtr, wSendCtr, wRecvCtr>>

\* The bug: send_bulk does not advance the counter.
WorkerSend_BulkKeepsCounter(w, t, b) ==
    /\ net' = [net EXCEPT ![w][t] = Append(@, MakeFrame(wSendCtr[w], b))]
    /\ wSendCtr' = [wSendCtr EXCEPT
                      ![w] = IF t \in PlainTag \cup {"OUTPUT"} THEN @ ELSE @ + 1]
    /\ UNCHANGED <<sendCtr, recvCtr, wRecvCtr>>

WorkerSend(w, t, b) ==
    /\ net' = [net EXCEPT ![w][t] = Append(@, MakeFrame(wSendCtr[w], b))]
    /\ wSendCtr' = [wSendCtr EXCEPT ![w] = IF t \in PlainTag THEN @ ELSE @ + 1]
    /\ UNCHANGED <<sendCtr, recvCtr, wRecvCtr>>

\* secure_recv and recv_bulk: the counter is exactly the expected one and
\* the AEAD tag is valid.  A plain receive takes what arrives.
Opens(w, t, expected) ==
    LET f == Head(net[w][t])
    IN  t \in PlainTag \/ (f.intact /\ f.ctr = expected)

MasterOpens(w, t) == Opens(w, t, recvCtr[w])
WorkerOpens(w, t) == Opens(w, t, wRecvCtr[w])

\* A receive consumes the message; the counter moves only when it opens.
MasterTake(w, t) ==
    /\ net' = [net EXCEPT ![w][t] = Tail(@)]
    /\ recvCtr' = [recvCtr EXCEPT
                     ![w] = IF t \notin PlainTag /\ MasterOpens(w, t)
                            THEN @ + 1 ELSE @]
    /\ UNCHANGED <<sendCtr, wSendCtr, wRecvCtr>>

WorkerTake(w, t) ==
    /\ net' = [net EXCEPT ![w][t] = Tail(@)]
    /\ wRecvCtr' = [wRecvCtr EXCEPT
                     ![w] = IF t \notin PlainTag /\ WorkerOpens(w, t)
                            THEN @ + 1 ELSE @]
    /\ UNCHANGED <<sendCtr, recvCtr, wSendCtr>>

\* With synchronous sends a process does nothing until its last send is received.
MasterFree    == Synchronous =>
                    \A w \in Worker : \A t \in DownTag : ~Arrived(w, t)
WorkerFree(w) == Synchronous => \A t \in UpTag : ~Arrived(w, t)

\* The environment damages a ciphertext in flight (external: the network).
DamageFrame(w, t) ==
    /\ t \notin PlainTag
    /\ \E i \in 1 .. Len(net[w][t]) :
          /\ net[w][t][i].intact
          /\ net' = [net EXCEPT ![w][t][i].intact = FALSE]
    /\ UNCHANGED <<sendCtr, recvCtr, wSendCtr, wRecvCtr>>
=============================================================================
