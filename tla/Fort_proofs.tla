----------------------------- MODULE Fort_proofs -----------------------------
(***************************************************************************)
(* Proofs about Fort for any set of workers, any number of starts of the   *)
(* server and any number and kinds of faults.                              *)
(***************************************************************************)
EXTENDS Fort, SequenceTheorems, TLAPS

-----------------------------------------------------------------------------
(* The identity of the server and the image *)

\* What the server has still to write, of the files of Ray or of its own.
RayTodo      == {RayFiles, <<"head.crt", "head.key">>, <<"head.key">>,
                 RayFilesElsewhere, <<"elsewhere", "elsewhere">>, <<"elsewhere">>}
IdentityTodo == {IdentityFiles, <<"atls-server.key">>}

Campaign == {"campaign", "campaign_wait", "head", "run"}

\* Both files of the identity were filled in the same start of the server.
Together ==
    /\ Full(disk["atls-server.crt"])
    /\ disk["atls-server.key"] = disk["atls-server.crt"]

\* The server's own files are written only in "generate", first the
\* certificate; the old key is gone by then.
Todo ==
    /\ DOMAIN disk = ServerFiles
    /\ starts \in 0 .. MaxStarts /\ (spc # "off" => starts >= 1)
    /\ spc = "write" => todo \in RayTodo
    /\ disk["atls-server.crt"] = Absent => disk["atls-server.key"] = Absent
    /\ spc = "generate" =>
          /\ todo \in IdentityTodo
          /\ disk["atls-server.key"] \in {Absent, Empty}
          /\ todo = <<"atls-server.key">> => disk["atls-server.crt"] = starts

\* Once certificate and key belong together, no script removes them and the
\* server does not make others; a complete image holds this certificate.
Identity ==
    /\ script \in {"refresh", "copy"} => spc = "off"
    /\ Together => script # "refresh" /\ spc # "generate"
    /\ Together /\ Listening => ident = disk["atls-server.crt"]
    /\ paired => script \in Campaign /\ Together /\ pinned = disk["atls-server.crt"]

PinnedInv == Todo /\ Identity
-----------------------------------------------------------------------------
(* What is left to write *)

LEMMA RayTodoStep ==
    ASSUME NEW q \in RayTodo
    PROVE  /\ Head(q) \in {"ca.crt", "head.crt", "head.key", "elsewhere"}
           /\ Len(q) > 1 => Tail(q) \in RayTodo
<1>1. CASE q = <<"ca.crt", "head.crt", "head.key">>
  <2>1. Head(q) = "ca.crt" /\ Tail(q) = <<"head.crt", "head.key">>
    BY <1>1
  <2> QED
    BY <2>1 DEF RayTodo
<1>2. CASE q = <<"head.crt", "head.key">>
  <2>1. Head(q) = "head.crt" /\ Tail(q) = <<"head.key">>
    BY <1>2
  <2> QED
    BY <2>1 DEF RayTodo
<1>3. CASE q = <<"head.key">>
  <2>1. Head(q) = "head.key" /\ Len(q) = 1
    BY <1>3
  <2> QED
    BY <2>1
<1>4. CASE q = <<"elsewhere", "elsewhere", "elsewhere">>
  <2>1. Head(q) = "elsewhere" /\ Tail(q) = <<"elsewhere", "elsewhere">>
    BY <1>4
  <2> QED
    BY <2>1 DEF RayTodo
<1>5. CASE q = <<"elsewhere", "elsewhere">>
  <2>1. Head(q) = "elsewhere" /\ Tail(q) = <<"elsewhere">>
    BY <1>5
  <2> QED
    BY <2>1 DEF RayTodo
<1>6. CASE q = <<"elsewhere">>
  <2>1. Head(q) = "elsewhere" /\ Len(q) = 1
    BY <1>6
  <2> QED
    BY <2>1
<1> QED
  BY <1>1, <1>2, <1>3, <1>4, <1>5, <1>6 DEF RayTodo, RayFiles, RayFilesElsewhere

LEMMA IdentityTodoStep ==
    ASSUME NEW q \in IdentityTodo
    PROVE  \/ /\ Head(q) = "atls-server.crt" /\ Len(q) > 1
              /\ Tail(q) = <<"atls-server.key">> /\ q # <<"atls-server.key">>
           \/ q = <<"atls-server.key">> /\ Head(q) = "atls-server.key" /\ Len(q) = 1
<1>1. CASE q = <<"atls-server.crt", "atls-server.key">>
  <2>1. Head(q) = "atls-server.crt" /\ Len(q) = 2 /\ Tail(q) = <<"atls-server.key">>
    BY <1>1
  <2>2. q # <<"atls-server.key">>
    BY <1>1
  <2> QED
    BY <2>1, <2>2
<1>2. CASE q = <<"atls-server.key">>
  <2>1. Head(q) = "atls-server.key" /\ Len(q) = 1
    BY <1>2
  <2> QED
    BY <1>2, <2>1
<1> QED
  BY <1>1, <1>2 DEF IdentityTodo, IdentityFiles

\* Nothing is Absent or Empty and filled at the same time.
LEMMA FileStates == Absent # Empty /\ ~Full(Absent) /\ ~Full(Empty)
  BY FortAssumption DEF Absent, Empty, Full

-----------------------------------------------------------------------------
(* Every step keeps the identity *)

\* What most steps leave alone; a server that listens goes on listening.
LEMMA IdentityUntouched ==
    ASSUME PinnedInv, UNCHANGED <<disk, todo, starts, ident, pinned, paired>>,
           script' = script \/ (script \in Campaign /\ script' \in Campaign),
           spc' = spc \/ (Listening /\ Listening')
    PROVE  PinnedInv'
<1>1. Todo'
  BY DEF PinnedInv, Todo, Listening, Handshaking
<1>2. CASE spc' = spc
  BY <1>1, <1>2 DEF PinnedInv, Identity, Together, Listening, Handshaking, Full, Campaign
<1>3. CASE Listening /\ Listening'
  BY <1>1, <1>3 DEF PinnedInv, Identity, Together, Listening, Handshaking, Full, Campaign
<1> QED
  BY <1>2, <1>3

LEMMA IdentityServerOff ==
    ASSUME PinnedInv, ServerOff, UNCHANGED <<disk, starts, pinned, paired>>,
           script' = script \/ (script \in Campaign /\ script' \in Campaign)
                            \/ (script = "refresh_wait" /\ script' \in {"copy", "failed"})
    PROVE  PinnedInv'
<1>1. Todo'
  BY DEF PinnedInv, Todo, ServerOff
<1>2. Identity'
  BY DEF PinnedInv, Identity, Together, ServerOff, Listening, Handshaking, Full, Campaign
<1> QED
  BY <1>1, <1>2 DEF PinnedInv

LEMMA IdentityCreateFile == PinnedInv /\ CreateFile => PinnedInv'
<1> SUFFICES ASSUME PinnedInv, CreateFile PROVE PinnedInv'
  OBVIOUS
<1>1. /\ UNCHANGED <<spc, todo, starts, ident, script, pinned, paired>>
      /\ disk' = [disk EXCEPT ![Head(todo)] = Empty] /\ spc \in {"write", "generate"}
  BY DEF CreateFile, host
<1>2. DOMAIN disk = ServerFiles /\ DOMAIN disk' = ServerFiles
  BY <1>1 DEF PinnedInv, Todo
<1>3. CASE spc = "write"
  <2>1. Head(todo) \notin {"atls-server.crt", "atls-server.key"}
    BY <1>3, RayTodoStep DEF PinnedInv, Todo
  <2>2. /\ disk'["atls-server.crt"] = disk["atls-server.crt"]
        /\ disk'["atls-server.key"] = disk["atls-server.key"]
    BY <1>1, <1>2, <2>1 DEF ServerFiles
  <2> QED
    BY <1>1, <1>2, <1>3, <2>2
    DEF PinnedInv, Todo, Identity, Together, Full, Listening, Handshaking
<1>4. CASE spc = "generate"
  <2>1. /\ todo \in IdentityTodo /\ ~Listening' /\ ~paired
        /\ disk["atls-server.key"] \in {Absent, Empty}
    BY <1>1, <1>4 DEF PinnedInv, Todo, Identity, Listening, Handshaking
  <2>2. CASE Head(todo) = "atls-server.crt" /\ todo # <<"atls-server.key">>
    <3>1. disk'["atls-server.crt"] = Empty /\ disk'["atls-server.key"] = disk["atls-server.key"]
      BY <1>1, <1>2, <2>2 DEF ServerFiles
    <3> QED
      BY <1>1, <1>2, <1>4, <2>1, <2>2, <3>1, FileStates
      DEF PinnedInv, Todo, Identity, Together
  <2>3. CASE todo = <<"atls-server.key">> /\ Head(todo) = "atls-server.key"
    <3>1. disk'["atls-server.key"] = Empty /\ disk'["atls-server.crt"] = disk["atls-server.crt"]
      BY <1>1, <1>2, <2>3 DEF ServerFiles
    <3>2. Full(disk["atls-server.crt"])
      BY <1>4, <2>3, FortAssumption DEF PinnedInv, Todo, Full
    <3> QED
      BY <1>1, <1>2, <1>4, <2>1, <2>3, <3>1, <3>2, FileStates
      DEF PinnedInv, Todo, Identity, Together
  <2> QED
    BY <2>1, <2>2, <2>3, IdentityTodoStep
<1> QED
  BY <1>1, <1>3, <1>4

LEMMA IdentityFillFile == PinnedInv /\ FillFile => PinnedInv'
<1> SUFFICES ASSUME PinnedInv, FillFile PROVE PinnedInv'
  OBVIOUS
<1>1. UNCHANGED <<starts, script, pinned, paired>> /\ spc \in {"write", "generate"}
  BY DEF FillFile, host
<1>2. CASE ServerOff /\ UNCHANGED disk
  BY <1>1, <1>2, IdentityServerOff
<1>3. CASE /\ disk' = [disk EXCEPT ![Head(todo)] = starts]
           /\ todo' = Tail(todo) /\ AfterFile
  <2> DOMAIN disk = ServerFiles /\ DOMAIN disk' = ServerFiles
    BY <1>3 DEF PinnedInv, Todo
  <2>1. CASE spc = "write"
    <3>1. /\ Head(todo) \notin {"atls-server.crt", "atls-server.key"}
          /\ Len(todo) > 1 => Tail(todo) \in RayTodo
      BY <2>1, RayTodoStep DEF PinnedInv, Todo
    <3>2. ident' = ident /\ spc' = IF Len(todo) > 1 THEN spc ELSE "load"
      BY <1>3, <2>1 DEF AfterFile
    <3>3. /\ disk'["atls-server.crt"] = disk["atls-server.crt"]
          /\ disk'["atls-server.key"] = disk["atls-server.key"]
      BY <1>3, <3>1 DEF ServerFiles
    <3>4. Todo'
      BY <1>1, <1>3, <2>1, <3>1, <3>2, <3>3 DEF PinnedInv, Todo
    <3>5. Identity'
      BY <1>1, <2>1, <3>2, <3>3
      DEF PinnedInv, Identity, Together, Full, Listening, Handshaking
    <3> QED
      BY <3>4, <3>5 DEF PinnedInv
  <2>2. CASE spc = "generate"
    <3>1. /\ todo \in IdentityTodo /\ starts \in 1 .. MaxStarts
          /\ disk["atls-server.key"] \in {Absent, Empty}
      BY <2>2 DEF PinnedInv, Todo
    <3>2. Full(starts)
      BY <3>1 DEF Full
    <3>3. ~paired /\ script \notin {"refresh", "copy"}
      BY <2>2 DEF PinnedInv, Identity
    <3>4. CASE Head(todo) = "atls-server.crt" /\ Len(todo) > 1
               /\ Tail(todo) = <<"atls-server.key">>
      <4>1. disk'["atls-server.crt"] = starts /\ disk'["atls-server.key"] = disk["atls-server.key"]
        BY <1>3, <3>4 DEF ServerFiles
      <4>2. spc' = spc /\ ident' = ident /\ todo' \in IdentityTodo
        BY <1>3, <3>4 DEF AfterFile, IdentityTodo
      <4> QED
        BY <1>1, <2>2, <3>1, <3>2, <3>3, <4>1, <4>2, FileStates
        DEF PinnedInv, Todo, Identity, Together, Listening, Handshaking
    <3>5. CASE todo = <<"atls-server.key">> /\ Head(todo) = "atls-server.key" /\ Len(todo) = 1
      <4>1. disk'["atls-server.crt"] = starts /\ disk'["atls-server.key"] = starts
        BY <1>3, <2>2, <3>5 DEF PinnedInv, Todo, ServerFiles
      <4>2. spc' = "accept" /\ ident' = starts
        BY <1>3, <2>2, <3>5 DEF AfterFile
      <4> QED
        BY <1>1, <3>1, <3>2, <3>3, <4>1, <4>2, FileStates
        DEF PinnedInv, Todo, Identity, Together
    <3> QED
      BY <3>1, <3>4, <3>5, IdentityTodoStep
  <2> QED
    BY <1>1, <2>1, <2>2
<1> QED
  BY <1>2, <1>3 DEF FillFile

LEMMA IdentityLoad == PinnedInv /\ Load => PinnedInv'
<1> SUFFICES ASSUME PinnedInv, Load PROVE PinnedInv'
  OBVIOUS
<1>1. UNCHANGED <<disk, starts, script, pinned, paired>> /\ spc = "load"
  BY DEF Load, host
<1>2. CASE ServerOff
  BY <1>1, <1>2, IdentityServerOff
<1>3. CASE ident' = disk["atls-server.crt"] /\ spc' = "accept" /\ UNCHANGED todo
  BY <1>1, <1>3 DEF PinnedInv, Todo, Identity, Together, Full
<1>4. CASE /\ disk["atls-server.crt"] = Absent \/ disk["atls-server.key"] = Absent
           /\ spc' = "generate" /\ todo' = IdentityFiles
  <2>1. disk["atls-server.key"] = Absent /\ ~Together /\ ~Together'
    BY <1>1, <1>4, FileStates DEF PinnedInv, Todo, Together, Full
  <2>2. ~paired /\ script \notin {"refresh", "copy"}
    BY <1>1, <2>1 DEF PinnedInv, Identity
  <2>3. todo' # <<"atls-server.key">> /\ todo' \in IdentityTodo
    BY <1>4 DEF IdentityFiles, IdentityTodo
  <2>4. starts >= 1
    BY <1>1 DEF PinnedInv, Todo
  <2>5. Todo'
    BY <1>1, <1>4, <2>1, <2>3, <2>4 DEF PinnedInv, Todo
  <2>6. Identity'
    BY <1>1, <1>4, <2>1, <2>2 DEF Identity
  <2> QED
    BY <2>5, <2>6 DEF PinnedInv
<1> QED
  BY <1>2, <1>3, <1>4 DEF Load

LEMMA IdentityStart ==
    ASSUME PinnedInv, RefreshStart \/ CampaignStart
    PROVE  PinnedInv'
<1>1. PICK removed, rayfiles :
         /\ StartServer(removed, rayfiles) /\ rayfiles \in RayTodo
         /\ \/ /\ script = "refresh" /\ script' = "refresh_wait"
               /\ removed = {"atls-server.crt", "atls-server.key"}
            \/ /\ script = "campaign" /\ script' = "campaign_wait"
               /\ removed = {"ca.crt", "head.crt", "head.key"}
  BY DEF RefreshStart, CampaignStart, RayTodo
<1>2. /\ spc' = "write" /\ todo' = rayfiles /\ DOMAIN disk' = ServerFiles
      /\ starts' = starts + 1 /\ starts < MaxStarts
      /\ UNCHANGED <<ident, pinned, paired>>
      /\ disk' = [f \in ServerFiles |-> IF f \in removed THEN Absent ELSE disk[f]]
  BY <1>1 DEF StartServer
<1>3. starts' \in 0 .. MaxStarts
  BY <1>2, FortAssumption DEF PinnedInv, Todo
<1>4. CASE script = "refresh"
  <2>1. disk'["atls-server.crt"] = Absent /\ disk'["atls-server.key"] = Absent
    BY <1>1, <1>2, <1>4 DEF ServerFiles
  <2>2. ~paired
    BY <1>4 DEF PinnedInv, Identity, Campaign
  <2> QED
    BY <1>1, <1>2, <1>3, <1>4, <2>1, <2>2, FileStates
    DEF PinnedInv, Todo, Identity, Together, Full
<1>5. CASE script = "campaign"
  <2>1. /\ disk'["atls-server.crt"] = disk["atls-server.crt"]
        /\ disk'["atls-server.key"] = disk["atls-server.key"]
    BY <1>1, <1>2, <1>5 DEF ServerFiles
  <2> QED
    BY <1>1, <1>2, <1>3, <1>5, <2>1
    DEF PinnedInv, Todo, Identity, Together, Full, Campaign, Listening, Handshaking
<1> QED
  BY <1>1, <1>4, <1>5

LEMMA IdentityCopy == PinnedInv /\ Copy => PinnedInv'
<1> SUFFICES ASSUME PinnedInv, Copy PROVE PinnedInv'
  OBVIOUS
<1>1. /\ UNCHANGED <<disk, spc, todo, starts, ident>> /\ script' = "campaign" /\ spc = "off"
      /\ pinned' = disk["atls-server.crt"] /\ (paired' <=> Together)
  BY DEF Copy, server, PinnedInv, Identity, Together
<1> QED
  BY <1>1 DEF PinnedInv, Todo, Identity, Together, Campaign, Full, Listening, Handshaking

LEMMA IdentityCleanUp ==
    ASSUME PinnedInv, CleanUp, script \in Campaign
    PROVE  PinnedInv'
  BY IdentityServerOff DEF CleanUp, Campaign

LEMMA IdentityScript ==
    ASSUME PinnedInv, RefreshStop \/ CampaignReady \/ HeadStart \/ EndCampaign
    PROVE  PinnedInv'
<1>1. CASE RefreshStop
  BY <1>1, IdentityServerOff DEF RefreshStop
<1>2. CASE CampaignReady
  BY <1>2, IdentityCleanUp, IdentityUntouched DEF CampaignReady, Campaign, server
<1>3. CASE HeadStart
  BY <1>3, IdentityCleanUp, IdentityUntouched DEF HeadStart, Campaign, server
<1>4. CASE EndCampaign
  BY <1>4, IdentityCleanUp DEF EndCampaign, Campaign
<1> QED
  BY <1>1, <1>2, <1>3, <1>4

LEMMA IdentityServer ==
    ASSUME PinnedInv, Accept \/ Handshake \/ Validate
    PROVE  PinnedInv'
  BY IdentityUntouched DEF Accept, Handshake, Validate, host, Listening, Handshaking

LEMMA IdentityHangup ==
    ASSUME PinnedInv, NEW w \in Workers, Hangup(w),
           UNCHANGED <<disk, todo, starts, ident, host>>
    PROVE  PinnedInv'
  BY IdentityUntouched DEF Hangup, host, Listening, Handshaking

LEMMA IdentityClient ==
    ASSUME PinnedInv, NEW w \in Workers, ClientStep(w) \/ Handler(w)
    PROVE  PinnedInv'
<1>1. CASE SendEvidence(w) /\ spc' # spc
  BY <1>1, IdentityHangup DEF SendEvidence
<1>2. CASE ~(SendEvidence(w) /\ spc' # spc)
  <2>1. UNCHANGED <<disk, spc, todo, starts, ident, script, pinned, paired>>
    BY <1>2 DEF ClientStep, Handler, Boot, Dial, Sleep, SendEvidence, ConnectionLost,
        ReadCerts, CreateWorkerFile, FillWorkerFile, RayStart, IssueCert, SendCA, server, host
  <2> QED
    BY <2>1, IdentityUntouched
<1> QED
  BY <1>1, <1>2

LEMMA IdentityFault ==
    ASSUME PinnedInv,
           ServerCrash \/ \E w \in Workers : FallSilent(w) \/ KillClient(w)
    PROVE  PinnedInv'
<1>1. CASE ServerCrash
  BY <1>1, IdentityServerOff DEF ServerCrash, host
<1>2. ASSUME NEW w \in Workers, FallSilent(w) PROVE PinnedInv'
  BY <1>2, IdentityUntouched DEF FallSilent, server, host
<1>3. ASSUME NEW w \in Workers, KillClient(w) PROVE PinnedInv'
  BY <1>3, IdentityHangup DEF KillClient
<1> QED
  BY <1>1, <1>2, <1>3

LEMMA IdentityNext ==
    ASSUME PinnedInv, [Next]_vars PROVE PinnedInv'
<1>1. CASE Finished \/ UNCHANGED vars
  BY <1>1, IdentityUntouched DEF Finished, vars, server, host
<1> QED
  BY <1>1, IdentityCreateFile, IdentityFillFile, IdentityLoad, IdentityServer, IdentityStart,
     IdentityCopy, IdentityScript, IdentityClient, IdentityFault
  DEF Next, ServerStep, ScriptStep

LEMMA IdentityInit == Init => PinnedInv
<1> SUFFICES ASSUME Init PROVE PinnedInv
  OBVIOUS
<1>1. /\ disk["atls-server.crt"] = Absent /\ disk["atls-server.key"] = Absent
      /\ DOMAIN disk = ServerFiles
  BY DEF Init, ServerFiles
<1>2. Todo
  BY <1>1, FortAssumption DEF Init, Todo
<1>3. ~Together
  BY <1>1, FileStates DEF Together
<1> QED
  BY <1>2, <1>3 DEF Init, PinnedInv, Identity

\* Certificate and key that belong together stay in their files.
LEMMA FilesStay ==
    ASSUME PinnedInv, PinnedInv', Together, [Next]_vars
    PROVE  /\ disk'["atls-server.crt"] = disk["atls-server.crt"]
           /\ disk'["atls-server.key"] = disk["atls-server.key"]
<1>1. CASE CreateFile \/ FillFile
  <2>1. spc = "write"
    BY <1>1 DEF CreateFile, FillFile, PinnedInv, Identity
  <2>2. Head(todo) \notin {"atls-server.crt", "atls-server.key"}
    BY <2>1, RayTodoStep DEF PinnedInv, Todo
  <2>3. UNCHANGED disk \/ \E v : disk' = [disk EXCEPT ![Head(todo)] = v]
    BY <1>1 DEF CreateFile, FillFile
  <2> QED
    BY <2>2, <2>3 DEF PinnedInv, Todo, ServerFiles
<1>2. CASE CampaignStart
  BY <1>2 DEF CampaignStart, StartServer, PinnedInv, Todo, ServerFiles
<1>3. CASE ~(CreateFile \/ FillFile \/ CampaignStart)
  <2>1. ~RefreshStart
    BY DEF RefreshStart, PinnedInv, Identity
  <2>2. UNCHANGED disk
    BY <1>3, <2>1 DEF Next, ServerStep, ScriptStep, Load, Accept, Handshake, Validate,
       RefreshStop, Copy, CampaignReady, HeadStart, EndCampaign, CleanUp, ServerCrash,
       Finished, Handler, IssueCert, SendCA, ClientStep, Boot, Dial, Sleep, SendEvidence,
       ConnectionLost, ReadCerts, CreateWorkerFile, FillWorkerFile, RayStart,
       FallSilent, KillClient, vars, server
  <2> QED
    BY <2>2
<1> QED
  BY <1>1, <1>2, <1>3

\* An identity whose certificate and key are both written, or which a worker
\* image built at such a time holds, is that of every server that listens
\* from then on: loadOrGenerateATLSCert never makes another one, whatever
\* fails and however often the server starts.
THEOREM IdentityStays == Spec => IdentityKept
<1> DEFINE Held(n) == disk["atls-server.crt"] = n /\ disk["atls-server.key"] = n
<1>1. Init => PinnedInv
  BY IdentityInit
<1>2. PinnedInv /\ [Next]_vars => PinnedInv'
  BY IdentityNext
<1>3. Spec => []PinnedInv
  BY <1>1, <1>2, PTL DEF Spec
<1>4. ASSUME NEW n \in 1 .. MaxStarts
      PROVE  Spec => [](Relied(n) => [](Listening => ident = n))
  <2>1. PinnedInv /\ Relied(n) => Held(n)
    BY DEF PinnedInv, Identity, Together, Relied
  <2>2. PinnedInv /\ Held(n) => (Listening => ident = n)
    BY DEF PinnedInv, Identity, Together, Full
  <2>3. PinnedInv /\ PinnedInv' /\ [Next]_vars /\ Held(n) => Held(n)'
    BY FilesStay DEF Together, Full
  <2> QED
    BY <1>3, <2>1, <2>2, <2>3, PTL DEF Spec
<1> QED
  BY <1>4 DEF IdentityKept

-----------------------------------------------------------------------------
(* The certificates of the workers and of the Ray head *)

HeadFiles == {"ca.crt", "head.crt", "head.key"}
Live      == {"campaign_wait", "head", "run"}
Waiting   == {"dial", "sleep", "tls", "evidence", "read", "write", "done", "dead"}

\* The files of Ray are the ones of this start of the server, and the head
\* has read them.
HeadOK ==
    /\ script \in Live => \A f \in HeadFiles : disk[f] \in {Absent, Empty, starts}
    /\ script = "run" => \A f \in HeadFiles : head[f] = starts
    /\ DOMAIN head = HeadFiles

Shapes ==
    /\ cpc \in [Workers -> {"off"} \cup Waiting] /\ try \in [Workers -> Nat \ {0}]
    /\ next \in [Workers -> 1 .. 3]
    /\ DOMAIN conn = Workers /\ DOMAIN sent = Workers /\ DOMAIN ray = Workers
    /\ DOMAIN files = Workers
    /\ \A w \in Workers : DOMAIN files[w] = {"crt", "key", "ca"}

\* What the server has sent is of this start, and no handler writes any more
\* to a client that has read to the end.
SentOK(w) ==
    /\ script # "run" => cpc[w] = "off" /\ conn[w] \notin {"csr", "ca"}
    /\ conn[w] = "ca" => sent[w] = <<starts>>
    /\ cpc[w] \in {"tls", "evidence", "read"} =>
          sent[w] \in {<<>>, <<starts>>, <<starts, starts>>}
    /\ cpc[w] = "write" => sent[w] = <<starts, starts>> /\ conn[w] \notin {"csr", "ca"}

\* The files before the one that is written are of this try; the last one
\* is filled by the step that ends the client.
FilesOK(w) ==
    /\ cpc[w] # "done" => files[w]["ca"] \in {NoFile, EmptyFile}
    /\ (cpc[w] = "write" /\ next[w] > 1) \/ cpc[w] = "done" =>
          files[w]["crt"] = <<try[w], starts>>
    /\ (cpc[w] = "write" /\ next[w] > 2) \/ cpc[w] = "done" =>
          files[w]["key"] = <<try[w], 0>>
    /\ cpc[w] = "done" => files[w]["ca"] = <<0, starts>>

\* Ray read the files when nobody wrote them any more.
RayOK(w) ==
    ray[w] # NoFiles => /\ ray[w] = files[w] /\ cpc[w] \in {"done", "dead"}
                        /\ files[w]["ca"] # NoFile

RayInv == HeadOK /\ Shapes /\ \A w \in Workers : SentOK(w) /\ FilesOK(w) /\ RayOK(w)

LEMMA ClientKept ==
    ASSUME RayInv, NEW w \in Workers, UNCHANGED <<script, starts>>, cpc'[w] = cpc[w],
           try'[w] = try[w], next'[w] = next[w], conn'[w] = conn[w], sent'[w] = sent[w],
           files'[w] = files[w], ray'[w] = ray[w]
    PROVE  SentOK(w)' /\ FilesOK(w)' /\ RayOK(w)'
<1>1. SentOK(w) /\ FilesOK(w) /\ RayOK(w)
  BY DEF RayInv
<1>2. SentOK(w)'
  BY <1>1 DEF SentOK
<1>3. FilesOK(w)'
  BY <1>1 DEF FilesOK
<1>4. RayOK(w)'
  BY <1>1 DEF RayOK
<1> QED
  BY <1>2, <1>3, <1>4

LEMMA HeadKept ==
    ASSUME RayInv, UNCHANGED <<script, starts, head>>,
           \A f \in HeadFiles : disk'[f] \in {disk[f], Empty, starts}
    PROVE  HeadOK'
BY DEF RayInv, HeadOK, Empty, Absent

\* A step of the server and its files.
LEMMA RayServer ==
    ASSUME RayInv, UNCHANGED <<script, starts, head, network, client>>,
           \A f \in HeadFiles : disk'[f] \in {disk[f], Empty, starts}
    PROVE  RayInv'
<1>1. UNCHANGED <<cpc, try, next, files, ray, conn, sent>>
  BY DEF network, client
<1>2. Shapes'
  BY <1>1 DEF RayInv, Shapes
<1>3. HeadOK'
  BY HeadKept
<1>4. \A w \in Workers : SentOK(w)' /\ FilesOK(w)' /\ RayOK(w)'
  BY <1>1, ClientKept
<1> QED
  BY <1>2, <1>3, <1>4 DEF RayInv

\* The server is gone: no handler writes any more.
LEMMA RayServerOff ==
    ASSUME RayInv, ServerOff, UNCHANGED <<disk, starts, head, sent, client>>,
           script' = script \/ (script = "refresh_wait" /\ script' \notin Live)
    PROVE  RayInv'
<1>1. /\ UNCHANGED <<cpc, try, next, files, ray>> /\ DOMAIN conn' = Workers
      /\ \A w \in Workers : conn'[w] \in {"closed", "broken"}
  BY DEF ServerOff, client
<1>2. Shapes'
  BY <1>1 DEF RayInv, Shapes
<1>3. HeadOK'
  BY DEF RayInv, HeadOK, Live
<1>4. ASSUME NEW w \in Workers PROVE SentOK(w)' /\ FilesOK(w)' /\ RayOK(w)'
  <2>1. SentOK(w) /\ FilesOK(w) /\ RayOK(w)
    BY DEF RayInv
  <2>2. SentOK(w)'
    BY <1>1, <2>1 DEF SentOK, Live
  <2>3. FilesOK(w)'
    BY <1>1, <2>1 DEF FilesOK
  <2>4. RayOK(w)'
    BY <1>1, <2>1 DEF RayOK
  <2> QED BY <2>2, <2>3, <2>4
<1> QED
  BY <1>2, <1>3, <1>4 DEF RayInv

LEMMA RayFileSteps ==
    ASSUME PinnedInv, RayInv, CreateFile \/ FillFile \/ Load \/ ServerCrash
    PROVE  RayInv'
<1>1. DOMAIN disk = ServerFiles /\ HeadFiles \subseteq ServerFiles
  BY DEF PinnedInv, Todo, HeadFiles, ServerFiles
<1>2. CASE ServerOff /\ UNCHANGED disk
  BY <1>2, RayServerOff DEF CreateFile, FillFile, Load, ServerCrash, host, network
<1>3. CASE CreateFile
  BY <1>1, <1>3, RayServer DEF CreateFile, host
<1>4. CASE FillFile /\ ~(ServerOff /\ UNCHANGED disk)
  BY <1>1, <1>4, RayServer DEF FillFile, host, network
<1>5. CASE Load /\ ~(ServerOff /\ UNCHANGED disk)
  BY <1>5, RayServer DEF Load, host, network
<1> QED
  BY <1>2, <1>3, <1>4, <1>5 DEF ServerCrash

LEMMA RayCleanUp ==
    ASSUME RayInv, CleanUp PROVE RayInv'
<1>1. /\ script' = "campaign" /\ head' = NoHead /\ UNCHANGED <<starts, disk, sent>>
      /\ cpc' = [w \in Workers |-> "off"] /\ try' = [w \in Workers |-> 1]
      /\ next' = [w \in Workers |-> 1]
      /\ files' = [w \in Workers |-> NoFiles] /\ ray' = [w \in Workers |-> NoFiles]
      /\ DOMAIN conn' = Workers /\ \A w \in Workers : conn'[w] \in {"closed", "broken"}
  BY DEF CleanUp, ServerOff
<1>2. Shapes'
  BY <1>1 DEF RayInv, Shapes, NoFiles
<1>3. HeadOK'
  BY <1>1 DEF HeadOK, Live, NoHead, HeadFiles
<1>4. ASSUME NEW w \in Workers PROVE SentOK(w)' /\ FilesOK(w)' /\ RayOK(w)'
  <2>1. /\ cpc'[w] = "off" /\ files'[w] = NoFiles /\ ray'[w] = NoFiles
        /\ conn'[w] \in {"closed", "broken"}
    BY <1>1
  <2> QED BY <1>1, <2>1 DEF SentOK, FilesOK, RayOK, NoFiles
<1> QED
  BY <1>2, <1>3, <1>4 DEF RayInv

\* A start makes the files of Ray anew; no client is running.
LEMMA RayStartServer ==
    ASSUME RayInv, RefreshStart \/ CampaignStart PROVE RayInv'
<1>1. /\ script \in {"refresh", "campaign"} /\ script' \in {"refresh_wait", "campaign_wait"}
      /\ script' = "campaign_wait" => \A f \in HeadFiles : disk'[f] = Absent
      /\ UNCHANGED <<network, head, client>>
  BY DEF RefreshStart, CampaignStart, StartServer, HeadFiles, ServerFiles
<1>2. UNCHANGED <<cpc, try, next, files, ray, conn, sent>>
  BY <1>1 DEF network, client
<1>3. Shapes'
  BY <1>2 DEF RayInv, Shapes
<1>4. HeadOK'
  BY <1>1 DEF RayInv, HeadOK, Live
<1>5. ASSUME NEW w \in Workers PROVE SentOK(w)' /\ FilesOK(w)' /\ RayOK(w)'
  <2>1. /\ SentOK(w) /\ FilesOK(w) /\ RayOK(w) /\ cpc[w] = "off"
        /\ conn[w] \notin {"csr", "ca"}
    BY <1>1 DEF RayInv, SentOK
  <2> QED BY <1>1, <1>2, <2>1 DEF SentOK, FilesOK, RayOK
<1> QED
  BY <1>3, <1>4, <1>5 DEF RayInv

LEMMA RayScript ==
    ASSUME RayInv, RefreshStop \/ Copy \/ CampaignReady \/ HeadStart \/ EndCampaign
    PROVE  RayInv'
<1>1. CASE RefreshStop
  BY <1>1, RayServerOff DEF RefreshStop, Live
<1>2. CASE CleanUp
  BY <1>2, RayCleanUp
<1>3. CASE (Copy \/ CampaignReady \/ HeadStart \/ EndCampaign) /\ ~CleanUp
  <2>1. /\ UNCHANGED <<server, network, client>>
        /\ \/ script = "copy" /\ script' = "campaign" /\ head' = head
           \/ script = "campaign_wait" /\ script' = "head" /\ head' = head
           \/ /\ script = "head" /\ script' = "run" /\ \A f \in DOMAIN NoHead : Full(disk[f])
              /\ head' = [f \in DOMAIN NoHead |-> disk[f]]
    BY <1>3 DEF Copy, CampaignReady, HeadStart, EndCampaign
  <2>2. UNCHANGED <<cpc, try, next, files, ray, conn, sent, disk, starts>>
    BY <2>1 DEF network, client, server
  <2>3. Shapes'
    BY <2>2 DEF RayInv, Shapes
  <2>4. DOMAIN NoHead = HeadFiles
    BY DEF NoHead, HeadFiles
  <2>5. HeadOK'
    <3>1. HeadOK
      BY DEF RayInv
    <3>2. CASE script' # "run"
      BY <2>1, <2>2, <3>1, <3>2 DEF HeadOK, Live
    <3>3. CASE script' = "run"
      <4>1. /\ script = "head" /\ \A f \in HeadFiles : Full(disk[f])
            /\ head' = [f \in HeadFiles |-> disk[f]]
        BY <2>1, <2>4, <3>3
      <4>2. \A f \in HeadFiles : disk[f] \in {Absent, Empty, starts}
        BY <3>1, <4>1 DEF HeadOK, Live
      <4>3. \A f \in HeadFiles : disk[f] = starts
        BY <4>1, <4>2, FortAssumption DEF Full, Absent, Empty
      <4> QED BY <2>2, <4>1, <4>3 DEF HeadOK
    <3> QED BY <3>2, <3>3
  <2>6. ASSUME NEW w \in Workers PROVE SentOK(w)' /\ FilesOK(w)' /\ RayOK(w)'
    <3>1. /\ SentOK(w) /\ FilesOK(w) /\ RayOK(w) /\ cpc[w] = "off"
          /\ conn[w] \notin {"csr", "ca"}
      BY <2>1 DEF RayInv, SentOK
    <3> QED BY <2>2, <3>1 DEF SentOK, FilesOK, RayOK
  <2> QED BY <2>3, <2>5, <2>6 DEF RayInv
<1> QED
  BY <1>1, <1>2, <1>3

\* The server's part of a session.
LEMMA RayAccept ==
    ASSUME RayInv, Accept \/ Handshake \/ Validate PROVE RayInv'
<1>1. CASE Accept
  BY <1>1, RayServer DEF Accept, host
<1>2. CASE Handshake
  <2>1. /\ UNCHANGED <<disk, starts, script, head, conn, sent, try, next, files, ray>>
        /\ cpc[cur] = "tls"
        /\ \E p \in {"evidence", "sleep"} : cpc' = [cpc EXCEPT ![cur] = p]
    BY <1>2 DEF Handshake, Set, host, network
  <2>2. Shapes'
    BY <2>1 DEF RayInv, Shapes, Waiting
  <2>3. HeadOK'
    BY <2>1, HeadKept
  <2>4. ASSUME NEW w \in Workers PROVE SentOK(w)' /\ FilesOK(w)' /\ RayOK(w)'
    <3>1. CASE w = cur
      <4>1. /\ SentOK(w) /\ FilesOK(w) /\ RayOK(w) /\ cpc[w] = "tls"
            /\ cpc'[w] \in {"evidence", "sleep"}
        BY <2>1, <3>1 DEF RayInv, Shapes
      <4> QED BY <2>1, <4>1 DEF SentOK, FilesOK, RayOK
    <3>2. CASE w # cur
      BY <2>1, <3>2, ClientKept DEF RayInv, Shapes
    <3> QED BY <3>1, <3>2
  <2> QED BY <2>2, <2>3, <2>4 DEF RayInv
<1>3. CASE Validate
  <2>1. /\ UNCHANGED <<disk, starts, script, head, cpc, sent, try, next, files, ray>>
        /\ cpc[cur] = "read"
        /\ \E c \in {"csr", "closed"} : conn' = [conn EXCEPT ![cur] = c]
    BY <1>3 DEF Validate, Set, host, client
  <2>2. Shapes'
    BY <2>1 DEF RayInv, Shapes
  <2>3. HeadOK'
    BY <2>1, HeadKept
  <2>4. ASSUME NEW w \in Workers PROVE SentOK(w)' /\ FilesOK(w)' /\ RayOK(w)'
    <3>1. CASE w = cur
      <4>1. /\ SentOK(w) /\ FilesOK(w) /\ RayOK(w) /\ cpc[w] = "read"
            /\ conn'[w] \in {"csr", "closed"}
        BY <2>1, <3>1 DEF RayInv, Shapes
      <4> QED BY <2>1, <4>1 DEF SentOK, FilesOK, RayOK
    <3>2. CASE w # cur
      BY <2>1, <3>2, ClientKept DEF RayInv, Shapes
    <3> QED BY <3>1, <3>2
  <2> QED BY <2>2, <2>3, <2>4 DEF RayInv
<1> QED
  BY <1>1, <1>2, <1>3

\* A step of one client, or for it: the others and the head are left alone.
OneClient(w) ==
    /\ UNCHANGED <<disk, starts, script, head>>
    /\ \A v \in Workers \ {w} :
          /\ cpc'[v] = cpc[v] /\ try'[v] = try[v] /\ next'[v] = next[v]
          /\ conn'[v] = conn[v] /\ sent'[v] = sent[v]
          /\ files'[v] = files[v] /\ ray'[v] = ray[v]

LEMMA RayClient ==
    ASSUME RayInv, NEW w \in Workers, OneClient(w), Shapes',
           SentOK(w)' /\ FilesOK(w)' /\ RayOK(w)'
    PROVE  RayInv'
<1>1. HeadOK'
  BY HeadKept DEF OneClient
<1>2. \A v \in Workers \ {w} : SentOK(v)' /\ FilesOK(v)' /\ RayOK(v)'
  BY ClientKept DEF OneClient
<1> QED
  BY <1>1, <1>2 DEF RayInv

LEMMA Twice ==
    ASSUME NEW n PROVE Append(<<n>>, n) = <<n, n>>
<1>1. PICK s : s = <<n>>
  OBVIOUS
<1>2. s \in Seq({n}) /\ Len(s) = 1 /\ s[1] = n
  BY <1>1
<1>3. PICK t : t = Append(s, n)
  OBVIOUS
<1>4. t \in Seq({n}) /\ Len(t) = 2 /\ t[1] = n /\ t[2] = n
  <2>1. /\ t \in Seq({n}) /\ Len(t) = Len(s) + 1 /\ t[Len(s) + 1] = n
        /\ \A i \in 1 .. Len(s) : t[i] = s[i]
    BY <1>2, <1>3, AppendProperties
  <2> QED BY <1>2, <2>1
<1>5. PICK u : u = <<n, n>>
  OBVIOUS
<1>6. u \in Seq({n}) /\ Len(u) = 2 /\ u[1] = n /\ u[2] = n
  BY <1>5
<1>7. \A i \in 1 .. 2 : t[i] = u[i]
  BY <1>4, <1>6
<1>8. t = u
  BY ONLY <1>4, <1>6, <1>7, SeqEqual
<1> QED
  BY <1>1, <1>3, <1>5, <1>8

LEMMA RayHandler ==
    ASSUME RayInv, NEW w \in Workers, Handler(w) PROVE RayInv'
<1>1. /\ UNCHANGED <<disk, starts, script, head, cpc, try, next, files, ray>>
      /\ \/ /\ conn[w] = "csr" /\ sent' = [sent EXCEPT ![w] = <<starts>>]
            /\ conn' = [conn EXCEPT ![w] = "ca"]
         \/ /\ conn[w] = "ca" /\ sent' = [sent EXCEPT ![w] = Append(sent[w], starts)]
            /\ conn' = [conn EXCEPT ![w] = "closed"]
  BY DEF Handler, IssueCert, SendCA, Set, server, host, client
<1>2. Shapes /\ SentOK(w) /\ FilesOK(w) /\ RayOK(w)
  BY DEF RayInv
<1>3. Shapes' /\ OneClient(w)
  BY <1>1, <1>2 DEF Shapes, OneClient
<1>4. SentOK(w)'
  <2>1. CASE conn[w] = "csr"
    <3>1. sent'[w] = <<starts>> /\ conn'[w] = "ca"
      BY <1>1, <1>2, <2>1 DEF Shapes
    <3> QED BY <1>1, <1>2, <2>1, <3>1 DEF SentOK
  <2>2. CASE conn[w] = "ca"
    <3>1. sent'[w] = Append(<<starts>>, starts) /\ conn'[w] = "closed"
      BY <1>1, <1>2, <2>2 DEF Shapes, SentOK
    <3>2. Append(<<starts>>, starts) = <<starts, starts>>
      BY Twice
    <3> QED BY <1>1, <1>2, <2>2, <3>1, <3>2 DEF SentOK
  <2> QED BY <1>1, <2>1, <2>2
<1>5. FilesOK(w)' /\ RayOK(w)'
  BY <1>1, <1>2 DEF FilesOK, RayOK
<1> QED
  BY <1>3, <1>4, <1>5, RayClient

\* Steps of a client before it has the certificates.
LEMMA RaySession ==
    ASSUME RayInv, NEW w \in Workers,
           \/ Boot(w) \/ Dial(w) \/ Sleep(w) \/ SendEvidence(w) \/ ConnectionLost(w)
           \/ KillClient(w) \/ FallSilent(w)
    PROVE  RayInv'
<1>1. /\ UNCHANGED <<disk, starts, script, head, try, next, files, ray>>
      /\ \/ script = "run" /\ cpc[w] = "off" /\ cpc' = [cpc EXCEPT ![w] = "dial"]
            /\ UNCHANGED <<conn, sent>>
         \/ cpc[w] = "dial" /\ cpc' = [cpc EXCEPT ![w] = "tls"]
            /\ conn' = [conn EXCEPT ![w] = "none"] /\ sent' = [sent EXCEPT ![w] = <<>>]
         \/ /\ cpc[w] \notin {"off", "done", "dead"}
            /\ \E p \in {"sleep", "dial", "dead"} : cpc' = [cpc EXCEPT ![w] = p]
            /\ sent' = sent /\ (conn' = conn \/ conn' = [conn EXCEPT ![w] = "none"])
         \/ /\ cpc[w] = "evidence" /\ cpc' = [cpc EXCEPT ![w] = "read"]
            /\ UNCHANGED <<conn, sent>>
         \/ UNCHANGED <<cpc, conn, sent>>
  BY DEF Boot, Dial, Sleep, SendEvidence, ConnectionLost, KillClient, FallSilent, Hangup, Set,
         server, host, network, client
<1>2. Shapes /\ SentOK(w) /\ FilesOK(w) /\ RayOK(w)
  BY DEF RayInv
<1>3. Shapes' /\ OneClient(w)
  <2>1. cpc' \in [Workers -> {"off"} \cup Waiting]
    BY <1>1, <1>2 DEF Shapes, Waiting
  <2>2. Shapes'
    BY <1>1, <1>2, <2>1 DEF Shapes
  <2>3. OneClient(w)
    BY <1>1, <1>2 DEF Shapes, OneClient
  <2> QED
    BY <2>2, <2>3
<1>4. SentOK(w)'
  BY <1>1, <1>2 DEF SentOK, Shapes
<1>5. FilesOK(w)'
  BY <1>1, <1>2 DEF FilesOK, Shapes
<1>6. RayOK(w)'
  BY <1>1, <1>2 DEF RayOK, Shapes
<1> QED
  BY <1>3, <1>4, <1>5, <1>6, RayClient

LEMMA RayReadCerts ==
    ASSUME RayInv, NEW w \in Workers, ReadCerts(w) PROVE RayInv'
<1>1. /\ UNCHANGED <<disk, starts, script, head, try, files, ray, conn, sent>>
      /\ cpc[w] = "read" /\ conn[w] = "closed"
      /\ cpc' = [cpc EXCEPT ![w] = IF Len(sent[w]) = 2 THEN "write" ELSE "sleep"]
      /\ next' = [next EXCEPT ![w] = 1]
  BY DEF ReadCerts, Set, server, host, network
<1>2. Shapes /\ SentOK(w) /\ FilesOK(w) /\ RayOK(w)
  BY DEF RayInv
<1>3. Shapes' /\ OneClient(w)
  BY <1>1, <1>2 DEF Shapes, OneClient, Waiting
<1>4. SentOK(w)'
  <2>1. Len(sent[w]) = 2 => sent[w] = <<starts, starts>>
    BY <1>1, <1>2 DEF SentOK
  <2>2. cpc'[w] = IF Len(sent[w]) = 2 THEN "write" ELSE "sleep"
    BY <1>1, <1>2 DEF Shapes
  <2> QED BY <1>1, <1>2, <2>1, <2>2 DEF SentOK
<1>5. next'[w] = 1 /\ cpc'[w] \in {"write", "sleep"}
  BY <1>1, <1>2 DEF Shapes
<1>6. FilesOK(w)' /\ RayOK(w)'
  BY <1>1, <1>2, <1>5 DEF FilesOK, RayOK
<1> QED
  BY <1>3, <1>4, <1>6, RayClient

LEMMA NextFile ==
    ASSUME NEW n \in 1 .. 3
    PROVE  /\ WorkerFiles[n] = IF n = 1 THEN "crt" ELSE IF n = 2 THEN "key" ELSE "ca"
           /\ Len(WorkerFiles) = 3
BY DEF WorkerFiles

\* A file that is made anew is empty; the ones before it stay.
LEMMA RayCreateWorkerFile ==
    ASSUME RayInv, NEW w \in Workers, CreateWorkerFile(w) PROVE RayInv'
<1>1. /\ UNCHANGED <<disk, starts, script, head, cpc, try, next, ray, conn, sent>>
      /\ cpc[w] = "write"
      /\ files' = [files EXCEPT ![w][WorkerFiles[next[w]]] = EmptyFile]
  BY DEF CreateWorkerFile, server, host, network
<1>2. Shapes /\ SentOK(w) /\ FilesOK(w) /\ RayOK(w) /\ next[w] \in 1 .. 3
  BY DEF RayInv, Shapes
<1>3. PICK f : f = WorkerFiles[next[w]]
  OBVIOUS
<1>4. f = IF next[w] = 1 THEN "crt" ELSE IF next[w] = 2 THEN "key" ELSE "ca"
  BY <1>2, <1>3, NextFile
<1>5. /\ files'[w][f] = EmptyFile
      /\ \A g \in {"crt", "key", "ca"} \ {f} : files'[w][g] = files[w][g]
  BY <1>1, <1>2, <1>3, <1>4 DEF Shapes
<1>6. Shapes' /\ OneClient(w)
  BY <1>1, <1>2 DEF Shapes, OneClient
<1>7. SentOK(w)'
  BY <1>1, <1>2 DEF SentOK
<1>8. FilesOK(w)'
  BY <1>1, <1>2, <1>4, <1>5 DEF FilesOK
<1>9. RayOK(w)'
  BY <1>1, <1>2 DEF RayOK
<1> QED
  BY <1>6, <1>7, <1>8, <1>9, RayClient

LEMMA RayFillWorkerFile ==
    ASSUME RayInv, NEW w \in Workers, FillWorkerFile(w) PROVE RayInv'
<1> DEFINE f == WorkerFiles[next[w]]
<1>1. /\ UNCHANGED <<disk, starts, script, head, ray, conn, sent>> /\ cpc[w] = "write"
      /\ \/ /\ files' = [files EXCEPT ![w][f] = Content(w, f)] /\ try' = try
            /\ IF next[w] < Len(WorkerFiles)
               THEN next' = [next EXCEPT ![w] = next[w] + 1] /\ cpc' = cpc
               ELSE cpc' = [cpc EXCEPT ![w] = "done"] /\ next' = next
         \/ /\ cpc' = [cpc EXCEPT ![w] = "sleep"] /\ UNCHANGED <<next, files>>
            /\ try' = [try EXCEPT ![w] = try[w] + 1]
  BY DEF FillWorkerFile, Set, server, host, network
<1>2. /\ Shapes /\ SentOK(w) /\ FilesOK(w) /\ RayOK(w) /\ next[w] \in 1 .. 3
      /\ try[w] \in Nat \ {0}
  BY DEF RayInv, Shapes
<1>3. sent[w] = <<starts, starts>> /\ conn[w] \notin {"csr", "ca"} /\ ray[w] = NoFiles
      /\ script = "run"
  BY <1>1, <1>2 DEF SentOK, RayOK
<1>4. CASE /\ cpc' = [cpc EXCEPT ![w] = "sleep"] /\ UNCHANGED <<next, files>>
           /\ try' = [try EXCEPT ![w] = try[w] + 1]
  <2>1. Shapes' /\ OneClient(w) /\ cpc'[w] = "sleep"
    BY <1>1, <1>2, <1>4 DEF Shapes, OneClient, Waiting
  <2>2. SentOK(w)' /\ FilesOK(w)' /\ RayOK(w)'
    BY <1>1, <1>2, <1>3, <1>4, <2>1 DEF SentOK, FilesOK, RayOK
  <2> QED BY <2>1, <2>2, RayClient
<1>5. CASE /\ files' = [files EXCEPT ![w][f] = Content(w, f)] /\ try' = try
           /\ IF next[w] < Len(WorkerFiles)
              THEN next' = [next EXCEPT ![w] = next[w] + 1] /\ cpc' = cpc
              ELSE cpc' = [cpc EXCEPT ![w] = "done"] /\ next' = next
  <2>1. PICK g : g = f
    OBVIOUS
  <2>2. g = IF next[w] = 1 THEN "crt" ELSE IF next[w] = 2 THEN "key" ELSE "ca"
    BY <1>2, <2>1, NextFile
  <2>3. PICK c : c = Content(w, g)
    OBVIOUS
  <2>4. c = IF g = "crt" THEN <<try[w], starts>>
            ELSE IF g = "key" THEN <<try[w], 0>> ELSE <<0, starts>>
    BY <1>3, <2>2, <2>3 DEF Content
  <2>5. /\ files'[w][g] = c
        /\ \A h \in {"crt", "key", "ca"} \ {g} : files'[w][h] = files[w][h]
        /\ DOMAIN files' = Workers
        /\ \A v \in Workers : DOMAIN files'[v] = {"crt", "key", "ca"}
        /\ \A v \in Workers \ {w} : files'[v] = files[v]
    BY <1>2, <1>5, <2>1, <2>2, <2>3 DEF Shapes
  <2>6. CASE next[w] < 3
    <3>1. next' = [next EXCEPT ![w] = next[w] + 1] /\ cpc' = cpc
      <4>1. next[w] < Len(WorkerFiles)
        <5>1. Len(WorkerFiles) = 3
          BY DEF WorkerFiles
        <5> QED BY ONLY <1>2, <2>6, <5>1
      <4> QED BY <1>5, <4>1
    <3>2. next[w] + 1 \in 1 .. 3 /\ next'[w] = next[w] + 1
      BY <1>2, <2>6, <3>1 DEF Shapes
    <3>3. Shapes' /\ OneClient(w)
      BY <1>1, <1>2, <1>5, <2>5, <3>1, <3>2 DEF Shapes, OneClient
    <3>4. SentOK(w)' /\ RayOK(w)'
      BY <1>1, <1>2, <1>3, <3>1 DEF SentOK, RayOK
    <3>5. FilesOK(w)'
      <4>1. CASE next[w] = 1
        BY <1>1, <1>2, <1>5, <2>2, <2>4, <2>5, <3>1, <3>2, <4>1 DEF FilesOK
      <4>2. CASE next[w] = 2
        BY <1>1, <1>2, <1>5, <2>2, <2>4, <2>5, <3>1, <3>2, <4>2 DEF FilesOK
      <4> QED BY <1>2, <2>6, <4>1, <4>2
    <3> QED BY <3>3, <3>4, <3>5, RayClient
  <2>7. CASE next[w] = 3
    <3>1. cpc' = [cpc EXCEPT ![w] = "done"] /\ next' = next
      <4>1. ~(next[w] < Len(WorkerFiles))
        <5>1. Len(WorkerFiles) = 3
          BY DEF WorkerFiles
        <5> QED BY ONLY <1>2, <2>7, <5>1
      <4> QED BY <1>5, <4>1
    <3>2. Shapes' /\ OneClient(w) /\ cpc'[w] = "done"
      BY <1>1, <1>2, <1>5, <2>5, <3>1 DEF Shapes, OneClient, Waiting
    <3>3. SentOK(w)' /\ RayOK(w)'
      BY <1>1, <1>2, <1>3, <3>2 DEF SentOK, RayOK
    <3>4. FilesOK(w)'
      BY <1>1, <1>2, <1>5, <2>2, <2>4, <2>5, <2>7, <3>1, <3>2 DEF FilesOK
    <3> QED BY <3>2, <3>3, <3>4, RayClient
  <2> QED BY <1>2, <2>6, <2>7
<1> QED
  BY <1>1, <1>4, <1>5

LEMMA RayStartInv ==
    ASSUME RayInv, NEW w \in Workers, RayStart(w) PROVE RayInv'
<1>1. /\ UNCHANGED <<disk, starts, script, head, cpc, try, next, files, conn, sent>>
      /\ cpc[w] \in {"done", "dead"} /\ ray' = [ray EXCEPT ![w] = files[w]]
      /\ files[w]["ca"] # NoFile
  BY DEF RayStart, Set, server, host, network, NoFiles
<1>2. Shapes /\ SentOK(w) /\ FilesOK(w) /\ RayOK(w)
  BY DEF RayInv
<1>3. Shapes' /\ OneClient(w) /\ ray'[w] = files[w]
  BY <1>1, <1>2 DEF Shapes, OneClient
<1>4. SentOK(w)' /\ FilesOK(w)'
  BY <1>1, <1>2 DEF SentOK, FilesOK
<1>5. RayOK(w)'
  BY <1>1, <1>3 DEF RayOK
<1> QED
  BY <1>3, <1>4, <1>5, RayClient

LEMMA RayInit ==
    ASSUME Init PROVE RayInv
<1>1. HeadOK
  BY DEF Init, HeadOK, Live, NoHead, HeadFiles
<1>2. Shapes
  BY DEF Init, Shapes, NoFiles
<1>3. ASSUME NEW w \in Workers PROVE SentOK(w) /\ FilesOK(w) /\ RayOK(w)
  BY DEF Init, SentOK, FilesOK, RayOK, NoFiles
<1> QED
  BY <1>1, <1>2, <1>3 DEF RayInv

LEMMA RayNext ==
    ASSUME PinnedInv, RayInv, [Next]_vars PROVE RayInv'
<1>1. CASE ServerStep \/ ServerCrash
  BY <1>1, RayFileSteps, RayAccept DEF ServerStep
<1>2. CASE ScriptStep \/ EndCampaign
  BY <1>2, RayStartServer, RayScript DEF ScriptStep
<1>3. ASSUME NEW w \in Workers, Handler(w) \/ ClientStep(w) \/ FallSilent(w) \/ KillClient(w)
      PROVE  RayInv'
  BY <1>3, RayHandler, RaySession, RayReadCerts, RayCreateWorkerFile, RayFillWorkerFile,
     RayStartInv DEF ClientStep
<1>4. CASE Finished \/ UNCHANGED vars
  <2>1. UNCHANGED <<disk, script, starts, head, network, client>>
    BY <1>4 DEF Finished, vars, server, host
  <2> QED BY <2>1, RayServer
<1> QED
  BY <1>1, <1>2, <1>3, <1>4 DEF Next

\* Ray on a worker whose client is done, and on any worker with a CA
\* certificate, has a certificate for its own key, signed by the CA that it
\* and the head trust: a certificate of an earlier try, start or campaign is
\* never mixed with newer files, whatever fails, dies or is started again.
THEOREM RayTlsFits == Spec => []RayTlsAgrees
<1>1. Init => PinnedInv /\ RayInv
  BY RayInit, IdentityInit
<1>2. (PinnedInv /\ RayInv) /\ [Next]_vars => (PinnedInv /\ RayInv)'
  BY RayNext, IdentityNext
<1>3. ASSUME RayInv PROVE RayTlsAgrees
  <2>1. SUFFICES ASSUME NEW w \in Workers, ray[w] # NoFiles,
                        cpc[w] = "done" \/ ray[w].ca # EmptyFile
                 PROVE  /\ ray[w].crt[1] = ray[w].key[1] /\ ray[w].key # EmptyFile
                        /\ \A f \in DOMAIN head : head[f] = ray[w].crt[2]
                        /\ ray[w].ca = <<0, ray[w].crt[2]>>
    BY DEF RayTlsAgrees
  <2>2. SentOK(w) /\ FilesOK(w) /\ RayOK(w) /\ HeadOK /\ try[w] # 0
    BY <1>3 DEF RayInv, Shapes
  <2>3. ray[w] = files[w] /\ cpc[w] = "done"
    BY <2>1, <2>2 DEF FilesOK, RayOK
  <2>4. /\ ray[w]["crt"] = <<try[w], starts>> /\ ray[w]["key"] = <<try[w], 0>>
        /\ ray[w]["ca"] = <<0, starts>>
    BY <2>2, <2>3 DEF FilesOK
  <2>5. \A f \in DOMAIN head : head[f] = starts
    BY <2>2, <2>3 DEF SentOK, HeadOK
  <2> QED BY <2>2, <2>4, <2>5 DEF EmptyFile
<1> QED
  BY <1>1, <1>2, <1>3, PTL DEF Spec
=============================================================================
