--------------------------- MODULE ReadBackProofs ---------------------------
(***************************************************************************)
(* What was uploaded is what is downloaded.  A download that connects when *)
(* every upload has finished delivers the file, if one session only has    *)
(* written its recipe; and if the pool serves one connection at a time, so *)
(* does every download, each file is admitted once and each chunk stored   *)
(* once.                                                                   *)
(*                                                                         *)
(* RecipeProofs shows that nothing wrong is delivered; here nothing is     *)
(* missing.  The recipe is complete before the download begins, and what   *)
(* is read, sent and received of it ends where the recipe ends (WholeInv); *)
(* no chunk was read before its container was on disk (PureInv).           *)
(***************************************************************************)
EXTENDS RecipeProofs

----------------------------------------------------------------------------
(* Uploads that have finished, and rows of the table.                      *)

(* The command line of a session decides what it does.                     *)
OpAt(s) ==
  /\ cpc[s] \in {"upload_rep", "body_rep"} => job[s].op = "u"
  /\ spc[s] \in {"unique", "add_file"} \/ Uploading(s) => job[s].op = "u"
  /\ cpc[s] = "quit_rep" /\ spc[s] = "accepted" => job[s].op = "x"

(* What a session has found when it connected was finished; a file that    *)
(* has been admitted is in the table.                                      *)
PastAt(s) ==
  after[s] \subseteq finished /\ (Admitted(s) => key[s] \in FILES /\ job[s].op = "u")

PastInv == \A s \in Sessions : OpAt(s) /\ PastAt(s)

(* Steps of the handler, by the part of the code they belong to.           *)
LEMMA UploadMoves ==
  ASSUME TypeOK, NEW s \in Sessions, UploadStep(s)
  PROVE  /\ spc[s] \in {"unique", "add_file"} \/ Uploading(s)
         /\ spc'[s] \notin {"accepted", "unique", "exist", "open", "recipe", "chunk", "closed"}
<1> USE LockTypes DEF Uploading, Goto
<1>1. CASE AdmitStep(s)
  BY <1>1 DEF AdmitStep, CheckUnique, AddFile
<1>2. CASE ReceiveStep(s)
  BY <1>2 DEF ReceiveStep, RecvBody, RecvFileEnd
<1>3. CASE StoreStep(s)
  BY <1>3 DEF StoreStep, FlushContainer, StoreChunk, TakeDuplicate, FlushRecipe, WriteEntry,
              AtChunk, HasChunk
<1>4. CASE QueryStep(s)
  BY <1>4 DEF QueryStep, BeginQuery, QueryChunk, SendReply
<1>5. CASE FinishStep(s)
  BY <1>5 DEF FinishStep, InsertLastContainer, InsertLastRecipe, Join
<1> QED
  BY <1>1, <1>2, <1>3, <1>4, <1>5 DEF UploadStep

LEMMA DownloadMoves ==
  ASSUME TypeOK, NEW s \in Sessions, DownloadStep(s)
  PROVE  /\ spc[s] \in {"exist", "open", "recipe", "chunk"}
         /\ spc'[s] \in {"open", "order", "recipe", "chunk"}
  BY LockTypes DEF DownloadStep, CheckExist, OpenForRead, ReadRecipe, ReadChunk,
                   SendDownBody, SendFileEnd, Goto

LEMMA RunMoves ==
  ASSUME TypeOK, NEW s \in Sessions, RunStep(s)
  PROVE  /\ spc[s] \in {"accepted", "order"}
         /\ spc'[s] \in {"order", "unique", "exist", "closed"}
         /\ spc'[s] = "unique" => spc[s] = "order" /\ Arrived(toServer, s, "UPLOAD")
  BY LockTypes DEF RunStep, Serve, RecvOrder, RecvQuit, Goto

LEMMA OpKnown ==
  ASSUME TypeOK, NEW s \in Sessions
  PROVE  job[s].op \in {"u", "d", "x"}
  BY LockTypes, JobsAssumption DEF JobsAssumption, Job

LEMMA ClientOp ==
  ASSUME TypeOK, NEW s \in Sessions, ClientSide(s), LockAt(s), OpAt(s)
  PROVE  OpAt(s)'
<1>0. UNCHANGED <<job, spc>>
  BY DEF ClientSide, connVars
<1>1. CASE Connect(s)
  <2>1. spc[s] = "accepted" /\ cpc'[s] = CASE job[s].op = "u" -> "upload_rep"
                                           [] job[s].op = "d" -> "download_rep"
                                           [] job[s].op = "x" -> "quit_rep"
    BY <1>1, ClientPhase, LockTypes DEF Connect, Starting
  <2> QED
    BY <1>0, <2>1, OpKnown DEF OpAt, Uploading
<1>2. ASSUME ClientStep(s) PROVE cpc'[s] \in {"upload_rep", "body_rep"} => job[s].op = "u"
  BY <1>2, LockTypes DEF ClientStep, UploadDuplicate, UploadUnique, UploadBatch, DownloadRefused,
       DownloadGranted, DownloadBody, DownloadEnd, Close, SendQuit, SendBody, OpAt
<1>3. ASSUME ClientStep(s), spc[s] = "accepted" PROVE FALSE
  <2>1. Starting(s)
    BY <1>3, ServerPhase
  <2>2. toClient[s] = << >>
    BY <1>3, <2>1 DEF Starting, Silent, Told
  <2> QED
    BY <1>3, <2>2 DEF ClientStep, UploadDuplicate, UploadUnique, UploadBatch, DownloadRefused,
       DownloadGranted, DownloadBody, DownloadEnd, Close, Arrived
<1> QED
  BY <1>0, <1>1, <1>2, <1>3 DEF ClientSide, OpAt, Uploading

LEMMA HandlerOp ==
  ASSUME TypeOK, NEW s \in Sessions, HandlerStep(s), UNCHANGED <<job, cpc>>, LockAt(s), OpAt(s)
  PROVE  OpAt(s)'
<1>1. CASE RunStep(s)
  <2>1. ASSUME spc'[s] = "unique" PROVE job[s].op = "u"
    <3>1. Starting(s) /\ spc[s] = "order" /\ Arrived(toServer, s, "UPLOAD")
      BY <1>1, <2>1, RunMoves, ServerPhase
    <3> QED
      BY <3>1, ToldFirst, MsgTypes DEF Starting, OpAt, Arrived
  <2> QED
    BY <1>1, <2>1, RunMoves DEF OpAt, Uploading
<1>2. CASE UploadStep(s)
  BY <1>2, UploadMoves DEF OpAt
<1>3. CASE DownloadStep(s)
  BY <1>3, DownloadMoves DEF OpAt, Uploading
<1> QED
  BY <1>1, <1>2, <1>3 DEF HandlerStep

LEMMA OpKept ==
  ASSUME NEW s, OpAt(s), TalkView(s)' = TalkView(s)
  PROVE  OpAt(s)'
<1>1. job'[s] = job[s] /\ cpc'[s] = cpc[s] /\ spc'[s] = spc[s]
  BY DEF TalkView
<1> QED
  BY <1>1 DEF OpAt, Uploading

(* Rows are only added; a session that is admitted has added its own.      *)
LEMMA HandlerRows ==
  ASSUME TypeOK, NEW s \in Sessions, HandlerStep(s), cpc' = cpc, LockAt(s), WriterAt(s),
         Admitted(s) => key[s] \in FILES
  PROVE  /\ FILES \subseteq FILES' /\ finished \subseteq finished'
         /\ Admitted(s)' => key'[s] \in FILES' /\ (Admitted(s) \/ spc[s] = "add_file")
<1>1. finished \subseteq finished' /\ StaysAdmitted(s)
  <2>1. \A t \in Sessions \ {s} : t \in finished' <=> t \in finished
    BY HandlerAdmits
  <2>2. StaysAdmitted(s)
    BY HandlerAdmits
  <2>3. s \in finished => s \in finished'
    <3>1. CASE RunStep(s) \/ DownloadStep(s)
      BY <3>1 DEF RunStep, DownloadStep, uploadVars
    <3>2. CASE UploadStep(s)
      BY <3>2 DEF UploadStep, AdmitStep, ReceiveStep, StoreStep, QueryStep, FinishStep,
                  InsertLastContainer, InsertLastRecipe, Join
    <3> QED
      BY <3>1, <3>2 DEF HandlerStep
  <2>4. finished \subseteq Sessions
    BY ViewTypes
  <2> QED
    BY <2>1, <2>2, <2>3, <2>4
<1>2. CASE AddFile(s)
  <2>1. spc[s] = "add_file" /\ FILES' = FILES \cup {key[s]}
    BY <1>2 DEF AddFile, addFile
  <2>2. UploadStep(s)
    BY <2>1, RunMoves, DownloadMoves DEF HandlerStep
  <2>3. key' = key
    BY <2>2 DEF UploadStep
  <2> QED
    BY <1>1, <2>1, <2>3
<1>3. CASE ~ AddFile(s)
  <2>1. FILES' = FILES
    BY <1>3 DEF HandlerStep, RunStep, DownloadStep, UploadStep, AdmitStep, CheckUnique, ReceiveStep,
                StoreStep, QueryStep, FinishStep, serverVars
  <2>2. recipeWriter' = recipeWriter \/ recipeWriter'[s] = "none"
    BY <1>3, ViewTypes
       DEF HandlerStep, RunStep, DownloadStep, UploadStep, AdmitStep, CheckUnique,
           ReceiveStep, StoreStep, QueryStep, FinishStep, InsertLastContainer,
           InsertLastRecipe, Join, uploadVars, threadVars
  <2>3. Admitted(s)' => Admitted(s)
    BY <1>1, <2>2 DEF StaysAdmitted, WriterAt, Admitted
  <2> QED
    BY <1>1, <2>1, <2>3 DEF StaysAdmitted
<1> QED
  BY <1>2, <1>3

LEMMA NextPast ==
  ASSUME TypeInv, LockInv, PendInv, PastInv, [Next]_vars
  PROVE  PastInv'
<1>0. /\ TypeOK
      /\ \A s \in Sessions : LockAt(s) /\ WriterAt(s) /\ OpAt(s) /\ PastAt(s)
  BY DEF TypeInv, LockInv, PendInv, PendOk, PastInv
<1>1. ASSUME NEW s \in Sessions, after'[s] = after[s], finished \subseteq finished',
             FILES \subseteq FILES', key'[s] = key[s], job'[s] = job[s],
             Admitted(s)' => Admitted(s)
      PROVE  PastAt(s)'
  BY <1>0, <1>1 DEF PastAt
<1>2. ASSUME NEW s \in Sessions, ClientSide(s) PROVE PastInv'
  <2>1. UNCHANGED <<job, spc, key, finished, FILES>>
    BY <1>2 DEF ClientSide, connVars, uploadVars, serverVars
  <2>2. \A t \in Sessions : Admitted(t)' => Admitted(t)
    BY <2>1 DEF Admitted, Uploading
  <2>3. ASSUME NEW t \in Sessions PROVE after'[t] \subseteq finished
    <3>1. after \in [Sessions -> SUBSET Sessions] /\ after[t] \subseteq finished
      BY <1>0 DEF PastAt, TypeOK
    <3> QED
      BY <1>2, <3>1 DEF ClientSide
  <2>4. \A t \in Sessions : PastAt(t)'
    BY <1>0, <2>1, <2>2, <2>3 DEF PastAt
  <2>5. \A t \in Sessions : OpAt(t)'
    BY <1>0, <1>2, ClientOp, ClientOthers, OpKept
  <2> QED
    BY <2>4, <2>5 DEF PastInv
<1>3. ASSUME NEW s \in Sessions, HandlerStep(s), UNCHANGED <<job, clientVars, after>>
      PROVE  PastInv'
  <2>0. UNCHANGED <<job, cpc>>
    BY <1>3 DEF clientVars
  <2>1. /\ FILES \subseteq FILES' /\ finished \subseteq finished'
        /\ Admitted(s)' => key'[s] \in FILES' /\ (Admitted(s) \/ spc[s] = "add_file")
    BY <1>0, <1>3, <2>0, HandlerRows DEF PastAt
  <2>2. PastAt(s)' /\ OpAt(s)'
    BY <1>0, <1>3, <2>0, <2>1, HandlerOp DEF PastAt, OpAt
  <2>3. ASSUME NEW t \in Sessions \ {s} PROVE PastAt(t)' /\ OpAt(t)'
    <3>1. TalkView(t)' = TalkView(t)
      BY <1>0, <1>3, HandlerOthers
    <3>2. spc'[t] = spc[t] /\ key'[t] = key[t]
      BY <3>1 DEF TalkView
    <3>3. t \in finished' <=> t \in finished
      BY <1>0, <1>3, <2>0, HandlerAdmits
    <3>4. PastAt(t)'
      BY <1>1, <1>3, <2>1, <3>2, <3>3 DEF Admitted, Uploading
    <3> QED
      BY <1>0, <3>1, <3>4, OpKept
  <2> QED
    BY <2>2, <2>3 DEF PastInv
<1>4. ASSUME UNCHANGED <<job, spc, key, finished, FILES, after>>,
             \A t \in Sessions : TalkView(t)' = TalkView(t)
      PROVE  PastInv'
  BY <1>0, <1>4, OpKept DEF PastInv, PastAt, Admitted, Uploading
<1>5. ASSUME NEW s \in Sessions, DataWriterStep(s) \/ RecipeWriterStep(s),
             UNCHANGED <<job, clientVars, after>>
      PROVE  PastInv'
  BY <1>0, <1>4, <1>5, WriterOthers DEF DataWriterStep, RecipeWriterStep, serverVars
<1>6. ASSUME UNCHANGED vars PROVE PastInv'
  <2>1. \A t \in Sessions : TalkView(t)' = TalkView(t)
    BY <1>6 DEF vars, wire, clientVars, connVars, uploadVars, TalkView
  <2> QED
    BY <1>4, <1>6, <2>1 DEF vars, connVars, uploadVars, serverVars
<1> QED
  BY <1>2, <1>3, <1>5, <1>6, StepOfOne

LEMMA InitPast == Init => PastInv
<1> SUFFICES ASSUME Init, NEW s \in Sessions PROVE OpAt(s) /\ PastAt(s)
  BY DEF PastInv
<1>1. /\ spc[s] = "accepted" /\ cpc[s] = "start" /\ finished = {} /\ after[s] = {}
  BY DEF Init, ClientInit, ConnInit
<1> QED
  BY <1>1 DEF OpAt, PastAt, Admitted, Uploading

----------------------------------------------------------------------------
(* How far a download has come: the client.                                *)

(* The last body on its way, or what has been received, ends with the n-th *)
(* chunk.                                                                  *)
EndsAt(d, n) ==
  \/ NoBody(d) /\ Len(got[d]) = n
  \/ \E k \in DOMAIN toClient[d] :
       /\ toClient[d][k].type = "DOWNLOADBODY"
       /\ Ahead(d, k) + Len(toClient[d][k].data) = n
       /\ \A j \in DOMAIN toClient[d] : j > k => toClient[d][j].type # "DOWNLOADBODY"

(* A download of a file of n chunks is granted and does not end early.     *)
WholeAt(d, n) ==
  /\ spc[d] \in {"recipe", "chunk"} => /\ reader[d].pos <= n
                                       /\ reader[d].eof => reader[d].pos = n
  /\ spc[d] = "recipe" => EndsAt(d, reader[d].pos)
  /\ \A k \in DOMAIN toClient[d] :
       LET m == toClient[d][k]
       IN /\ m.type = "FILEEND" => EndsAt(d, n)
          /\ m.type = "DOWNLOADREP" => m.status # "NOTEXIST"
  /\ cpc[d] \in {"quit_rep", "closed"} => Len(got[d]) = n

LEMMA EndsSame ==
  ASSUME NEW d, NEW n, EndsAt(d, n), toClient'[d] = toClient[d], got'[d] = got[d],
         cpc'[d] = cpc[d]
  PROVE  EndsAt(d, n)'
  BY DEF EndsAt, NoBody, Ahead, Before

(* An index of a sequence that is not the first has one before it.         *)
LEMMA LaterIndex ==
  \A m \in Nat : \A k \in 1 .. m : k # 1 =>
    /\ k \in Nat /\ k > 1 /\ k - 1 \in Nat \ {0} /\ (k - 1) + 1 = k
    /\ k - 1 \in 1 .. m - 1
  OBVIOUS

(* The client takes the first message.                                     *)
LEMMA EndsShift ==
  ASSUME TypeOK, NEW d \in Sessions, NEW n, EndsAt(d, n), toClient[d] # << >>,
         toClient'[d] = Tail(toClient[d]),
         \/ \A k \in Nat \ {0} : Ahead(d, k)' = Ahead(d, k + 1)
         \/ \A j \in DOMAIN toClient[d] : j > 1 => toClient[d][j].type # "DOWNLOADBODY",
         Len(got'[d]) = IF toClient[d][1].type = "DOWNLOADBODY"
                        THEN Ahead(d, 1) + Len(toClient[d][1].data) ELSE Len(got[d])
  PROVE  EndsAt(d, n)'
<1>1. PICK q, p : q = toClient[d] /\ p = toClient'[d]
  OBVIOUS
<1>2. /\ q \in Seq(ClientMsg) /\ q # << >> /\ p = Tail(q)
  BY <1>1, ReadTypes
<1>0. /\ Len(q) \in Nat \ {0} /\ DOMAIN q = 1 .. Len(q) /\ DOMAIN p = 1 .. Len(q) - 1
  BY <1>2
<1>3. /\ \A k \in DOMAIN p : k + 1 \in DOMAIN q /\ p[k] = q[k + 1]
      /\ 1 \in DOMAIN q
  BY <1>0, <1>2
<1>4. CASE NoBody(d) /\ Len(got[d]) = n
  <2>1. NoBody(d)'
    BY <1>4, TailNoBody
  <2>2. q[1].type # "DOWNLOADBODY"
    BY <1>1, <1>3, <1>4 DEF NoBody
  <2> QED
    BY <1>1, <1>4, <2>1, <2>2 DEF EndsAt
<1>5. ASSUME NEW k \in DOMAIN q, q[k].type = "DOWNLOADBODY", Ahead(d, k) + Len(q[k].data) = n,
             \A j \in DOMAIN q : j > k => q[j].type # "DOWNLOADBODY"
      PROVE  EndsAt(d, n)'
  <2>1. CASE k = 1
    <3>1. \A j \in DOMAIN p : j + 1 > 1
      BY <1>0
    <3>2. \A j \in DOMAIN p : p[j].type # "DOWNLOADBODY"
      BY <1>3, <1>5, <2>1, <3>1
    <3>3. NoBody(d)' /\ Len(got'[d]) = n
      BY <1>1, <1>5, <2>1, <3>2 DEF NoBody
    <3> QED
      BY <3>3 DEF EndsAt
  <2>2. CASE k # 1
    <3>9. Len(q) \in Nat
      BY <1>0
    <3>0. k \in Nat /\ k > 1 /\ k - 1 \in Nat \ {0} /\ (k - 1) + 1 = k
      <4>1. k \in 1 .. Len(q)
        BY <1>0
      <4> QED
        BY <3>9, <2>2, <4>1, LaterIndex, Zenon
    <3>1. /\ k - 1 \in DOMAIN p
          /\ \A j \in DOMAIN p : j > k - 1 => j + 1 > k
      <4>1. k \in 1 .. Len(q)
        BY <1>0
      <4>2. k - 1 \in 1 .. Len(q) - 1
        BY <3>9, <2>2, <4>1, LaterIndex, Zenon
      <4>3. \A j \in 1 .. Len(q) - 1 : j > k - 1 => j + 1 > k
        BY <1>0, <3>0
      <4> QED
        BY <1>0, <4>2, <4>3
    <3>2. p[k - 1] = q[k]
      BY <1>3, <3>0, <3>1
    <3>3. \A j \in Nat \ {0} : Ahead(d, j)' = Ahead(d, j + 1)
      <4>1. /\ k \in DOMAIN toClient[d] /\ k > 1 /\ toClient[d][k].type = "DOWNLOADBODY"
        BY <1>1, <1>5, <3>0
      <4> QED
        BY <4>1
    <3>4. Ahead(d, k - 1)' = Ahead(d, k)
      BY <3>0, <3>3
    <3>5. \A j \in DOMAIN p : j > k - 1 => p[j].type # "DOWNLOADBODY"
      BY <1>3, <1>5, <3>1
    <3> QED
      BY <1>1, <1>5, <3>1, <3>2, <3>4, <3>5 DEF EndsAt
  <2> QED
    BY <2>1, <2>2
<1> QED
  BY <1>1, <1>4, <1>5 DEF EndsAt

(* How much further the other messages are when the first one is taken.    *)
LEMMA GrantShift ==
  ASSUME TypeOK, NEW d \in Sessions, DownloadGranted(d)
  PROVE  \A k \in Nat \ {0} : Ahead(d, k)' = Ahead(d, k + 1)
<1>1. Before(d) = 1 /\ Before(d)' = 0 /\ got' = got
  BY LockTypes DEF DownloadGranted, Before
<1>2. ASSUME NEW k \in Nat \ {0} PROVE Ahead(d, k)' = Ahead(d, k + 1)
  <2>1. k - 0 = (k + 1) - 1
    OBVIOUS
  <2> QED
    BY <1>1, <2>1 DEF Ahead, Offset
<1> QED
  BY <1>2

LEMMA BodyShift ==
  ASSUME TypeOK, NEW d \in Sessions, DownloadBody(d), Len(Head(toClient[d]).data) = BatchSize
  PROVE  \A k \in Nat \ {0} : Ahead(d, k)' = Ahead(d, k + 1)
<1> SUFFICES ASSUME NEW k \in Nat \ {0} PROVE Ahead(d, k)' = Ahead(d, k + 1)
  OBVIOUS
<1>1. PICK b : b = Head(toClient[d]).data
  OBVIOUS
<1>2. /\ got'[d] = got[d] \o b /\ cpc[d] = "download" /\ cpc'[d] = "download"
      /\ got[d] \in Seq(Bytes) /\ b \in Seq(Bytes)
  <2>1. /\ toClient[d] # << >> /\ Head(toClient[d]).type = "DOWNLOADBODY"
        /\ toClient[d] \in Seq(ClientMsg)
    BY LockTypes DEF DownloadBody, Arrived
  <2>2. Head(toClient[d]) \in ClientMsg
    BY <2>1
  <2> QED
    BY <1>1, <2>1, <2>2, LockTypes, ViewTypes, ClientMsgFields DEF DownloadBody
<1>3. Before(d) = 0 /\ Before(d)' = 0
  BY <1>2 DEF Before
<1>4. PICK j \in Nat : k = j + 1
  <2>1. k - 1 \in Nat /\ k = (k - 1) + 1
    OBVIOUS
  <2> QED
    BY <2>1
<1>5. Len(got'[d]) = Len(got[d]) + BatchSize /\ Len(got[d]) \in Nat
  <2>1. \A x, y \in Seq(Bytes) : Len(x \o y) = Len(x) + Len(y) /\ Len(x) \in Nat
    OBVIOUS
  <2>2. Len(b) = BatchSize
    BY <1>1
  <2>3. got[d] \in Seq(Bytes) /\ b \in Seq(Bytes) /\ got'[d] = got[d] \o b
    BY <1>2
  <2> QED
    BY <2>1, <2>2, <2>3
<1>6. k - 0 = j + 1 /\ (k + 1) - 0 = j + 2
  BY <1>4
<1>7. Ahead(d, k)' = Offset(Len(got[d]) + BatchSize, j + 1)
  BY <1>3, <1>5, <1>6 DEF Ahead, Offset
<1>8. Ahead(d, k + 1) = Offset(Len(got[d]), j + 2)
  BY <1>3, <1>6 DEF Ahead
<1> QED
  BY <1>4, <1>5, <1>7, <1>8, OffsetNext

LEMMA ClientWhole ==
  ASSUME TypeOK, NEW d \in Sessions, NEW n, ClientSide(d), LockAt(d), OpAt(d), job[d].op = "d",
         NEW f, ReadAt({}, d, f), Connect(d) \/ WholeAt(d, n)
  PROVE  WholeAt(d, n)'
<1>0. UNCHANGED <<job, spc, reader>>
  BY DEF ClientSide, connVars
<1>1. CASE Connect(d)
  <2>1. spc[d] = "accepted" /\ toClient[d] = << >> /\ toClient' = toClient
        /\ cpc'[d] = "download_rep"
    BY <1>1, ClientPhase, LockTypes DEF Connect, Starting, Silent
  <2> QED
    BY <1>0, <2>1 DEF WholeAt
<1>2. ASSUME ~ Connect(d), toClient[d] # << >>, toClient'[d] = Tail(toClient[d]),
             \A m : EndsAt(d, m) => EndsAt(d, m)',
             cpc'[d] \in {"quit_rep", "closed"} => Len(got'[d]) = n
      PROVE  WholeAt(d, n)'
  <2>1. PICK q, p : q = toClient[d] /\ p = toClient'[d]
    OBVIOUS
  <2>2. \A k \in DOMAIN p : k + 1 \in DOMAIN q /\ p[k] = q[k + 1]
    BY <1>2, <2>1, ReadTypes, StreamTail
  <2>3. WholeAt(d, n)
    BY <1>2
  <2> QED
    BY <1>0, <1>2, <2>1, <2>2, <2>3 DEF WholeAt
<1>3. ASSUME ClientStep(d), ~ UploadDuplicate(d), ~ UploadUnique(d), ~ UploadBatch(d)
      PROVE  /\ ~ Connect(d) /\ toClient[d] # << >> /\ toClient'[d] = Tail(toClient[d])
             /\ 1 \in DOMAIN toClient[d] /\ Head(toClient[d]) = toClient[d][1]
  <2>1. /\ ~ Connect(d) /\ toClient[d] # << >> /\ toClient'[d] = Tail(toClient[d])
    BY <1>3, LockTypes DEF ClientStep, DownloadRefused, DownloadGranted, DownloadBody, DownloadEnd,
                           Close, SendQuit, Arrived, receive_data, Connect
  <2> QED
    BY <2>1, LockTypes, StreamTail
<1>4. ~ UploadDuplicate(d) /\ ~ UploadUnique(d) /\ ~ UploadBatch(d)
  BY DEF UploadDuplicate, UploadUnique, UploadBatch, OpAt
<1>5. CASE DownloadRefused(d)
  BY <1>3, <1>4, <1>5 DEF DownloadRefused, ClientStep, Arrived, WholeAt
<1>6. CASE DownloadGranted(d)
  <2>1. got' = got /\ cpc'[d] = "download" /\ toClient[d][1].type = "DOWNLOADREP"
    BY <1>3, <1>4, <1>6, LockTypes DEF DownloadGranted, ClientStep, Arrived
  <2>2. \A m : EndsAt(d, m) => EndsAt(d, m)'
    BY <1>3, <1>4, <1>6, <2>1, GrantShift, EndsShift DEF ClientStep
  <2> QED
    BY <1>2, <1>3, <1>4, <1>6, <2>1, <2>2 DEF ClientStep
<1>7. CASE DownloadBody(d)
  <2>1. PICK b : b = Head(toClient[d]).data
    OBVIOUS
  <2>2. /\ toClient[d][1].type = "DOWNLOADBODY" /\ cpc'[d] = "download" /\ cpc[d] = "download"
        /\ got'[d] = got[d] \o b /\ b \in Seq(Bytes) /\ got[d] \in Seq(Bytes)
        /\ b = toClient[d][1].data
    <3>1. toClient[d][1].type = "DOWNLOADBODY" /\ b = toClient[d][1].data
      BY <1>3, <1>4, <1>7, <2>1 DEF DownloadBody, Arrived, ClientStep
    <3>2. b \in Seq(Bytes)
      BY <1>3, <1>4, <1>7, <3>1, ReadTypes DEF ClientStep
    <3> QED
      BY <1>7, <2>1, <3>1, <3>2, LockTypes, ViewTypes DEF DownloadBody
  <2>3. Len(got'[d]) = Ahead(d, 1) + Len(b)
    <3>1. Ahead(d, 1) = Len(got[d])
      BY <2>2, AheadNext DEF Before
    <3>2. \A x, y \in Seq(Bytes) : Len(x \o y) = Len(x) + Len(y)
      OBVIOUS
    <3> QED
      BY <2>2, <3>1, <3>2
  <2>4. BodyAt(d, 1, f)
    BY <1>3, <1>4, <1>7, <2>2 DEF ReadAt, ClientStep
  <2>5. \/ \A k \in Nat \ {0} : Ahead(d, k)' = Ahead(d, k + 1)
        \/ \A j \in DOMAIN toClient[d] : j > 1 => toClient[d][j].type # "DOWNLOADBODY"
    BY <1>7, <2>1, <2>2, <2>4, BodyShift DEF BodyAt
  <2>6. \A m : EndsAt(d, m) => EndsAt(d, m)'
    <3> SUFFICES ASSUME NEW m, EndsAt(d, m) PROVE EndsAt(d, m)'
      OBVIOUS
    <3> QED
      BY <1>3, <1>4, <1>7, <2>2, <2>3, <2>5, EndsShift DEF ClientStep
  <2> QED
    BY <1>2, <1>3, <1>4, <1>7, <2>2, <2>6 DEF ClientStep
<1>8. CASE DownloadEnd(d)
  <2>1. got' = got /\ toClient[d][1].type = "FILEEND" /\ cpc[d] = "download"
    BY <1>3, <1>4, <1>8 DEF DownloadEnd, SendQuit, ClientStep, Arrived
  <2>2. Len(toClient[d]) = 1
    BY <1>3, <1>4, <1>8, <2>1, ClientPhase DEF Downloading, Streaming, StreamMsg, ClientStep
  <2>3. NoBody(d)
    <3>1. toClient[d] \in Seq(ClientMsg)
      BY LockTypes
    <3>2. DOMAIN toClient[d] = 1 .. 1
      BY <2>2, <3>1
    <3> QED
      BY <2>1, <3>2 DEF NoBody
  <2>4. EndsAt(d, n) /\ ~ Connect(d)
    BY <1>3, <1>4, <1>8, <2>1 DEF WholeAt, ClientStep
  <2>5. Len(got'[d]) = n
    BY <2>1, <2>3, <2>4 DEF EndsAt, NoBody
  <2>6. \A m : EndsAt(d, m) => EndsAt(d, m)'
    BY <1>3, <1>4, <1>8, <2>1, <2>3, EndsShift DEF NoBody, ClientStep
  <2> QED
    BY <1>2, <1>3, <1>4, <1>8, <2>5, <2>6 DEF ClientStep
<1>9. CASE Close(d)
  <2>1. got' = got /\ cpc[d] = "quit_rep" /\ ~ Connect(d)
    BY <1>9 DEF Close, Connect
  <2>2. NoBody(d)
    BY <2>1, PhaseNoBody DEF Streaming
  <2>3. \A m : EndsAt(d, m) => EndsAt(d, m)'
    BY <1>3, <1>4, <1>9, <2>1, <2>2, EndsShift DEF NoBody, ClientStep
  <2>4. Len(got'[d]) = n
    BY <2>1 DEF WholeAt
  <2> QED
    BY <1>2, <1>3, <1>4, <1>9, <2>3, <2>4 DEF ClientStep
<1> QED
  BY <1>1, <1>4, <1>5, <1>6, <1>7, <1>8, <1>9 DEF ClientSide, ClientStep

----------------------------------------------------------------------------
(* How far a download has come: the handler.                               *)

LEMMA WholeKept ==
  ASSUME NEW d, NEW n, WholeAt(d, n), TalkView(d)' = TalkView(d)
  PROVE  WholeAt(d, n)'
<1>1. /\ toClient'[d] = toClient[d] /\ cpc'[d] = cpc[d] /\ got'[d] = got[d]
      /\ spc'[d] = spc[d] /\ reader'[d] = reader[d]
  BY DEF TalkView
<1>2. \A m : EndsAt(d, m) => EndsAt(d, m)'
  BY <1>1, EndsSame
<1> QED
  BY <1>1, <1>2 DEF WholeAt

(* The handler sends a message that is no body.                            *)
LEMMA EndsReply ==
  ASSUME TypeOK, NEW d \in Sessions, NEW n, EndsAt(d, n), NEW m, m.type # "DOWNLOADBODY",
         Reply(d, m), UNCHANGED <<cpc, got>>
  PROVE  EndsAt(d, n)'
<1>1. PICK q, p : q = toClient[d] /\ p = toClient'[d]
  OBVIOUS
<1>2. p = q \o <<m>> /\ q \in Seq(ClientMsg)
  BY <1>1, LockTypes DEF Reply, send_data
<1>3. /\ DOMAIN p = 1 .. Len(q) + 1 /\ DOMAIN q = 1 .. Len(q) /\ p[Len(q) + 1] = m
      /\ \A k \in 1 .. Len(q) : p[k] = q[k]
      /\ \A k \in 1 .. Len(q) + 1 : k \in 1 .. Len(q) \/ k = Len(q) + 1
      /\ \A k \in 1 .. Len(q) : k \in 1 .. Len(q) + 1
  BY <1>2
<1>4. CASE NoBody(d) /\ Len(got[d]) = n
  BY <1>4, ReplyNoBody DEF EndsAt
<1>5. ASSUME NEW k \in DOMAIN q, q[k].type = "DOWNLOADBODY", Ahead(d, k) + Len(q[k].data) = n,
             \A j \in DOMAIN q : j > k => q[j].type # "DOWNLOADBODY"
      PROVE  EndsAt(d, n)'
  <2>1. Ahead(d, k)' = Ahead(d, k) /\ p[k] = q[k] /\ k \in DOMAIN p
    BY <1>3, <1>5 DEF Ahead, Before
  <2>2. \A j \in DOMAIN p : j > k => p[j].type # "DOWNLOADBODY"
    BY <1>3, <1>5
  <2> QED
    BY <1>1, <1>5, <2>1, <2>2 DEF EndsAt
<1> QED
  BY <1>1, <1>4, <1>5 DEF EndsAt

(* What the handler reads of a recipe with n entries.                      *)
LEMMA BatchLength ==
  ASSUME TypeInv, NEW d \in Sessions, RecipeName(key[d]) \in DOMAIN recipes, ~ reader[d].eof,
         reader[d].pos <= Len(recipes[RecipeName(key[d])].entries)
  PROVE  LET n == Len(recipes[RecipeName(key[d])].entries)
             b == RecipeBatch(d)
         IN /\ n \in Nat /\ Len(b) \in Nat
            /\ reader[d].pos + Len(b) <= n
            /\ Len(b) < BatchSize => reader[d].pos + Len(b) = n
<1>1. PICK e, p, b : /\ e = recipes[RecipeName(key[d])].entries
                     /\ p = reader[d].pos /\ b = RecipeBatch(d)
  OBVIOUS
<1>2. e \in Seq(Addr \cup {NoAddr}) /\ p \in Nat /\ p <= Len(e)
  <2>1. recipes[RecipeName(key[d])] \in Recipe /\ TypeOK
    BY DEF TypeInv, TypeOK, ConnTypeOK
  <2> QED
    BY <1>1, <2>1, ReadTypes DEF Recipe, Entries
<1>3. PICK n \in Nat : n = IF p + BatchSize <= Len(e) THEN p + BatchSize ELSE Len(e)
  BY <1>2, BatchSizeAssumption DEF BatchSizeAssumption
<1>4. b = SubSeq(e, p + 1, n)
  BY <1>1, <1>3 DEF RecipeBatch
<1>5. Len(e) \in Nat /\ p <= n /\ n <= Len(e) /\ BatchSize \in Nat \ {0}
  BY <1>2, <1>3, BatchSizeAssumption DEF BatchSizeAssumption
<1>6. Len(b) = n - p
  BY <1>2, <1>4, <1>5
<1>7. /\ Len(b) \in Nat /\ p + Len(b) <= Len(e)
      /\ Len(b) < BatchSize => p + Len(b) = Len(e)
  BY <1>2, <1>3, <1>5, <1>6
<1> QED
  BY <1>1, <1>5, <1>7

LEMMA DownloadWhole ==
  ASSUME TypeInv, NEW d \in Sessions, DownloadStep(d), UNCHANGED <<cpc, got>>, LockAt(d),
         StartAt(d), NEW f, ReadAt({}, d, f), NEW n, WholeAt(d, n), key[d] \in FILES,
         RecipeName(key[d]) \in DOMAIN recipes,
         n = Len(recipes[RecipeName(key[d])].entries)
  PROVE  WholeAt(d, n)'
<1>0. TypeOK /\ n \in Nat
  <2>1. recipes[RecipeName(key[d])] \in Recipe
    BY DEF TypeInv, TypeOK, ConnTypeOK
  <2> QED
    BY <2>1 DEF TypeInv, Recipe, Entries
<1>1. spc[d] \in {"exist", "open", "recipe", "chunk"} /\ Downloading(d)
  BY <1>0, DownloadMoves, ServerPhase
<1>2. /\ cpc[d] \in {"download_rep", "download"} /\ cpc'[d] = cpc[d] /\ got'[d] = got[d]
      /\ spc[d] # "exist" => Streaming(d)
  BY <1>1 DEF Downloading, Streaming
<1>3. ASSUME toClient'[d] = toClient[d], spc[d] # "exist",
             spc'[d] \in {"recipe", "chunk"} => /\ reader'[d].pos <= n
                                                /\ reader'[d].eof => reader'[d].pos = n,
             spc'[d] = "recipe" => EndsAt(d, reader[d].pos)'
      PROVE  WholeAt(d, n)'
  <2>1. EndsAt(d, n) => EndsAt(d, n)'
    BY <1>2, <1>3, EndsSame
  <2> QED
    BY <1>2, <1>3, <2>1 DEF WholeAt
<1>4. CASE CheckExist(d)
  <2>1. Silent(d) /\ isFileExist(key[d])
    BY <1>1, <1>4 DEF CheckExist, Downloading, Streaming, isFileExist, isFileUnique
  <2>2. /\ spc'[d] = "open" /\ toClient'[d] = <<Rep("DOWNLOADREP", "EXIST")>>
    BY <1>0, <1>4, <2>1, LockTypes, ClientMsgs, ReplyToSilent DEF CheckExist, Goto, Silent
  <2>3. DOMAIN toClient'[d] = {1} /\ toClient'[d][1].type = "DOWNLOADREP"
        /\ toClient'[d][1].status = "EXIST"
    BY <2>2, MsgTypes
  <2> QED
    BY <1>2, <2>2, <2>3 DEF WholeAt
<1>5. CASE OpenForRead(d)
  <2>1. /\ spc[d] = "open" /\ spc'[d] = "recipe" /\ toClient' = toClient
        /\ reader'[d].pos = 0 /\ ~ reader'[d].eof
    <3>1. /\ spc[d] = "open" /\ spc'[d] = "recipe" /\ toClient' = toClient
          /\ reader'[d].pos = 0 /\ reader'[d].eof = (RecipeName(key[d]) \notin DOMAIN recipes)
      BY <1>0, <1>5, LockTypes, ViewTypes DEF OpenForRead, Goto, Reader
    <3> QED
      BY <3>1, Zenon
  <2>2. got[d] = << >> /\ Len(toClient[d]) = Before(d) /\ Before(d) \in Nat
    BY <2>1 DEF StartAt, Before
  <2>3. ASSUME NEW k \in DOMAIN toClient[d] PROVE toClient[d][k].type # "DOWNLOADBODY"
    <3>1. k = 1 /\ cpc[d] = "download_rep" /\ StreamMsg(d, k, toClient[d][k])
      BY <1>0, <1>2, <2>1, <2>2, ReadTypes DEF Streaming, Before
    <3> QED
      BY <3>1 DEF StreamMsg
  <2>4. NoBody(d)' /\ Len(got'[d]) = 0
    BY <1>2, <2>1, <2>2, <2>3 DEF NoBody
  <2> QED
    BY <1>0, <1>3, <2>1, <2>4 DEF EndsAt
<1>6. CASE ReadRecipe(d)
  <2>1. PICK b, p : b = RecipeBatch(d) /\ p = reader[d].pos
    OBVIOUS
  <2>2. /\ spc[d] = "recipe" /\ spc'[d] = "chunk" /\ b # << >> /\ UNCHANGED toClient
        /\ reader'[d] = [pos |-> p + Len(b), eof |-> Len(b) < BatchSize,
                         addrs |-> b, out |-> << >>, old |-> Buffer(reader[d]),
                         missed |-> reader[d].missed]
    BY <1>0, <1>6, <2>1, LockTypes, ViewTypes DEF ReadRecipe, Goto
  <2>3. ~ reader[d].eof /\ reader[d].pos <= n
    BY <2>1, <2>2 DEF RecipeBatch, WholeAt
  <2>4. p + Len(b) <= n /\ (Len(b) < BatchSize => p + Len(b) = n)
    BY <2>1, <2>3, BatchLength
  <2>5. reader'[d].pos = p + Len(b) /\ (reader'[d].eof => Len(b) < BatchSize)
    <3>1. reader'[d].pos = p + Len(b) /\ reader'[d].eof = (Len(b) < BatchSize)
      BY <2>2
    <3> QED
      BY <3>1
  <2> QED
    BY <1>3, <2>2, <2>4, <2>5
<1>7. CASE ReadChunk(d)
  <2>1. /\ spc[d] = "chunk" /\ UNCHANGED <<spc, toClient>>
        /\ reader'[d].pos = reader[d].pos /\ reader'[d].eof = reader[d].eof
    BY <1>0, <1>7, ViewTypes DEF ReadChunk, Reader
  <2> QED
    BY <1>3, <2>1 DEF WholeAt
<1>8. CASE SendDownBody(d)
  <2>1. /\ spc[d] = "chunk" /\ spc'[d] = "recipe" /\ reader[d].addrs = << >>
        /\ Reply(d, DownBody(reader[d].out)) /\ UNCHANGED reader
    BY <1>0, <1>8, LockTypes DEF SendDownBody, Goto
  <2>2. PICK q, p, o : q = toClient[d] /\ p = toClient'[d] /\ o = reader[d].out
    OBVIOUS
  <2>3. /\ q \in Seq(ClientMsg) /\ o \in Seq(Bytes) /\ p = q \o <<DownBody(o)>>
        /\ reader[d].pos \in Nat
    BY <1>0, <2>1, <2>2, ReadTypes, LockTypes DEF Reply, send_data
  <2>4. /\ DOMAIN p = 1 .. Len(q) + 1 /\ Len(q) \in Nat /\ p[Len(q) + 1] = DownBody(o)
        /\ \A k \in 1 .. Len(q) : p[k] = q[k]
        /\ DOMAIN q = 1 .. Len(q)
    BY <2>3
  <2>5. Ahead(d, Len(q) + 1)' + Len(o) = reader[d].pos
    <3>1. Now(d) \in Nat
      <4>1. Len(toClient[d]) + 1 > Before(d)
        BY <1>0, <1>2, <2>1, ReadTypes DEF Streaming, Before
      <4> QED
        BY <1>0, <4>1, ReadTypes, AheadNext DEF Now
    <3>2. Now(d) + Len(o) + Len(<< >>) = reader[d].pos
      BY <2>1, <2>2 DEF ReadAt, ChunkAt
    <3>3. Len(<< >>) = 0 /\ Len(o) \in Nat
      BY <2>3
    <3>4. Ahead(d, Len(q) + 1)' = Now(d)
      BY <2>2 DEF Now, Ahead, Before
    <3> QED
      BY <3>1, <3>2, <3>3, <3>4
  <2>6. EndsAt(d, reader[d].pos)'
    <3>1. \A j \in DOMAIN p : ~ j > Len(q) + 1
      BY <2>4
    <3>2. /\ Len(q) + 1 \in DOMAIN p /\ p[Len(q) + 1].type = "DOWNLOADBODY"
          /\ p[Len(q) + 1].data = o
      BY <2>4, MsgTypes
    <3> QED
      BY <2>1, <2>2, <2>5, <3>1, <3>2 DEF EndsAt
  <2>7. ASSUME NEW k \in DOMAIN p
        PROVE  p[k].type # "FILEEND" /\ (p[k].type = "DOWNLOADREP" => p[k].status # "NOTEXIST")
    <3>1. CASE k \in DOMAIN q
      <4>1. StreamMsg(d, k, q[k]) /\ p[k] = q[k]
        BY <1>2, <2>1, <2>2, <2>4, <3>1 DEF Streaming
      <4> QED
        BY <2>1, <4>1 DEF StreamMsg
    <3>2. CASE k = Len(q) + 1
      BY <2>4, <3>2, MsgTypes
    <3> QED
      BY <2>4, <2>7, <3>1, <3>2
  <2> QED
    BY <1>2, <2>1, <2>2, <2>6, <2>7 DEF WholeAt
<1>9. CASE SendFileEnd(d)
  <2>1. spc[d] = "recipe" /\ spc'[d] = "order" /\ Reply(d, FileEnd) /\ RecipeBatch(d) = << >>
    BY <1>0, <1>9, LockTypes DEF SendFileEnd, Goto
  <2>2. reader[d].pos <= n /\ reader[d].pos \in Nat /\ (reader[d].eof => reader[d].pos = n)
    BY <1>0, <2>1, ReadTypes DEF WholeAt
  <2>3. reader[d].pos = n
    <3>1. Len(<< >>) = 0 /\ 0 < BatchSize /\ reader[d].pos + 0 = reader[d].pos
      BY <2>2, BatchSizeAssumption DEF BatchSizeAssumption
    <3>2. CASE ~ reader[d].eof
      <4>1. PICK b : b = RecipeBatch(d)
        OBVIOUS
      <4>2. Len(b) < BatchSize => reader[d].pos + Len(b) = n
        BY <2>2, <3>2, <4>1, BatchLength
      <4> QED
        BY <2>1, <2>2, <3>1, <4>1, <4>2
    <3> QED
      BY <2>2, <3>2
  <2>4. EndsAt(d, n)'
    BY <1>0, <2>1, <2>3, EndsReply, MsgTypes DEF WholeAt
  <2>5. PICK q, p : q = toClient[d] /\ p = toClient'[d]
    OBVIOUS
  <2>6. ASSUME NEW k \in DOMAIN p PROVE p[k].type = "DOWNLOADREP" => p[k].status # "NOTEXIST"
    <3>1. p = q \o <<FileEnd>> /\ q \in Seq(ClientMsg)
      BY <1>0, <2>1, <2>5, LockTypes DEF Reply, send_data
    <3>2. /\ DOMAIN q = 1 .. Len(q) /\ p[Len(q) + 1] = FileEnd
          /\ k \in 1 .. Len(q) \/ k = Len(q) + 1
          /\ k \in 1 .. Len(q) => p[k] = q[k]
      BY <2>6, <3>1
    <3> QED
      BY <2>5, <3>2, MsgTypes DEF WholeAt
  <2> QED
    BY <1>2, <2>1, <2>4, <2>5, <2>6 DEF WholeAt
<1> QED
  BY <1>4, <1>5, <1>6, <1>7, <1>8, <1>9 DEF DownloadStep

----------------------------------------------------------------------------
(* A recipe that one session only writes is read to its end.               *)

(* d downloads what t, the only writer of the recipe, had finished before. *)
Sole(d, t) ==
  /\ job[d].op = "d" /\ t \in after[d] /\ key[d] = key[t]
  /\ Writers(RecipeName(key[d])) \subseteq {t}

WholeInv == \A d, t \in Sessions : Sole(d, t) => WholeAt(d, Len(job[t].file))

(* Nothing has been sent to d and nothing is read for it.                  *)
Fresh(d) ==
  /\ got[d] = << >> /\ toClient[d] = << >> /\ spc[d] \notin {"recipe", "chunk"}
  /\ cpc[d] \notin {"quit_rep", "closed"} /\ reader[d].missed = {}

LEMMA FreshStart ==
  ASSUME TypeOK, NEW d \in Sessions, job[d].op = "d", LockAt(d), OpAt(d), StartAt(d),
         \/ Connect(d) /\ UNCHANGED <<spc, reader>>
         \/ (Serve(d) \/ RecvOrder(d)) /\ UNCHANGED <<cpc, got, reader>>
  PROVE  Fresh(d)'
<1>1. CASE Connect(d) /\ UNCHANGED <<spc, reader>>
  <2>1. spc[d] = "accepted" /\ toClient[d] = << >> /\ toClient' = toClient
        /\ cpc'[d] = "download_rep" /\ got' = got /\ cpc[d] = "start"
    BY <1>1, ClientPhase, LockTypes DEF Connect, Starting, Silent
  <2> QED
    BY <1>1, <2>1 DEF Fresh, StartAt, Unread
<1>2. CASE (Serve(d) \/ RecvOrder(d)) /\ UNCHANGED <<cpc, got, reader>>
  <2>1. Starting(d) /\ toClient' = toClient /\ toServer[d] # << >>
        /\ spc[d] \in {"accepted", "order"} /\ spc'[d] \in {"order", "unique", "exist"}
    BY <1>2, ServerPhase, LockTypes DEF Serve, RecvOrder, Arrived, Goto
  <2>2. toClient[d] = << >> /\ cpc[d] = "download_rep"
    BY <2>1, OpKnown DEF Starting, Silent, Told, OpAt
  <2> QED
    BY <1>2, <2>1, <2>2 DEF Fresh, StartAt, Unread
<1> QED
  BY <1>1, <1>2

LEMMA FreshWhole ==
  ASSUME NEW d, Fresh(d)', NEW n
  PROVE  WholeAt(d, n)'
  BY DEF Fresh, WholeAt

(* Who has been admitted stays so, whatever happens.                       *)
LEMMA AdmittedStay ==
  ASSUME TypeInv, LockInv, PendInv, [Next]_vars
  PROVE  /\ \A u \in Sessions : StaysAdmitted(u)
         /\ finished \subseteq finished'
<1>0. TypeOK /\ \A s \in Sessions : LockAt(s) /\ WriterAt(s)
  BY DEF TypeInv, LockInv, PendInv, PendOk
<1>1. ASSUME UNCHANGED <<spc, key, finished>>
      PROVE  /\ \A u \in Sessions : StaysAdmitted(u)
             /\ finished \subseteq finished'
  BY <1>1 DEF StaysAdmitted, Admitted, Uploading
<1>2. ASSUME NEW s \in Sessions, HandlerStep(s), UNCHANGED <<job, clientVars>>
      PROVE  /\ \A u \in Sessions : StaysAdmitted(u)
             /\ finished \subseteq finished'
  <2>0. cpc' = cpc
    BY <1>2 DEF clientVars
  <2>1. /\ StaysAdmitted(s)
        /\ \A t \in Sessions \ {s} : t \in finished' <=> t \in finished
    BY <1>0, <1>2, <2>0, HandlerAdmits
  <2>2. ASSUME NEW u \in Sessions PROVE StaysAdmitted(u)
    <3>1. CASE u # s
      <4>1. spc'[u] = spc[u] /\ key'[u] = key[u]
        BY <1>0, <1>2, <3>1, HandlerOthers DEF TalkView
      <4> QED
        BY <2>1, <3>1, <4>1 DEF StaysAdmitted, Admitted, Uploading
    <3> QED
      BY <2>1, <3>1
  <2>3. finished \subseteq finished'
    BY <1>2 DEF HandlerStep, RunStep, DownloadStep, UploadStep, AdmitStep, ReceiveStep, StoreStep,
                QueryStep, FinishStep, InsertLastContainer, InsertLastRecipe, Join, uploadVars
  <2> QED
    BY <2>2, <2>3
<1>3. ASSUME NEW s \in Sessions, DataWriterStep(s) \/ RecipeWriterStep(s)
      PROVE  UNCHANGED <<spc, key, finished>>
  BY <1>3 DEF DataWriterStep, RecipeWriterStep
<1>4. ASSUME NEW s \in Sessions, ClientSide(s) PROVE UNCHANGED <<spc, key, finished>>
  BY <1>4 DEF ClientSide, connVars, uploadVars
<1>5. ASSUME UNCHANGED vars PROVE UNCHANGED <<spc, key, finished>>
  BY <1>5 DEF vars, connVars, uploadVars
<1> QED
  BY <1>1, <1>2, <1>3, <1>4, <1>5, StepOfOne

(* Where a session stays what it was.                                      *)
LEMMA SoleStep ==
  ASSUME TypeInv, LockInv, PendInv, PastInv, StartInv, [Next]_vars,
         NEW d \in Sessions, NEW t \in Sessions, Sole(d, t)'
  PROVE  Fresh(d)' \/ (Sole(d, t) /\ after'[d] = after[d])
<1>0. /\ TypeOK /\ job' = job /\ LockAt(d) /\ OpAt(d) /\ StartAt(d)
      /\ \A u \in Sessions : StaysAdmitted(u)
  BY AdmittedStay DEF TypeInv, LockInv, PastInv, StartInv, Next, ClientSide, ServerSide, Idle, vars
<1>1. job[d].op = "d" /\ job'[d].op = "d" /\ t \in after'[d] /\ key'[d] = key'[t]
  BY <1>0 DEF Sole
<1>2. ASSUME after'[d] = after[d], key'[d] = key[d] PROVE Sole(d, t)
  <2>1. Admitted(t)
    BY <1>1, <1>2 DEF PastInv, PastAt, Admitted
  <2>2. key'[t] = key[t]
    BY <1>0, <2>1 DEF StaysAdmitted
  <2>3. ASSUME NEW u \in Writers(RecipeName(key[d])) PROVE u = t
    <3>1. u \in Sessions /\ Admitted(u) /\ RecipeName(key[u]) = RecipeName(key[d])
      BY <2>3 DEF Writers, Admitted
    <3>2. Admitted(u)' /\ key'[u] = key[u]
      BY <1>0, <3>1 DEF StaysAdmitted
    <3>3. u \in Writers(RecipeName(key[d]))'
      BY <1>2, <3>1, <3>2 DEF Writers, Admitted, RecipeName
    <3> QED
      BY <3>3 DEF Sole
  <2> QED
    BY <1>1, <1>2, <2>2, <2>3 DEF Sole
<1>3. ASSUME NEW s \in Sessions, ClientSide(s)
      PROVE  Fresh(d)' \/ (Sole(d, t) /\ after'[d] = after[d])
  <2>1. UNCHANGED <<spc, key, reader>>
    BY <1>3 DEF ClientSide, connVars
  <2>2. CASE d = s /\ Connect(s)
    BY <1>0, <1>1, <2>1, <2>2, FreshStart
  <2>3. CASE ~ (d = s /\ Connect(s))
    <3>1. after'[d] = after[d]
      BY <1>0, <1>3, <2>3 DEF ClientSide, TypeOK
    <3> QED
      BY <1>2, <2>1, <3>1
  <2> QED
    BY <2>2, <2>3
<1>4. ASSUME NEW s \in Sessions, HandlerStep(s), UNCHANGED <<job, clientVars, after>>
      PROVE  Fresh(d)' \/ (Sole(d, t) /\ after'[d] = after[d])
  <2>1. CASE d # s
    BY <1>0, <1>2, <1>4, <2>1, HandlerOthers DEF TalkView
  <2>2. CASE d = s /\ (Serve(s) \/ RecvOrder(s))
    <3>1. reader' = reader
      BY <1>4, <2>2 DEF HandlerStep, RunStep, UploadStep, Serve, RecvOrder, DownloadStep, CheckExist,
                        OpenForRead, ReadRecipe, ReadChunk, SendDownBody, SendFileEnd
    <3> QED
      BY <1>0, <1>1, <1>4, <2>2, <3>1, FreshStart DEF clientVars
  <2>3. CASE ~ (Serve(s) \/ RecvOrder(s))
    <3>1. key' = key
      BY <1>4, <2>3 DEF HandlerStep, RunStep, RecvQuit, UploadStep, DownloadStep
    <3> QED
      BY <1>2, <1>4, <3>1
  <2> QED
    BY <2>1, <2>2, <2>3
<1>5. ASSUME NEW s \in Sessions, DataWriterStep(s) \/ RecipeWriterStep(s), UNCHANGED after
      PROVE  Sole(d, t) /\ after'[d] = after[d]
  BY <1>2, <1>5 DEF DataWriterStep, RecipeWriterStep
<1>6. ASSUME UNCHANGED vars PROVE Sole(d, t) /\ after'[d] = after[d]
  BY <1>2, <1>6 DEF vars, connVars
<1> QED
  BY <1>3, <1>4, <1>5, <1>6, StepOfOne

(* The recipe that d reads is complete.                                    *)
LEMMA SoleReads ==
  ASSUME TypeInv, PendInv, DiskInv, PastInv, NEW d \in Sessions, NEW t \in Sessions, Sole(d, t)
  PROVE  /\ key[d] \in FILES /\ RecipeName(key[d]) \in DOMAIN recipes
         /\ Len(recipes[RecipeName(key[d])].entries) = Len(job[t].file)
<1>1. t \in finished /\ key[d] = key[t] /\ Admitted(t)
  BY DEF Sole, PastInv, PastAt, Admitted
<1>2. Writers(RecipeName(key[t])) = {t}
  BY <1>1 DEF Sole, Writers, Admitted
<1>3. recipeWriter[t] = "none" /\ total[t] = Len(job[t].file)
  BY <1>1 DEF PendInv, PendOk, WriterAt, Uploading
<1>4. DiskAt({}, t) /\ PastAt(t)
  BY DEF DiskInv, PastInv
<1> QED
  BY <1>1, <1>2, <1>3, <1>4 DEF DiskAt, PastAt

(* A session that downloads takes no step of an upload.                    *)
LEMMA OnlyDownloads ==
  ASSUME TypeOK, NEW d \in Sessions, job[d].op = "d", OpAt(d)
  PROVE  ~ UploadStep(d)
  BY UploadMoves DEF OpAt

LEMMA QuitWhole ==
  ASSUME TypeOK, NEW d \in Sessions, RecvQuit(d), UNCHANGED <<cpc, got>>, LockAt(d),
         NEW n, WholeAt(d, n)
  PROVE  WholeAt(d, n)'
<1>1. Ending(d) /\ spc[d] = "order"
  BY ServerPhase DEF RecvQuit
<1>2. toClient[d] = << >> /\ cpc[d] = "quit_rep" /\ toServer[d] # << >>
  BY <1>1 DEF Ending, Told, RecvQuit, Arrived
<1>3. toClient'[d] = <<QuitRep>> /\ spc'[d] = "closed"
  BY <1>2, LockTypes, ClientMsgs, ReplyToSilent DEF RecvQuit, Goto
<1>4. DOMAIN toClient'[d] = {1} /\ toClient'[d][1].type = "QUITREP"
  BY <1>3, MsgTypes
<1> QED
  BY <1>2, <1>3, <1>4 DEF WholeAt

LEMMA NextWhole ==
  ASSUME TypeInv, IndexInv, UploadInv, DownloadInv, PastInv, WholeInv, [Next]_vars
  PROVE  WholeInv'
<1>0. /\ TypeOK /\ LockInv /\ PendInv /\ DiskInv /\ StartInv /\ job' = job
  BY DEF TypeInv, IndexInv, UploadInv, DownloadInv, Next, ClientSide, ServerSide, Idle, vars
<1> SUFFICES ASSUME NEW d \in Sessions, NEW t \in Sessions, Sole(d, t)'
             PROVE  WholeAt(d, Len(job[t].file))'
  BY DEF WholeInv
<1>1. PICK f, n : f = job[t].file /\ n = Len(f)
  OBVIOUS
<1>2. WholeAt(d, n)' => WholeAt(d, Len(job[t].file))'
  BY <1>0, <1>1
<1>3. CASE Fresh(d)'
  BY <1>2, <1>3, FreshWhole
<1>4. CASE Sole(d, t)
  <2>1. /\ job[d].op = "d" /\ WholeAt(d, n) /\ ReadAt({}, d, f)
        /\ LockAt(d) /\ OpAt(d) /\ StartAt(d)
    BY <1>0, <1>1, <1>4 DEF Sole, WholeInv, DownloadInv, ReadInv, LockInv, PastInv, StartInv
  <2>2. /\ key[d] \in FILES /\ RecipeName(key[d]) \in DOMAIN recipes
        /\ n = Len(recipes[RecipeName(key[d])].entries)
    BY <1>0, <1>1, <1>4, SoleReads
  <2>3. ASSUME TalkView(d)' = TalkView(d) PROVE WholeAt(d, n)'
    BY <2>1, <2>3, WholeKept
  <2>4. ASSUME NEW s \in Sessions, ClientSide(s) PROVE WholeAt(d, n)'
    <3>1. CASE d = s
      BY <1>0, <2>1, <2>4, <3>1, ClientWhole
    <3> QED
      BY <1>0, <2>3, <2>4, <3>1, ClientOthers
  <2>5. ASSUME NEW s \in Sessions, HandlerStep(s), UNCHANGED <<job, clientVars>>
        PROVE  WholeAt(d, n)'
    <3>0. UNCHANGED <<cpc, got>>
      BY <2>5 DEF clientVars
    <3>1. CASE d # s
      BY <1>0, <2>3, <2>5, <3>1, HandlerOthers
    <3>2. CASE d = s /\ RunStep(d)
      BY <1>0, <2>1, <3>0, <3>2, QuitWhole, FreshStart, FreshWhole DEF RunStep
    <3>3. CASE d = s /\ DownloadStep(d)
      BY <2>1, <2>2, <3>0, <3>3, DownloadWhole
    <3> QED
      BY <1>0, <2>1, <2>5, <3>1, <3>2, <3>3, OnlyDownloads DEF HandlerStep
  <2>6. ASSUME NEW s \in Sessions, DataWriterStep(s) \/ RecipeWriterStep(s),
               UNCHANGED <<job, clientVars>>
        PROVE  WholeAt(d, n)'
    BY <1>0, <2>3, <2>6, WriterOthers
  <2>7. ASSUME UNCHANGED vars PROVE TalkView(d)' = TalkView(d)
    BY <2>7 DEF vars, wire, clientVars, connVars, uploadVars, TalkView
  <2> QED
    BY <1>2, <2>3, <2>4, <2>5, <2>6, <2>7, StepOfOne
<1> QED
  BY <1>0, <1>3, <1>4, SoleStep

----------------------------------------------------------------------------
(* Every chunk is on disk when it is read.                                 *)

(* No chunk was read from a container that was not on disk.                *)
PureAt(d) == reader[d].missed = {}

NobodyUploads == \A u \in Sessions : ~ Uploading(u)

(* Without an upload every container is on disk.                           *)
LEMMA AllOnDisk ==
  ASSUME StoreInv, NobodyUploads, NEW a, NEW c, Resolves(a, c)
  PROVE  OnDisk(a, c)
<1> SUFFICES ASSUME NEW t \in Sessions, NEW f \in InMemory(t), Holds(f, a, c) PROVE FALSE
  BY DEF Resolves
<1>1. container[t].data = << >> /\ containerQueue[t] = << >> /\ saving[t] = None
  BY DEF StoreInv, StoreAt, NobodyUploads
<1>2. f.data = << >>
  BY <1>1, NoneEmpty DEF InMemory
<1> QED
  BY <1>2 DEF Holds

LEMMA NotMissed ==
  ASSUME NEW a, NEW c, OnDisk(a, c)
  PROVE  FilesWith(a) # {}
  BY DEF OnDisk, Holds, FilesWith

LEMMA DownloadPure ==
  ASSUME TypeInv, StoreInv, NEW d \in Sessions, DownloadStep(d),
         spc[d] = "chunk" => NobodyUploads, NEW f, ReadAt({}, d, f), PureAt(d)
  PROVE  PureAt(d)'
<1>0. TypeOK /\ reader \in [Sessions -> Reader]
  BY ViewTypes DEF TypeInv
<1>1. CASE CheckExist(d) \/ SendDownBody(d) \/ SendFileEnd(d)
  BY <1>1 DEF CheckExist, SendDownBody, SendFileEnd, PureAt
<1>2. CASE OpenForRead(d)
  BY <1>0, <1>2 DEF OpenForRead, PureAt, Reader
<1>3. CASE ReadRecipe(d)
  BY <1>0, <1>3 DEF ReadRecipe, PureAt
<1>4. CASE ReadChunk(d)
  <2>1. PICK a : a = reader[d].addrs
    OBVIOUS
  <2>2. /\ a \in Seq(Addr \cup {NoAddr}) /\ a # << >> /\ spc[d] = "chunk"
        /\ reader'[d].missed = reader[d].missed \cup Missed(reader[d])
    <3>1. reader'[d] = [reader[d] EXCEPT !.addrs = Tail(@), !.missed = @ \cup Missed(reader[d]),
                                         !.out = @ \o Fetch(Head(reader[d].addrs), Held(reader[d]))]
      BY <1>0, <1>4 DEF ReadChunk
    <3>2. reader[d] \in Reader
      BY <1>0
    <3> QED
      BY <1>0, <1>4, <2>1, <3>1, <3>2, ReadTypes DEF ReadChunk, Reader, Entries
  <2>3. 1 \in DOMAIN a /\ Head(a) = a[1]
    BY <2>2
  <2>4. \E n : Named({}, a, n, f)
    BY <2>1, <2>2 DEF ReadAt, ChunkAt
  <2>5. \E c : Resolves(Head(a), c)
    BY <2>3, <2>4 DEF Named, Found
  <2>6. Missed(reader[d]) = {}
    BY <2>1, <2>2, <2>5, AllOnDisk, NotMissed DEF Missed
  <2> QED
    BY <2>2, <2>6 DEF PureAt
<1> QED
  BY <1>1, <1>2, <1>3, <1>4 DEF DownloadStep

LEMMA FreshPure ==
  ASSUME NEW d, Fresh(d)'
  PROVE  PureAt(d)'
  BY DEF Fresh, PureAt

(* Nobody uploads while d reads: every chunk is there.                     *)
LEMMA StepPure ==
  ASSUME TypeInv, IndexInv, DownloadInv, [Next]_vars,
         NEW d \in Sessions, NEW t \in Sessions, Sole(d, t), PureAt(d),
         spc[d] = "chunk" => NobodyUploads
  PROVE  PureAt(d)'
<1>0. TypeOK /\ StoreInv /\ ReadAt({}, d, job[t].file)
  BY DEF TypeInv, IndexInv, DownloadInv, ReadInv, Sole
<1>1. ASSUME reader' = reader PROVE PureAt(d)'
  BY <1>1 DEF PureAt
<1>2. ASSUME NEW s \in Sessions, ClientSide(s) PROVE reader' = reader
  BY <1>2 DEF ClientSide, connVars
<1>3. ASSUME NEW s \in Sessions, HandlerStep(s), UNCHANGED <<job, clientVars>>
      PROVE  PureAt(d)'
  <2>1. CASE d # s
    BY <1>0, <1>3, <2>1, HandlerOthers DEF TalkView, PureAt
  <2>2. CASE RunStep(s) \/ UploadStep(s)
    BY <1>1, <2>2 DEF RunStep, UploadStep
  <2>3. CASE d = s /\ DownloadStep(d)
    <3>1. PICK f : f = job[t].file
      OBVIOUS
    <3> QED
      BY <1>0, <2>3, <3>1, DownloadPure
  <2> QED
    BY <1>3, <2>1, <2>2, <2>3 DEF HandlerStep
<1>4. ASSUME NEW s \in Sessions, DataWriterStep(s) \/ RecipeWriterStep(s) PROVE reader' = reader
  BY <1>4 DEF DataWriterStep, RecipeWriterStep
<1>5. ASSUME UNCHANGED vars PROVE reader' = reader
  BY <1>5 DEF vars, connVars
<1> QED
  BY <1>1, <1>2, <1>3, <1>4, <1>5, StepOfOne

----------------------------------------------------------------------------
(* A download when every upload has finished.                              *)

(* No upload runs when d connects, or later.                               *)
Quiet(d) == \A u \in Sessions : job[u].op = "u" => u \in after[d]

PureInv == \A d, t \in Sessions : Sole(d, t) /\ Quiet(d) => PureAt(d)

LEMMA QuietNobody ==
  ASSUME PendInv, PastInv, NEW d \in Sessions, Quiet(d)
  PROVE  NobodyUploads
<1> SUFFICES ASSUME NEW u \in Sessions, Uploading(u) PROVE FALSE
  BY DEF NobodyUploads
<1>1. u \in finished
  BY DEF PastInv, OpAt, PastAt, Quiet
<1> QED
  BY <1>1 DEF PendInv, PendOk, WriterAt, Uploading

BackInv == PastInv /\ WholeInv /\ PureInv

LEMMA InitBack == Init => BackInv
<1> SUFFICES ASSUME Init, NEW d \in Sessions, NEW t \in Sessions PROVE ~ Sole(d, t)
  BY InitPast DEF BackInv, WholeInv, PureInv
<1>1. after[d] = {}
  BY DEF Init
<1> QED
  BY <1>1 DEF Sole

LEMMA NextBack ==
  ASSUME TypeInv, IndexInv, UploadInv, DownloadInv, BackInv, [Next]_vars
  PROVE  BackInv'
<1>0. /\ LockInv /\ PendInv /\ PastInv /\ StartInv /\ WholeInv /\ job' = job
  BY DEF IndexInv, UploadInv, DownloadInv, BackInv, Next, ClientSide, ServerSide, Idle, vars
<1>1. PastInv' /\ WholeInv'
  BY <1>0, NextPast, NextWhole
<1>2. ASSUME NEW d \in Sessions, NEW t \in Sessions, Sole(d, t)', Quiet(d)' PROVE PureAt(d)'
  <2>1. CASE Fresh(d)'
    BY <2>1, FreshPure
  <2>2. CASE Sole(d, t) /\ after'[d] = after[d]
    <3>1. Quiet(d)
      BY <1>0, <1>2, <2>2 DEF Quiet
    <3>2. PureAt(d) /\ NobodyUploads
      BY <1>0, <2>2, <3>1, QuietNobody DEF BackInv, PureInv
    <3> QED
      BY <1>0, <2>2, <3>2, StepPure
  <2> QED
    BY <1>0, <1>2, <2>1, <2>2, SoleStep
<1> QED
  BY <1>1, <1>2 DEF BackInv, PureInv

LEMMA BackInvariant == Spec => []BackInv
<1>1. TypeInv /\ IndexInv /\ UploadInv /\ DownloadInv /\ BackInv /\ [Next]_vars => BackInv'
  BY NextBack
<1> QED
  BY <1>1, InitBack, TypeInvariant, IndexInvariant, UploadInvariant, DownloadInvariant, PTL
     DEF Spec

LEMMA Delivered ==
  ASSUME TypeInv, DownloadInv, NEW d \in Sessions, NEW t \in Sessions, Sole(d, t),
         WholeAt(d, Len(job[t].file)), PureAt(d), cpc[d] = "closed"
  PROVE  got[d] = job[t].file
<1>1. PICK g, f : g = got[d] /\ f = job[t].file
  OBVIOUS
<1>2. g \in Seq(Bytes) /\ f \in Seq(Chunks)
  BY <1>1, ReadTypes, FileTyped DEF TypeInv
<1>3. Aligned(g, 0, f, {}) /\ Len(g) = Len(f)
  BY <1>1 DEF Sole, DownloadInv, ReadInv, ReadAt, WholeAt, PureAt
<1>4. DOMAIN g = 1 .. Len(f) /\ DOMAIN f = 1 .. Len(f)
  BY <1>2, <1>3
<1>5. ASSUME NEW k \in 1 .. Len(f) PROVE g[k] = f[k]
  <2>1. g[k] = f[0 + k] /\ 0 + k = k
    BY <1>3, <1>4 DEF Aligned, Suits
  <2> QED
    BY <2>1
<1> QED
  BY <1>1, <1>2, <1>4, <1>5

(* A file is downloaded under the name it was uploaded under, and no other *)
(* upload has written a recipe of that name.                               *)
OwnRecipes ==
  \A d, t \in Sessions :
    DownloadsAfter(d, t) => key[d] = key[t] /\ Writers(RecipeName(key[t])) = {t}

(* A download that connects when every upload has finished delivers        *)
(* exactly the file that was uploaded: receive_file has left a complete    *)
(* recipe and every container on disk, and send_file reads each entry and  *)
(* each chunk once and in order.                                           *)
THEOREM QuietlyReadBack == Spec => [](OwnRecipes => QuietReadBack)
<1>1. ASSUME TypeInv, DownloadInv, BackInv, OwnRecipes PROVE QuietReadBack
  <2> SUFFICES ASSUME NEW d \in Sessions, NEW t \in Sessions, DownloadsAfter(d, t), Quiet(d)
               PROVE  got[d] = job[t].file
    BY DEF QuietReadBack, Quiet
  <2>1. Sole(d, t) /\ cpc[d] = "closed"
    BY <1>1 DEF OwnRecipes, DownloadsAfter, Sole
  <2> QED
    BY <1>1, <2>1, Delivered DEF BackInv, WholeInv, PureInv
<1> QED
  BY <1>1, TypeInvariant, DownloadInvariant, BackInvariant, PTL

----------------------------------------------------------------------------
(* The names.                                                              *)

(* What the handler of s has received of the command line.                 *)
KeyAt(s) ==
  /\ spc[s] # "accepted" => key[s].id = job[s].id
  /\ \/ key[s].name = job[s].name \/ spc[s] = "accepted" \/ job[s].op = "x"
     \/ spc[s] = "order" /\ toServer[s] # << >> /\ Head(toServer[s]).type \in {"UPLOAD", "DOWNLOAD"}

KeyInv == \A s \in Sessions : KeyAt(s)

LEMMA NextKeys ==
  ASSUME Tails = {<< >>}, TypeInv, LockInv, PastInv, KeyInv, [Next]_vars
  PROVE  KeyInv'
<1>0. /\ TypeOK /\ job' = job /\ \A s \in Sessions : LockAt(s) /\ OpAt(s) /\ KeyAt(s)
      /\ \A s \in Sessions : job[s].name \in Seq(Chars)
  <2>1. \A s \in Sessions : TypeOK => job[s].name \in Seq(Chars)
    BY FileTyped DEF Job
  <2> QED
    BY <2>1 DEF TypeInv, LockInv, PastInv, KeyInv, Next, ClientSide, ServerSide, Idle, vars
<1>1. ASSUME NEW s \in Sessions, TalkView(s)' = TalkView(s) PROVE KeyAt(s)'
  <2>1. job'[s] = job[s] /\ spc'[s] = spc[s] /\ key'[s] = key[s] /\ toServer'[s] = toServer[s]
    BY <1>1 DEF TalkView
  <2> QED
    BY <1>0, <2>1 DEF KeyAt
<1>2. ASSUME NEW s \in Sessions, ClientSide(s) PROVE KeyAt(s)'
  <2>1. UNCHANGED <<job, spc, key>>
    BY <1>2 DEF ClientSide, connVars
  <2>2. CASE Connect(s)
    <3>1. spc[s] = "accepted"
      BY <1>0, <2>2, ClientPhase DEF Connect, Starting
    <3> QED
      BY <2>1, <3>1 DEF KeyAt
  <2>3. CASE ClientStep(s)
    <3>1. toServer'[s] = toServer[s] \/ toServer[s] = << >> \/ toClient[s] = << >>
      <4>1. LockAt(s)
        BY <1>0
      <4> QED
        BY <1>0, <2>3, <4>1, ClientPhase, LockTypes
           DEF ClientStep, UploadDuplicate, UploadUnique, UploadBatch, DownloadRefused,
               DownloadGranted, DownloadBody, DownloadEnd, Close, Admitting, Replied, Downloading,
               Streaming, Ending, Silent, Answered, Told
    <3>2. toClient[s] # << >>
      BY <2>3 DEF ClientStep, UploadDuplicate, UploadUnique, UploadBatch, DownloadRefused,
                  DownloadGranted, DownloadBody, DownloadEnd, Close, Arrived
    <3> QED
      BY <1>0, <2>1, <3>1, <3>2 DEF KeyAt
  <2> QED
    BY <1>2, <2>2, <2>3 DEF ClientSide
<1>3. ASSUME NEW s \in Sessions, HandlerStep(s), UNCHANGED <<job, clientVars>> PROVE KeyAt(s)'
  <2>1. CASE Serve(s)
    <3>1. Starting(s) /\ spc[s] = "accepted" /\ Arrived(toServer, s, "LOGIN") /\ RunStep(s)
      BY <1>0, <1>3, <2>1, ServerPhase, UploadMoves, DownloadMoves DEF Serve, HandlerStep, Uploading
    <3>2. PICK m : /\ Told(s, <<Login(job[s].id), m>>)
                   /\ m.type \in {"UPLOAD", "DOWNLOAD"} \/ (m.type = "QUIT" /\ cpc[s] = "quit_rep")
      <4>1. cpc[s] # "start"
        BY <3>1 DEF Starting, Silent, Arrived
      <4>2. CASE cpc[s] = "quit_rep"
        <5>1. Told(s, <<Login(job[s].id), Quit>>) /\ Quit.type = "QUIT"
          BY <3>1, <4>2, MsgTypes DEF Starting
        <5> QED
          BY <4>2, <5>1
      <4>3. CASE cpc[s] # "quit_rep"
        <5>1. PICK o \in {"UPLOAD", "DOWNLOAD"} :
                Told(s, <<Login(job[s].id), Order(o, job[s].name)>>)
          BY <3>1, <4>1, <4>3 DEF Starting
        <5>2. Order(o, job[s].name).type \in {"UPLOAD", "DOWNLOAD"}
          BY MsgTypes
        <5> QED
          BY <5>1, <5>2
      <4> QED
        BY <4>2, <4>3
    <3>3. Head(toServer[s]).id = job[s].id /\ Tail(toServer[s]) = <<m>>
      BY <3>2, ToldFirst, MsgTypes
    <3>4. /\ key'[s].id = job[s].id /\ spc'[s] = "order" /\ toServer'[s] = <<m>>
      <4>1. key' = [key EXCEPT ![s].id = job[s].id] /\ spc' = [spc EXCEPT ![s] = "order"]
        BY <2>1, <3>3 DEF Serve, Goto
      <4>2. toServer'[s] = Tail(toServer[s])
        BY <1>0, <3>1, LockTypes DEF RunStep, receive_data
      <4>3. key'[s].id = job[s].id
        BY <1>0, <4>1, ViewTypes DEF Key
      <4>4. spc'[s] = "order"
        BY <1>0, <4>1, LockTypes
      <4> QED
        BY <3>3, <4>2, <4>3, <4>4
    <3>5. toServer'[s] # << >> /\ Head(toServer'[s]) = m
      BY <3>4
    <3>6. m.type = "QUIT" => job[s].op = "x"
      BY <1>0, <3>1, <3>2 DEF OpAt
    <3> QED
      BY <1>0, <3>2, <3>4, <3>5, <3>6 DEF KeyAt
  <2>2. CASE RecvOrder(s)
    <3>1. Starting(s) /\ spc[s] = "order"
      BY <1>0, <2>2, ServerPhase DEF RecvOrder
    <3>2. PICK o : Told(s, <<Order(o, job[s].name)>>)
      BY <3>1 DEF Starting
    <3>3. Head(toServer[s]).name = job[s].name
      BY <3>2, ToldFirst, MsgTypes
    <3>4. key'[s].name \in ReceivedNames(job[s].name) /\ key'[s].id = key[s].id
      BY <1>0, <2>2, <3>3, ViewTypes DEF RecvOrder, Key
    <3>5. job[s].name \o << >> = job[s].name
      BY <1>0
    <3>6. key'[s].name = job[s].name
      BY <3>4, <3>5 DEF ReceivedNames
    <3> QED
      BY <1>0, <3>1, <3>4, <3>6 DEF KeyAt
  <2>3. CASE ~ Serve(s) /\ ~ RecvOrder(s)
    <3>1. key' = key /\ spc[s] # "accepted"
      <4>1. CASE RunStep(s)
        BY <2>3, <4>1 DEF RunStep, RecvQuit
      <4>2. CASE UploadStep(s)
        BY <1>0, <4>2, UploadMoves DEF UploadStep, Uploading
      <4>3. CASE DownloadStep(s)
        BY <1>0, <4>3, DownloadMoves DEF DownloadStep
      <4> QED
        BY <1>3, <4>1, <4>2, <4>3 DEF HandlerStep
    <3>2. spc[s] = "order" => Arrived(toServer, s, "QUIT")
      <4>1. CASE RunStep(s)
        BY <2>3, <4>1 DEF RunStep, RecvQuit
      <4>2. CASE UploadStep(s)
        BY <1>0, <4>2, UploadMoves DEF Uploading
      <4>3. CASE DownloadStep(s)
        BY <1>0, <4>3, DownloadMoves
      <4> QED
        BY <1>3, <4>1, <4>2, <4>3 DEF HandlerStep
    <3> QED
      BY <1>0, <3>1, <3>2 DEF KeyAt, Arrived
  <2> QED
    BY <2>1, <2>2, <2>3
<1>4. ASSUME NEW s \in Sessions, ClientSide(s) PROVE KeyInv'
  BY <1>0, <1>1, <1>2, <1>4, ClientOthers DEF KeyInv
<1>5. ASSUME NEW s \in Sessions, HandlerStep(s), UNCHANGED <<job, clientVars>> PROVE KeyInv'
  BY <1>0, <1>1, <1>3, <1>5, HandlerOthers DEF KeyInv
<1>6. ASSUME NEW s \in Sessions, DataWriterStep(s) \/ RecipeWriterStep(s),
             UNCHANGED <<job, clientVars>>
      PROVE  KeyInv'
  BY <1>0, <1>1, <1>6, WriterOthers DEF KeyInv
<1>7. ASSUME UNCHANGED vars PROVE KeyInv'
  <2>1. \A t \in Sessions : TalkView(t)' = TalkView(t)
    BY <1>7 DEF vars, wire, clientVars, connVars, uploadVars, TalkView
  <2> QED
    BY <1>1, <2>1 DEF KeyInv
<1> QED
  BY <1>4, <1>5, <1>6, <1>7, StepOfOne

LEMMA KeyInvariant ==
  ASSUME Tails = {<< >>}
  PROVE  Spec => []KeyInv
<1>1. ASSUME Init PROVE KeyInv
  <2>1. \A s \in Sessions : spc[s] = "accepted"
    BY <1>1 DEF Init, ConnInit
  <2> QED
    BY <2>1 DEF KeyInv, KeyAt
<1>2. TypeInv /\ IndexInv /\ BackInv /\ KeyInv /\ [Next]_vars => KeyInv'
  BY NextKeys DEF IndexInv, BackInv
<1> QED
  BY <1>1, <1>2, TypeInvariant, IndexInvariant, BackInvariant, PTL DEF Spec

(* No two uploads write a recipe of the same name.                         *)
NamesApart ==
  \A s, t \in Sessions :
    job[s].op = "u" /\ job[t].op = "u" /\ s # t => RecipeName(job[s]) # RecipeName(job[t])

LEMMA KeysKnown ==
  ASSUME LockInv, PendInv, PastInv, KeyInv, NEW s \in Sessions,
         Admitted(s) \/ (job[s].op = "d" /\ cpc[s] = "closed")
  PROVE  key[s].id = job[s].id /\ key[s].name = job[s].name
<1>0. LockAt(s) /\ WriterAt(s) /\ OpAt(s) /\ PastAt(s) /\ KeyAt(s)
  BY DEF LockInv, PendInv, PendOk, PastInv, KeyInv
<1>1. job[s].op # "x"
  BY <1>0 DEF PastAt
<1>2. CASE Uploading(s)
  BY <1>0, <1>1, <1>2 DEF KeyAt, Uploading
<1>3. CASE cpc[s] \in {"quit_rep", "closed"} /\ spc[s] = "accepted"
  BY <1>0, <1>1, <1>3, ServerPhase DEF Starting, OpAt
<1>4. CASE cpc[s] \in {"quit_rep", "closed"} /\ spc[s] # "accepted"
  <2>1. \/ ~ Arrived(toServer, s, "UPLOAD") /\ ~ Arrived(toServer, s, "DOWNLOAD")
        \/ spc[s] # "order"
    BY <1>0, <1>4, ServerPhase DEF Starting
  <2> QED
    BY <1>0, <1>1, <1>4, <2>1 DEF KeyAt, Arrived
<1> QED
  BY <1>0, <1>2, <1>3, <1>4 DEF Admitted, WriterAt

(* d has the key of t, and t is the only writer of the recipe, if no other *)
(* upload of the same recipe's name has been admitted.                     *)
LEMMA OneWriter ==
  ASSUME TypeInv, LockInv, PendInv, PastInv, KeyInv, NEW d \in Sessions, NEW t \in Sessions,
         DownloadsAfter(d, t),
         \A u \in Sessions :
           /\ Admitted(u) /\ job[u].op = "u" /\ job[t].op = "u"
           /\ RecipeName(job[u]) = RecipeName(job[t])
           /\ key[u].id = job[u].id /\ key[u].name = job[u].name
           /\ key[t].id = job[t].id /\ key[t].name = job[t].name
           => u = t
  PROVE  key[d] = key[t] /\ Writers(RecipeName(key[t])) = {t}
<1>1. Admitted(t)
  BY DEF DownloadsAfter, PastInv, PastAt, Admitted
<1>2. \A s \in Sessions : Admitted(s) =>
        /\ key[s].id = job[s].id /\ key[s].name = job[s].name /\ job[s].op = "u"
        /\ RecipeName(key[s]) = RecipeName(job[s])
  BY KeysKnown DEF PastInv, PastAt, RecipeName
<1>3. key[d].id = key[t].id /\ key[d].name = key[t].name
  BY <1>1, <1>2, KeysKnown DEF DownloadsAfter
<1>4. key[d] \in Key /\ key[t] \in Key
  BY ViewTypes DEF TypeInv
<1>5. key[d] = key[t]
  BY <1>3, <1>4 DEF Key
<1>6. ASSUME NEW u \in Writers(RecipeName(key[t])) PROVE u = t
  <2>1. u \in Sessions /\ Admitted(u) /\ RecipeName(key[u]) = RecipeName(key[t])
    BY <1>6 DEF Writers, Admitted
  <2> QED
    BY <1>1, <1>2, <2>1
<1>7. t \in Writers(RecipeName(key[t]))
  BY <1>1 DEF Writers, Admitted
<1> QED
  BY <1>5, <1>6, <1>7

LEMMA OwnNames ==
  ASSUME Tails = {<< >>}
  PROVE  Spec => [](NamesApart => OwnRecipes)
<1>1. ASSUME TypeInv, IndexInv, UploadInv, BackInv, KeyInv, NamesApart PROVE OwnRecipes
  BY <1>1, OneWriter DEF IndexInv, UploadInv, BackInv, NamesApart, OwnRecipes
<1> QED
  BY <1>1, TypeInvariant, IndexInvariant, UploadInvariant, BackInvariant, KeyInvariant, PTL

(* The hypothesis of QuietlyReadBack, from the command lines: if the byte  *)
(* behind a received name is zero and no two uploads share a recipe's      *)
(* name, a download that connects when all uploads have finished delivers  *)
(* the file, however many handlers download at the same time.              *)
THEOREM QuietlyReadBackByName ==
  ASSUME Tails = {<< >>}
  PROVE  Spec => [](NamesApart => QuietReadBack)
  BY OwnNames, QuietlyReadBack, PTL

----------------------------------------------------------------------------
(* One connection at a time.                                               *)

(* The pool serves one connection at a time.                               *)
OneAtATime == \A s, t \in Serving : s = t

LEMMA ServingStep ==
  ASSUME TypeOK, [Next]_vars
  PROVE  \/ Serving' \subseteq Serving
         \/ \E s \in Sessions : /\ Serving' \subseteq Serving \cup {s}
                                 /\ Cardinality(Serving) < ThreadNum
<1>1. ASSUME spc' = spc PROVE Serving' \subseteq Serving
  BY <1>1 DEF Serving
<1>2. ASSUME NEW s \in Sessions, HandlerStep(s), UNCHANGED <<job, clientVars>>
      PROVE  \/ Serving' \subseteq Serving
             \/ Serving' \subseteq Serving \cup {s} /\ Cardinality(Serving) < ThreadNum
  <2>1. \A t \in Sessions \ {s} : spc'[t] = spc[t]
    BY <1>2, HandlerOthers DEF TalkView
  <2>2. Serving' \subseteq Serving \cup {s}
    BY <2>1 DEF Serving
  <2>3. spc[s] = "accepted" => Cardinality(Serving) < ThreadNum
    <3>1. CASE RunStep(s)
      BY <3>1 DEF RunStep, Serve, RecvOrder, RecvQuit
    <3> QED
      BY <1>2, <3>1, UploadMoves, DownloadMoves DEF HandlerStep, Uploading
  <2>4. spc[s] # "closed"
    BY <1>2, RunMoves, UploadMoves, DownloadMoves DEF HandlerStep, Uploading
  <2> QED
    BY <2>2, <2>3, <2>4 DEF Serving
<1>3. ASSUME NEW s \in Sessions, ClientSide(s) \/ DataWriterStep(s) \/ RecipeWriterStep(s)
      PROVE  spc' = spc
  BY <1>3 DEF ClientSide, connVars, DataWriterStep, RecipeWriterStep
<1>4. ASSUME UNCHANGED vars PROVE spc' = spc
  BY <1>4 DEF vars, connVars
<1> QED
  BY <1>1, <1>2, <1>3, <1>4, StepOfOne

(* A pool of one thread serves one connection after the other: run returns *)
(* its thread only when the client has quit.                               *)
THEOREM OneThread ==
  ASSUME ThreadNum = 1
  PROVE  Spec => []OneAtATime
<1>1. Init => OneAtATime
  BY DEF Init, ConnInit, OneAtATime, Serving
<1>2. ASSUME TypeInv, OneAtATime, [Next]_vars PROVE OneAtATime'
  <2>1. CASE Serving' \subseteq Serving
    BY <1>2, <2>1 DEF OneAtATime
  <2>2. ASSUME NEW s \in Sessions, Serving' \subseteq Serving \cup {s},
               Cardinality(Serving) < ThreadNum
        PROVE  OneAtATime'
    <3>1. ASSUME NEW t \in Serving PROVE FALSE
      <4>1. Serving = {t}
        BY <1>2, <3>1 DEF OneAtATime
      <4>2. Cardinality(Serving) = 1
        BY <4>1, FS_Singleton
      <4> QED
        BY <2>2, <4>2
    <3> QED
      BY <2>2, <3>1 DEF OneAtATime
  <2> QED
    BY <1>2, <2>1, <2>2, ServingStep DEF TypeInv
<1>3. TypeInv /\ OneAtATime /\ [Next]_vars => OneAtATime'
  BY <1>2
<1> QED
  BY <1>1, <1>3, TypeInvariant, PTL DEF Spec

----------------------------------------------------------------------------
(* A file is admitted only once.                                           *)
AloneInv ==
  /\ \A s \in Sessions : spc[s] = "add_file" => key[s] \notin FILES
  /\ \A s, t \in Sessions : Admitted(s) /\ Admitted(t) /\ key[s] = key[t] => s = t

LEMMA NextAlone ==
  ASSUME TypeInv, LockInv, PendInv, PastInv, OneAtATime, AloneInv, [Next]_vars
  PROVE  AloneInv'
<1>0. TypeOK /\ \A s \in Sessions : LockAt(s) /\ WriterAt(s) /\ PastAt(s)
  BY DEF TypeInv, LockInv, PendInv, PendOk, PastInv
<1>1. ASSUME UNCHANGED <<spc, key, finished, FILES>> PROVE AloneInv'
  BY <1>1 DEF AloneInv, Admitted, Uploading
<1>2. ASSUME NEW s \in Sessions, HandlerStep(s), UNCHANGED <<job, clientVars>> PROVE AloneInv'
  <2>0. cpc' = cpc
    BY <1>2 DEF clientVars
  <2>1. /\ Admitted(s)' => Admitted(s) \/ spc[s] = "add_file"
        /\ StaysAdmitted(s)
        /\ \A t \in Sessions \ {s} : t \in finished' <=> t \in finished
    BY <1>0, <1>2, <2>0, HandlerRows, HandlerAdmits DEF PastAt
  <2>2. \A t \in Sessions \ {s} : spc'[t] = spc[t] /\ key'[t] = key[t]
    BY <1>0, <1>2, HandlerOthers DEF TalkView
  <2>3. \A t \in Sessions \ {s} : Admitted(t)' <=> Admitted(t)
    BY <2>1, <2>2 DEF Admitted, Uploading
  <2>4. CASE spc[s] = "add_file"
    <3>1. UploadStep(s)
      BY <1>0, <1>2, <2>4, RunMoves, DownloadMoves DEF HandlerStep
    <3>2. key' = key /\ AddFile(s)
      BY <2>4, <3>1 DEF UploadStep, AdmitStep, CheckUnique, ReceiveStep, StoreStep, FlushContainer,
           StoreChunk, TakeDuplicate, AtChunk, HasChunk, FlushRecipe, WriteEntry, QueryStep, BeginQuery,
           QueryChunk, SendReply, FinishStep, InsertLastContainer, InsertLastRecipe, Join
    <3>3. spc'[s] # "add_file"
      BY <1>0, <3>2, LockTypes DEF AddFile, Goto
    <3>4. ASSUME NEW t \in Sessions \ {s} PROVE spc'[t] # "add_file"
      BY <2>2, <2>4 DEF OneAtATime, Serving
    <3>5. ASSUME NEW t \in Sessions, Admitted(t) PROVE key[t] # key[s]
      BY <1>0, <2>4, <3>5 DEF AloneInv, PastAt
    <3> QED
      BY <2>3, <3>2, <3>3, <3>4, <3>5 DEF AloneInv
  <2>5. CASE spc[s] # "add_file"
    <3>1. FILES' = FILES
      BY <1>2, <2>5 DEF HandlerStep, RunStep, DownloadStep, UploadStep, AdmitStep, CheckUnique,
           AddFile, ReceiveStep, StoreStep, QueryStep, FinishStep, serverVars
    <3>2. ASSUME spc'[s] = "add_file" PROVE key'[s] \notin FILES'
      <4>1. UploadStep(s)
        BY <1>0, <1>2, <3>2, RunMoves, DownloadMoves DEF HandlerStep
      <4>2. CheckUnique(s) /\ key' = key
        BY <1>0, <2>5, <3>2, <4>1, LockTypes
           DEF UploadStep, AdmitStep, AddFile, ReceiveStep, RecvBody,
           RecvFileEnd, StoreStep, FlushContainer,
           StoreChunk, TakeDuplicate, AtChunk, HasChunk, FlushRecipe, WriteEntry, QueryStep, BeginQuery,
           QueryChunk, SendReply, FinishStep, InsertLastContainer, InsertLastRecipe, Join, Goto
      <4> QED
        BY <1>0, <3>1, <3>2, <4>2, LockTypes DEF CheckUnique, isFileUnique, Goto
    <3>3. Admitted(s)' => Admitted(s) /\ key'[s] = key[s]
      BY <2>1, <2>5 DEF StaysAdmitted
    <3> QED
      BY <2>2, <2>3, <3>1, <3>2, <3>3 DEF AloneInv
  <2> QED
    BY <2>4, <2>5
<1>3. ASSUME NEW s \in Sessions, ClientSide(s) \/ DataWriterStep(s) \/ RecipeWriterStep(s)
      PROVE  UNCHANGED <<spc, key, finished, FILES>>
  BY <1>3 DEF ClientSide, connVars, uploadVars, serverVars, DataWriterStep, RecipeWriterStep
<1>4. ASSUME UNCHANGED vars PROVE UNCHANGED <<spc, key, finished, FILES>>
  BY <1>4 DEF vars, connVars, uploadVars, serverVars
<1> QED
  BY <1>1, <1>2, <1>3, <1>4, StepOfOne

(* The chunks of container f are in the index, under the session that      *)
(* filled it.                                                              *)
Owned(f) ==
  \A c \in ToSet(f.data) :
    c \in Chunks /\ m_all_chunks[c] # NoAddr /\ m_all_chunks[c].id[1] = f.id[1]

(* Nobody else has stored a chunk that s has been asked for.               *)
AskedAt(s) ==
  \A i \in DOMAIN hashList[s] : i \in DOMAIN flags[s] /\ flags[s][i] = 1 =>
    LET a == m_all_chunks[hashList[s][i]]
    IN a = NoAddr \/ a.id[1] = s

OnceInv ==
  /\ \A f \in containers : Owned(f)
  /\ \A s \in Sessions : AskedAt(s) /\ \A f \in InMemory(s) : Owned(f)

(* No container with other chunks turns up.                                *)
NothingNew(s) ==
  \A f \in InMemory(s)' \cup containers' : f \in InMemory(s) \cup containers \/ f.data = << >>

LEMMA PushedOnly ==
  ASSUME TypeOK, NEW s \in Sessions, UNCHANGED <<saving, containers>>, insert_container_queue(s),
         container'[s] = container[s] \/ container'[s].data = << >>
  PROVE  NothingNew(s)
<1>1. ToSet(containerQueue'[s]) = ToSet(containerQueue[s]) \cup {container[s]}
  BY ViewTypes, QueueSets DEF insert_container_queue
<1>2. container[s] # None /\ saving'[s] = saving[s]
  BY ViewTypes, NoneAssumption DEF NoneAssumption
<1> QED
  BY <1>1, <1>2 DEF InMemory, NothingNew

LEMMA DataWriterNew ==
  ASSUME TypeOK, NEW s \in Sessions, DataWriterStep(s)
  PROVE  NothingNew(s)
<1>0. container' = container
  BY DEF DataWriterStep
<1>1. CASE PopContainer(s)
  <2>1. /\ saving'[s] = Head(containerQueue[s]) /\ containerQueue[s] # << >>
        /\ containerQueue'[s] = Tail(containerQueue[s]) /\ containers' = containers
    BY <1>1, ViewTypes DEF PopContainer
  <2>2. ToSet(containerQueue[s]) = {saving'[s]} \cup ToSet(containerQueue'[s])
    BY <2>1, ViewTypes, QueueSets
  <2> QED
    BY <1>0, <2>1, <2>2 DEF InMemory, NothingNew
<1>2. CASE SaveContainer(s)
  <2>1. /\ saving[s] # None /\ saving'[s] = None /\ containerQueue' = containerQueue
        /\ containers' \subseteq containers \cup {saving[s]}
    BY <1>2, ViewTypes DEF SaveContainer
  <2> QED
    BY <1>0, <2>1 DEF InMemory, NothingNew
<1>3. CASE EndDataWriter(s)
  BY <1>0, <1>3 DEF EndDataWriter, InMemory, NothingNew
<1> QED
  BY <1>1, <1>2, <1>3 DEF DataWriterStep

LEMMA HandlerNew ==
  ASSUME TypeOK, NEW s \in Sessions, HandlerStep(s), ~ StoreChunk(s)
  PROVE  NothingNew(s) /\ m_all_chunks' = m_all_chunks
<1>0. UNCHANGED <<saving, containers>>
  BY DEF HandlerStep, writerVars
<1>1. ASSUME UNCHANGED <<container, containerQueue>> PROVE NothingNew(s)
  BY <1>0, <1>1 DEF InMemory, NothingNew
<1>2. CASE RunStep(s) \/ DownloadStep(s)
  BY <1>1, <1>2 DEF RunStep, DownloadStep, uploadVars, queueVars, serverVars
<1>3. CASE AdmitStep(s)
  BY <1>1, <1>3 DEF AdmitStep, queueVars
<1>4. CASE ReceiveStep(s)
  BY <1>1, <1>4 DEF ReceiveStep, queueVars, serverVars
<1>5. CASE StoreStep(s)
  <2>1. CASE FlushContainer(s)
    <3>1. container'[s].data = << >> /\ insert_container_queue(s) /\ m_all_chunks' = m_all_chunks
      BY <2>1, ViewTypes DEF FlushContainer, new_container
    <3> QED
      BY <1>0, <3>1, PushedOnly
  <2>2. CASE TakeDuplicate(s) \/ FlushRecipe(s) \/ WriteEntry(s)
    BY <1>1, <2>2 DEF TakeDuplicate, FlushRecipe, WriteEntry
  <2> QED
    BY <1>5, <2>1, <2>2 DEF StoreStep
<1>6. CASE QueryStep(s)
  BY <1>1, <1>6 DEF QueryStep, queueVars, serverVars
<1>7. CASE FinishStep(s)
  <2>0. m_all_chunks' = m_all_chunks
    BY <1>7 DEF FinishStep, serverVars
  <2>1. CASE InsertLastContainer(s)
    BY <1>0, <1>1, <2>0, <2>1, PushedOnly DEF InsertLastContainer
  <2>2. CASE InsertLastRecipe(s)
    BY <1>1, <2>0, <2>2 DEF InsertLastRecipe
  <2>3. CASE Join(s)
    <3>1. container'[s].data = << >> /\ containerQueue' = containerQueue
      BY <2>3, ViewTypes DEF Join, new_container
    <3> QED
      BY <1>0, <2>0, <3>1 DEF InMemory, NothingNew
  <2> QED
    BY <1>7, <2>1, <2>2, <2>3 DEF FinishStep
<1> QED
  BY <1>2, <1>3, <1>4, <1>5, <1>6, <1>7 DEF HandlerStep, UploadStep

(* The index keeps what it has, and an own chunk stays one.                *)
LEMMA OwnedKept ==
  ASSUME \A c \in Chunks : m_all_chunks[c] # NoAddr => m_all_chunks'[c] = m_all_chunks[c],
         NEW f, Owned(f)
  PROVE  Owned(f)'
  BY DEF Owned

LEMMA StoreOwned ==
  ASSUME TypeOK, NEW s \in Sessions, StoreStep(s), StoreChunk(s), UNCHANGED <<saving, containers>>,
         LockAt(s), IdAt(s), AskedAt(s), \A f \in InMemory(s) : Owned(f)
  PROVE  /\ AskedAt(s)' /\ \A f \in InMemory(s)' : Owned(f)'
         /\ \A c \in Chunks : m_all_chunks[c] # NoAddr => m_all_chunks'[c] = m_all_chunks[c]
<1>1. PICK c, a, h, g : /\ c = hashList[s][idx[s]] /\ h = container[s] /\ g = container'[s]
                        /\ a = [id |-> h.id, slot |-> Len(h.data) + 1]
  OBVIOUS
<1>2. /\ c \in Chunks /\ Received(s, idx[s]) = c /\ idx[s] \in DOMAIN hashList[s]
  BY <1>1, ReceivedRight DEF StoreChunk, HasChunk
<1>3. /\ h \in Container /\ g.id = h.id /\ g.data = Append(h.data, c)
      /\ containerQueue' = containerQueue
      /\ addChunk(c, a) /\ UNCHANGED <<hashList, flags>>
  BY <1>1, <1>2, ViewTypes DEF StoreChunk, StoreStep, Container
<1>4. h.id[1] = s /\ a.id[1] = s /\ a # NoAddr
  <2>1. h.id[1] = s
    BY <1>1 DEF IdAt, Ascending
  <2>2. h.id \in ContainerId /\ Len(h.data) \in Nat
    BY <1>3 DEF Container
  <2>3. a \in Addr
    BY <1>1, <2>2 DEF Addr
  <2> QED
    BY <1>1, <2>1, <2>3, NoAddrAssumption DEF NoAddrAssumption
<1>5. /\ \A b \in Chunks : b # c => m_all_chunks'[b] = m_all_chunks[b]
      /\ m_all_chunks'[c] = IF m_all_chunks[c] = NoAddr THEN a ELSE m_all_chunks[c]
  BY <1>2, <1>3, ViewTypes DEF addChunk
<1>6. m_all_chunks[c] = NoAddr \/ m_all_chunks[c].id[1] = s
  <2>1. idx[s] \in DOMAIN flags[s] /\ flags[s][idx[s]] = 1
    <3>1. /\ spc[s] = "store" /\ flags[s][idx[s]] = 1
          /\ hashList[s] \in Seq(Chunks) /\ flags[s] \in Seq({0, 1})
      BY LockTypes DEF StoreChunk, AtChunk, HasChunk
    <3>2. Len(flags[s]) = Len(hashList[s])
      BY <3>1 DEF LockAt, QueryAt
    <3> QED
      BY <1>2, <3>1, <3>2
  <2> QED
    BY <1>1, <1>2, <2>1 DEF AskedAt
<1>7. m_all_chunks'[c] # NoAddr /\ m_all_chunks'[c].id[1] = s
  BY <1>4, <1>5, <1>6
<1>8. \A b \in Chunks : m_all_chunks[b] # NoAddr => m_all_chunks'[b] = m_all_chunks[b]
  BY <1>5
<1>9. AskedAt(s)'
  <2>1. ASSUME NEW i \in DOMAIN hashList[s], i \in DOMAIN flags[s], flags[s][i] = 1
        PROVE  m_all_chunks'[hashList[s][i]] = NoAddr \/ m_all_chunks'[hashList[s][i]].id[1] = s
    <3>1. hashList[s][i] \in Chunks
      BY <2>1, LockTypes
    <3>2. m_all_chunks[hashList[s][i]] = NoAddr \/ m_all_chunks[hashList[s][i]].id[1] = s
      BY <2>1 DEF AskedAt
    <3> QED
      BY <1>5, <1>7, <3>1, <3>2
  <2> QED
    BY <1>3, <2>1 DEF AskedAt
<1>10. Owned(h)
  BY <1>1, <1>3, NoneAssumption DEF InMemory, NoneAssumption
<1>11. Owned(g)'
  <2>1. ToSet(g.data) = ToSet(h.data) \cup {c}
    BY <1>3, QueueSets DEF Container
  <2>2. Owned(h)'
    BY <1>8, <1>10, OwnedKept
  <2> QED
    BY <1>2, <1>3, <1>4, <1>7, <2>1, <2>2 DEF Owned
<1>12. InMemory(s)' \subseteq InMemory(s) \cup {g}
  <2>1. saving'[s] = saving[s] /\ containerQueue'[s] = containerQueue[s]
    BY <1>3
  <2> QED
    BY <1>1, <2>1 DEF InMemory
<1>13. \A f \in InMemory(s) : Owned(f)'
  BY <1>8, OwnedKept
<1> QED
  BY <1>8, <1>9, <1>11, <1>12, <1>13

(* A chunk is asked for only if nobody has stored it.                      *)
LEMMA QueryAsked ==
  ASSUME TypeOK, NEW s \in Sessions, HandlerStep(s), ~ StoreChunk(s), LockAt(s), AskedAt(s)
  PROVE  AskedAt(s)'
<1>0. m_all_chunks' = m_all_chunks
  BY HandlerNew
<1>1. ASSUME hashList'[s] = hashList[s], flags'[s] = flags[s] PROVE AskedAt(s)'
  BY <1>0, <1>1 DEF AskedAt
<1>2. CASE RunStep(s) \/ DownloadStep(s)
  BY <1>1, <1>2 DEF RunStep, DownloadStep, uploadVars
<1>3. CASE AdmitStep(s)
  BY <1>1, <1>3 DEF AdmitStep
<1>4. CASE ReceiveStep(s)
  BY <1>1, <1>4 DEF ReceiveStep
<1>5. CASE StoreStep(s)
  BY <1>1, <1>5 DEF StoreStep
<1>6. CASE BeginQuery(s)
  <2>1. DOMAIN flags'[s] = {}
    BY <1>6, LockTypes DEF BeginQuery
  <2> QED
    BY <2>1 DEF AskedAt
<1>7. CASE QueryChunk(s)
  <2>1. PICK b \in {0, 1} :
          /\ flags'[s] = Append(flags[s], b) /\ hashList'[s] = hashList[s]
          /\ b = 1 => m_all_chunks[hashList[s][idx[s]]] = NoAddr
          /\ spc[s] = "query"
    BY <1>7, LockTypes DEF QueryChunk, isChunkStored
  <2>2. Len(flags[s]) = idx[s] - 1 /\ flags[s] \in Seq({0, 1}) /\ idx[s] \in Nat
    BY <2>1, LockTypes DEF LockAt, QueryAt
  <2>3. ASSUME NEW i \in DOMAIN hashList[s], i \in DOMAIN flags'[s], flags'[s][i] = 1
        PROVE  m_all_chunks[hashList[s][i]] = NoAddr \/ m_all_chunks[hashList[s][i]].id[1] = s
    <3>1. CASE i \in DOMAIN flags[s]
      <4>1. flags[s][i] = 1
        BY <2>1, <2>2, <2>3, <3>1
      <4> QED
        BY <2>3, <3>1, <4>1 DEF AskedAt
    <3>2. CASE i = idx[s]
      <4>1. b = 1
        BY <2>1, <2>2, <2>3, <3>2
      <4> QED
        BY <2>1, <3>2, <4>1
    <3>3. i \in DOMAIN flags[s] \/ i = idx[s]
      BY <2>1, <2>2, <2>3
    <3> QED
      BY <3>1, <3>2, <3>3
  <2> QED
    BY <1>0, <2>1, <2>3 DEF AskedAt
<1>8. CASE QueryStep(s) /\ SendReply(s)
  BY <1>1, <1>8 DEF QueryStep, SendReply
<1>9. CASE FinishStep(s)
  <2>1. CASE Join(s)
    <3>1. DOMAIN hashList'[s] = {}
      BY <2>1, LockTypes DEF Join
    <3> QED
      BY <3>1 DEF AskedAt
  <2>2. CASE ~ Join(s)
    BY <1>1, <1>9, <2>2 DEF FinishStep, InsertLastContainer, InsertLastRecipe
  <2> QED
    BY <2>1, <2>2
<1> QED
  BY <1>2, <1>3, <1>4, <1>5, <1>6, <1>7, <1>8, <1>9 DEF HandlerStep, UploadStep, QueryStep

LEMMA NextOnce ==
  ASSUME TypeOK, LockInv, IdInv, OneAtATime, OnceInv, [Next]_vars
  PROVE  OnceInv'
<1>0. \A s \in Sessions : /\ LockAt(s) /\ IdAt(s) /\ AskedAt(s)
                          /\ \A f \in InMemory(s) : Owned(f)
  BY DEF LockInv, IdInv, OnceInv
<1>1. \A f \in containers : Owned(f)
  BY DEF OnceInv
<1>2. ASSUME NEW t \in Sessions, StoreView(t)' = StoreView(t) PROVE InMemory(t)' = InMemory(t)
  BY <1>2 DEF StoreView, InMemory
<1>3. ASSUME NEW t \in Sessions, TalkView(t)' = TalkView(t),
             m_all_chunks' = m_all_chunks \/ hashList[t] = << >>
      PROVE  AskedAt(t)'
  <2>1. hashList'[t] = hashList[t] /\ flags'[t] = flags[t]
    BY <1>3 DEF TalkView
  <2>2. CASE hashList[t] = << >>
    <3>1. DOMAIN hashList'[t] = {}
      BY <2>1, <2>2
    <3> QED
      BY <3>1 DEF AskedAt
  <2> QED
    BY <1>0, <1>3, <2>1, <2>2 DEF AskedAt
<1>4. ASSUME m_all_chunks' = m_all_chunks, NEW f, Owned(f) \/ f.data = << >> PROVE Owned(f)'
  BY <1>4, NoneEmpty DEF Owned
<1>5. ASSUME UNCHANGED <<saving, container, containerQueue, containers, m_all_chunks, hashList,
                         flags>>
      PROVE  OnceInv'
  BY <1>5 DEF OnceInv, AskedAt, Owned, InMemory
<1>6. ASSUME NEW s \in Sessions, StoreChunk(s), HandlerStep(s), UNCHANGED <<job, clientVars>>
      PROVE  OnceInv'
  <2>0. \A t \in Sessions \ {s} : TalkView(t)' = TalkView(t) /\ StoreView(t)' = StoreView(t)
    BY <1>6, HandlerOthers
  <2>1. StoreStep(s) /\ UNCHANGED <<saving, containers>> /\ spc[s] = "store"
    <3>1. spc[s] = "store" /\ idx[s] <= Len(hashList[s])
      BY <1>6 DEF StoreChunk, AtChunk, HasChunk
    <3>2. UploadStep(s)
      BY <1>6, <3>1, RunMoves, DownloadMoves DEF HandlerStep
    <3>3. StoreStep(s)
      BY <3>1, <3>2, LockTypes
         DEF UploadStep, AdmitStep, CheckUnique, AddFile, ReceiveStep, RecvBody,
           RecvFileEnd, QueryStep, BeginQuery, QueryChunk, SendReply,
           FinishStep, InsertLastContainer, InsertLastRecipe, Join
    <3> QED
      BY <1>6, <3>1, <3>3 DEF HandlerStep, writerVars
  <2>2. /\ AskedAt(s)' /\ \A f \in InMemory(s)' : Owned(f)'
        /\ \A c \in Chunks : m_all_chunks[c] # NoAddr => m_all_chunks'[c] = m_all_chunks[c]
    BY <1>0, <1>6, <2>1, StoreOwned
  <2>3. ASSUME NEW t \in Sessions \ {s} PROVE AskedAt(t)' /\ InMemory(t)' = InMemory(t)
    <3>1. spc[t] \in {"accepted", "closed"}
      BY <2>1 DEF OneAtATime, Serving
    <3>2. hashList[t] = << >>
      BY <1>0, <3>1 DEF LockAt, QueryAt
    <3> QED
      BY <1>2, <1>3, <2>0, <3>2
  <2>4. \A f : Owned(f) => Owned(f)'
    BY <2>2, OwnedKept
  <2>5. containers' = containers
    BY <2>1
  <2> QED
    BY <1>0, <1>1, <2>2, <2>3, <2>4, <2>5 DEF OnceInv
<1>7. ASSUME NEW s \in Sessions, ~ StoreChunk(s), HandlerStep(s), UNCHANGED <<job, clientVars>>
      PROVE  OnceInv'
  <2>1. NothingNew(s) /\ m_all_chunks' = m_all_chunks
    BY <1>7, HandlerNew
  <2>2. AskedAt(s)'
    BY <1>0, <1>7, QueryAsked
  <2>3. \A f \in InMemory(s)' \cup containers' : Owned(f)'
    BY <1>0, <1>1, <1>4, <2>1 DEF NothingNew
  <2>4. ASSUME NEW t \in Sessions \ {s} PROVE AskedAt(t)' /\ InMemory(t)' = InMemory(t)
    BY <1>2, <1>3, <1>7, <2>1, HandlerOthers
  <2>5. ASSUME NEW t \in Sessions \ {s}, NEW f \in InMemory(t)' PROVE Owned(f)'
    BY <1>0, <1>4, <2>1, <2>4
  <2> QED
    BY <2>2, <2>3, <2>4, <2>5 DEF OnceInv
<1>8. ASSUME NEW s \in Sessions, DataWriterStep(s), UNCHANGED <<job, clientVars>> PROVE OnceInv'
  <2>1. NothingNew(s) /\ m_all_chunks' = m_all_chunks
    BY <1>8, DataWriterNew DEF DataWriterStep, serverVars
  <2>2. \A t \in Sessions : AskedAt(t)'
    BY <1>3, <1>8, <2>1, WriterOthers
  <2>3. \A f \in InMemory(s)' \cup containers' : Owned(f)'
    BY <1>0, <1>1, <1>4, <2>1 DEF NothingNew
  <2>4. ASSUME NEW t \in Sessions \ {s}, NEW f \in InMemory(t)' PROVE Owned(f)'
    BY <1>0, <1>2, <1>4, <1>8, <2>1, WriterOthers
  <2> QED
    BY <2>2, <2>3, <2>4 DEF OnceInv
<1>9. ASSUME NEW s \in Sessions, ClientSide(s) \/ RecipeWriterStep(s) PROVE OnceInv'
  BY <1>5, <1>9 DEF ClientSide, RecipeWriterStep, connVars, uploadVars, serverVars, queueVars,
                    writerVars
<1>10. ASSUME UNCHANGED vars PROVE OnceInv'
  BY <1>5, <1>10 DEF vars, connVars, uploadVars, serverVars, queueVars, writerVars
<1> QED
  BY <1>6, <1>7, <1>8, <1>9, <1>10, StepOfOne

(* Nobody uploads while a download runs, so it finds every container.      *)
SerialPure == \A d, t \in Sessions : Sole(d, t) => PureAt(d)

SerialInv == AloneInv /\ OnceInv /\ SerialPure

LEMMA InitSerial == Init => SerialInv
<1> SUFFICES ASSUME Init PROVE SerialInv
  OBVIOUS
<1>1. AloneInv
  <2>1. \A s \in Sessions : spc[s] = "accepted" /\ ~ Admitted(s)
    BY DEF Init, ConnInit, Admitted, Uploading
  <2> QED
    BY <2>1 DEF AloneInv
<1>2. OnceInv
  <2>1. containers = {}
    BY DEF Init, ConnInit
  <2>2. ASSUME NEW s \in Sessions PROVE AskedAt(s) /\ \A f \in InMemory(s) : Owned(f)
    <3>1. /\ hashList[s] = << >> /\ saving[s] = None
          /\ containerQueue[s] = << >> /\ container[s].data = << >>
      BY DEF Init, ConnInit
    <3>2. \A f \in InMemory(s) : f.data = << >>
      BY <3>1, NoneEmpty DEF InMemory
    <3> QED
      BY <3>1, <3>2, NoneEmpty DEF AskedAt, Owned
  <2> QED
    BY <2>1, <2>2 DEF OnceInv
<1>3. SerialPure
  BY DEF Init, Sole, SerialPure
<1> QED
  BY <1>1, <1>2, <1>3 DEF SerialInv

LEMMA NextSerial ==
  ASSUME TypeInv, IndexInv, UploadInv, DownloadInv, BackInv, OneAtATime, SerialInv, [Next]_vars
  PROVE  SerialInv'
<1>0. /\ TypeOK /\ LockInv /\ IdInv /\ PendInv /\ PastInv /\ StartInv
      /\ AloneInv /\ OnceInv /\ SerialPure
  BY DEF TypeInv, IndexInv, UploadInv, DownloadInv, BackInv, SerialInv
<1>1. AloneInv' /\ OnceInv'
  BY <1>0, NextAlone, NextOnce
<1>2. ASSUME NEW d \in Sessions, NEW t \in Sessions, Sole(d, t)' PROVE PureAt(d)'
  <2>1. CASE Fresh(d)'
    BY <2>1, FreshPure
  <2>2. CASE Sole(d, t)
    <3>1. spc[d] = "chunk" => NobodyUploads
      BY DEF OneAtATime, Serving, NobodyUploads, Uploading
    <3> QED
      BY <1>0, <2>2, <3>1, StepPure DEF SerialPure
  <2> QED
    BY <1>0, <1>2, <2>1, <2>2, SoleStep
<1> QED
  BY <1>1, <1>2 DEF SerialInv, SerialPure

LEMMA SerialInvariant == Spec /\ []OneAtATime => []SerialInv
<1>1. TypeInv /\ IndexInv /\ UploadInv /\ DownloadInv /\ BackInv /\ OneAtATime /\ SerialInv
        /\ [Next]_vars => SerialInv'
  BY NextSerial
<1> QED
  BY <1>1, InitSerial, TypeInvariant, IndexInvariant, UploadInvariant, DownloadInvariant,
     BackInvariant, PTL DEF Spec

(* While connections are served one at a time, isFileUnique and addFile    *)
(* cannot be separated by another upload of the same name: no two sessions *)
(* are admitted to upload one file.                                        *)
THEOREM SerialUniqueUpload == Spec /\ []OneAtATime => []UniqueUpload
<1>1. SerialInv => UniqueUpload
  BY DEF SerialInv, AloneInv, UniqueUpload, Writers, Admitted
<1> QED
  BY <1>1, SerialInvariant, PTL

(* While connections are served one at a time, no chunk is stored by two   *)
(* sessions: what isChunkStored has not found is stored before anybody     *)
(* else asks.                                                              *)
THEOREM SerialStoredOnce == Spec /\ []OneAtATime => []StoredOnce
<1>1. SerialInv => StoredOnce
  BY DEF SerialInv, OnceInv, Owned, StoredOnce
<1> QED
  BY <1>1, SerialInvariant, PTL

(* While connections are served one at a time, every download of a file    *)
(* that was finished before delivers that file, also between two uploads:  *)
(* the writer threads of an upload have been joined before send_file runs. *)
THEOREM SerialReadBack == Spec /\ []OneAtATime => [](OwnRecipes => ReadBack)
<1>1. ASSUME TypeInv, DownloadInv, BackInv, SerialInv, OwnRecipes PROVE ReadBack
  <2> SUFFICES ASSUME NEW d \in Sessions, NEW t \in Sessions, DownloadsAfter(d, t)
               PROVE  got[d] = job[t].file
    BY DEF ReadBack
  <2>1. Sole(d, t) /\ cpc[d] = "closed"
    BY <1>1 DEF OwnRecipes, DownloadsAfter, Sole
  <2> QED
    BY <1>1, <2>1, Delivered DEF BackInv, WholeInv, SerialInv, SerialPure
<1> QED
  BY <1>1, TypeInvariant, DownloadInvariant, BackInvariant, SerialInvariant, PTL

(* Two uploads write a recipe of one name only if they are the same file   *)
(* of the same user.                                                       *)
NoClash ==
  \A s, t \in Sessions :
    job[s].op = "u" /\ job[t].op = "u" /\ RecipeName(job[s]) = RecipeName(job[t]) =>
      job[s].id = job[t].id /\ job[s].name = job[t].name

(* A second upload of the same file is refused, so one session only writes *)
(* the recipe.                                                             *)
LEMMA OwnNamesSerially ==
  ASSUME Tails = {<< >>}
  PROVE  Spec /\ []OneAtATime => [](NoClash => OwnRecipes)
<1>1. ASSUME TypeInv, IndexInv, UploadInv, BackInv, KeyInv, SerialInv, NoClash PROVE OwnRecipes
  <2> SUFFICES ASSUME NEW d \in Sessions, NEW t \in Sessions, DownloadsAfter(d, t)
               PROVE  key[d] = key[t] /\ Writers(RecipeName(key[t])) = {t}
    BY DEF OwnRecipes
  <2>0. LockInv /\ PendInv /\ PastInv
    BY <1>1 DEF IndexInv, UploadInv, BackInv
  <2>1. Admitted(t) /\ key[t] \in Key
    BY <1>1, <2>0, ViewTypes DEF DownloadsAfter, PastInv, PastAt, Admitted, TypeInv
  <2>2. ASSUME NEW u \in Sessions, Admitted(u), job[u].op = "u", job[t].op = "u",
               RecipeName(job[u]) = RecipeName(job[t]),
               key[u].id = job[u].id, key[u].name = job[u].name,
               key[t].id = job[t].id, key[t].name = job[t].name
        PROVE  u = t
    <3>1. key[u].id = key[t].id /\ key[u].name = key[t].name
      BY <1>1, <2>2 DEF NoClash
    <3>2. key[u] \in Key
      BY <1>1, ViewTypes DEF TypeInv
    <3>3. key[u] = key[t]
      BY <2>1, <3>1, <3>2 DEF Key
    <3> QED
      BY <1>1, <2>1, <2>2, <3>3 DEF SerialInv, AloneInv
  <2> QED
    BY <1>1, <2>0, <2>2, OneWriter
<1> QED
  BY <1>1, TypeInvariant, IndexInvariant, UploadInvariant, BackInvariant, KeyInvariant,
     SerialInvariant, PTL

(* With a pool of one thread, a zero byte behind every received name and   *)
(* no two uploads of different files under one recipe's name, every file   *)
(* is read back as it was uploaded.                                        *)
THEOREM OneThreadReadBack ==
  ASSUME ThreadNum = 1, Tails = {<< >>}
  PROVE  Spec => [](NoClash => ReadBack)
  BY OneThread, OwnNamesSerially, SerialReadBack, PTL
=============================================================================
