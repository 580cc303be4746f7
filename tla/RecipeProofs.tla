---------------------------- MODULE RecipeProofs ----------------------------
(***************************************************************************)
(* A recipe names the chunks of the client's file, in order and all of     *)
(* them once the upload has finished; and a download delivers the chunks   *)
(* the recipe names, each in its place.  The argument follows positions in *)
(* the file: of the batch the client has sent, of the chunk the handler    *)
(* has reached, of the entries in buffer, queue and writer, and of those   *)
(* in the recipe on disk; then of the entries the reader has taken, of the *)
(* bodies on their way, and of what the other client has received.         *)
(***************************************************************************)
EXTENDS DedupProofs

(* Hashes that have been sent before the last batch and are not recorded.  *)
Behind(s) == IF spc[s] \in {"store", "entry"} \/ Arrived(toServer, s, "UPLOADBODY")
             THEN Len(hashList[s]) ELSE 0

(* The chunks of the file before those in hashList.                        *)
Base(s) == sent[s] - (Len(batch[s]) + Behind(s))

(* The chunks of the file that have an entry.                              *)
Reached(s) == Base(s) + (IF spc[s] \in {"store", "entry"} THEN idx[s] - 1 ELSE 0)

(* batch and hashList are parts of the file, and all of it has been sent   *)
(* once an empty batch has.                                                *)
SliceAt(s) ==
  LET file == job[s].file
  IN /\ sent[s] <= Len(file)
     /\ Len(batch[s]) + Behind(s) <= sent[s]
     /\ \A i \in DOMAIN batch[s] : batch[s][i] = file[sent[s] - Len(batch[s]) + i]
     /\ \A i \in DOMAIN hashList[s] : hashList[s][i] = file[Base(s) + i]
     /\ cpc[s] \in {"start", "upload_rep"} => sent[s] = 0 /\ batch[s] = << >>
     /\ ((Uploading(s) \/ spc[s] = "add_file") /\ cpc[s] = "quit_rep")
          => sent[s] = Len(file) /\ batch[s] = << >>
     /\ spc[s] = "add_file" => Base(s) = 0

SliceInv == \A s \in Sessions : SliceAt(s)

(* Names, but for the slots in L.                                          *)
Named(L, b, n, f) ==
  /\ n + Len(b) <= Len(f)
  /\ \A k \in DOMAIN b : b[k] # NoAddr /\ Found(L, b[k], f[n + k])

(* Entries on their way to a recipe that holds w ones so far: the block h  *)
(* that is being written, the blocks q that are queued, which are full     *)
(* except for a last one, and those in the buffer r, unless it was queued  *)
(* as the last one.                                                        *)
Offset(n, j) == n + (j - 1) * BatchSize

Chain(L, w, h, q, r, last, f) ==
  /\ Named(L, h, w, f)
  /\ \A j \in DOMAIN q : /\ Named(L, q[j], Offset(w + Len(h), j), f)
                         /\ Len(q[j]) = BatchSize \/ (j = Len(q) /\ last)
  /\ ~ last => Named(L, r, Offset(w + Len(h), Len(q) + 1), f)
  /\ Len(r) <= BatchSize

(* How many entries the recipe will have.                                  *)
ChainEnd(w, h, q, r, last) ==
  IF ~ last THEN Offset(w + Len(h), Len(q) + 1) + Len(r)
  ELSE IF q = << >> THEN w + Len(h)
  ELSE Offset(w + Len(h), Len(q)) + Len(q[Len(q)])

Written(s) == IF recipeWriter[s] = "open" THEN 0 ELSE total[s]

PendAt(L, s) ==
  /\ Chain(L, Written(s), InHand(s), recipeQueue[s], recipe[s], spc[s] = "join", job[s].file)
  /\ ChainEnd(Written(s), InHand(s), recipeQueue[s], recipe[s], spc[s] = "join")
       = IF spc[s] = "join" THEN Len(job[s].file) ELSE Reached(s)

(* The recipe writer runs while a file is received, and leaves when there  *)
(* is nothing left for it; a session finishes one upload at most.          *)
WriterAt(s) ==
  /\ recipeWriter[s] = "none" <=> ~ Uploading(s)
  /\ ~ Uploading(s) => /\ recipe[s] = << >> /\ recipeQueue[s] = << >>
                       /\ writing[s] = None
  /\ recipeWriter[s] = "exit" => done[s] /\ recipeQueue[s] = << >> /\ writing[s] = None
  /\ s \in finished => /\ spc[s] \in {"order", "closed"} /\ cpc[s] \in {"quit_rep", "closed"}
                       /\ total[s] = Len(job[s].file)

PendOk(L, s) == WriterAt(s) /\ (Uploading(s) => PendAt(L, s))

PendInv == \A s \in Sessions : PendOk({}, s)

(* What has been written is in the file, if nobody else writes it.         *)
DiskAt(L, s) ==
  LET r == recipes[RecipeName(key[s])]
  IN (Writers(RecipeName(key[s])) = {s} /\ recipeWriter[s] # "open") =>
       /\ RecipeName(key[s]) \in DOMAIN recipes
       /\ Len(r.entries) = total[s] /\ Named(L, r.entries, 0, job[s].file)
       /\ (recipeWriter[s] = "exit" \/ s \in finished) => r.total = total[s]

DiskInv == \A s \in Sessions : DiskAt({}, s)

----------------------------------------------------------------------------
(* The parts of the file that have been sent.                              *)

LEMMA FileTyped ==
  ASSUME TypeOK, NEW s \in Sessions
  PROVE  /\ job[s] \in Job /\ job[s].file \in Seq(Chunks) /\ Len(job[s].file) \in Nat
         /\ sent[s] \in Nat /\ batch[s] \in Seq(Chunks) /\ hashList[s] \in Seq(Chunks)
         /\ Len(batch[s]) \in Nat /\ Len(hashList[s]) \in Nat /\ Behind(s) \in Nat
  BY LockTypes, JobsAssumption DEF JobsAssumption, Job, Behind

LEMMA SliceKept ==
  ASSUME NEW t, SliceAt(t), TalkView(t)' = TalkView(t)
  PROVE  SliceAt(t)' /\ Reached(t)' = Reached(t)
<1>1. /\ job'[t] = job[t] /\ toServer'[t] = toServer[t] /\ cpc'[t] = cpc[t]
      /\ sent'[t] = sent[t] /\ batch'[t] = batch[t] /\ spc'[t] = spc[t]
      /\ hashList'[t] = hashList[t] /\ idx'[t] = idx[t]
  BY DEF TalkView
<1>2. Behind(t)' = Behind(t)
  BY <1>1 DEF Behind, Arrived
<1>3. Base(t)' = Base(t) /\ Reached(t)' = Reached(t)
  BY <1>1, <1>2 DEF Base, Reached
<1> QED
  BY <1>1, <1>2, <1>3 DEF SliceAt, Uploading

(* The next batch continues the file; it is empty at the end only.         *)
LEMMA NextBatchSlice ==
  ASSUME TypeOK, NEW s \in Sessions, sent[s] <= Len(job[s].file)
  PROVE  LET b == NextBatch(s)
         IN /\ b \in Seq(Chunks) /\ sent[s] + Len(b) <= Len(job[s].file)
            /\ \A i \in DOMAIN b : b[i] = job[s].file[sent[s] + i]
            /\ b = << >> => sent[s] = Len(job[s].file)
<1> DEFINE f == job[s].file
           n == Least(sent[s] + BatchSize, Len(f))
<1>1. f \in Seq(Chunks) /\ sent[s] \in Nat /\ Len(f) \in Nat
  BY FileTyped
<1>2. /\ n \in Nat /\ n <= Len(f) /\ sent[s] <= n
      /\ n = sent[s] => sent[s] = Len(f)
  BY <1>1, BatchSizeAssumption DEF BatchSizeAssumption, Least
<1> DEFINE b == NextBatch(s)
<1>3. b = SubSeq(f, sent[s] + 1, n)
  BY DEF NextBatch
<1>4. b \in Seq(Chunks)
  BY NextBatchTyped
<1> HIDE DEF f, n, b
<1>5. Len(b) = n - sent[s]
  BY <1>1, <1>2, <1>3
<1>6. \A i \in 1 .. n - sent[s] : b[i] = f[sent[s] + i]
  <2> SUFFICES ASSUME NEW i \in 1 .. n - sent[s] PROVE b[i] = f[sent[s] + i]
    OBVIOUS
  <2>1. i \in 1 .. (n - (sent[s] + 1) + 1)
    BY <1>1, <1>2
  <2>2. b[i] = f[i + (sent[s] + 1) - 1]
    BY <1>1, <1>2, <1>3, <2>1
  <2> QED
    BY <1>1, <1>2, <2>2
<1>7. DOMAIN b = 1 .. n - sent[s]
  BY <1>4, <1>5
<1>8. b = << >> => n = sent[s]
  BY <1>1, <1>2, <1>5
<1>9. sent[s] + Len(b) <= Len(f)
  BY <1>1, <1>2, <1>5
<1> QED
  BY <1>2, <1>4, <1>6, <1>7, <1>8, <1>9 DEF f, b

LEMMA SendBodySlice ==
  ASSUME TypeOK, NEW s \in Sessions, NEW d \in Seq(Bytes), SendBody(s, d), SliceAt(s),
         BodySent(s)', hashList[s] = batch[s], toServer[s] = << >>,
         spc[s] \in {"add_file", "body"}, UNCHANGED <<job, spc, hashList, idx>>
  PROVE  SliceAt(s)' /\ Reached(s)' = Reached(s)
<1> DEFINE b == NextBatch(s)
           f == job[s].file
<1>1. /\ f \in Seq(Chunks) /\ Len(f) \in Nat /\ sent[s] \in Nat /\ batch[s] \in Seq(Chunks)
      /\ Len(batch[s]) \in Nat /\ Len(hashList[s]) = Len(batch[s])
  BY FileTyped
<1>2. /\ b \in Seq(Chunks) /\ sent[s] + Len(b) <= Len(f)
      /\ \A i \in DOMAIN b : b[i] = f[sent[s] + i]
      /\ b = << >> => sent[s] = Len(f)
  BY NextBatchSlice DEF SliceAt
<1>3. /\ batch'[s] = b /\ sent'[s] = sent[s] + Len(b)
      /\ cpc'[s] = IF b = << >> THEN "quit_rep" ELSE "body_rep"
  BY LockTypes DEF SendBody
<1>4. Behind(s) = 0 /\ Behind(s)' = Len(batch[s])
  BY <1>1 DEF Behind, Arrived, BodySent
<1> HIDE DEF b, f
<1>5. Len(b) \in Nat
  BY <1>2
<1>a. Base(s) = sent[s] - Len(batch[s]) /\ Len(batch[s]) <= sent[s]
  BY <1>1, <1>4 DEF Base, SliceAt
<1>b. Base(s)' = (sent[s] + Len(b)) - (Len(b) + Len(batch[s]))
  BY <1>3, <1>4 DEF Base
<1>c. Base(s)' = Base(s)
  BY <1>1, <1>5, <1>a, <1>b
<1>d. Reached(s)' = Reached(s)
  BY <1>c DEF Reached
<1>6. /\ Base(s) = sent[s] - Len(batch[s]) /\ Base(s)' = Base(s) /\ Reached(s)' = Reached(s)
      /\ Len(batch[s]) <= sent[s] /\ sent'[s] - Len(batch'[s]) = sent[s]
  BY <1>1, <1>3, <1>5, <1>a, <1>c, <1>d
<1>7. Len(batch'[s]) + Behind(s)' <= sent'[s] /\ sent'[s] <= Len(f)
  BY <1>1, <1>2, <1>3, <1>4, <1>5, <1>6
<1>8. \A i \in DOMAIN batch'[s] : batch'[s][i] = f[sent'[s] - Len(batch'[s]) + i]
  BY <1>2, <1>3, <1>6
<1>9. /\ \A i \in DOMAIN hashList[s] : hashList[s][i] = f[Base(s) + i]
      /\ spc[s] = "add_file" => Base(s) = 0
  BY DEF SliceAt, f
<1>10. b = << >> => sent'[s] = Len(f)
  BY <1>1, <1>2, <1>3
<1> QED
  BY <1>3, <1>6, <1>7, <1>8, <1>9, <1>10 DEF SliceAt, f

(* Outside of the loop of receive_file.                                    *)
LEMMA NoSlice ==
  ASSUME TypeOK, NEW s \in Sessions, SliceAt(s), UNCHANGED <<job, sent, batch>>,
         hashList[s] = << >>, hashList'[s] = << >>,
         spc'[s] \in {"store", "entry"} => FALSE,
         ~ (Uploading(s)' \/ spc'[s] = "add_file") \/ cpc'[s] # "quit_rep"
           \/ (sent[s] = Len(job[s].file) /\ batch[s] = << >>),
         cpc'[s] \in {"start", "upload_rep"} => cpc[s] \in {"start", "upload_rep"},
         spc'[s] = "add_file" => sent[s] = 0 /\ batch[s] = << >>
  PROVE  SliceAt(s)' /\ Base(s)' = Base(s) /\ Base(s) = sent[s] - Len(batch[s])
<1>1. Behind(s) = 0 /\ Behind(s)' = 0
  BY DEF Behind
<1>2. Base(s)' = Base(s) /\ Base(s) = sent[s] - Len(batch[s])
  BY <1>1, FileTyped DEF Base
<1> QED
  BY <1>1, <1>2 DEF SliceAt

LEMMA ClientSlice ==
  ASSUME TypeOK, NEW s \in Sessions, ClientSide(s), LockAt(s), SliceAt(s)
  PROVE  SliceAt(s)' /\ (Uploading(s) => Reached(s)' = Reached(s))
<1>0. UNCHANGED <<job, spc, hashList, idx, flags>> /\ LockAt(s)'
  BY ClientLock DEF ClientSide, connVars, uploadVars
<1>1. ASSUME ~ Uploading(s), spc[s] # "add_file", UNCHANGED <<sent, batch>>,
             cpc'[s] \in {"start", "upload_rep"} => cpc[s] \in {"start", "upload_rep"}
      PROVE  SliceAt(s)'
  <2>1. hashList[s] = << >>
    BY <1>1 DEF LockAt, QueryAt, Uploading
  <2>2. ~ Uploading(s)' /\ spc'[s] # "add_file" /\ spc'[s] \notin {"store", "entry"}
    BY <1>0, <1>1 DEF Uploading
  <2> QED
    BY <1>0, <1>1, <2>1, <2>2, NoSlice
<1>2. CASE Connect(s)
  <2>1. spc[s] = "accepted" /\ cpc[s] = "start" /\ UNCHANGED <<sent, batch>>
    BY <1>2, ClientPhase DEF Connect, Starting
  <2> QED
    BY <1>1, <2>1 DEF Uploading
<1>3. CASE UploadDuplicate(s)
  <2>1. Admitting(s) /\ Head(toClient[s]).status = "DUPLICATE" /\ toClient[s] # << >>
    BY <1>3, ClientPhase DEF UploadDuplicate, Arrived
  <2>2. spc[s] = "order" /\ cpc[s] = "upload_rep"
    BY <2>1, ToldFirst, MsgTypes DEF Admitting, Silent, Answered
  <2> QED
    BY <1>1, <1>3, <2>2 DEF UploadDuplicate, Uploading
<1>4. CASE UploadUnique(s) \/ UploadBatch(s)
  <2>1. /\ BodySent(s)' /\ toServer[s] = << >> /\ spc[s] \in {"add_file", "body"}
        /\ hashList[s] = batch[s] \/ (cpc[s] = "upload_rep" /\ hashList[s] = << >>)
    BY <1>0, <1>4, UploadSends
  <2>2. PICK d \in Seq(Bytes) : SendBody(s, d)
    BY <1>0, <1>4, UploadSends
  <2>3. hashList[s] = batch[s]
    BY <2>1 DEF SliceAt
  <2> QED
    BY <1>0, <2>1, <2>2, <2>3, SendBodySlice
<1>5. CASE DownloadRefused(s) \/ DownloadGranted(s) \/ DownloadBody(s) \/ DownloadEnd(s)
  <2>1. Downloading(s) /\ UNCHANGED <<sent, batch>>
    BY <1>5, ClientPhase DEF DownloadRefused, DownloadGranted, DownloadBody, DownloadEnd
  <2>2. ~ Uploading(s) /\ spc[s] # "add_file"
    BY <2>1 DEF Downloading, Streaming, Uploading
  <2>3. cpc'[s] \in {"quit_rep", "download"}
    BY <1>5, LockTypes DEF DownloadRefused, DownloadGranted, DownloadBody, DownloadEnd, SendQuit
  <2> QED
    BY <1>1, <2>1, <2>2, <2>3
<1>6. CASE Close(s)
  <2>1. Ending(s) /\ toClient[s] # << >> /\ cpc'[s] = "closed" /\ UNCHANGED <<sent, batch>>
    BY <1>6, ClientPhase, LockTypes DEF Close, Arrived
  <2>2. spc[s] = "closed"
    BY <1>6, <2>1 DEF Ending, Told, Close
  <2> QED
    BY <1>1, <2>1, <2>2 DEF Uploading
<1> QED
  BY <1>2, <1>3, <1>4, <1>5, <1>6 DEF ClientSide, ClientStep

----------------------------------------------------------------------------
(* The handler takes the hashes over, batch by batch, and counts through   *)
(* them.                                                                   *)

(* A step inside of receive_file that keeps hashList.                      *)
LEMMA SameSlice ==
  ASSUME NEW s \in Sessions, SliceAt(s), UNCHANGED <<job, cpc, sent, batch, hashList>>,
         Behind(s)' = Behind(s), Uploading(s), Uploading(s)'
  PROVE  SliceAt(s)' /\ Base(s)' = Base(s)
<1>1. Base(s)' = Base(s)
  BY DEF Base
<1>2. spc'[s] # "add_file"
  BY DEF Uploading
<1> QED
  BY <1>1, <1>2 DEF SliceAt

LEMMA HandlerSlice ==
  ASSUME TypeOK, NEW s \in Sessions, HandlerStep(s), UNCHANGED <<job, cpc, sent, batch>>,
         LockAt(s), SliceAt(s)
  PROVE  /\ SliceAt(s)'
         /\ Uploading(s) => Reached(s)' = IF spc[s] = "entry" /\ spc'[s] = "store"
                                          THEN Reached(s) + 1 ELSE Reached(s)
         /\ spc[s] = "add_file" => Reached(s)' = 0
<1> USE DEF Uploading
<1>0. /\ sent[s] \in Nat /\ Len(batch[s]) \in Nat /\ Len(hashList[s]) \in Nat
      /\ idx[s] \in Nat \ {0} /\ Behind(s) \in Nat
      /\ hashList[s] \in Seq(Chunks) /\ Base(s) \in Nat
  <2>1. /\ sent[s] \in Nat /\ Len(batch[s]) \in Nat /\ Len(hashList[s]) \in Nat
        /\ idx[s] \in Nat \ {0} /\ Behind(s) \in Nat /\ hashList[s] \in Seq(Chunks)
    BY FileTyped, LockTypes
  <2> QED
    BY <2>1 DEF Base, SliceAt
<1>1. CASE RunStep(s)
  <2>1. spc[s] \in {"accepted", "order"} /\ spc'[s] \in {"order", "unique", "exist", "closed"}
    BY <1>1, LockTypes DEF RunStep, Serve, RecvOrder, RecvQuit, Goto
  <2>2. hashList[s] = << >> /\ hashList' = hashList
    BY <1>1, <2>1 DEF RunStep, uploadVars, LockAt, QueryAt
  <2> QED
    BY <2>1, <2>2, NoSlice
<1>2. CASE DownloadStep(s)
  <2>1. /\ spc[s] \in {"exist", "open", "recipe", "chunk"}
        /\ spc'[s] \in {"open", "order", "recipe", "chunk"}
    BY <1>2, LockTypes DEF DownloadStep, CheckExist, OpenForRead, ReadRecipe, ReadChunk,
                           SendDownBody, SendFileEnd, Goto
  <2>2. hashList[s] = << >> /\ hashList' = hashList
    BY <1>2, <2>1 DEF DownloadStep, uploadVars, LockAt, QueryAt
  <2> QED
    BY <2>1, <2>2, NoSlice
<1>3. CASE AdmitStep(s)
  <2>0. hashList' = hashList /\ spc[s] \in {"unique", "add_file"}
    BY <1>3 DEF AdmitStep, CheckUnique, AddFile
  <2>1. hashList[s] = << >>
    BY <2>0 DEF LockAt, QueryAt
  <2>2. CASE CheckUnique(s)
    <3>1. spc[s] = "unique" /\ spc'[s] \in {"add_file", "order"}
      BY <2>2, LockTypes DEF CheckUnique, Goto
    <3>2. cpc[s] = "upload_rep"
      BY <3>1, ServerPhase DEF Admitting
    <3>3. sent[s] = 0 /\ batch[s] = << >>
      BY <3>2 DEF SliceAt
    <3> QED
      BY <2>0, <2>1, <3>1, <3>2, <3>3, NoSlice
  <2>3. CASE AddFile(s)
    <3>1. spc[s] = "add_file" /\ spc'[s] = "body"
      BY <2>3, LockTypes DEF AddFile, Goto
    <3>2. Base(s) = 0 /\ (cpc[s] = "quit_rep" => sent[s] = Len(job[s].file) /\ batch[s] = << >>)
      BY <3>1 DEF SliceAt
    <3>3. SliceAt(s)' /\ Base(s)' = Base(s)
      BY <2>0, <2>1, <3>1, <3>2, NoSlice
    <3> QED
      BY <3>1, <3>2, <3>3 DEF Reached
  <2> QED
    BY <1>3, <2>2, <2>3 DEF AdmitStep
<1>4. CASE ReceiveStep(s)
  <2>0. hashList' = hashList /\ spc[s] = "body"
    BY <1>4 DEF ReceiveStep
  <2>1. CASE RecvBody(s)
    <3>1. Arrived(toServer, s, "UPLOADBODY") /\ spc'[s] = "store" /\ idx'[s] = 1
      BY <2>1, LockTypes DEF RecvBody, Goto
    <3>2. Behind(s)' = Behind(s)
      BY <2>0, <3>1 DEF Behind
    <3>3. SliceAt(s)' /\ Base(s)' = Base(s)
      BY <2>0, <3>1, <3>2, SameSlice
    <3> QED
      BY <1>0, <2>0, <3>1, <3>3 DEF Reached
  <2>2. CASE RecvFileEnd(s)
    <3>1. Replied(s) /\ toServer[s] # << >> /\ spc'[s] = "last_container"
      BY <2>0, <2>2, ServerPhase, LockTypes DEF RecvFileEnd, Goto, Arrived
    <3>2. cpc[s] = "quit_rep" /\ batch[s] = << >> /\ hashList[s] = << >>
      BY <3>1 DEF Replied, Answered
    <3>3. sent[s] = Len(job[s].file)
      BY <2>0, <3>2 DEF SliceAt
    <3>4. SliceAt(s)' /\ Base(s)' = Base(s)
      BY <2>0, <3>1, <3>2, <3>3, NoSlice
    <3> QED
      BY <2>0, <3>1, <3>4 DEF Reached
  <2> QED
    BY <1>4, <2>1, <2>2 DEF ReceiveStep
<1>5. CASE StoreStep(s)
  <2>0. hashList' = hashList
    BY <1>5 DEF StoreStep
  <2>1. /\ spc[s] \in {"store", "entry"} /\ spc'[s] \in {"store", "entry"}
        /\ idx'[s] = IF spc[s] = "entry" /\ spc'[s] = "store" THEN idx[s] + 1 ELSE idx[s]
    <3>1. CASE FlushContainer(s) \/ FlushRecipe(s)
      BY <3>1 DEF FlushContainer, FlushRecipe, AtChunk, HasChunk
    <3>2. CASE StoreChunk(s) \/ TakeDuplicate(s)
      BY <3>2, LockTypes DEF StoreChunk, TakeDuplicate, AtChunk, HasChunk, Goto
    <3>3. CASE WriteEntry(s)
      BY <3>3, LockTypes DEF WriteEntry, Goto
    <3> QED
      BY <1>5, <3>1, <3>2, <3>3 DEF StoreStep
  <2>2. Behind(s)' = Behind(s)
    BY <2>0, <2>1 DEF Behind
  <2>3. SliceAt(s)' /\ Base(s)' = Base(s)
    BY <2>0, <2>1, <2>2, SameSlice
  <2> QED
    BY <1>0, <2>1, <2>3 DEF Reached
<1>6. CASE QueryStep(s)
  <2>0. toServer' = toServer
    BY <1>6 DEF QueryStep
  <2>1. CASE BeginQuery(s)
    <3>1. /\ spc[s] = "store" /\ spc'[s] = "query" /\ hashList'[s] = inMsg[s].query
          /\ idx[s] > Len(hashList[s])
      BY <2>1, LockTypes DEF BeginQuery, Goto
    <3>2. Storing(s) /\ idx[s] = Len(hashList[s]) + 1
      BY <1>0, <3>1, ServerPhase DEF LockAt, QueryAt
    <3>3. hashList'[s] = batch[s] /\ Told(s, End(s))
      BY <3>1, <3>2 DEF Storing
    <3>4. Behind(s) = Len(hashList[s]) /\ Behind(s)' = 0
      <4>1. ~ Arrived(toServer', s, "UPLOADBODY")
        BY <2>0, <3>3, ShortSeqs, MsgTypes DEF Told, End, Arrived
      <4> QED
        BY <3>1, <4>1 DEF Behind
    <3>5. Base(s)' = sent[s] - Len(batch[s])
      BY <1>0, <3>4 DEF Base
    <3>6. Base(s) = sent[s] - (Len(batch[s]) + Len(hashList[s]))
      BY <3>4 DEF Base
    <3>7. Reached(s)' = Reached(s)
      <4>1. Reached(s) = Base(s) + Len(hashList[s])
        BY <1>0, <3>1, <3>2 DEF Reached
      <4>2. Reached(s)' = Base(s)' + 0
        BY <3>1 DEF Reached
      <4>3. \A a, b, h \in Nat : (a - (b + h)) + h = (a - b) + 0
        OBVIOUS
      <4>4. Reached(s) = (sent[s] - (Len(batch[s]) + Len(hashList[s]))) + Len(hashList[s])
        BY <3>6, <4>1
      <4>5. Reached(s)' = (sent[s] - Len(batch[s])) + 0
        BY <3>5, <4>2
      <4> QED
        BY <1>0, <4>3, <4>4, <4>5
    <3>8. /\ sent[s] <= Len(job[s].file) /\ Len(batch[s]) + Behind(s) <= sent[s]
          /\ \A i \in DOMAIN batch[s] : batch[s][i] = job[s].file[sent[s] - Len(batch[s]) + i]
          /\ cpc[s] = "quit_rep" => sent[s] = Len(job[s].file) /\ batch[s] = << >>
          /\ cpc[s] \in {"start", "upload_rep"} => sent[s] = 0 /\ batch[s] = << >>
      BY <3>1 DEF SliceAt
    <3>9. Len(batch[s]) + 0 <= sent[s]
      BY <1>0, <3>8
    <3>a. job' = job /\ cpc' = cpc /\ sent' = sent /\ batch' = batch /\ spc'[s] # "add_file"
      BY <3>1
    <3>b. \A i \in DOMAIN hashList'[s] : hashList'[s][i] = job[s].file[Base(s)' + i]
      BY <3>3, <3>5, <3>8
    <3>10. SliceAt(s)'
      BY <3>4, <3>8, <3>9, <3>a, <3>b DEF SliceAt
    <3> QED
      BY <3>1, <3>7, <3>10
  <2>2. CASE QueryChunk(s) \/ SendReply(s)
    <3>1. spc[s] = "query" /\ spc'[s] \in {"query", "body"} /\ hashList' = hashList
      BY <2>2, LockTypes DEF QueryChunk, SendReply, Goto
    <3>2. Told(s, End(s))
      BY <3>1, ServerPhase DEF Querying
    <3>3. Behind(s) = 0 /\ Behind(s)' = 0
      <4>1. ~ Arrived(toServer, s, "UPLOADBODY")
        BY <3>2, ShortSeqs, MsgTypes DEF Told, End, Arrived
      <4> QED
        BY <2>0, <3>1, <4>1 DEF Behind
    <3>4. SliceAt(s)' /\ Base(s)' = Base(s)
      BY <3>1, <3>3, SameSlice
    <3> QED
      BY <3>1, <3>4 DEF Reached
  <2> QED
    BY <1>6, <2>1, <2>2 DEF QueryStep
<1>7. CASE FinishStep(s)
  <2>1. /\ spc[s] \in {"last_container", "last_recipe", "join"}
        /\ spc'[s] \in {"last_recipe", "join", "order"}
        /\ hashList'[s] \in {hashList[s], << >>}
    BY <1>7, LockTypes DEF FinishStep, InsertLastContainer, InsertLastRecipe, Join, Goto
  <2>2. hashList[s] = << >> /\ cpc[s] = "quit_rep"
    BY <2>1, ServerPhase DEF LockAt, QueryAt, Ending
  <2>3. sent[s] = Len(job[s].file) /\ batch[s] = << >>
    BY <2>1, <2>2 DEF SliceAt
  <2>4. SliceAt(s)' /\ Base(s)' = Base(s)
    BY <2>1, <2>2, <2>3, NoSlice
  <2> QED
    BY <2>1, <2>4 DEF Reached
<1> QED
  BY <1>1, <1>2, <1>3, <1>4, <1>5, <1>6, <1>7 DEF HandlerStep, UploadStep

----------------------------------------------------------------------------
(* Entries on their way: what a step does to them.                         *)

Blocks(w, h, q, r) ==
  w \in Nat /\ h \in Entries /\ q \in Seq(Entries) /\ r \in Entries

LEMMA OffsetNext ==
  ASSUME NEW n \in Nat, NEW j \in Nat
  PROVE  /\ Offset(n, j + 1) \in Nat /\ Offset(n, j + 2) \in Nat /\ Offset(n, 1) = n
         /\ Offset(n, j + 2) = Offset(n, j + 1) + BatchSize
         /\ Offset(n + BatchSize, j + 1) = Offset(n, j + 2)
<1>0. BatchSize \in Nat \ {0}
  BY BatchSizeAssumption DEF BatchSizeAssumption
<1>1. \A a, b \in Nat : a * b \in Nat
  OBVIOUS
<1>2. \A b \in Nat : 0 * b = 0
  OBVIOUS
<1>3. \A a, b \in Nat : (a + 1) * b = a * b + b
  OBVIOUS
<1>4. (j + 1) - 1 = j /\ (j + 2) - 1 = j + 1 /\ 1 - 1 = 0
  OBVIOUS
<1>5. Offset(n, j + 1) = n + j * BatchSize /\ Offset(n, j + 2) = n + (j + 1) * BatchSize
  BY <1>4 DEF Offset
<1>6. Offset(n, 1) = n + 0 * BatchSize
  BY <1>4 DEF Offset
<1>7. Offset(n + BatchSize, j + 1) = (n + BatchSize) + j * BatchSize
  BY <1>4 DEF Offset
<1>8. j * BatchSize \in Nat /\ (j + 1) * BatchSize = j * BatchSize + BatchSize
      /\ 0 * BatchSize = 0
  BY <1>0, <1>1, <1>2, <1>3
<1> QED
  BY <1>0, <1>5, <1>6, <1>7, <1>8

LEMMA ChainKept ==
  ASSUME NEW L, AddressesKept(L), NEW w, NEW h, NEW q, NEW r, NEW last, NEW f,
         Chain(L, w, h, q, r, last, f)
  PROVE  Chain(L, w, h, q, r, last, f)'
<1>1. \A b, n : Named(L, b, n, f) => Named(L, b, n, f)'
  BY DEF Named, AddressesKept
<1> QED
  BY <1>1 DEF Chain

(* receive_file begins.                                                    *)
LEMMA ChainEmpty ==
  ASSUME NEW L, NEW f, Len(f) \in Nat
  PROVE  /\ Chain(L, 0, << >>, << >>, << >>, FALSE, f)
         /\ ChainEnd(0, << >>, << >>, << >>, FALSE) = 0
<1>0. Offset(0, 1) = 0
  BY OffsetNext
<1>1. Len(<< >>) = 0 /\ 0 + 0 = 0 /\ 0 + 1 = 1 /\ Offset(0, 1) = 0 /\ DOMAIN << >> = {}
  BY <1>0
<1>2. Named(L, << >>, 0, f)
  BY <1>1 DEF Named
<1>3. 0 <= BatchSize
  BY BatchSizeAssumption DEF BatchSizeAssumption
<1> QED
  BY <1>1, <1>2, <1>3 DEF Chain, ChainEnd

(* A full buffer is queued.                                                *)
LEMMA ChainFlush ==
  ASSUME NEW L, NEW w, NEW h, NEW q, NEW r, NEW f, Blocks(w, h, q, r), Len(f) \in Nat,
         Chain(L, w, h, q, r, FALSE, f), Len(r) = BatchSize
  PROVE  /\ Chain(L, w, h, Append(q, r), << >>, FALSE, f)
         /\ ChainEnd(w, h, Append(q, r), << >>, FALSE) = ChainEnd(w, h, q, r, FALSE)
<1> DEFINE n == w + Len(h)
           p == Append(q, r)
<1>1. n \in Nat /\ Len(q) \in Nat /\ BatchSize \in Nat
  BY BatchSizeAssumption DEF BatchSizeAssumption, Blocks, Entries
<1>2. /\ Len(p) = Len(q) + 1 /\ DOMAIN p = 1 .. Len(q) + 1 /\ DOMAIN q = 1 .. Len(q)
      /\ p[Len(q) + 1] = r /\ \A j \in 1 .. Len(q) : p[j] = q[j]
  BY DEF Blocks
<1>3. /\ Named(L, h, w, f) /\ Named(L, r, Offset(n, Len(q) + 1), f)
      /\ \A j \in 1 .. Len(q) : Named(L, q[j], Offset(n, j), f) /\ Len(q[j]) = BatchSize
  BY <1>2 DEF Chain
<1> HIDE DEF n, p
<1>4. /\ Offset(n, Len(q) + 1) \in Nat /\ Offset(n, Len(q) + 2) \in Nat
      /\ Offset(n, Len(q) + 2) = Offset(n, Len(q) + 1) + BatchSize
  BY <1>1, OffsetNext
<1>5. Offset(n, Len(p) + 1) = Offset(n, Len(q) + 1) + BatchSize
  <2>1. Len(p) + 1 = Len(q) + 2
    BY <1>1, <1>2
  <2> QED
    BY <1>4, <2>1
<1>6. Named(L, << >>, Offset(n, Len(p) + 1), f)
  <2>1. Offset(n, Len(q) + 1) + BatchSize <= Len(f)
    BY <1>3 DEF Named
  <2> QED
    BY <1>1, <1>4, <1>5, <2>1 DEF Named
<1>7. \A j \in DOMAIN p : Named(L, p[j], Offset(n, j), f) /\ Len(p[j]) = BatchSize
  <2> SUFFICES ASSUME NEW j \in 1 .. Len(q) + 1
               PROVE  Named(L, p[j], Offset(n, j), f) /\ Len(p[j]) = BatchSize
    BY <1>2
  <2>1. CASE j \in 1 .. Len(q)
    BY <1>2, <1>3, <2>1
  <2>2. CASE j = Len(q) + 1
    BY <1>2, <1>3, <2>2
  <2> QED
    BY <1>1, <2>1, <2>2
<1>8. 0 <= BatchSize /\ Len(<< >>) = 0
  BY <1>1
<1>9. Chain(L, w, h, p, << >>, FALSE, f)
  BY <1>3, <1>6, <1>7, <1>8 DEF Chain, n
<1>10. ChainEnd(w, h, p, << >>, FALSE) = Offset(n, Len(p) + 1)
  <2>1. ChainEnd(w, h, p, << >>, FALSE) = Offset(n, Len(p) + 1) + 0
    BY <1>8 DEF ChainEnd, n
  <2>2. Offset(n, Len(p) + 1) \in Nat
    BY <1>1, <1>4, <1>5
  <2>3. \A a \in Nat : a + 0 = a
    OBVIOUS
  <2> QED
    BY <2>1, <2>2, <2>3
<1>11. ChainEnd(w, h, q, r, FALSE) = Offset(n, Len(q) + 1) + BatchSize
  BY DEF ChainEnd, n
<1> QED
  BY <1>5, <1>9, <1>10, <1>11 DEF p

(* write_recipe_entry: a names the chunk behind those that have an entry.  *)
Fits(L, w, h, q, r, last, f, a) ==
  LET e == ChainEnd(w, h, q, r, last)
  IN /\ Blocks(w, h, q, r) /\ Len(f) \in Nat /\ Chain(L, w, h, q, r, last, f) /\ ~ last
     /\ Len(r) < BatchSize /\ a \in Addr \cup {NoAddr} /\ a # NoAddr
     /\ e < Len(f) /\ Found(L, a, f[e + 1])

LEMMA ChainEntry ==
  ASSUME NEW L, NEW w, NEW h, NEW q, NEW r, NEW last \in BOOLEAN,
         NEW f, NEW a, Fits(L, w, h, q, r, last, f, a)
  PROVE  /\ Chain(L, w, h, q, Append(r, a), last, f)
         /\ ChainEnd(w, h, q, Append(r, a), last) = ChainEnd(w, h, q, r, last) + 1
<1> DEFINE p == Append(r, a)
           e == ChainEnd(w, h, q, r, last)
<1>0. /\ Blocks(w, h, q, r) /\ Len(f) \in Nat /\ Chain(L, w, h, q, r, last, f) /\ ~ last
      /\ Len(r) < BatchSize /\ a \in Addr \cup {NoAddr} /\ a # NoAddr
      /\ e < Len(f) /\ Found(L, a, f[e + 1])
  BY DEF Fits
<1> DEFINE n == Offset(w + Len(h), Len(q) + 1)
<1>1. n \in Nat /\ Len(r) \in Nat /\ BatchSize \in Nat
  <2>1. w + Len(h) \in Nat /\ Len(q) \in Nat /\ Len(r) \in Nat
    BY <1>0 DEF Blocks, Entries
  <2> QED
    BY <2>1, OffsetNext, BatchSizeAssumption DEF BatchSizeAssumption
<1>2. /\ Len(p) = Len(r) + 1 /\ DOMAIN p = 1 .. Len(r) + 1 /\ DOMAIN r = 1 .. Len(r)
      /\ p[Len(r) + 1] = a /\ \A k \in 1 .. Len(r) : p[k] = r[k]
  BY <1>0 DEF Blocks, Entries
<1>3. ChainEnd(w, h, q, r, last) = n + Len(r) /\ ChainEnd(w, h, q, p, last) = n + Len(p)
  BY <1>0 DEF ChainEnd
<1>4. Named(L, r, n, f)
  BY <1>0 DEF Chain
<1> HIDE DEF n, p
<1>5. Named(L, p, n, f)
  <2>0. n + Len(r) < Len(f)
    BY <1>0, <1>3
  <2>1. n + Len(p) <= Len(f) /\ (n + Len(r)) + 1 = n + (Len(r) + 1)
    BY <1>0, <1>1, <1>2, <2>0
  <2>2. Found(L, p[Len(r) + 1], f[n + (Len(r) + 1)])
    BY <1>0, <1>2, <1>3, <2>1
  <2>3. \A k \in 1 .. Len(r) : p[k] # NoAddr /\ Found(L, p[k], f[n + k])
    BY <1>2, <1>4 DEF Named
  <2>4. \A k \in DOMAIN p : k \in 1 .. Len(r) \/ k = Len(r) + 1
    BY <1>1, <1>2
  <2> QED
    BY <1>0, <1>2, <2>1, <2>2, <2>3, <2>4 DEF Named
<1>6. Len(p) <= BatchSize
  BY <1>0, <1>1, <1>2
<1>7. Chain(L, w, h, q, p, last, f)
  BY <1>0, <1>5, <1>6 DEF Chain, n
<1>8. ChainEnd(w, h, q, p, last) = e + 1
  <2>1. n + Len(p) = (n + Len(r)) + 1
    BY <1>1, <1>2
  <2> QED
    BY <1>3, <2>1
<1> QED
  BY <1>7, <1>8 DEF p

(* The buffer is queued as the last block, full or not.                    *)
LEMMA ChainLast ==
  ASSUME NEW L, NEW w, NEW h, NEW q, NEW r, NEW f, Blocks(w, h, q, r),
         Chain(L, w, h, q, r, FALSE, f)
  PROVE  /\ Chain(L, w, h, Append(q, r), r, TRUE, f)
         /\ ChainEnd(w, h, Append(q, r), r, TRUE) = ChainEnd(w, h, q, r, FALSE)
<1> DEFINE n == w + Len(h)
           p == Append(q, r)
<1>1. Len(q) \in Nat
  BY DEF Blocks
<1>2. /\ Len(p) = Len(q) + 1 /\ DOMAIN p = 1 .. Len(q) + 1 /\ DOMAIN q = 1 .. Len(q)
      /\ p[Len(q) + 1] = r /\ \A j \in 1 .. Len(q) : p[j] = q[j]
  BY DEF Blocks
<1>3. /\ Named(L, h, w, f) /\ Named(L, r, Offset(n, Len(q) + 1), f) /\ Len(r) <= BatchSize
      /\ \A j \in 1 .. Len(q) : Named(L, q[j], Offset(n, j), f) /\ Len(q[j]) = BatchSize
  BY <1>2 DEF Chain
<1>4. p # << >>
  BY <1>1, <1>2
<1> HIDE DEF n, p
<1>5. ASSUME NEW j \in DOMAIN p
      PROVE  Named(L, p[j], Offset(n, j), f) /\ (Len(p[j]) = BatchSize \/ j = Len(p))
  <2>1. CASE j \in 1 .. Len(q)
    BY <1>2, <1>3, <2>1
  <2>2. CASE j = Len(q) + 1
    BY <1>2, <1>3, <2>2
  <2> QED
    BY <1>1, <1>2, <2>1, <2>2
<1>6. Chain(L, w, h, p, r, TRUE, f)
  BY <1>3, <1>5 DEF Chain, n
<1>7. ChainEnd(w, h, p, r, TRUE) = Offset(n, Len(q) + 1) + Len(r)
  BY <1>2, <1>4 DEF ChainEnd, n
<1>8. ChainEnd(w, h, q, r, FALSE) = Offset(n, Len(q) + 1) + Len(r)
  BY DEF ChainEnd, n
<1> QED
  BY <1>6, <1>7, <1>8 DEF p

(* The writer takes the first block.                                       *)
LEMMA ChainPop ==
  ASSUME NEW L, NEW w, NEW q, NEW r, NEW last \in BOOLEAN, NEW f, Blocks(w, << >>, q, r),
         Chain(L, w, << >>, q, r, last, f), q # << >>
  PROVE  /\ Chain(L, w, Head(q), Tail(q), r, last, f)
         /\ ChainEnd(w, Head(q), Tail(q), r, last) = ChainEnd(w, << >>, q, r, last)
<1> DEFINE p == Tail(q)
           b == Head(q)
<1>1. /\ w \in Nat /\ Len(q) \in Nat \ {0} /\ BatchSize \in Nat /\ w + Len(<< >>) = w
      /\ b \in Entries
  BY BatchSizeAssumption DEF BatchSizeAssumption, Blocks
<1>2. /\ b = q[1] /\ Len(p) = Len(q) - 1 /\ DOMAIN p = 1 .. Len(p) /\ DOMAIN q = 1 .. Len(q)
      /\ \A j \in DOMAIN p : p[j] = q[j + 1]
      /\ p = << >> <=> Len(q) = 1
  <2>1. q \in Seq(Entries) /\ q # << >>
    BY DEF Blocks
  <2>2. p \in Seq(Entries) /\ Len(p) = Len(q) - 1 /\ b = q[1]
    BY <2>1
  <2>3. DOMAIN p = 1 .. Len(p) /\ DOMAIN q = 1 .. Len(q)
    BY <2>1, <2>2
  <2>4. \A j \in DOMAIN p : p[j] = q[j + 1]
    BY <2>1
  <2>5. p = << >> <=> Len(q) = 1
    <3>1. \A z \in Seq(Entries) : z = << >> <=> Len(z) = 0
      OBVIOUS
    <3>2. Len(q) - 1 = 0 <=> Len(q) = 1
      BY <1>1
    <3> HIDE DEF p
    <3> QED
      BY <2>2, <3>1, <3>2
  <2> QED
    BY <2>2, <2>3, <2>4, <2>5
<1>3. Len(p) \in Nat /\ Len(b) \in Nat /\ 1 \in DOMAIN q
  BY <1>1, <1>2 DEF Entries
<1>4. /\ \A j \in DOMAIN q : /\ Named(L, q[j], Offset(w, j), f)
                             /\ Len(q[j]) = BatchSize \/ (j = Len(q) /\ last)
      /\ ~ last => Named(L, r, Offset(w, Len(q) + 1), f)
      /\ Len(r) <= BatchSize
  BY <1>1 DEF Chain
<1> HIDE DEF p, b
<1>5. Named(L, b, w, f)
  <2>1. Offset(w, 1) = w
    BY <1>1, OffsetNext
  <2> QED
    BY <1>2, <1>3, <1>4, <2>1
<1>6. Len(b) = BatchSize \/ (Len(q) = 1 /\ last)
  BY <1>2, <1>3, <1>4
<1>7. ASSUME Len(b) = BatchSize, NEW j \in Nat
      PROVE  Offset(w + Len(b), j + 1) = Offset(w, j + 2)
  BY <1>1, <1>7, OffsetNext
<1>8. ASSUME NEW j \in DOMAIN p
      PROVE  /\ Named(L, p[j], Offset(w + Len(b), j), f)
             /\ Len(p[j]) = BatchSize \/ (j = Len(p) /\ last)
  <2>1. /\ j \in Nat /\ j - 1 \in Nat /\ j + 1 \in DOMAIN q /\ (j - 1) + 1 = j
        /\ (j - 1) + 2 = j + 1 /\ Len(q) # 1 /\ (j + 1 = Len(q) => j = Len(p))
    BY <1>1, <1>2, <1>3
  <2>2. Offset(w + Len(b), j) = Offset(w, j + 1)
    BY <1>6, <1>7, <2>1
  <2> QED
    BY <1>2, <1>4, <2>1, <2>2
<1>9. Len(p) + 1 = Len(q) /\ Len(p) + 2 = Len(q) + 1
  BY <1>1, <1>2, <1>3
<1>10. ~ last => Offset(w + Len(b), Len(p) + 1) = Offset(w, Len(q) + 1)
  BY <1>3, <1>6, <1>7, <1>9
<1>11. Chain(L, w, b, p, r, last, f)
  BY <1>4, <1>5, <1>8, <1>10 DEF Chain
<1>12. ChainEnd(w, b, p, r, last) = ChainEnd(w, << >>, q, r, last)
  <2>1. CASE ~ last
    BY <1>1, <1>10, <2>1 DEF ChainEnd
  <2>2. CASE last /\ p = << >>
    <3>1. ChainEnd(w, b, p, r, last) = w + Len(b)
      BY <2>2 DEF ChainEnd
    <3>2. ChainEnd(w, << >>, q, r, last) = Offset(w, Len(q)) + Len(q[Len(q)])
      BY <1>1, <2>2 DEF ChainEnd
    <3>3. Len(q) = 1 /\ Offset(w, 1) = w
      BY <1>1, <1>2, <2>2, OffsetNext
    <3> QED
      BY <1>2, <3>1, <3>2, <3>3
  <2>3. CASE last /\ p # << >>
    <3>1. ChainEnd(w, b, p, r, last) = Offset(w + Len(b), Len(p)) + Len(p[Len(p)])
      BY <2>3 DEF ChainEnd
    <3>2. ChainEnd(w, << >>, q, r, last) = Offset(w, Len(q)) + Len(q[Len(q)])
      BY <1>1, <2>3 DEF ChainEnd
    <3>3. /\ Len(p) - 1 \in Nat /\ (Len(p) - 1) + 1 = Len(p) /\ (Len(p) - 1) + 2 = Len(q)
          /\ Len(p) \in DOMAIN p /\ Len(q) # 1
      BY <1>1, <1>2, <1>3, <1>9, <2>3
    <3>4. Offset(w + Len(b), Len(p)) = Offset(w, Len(q))
      BY <1>6, <1>7, <3>3
    <3>5. p[Len(p)] = q[Len(q)]
      BY <1>2, <1>9, <3>3
    <3> QED
      BY <3>1, <3>2, <3>4, <3>5
  <2> QED
    BY <2>1, <2>2, <2>3
<1> QED
  BY <1>11, <1>12 DEF p, b

(* The block is written.                                                   *)
LEMMA ChainWrite ==
  ASSUME NEW L, NEW w, NEW h, NEW q, NEW r, NEW last, NEW f, Blocks(w, h, q, r), Len(f) \in Nat,
         Chain(L, w, h, q, r, last, f)
  PROVE  /\ Chain(L, w + Len(h), << >>, q, r, last, f)
         /\ ChainEnd(w + Len(h), << >>, q, r, last) = ChainEnd(w, h, q, r, last)
<1>1. (w + Len(h)) + Len(<< >>) = w + Len(h) /\ w + Len(h) \in Nat
  BY DEF Blocks, Entries
<1>2. Named(L, << >>, w + Len(h), f)
  BY <1>1 DEF Chain, Named
<1> QED
  BY <1>1, <1>2 DEF Chain, ChainEnd

LEMMA OverlayNames ==
  ASSUME NEW L, NEW old \in Entries, NEW b \in Entries, NEW f, Len(f) \in Nat,
         Named(L, old, 0, f), Named(L, b, Len(old), f)
  PROVE  /\ Named(L, Overlay(old, Len(old), b), 0, f)
         /\ Len(Overlay(old, Len(old), b)) = Len(old) + Len(b)
<1> DEFINE n == Len(old)
           m == Len(old) + Len(b)
           e == Overlay(old, n, b)
<1>1. n \in Nat /\ Len(b) \in Nat /\ m \in Nat /\ n <= m
  BY DEF Entries
<1>2. (IF m > n THEN m ELSE n) = m
  BY <1>1
<1>3. e = [i \in 1 .. m |-> IF i > n /\ i <= m THEN b[i - n]
                           ELSE IF i <= n THEN old[i] ELSE NoAddr]
  BY <1>2 DEF Overlay
<1>4. DOMAIN old = 1 .. n /\ DOMAIN b = 1 .. Len(b)
  BY DEF Entries
<1>5. e \in Entries /\ Len(e) = m
  <2>1. \A i \in 1 .. m : e[i] \in Addr \cup {NoAddr}
    <3> SUFFICES ASSUME NEW i \in 1 .. m PROVE e[i] \in Addr \cup {NoAddr}
      OBVIOUS
    <3>1. CASE i > n
      <4>1. i - n \in 1 .. Len(b)
        BY <1>1, <3>1
      <4> QED
        BY <1>1, <1>3, <1>4, <3>1, <4>1 DEF Entries
    <3>2. CASE ~ i > n
      <4>1. i \in 1 .. n
        BY <1>1, <3>2
      <4> QED
        BY <1>1, <1>3, <1>4, <3>2, <4>1 DEF Entries
    <3> QED
      BY <3>1, <3>2
  <2> QED
    BY <1>1, <1>3, <2>1 DEF Entries
<1> HIDE DEF n, e
<1>6. ASSUME NEW k \in 1 .. m PROVE e[k] # NoAddr /\ Found(L, e[k], f[0 + k])
  <2>1. CASE k > n
    <3>1. k - n \in 1 .. Len(b) /\ n + (k - n) = k /\ 0 + k = k
      BY <1>1, <2>1 DEF n
    <3>2. b[k - n] # NoAddr /\ Found(L, b[k - n], f[n + (k - n)])
      BY <1>4, <3>1 DEF Named, n
    <3> QED
      BY <1>1, <1>3, <2>1, <3>1, <3>2
  <2>2. CASE ~ k > n
    <3>1. k \in 1 .. n /\ k <= n
      BY <1>1, <2>2
    <3>2. e[k] = old[k]
      BY <1>1, <1>3, <2>2, <3>1
    <3> QED
      BY <1>4, <3>1, <3>2 DEF Named
  <2> QED
    BY <2>1, <2>2
<1>7. 0 + Len(e) <= Len(f)
  BY <1>1, <1>5 DEF Named, n
<1>8. DOMAIN e = 1 .. m
  BY <1>3
<1> QED
  BY <1>5, <1>6, <1>7, <1>8 DEF Named, e, n

----------------------------------------------------------------------------
(* The entries of a session on their way, step by step.                    *)

LEMMA PendTo ==
  ASSUME NEW L, NEW s \in Sessions, AddressesKept(L), NEW w, NEW h, NEW q, NEW r,
         NEW last \in BOOLEAN, NEW f, Chain(L, w, h, q, r, last, f),
         Written(s)' = w, InHand(s)' = h, recipeQueue'[s] = q, recipe'[s] = r,
         spc'[s] = "join" <=> last, job'[s].file = f,
         ChainEnd(w, h, q, r, last) = IF last THEN Len(f) ELSE Reached(s)'
  PROVE  PendAt(L, s)'
<1>1. Chain(L, w, h, q, r, last, f)'
  BY ChainKept
<1>2. (spc[s] = "join")' = last
  OBVIOUS
<1>3. Chain(L, Written(s), InHand(s), recipeQueue[s], recipe[s], spc[s] = "join", job[s].file)'
  BY <1>1, <1>2 DEF Chain, Named
<1>4. ChainEnd(Written(s), InHand(s), recipeQueue[s], recipe[s], spc[s] = "join")'
        = ChainEnd(w, h, q, r, last)
  BY <1>2 DEF ChainEnd
<1> QED
  BY <1>2, <1>3, <1>4 DEF PendAt

(* What PendAt says, without the variables.                                *)
PendIs(L, s, w, h, q, r, last, f) ==
  /\ w = Written(s) /\ h = InHand(s) /\ q = recipeQueue[s] /\ r = recipe[s]
  /\ f = job[s].file /\ last \in BOOLEAN /\ (last <=> spc[s] = "join")
  /\ Blocks(w, h, q, r) /\ Len(f) \in Nat /\ Chain(L, w, h, q, r, last, f)
  /\ ChainEnd(w, h, q, r, last) = IF last THEN Len(f) ELSE Reached(s)

LEMMA PendFrom ==
  ASSUME NEW L, TypeOK, NEW s \in Sessions, PendAt(L, s)
  PROVE  \E w, h, q, r, last, f : PendIs(L, s, w, h, q, r, last, f)
<1>1. Blocks(Written(s), InHand(s), recipeQueue[s], recipe[s])
  BY ViewTypes DEF Blocks, Written, InHand, Entries
<1>2. Len(job[s].file) \in Nat
  BY FileTyped
<1>3. PICK last \in BOOLEAN : last <=> spc[s] = "join"
  BY Zenon
<1>4. Chain(L, Written(s), InHand(s), recipeQueue[s], recipe[s], last, job[s].file)
  BY <1>3 DEF PendAt, Chain
<1>5. ChainEnd(Written(s), InHand(s), recipeQueue[s], recipe[s], last)
        = IF last THEN Len(job[s].file) ELSE Reached(s)
  BY <1>3 DEF PendAt, ChainEnd
<1> WITNESS Written(s), InHand(s), recipeQueue[s], recipe[s], last, job[s].file
<1> QED
  BY <1>1, <1>2, <1>3, <1>4, <1>5 DEF PendIs

LEMMA PendKept ==
  ASSUME NEW L, TypeOK, AddressesKept(L), NEW s \in Sessions, PendOk(L, s), job'[s] = job[s],
         recipe'[s] = recipe[s], recipeQueue'[s] = recipeQueue[s], done'[s] = done[s],
         recipeWriter'[s] = recipeWriter[s], writing'[s] = writing[s], total'[s] = total[s],
         Uploading(s)' <=> Uploading(s), spc'[s] = "join" <=> spc[s] = "join",
         Uploading(s) => Reached(s)' = Reached(s), s \in finished' <=> s \in finished,
         s \in finished => /\ spc'[s] \in {"order", "closed"}
                           /\ cpc'[s] \in {"quit_rep", "closed"}
  PROVE  PendOk(L, s)'
<1>1. WriterAt(s)'
  <2>1. /\ (recipeWriter[s] = "none" <=> ~ Uploading(s))'
        /\ (~ Uploading(s) => /\ recipe[s] = << >> /\ recipeQueue[s] = << >>
                              /\ writing[s] = None)'
        /\ (recipeWriter[s] = "exit" =>
              done[s] /\ recipeQueue[s] = << >> /\ writing[s] = None)'
    BY DEF PendOk, WriterAt
  <2>2. s \in finished' => /\ spc'[s] \in {"order", "closed"}
                           /\ cpc'[s] \in {"quit_rep", "closed"}
                           /\ total'[s] = Len(job'[s].file)
    BY DEF PendOk, WriterAt
  <2> QED
    BY <2>1, <2>2 DEF WriterAt
<1>2. ASSUME Uploading(s) PROVE PendAt(L, s)'
  <2>1. PICK w, h, q, r, last, f : PendIs(L, s, w, h, q, r, last, f)
    BY <1>2, PendFrom DEF PendOk
  <2>2. Written(s)' = w /\ InHand(s)' = h
    BY <2>1 DEF PendIs, Written, InHand
  <2> QED
    BY <1>2, <2>1, <2>2, PendTo DEF PendIs
<1> QED
  BY <1>1, <1>2 DEF PendOk

(* The buffer is full: it is queued.                                       *)
LEMMA FlushPend ==
  ASSUME NEW L, TypeOK, AddressesKept(L), NEW s \in Sessions, FlushRecipe(s), PendOk(L, s),
         done[s] => spc[s] = "join",
         UNCHANGED <<job, writing, total, done, recipeWriter, finished>>,
         Uploading(s) => Reached(s)' = IF spc[s] = "entry" /\ spc'[s] = "store"
                                       THEN Reached(s) + 1 ELSE Reached(s)
  PROVE  PendOk(L, s)'
<1>1. /\ spc[s] = "entry" /\ spc' = spc /\ Len(recipe[s]) >= BatchSize
      /\ recipe'[s] = << >> /\ recipeQueue'[s] = Append(recipeQueue[s], recipe[s])
  BY ViewTypes DEF FlushRecipe, insert_recipe_queue
<1>2. PICK w, h, q, r, last, f : PendIs(L, s, w, h, q, r, last, f)
  BY <1>1, PendFrom DEF PendOk, Uploading
<1>3. last = FALSE
  BY <1>1, <1>2 DEF PendIs
<1>4. Len(r) = BatchSize
  <2>1. Len(r) \in Nat /\ BatchSize \in Nat
    BY <1>2, BatchSizeAssumption DEF PendIs, Blocks, Entries, BatchSizeAssumption
  <2>2. Len(r) <= BatchSize /\ Len(r) >= BatchSize
    BY <1>1, <1>2 DEF PendIs, Chain
  <2> QED
    BY <2>1, <2>2
<1>5. /\ Chain(L, w, h, Append(q, r), << >>, FALSE, f)
      /\ ChainEnd(w, h, Append(q, r), << >>, FALSE) = Reached(s)
  <2>1. /\ Blocks(w, h, q, r) /\ Len(f) \in Nat /\ Chain(L, w, h, q, r, FALSE, f)
        /\ ChainEnd(w, h, q, r, FALSE) = Reached(s)
    BY <1>2, <1>3 DEF PendIs
  <2>2. /\ Chain(L, w, h, Append(q, r), << >>, FALSE, f)
        /\ ChainEnd(w, h, Append(q, r), << >>, FALSE) = ChainEnd(w, h, q, r, FALSE)
    BY ONLY <1>4, <2>1, ChainFlush
  <2> QED
    BY <2>1, <2>2
<1>6. Written(s)' = w /\ InHand(s)' = h /\ Reached(s)' = Reached(s)
  BY <1>1, <1>2 DEF PendIs, Written, InHand, Uploading
<1>7. recipeQueue'[s] = Append(q, r) /\ job'[s].file = f
  BY <1>1, <1>2 DEF PendIs
<1>8. PendAt(L, s)'
  BY <1>1, <1>5, <1>6, <1>7, PendTo
<1>9. WriterAt(s) /\ recipeWriter[s] # "exit" /\ s \notin finished
  BY <1>1 DEF PendOk, WriterAt
<1>10. WriterAt(s)'
  BY <1>1, <1>9 DEF WriterAt, Uploading
<1> QED
  BY <1>8, <1>10 DEF PendOk

(* write_recipe_entry: the entry names the next chunk of the file.         *)
LEMMA EntryPend ==
  ASSUME NEW L, TypeOK, AddressesKept(L), NEW s \in Sessions, WriteEntry(s),
         LockAt(s), SliceAt(s), EntryAt(L, s), PendOk(L, s),
         UNCHANGED <<job, writing, total, done, recipeWriter, finished>>,
         Uploading(s) => Reached(s)' = IF spc[s] = "entry" /\ spc'[s] = "store"
                                       THEN Reached(s) + 1 ELSE Reached(s)
  PROVE  PendOk(L, s)'
<1>1. /\ spc[s] = "entry" /\ spc'[s] = "store" /\ Len(recipe[s]) < BatchSize
      /\ recipe'[s] = Append(recipe[s], chunkAddr[s]) /\ recipeQueue' = recipeQueue
  BY LockTypes, ViewTypes DEF WriteEntry, Goto
<1>2. PICK w, h, q, r, last, f : PendIs(L, s, w, h, q, r, last, f)
  BY <1>1, PendFrom DEF PendOk, Uploading
<1>3. last = FALSE
  BY <1>1, <1>2 DEF PendIs
<1>4. Reached(s) < Len(f) /\ hashList[s][idx[s]] = f[Reached(s) + 1]
  <2>1. /\ sent[s] \in Nat /\ Len(batch[s]) \in Nat /\ Len(hashList[s]) \in Nat
        /\ idx[s] \in Nat \ {0} /\ Len(f) \in Nat /\ hashList[s] \in Seq(Chunks)
    BY <1>2, FileTyped, LockTypes DEF PendIs
  <2>2. /\ idx[s] <= Len(hashList[s]) /\ Behind(s) = Len(hashList[s])
        /\ sent[s] <= Len(f) /\ Len(batch[s]) + Len(hashList[s]) <= sent[s]
    BY <1>1, <1>2 DEF LockAt, QueryAt, Behind, SliceAt, PendIs
  <2>3. idx[s] \in DOMAIN hashList[s]
    BY <2>1, <2>2
  <2>4. hashList[s][idx[s]] = f[Base(s) + idx[s]]
    BY <1>2, <2>3 DEF SliceAt, PendIs
  <2>5. Base(s) = sent[s] - (Len(batch[s]) + Len(hashList[s])) /\ Reached(s) = Base(s) + (idx[s] - 1)
    BY <1>1, <2>2 DEF Base, Reached
  <2>6. Base(s) \in Nat /\ Base(s) + idx[s] <= Len(f)
    <3>1. \A a, b, c, i, n \in Nat : (b + c <= a /\ a <= n /\ i <= c) =>
             a - (b + c) \in Nat /\ (a - (b + c)) + i <= n
      OBVIOUS
    <3>2. idx[s] \in Nat
      BY <2>1
    <3>3. /\ sent[s] - (Len(batch[s]) + Len(hashList[s])) \in Nat
          /\ (sent[s] - (Len(batch[s]) + Len(hashList[s]))) + idx[s] <= Len(f)
      BY <2>1, <2>2, <3>1, <3>2
    <3> QED
      BY <2>5, <3>3
  <2>7. (Base(s) + (idx[s] - 1)) + 1 = Base(s) + idx[s] /\ Base(s) + (idx[s] - 1) < Len(f)
    BY <2>1, <2>6
  <2> QED
    BY <2>4, <2>5, <2>7
<1>5. PICK a : a = chunkAddr[s]
  OBVIOUS
<1>6. a \in Addr \cup {NoAddr} /\ a # NoAddr /\ Found(L, a, f[Reached(s) + 1])
  BY <1>1, <1>4, <1>5, ViewTypes DEF EntryAt
<1>7. /\ Chain(L, w, h, q, Append(r, a), last, f)
      /\ ChainEnd(w, h, q, Append(r, a), last) = Reached(s) + 1
  <2>1. /\ Blocks(w, h, q, r) /\ Len(f) \in Nat /\ Chain(L, w, h, q, r, last, f)
        /\ ChainEnd(w, h, q, r, last) = Reached(s) /\ Len(r) < BatchSize
    BY <1>1, <1>2, <1>3 DEF PendIs
  <2>2. Fits(L, w, h, q, r, last, f, a)
    BY <1>3, <1>4, <1>6, <2>1 DEF Fits
  <2>3. /\ Chain(L, w, h, q, Append(r, a), last, f)
        /\ ChainEnd(w, h, q, Append(r, a), last) = ChainEnd(w, h, q, r, last) + 1
    BY <1>2, <2>2, ChainEntry DEF PendIs
  <2> QED
    BY <2>1, <2>3
<1>8. Written(s)' = w /\ InHand(s)' = h /\ Reached(s)' = Reached(s) + 1
  BY <1>1, <1>2 DEF PendIs, Written, InHand, Uploading
<1>9. recipe'[s] = Append(r, a) /\ recipeQueue'[s] = q /\ job'[s].file = f
  BY <1>1, <1>2, <1>5 DEF PendIs
<1>10. PendAt(L, s)'
  <2>1. last \in BOOLEAN /\ (spc'[s] = "join" <=> last)
    BY <1>1, <1>2, <1>3 DEF PendIs
  <2>2. ChainEnd(w, h, q, Append(r, a), last) = IF last THEN Len(f) ELSE Reached(s)'
    BY <1>3, <1>7, <1>8
  <2> QED
    BY <1>7, <1>8, <1>9, <2>1, <2>2, PendTo
<1>11. WriterAt(s)'
  BY <1>1 DEF PendOk, WriterAt, Uploading
<1> QED
  BY <1>10, <1>11 DEF PendOk

(* After FILEEND the buffer is queued; every chunk of the file has its     *)
(* entry.                                                                  *)
LEMMA LastPend ==
  ASSUME NEW L, TypeOK, AddressesKept(L), NEW s \in Sessions, InsertLastRecipe(s),
         LockAt(s), SliceAt(s), done[s] => spc[s] = "join", PendOk(L, s),
         UNCHANGED <<job, writing, total>>
  PROVE  PendOk(L, s)'
<1>1. /\ spc[s] = "last_recipe" /\ spc'[s] = "join" /\ UNCHANGED <<recipe, recipeWriter, finished>>
      /\ recipeQueue'[s] = Append(recipeQueue[s], recipe[s])
  BY LockTypes, ViewTypes DEF InsertLastRecipe, insert_recipe_queue, Goto, threadVars
<1>2. PICK w, h, q, r, last, f : PendIs(L, s, w, h, q, r, last, f)
  BY <1>1, PendFrom DEF PendOk, Uploading
<1>3. last = FALSE
  BY <1>1, <1>2 DEF PendIs
<1>4. Reached(s) = Len(f)
  <2>1. hashList[s] = << >> /\ cpc[s] = "quit_rep"
    BY <1>1, ServerPhase DEF LockAt, QueryAt, Ending
  <2>2. sent[s] = Len(f) /\ batch[s] = << >> /\ Behind(s) = 0
    BY <1>1, <1>2, <2>1 DEF SliceAt, Uploading, PendIs, Behind
  <2>3. Base(s) = Len(f) - (0 + 0) /\ Reached(s) = Base(s) + 0
    BY <1>1, <2>2 DEF Base, Reached
  <2>4. \A n \in Nat : n - (0 + 0) = n /\ n + 0 = n
    OBVIOUS
  <2> QED
    BY <1>2, <2>3, <2>4 DEF PendIs
<1>5. /\ Chain(L, w, h, Append(q, r), r, TRUE, f)
      /\ ChainEnd(w, h, Append(q, r), r, TRUE) = Len(f)
  BY <1>2, <1>3, <1>4, ChainLast DEF PendIs
<1>6. Written(s)' = w /\ InHand(s)' = h
  BY <1>1, <1>2 DEF PendIs, Written, InHand
<1>7. recipe'[s] = r /\ recipeQueue'[s] = Append(q, r) /\ job'[s].file = f
  BY <1>1, <1>2 DEF PendIs
<1>8. PendAt(L, s)'
  BY <1>1, <1>5, <1>6, <1>7, PendTo
<1>9. WriterAt(s) /\ recipeWriter[s] # "exit" /\ s \notin finished
  BY <1>1 DEF PendOk, WriterAt
<1>10. WriterAt(s)'
  BY <1>1, <1>9 DEF WriterAt, Uploading
<1> QED
  BY <1>8, <1>10 DEF PendOk

(* Join: the writer has left, and every entry is in the recipe.            *)
LEMMA JoinPend ==
  ASSUME NEW L, TypeOK, NEW s \in Sessions, Join(s), LockAt(s), PendOk(L, s),
         UNCHANGED <<job, cpc, writing, total>>
  PROVE  PendOk(L, s)'
<1>1. /\ spc[s] = "join" /\ recipeWriter[s] = "exit" /\ spc'[s] = "order"
      /\ recipeWriter'[s] = "none" /\ recipe'[s] = << >> /\ recipeQueue' = recipeQueue
  BY LockTypes, ViewTypes DEF Join, Goto
<1>2. recipeQueue[s] = << >> /\ writing[s] = None
  BY <1>1 DEF PendOk, WriterAt
<1>3. PICK w, h, q, r, last, f : PendIs(L, s, w, h, q, r, last, f)
  BY <1>1, PendFrom DEF PendOk, Uploading
<1>4. last = TRUE /\ w = total[s] /\ h = << >> /\ q = << >> /\ f = job[s].file /\ w \in Nat
  BY <1>1, <1>2, <1>3 DEF PendIs, Written, InHand, Blocks
<1>5. w + 0 = Len(f) /\ w + 0 = w
  BY <1>3, <1>4 DEF PendIs, ChainEnd
<1>6. cpc[s] = "quit_rep"
  BY <1>1, ServerPhase DEF Ending
<1>7. WriterAt(s)'
  BY <1>1, <1>2, <1>4, <1>5, <1>6 DEF WriterAt, Uploading
<1> QED
  BY <1>1, <1>7 DEF PendOk, Uploading

LEMMA HandlerPend ==
  ASSUME NEW L, TypeOK, AddressesKept(L), NEW s \in Sessions, HandlerStep(s),
         UNCHANGED <<job, cpc, sent, batch>>, LockAt(s), SliceAt(s), EntryAt(L, s),
         PendOk(L, s), done[s] => spc[s] = "join"
  PROVE  PendOk(L, s)'
<1> USE DEF Uploading
<1>0. /\ UNCHANGED <<writing, total>> /\ WriterAt(s)
      /\ \A t \in {s} : Uploading(t) => PendAt(L, t)
  BY DEF HandlerStep, writerVars, PendOk
<1>r. /\ Uploading(s) => Reached(s)' = IF spc[s] = "entry" /\ spc'[s] = "store"
                                       THEN Reached(s) + 1 ELSE Reached(s)
      /\ spc[s] = "add_file" => Reached(s)' = 0
  BY HandlerSlice
<1>k. ASSUME recipe'[s] = recipe[s], recipeQueue'[s] = recipeQueue[s], done'[s] = done[s],
             recipeWriter'[s] = recipeWriter[s], finished' = finished,
             Uploading(s)' <=> Uploading(s), spc'[s] = "join" <=> spc[s] = "join",
             ~ (spc[s] = "entry" /\ spc'[s] = "store"),
             s \in finished => spc'[s] \in {"order", "closed"}
      PROVE  PendOk(L, s)'
  BY <1>0, <1>r, <1>k, PendKept DEF WriterAt
<1>1. CASE RunStep(s)
  <2>1. UNCHANGED <<recipe, recipeQueue, done, recipeWriter, finished>>
    BY <1>1 DEF RunStep, uploadVars, queueVars, threadVars
  <2>2. /\ spc[s] \in {"accepted", "order"} /\ spc'[s] \in {"order", "unique", "exist", "closed"}
        /\ spc'[s] \in {"unique", "exist"} =>
             /\ spc[s] = "order"
             /\ Arrived(toServer, s, "UPLOAD") \/ Arrived(toServer, s, "DOWNLOAD")
    BY <1>1, LockTypes DEF RunStep, Serve, RecvOrder, RecvQuit, Goto
  <2>3. ASSUME s \in finished PROVE spc'[s] \in {"order", "closed"}
    <3>1. cpc[s] \in {"quit_rep", "closed"}
      BY <1>0, <2>3 DEF WriterAt
    <3>2. spc[s] = "order" => ~ Starting(s)
      BY <3>1 DEF Starting
    <3> QED
      BY <2>2, <3>2, ServerPhase
  <2> QED
    BY <1>k, <2>1, <2>2, <2>3
<1>2. CASE DownloadStep(s)
  <2>1. UNCHANGED <<recipe, recipeQueue, done, recipeWriter, finished>>
    BY <1>2 DEF DownloadStep, uploadVars, queueVars, threadVars
  <2>2. /\ spc[s] \in {"exist", "open", "recipe", "chunk"}
        /\ spc'[s] \in {"open", "order", "recipe", "chunk"}
    BY <1>2, LockTypes DEF DownloadStep, CheckExist, OpenForRead, ReadRecipe, ReadChunk,
                           SendDownBody, SendFileEnd, Goto
  <2>3. s \notin finished
    BY <1>0, <2>2 DEF WriterAt
  <2> QED
    BY <1>k, <2>1, <2>2, <2>3
<1>3. CASE AdmitStep(s)
  <2>0. UNCHANGED <<recipe, recipeQueue, done, finished>> /\ spc[s] \in {"unique", "add_file"}
    BY <1>3 DEF AdmitStep, CheckUnique, AddFile, queueVars
  <2>1. s \notin finished
    BY <1>0, <2>0 DEF WriterAt
  <2>2. CASE CheckUnique(s)
    <3>1. spc'[s] \in {"add_file", "order"} /\ recipeWriter' = recipeWriter
      BY <2>2, LockTypes DEF CheckUnique, Goto, threadVars
    <3> QED
      BY <1>k, <2>0, <2>1, <3>1
  <2>3. CASE AddFile(s)
    <3>1. spc[s] = "add_file" /\ spc'[s] = "body" /\ recipeWriter'[s] = "open"
      BY <2>3, LockTypes, ViewTypes DEF AddFile, Goto
    <3>2. recipe[s] = << >> /\ recipeQueue[s] = << >> /\ writing[s] = None
      BY <1>0, <2>0 DEF WriterAt
    <3>3. WriterAt(s)'
      BY <2>0, <2>1, <3>1 DEF WriterAt
    <3>4. PICK f : f = job[s].file /\ Len(f) \in Nat
      BY FileTyped
    <3>5. Written(s)' = 0 /\ InHand(s)' = << >>
      BY <1>0, <3>1, <3>2 DEF Written, InHand
    <3>6. PendAt(L, s)'
      <4>1. Reached(s)' = 0
        BY <1>r, <3>1
      <4>2. /\ Chain(L, 0, << >>, << >>, << >>, FALSE, f)
            /\ ChainEnd(0, << >>, << >>, << >>, FALSE) = 0
        BY <3>4, ChainEmpty
      <4> QED
        BY <2>0, <3>1, <3>2, <3>4, <3>5, <4>1, <4>2, PendTo
    <3> QED
      BY <3>3, <3>6 DEF PendOk
  <2> QED
    BY <1>3, <2>2, <2>3 DEF AdmitStep
<1>4. ASSUME Uploading(s) PROVE s \notin finished
  BY <1>0, <1>4 DEF WriterAt
<1>5. CASE ReceiveStep(s)
  <2>1. /\ UNCHANGED <<recipe, recipeQueue, done, recipeWriter, finished>> /\ spc[s] = "body"
        /\ spc'[s] \in {"store", "last_container"}
    BY <1>5, LockTypes DEF ReceiveStep, RecvBody, RecvFileEnd, Goto, queueVars, threadVars
  <2> QED
    BY <1>k, <1>4, <2>1
<1>6. CASE QueryStep(s)
  <2>1. /\ UNCHANGED <<recipe, recipeQueue, done, recipeWriter, finished>>
        /\ spc[s] \in {"store", "query"} /\ spc'[s] \in {"query", "body"}
    BY <1>6, LockTypes DEF QueryStep, BeginQuery, QueryChunk, SendReply, Goto, queueVars,
                           threadVars
  <2> QED
    BY <1>k, <1>4, <2>1
<1>7. CASE StoreStep(s)
  <2>0. UNCHANGED <<done, recipeWriter, finished, hashList>>
    BY <1>7 DEF StoreStep, threadVars
  <2>1. CASE FlushContainer(s) \/ StoreChunk(s) \/ TakeDuplicate(s)
    <3>1. /\ UNCHANGED <<recipe, recipeQueue>> /\ spc[s] = "store"
          /\ spc'[s] \in {"store", "entry"}
      BY <2>1, LockTypes DEF FlushContainer, StoreChunk, TakeDuplicate, AtChunk, HasChunk, Goto
    <3> QED
      BY <1>k, <1>4, <2>0, <3>1
  <2>2. CASE FlushRecipe(s)
    BY <1>0, <1>r, <2>0, <2>2, FlushPend
  <2>3. CASE WriteEntry(s)
    BY <1>0, <1>r, <2>0, <2>3, EntryPend
  <2> QED
    BY <1>7, <2>1, <2>2, <2>3 DEF StoreStep
<1>8. CASE FinishStep(s)
  <2>1. CASE InsertLastContainer(s)
    <3>1. /\ UNCHANGED <<recipe, recipeQueue, done, recipeWriter, finished>>
          /\ spc[s] = "last_container" /\ spc'[s] = "last_recipe"
      BY <2>1, LockTypes DEF InsertLastContainer, Goto, threadVars
    <3> QED
      BY <1>k, <1>4, <3>1
  <2>2. CASE InsertLastRecipe(s)
    BY <1>0, <2>2, LastPend
  <2>3. CASE Join(s)
    BY <1>0, <2>3, JoinPend
  <2> QED
    BY <1>8, <2>1, <2>2, <2>3 DEF FinishStep
<1> QED
  BY <1>1, <1>2, <1>3, <1>5, <1>6, <1>7, <1>8 DEF HandlerStep, UploadStep

(* The recipe writer takes blocks off the queue and writes them.           *)
LEMMA WriterPend ==
  ASSUME NEW L, TypeInv, AddressesKept(L), NEW s \in Sessions, RecipeWriterStep(s),
         UNCHANGED <<job, clientVars>>, SliceAt(s), PendOk(L, s)
  PROVE  PendOk(L, s)'
<1>0. /\ TypeOK /\ RecipeAt(s) /\ UNCHANGED <<spc, cpc, recipe, done, finished>>
      /\ TalkView(s)' = TalkView(s)
  BY WriterOthers DEF TypeInv, RecipeInv, RecipeWriterStep, clientVars
<1>1. Reached(s)' = Reached(s)
  BY <1>0, SliceKept
<1>2. recipeWriter[s] # "none"
  BY <1>0 DEF RecipeWriterStep, OpenRecipe, PopRecipe, WriteRecipe, EndRecipeWriter, RecipeAt
<1>3. Uploading(s) /\ s \notin finished /\ WriterAt(s)
  BY <1>2 DEF PendOk, WriterAt, Uploading
<1>4. PICK w, h, q, r, last, f : PendIs(L, s, w, h, q, r, last, f)
  BY <1>0, <1>3, PendFrom DEF PendOk
<1>5. spc'[s] = "join" <=> last
  BY <1>0, <1>4 DEF PendIs
<1>6. ASSUME NEW v, NEW g, NEW p, Chain(L, v, g, p, r, last, f),
             ChainEnd(v, g, p, r, last) = ChainEnd(w, h, q, r, last),
             Written(s)' = v, InHand(s)' = g, recipeQueue'[s] = p
      PROVE  PendAt(L, s)'
  <2>1. /\ recipe'[s] = r /\ job'[s].file = f /\ last \in BOOLEAN
        /\ ChainEnd(v, g, p, r, last) = IF last THEN Len(f) ELSE Reached(s)'
    BY <1>0, <1>1, <1>4, <1>6 DEF PendIs
  <2> QED
    BY <1>5, <1>6, <2>1, PendTo
<1>7. CASE OpenRecipe(s)
  <2>1. /\ recipeWriter[s] = "open" /\ recipeWriter'[s] = "run" /\ total'[s] = 0
        /\ UNCHANGED <<recipeQueue, writing>>
    BY <1>0, <1>7, ViewTypes DEF OpenRecipe
  <2>2. Written(s)' = w /\ InHand(s)' = h /\ recipeQueue'[s] = q
    BY <1>4, <2>1 DEF PendIs, Written, InHand
  <2>3. PendAt(L, s)'
    BY <1>4, <1>6, <2>2 DEF PendIs
  <2>4. WriterAt(s)'
    BY <1>0, <1>3, <2>1 DEF WriterAt, Uploading
  <2> QED
    BY <2>3, <2>4 DEF PendOk
<1>8. CASE PopRecipe(s)
  <2>1. /\ recipeWriter[s] = "run" /\ writing[s] = None /\ recipeQueue[s] # << >>
        /\ writing'[s] = Head(recipeQueue[s]) /\ recipeQueue'[s] = Tail(recipeQueue[s])
        /\ UNCHANGED <<recipeWriter, total>>
    BY <1>0, <1>8, ViewTypes DEF PopRecipe
  <2>2. h = << >> /\ q # << >>
    BY <1>4, <2>1 DEF PendIs, InHand
  <2>3. /\ Chain(L, w, Head(q), Tail(q), r, last, f)
        /\ ChainEnd(w, Head(q), Tail(q), r, last) = ChainEnd(w, h, q, r, last)
    BY <1>4, <2>2, ChainPop DEF PendIs
  <2>4. Written(s)' = w /\ InHand(s)' = Head(q) /\ recipeQueue'[s] = Tail(q)
    <3>1. Head(recipeQueue[s]) \in Entries
      BY <1>0, <2>1, ViewTypes
    <3>2. writing'[s] # None
      BY <2>1, <3>1, NoneAssumption DEF NoneAssumption
    <3> QED
      BY <1>4, <2>1, <3>2 DEF PendIs, Written, InHand
  <2>5. PendAt(L, s)'
    BY <1>6, <2>3, <2>4
  <2>6. WriterAt(s)'
    BY <1>0, <1>3, <2>1 DEF WriterAt, Uploading
  <2> QED
    BY <2>5, <2>6 DEF PendOk
<1>9. CASE WriteRecipe(s)
  <2>1. /\ writing[s] # None /\ total'[s] = total[s] + Len(writing[s]) /\ writing'[s] = None
        /\ UNCHANGED <<recipeWriter, recipeQueue>> /\ recipeWriter[s] = "run"
    BY <1>0, <1>9, ViewTypes DEF WriteRecipe, RecipeAt
  <2>2. /\ Chain(L, w + Len(h), << >>, q, r, last, f)
        /\ ChainEnd(w + Len(h), << >>, q, r, last) = ChainEnd(w, h, q, r, last)
    BY <1>4, ChainWrite DEF PendIs
  <2>3. Written(s)' = w + Len(h) /\ InHand(s)' = << >> /\ recipeQueue'[s] = q
    BY <1>4, <2>1 DEF PendIs, Written, InHand
  <2>4. PendAt(L, s)'
    BY <1>6, <2>2, <2>3
  <2>5. WriterAt(s)'
    BY <1>0, <1>3, <2>1 DEF WriterAt, Uploading
  <2> QED
    BY <2>4, <2>5 DEF PendOk
<1>10. CASE EndRecipeWriter(s)
  <2>1. /\ recipeWriter[s] = "run" /\ recipeWriter'[s] = "exit" /\ writing[s] = None
        /\ recipeQueue[s] = << >> /\ done[s] /\ UNCHANGED <<recipeQueue, writing, total>>
    BY <1>0, <1>10, ViewTypes DEF EndRecipeWriter
  <2>2. Written(s)' = w /\ InHand(s)' = h /\ recipeQueue'[s] = q
    BY <1>4, <2>1 DEF PendIs, Written, InHand
  <2>3. PendAt(L, s)'
    BY <1>4, <1>6, <2>2 DEF PendIs
  <2>4. WriterAt(s)'
    BY <1>0, <1>3, <2>1 DEF WriterAt, Uploading
  <2> QED
    BY <2>3, <2>4 DEF PendOk
<1> QED
  BY <1>7, <1>8, <1>9, <1>10 DEF RecipeWriterStep

----------------------------------------------------------------------------
(* What is in the files.                                                   *)

Admitted(t) == Uploading(t) \/ t \in finished

(* Whoever has been admitted to write a recipe stays so; a session that is *)
(* new has not opened it yet.                                              *)
StaysAdmitted(t) ==
  /\ Admitted(t) => Admitted(t)' /\ key'[t] = key[t]
  /\ Admitted(t)' => Admitted(t) \/ recipeWriter'[t] = "open"

LEMMA OnlyWriter ==
  ASSUME \A u \in Sessions : StaysAdmitted(u), NEW t \in Sessions,
         Writers(RecipeName(key[t]))' = {t}, recipeWriter'[t] # "open"
  PROVE  Admitted(t) /\ Writers(RecipeName(key[t])) = {t} /\ key'[t] = key[t]
<1>1. Admitted(t)'
  BY DEF Writers, Admitted
<1>2. Admitted(t) /\ key'[t] = key[t]
  BY <1>1 DEF StaysAdmitted
<1>3. ASSUME NEW u \in Writers(RecipeName(key[t])) PROVE u = t
  <2>1. u \in Sessions /\ Admitted(u) /\ RecipeName(key[u]) = RecipeName(key[t])
    BY <1>3 DEF Writers, Admitted
  <2>2. Admitted(u)' /\ key'[u] = key[u]
    BY <2>1 DEF StaysAdmitted
  <2>3. u \in Writers(RecipeName(key[t]))'
    BY <1>2, <2>1, <2>2 DEF Writers, Admitted, RecipeName
  <2> QED
    BY <2>3
<1>4. t \in Writers(RecipeName(key[t]))
  BY <1>2 DEF Writers, Admitted
<1> QED
  BY <1>2, <1>3, <1>4

LEMMA HandlerAdmits ==
  ASSUME TypeOK, NEW s \in Sessions, HandlerStep(s), cpc' = cpc, LockAt(s), WriterAt(s)
  PROVE  /\ StaysAdmitted(s)
         /\ recipeWriter[s] = "open" => recipeWriter'[s] = "open"
         /\ (recipeWriter'[s] = "exit" \/ s \in finished')
              => (recipeWriter[s] = "exit" \/ s \in finished)
         /\ \A t \in Sessions \ {s} : t \in finished' <=> t \in finished
<1> USE DEF Uploading, Admitted, StaysAdmitted
<1>1. CASE RunStep(s)
  <2>1. UNCHANGED <<recipeWriter, finished>>
    BY <1>1 DEF RunStep, uploadVars, threadVars
  <2>2. spc[s] \in {"accepted", "order"} /\ spc'[s] \in {"order", "unique", "exist", "closed"}
    BY <1>1, LockTypes DEF RunStep, Serve, RecvOrder, RecvQuit, Goto
  <2>3. ASSUME s \in finished PROVE key' = key
    <3>1. cpc[s] \in {"quit_rep", "closed"} /\ spc[s] # "accepted"
      BY <2>3 DEF WriterAt
    <3>2. spc[s] = "order" => ~ Starting(s)
      BY <3>1 DEF Starting
    <3>3. ~ Serve(s) /\ ~ RecvOrder(s)
      BY <3>1, <3>2, ServerPhase DEF Serve, RecvOrder
    <3> QED
      BY <1>1, <3>3 DEF RunStep, RecvQuit
  <2> QED
    BY <2>1, <2>2, <2>3
<1>2. CASE DownloadStep(s)
  <2>1. UNCHANGED <<recipeWriter, finished, key>>
    BY <1>2 DEF DownloadStep, uploadVars, threadVars
  <2>2. /\ spc[s] \in {"exist", "open", "recipe", "chunk"}
        /\ spc'[s] \in {"open", "order", "recipe", "chunk"}
    BY <1>2, LockTypes DEF DownloadStep, CheckExist, OpenForRead, ReadRecipe, ReadChunk,
                           SendDownBody, SendFileEnd, Goto
  <2> QED
    BY <2>1, <2>2
<1>3. CASE UploadStep(s)
  <2>0. key' = key
    BY <1>3 DEF UploadStep
  <2>1. CASE AdmitStep(s)
    <3>1. /\ finished' = finished /\ spc[s] \in {"unique", "add_file"}
          /\ \/ spc'[s] \in {"add_file", "order"} /\ recipeWriter' = recipeWriter
             \/ spc'[s] = "body" /\ recipeWriter'[s] = "open"
      BY <2>1, LockTypes, ViewTypes DEF AdmitStep, CheckUnique, AddFile, Goto, threadVars
    <3> QED
      BY <2>0, <3>1
  <2>2. ASSUME UNCHANGED <<recipeWriter, finished>>, Uploading(s), Uploading(s)'
        PROVE  /\ StaysAdmitted(s)
               /\ recipeWriter[s] = "open" => recipeWriter'[s] = "open"
               /\ (recipeWriter'[s] = "exit" \/ s \in finished')
                    => (recipeWriter[s] = "exit" \/ s \in finished)
               /\ \A t \in Sessions \ {s} : t \in finished' <=> t \in finished
    BY <2>0, <2>2
  <2>3. CASE ReceiveStep(s)
    BY <2>2, <2>3, LockTypes DEF ReceiveStep, RecvBody, RecvFileEnd, Goto, threadVars
  <2>4. CASE StoreStep(s)
    <3>1. UNCHANGED <<recipeWriter, finished>>
      BY <2>4 DEF StoreStep, threadVars
    <3>2. spc[s] \in {"store", "entry"} /\ spc'[s] \in {"store", "entry"}
      BY <2>4, LockTypes DEF StoreStep, FlushContainer, StoreChunk, TakeDuplicate, FlushRecipe,
                             WriteEntry, AtChunk, HasChunk, Goto
    <3> QED
      BY <2>2, <3>1, <3>2
  <2>5. CASE QueryStep(s)
    BY <2>2, <2>5, LockTypes DEF QueryStep, BeginQuery, QueryChunk, SendReply, Goto, threadVars
  <2>6. CASE InsertLastContainer(s) \/ InsertLastRecipe(s)
    BY <2>2, <2>6, LockTypes DEF InsertLastContainer, InsertLastRecipe, Goto, threadVars
  <2>7. CASE Join(s)
    <3>1. /\ recipeWriter[s] = "exit" /\ recipeWriter'[s] = "none"
          /\ finished' = finished \cup {s} /\ spc[s] = "join"
      BY <2>7, ViewTypes DEF Join
    <3> QED
      BY <2>0, <3>1
  <2> QED
    BY <1>3, <2>1, <2>3, <2>4, <2>5, <2>6, <2>7 DEF UploadStep, FinishStep
<1> QED
  BY <1>1, <1>2, <1>3 DEF HandlerStep

LEMMA DiskTo ==
  ASSUME NEW L, AddressesKept(L), NEW t \in Sessions, NEW n, NEW e, NEW f,
         RecipeName(key[t])' = n,
         n \in DOMAIN recipes', recipes'[n].entries = e, job'[t].file = f,
         Len(e) = total'[t], Named(L, e, 0, f),
         (recipeWriter'[t] = "exit" \/ t \in finished') => recipes'[n].total = total'[t]
  PROVE  DiskAt(L, t)'
<1>1. Named(L, e, 0, f)'
  BY DEF Named, AddressesKept
<1>2. Named(L, recipes[RecipeName(key[t])].entries, 0, job[t].file)'
  BY <1>1 DEF Named
<1> QED
  BY <1>2 DEF DiskAt

(* A step that does not touch the recipe of t.                             *)
LEMMA DiskKept ==
  ASSUME NEW L, AddressesKept(L), NEW t \in Sessions, DiskAt(L, t),
         \A u \in Sessions : StaysAdmitted(u),
         job'[t] = job[t], total'[t] = total[t],
         recipeWriter[t] = "open" => recipeWriter'[t] = "open",
         (recipeWriter'[t] = "exit" \/ t \in finished')
           => (recipeWriter[t] = "exit" \/ t \in finished),
         RecipeName(key[t]) \in DOMAIN recipes /\ Writers(RecipeName(key[t])) = {t} =>
           /\ RecipeName(key[t]) \in DOMAIN recipes'
           /\ recipes'[RecipeName(key[t])] = recipes[RecipeName(key[t])]
  PROVE  DiskAt(L, t)'
<1> SUFFICES ASSUME Writers(RecipeName(key[t]))' = {t}, recipeWriter'[t] # "open"
             PROVE  DiskAt(L, t)'
  BY DEF DiskAt
<1>1. Writers(RecipeName(key[t])) = {t} /\ key'[t] = key[t] /\ recipeWriter[t] # "open"
  BY OnlyWriter
<1>2. PICK n, r, f : n = RecipeName(key[t]) /\ r = recipes[n] /\ f = job[t].file
  OBVIOUS
<1>3. /\ n \in DOMAIN recipes /\ Len(r.entries) = total[t] /\ Named(L, r.entries, 0, f)
      /\ (recipeWriter[t] = "exit" \/ t \in finished) => r.total = total[t]
  BY <1>1, <1>2 DEF DiskAt
<1>4. n \in DOMAIN recipes' /\ recipes'[n] = r
  BY <1>1, <1>2, <1>3
<1>5. RecipeName(key[t])' = n /\ job'[t].file = f
  BY <1>1, <1>2 DEF RecipeName
<1>6. PICK e : e = r.entries
  OBVIOUS
<1> QED
  BY <1>3, <1>4, <1>5, <1>6, DiskTo

LEMMA WriterDisk ==
  ASSUME NEW L, TypeInv, AddressesKept(L), NEW s \in Sessions, RecipeWriterStep(s),
         UNCHANGED <<job, clientVars>>, PendOk(L, s), NEW u \in Sessions, DiskAt(L, u)
  PROVE  DiskAt(L, u)'
<1>0. TypeOK /\ RecipeAt(s) /\ UNCHANGED <<spc, key, finished>>
  BY DEF TypeInv, RecipeInv, RecipeWriterStep
<1>1. recipeWriter[s] # "none"
  BY <1>0 DEF RecipeWriterStep, OpenRecipe, PopRecipe, WriteRecipe, EndRecipeWriter, RecipeAt
<1>2. Uploading(s) /\ s \notin finished /\ PendAt(L, s)
  BY <1>1 DEF PendOk, WriterAt, Uploading
<1>3. \A t \in Sessions : StaysAdmitted(t)
  BY <1>0 DEF StaysAdmitted, Admitted, Uploading
<1>4. PICK m : m = RecipeName(key[s])
  OBVIOUS
<1>5. /\ DOMAIN recipes \subseteq DOMAIN recipes'
      /\ \A n \in DOMAIN recipes : n # m => recipes'[n] = recipes[n]
  BY <1>4 DEF RecipeWriterStep, OpenRecipe, PopRecipe, WriteRecipe, EndRecipeWriter, PutRecipe
<1>6. ASSUME NEW t \in Sessions \ {s}, t = u PROVE DiskAt(L, t)'
  <2>1. StoreView(t)' = StoreView(t)
    BY <1>0, WriterOthers
  <2>2. recipeWriter'[t] = recipeWriter[t] /\ total'[t] = total[t]
    BY <2>1 DEF StoreView
  <2>3. Writers(RecipeName(key[t])) = {t} => RecipeName(key[t]) # m
    BY <1>2, <1>4 DEF Writers
  <2> QED
    BY <1>0, <1>3, <1>5, <1>6, <2>2, <2>3, DiskKept
<1>7. ASSUME s = u PROVE DiskAt(L, s)'
  <2> SUFFICES ASSUME Writers(RecipeName(key[s]))' = {s} PROVE DiskAt(L, s)'
    BY DEF DiskAt
  <2>1. Writers(m) = {s} /\ RecipeName(key[s])' = m
    BY <1>0, <1>4 DEF Writers, RecipeName, Uploading
  <2>2. PICK f : f = job[s].file
    OBVIOUS
  <2>3. Len(f) \in Nat /\ job'[s].file = f
    BY <1>0, <2>2, FileTyped
  <2>4. CASE OpenRecipe(s)
    <3>1. /\ m \in DOMAIN recipes' /\ recipes'[m] = [total |-> 0, entries |-> << >>]
          /\ total'[s] = 0 /\ recipeWriter'[s] = "run"
      BY <1>0, <1>4, <2>4, ViewTypes DEF OpenRecipe, PutRecipe
    <3>2. Named(L, << >>, 0, f) /\ Len(<< >>) = 0
      BY <2>3 DEF Named
    <3> QED
      BY <1>0, <1>2, <2>1, <2>3, <3>1, <3>2, DiskTo
  <2>5. ASSUME ~ OpenRecipe(s) PROVE recipeWriter[s] = "run"
    BY <1>0, <2>5 DEF RecipeWriterStep, PopRecipe, WriteRecipe, EndRecipeWriter, RecipeAt
  <2>6. ASSUME ~ OpenRecipe(s)
        PROVE  /\ m \in DOMAIN recipes /\ Len(recipes[m].entries) = total[s]
               /\ Named(L, recipes[m].entries, 0, f)
    BY <1>4, <1>7, <2>1, <2>2, <2>5, <2>6 DEF DiskAt
  <2>7. PICK e : e = recipes[m].entries
    OBVIOUS
  <2>8. CASE ~ OpenRecipe(s) /\ PopRecipe(s)
    <3>1. recipes' = recipes /\ total' = total /\ recipeWriter' = recipeWriter
      BY <2>8 DEF PopRecipe
    <3> QED
      BY <1>0, <1>2, <2>1, <2>3, <2>5, <2>6, <2>7, <2>8, <3>1, DiskTo
  <2>9. CASE ~ OpenRecipe(s) /\ WriteRecipe(s)
    <3>1. PICK b : b = writing[s]
      OBVIOUS
    <3>2. /\ b # None /\ total'[s] = total[s] + Len(b) /\ recipeWriter' = recipeWriter
          /\ b \in Entries /\ InHand(s) = b
      BY <1>0, <2>9, <3>1, ViewTypes DEF WriteRecipe, InHand
    <3>3. recipes[m] \in Recipe /\ e \in Entries
      BY <1>0, <2>6, <2>7, <2>9 DEF TypeOK, ConnTypeOK, Recipe
    <3>4. Len(e) = total[s] /\ Named(L, e, 0, f) /\ Named(L, b, Len(e), f)
      BY <1>2, <2>2, <2>5, <2>6, <2>7, <2>9, <3>2 DEF PendAt, Chain, Written
    <3>5. /\ Named(L, Overlay(e, Len(e), b), 0, f)
          /\ Len(Overlay(e, Len(e), b)) = Len(e) + Len(b)
      BY <2>3, <3>2, <3>3, <3>4, OverlayNames
    <3>6. m \in DOMAIN recipes' /\ recipes'[m].entries = Overlay(e, Len(e), b)
      BY <1>4, <2>6, <2>7, <2>9, <3>1, <3>3, <3>4 DEF WriteRecipe, PutRecipe, Recipe
    <3>7. PICK o : o = Overlay(e, Len(e), b)
      OBVIOUS
    <3> QED
      BY <1>0, <1>2, <2>1, <2>3, <2>5, <2>9, <3>2, <3>4, <3>5, <3>6, <3>7, DiskTo
  <2>10. CASE ~ OpenRecipe(s) /\ EndRecipeWriter(s)
    <3>1. recipes[m] \in Recipe
      BY <1>0, <2>6, <2>10 DEF TypeOK, ConnTypeOK
    <3>2. /\ m \in DOMAIN recipes' /\ recipes'[m].entries = e /\ recipes'[m].total = total[s]
          /\ total' = total
      BY <1>4, <2>7, <2>10, <3>1 DEF EndRecipeWriter, PutRecipe, Recipe
    <3> QED
      BY <2>1, <2>3, <2>6, <2>7, <2>10, <3>2, DiskTo
  <2> QED
    BY <2>4, <2>8, <2>9, <2>10 DEF RecipeWriterStep
<1> QED
  BY <1>6, <1>7

----------------------------------------------------------------------------
(* Uploads, all of it together.                                            *)

UploadInv == SliceInv /\ PendInv /\ DiskInv

LEMMA InitUpload == Init => UploadInv
<1> SUFFICES ASSUME Init, NEW s \in Sessions PROVE SliceAt(s) /\ PendOk({}, s) /\ DiskAt({}, s)
  BY DEF UploadInv, SliceInv, PendInv, DiskInv
<1>0. TypeOK
  BY InitTypeInv DEF TypeInv
<1>1. /\ cpc[s] = "start" /\ spc[s] = "accepted" /\ sent[s] = 0 /\ batch[s] = << >>
      /\ hashList[s] = << >> /\ toServer[s] = << >> /\ recipeWriter[s] = "none"
      /\ recipe[s] = << >> /\ recipeQueue[s] = << >> /\ writing[s] = None /\ finished = {}
  BY DEF Init, ClientInit, ConnInit
<1>2. Behind(s) = 0 /\ Len(batch[s]) = 0
  BY <1>1 DEF Behind
<1>3. Len(job[s].file) \in Nat
  BY <1>0, FileTyped
<1>4. SliceAt(s)
  <2>1. 0 <= Len(job[s].file) /\ 0 + 0 <= 0 /\ DOMAIN << >> = {}
    BY <1>3
  <2> QED
    BY <1>1, <1>2, <2>1 DEF SliceAt
<1>5. ~ Uploading(s)
  BY <1>1 DEF Uploading
<1>6. PendOk({}, s)
  BY <1>1, <1>5 DEF PendOk, WriterAt
<1>7. DiskAt({}, s)
  BY <1>1, <1>5 DEF DiskAt, Writers
<1> QED
  BY <1>4, <1>6, <1>7

(* The session t stands aside.                                             *)
LEMMA AsidePend ==
  ASSUME NEW L, TypeOK, AddressesKept(L), NEW t \in Sessions, SliceAt(t), PendOk(L, t),
         TalkView(t)' = TalkView(t), StoreView(t)' = StoreView(t),
         t \in finished' <=> t \in finished
  PROVE  SliceAt(t)' /\ PendOk(L, t)'
<1>1. /\ job'[t] = job[t] /\ cpc'[t] = cpc[t] /\ spc'[t] = spc[t]
      /\ recipe'[t] = recipe[t] /\ recipeQueue'[t] = recipeQueue[t] /\ done'[t] = done[t]
      /\ recipeWriter'[t] = recipeWriter[t] /\ writing'[t] = writing[t] /\ total'[t] = total[t]
  BY DEF TalkView, StoreView
<1>2. SliceAt(t)' /\ Reached(t)' = Reached(t)
  BY SliceKept
<1>3. t \in finished => /\ spc'[t] \in {"order", "closed"} /\ cpc'[t] \in {"quit_rep", "closed"}
  BY <1>1 DEF PendOk, WriterAt
<1> QED
  BY <1>1, <1>2, <1>3, PendKept DEF Uploading

(* A step of s, with what it leaves to its client and to the others.       *)
StepOf(s) ==
  \/ ClientSide(s)
  \/ (HandlerStep(s) \/ DataWriterStep(s) \/ RecipeWriterStep(s)) /\ UNCHANGED <<job, clientVars>>

LEMMA StepAside ==
  ASSUME TypeOK, NEW s \in Sessions, StepOf(s), LockAt(s), WriterAt(s)
  PROVE  /\ job' = job /\ \A u \in Sessions : StaysAdmitted(u)
         /\ \A t \in Sessions \ {s} : /\ TalkView(t)' = TalkView(t)
                                      /\ StoreView(t)' = StoreView(t)
                                      /\ t \in finished' <=> t \in finished
<1>1. \A t \in Sessions \ {s} : TalkView(t)' = TalkView(t) /\ StoreView(t)' = StoreView(t)
  BY ClientOthers, HandlerOthers, WriterOthers DEF StepOf
<1>2. job' = job
  BY DEF StepOf, ClientSide
<1>3. ASSUME UNCHANGED <<spc, key, finished>> PROVE \A u \in Sessions : StaysAdmitted(u)
  BY <1>3 DEF StaysAdmitted, Admitted, Uploading
<1>4. CASE ClientSide(s) \/ DataWriterStep(s) \/ RecipeWriterStep(s)
  <2>1. UNCHANGED <<spc, key, finished>>
    BY <1>4 DEF ClientSide, connVars, uploadVars, threadVars, DataWriterStep, RecipeWriterStep
  <2> QED
    BY <1>1, <1>2, <1>3, <2>1
<1>5. CASE HandlerStep(s) /\ UNCHANGED <<job, clientVars>>
  <2>1. StaysAdmitted(s) /\ \A t \in Sessions \ {s} : t \in finished' <=> t \in finished
    BY <1>5, HandlerAdmits DEF clientVars
  <2>2. ASSUME NEW t \in Sessions \ {s} PROVE StaysAdmitted(t)
    <3>1. spc'[t] = spc[t] /\ key'[t] = key[t] /\ recipeWriter'[t] = recipeWriter[t]
      BY <1>1 DEF TalkView, StoreView
    <3> QED
      BY <2>1, <3>1 DEF StaysAdmitted, Admitted, Uploading
  <2> QED
    BY <1>1, <1>2, <2>1, <2>2
<1> QED
  BY <1>4, <1>5 DEF StepOf

LEMMA StepPend ==
  ASSUME NEW L, TypeInv, AddressesKept(L), NEW s \in Sessions, StepOf(s), LockAt(s), SliceAt(s),
         EntryAt(L, s), PendOk(L, s), done[s] => spc[s] = "join"
  PROVE  SliceAt(s)' /\ PendOk(L, s)'
<1>0. TypeOK /\ WriterAt(s)
  BY DEF TypeInv, PendOk
<1>1. CASE ClientSide(s)
  <2>1. UNCHANGED <<job, spc, recipe, recipeQueue, done, recipeWriter, writing, total, finished>>
    BY <1>1 DEF ClientSide, connVars, uploadVars, queueVars, threadVars, writerVars
  <2>2. SliceAt(s)' /\ (Uploading(s) => Reached(s)' = Reached(s))
    BY <1>0, <1>1, ClientSlice
  <2>3. ASSUME s \in finished PROVE cpc'[s] = "closed" /\ spc[s] \in {"order", "closed"}
    <3>1. cpc[s] \in {"quit_rep", "closed"} /\ spc[s] \in {"order", "closed"}
      BY <1>0, <2>3 DEF WriterAt
    <3>2. Close(s)
      BY <1>1, <3>1 DEF ClientSide, ClientStep, Connect, UploadDuplicate, UploadUnique, UploadBatch,
                        DownloadRefused, DownloadGranted, DownloadBody, DownloadEnd
    <3> QED
      BY <1>0, <3>1, <3>2, LockTypes DEF Close
  <2> QED
    BY <1>0, <2>1, <2>2, <2>3, PendKept DEF Uploading
<1>2. CASE HandlerStep(s) /\ UNCHANGED <<job, clientVars>>
  <2>1. UNCHANGED <<job, cpc, sent, batch>>
    BY <1>2 DEF clientVars
  <2> QED
    BY <1>0, <1>2, <2>1, HandlerSlice, HandlerPend
<1>3. CASE RecipeWriterStep(s) /\ UNCHANGED <<job, clientVars>>
  BY <1>0, <1>3, WriterOthers, SliceKept, WriterPend
<1>4. CASE DataWriterStep(s) /\ UNCHANGED <<job, clientVars>>
  <2>1. /\ UNCHANGED <<job, cpc, spc, recipe, recipeQueue, done, recipeWriter, writing>>
        /\ UNCHANGED <<total, finished>>
    BY <1>4 DEF DataWriterStep, clientVars
  <2>2. SliceAt(s)' /\ Reached(s)' = Reached(s)
    BY <1>0, <1>4, WriterOthers, SliceKept
  <2>3. s \in finished => spc[s] \in {"order", "closed"} /\ cpc[s] \in {"quit_rep", "closed"}
    BY <1>0 DEF WriterAt
  <2> QED
    BY <1>0, <2>1, <2>2, <2>3, PendKept DEF Uploading
<1> QED
  BY <1>1, <1>2, <1>3, <1>4 DEF StepOf

LEMMA StepDisk ==
  ASSUME NEW L, TypeInv, AddressesKept(L), NEW s \in Sessions, StepOf(s), LockAt(s), PendOk(L, s),
         NEW t \in Sessions, DiskAt(L, t)
  PROVE  DiskAt(L, t)'
<1>0. /\ TypeOK /\ WriterAt(s) /\ job' = job /\ \A u \in Sessions : StaysAdmitted(u)
      /\ t # s => /\ StoreView(t)' = StoreView(t) /\ (t \in finished' <=> t \in finished)
  BY StepAside DEF TypeInv, PendOk
<1>1. CASE RecipeWriterStep(s) /\ UNCHANGED <<job, clientVars>>
  BY <1>1, WriterDisk
<1>2. CASE ClientSide(s) \/ DataWriterStep(s)
  <2>1. UNCHANGED <<recipeWriter, total, recipes, finished>>
    BY <1>2 DEF ClientSide, connVars, uploadVars, threadVars, writerVars, DataWriterStep
  <2> QED
    BY <1>0, <2>1, DiskKept
<1>3. CASE HandlerStep(s) /\ UNCHANGED <<job, clientVars>>
  <2>1. UNCHANGED <<cpc, total, recipes>>
    BY <1>3 DEF HandlerStep, writerVars, clientVars
  <2>2. /\ recipeWriter[t] = "open" => recipeWriter'[t] = "open"
        /\ (recipeWriter'[t] = "exit" \/ t \in finished')
             => (recipeWriter[t] = "exit" \/ t \in finished)
    <3>1. CASE t = s
      BY <1>0, <1>3, <2>1, <3>1, HandlerAdmits
    <3>2. CASE t # s
      BY <1>0, <3>2 DEF StoreView
    <3> QED
      BY <3>1, <3>2
  <2> QED
    BY <1>0, <2>1, <2>2, DiskKept
<1> QED
  BY <1>1, <1>2, <1>3 DEF StepOf

LEMMA NextUpload ==
  ASSUME TypeInv, TypeInv', IndexInv, UploadInv, [Next]_vars
  PROVE  UploadInv'
<1>0. /\ TypeOK /\ AddressesKept({})
      /\ \A s \in Sessions : /\ LockAt(s) /\ EntryAt({}, s) /\ SliceAt(s)
                             /\ (done[s] => spc[s] = "join")
                             /\ PendOk({}, s) /\ WriterAt(s) /\ DiskAt({}, s)
  BY NextIndex DEF TypeInv, IndexInv, LockInv, StoreInv, StoreAt, AddressInv, UploadInv, SliceInv,
                   PendInv, PendOk, DiskInv
<1>1. ASSUME NEW s \in Sessions, StepOf(s) PROVE UploadInv'
  <2>1. \A t \in Sessions \ {s} : SliceAt(t)' /\ PendOk({}, t)'
    BY <1>0, <1>1, StepAside, AsidePend
  <2>2. SliceAt(s)' /\ PendOk({}, s)'
    BY <1>0, <1>1, StepPend
  <2>3. \A t \in Sessions : DiskAt({}, t)'
    BY <1>0, <1>1, StepDisk
  <2> QED
    BY <2>1, <2>2, <2>3 DEF UploadInv, SliceInv, PendInv, DiskInv
<1>2. CASE UNCHANGED vars
  <2>1. UNCHANGED <<job, spc, key, recipeWriter, total, recipes, finished>>
    BY <1>2 DEF vars, connVars, uploadVars, threadVars, writerVars
  <2>2. ASSUME NEW t \in Sessions
        PROVE  TalkView(t)' = TalkView(t) /\ StoreView(t)' = StoreView(t)
    BY <1>2 DEF vars, wire, clientVars, connVars, uploadVars, queueVars, threadVars, writerVars,
                TalkView, StoreView
  <2>3. \A t \in Sessions : SliceAt(t)' /\ PendOk({}, t)'
    BY <1>0, <2>1, <2>2, AsidePend
  <2>4. \A u \in Sessions : StaysAdmitted(u)
    BY <2>1 DEF StaysAdmitted, Admitted, Uploading
  <2>5. \A t \in Sessions : DiskAt({}, t)'
    BY <1>0, <2>1, <2>4, DiskKept
  <2> QED
    BY <2>3, <2>5 DEF UploadInv, SliceInv, PendInv, DiskInv
<1> QED
  BY <1>1, <1>2, StepOfOne DEF StepOf

LEMMA UploadInvariant == Spec => []UploadInv
<1>1. TypeInv /\ TypeInv' /\ IndexInv /\ UploadInv /\ [Next]_vars => UploadInv'
  BY NextUpload
<1> QED
  BY <1>1, InitUpload, TypeInvariant, IndexInvariant, PTL DEF Spec

LEMMA NamedNames == \A b, n, f : Named({}, b, n, f) => Names(b, n, f)
  BY DEF Named, Names, Found

(* receive_file loses, repeats and reorders no recipe entry, whatever the  *)
(* sizes of batches and queues and whatever the threads' interleaving: if  *)
(* no other session writes a recipe of that name, what is in the file, in  *)
(* the writer's hands, in the queue and in the buffer names the chunks of  *)
(* the client's file in order, and a finished upload's recipe names all of *)
(* them and has their number at its head.                                  *)
THEOREM RecipesFaithful == Spec => []RecipeFaithful
<1>1. ASSUME TypeInv, UploadInv PROVE RecipeFaithful
  <2> SUFFICES ASSUME NEW s \in Sessions, Writers(RecipeName(key[s])) = {s},
                      recipeWriter[s] # "open"
               PROVE  LET r == recipes[RecipeName(key[s])]
                          file == job[s].file
                          n == Len(r.entries)
                          q == recipeQueue[s]
                          Start(j) == n + Len(InHand(s)) + (j - 1) * BatchSize
                      IN /\ Named({}, r.entries, 0, file)
                         /\ Named({}, InHand(s), n, file)
                         /\ \A j \in DOMAIN q :
                              /\ Named({}, q[j], Start(j), file)
                              /\ Len(q[j]) = BatchSize \/ (j = Len(q) /\ spc[s] = "join")
                         /\ spc[s] # "join" => Named({}, recipe[s], Start(Len(q) + 1), file)
                         /\ s \in finished => n = Len(file) /\ r.total = n
    BY NamedNames DEF RecipeFaithful
  <2> DEFINE r == recipes[RecipeName(key[s])]
             f == job[s].file
  <2>1. /\ Len(r.entries) = total[s] /\ Named({}, r.entries, 0, f)
        /\ s \in finished => r.total = total[s]
    BY <1>1 DEF UploadInv, DiskInv, DiskAt
  <2>2. s \in finished => total[s] = Len(f)
    BY <1>1 DEF UploadInv, PendInv, PendOk, WriterAt
  <2>3. CASE Uploading(s)
    <3>1. Chain({}, total[s], InHand(s), recipeQueue[s], recipe[s], spc[s] = "join", f)
      BY <1>1, <2>3 DEF UploadInv, PendInv, PendOk, PendAt, Written
    <3> QED
      BY <2>1, <2>2, <3>1 DEF Chain, Offset
  <2>4. CASE ~ Uploading(s)
    <3>1. recipe[s] = << >> /\ recipeQueue[s] = << >> /\ InHand(s) = << >> /\ spc[s] # "join"
      BY <1>1, <2>4 DEF UploadInv, PendInv, PendOk, WriterAt, InHand, Uploading
    <3>2. s \in finished
      BY <2>4 DEF Writers
    <3>3. total[s] \in Nat /\ total[s] = Len(f) /\ BatchSize \in Nat
      BY <1>1, <2>2, <3>2, BatchSizeAssumption DEF TypeInv, TypeOK, ConnTypeOK, BatchSizeAssumption
    <3>4. total[s] + 0 + ((0 + 1) - 1) * BatchSize = total[s]
      <4>1. \A a, b \in Nat : a + 0 = a /\ (0 + 1) - 1 = 0 /\ 0 * b = 0
        OBVIOUS
      <4> QED
        BY <3>3, <4>1
    <3>5. Named({}, << >>, total[s], f)
      BY <3>3 DEF Named
    <3>6. Len(<< >>) = 0 /\ DOMAIN << >> = {}
      OBVIOUS
    <3> QED
      BY <2>1, <2>2, <3>1, <3>2, <3>4, <3>5, <3>6
  <2> QED
    BY <2>3, <2>4
<1> QED
  BY <1>1, UploadInvariant, TypeInvariant, PTL

----------------------------------------------------------------------------
(* Downloads.  They follow positions in the file again: of what the client *)
(* has, of the bodies on their way, of the body the handler builds, and of *)
(* the stream it reads the recipe from.                                    *)

(* No container file has the id of another one.                            *)
DiskUnique == \A f, g \in containers : f.id = g.id => f = g

(* A recipe that is there has been opened by a session that writes it.     *)
MadeInv ==
  \A n \in DOMAIN recipes : \E t \in Sessions :
    Admitted(t) /\ recipeWriter[t] # "open" /\ RecipeName(key[t]) = n

(* The chunks d, which belong behind the first n ones of f, are there, or  *)
(* at a missed place what the buffer held.                                 *)
Suits(v, k, f, missed) == v = f[k] \/ (k \in missed /\ v \in LeftOver(f, k))

Aligned(d, n, f, missed) ==
  n + Len(d) <= Len(f) /\ \A k \in DOMAIN d : Suits(d[k], n + k, f, missed)

(* The buffer b, when the next body goes behind the first n chunks of f,   *)
(* holds nothing but what earlier bodies have left there.                  *)
Rests(b, n, f) == \A k \in DOMAIN b : b[k] \in LeftOver(f, n + k)

(* The reply EXIST precedes the bodies.                                    *)
Before(d) == IF cpc[d] = "download_rep" THEN 1 ELSE 0

(* The chunks of the file before the k-th message on its way.              *)
Ahead(d, k) == Offset(Len(got[d]), k - Before(d))

(* Those before what the handler sends next.                               *)
Now(d) == Ahead(d, Len(toClient[d]) + 1)

(* The k-th message is a body in its place; it is full if the handler may  *)
(* send another one.                                                       *)
BodyAt(d, k, f) ==
  LET b == toClient[d][k].data
  IN /\ Aligned(b, Ahead(d, k), f, reader[d].missed)
     /\ \/ Len(b) = BatchSize
        \/ /\ spc[d] # "chunk" /\ reader[d].eof
           /\ \A j \in DOMAIN toClient[d] : j > k => toClient[d][j].type # "DOWNLOADBODY"

(* The body so far, and the addresses of its other chunks.                 *)
ChunkAt(L, d, f) ==
  LET r == reader[d]
      n == Now(d) + Len(r.out)
  IN /\ Aligned(r.out, Now(d), f, r.missed) /\ Named(L, r.addrs, n, f)
     /\ Rests(r.old, Now(d), f)
     /\ n + Len(r.addrs) = r.pos
     /\ Len(r.out) + Len(r.addrs) = BatchSize \/ r.eof

ReadAt(L, d, f) ==
  /\ Aligned(got[d], 0, f, reader[d].missed)
  /\ \A k \in DOMAIN toClient[d] : toClient[d][k].type = "DOWNLOADBODY" => BodyAt(d, k, f)
  /\ spc[d] = "chunk" => ChunkAt(L, d, f)
  /\ spc[d] = "recipe" /\ ~ reader[d].eof =>
       Now(d) = reader[d].pos /\ Rests(Buffer(reader[d]), Now(d), f)

(* A download reads what the only writer of the recipe has in its file.    *)
ReadInv ==
  \A d, t \in Sessions :
    Writers(RecipeName(key[d])) \subseteq {t} => ReadAt({}, d, job[t].file)

(* It starts with nothing.                                                 *)
Unread(d) == reader[d].out = << >> /\ reader[d].old = << >> /\ reader[d].missed = {}

StartAt(d) ==
  /\ spc[d] = "accepted" \/ cpc[d] \in {"start", "upload_rep", "body_rep", "download_rep"}
       => got[d] = << >>
  /\ spc[d] = "open" => got[d] = << >> /\ Len(toClient[d]) = Before(d)
  /\ spc[d] \in {"accepted", "exist", "open"} \/ (cpc[d] = "download_rep" /\ toServer[d] # << >>)
       => Unread(d)

StartInv == \A d \in Sessions : StartAt(d)

----------------------------------------------------------------------------
(* What is on disk when it is read.                                        *)

LEMMA NextUnique ==
  ASSUME TypeInv, IdInv, DiskUnique, [Next]_vars
  PROVE  DiskUnique'
<1>1. ASSUME containers' = containers PROVE DiskUnique'
  BY <1>1 DEF DiskUnique
<1>2. ASSUME NEW s \in Sessions, DataWriterStep(s) PROVE DiskUnique'
  <2>1. CASE SaveContainer(s)
    <3>1. /\ saving[s] \in Container /\ containers \subseteq Container
          /\ containerQueue[s] \in Seq(Container)
      BY <2>1, IdTypes DEF SaveContainer
    <3>2. Ascending(s, containers, saving[s], containerQueue[s], Bound(s))
      BY DEF IdInv, IdAt
    <3>3. \A f \in containers : f.id # saving[s].id
      BY <2>1, <3>1, <3>2, IdTypes, AscendingSave DEF SaveContainer
    <3>4. containers' = containers \cup {saving[s]}
      BY <2>1, <3>3 DEF SaveContainer
    <3> QED
      BY <3>3, <3>4 DEF DiskUnique
  <2>2. CASE PopContainer(s) \/ EndDataWriter(s)
    BY <1>1, <2>2 DEF PopContainer, EndDataWriter
  <2> QED
    BY <1>2, <2>1, <2>2 DEF DataWriterStep
<1>3. ASSUME NEW s \in Sessions, ClientSide(s) \/ HandlerStep(s) \/ RecipeWriterStep(s)
      PROVE  DiskUnique'
  BY <1>1, <1>3 DEF ClientSide, connVars, writerVars, HandlerStep, RecipeWriterStep
<1>4. ASSUME UNCHANGED vars PROVE DiskUnique'
  BY <1>1, <1>4 DEF vars, connVars, writerVars
<1> QED
  BY <1>2, <1>3, <1>4, StepOfOne

(* The container at address a is not on disk, and what is held is kept.    *)
NotThere(a, held) == ~ ZeroSize(a) /\ FilesWith(a) = {} /\ Fetch(a, held) = <<held>>

(* An address of a chunk of f is read from the container it names, or from *)
(* none.                                                                   *)
FetchesRight(L, f) ==
  \A a \in Addr : \A k \in 1 .. Len(f) : Found(L, a, f[k]) =>
    \A held : Fetch(a, held) = <<f[k]>> \/ NotThere(a, held)

LEMMA FetchUnique ==
  ASSUME NEW a \in Addr, NEW c, NEW held, a.slot # 0,
         \A g \in containers : g.id = a.id /\ a.slot \in DOMAIN g.data => g.data[a.slot] = c
  PROVE  Fetch(a, held) = <<c>> \/ NotThere(a, held)
<1> DEFINE found == FilesWith(a)
           g == CHOOSE f \in found : TRUE
<1>0. ~ ZeroSize(a)
  BY NoAddrAssumption DEF NoAddrAssumption, ZeroSize
<1>1. CASE found = {}
  <2>1. Fetch(a, held) = <<held>>
    BY <1>0, <1>1, Zenon DEF Fetch
  <2> QED
    BY <1>0, <1>1, <2>1 DEF NotThere
<1>2. CASE found # {}
  <2>1. Fetch(a, held) = <<g.data[a.slot]>>
    BY <1>0, <1>2, Zenon DEF Fetch
  <2>2. g \in found
    BY <1>2
  <2>3. g.data[a.slot] = c
    BY <2>2 DEF FilesWith
  <2> QED
    BY <2>1, <2>3
<1> QED
  BY <1>1, <1>2

(* A container in memory whose id is on disk is that container.            *)
LEMMA MemoryAlone ==
  ASSUME TypeOK, IdInv, NEW t \in Sessions, NEW f \in InMemory(t), f.data # << >>,
         f = container[t] => StoreAt(t), NEW g \in containers, g.id = f.id
  PROVE  f \in containers
<1>0. /\ g \in Container /\ container[t] \in Container /\ g.id[2] \in Nat
      /\ container[t].id[2] \in Nat /\ g.id[1] = f.id[1]
  <2>1. g \in Container /\ container[t] \in Container
    BY ViewTypes
  <2> QED
    BY <2>1, ContainerNumber
<1>1. Ascending(t, containers, saving[t], containerQueue[t], Bound(t)) /\ container[t].id[1] = t
  BY DEF IdInv, IdAt
<1>2. CASE saving[t] # None /\ f = saving[t]
  <2>1. g.id[1] = t /\ g.id[2] < g.id[2]
    BY <1>0, <1>1, <1>2 DEF Ascending
  <2> QED
    BY <1>0, <2>1
<1>3. CASE f \in ToSet(containerQueue[t])
  <2>1. PICK i \in DOMAIN containerQueue[t] : f = containerQueue[t][i]
    BY <1>3 DEF ToSet
  <2>2. g.id[1] = t /\ g.id[2] < g.id[2]
    BY <1>0, <1>1, <2>1 DEF Ascending
  <2> QED
    BY <1>0, <2>2
<1>4. CASE f = container[t] /\ f \notin containers /\ f # saving[t]
           /\ f \notin ToSet(containerQueue[t])
  <2>1. spc[t] \notin {"last_recipe", "join", "closed"}
    BY <1>4 DEF StoreAt, Uploading
  <2>2. Bound(t) = g.id[2] + 0
    BY <1>0, <1>4, <2>1 DEF Bound
  <2>3. g.id[2] < g.id[2] + 0
    BY <1>0, <1>1, <1>4, <2>2 DEF Ascending
  <2> QED
    BY <1>0, <2>3
<1>5. f = saving[t] => saving[t] # None
  <2>1. None \notin ToSet(containerQueue[t])
    BY ViewTypes, NoneAssumption DEF ToSet, NoneAssumption
  <2> QED
    BY <2>1 DEF InMemory
<1> QED
  BY <1>2, <1>3, <1>4, <1>5 DEF InMemory

(* A slot that holds a chunk is not the one of a chunk of zero bytes.      *)
LEMMA ResolvedSlot ==
  ASSUME TypeOK, NEW a, NEW c, Resolves(a, c)
  PROVE  a.slot # 0
<1>1. ASSUME NEW f \in Container, Holds(f, a, c) PROVE a.slot # 0
  <2>1. f.data \in Seq(Bytes) /\ a.slot \in DOMAIN f.data
    BY <1>1 DEF Container, Holds
  <2> QED
    BY <2>1
<1>2. \A t \in Sessions : InMemory(t) \subseteq Container
  BY ViewTypes DEF InMemory, ToSet
<1>3. containers \subseteq Container
  BY DEF TypeOK, ConnTypeOK
<1> QED
  BY <1>1, <1>2, <1>3 DEF Resolves, OnDisk

LEMMA FetchRight ==
  ASSUME TypeOK, IdInv, StoreInv, DiskUnique, NEW a \in Addr, NEW c, Resolves(a, c), NEW held
  PROVE  Fetch(a, held) = <<c>> \/ NotThere(a, held)
<1>1. ASSUME NEW g \in containers, g.id = a.id, a.slot \in DOMAIN g.data
      PROVE  g.data[a.slot] = c
  <2>1. ASSUME OnDisk(a, c) PROVE g.data[a.slot] = c
    BY <1>1, <2>1 DEF OnDisk, Holds, DiskUnique
  <2>2. ASSUME NEW t \in Sessions, NEW f \in InMemory(t), Holds(f, a, c) PROVE OnDisk(a, c)
    <3>1. f.data # << >> /\ g.id = f.id
      BY <1>1, <2>2 DEF Holds
    <3>2. f \in containers
      BY <3>1, MemoryAlone DEF StoreInv
    <3> QED
      BY <2>2, <3>2 DEF OnDisk
  <2> QED
    BY <2>1, <2>2 DEF Resolves
<1>2. a.slot # 0
  BY ResolvedSlot
<1> QED
  BY <1>1, <1>2, FetchUnique

(* No recipe loses the session that has opened it, and a new one has one.  *)
Maker(t) == Admitted(t) /\ recipeWriter[t] # "open"

MadeStep ==
  /\ \A t \in Sessions : Maker(t) => Maker(t)' /\ key'[t] = key[t]
  /\ \A n \in DOMAIN recipes' \ DOMAIN recipes : \E t \in Sessions :
       Maker(t)' /\ RecipeName(key[t])' = n

LEMMA StepMade ==
  ASSUME TypeInv, NEW s \in Sessions, LockAt(s), WriterAt(s),
         \/ ClientSide(s) \/ DataWriterStep(s) \/ RecipeWriterStep(s)
         \/ HandlerStep(s) /\ UNCHANGED <<job, clientVars>>
  PROVE  MadeStep
<1>0. TypeOK /\ RecipeAt(s)
  BY DEF TypeInv, RecipeInv
<1>2. ASSUME UNCHANGED <<spc, key, recipeWriter, recipes, finished>> PROVE MadeStep
  BY <1>2 DEF MadeStep, Maker, Admitted, Uploading, RecipeName
<1>3. ASSUME ClientSide(s) \/ DataWriterStep(s) PROVE MadeStep
  BY <1>2, <1>3 DEF ClientSide, connVars, uploadVars, threadVars, writerVars, DataWriterStep
<1>4. ASSUME HandlerStep(s), UNCHANGED <<job, clientVars>> PROVE MadeStep
  <2>1. cpc' = cpc /\ recipes' = recipes
    BY <1>4 DEF clientVars, HandlerStep, writerVars
  <2>2. StaysAdmitted(s) /\ \A t \in Sessions \ {s} : t \in finished' <=> t \in finished
    BY <1>0, <1>4, <2>1, HandlerAdmits
  <2>3. ASSUME NEW t \in Sessions \ {s}, Maker(t) PROVE Maker(t)' /\ key'[t] = key[t]
    <3>1. spc'[t] = spc[t] /\ key'[t] = key[t] /\ recipeWriter'[t] = recipeWriter[t]
      BY <1>0, <1>4, HandlerOthers DEF TalkView, StoreView
    <3> QED
      BY <2>2, <2>3, <3>1 DEF Maker, Admitted, Uploading
  <2>4. ASSUME Maker(s) PROVE recipeWriter'[s] # "open"
    <3>1. spc[s] # "add_file"
      BY <2>4 DEF WriterAt, Maker, Admitted, Uploading
    <3>2. recipeWriter' = recipeWriter \/ recipeWriter'[s] = "none"
      BY <1>0, <1>4, <3>1, ViewTypes
         DEF HandlerStep, RunStep, DownloadStep, UploadStep, AdmitStep, CheckUnique, AddFile,
             ReceiveStep, StoreStep, QueryStep, FinishStep, InsertLastContainer,
             InsertLastRecipe, Join, uploadVars, threadVars
    <3> QED
      BY <2>4, <3>2 DEF Maker
  <2>5. Maker(s) => Maker(s)' /\ key'[s] = key[s]
    BY <2>2, <2>4 DEF StaysAdmitted, Maker
  <2> QED
    BY <2>1, <2>3, <2>5 DEF MadeStep
<1>5. ASSUME RecipeWriterStep(s) PROVE MadeStep
  <2>0. UNCHANGED <<spc, key, finished>>
    BY <1>5 DEF RecipeWriterStep
  <2>1. /\ recipeWriter'[s] # "open" /\ recipeWriter[s] # "none"
        /\ \A t \in Sessions \ {s} : recipeWriter'[t] = recipeWriter[t]
    BY <1>0, <1>5, ViewTypes DEF RecipeWriterStep, OpenRecipe, PopRecipe, WriteRecipe,
                                 EndRecipeWriter, RecipeAt
  <2>2. DOMAIN recipes' \subseteq DOMAIN recipes \cup {RecipeName(key[s])}
    BY <1>5 DEF RecipeWriterStep, OpenRecipe, PopRecipe, WriteRecipe, EndRecipeWriter, PutRecipe
  <2>3. Maker(s)' /\ RecipeName(key[s])' = RecipeName(key[s])
    BY <1>0, <2>0, <2>1 DEF RecipeAt, Maker, Admitted, Uploading, RecipeName
  <2>4. \A t \in Sessions : Maker(t) => Maker(t)' /\ key'[t] = key[t]
    BY <2>0, <2>1 DEF Maker, Admitted, Uploading
  <2> QED
    BY <2>2, <2>3, <2>4 DEF MadeStep
<1> QED
  BY <1>3, <1>4, <1>5

LEMMA NextMade ==
  ASSUME TypeInv, LockInv, PendInv, MadeInv, [Next]_vars
  PROVE  MadeInv'
<1>0. \A s \in Sessions : LockAt(s) /\ WriterAt(s)
  BY DEF LockInv, PendInv, PendOk
<1>1. ASSUME MadeStep PROVE MadeInv'
  <2> SUFFICES ASSUME NEW n \in DOMAIN recipes'
               PROVE  \E t \in Sessions : Maker(t)' /\ RecipeName(key[t])' = n
    BY DEF MadeInv, Maker
  <2>1. CASE n \in DOMAIN recipes
    <3>1. PICK t \in Sessions : Maker(t) /\ RecipeName(key[t]) = n
      BY <2>1 DEF MadeInv, Maker
    <3>2. Maker(t)' /\ RecipeName(key[t])' = n
      BY <1>1, <3>1 DEF MadeStep, RecipeName
    <3> QED
      BY <3>2
  <2> QED
    BY <1>1, <2>1 DEF MadeStep
<1>2. CASE UNCHANGED vars
  BY <1>2 DEF vars, connVars, uploadVars, threadVars, writerVars, MadeInv, Admitted, Uploading,
              RecipeName
<1> QED
  BY <1>0, <1>1, <1>2, StepMade, StepOfOne

----------------------------------------------------------------------------
(* Places in the file.                                                     *)

LEMMA ReadTypes ==
  ASSUME TypeOK, NEW d \in Sessions
  PROVE  /\ got[d] \in Seq(Bytes) /\ Len(got[d]) \in Nat
         /\ toClient[d] \in Seq(ClientMsg) /\ Len(toClient[d]) \in Nat
         /\ reader[d] \in Reader /\ reader[d].out \in Seq(Bytes) /\ reader[d].addrs \in Entries
         /\ reader[d].old \in Seq(Bytes)
         /\ reader[d].pos \in Nat /\ reader[d].eof \in BOOLEAN
         /\ \A k \in DOMAIN toClient[d] :
              toClient[d][k].type = "DOWNLOADBODY" => toClient[d][k].data \in Seq(Bytes)
<1>1. got[d] \in Seq(Bytes) /\ toClient[d] \in Seq(ClientMsg) /\ reader[d] \in Reader
  BY ViewTypes, LockTypes
<1>2. \A m \in ClientMsg : m.type = "DOWNLOADBODY" => m.data \in Seq(Bytes)
  BY ClientMsgFields
<1> QED
  BY <1>1, <1>2 DEF Reader

LEMMA AlignedApp ==
  ASSUME NEW a \in Seq(Bytes), NEW b \in Seq(Bytes), NEW n \in Nat, NEW f, Len(f) \in Nat,
         NEW M, Aligned(a, n, f, M), Aligned(b, n + Len(a), f, M)
  PROVE  Aligned(a \o b, n, f, M)
<1>1. /\ Len(a) \in Nat /\ Len(b) \in Nat /\ Len(a \o b) = Len(a) + Len(b)
      /\ DOMAIN a = 1 .. Len(a) /\ DOMAIN b = 1 .. Len(b)
      /\ DOMAIN (a \o b) = 1 .. Len(a) + Len(b)
      /\ \A k \in 1 .. Len(a) + Len(b) :
           (a \o b)[k] = IF k <= Len(a) THEN a[k] ELSE b[k - Len(a)]
  OBVIOUS
<1>2. n + Len(a \o b) <= Len(f)
  BY <1>1 DEF Aligned
<1>3. ASSUME NEW k \in 1 .. Len(a) + Len(b) PROVE Suits((a \o b)[k], n + k, f, M)
  <2>1. CASE k <= Len(a)
    <3>1. k \in 1 .. Len(a)
      BY <1>1, <2>1
    <3> QED
      BY <1>1, <2>1, <3>1 DEF Aligned
  <2>2. CASE ~ k <= Len(a)
    <3>1. k - Len(a) \in 1 .. Len(b) /\ n + Len(a) + (k - Len(a)) = n + k
      BY <1>1, <2>2
    <3>2. Suits(b[k - Len(a)], n + Len(a) + (k - Len(a)), f, M)
      BY <1>1, <3>1 DEF Aligned
    <3>3. (a \o b)[k] = b[k - Len(a)]
      BY <1>1, <2>2
    <3> QED
      BY <3>1, <3>2, <3>3
  <2> QED
    BY <2>1, <2>2
<1> QED
  BY <1>1, <1>2, <1>3 DEF Aligned

LEMMA AlignedGrows ==
  ASSUME NEW d, NEW n, NEW f, NEW M, NEW N, M \subseteq N, Aligned(d, n, f, M)
  PROVE  Aligned(d, n, f, N)
  BY DEF Aligned, Suits

(* What a place holds, and what can be left there, can be left at the same *)
(* place of the next batch.                                                *)
LEMMA LeftOverNext ==
  ASSUME NEW f, NEW k \in Nat \ {0}
  PROVE  /\ LeftOver(f, k) \subseteq LeftOver(f, k + BatchSize)
         /\ f[k] \in LeftOver(f, k + BatchSize)
<1>0. BatchSize \in Nat \ {0}
  BY BatchSizeAssumption DEF BatchSizeAssumption
<1>1. ASSUME NEW i \in 1 .. k, NEW m \in 0 .. k, k = i + m * BatchSize
      PROVE  f[i] \in LeftOver(f, k + BatchSize)
  <2>1. /\ i \in 1 .. k + BatchSize /\ m + 1 \in 1 .. k + BatchSize
    BY <1>0
  <2>2. k + BatchSize = i + (m + 1) * BatchSize
    <3>1. \A b, x, j \in Int : (j + x * b) + b = j + (x + 1) * b
      OBVIOUS
    <3>2. m \in Int /\ i \in Int /\ BatchSize \in Int
      BY <1>0
    <3> QED
      BY <1>1, <3>1, <3>2
  <2> QED
    BY <2>1, <2>2 DEF LeftOver
<1>2. f[k] \in LeftOver(f, k + BatchSize)
  <2>1. 0 * BatchSize = 0 /\ k + 0 = k /\ k \in 1 .. k /\ 0 \in 0 .. k
    BY <1>0
  <2> QED
    BY <1>1, <2>1
<1>3. ASSUME NEW v \in LeftOver(f, k) PROVE v \in LeftOver(f, k + BatchSize)
  <2>1. CASE v = Junk
    BY <2>1 DEF LeftOver
  <2>2. CASE v # Junk
    <3>1. PICK i \in 1 .. k : v = f[i] /\ \E m \in 1 .. k : k = i + m * BatchSize
      BY <2>2 DEF LeftOver
    <3>2. PICK m \in 1 .. k : k = i + m * BatchSize
      BY <3>1
    <3>3. m \in 0 .. k
      OBVIOUS
    <3> QED
      BY <1>1, <3>1, <3>2, <3>3
  <2> QED
    BY <2>1, <2>2
<1> QED
  BY <1>2, <1>3

(* A full body stays in the buffer in which the next one is put together.  *)
LEMMA BufferRests ==
  ASSUME NEW r \in Reader, NEW n \in Nat, NEW f, Aligned(r.out, n, f, r.missed),
         Rests(r.old, n, f)
  PROVE  Rests(Buffer(r), n + BatchSize, f)
<1>o. PICK o, h : o = r.out /\ h = r.old
  OBVIOUS
<1>1. o \in Seq(Bytes) /\ h \in Seq(Bytes)
  BY <1>o DEF Reader
<1>2. /\ Len(o) \in Nat /\ Len(h) \in Nat /\ DOMAIN o = 1 .. Len(o) /\ DOMAIN h = 1 .. Len(h)
      /\ BatchSize \in Nat
  BY <1>1, BatchSizeAssumption DEF BatchSizeAssumption
<1>3. PICK t : t = SubSeq(h, Len(o) + 1, Len(h))
  OBVIOUS
<1>4. /\ t \in Seq(Bytes) /\ Len(t) \in Nat
      /\ \A k \in 1 .. Len(t) : Len(o) + k \in 1 .. Len(h) /\ t[k] = h[Len(o) + k]
  BY <1>1, <1>2, <1>3
<1>5. /\ Buffer(r) = o \o t /\ DOMAIN Buffer(r) = 1 .. Len(o) + Len(t)
      /\ \A k \in 1 .. Len(o) + Len(t) :
           Buffer(r)[k] = IF k <= Len(o) THEN o[k] ELSE t[k - Len(o)]
  <2>1. Buffer(r) = o \o t
    BY <1>3, <1>o DEF Buffer
  <2> QED
    BY <1>1, <1>4, <2>1
<1>6. ASSUME NEW k \in 1 .. Len(o) + Len(t)
      PROVE  Buffer(r)[k] \in LeftOver(f, n + BatchSize + k)
  <2>1. n + k \in Nat \ {0} /\ (n + k) + BatchSize = n + BatchSize + k
    BY <1>2, <1>4
  <2>2. /\ LeftOver(f, n + k) \subseteq LeftOver(f, n + BatchSize + k)
        /\ f[n + k] \in LeftOver(f, n + BatchSize + k)
    BY <2>1, LeftOverNext
  <2>3. CASE k <= Len(o)
    <3>1. k \in DOMAIN o /\ Buffer(r)[k] = o[k]
      BY <1>2, <1>5, <2>3
    <3> QED
      BY <1>o, <2>2, <3>1 DEF Aligned, Suits
  <2>4. CASE ~ k <= Len(o)
    <3>1. k - Len(o) \in 1 .. Len(t) /\ Len(o) + (k - Len(o)) = k
      BY <1>2, <1>4, <2>4
    <3>2. k \in DOMAIN h /\ Buffer(r)[k] = h[k]
      BY <1>2, <1>4, <1>5, <2>4, <3>1
    <3> QED
      BY <1>o, <2>2, <3>2 DEF Rests
  <2> QED
    BY <2>3, <2>4
<1> QED
  BY <1>5, <1>6 DEF Rests

(* Places are numbers; the next one is a whole body further.               *)
LEMMA AheadNext ==
  ASSUME TypeOK, NEW d \in Sessions, NEW k \in Nat, k > Before(d)
  PROVE  /\ Ahead(d, k) \in Nat /\ Ahead(d, k + 1) = Ahead(d, k) + BatchSize
         /\ k = 1 => Ahead(d, k) = Len(got[d])
<1> DEFINE j == k - 1 - Before(d)
<1>1. Before(d) \in Nat /\ j \in Nat /\ k - Before(d) = j + 1 /\ (k + 1) - Before(d) = j + 2
      /\ (k = 1 => j = 0)
  BY DEF Before
<1>2. Len(got[d]) \in Nat
  BY ReadTypes
<1> HIDE DEF j
<1>3. Ahead(d, k) = Offset(Len(got[d]), j + 1) /\ Ahead(d, k + 1) = Offset(Len(got[d]), j + 2)
  BY <1>1 DEF Ahead
<1>4. /\ Offset(Len(got[d]), j + 1) \in Nat /\ Offset(Len(got[d]), 1) = Len(got[d])
      /\ Offset(Len(got[d]), j + 2) = Offset(Len(got[d]), j + 1) + BatchSize
  BY <1>1, <1>2, OffsetNext
<1>5. j = 0 => j + 1 = 1
  OBVIOUS
<1> QED
  BY <1>1, <1>3, <1>4, <1>5

----------------------------------------------------------------------------
(* No body is on its way, and none is read.                                *)
NoBody(d) == \A k \in DOMAIN toClient[d] : toClient[d][k].type # "DOWNLOADBODY"

LEMMA PhaseNoBody ==
  ASSUME NEW d \in Sessions, LockAt(d), ~ Streaming(d)
  PROVE  NoBody(d) /\ spc[d] \notin {"open", "recipe", "chunk"}
<1>1. ASSUME NEW m, toClient[d] = <<m>>, m.type # "DOWNLOADBODY" PROVE NoBody(d)
  <2>1. DOMAIN toClient[d] = {1} /\ toClient[d][1] = m
    BY <1>1
  <2> QED
    BY <1>1, <2>1 DEF NoBody
<1>2. toClient[d] = << >> => NoBody(d)
  BY DEF NoBody
<1>3. PhaseAt(d)
  BY DEF LockAt
<1> QED
  BY <1>1, <1>2, <1>3, MsgTypes
     DEF PhaseAt, Starting, Admitting, BodySent, Storing, Querying, Replied, Ending,
         Downloading, Silent, Told, Answered, AfterBody

LEMMA ReadClear ==
  ASSUME NEW L, NEW d, NEW f, Aligned(got'[d], 0, f, reader'[d].missed), NoBody(d)',
         spc'[d] \notin {"recipe", "chunk"} \/ (spc'[d] = "recipe" /\ reader'[d].eof)
  PROVE  ReadAt(L, d, f)'
<1>1. Aligned(got[d], 0, f, reader[d].missed)'
  BY DEF Aligned, Suits, LeftOver
<1> QED
  BY <1>1 DEF ReadAt, NoBody

LEMMA NothingRead ==
  ASSUME NEW f, Len(f) \in Nat, NEW M
  PROVE  Aligned(<< >>, 0, f, M)
  BY DEF Aligned

LEMMA ReadKept ==
  ASSUME NEW L, NEW d, NEW f, AddressesKept(L), ReadAt(L, d, f), TalkView(d)' = TalkView(d)
  PROVE  ReadAt(L, d, f)'
<1>1. /\ toClient'[d] = toClient[d] /\ cpc'[d] = cpc[d] /\ got'[d] = got[d]
      /\ spc'[d] = spc[d] /\ reader'[d] = reader[d]
  BY DEF TalkView
<1>2. Before(d)' = Before(d)
  BY <1>1 DEF Before
<1>3. \A k : Ahead(d, k)' = Ahead(d, k)
  BY <1>1, <1>2 DEF Ahead
<1>4. Now(d)' = Now(d)
  BY <1>1, <1>2 DEF Now, Ahead
<1>5. ASSUME ChunkAt(L, d, f) PROVE ChunkAt(L, d, f)'
  BY <1>1, <1>4, <1>5 DEF ChunkAt, Named, AddressesKept
<1>6. ASSUME NEW k, BodyAt(d, k, f) PROVE BodyAt(d, k, f)'
  BY <1>1, <1>3, <1>6 DEF BodyAt
<1>7. Aligned(got[d], 0, f, reader[d].missed)'
  BY <1>1 DEF ReadAt
<1>8. ASSUME Rests(Buffer(reader[d]), Now(d), f) PROVE Rests(Buffer(reader[d]), Now(d), f)'
  BY <1>1, <1>4, <1>8 DEF Buffer
<1> QED
  BY <1>1, <1>4, <1>5, <1>6, <1>7, <1>8 DEF ReadAt

(* The client takes the first message, which is followed by no body or is  *)
(* as long as a body can be.                                               *)
LEMMA ReadShift ==
  ASSUME NEW L, TypeOK, NEW d \in Sessions, NEW f, AddressesKept(L), ReadAt(L, d, f),
         toClient[d] # << >>, toClient'[d] = Tail(toClient[d]), UNCHANGED <<spc, reader>>,
         Aligned(got'[d], 0, f, reader[d].missed),
         \A k \in Nat \ {0} : Ahead(d, k)' = Ahead(d, k + 1)
  PROVE  ReadAt(L, d, f)'
<1>q. PICK q, p : q = toClient[d] /\ p = toClient'[d]
  OBVIOUS
<1>1. /\ q \in Seq(ClientMsg) /\ q # << >> /\ p = Tail(q)
  BY <1>q, ReadTypes
<1>2. /\ p \in Seq(ClientMsg) /\ Len(p) = Len(q) - 1
      /\ \A k \in DOMAIN p : k + 1 \in DOMAIN q /\ p[k] = q[k + 1]
  BY <1>1, StreamTail
<1>3. /\ Len(q) \in Nat \ {0} /\ Len(p) \in Nat /\ DOMAIN p = 1 .. Len(p)
      /\ DOMAIN q = 1 .. Len(q) /\ Len(p) + 1 = Len(q)
  BY <1>1, <1>2
<1>4. Now(d)' = Now(d)
  <2>1. Now(d)' = Ahead(d, Len(q))'
    BY <1>3, <1>q DEF Now, Ahead, Before
  <2>2. Ahead(d, Len(q))' = Ahead(d, Len(q) + 1)
    BY <1>3
  <2> QED
    BY <1>q, <2>1, <2>2 DEF Now
<1>5. ASSUME ChunkAt(L, d, f) PROVE ChunkAt(L, d, f)'
  BY <1>4, <1>5 DEF ChunkAt, Named, AddressesKept
<1>6. ASSUME NEW k \in DOMAIN p, p[k].type = "DOWNLOADBODY" PROVE BodyAt(d, k, f)'
  <2>1. k \in Nat \ {0} /\ k + 1 \in DOMAIN q /\ p[k] = q[k + 1]
    <3>1. k \in 1 .. Len(p) /\ Len(p) \in Nat
      BY <1>3
    <3>2. k \in Nat \ {0}
      BY ONLY <3>1
    <3> QED
      BY <1>2, <3>2
  <2>2. BodyAt(d, k + 1, f)
    BY <1>6, <1>q, <2>1 DEF ReadAt
  <2>3. Ahead(d, k)' = Ahead(d, k + 1)
    BY <2>1
  <2>4. \A m, n \in Nat : m > n => m + 1 > n + 1
    OBVIOUS
  <2>5. DOMAIN p \subseteq Nat
    BY <1>3
  <2>6. \A j \in DOMAIN p : j > k => j + 1 \in DOMAIN q /\ j + 1 > k + 1 /\ p[j] = q[j + 1]
    BY <1>2, <2>1, <2>4, <2>5
  <2>7. Aligned(p[k].data, Ahead(d, k)', f, reader[d].missed)
    BY <1>q, <2>1, <2>2, <2>3 DEF BodyAt
  <2>8. ASSUME \A j \in DOMAIN q : j > k + 1 => q[j].type # "DOWNLOADBODY"
        PROVE  \A j \in DOMAIN p : j > k => p[j].type # "DOWNLOADBODY"
    BY <2>6, <2>8
  <2> QED
    BY <1>q, <2>1, <2>2, <2>7, <2>8 DEF BodyAt
<1>7. Aligned(got[d], 0, f, reader[d].missed)'
  BY DEF Aligned, Suits, LeftOver
<1>8. ASSUME Rests(Buffer(reader[d]), Now(d), f) PROVE Rests(Buffer(reader[d]), Now(d), f)'
  BY <1>4, <1>8 DEF Buffer
<1> QED
  BY <1>4, <1>5, <1>6, <1>7, <1>8, <1>q DEF ReadAt

LEMMA TailNoBody ==
  ASSUME TypeOK, NEW d \in Sessions, NoBody(d), toClient[d] # << >>,
         toClient'[d] = Tail(toClient[d])
  PROVE  NoBody(d)'
<1>1. PICK q, p : q = toClient[d] /\ p = toClient'[d]
  OBVIOUS
<1>2. \A k \in DOMAIN p : k + 1 \in DOMAIN q /\ p[k] = q[k + 1]
  BY <1>1, ReadTypes, StreamTail
<1> QED
  BY <1>1, <1>2 DEF NoBody

(* The client takes a body.                                                *)
LEMMA BodyRead ==
  ASSUME NEW L, TypeOK, NEW d \in Sessions, NEW f, Len(f) \in Nat, DownloadBody(d),
         AddressesKept(L), UNCHANGED <<spc, reader>>, ReadAt(L, d, f)
  PROVE  ReadAt(L, d, f)'
<1>1. PICK q, b : q = toClient[d] /\ b = Head(q).data
  OBVIOUS
<1>2. /\ q \in Seq(ClientMsg) /\ q # << >> /\ toClient'[d] = Tail(q)
      /\ cpc[d] = "download" /\ cpc'[d] = "download" /\ got'[d] = got[d] \o b
      /\ Head(q).type = "DOWNLOADBODY"
  BY <1>1, LockTypes, ViewTypes DEF DownloadBody, Arrived, receive_data
<1>3. /\ Head(q) = q[1] /\ 1 \in DOMAIN q /\ b \in Seq(Bytes) /\ BodyAt(d, 1, f)
      /\ \A k \in DOMAIN Tail(q) : k + 1 \in DOMAIN q /\ k + 1 > 1 /\ Tail(q)[k] = q[k + 1]
  <2>1. /\ Head(q) = q[1] /\ 1 \in DOMAIN q
        /\ \A k \in DOMAIN Tail(q) : k + 1 \in DOMAIN q /\ k + 1 > 1 /\ Tail(q)[k] = q[k + 1]
    BY <1>2
  <2> QED
    BY <1>1, <1>2, <2>1, ReadTypes DEF ReadAt
<1>4. Before(d) = 0 /\ Before(d)' = 0
  BY <1>2 DEF Before
<1>5. Ahead(d, 1) = Len(got[d]) /\ Len(got[d]) \in Nat /\ got[d] \in Seq(Bytes)
  BY <1>4, AheadNext, ReadTypes
<1>6. Aligned(got'[d], 0, f, reader[d].missed)
  <2>1. /\ Aligned(got[d], 0, f, reader[d].missed)
        /\ Aligned(b, 0 + Len(got[d]), f, reader[d].missed)
    <3>1. Aligned(b, Len(got[d]), f, reader[d].missed)
      BY <1>1, <1>2, <1>3, <1>5 DEF BodyAt
    <3> QED
      BY <1>5, <3>1 DEF ReadAt
  <2> QED
    BY <1>2, <1>3, <1>5, <2>1, AlignedApp
<1>7. CASE Len(b) = BatchSize
  <2>1. ASSUME NEW k \in Nat \ {0} PROVE Ahead(d, k)' = Ahead(d, k + 1)
    <3>1. PICK j \in Nat : k = j + 1
      <4>1. k - 1 \in Nat /\ k = (k - 1) + 1
        OBVIOUS
      <4> QED
        BY <4>1
    <3>2. Len(got'[d]) = Len(got[d]) + BatchSize
      <4>1. \A x, y \in Seq(Bytes) : Len(x \o y) = Len(x) + Len(y)
        OBVIOUS
      <4> QED
        BY <1>2, <1>3, <1>5, <1>7, <4>1
    <3>3. k - 0 = j + 1 /\ (k + 1) - 0 = j + 2
      BY <3>1
    <3>4. Ahead(d, k)' = Offset(Len(got[d]) + BatchSize, j + 1)
      BY <1>4, <3>2, <3>3 DEF Ahead, Offset
    <3>5. Ahead(d, k + 1) = Offset(Len(got[d]), j + 2)
      BY <1>4, <3>3 DEF Ahead
    <3> QED
      BY <1>5, <3>1, <3>4, <3>5, OffsetNext
  <2> QED
    BY <1>1, <1>2, <1>6, <2>1, ReadShift
<1>8. CASE Len(b) # BatchSize
  <2>1. /\ spc[d] # "chunk" /\ reader[d].eof
        /\ \A j \in DOMAIN q : j > 1 => q[j].type # "DOWNLOADBODY"
    BY <1>1, <1>2, <1>3, <1>8 DEF BodyAt
  <2>2. NoBody(d)'
    BY <1>2, <1>3, <2>1 DEF NoBody
  <2> QED
    BY <1>6, <2>1, <2>2, ReadClear
<1> QED
  BY <1>7, <1>8

LEMMA ClientRead ==
  ASSUME NEW L, TypeOK, NEW d \in Sessions, ClientSide(d), LockAt(d), StartAt(d), AddressesKept(L)
  PROVE  /\ StartAt(d)'
         /\ \A f : Len(f) \in Nat /\ ReadAt(L, d, f) => ReadAt(L, d, f)'
<1>0. UNCHANGED <<spc, reader>> /\ Unread(d)' = Unread(d) /\ Len(toClient[d]) \in Nat
  BY ReadTypes DEF ClientSide, connVars, Unread
<1>1. ASSUME got' = got, NoBody(d)', spc[d] \notin {"recipe", "chunk"}
      PROVE  \A f : ReadAt(L, d, f) => ReadAt(L, d, f)'
  <2> SUFFICES ASSUME NEW f, ReadAt(L, d, f) PROVE ReadAt(L, d, f)'
    OBVIOUS
  <2> QED
    BY <1>0, <1>1, ReadClear DEF ReadAt
<1>2. ASSUME ~ Streaming(d) PROVE NoBody(d) /\ spc[d] \notin {"open", "recipe", "chunk"}
  BY <1>2, PhaseNoBody
<1>3. CASE Connect(d)
  <2>1. ~ Streaming(d) /\ got' = got /\ toClient' = toClient /\ got[d] = << >>
    BY <1>3 DEF Connect, Streaming, StartAt
  <2>2. NoBody(d)'
    BY <1>2, <2>1 DEF NoBody
  <2>3. spc[d] = "accepted"
    BY <1>3, ClientPhase DEF Connect, Starting
  <2> QED
    BY <1>0, <1>1, <1>2, <2>1, <2>2, <2>3 DEF StartAt
<1>4. CASE UploadDuplicate(d) \/ UploadUnique(d) \/ UploadBatch(d) \/ DownloadRefused(d) \/ Close(d)
  <2>1. /\ got' = got /\ toClient[d] # << >> /\ toClient'[d] = Tail(toClient[d])
        /\ cpc[d] \in {"upload_rep", "body_rep", "download_rep", "quit_rep"}
        /\ cpc'[d] \in {"body_rep", "quit_rep", "closed"}
        /\ cpc'[d] = "body_rep" => cpc[d] # "quit_rep"
    BY <1>4, LockTypes DEF UploadDuplicate, UploadUnique, UploadBatch, DownloadRefused, Close,
                           SendQuit, SendBody, Arrived, receive_data
  <2>2. ~ Streaming(d)
    <3>1. CASE DownloadRefused(d)
      <4>1. /\ toClient[d][1].type = "DOWNLOADREP" /\ toClient[d][1].status = "NOTEXIST"
            /\ 1 \in DOMAIN toClient[d]
        BY <1>4, <2>1, <3>1, LockTypes, StreamTail DEF DownloadRefused, Arrived
      <4> QED
        BY <4>1 DEF Streaming, StreamMsg
    <3> QED
      BY <1>4, <3>1 DEF UploadDuplicate, UploadUnique, UploadBatch, Close, Streaming
  <2>3. NoBody(d)'
    BY <1>2, <2>1, <2>2, TailNoBody
  <2> QED
    BY <1>0, <1>1, <1>2, <2>1, <2>2, <2>3 DEF StartAt
<1>5. CASE DownloadGranted(d)
  <2>1. /\ got' = got /\ toClient[d] # << >> /\ toClient'[d] = Tail(toClient[d])
        /\ cpc[d] = "download_rep" /\ cpc'[d] = "download"
    BY <1>5, LockTypes DEF DownloadGranted, Arrived, receive_data
  <2>2. Before(d) = 1 /\ Before(d)' = 0
    BY <2>1 DEF Before
  <2>3. ASSUME NEW k \in Nat \ {0} PROVE Ahead(d, k)' = Ahead(d, k + 1)
    <3>1. k - 0 = (k + 1) - 1
      OBVIOUS
    <3> QED
      BY <2>1, <2>2, <3>1 DEF Ahead, Offset
  <2>4. ASSUME NEW f, ReadAt(L, d, f) PROVE ReadAt(L, d, f)'
    BY <1>0, <2>1, <2>3, <2>4, ReadShift DEF ReadAt
  <2>5. spc[d] = "open" => Len(toClient'[d]) = Before(d)' /\ got[d] = << >>
    BY <1>0, <2>1, <2>2, LockTypes, StreamTail DEF StartAt
  <2>6. spc[d] # "accepted"
    BY <2>1, <1>5, ClientPhase DEF DownloadGranted, Downloading, Streaming
  <2> QED
    BY <1>0, <2>1, <2>4, <2>5, <2>6 DEF StartAt
<1>6. CASE DownloadBody(d)
  <2>1. cpc[d] = "download" /\ cpc'[d] = "download" /\ toClient[d] # << >>
    BY <1>6, LockTypes DEF DownloadBody, Arrived
  <2>2. Before(d) = 0 /\ Len(toClient[d]) # 0
    BY <2>1, ReadTypes DEF Before
  <2>3. spc[d] # "accepted" /\ spc[d] # "open"
    BY <2>1, <2>2, ClientPhase DEF Downloading, Streaming, StartAt
  <2> QED
    BY <1>0, <1>6, <2>1, <2>3, BodyRead DEF StartAt
<1>7. CASE DownloadEnd(d)
  <2>1. /\ cpc[d] = "download" /\ cpc'[d] = "quit_rep" /\ toClient[d] # << >>
        /\ toClient'[d] = Tail(toClient[d]) /\ got' = got /\ Head(toClient[d]).type = "FILEEND"
    BY <1>7, LockTypes DEF DownloadEnd, SendQuit, Arrived, receive_data
  <2>2. Streaming(d)
    BY <2>1, ClientPhase DEF Downloading
  <2>3. Head(toClient[d]) = toClient[d][1] /\ 1 \in DOMAIN toClient[d]
    BY <2>1, LockTypes, StreamTail
  <2>4. spc[d] = "order" /\ Len(toClient[d]) = 1
    BY <2>1, <2>2, <2>3 DEF Streaming, StreamMsg
  <2>5. toClient'[d] = << >>
    BY <2>1, <2>4, LockTypes, StreamTail
  <2>6. NoBody(d)'
    BY <2>5 DEF NoBody
  <2> QED
    BY <1>0, <1>1, <2>1, <2>4, <2>6 DEF StartAt
<1> QED
  BY <1>3, <1>4, <1>5, <1>6, <1>7 DEF ClientSide, ClientStep

LEMMA ChunkTo ==
  ASSUME NEW L, AddressesKept(L), NEW d, NEW f, NEW o, NEW a, NEW n, NEW p,
         reader'[d].out = o, reader'[d].addrs = a, reader'[d].pos = p, Now(d)' = n,
         Aligned(o, n, f, reader'[d].missed), Rests(reader'[d].old, n, f),
         Named(L, a, n + Len(o), f), n + Len(o) + Len(a) = p,
         Len(o) + Len(a) = BatchSize \/ reader'[d].eof
  PROVE  ChunkAt(L, d, f)'
<1>1. Named(L, a, n + Len(o), f)'
  BY DEF Named, AddressesKept
<1>2. Named(L, reader[d].addrs, Now(d) + Len(reader[d].out), f)'
  BY <1>1 DEF Named
<1> QED
  BY <1>2 DEF ChunkAt

(* The handler reads a batch of addresses from the recipe.                 *)
LEMMA BatchNames ==
  ASSUME NEW L, TypeInv, NEW d \in Sessions, NEW f, Len(f) \in Nat, spc[d] = "recipe",
         ~ reader[d].eof, Named(L, recipes[RecipeName(key[d])].entries, 0, f)
  PROVE  LET b == RecipeBatch(d)
         IN b # << >> => Named(L, b, reader[d].pos, f)
<1> DEFINE p == reader[d].pos
           e == recipes[RecipeName(key[d])].entries
           n == IF p + BatchSize <= Len(e) THEN p + BatchSize ELSE Len(e)
           b == RecipeBatch(d)
<1>1. b = SubSeq(e, p + 1, n)
  BY DEF RecipeBatch
<1>2. e \in Seq(Addr \cup {NoAddr}) /\ p \in Nat
  <2>1. recipes[RecipeName(key[d])] \in Recipe /\ TypeOK
    BY DEF TypeInv, RecipeInv, RecipeAt, TypeOK, ConnTypeOK
  <2> QED
    BY <2>1, ReadTypes DEF Recipe, Entries
<1>3. Named(L, e, 0, f)
  OBVIOUS
<1>4. Len(e) \in Nat /\ n \in Nat /\ n <= Len(e)
  BY <1>2, BatchSizeAssumption DEF BatchSizeAssumption
<1> HIDE DEF e, n, p, b
<1> SUFFICES ASSUME b # << >> PROVE Named(L, b, p, f)
  BY DEF b, p
<1>5. n > p
  BY <1>1, <1>2, <1>4
<1>6. Len(b) = n - p /\ DOMAIN b = 1 .. n - p
  BY <1>1, <1>2, <1>4, <1>5
<1>7. ASSUME NEW k \in 1 .. n - p PROVE b[k] # NoAddr /\ Found(L, b[k], f[p + k])
  <2>1. p + k \in 1 .. Len(e) /\ 0 + (p + k) = p + k /\ k + (p + 1) - 1 = p + k
        /\ k \in 1 .. (n - (p + 1) + 1)
    BY <1>2, <1>4, <1>5
  <2>2. b[k] = e[p + k]
    BY <1>1, <1>2, <1>4, <2>1
  <2>3. DOMAIN e = 1 .. Len(e)
    BY <1>2
  <2> QED
    BY <1>3, <2>1, <2>2, <2>3 DEF Named
<1>8. p + Len(b) <= Len(f)
  BY <1>2, <1>3, <1>4, <1>5, <1>6 DEF Named
<1> QED
  BY <1>6, <1>7, <1>8 DEF Named

LEMMA RecipeRead ==
  ASSUME NEW L, TypeInv, NEW d \in Sessions, NEW f, Len(f) \in Nat, ReadRecipe(d),
         AddressesKept(L), UNCHANGED <<cpc, got>>, ReadAt(L, d, f),
         RecipeName(key[d]) \in DOMAIN recipes
           => Named(L, recipes[RecipeName(key[d])].entries, 0, f)
  PROVE  ReadAt(L, d, f)'
<1>0. TypeOK /\ reader[d].pos \in Nat /\ ReadAt(L, d, f)
  BY ReadTypes DEF TypeInv
<1>1. PICK b, p : b = RecipeBatch(d) /\ p = reader[d].pos
  OBVIOUS
<1>2. /\ spc[d] = "recipe" /\ spc'[d] = "chunk" /\ b # << >> /\ UNCHANGED toClient
      /\ reader'[d] = [pos |-> p + Len(b), eof |-> Len(b) < BatchSize,
                       addrs |-> b, out |-> << >>, old |-> Buffer(reader[d]),
                       missed |-> reader[d].missed]
  BY <1>0, <1>1, LockTypes, ViewTypes DEF ReadRecipe, Goto
<1>3. ~ reader[d].eof
  BY <1>1, <1>2 DEF RecipeBatch
<1>4. RecipeName(key[d]) \in DOMAIN recipes
  BY <1>2, <1>3 DEF TypeInv, RecipeInv, RecipeAt
<1>5. Named(L, b, p, f)
  BY <1>1, <1>2, <1>3, <1>4, BatchNames
<1>6. b \in Entries /\ Len(b) \in Nat
  <2>1. b \in Entries
    BY <1>1, <1>2, RecipeBatchTyped
  <2> QED
    BY <2>1 DEF Entries
<1>7. Now(d) = p /\ Now(d)' = Now(d) /\ \A k : Ahead(d, k)' = Ahead(d, k)
  BY <1>1, <1>2, <1>3 DEF ReadAt, Now, Ahead, Before
<1>a. /\ reader'[d].missed = reader[d].missed /\ reader'[d].out = << >> /\ reader'[d].addrs = b
      /\ reader'[d].pos = p + Len(b) /\ reader'[d].eof = (Len(b) < BatchSize)
      /\ reader'[d].old = Buffer(reader[d]) /\ Rests(Buffer(reader[d]), p, f)
  BY <1>1, <1>2, <1>3, <1>7 DEF ReadAt
<1>8. ChunkAt(L, d, f)'
  <2>1. p \in Nat /\ p + 0 = p /\ Len(<< >>) = 0 /\ DOMAIN << >> = {}
    BY <1>0, <1>1
  <2>2. Aligned(<< >>, p, f, reader'[d].missed)
    BY <1>5, <1>6, <2>1 DEF Aligned, Named
  <2>3. 0 + Len(b) = BatchSize \/ Len(b) < BatchSize
    <3>1. Len(b) <= BatchSize
      <4> DEFINE e == recipes[RecipeName(key[d])].entries
                 n == IF p + BatchSize <= Len(e) THEN p + BatchSize ELSE Len(e)
      <4>1. b = SubSeq(e, p + 1, n)
        BY <1>1, <1>3 DEF RecipeBatch
      <4>2. Len(e) \in Nat /\ e \in Seq(Addr \cup {NoAddr})
        <5>1. recipes[RecipeName(key[d])] \in Recipe
          BY <1>0, <1>4 DEF TypeOK, ConnTypeOK
        <5> QED
          BY <5>1 DEF Recipe, Entries
      <4>3. n \in Nat /\ n <= Len(e) /\ n <= p + BatchSize
        BY <2>1, <4>2, BatchSizeAssumption DEF BatchSizeAssumption
      <4> HIDE DEF e, n
      <4>4. Len(b) = n - p
        BY <1>2, <2>1, <4>1, <4>2, <4>3
      <4> QED
        BY <2>1, <4>3, <4>4, BatchSizeAssumption DEF BatchSizeAssumption
    <3> QED
      BY <1>6, <3>1, BatchSizeAssumption DEF BatchSizeAssumption
  <2>4. Len(<< >>) + Len(b) = BatchSize \/ reader'[d].eof
    <3>1. reader'[d].eof = (Len(b) < BatchSize)
      BY <1>a
    <3> QED
      BY <2>1, <2>3, <3>1
  <2>5. p + Len(<< >>) = p
    BY <2>1
  <2> QED
    BY <1>a, <1>5, <1>7, <2>2, <2>4, <2>5, ChunkTo
<1>9. ASSUME NEW k \in DOMAIN toClient[d], toClient[d][k].type = "DOWNLOADBODY"
      PROVE  BodyAt(d, k, f)'
  <2>1. BodyAt(d, k, f)
    BY <1>9 DEF ReadAt
  <2> QED
    BY <1>2, <1>3, <1>7, <1>a, <2>1 DEF BodyAt
<1> QED
  BY <1>2, <1>8, <1>9, <1>a DEF ReadAt

(* It reads a chunk from a container.                                      *)
LEMMA ChunkRead ==
  ASSUME NEW L, TypeOK, NEW d \in Sessions, NEW f, Len(f) \in Nat, FetchesRight(L, f),
         ReadChunk(d), AddressesKept(L), UNCHANGED <<cpc, got>>, Now(d) \in Nat, ReadAt(L, d, f)
  PROVE  ReadAt(L, d, f)'
<1>1. PICK o, a, n : o = reader[d].out /\ a = reader[d].addrs /\ n = Now(d)
  OBVIOUS
<1>2. /\ o \in Seq(Bytes) /\ a \in Seq(Addr \cup {NoAddr}) /\ n \in Nat /\ a # << >>
      /\ spc[d] = "chunk" /\ UNCHANGED <<spc, toClient>>
      /\ reader'[d].out = o \o Fetch(Head(a), Held(reader[d])) /\ reader'[d].addrs = Tail(a)
      /\ reader'[d].pos = reader[d].pos /\ reader'[d].eof = reader[d].eof
      /\ reader'[d].old = reader[d].old /\ reader[d].pos \in Nat
      /\ reader'[d].missed = reader[d].missed \cup Missed(reader[d])
      /\ reader[d] \in Reader /\ reader[d].old \in Seq(Bytes)
  <2>1. /\ reader \in [Sessions -> Reader]
        /\ reader' = [reader EXCEPT ![d] =
                        [reader[d] EXCEPT !.addrs = Tail(@), !.missed = @ \cup Missed(reader[d]),
                                          !.out = @ \o Fetch(Head(reader[d].addrs), Held(reader[d]))]]
    BY ViewTypes DEF ReadChunk
  <2>2. reader'[d] = [reader[d] EXCEPT !.addrs = Tail(@), !.missed = @ \cup Missed(reader[d]),
                                       !.out = @ \o Fetch(Head(reader[d].addrs), Held(reader[d]))]
    BY <2>1
  <2> QED
    BY <1>1, <2>2, ReadTypes, ViewTypes DEF ReadChunk, Reader, Entries
<1>M. PICK M : M = reader'[d].missed
  OBVIOUS
<1>3. /\ Aligned(o, n, f, reader[d].missed) /\ Named(L, a, n + Len(o), f)
      /\ Rests(reader[d].old, n, f)
      /\ n + Len(o) + Len(a) = reader[d].pos
      /\ Len(o) + Len(a) = BatchSize \/ reader[d].eof
  BY <1>1, <1>2 DEF ReadAt, ChunkAt
<1>4. /\ 1 \in DOMAIN a /\ Head(a) = a[1] /\ Head(a) \in Addr \cup {NoAddr}
      /\ Len(Tail(a)) = Len(a) - 1 /\ Len(a) \in Nat \ {0} /\ Len(o) \in Nat
      /\ DOMAIN Tail(a) = 1 .. Len(a) - 1
      /\ \A k \in 1 .. Len(a) - 1 : k + 1 \in DOMAIN a /\ Tail(a)[k] = a[k + 1]
  BY <1>2
<1>5. PICK v : Fetch(Head(a), Held(reader[d])) = <<v>> /\ Suits(v, n + Len(o) + 1, f, M)
  <2>p. PICK k, h : k = n + Len(o) + 1 /\ h = Held(reader[d])
    OBVIOUS
  <2>1. Head(a) \in Addr /\ Found(L, Head(a), f[k])
    BY <1>3, <1>4, <2>p DEF Named
  <2>2. k \in 1 .. Len(f) /\ k \in 1 .. reader[d].pos /\ k + Len(a) = reader[d].pos + 1
    <3>1. n + Len(o) + Len(a) <= Len(f)
      BY <1>3 DEF Named
    <3> QED
      BY <1>2, <1>3, <1>4, <2>p, <3>1
  <2>3. Fetch(Head(a), h) = <<f[k]>> \/ NotThere(Head(a), h)
    BY <2>1, <2>2 DEF FetchesRight
  <2>4. CASE NotThere(Head(a), h)
    <3>1. k \in M
      BY <1>1, <1>2, <1>M, <2>2, <2>4 DEF NotThere, Missed
    <3>2. h \in LeftOver(f, k)
      <4>1. CASE Len(o) < Len(reader[d].old)
        <5>1. h = reader[d].old[Len(o) + 1] /\ Len(o) + 1 \in DOMAIN reader[d].old
          BY <1>1, <1>2, <1>4, <2>p, <4>1 DEF Held
        <5>2. n + (Len(o) + 1) = k
          BY <1>2, <1>4, <2>p
        <5> QED
          BY <1>3, <5>1, <5>2 DEF Rests
      <4>2. CASE ~ Len(o) < Len(reader[d].old)
        BY <1>1, <2>p, <4>2 DEF Held, LeftOver
      <4> QED
        BY <4>1, <4>2
    <3>3. Fetch(Head(a), h) = <<h>>
      BY <2>4 DEF NotThere
    <3> QED
      BY <2>p, <3>1, <3>2, <3>3 DEF Suits
  <2> QED
    BY <2>3, <2>4, <2>p DEF Suits
<1>6. <<v>> \in Seq(Bytes)
  <2>1. Held(reader[d]) \in Bytes
    BY <1>1, <1>2, <1>4 DEF Held, Bytes
  <2> QED
    BY <1>4, <1>5, <2>1, FetchTyped
<1>7. Aligned(<<v>>, n + Len(o), f, M)
  <2>1. n + Len(o) + 1 <= Len(f)
    BY <1>2, <1>3, <1>4 DEF Named
  <2>2. Len(<<v>>) = 1 /\ DOMAIN <<v>> = {1} /\ <<v>>[1] = v
    OBVIOUS
  <2> QED
    BY <1>5, <2>1, <2>2 DEF Aligned
<1>8. Aligned(o \o <<v>>, n, f, M)
  <2>1. Aligned(o, n, f, M)
    BY <1>2, <1>3, <1>M, AlignedGrows
  <2> QED
    BY <1>2, <1>6, <1>7, <2>1, AlignedApp
<1>9. Len(o \o <<v>>) = Len(o) + 1
  BY <1>2, <1>6
<1>10. Named(L, Tail(a), n + (Len(o) + 1), f)
  <2>1. n + (Len(o) + 1) + Len(Tail(a)) <= Len(f)
    BY <1>2, <1>3, <1>4 DEF Named
  <2>2. ASSUME NEW k \in 1 .. Len(a) - 1
        PROVE  Tail(a)[k] # NoAddr /\ Found(L, Tail(a)[k], f[n + (Len(o) + 1) + k])
    <3>1. n + (Len(o) + 1) + k = n + Len(o) + (k + 1)
      BY <1>2, <1>4
    <3> QED
      BY <1>3, <1>4, <3>1 DEF Named
  <2> QED
    BY <1>4, <2>1, <2>2 DEF Named
<1>11. n + (Len(o) + 1) + Len(Tail(a)) = reader[d].pos
       /\ (Len(o) + 1 + Len(Tail(a)) = BatchSize \/ reader[d].eof)
  <2>1. \A x \in Nat, y \in Nat \ {0} :
          n + (x + 1) + (y - 1) = n + x + y /\ x + 1 + (y - 1) = x + y
    BY <1>2
  <2> QED
    BY <1>3, <1>4, <2>1
<1>12. Now(d)' = n /\ \A k : Ahead(d, k)' = Ahead(d, k)
  BY <1>1, <1>2 DEF Now, Ahead, Before
<1>13. ChunkAt(L, d, f)'
  BY <1>2, <1>3, <1>5, <1>8, <1>9, <1>10, <1>11, <1>12, <1>M, ChunkTo
<1>14. ASSUME NEW k \in DOMAIN toClient[d], toClient[d][k].type = "DOWNLOADBODY"
       PROVE  BodyAt(d, k, f)'
  <2>1. BodyAt(d, k, f)
    BY <1>14 DEF ReadAt
  <2>2. Aligned(toClient[d][k].data, Ahead(d, k), f, M)
    BY <1>2, <1>M, <2>1, AlignedGrows DEF BodyAt
  <2> QED
    BY <1>2, <1>12, <1>M, <2>1, <2>2 DEF BodyAt
<1>15. Aligned(got[d], 0, f, reader[d].missed)'
  BY <1>2, AlignedGrows DEF ReadAt
<1> QED
  BY <1>2, <1>13, <1>14, <1>15 DEF ReadAt

(* The handler sends a message: what was on its way stays in its place.    *)
LEMMA ReplyRead ==
  ASSUME NEW L, TypeOK, NEW d \in Sessions, NEW f, NEW m \in ClientMsg, Reply(d, m),
         UNCHANGED <<cpc, got, reader>>, ReadAt(L, d, f), Now(d) \in Nat,
         spc[d] \in {"recipe", "chunk"}, spc'[d] # "chunk",
         m.type = "DOWNLOADBODY" => /\ spc[d] = "chunk" /\ m.data \in Seq(Bytes)
                                    /\ Aligned(m.data, Now(d), f, reader[d].missed)
                                    /\ Len(m.data) = BatchSize \/ reader[d].eof,
         spc'[d] = "recipe" /\ ~ reader[d].eof =>
           /\ Ahead(d, Len(toClient[d]) + 2) = reader[d].pos
           /\ Rests(Buffer(reader[d]), reader[d].pos, f)
  PROVE  ReadAt(L, d, f)'
<1>1. PICK q, p : q = toClient[d] /\ p = toClient'[d]
  OBVIOUS
<1>2. p = q \o <<m>> /\ q \in Seq(ClientMsg)
  BY <1>1, LockTypes DEF Reply, send_data
<1>3. /\ Len(p) = Len(q) + 1 /\ Len(q) \in Nat /\ DOMAIN p = 1 .. Len(q) + 1
      /\ DOMAIN q = 1 .. Len(q) /\ p[Len(q) + 1] = m
      /\ \A k \in 1 .. Len(q) : p[k] = q[k]
  BY <1>2
<1>4. \A k : Ahead(d, k)' = Ahead(d, k)
  BY DEF Ahead, Before
<1>5. ASSUME NEW k \in DOMAIN q, q[k].type = "DOWNLOADBODY" PROVE BodyAt(d, k, f)'
  <2>1. BodyAt(d, k, f) /\ p[k] = q[k]
    BY <1>1, <1>3, <1>5 DEF ReadAt
  <2>2. CASE Len(q[k].data) = BatchSize
    BY <1>1, <1>4, <2>1, <2>2 DEF BodyAt
  <2>3. CASE Len(q[k].data) # BatchSize
    <3>1. /\ spc[d] # "chunk" /\ reader[d].eof
          /\ \A j \in DOMAIN q : j > k => q[j].type # "DOWNLOADBODY"
      BY <1>1, <2>1, <2>3 DEF BodyAt
    <3>2. \A j \in DOMAIN p : j > k => p[j].type # "DOWNLOADBODY"
      BY <1>3, <3>1
    <3> QED
      BY <1>1, <1>4, <2>1, <3>1, <3>2 DEF BodyAt
  <2> QED
    BY <2>2, <2>3
<1>6. ASSUME m.type = "DOWNLOADBODY" PROVE BodyAt(d, Len(q) + 1, f)'
  <2>1. Aligned(m.data, Ahead(d, Len(q) + 1), f, reader[d].missed)
    BY <1>1, <1>6 DEF Now
  <2>2. \A j \in DOMAIN p : ~ j > Len(q) + 1
    BY <1>3
  <2> QED
    BY <1>1, <1>3, <1>4, <1>6, <2>1, <2>2 DEF BodyAt
<1>7. Now(d)' = Ahead(d, Len(q) + 2)
  <2>1. Now(d)' = Ahead(d, Len(p) + 1)
    BY <1>1, <1>4 DEF Now, Ahead, Before
  <2>2. Len(p) + 1 = Len(q) + 2
    BY <1>3
  <2> QED
    BY <2>1, <2>2
<1>8. Aligned(got[d], 0, f, reader[d].missed)'
  BY DEF ReadAt
<1>9. ASSUME spc'[d] = "recipe", ~ reader[d].eof PROVE Rests(Buffer(reader[d]), Now(d), f)'
  BY <1>1, <1>7, <1>9
<1> QED
  BY <1>1, <1>3, <1>5, <1>6, <1>7, <1>8, <1>9 DEF ReadAt

LEMMA DownloadStart ==
  ASSUME TypeOK, NEW d \in Sessions, DownloadStep(d), UNCHANGED <<cpc, got>>, LockAt(d),
         StartAt(d)
  PROVE  StartAt(d)'
<1>1. /\ spc[d] \in {"exist", "open", "recipe", "chunk"} /\ spc'[d] # "accepted"
      /\ spc'[d] = "open" => CheckExist(d)
      /\ spc'[d] # "exist" /\ toServer' = toServer
      /\ ~ CheckExist(d) => spc[d] # "exist"
  BY LockTypes DEF DownloadStep, CheckExist, OpenForRead, ReadRecipe, ReadChunk,
                   SendDownBody, SendFileEnd, Goto
<1>2. CASE CheckExist(d)
  <2>1. cpc[d] = "download_rep" /\ Silent(d) /\ got[d] = << >>
    BY <1>1, <1>2, ServerPhase DEF CheckExist, Downloading, Streaming, StartAt
  <2>2. \E st \in {"EXIST", "NOTEXIST"} : toClient'[d] = <<Rep("DOWNLOADREP", st)>>
    BY <1>2, <2>1, ClientMsgs, ReplyToSilent DEF CheckExist, Silent
  <2>3. Len(toClient'[d]) = 1
    BY <2>2
  <2> QED
    BY <1>1, <1>2, <2>1, <2>3 DEF StartAt, Before, CheckExist, Unread
<1>3. CASE ~ CheckExist(d)
  <2>1. toServer'[d] = << >>
    BY <1>1, <1>3, ServerPhase DEF Downloading, Streaming
  <2> QED
    BY <1>1, <1>3, <2>1 DEF StartAt
<1> QED
  BY <1>2, <1>3

LEMMA DownloadRead ==
  ASSUME NEW L, TypeInv, NEW d \in Sessions, NEW f, Len(f) \in Nat, FetchesRight(L, f),
         DownloadStep(d), UNCHANGED <<cpc, got>>, AddressesKept(L), LockAt(d), StartAt(d),
         ReadAt(L, d, f),
         RecipeName(key[d]) \in DOMAIN recipes
           => Named(L, recipes[RecipeName(key[d])].entries, 0, f)
  PROVE  ReadAt(L, d, f)'
<1>0. TypeOK /\ Len(toClient[d]) \in Nat
  BY ReadTypes DEF TypeInv
<1>1. spc[d] \in {"exist", "open", "recipe", "chunk"}
  BY DEF DownloadStep, CheckExist, OpenForRead, ReadRecipe, ReadChunk, SendDownBody, SendFileEnd
<1>2. Downloading(d)
  BY <1>1, ServerPhase
<1>3. ASSUME spc[d] # "exist"
      PROVE  LET k == Len(toClient[d]) + 1
             IN k > Before(d) /\ Now(d) \in Nat /\ Ahead(d, k + 1) = Now(d) + BatchSize
  <2>1. Len(toClient[d]) + 1 > Before(d)
    BY <1>0, <1>1, <1>2, <1>3, ReadTypes DEF Downloading, Streaming, Before
  <2> QED
    BY <1>0, <2>1, AheadNext DEF Now
<1>4. CASE CheckExist(d)
  <2>1. Silent(d)
    BY <1>2, <1>4 DEF CheckExist, Downloading, Streaming
  <2>2. /\ spc'[d] \in {"open", "order"}
        /\ \E st \in {"EXIST", "NOTEXIST"} : toClient'[d] = <<Rep("DOWNLOADREP", st)>>
    BY <1>0, <1>4, <2>1, LockTypes, ClientMsgs, ReplyToSilent DEF CheckExist, Goto, Silent
  <2>3. NoBody(d)'
    <3>1. PICK st : toClient'[d] = <<Rep("DOWNLOADREP", st)>>
      BY <2>2
    <3>2. DOMAIN toClient'[d] = {1} /\ toClient'[d][1].type = "DOWNLOADREP"
      BY <3>1, MsgTypes
    <3> QED
      BY <3>1, <3>2 DEF NoBody
  <2> QED
    BY <1>4, <2>2, <2>3, ReadClear DEF ReadAt, CheckExist
<1>5. CASE OpenForRead(d)
  <2>1. /\ spc[d] = "open" /\ spc'[d] = "recipe" /\ toClient' = toClient
        /\ reader'[d].pos = 0 /\ reader'[d].missed = reader[d].missed
        /\ reader'[d].out = reader[d].out /\ reader'[d].old = reader[d].old
    BY <1>0, <1>5, LockTypes, ViewTypes DEF OpenForRead, Goto, Reader
  <2>2. got[d] = << >> /\ Len(toClient[d]) = Before(d) /\ Before(d) \in Nat
    BY <2>1 DEF StartAt, Before
  <2>3. Now(d)' = 0
    <3>1. (Before(d) + 1) - Before(d) = 1 /\ Len(<< >>) = 0
      BY <2>2
    <3>2. Now(d) = Offset(0, 1)
      BY <2>2, <3>1 DEF Now, Ahead
    <3>3. Now(d)' = Now(d)
      BY <2>1 DEF Now, Ahead, Before
    <3>4. 0 \in Nat /\ Offset(0, 1) = 0
      BY OffsetNext
    <3> QED
      BY <3>2, <3>3, <3>4
  <2>4. NoBody(d)'
    <3>1. ASSUME NEW k \in DOMAIN toClient[d] PROVE toClient[d][k].type # "DOWNLOADBODY"
      <4>1. k = 1 /\ cpc[d] = "download_rep" /\ StreamMsg(d, k, toClient[d][k])
        BY <1>0, <1>2, <2>1, <2>2, ReadTypes DEF Downloading, Streaming, Before
      <4> QED
        BY <4>1 DEF StreamMsg
    <3> QED
      BY <2>1, <3>1 DEF NoBody
  <2>5. Aligned(got[d], 0, f, reader[d].missed)'
    BY <2>1 DEF ReadAt
  <2>6. reader'[d].out = << >> /\ reader'[d].old = << >>
    BY <2>1 DEF StartAt, Unread
  <2>7. Rests(Buffer(reader[d]), Now(d), f)'
    <3>1. Buffer(reader'[d]) = << >>
      BY <2>6 DEF Buffer
    <3>2. Rests(<< >>, 0, f)
      BY DEF Rests
    <3> QED
      BY <2>3, <3>1, <3>2
  <2> QED
    BY <2>1, <2>3, <2>4, <2>5, <2>7 DEF ReadAt, NoBody
<1>6. CASE ReadRecipe(d)
  BY <1>6, RecipeRead
<1>7. CASE ReadChunk(d)
  BY <1>0, <1>3, <1>7, ChunkRead DEF ReadChunk
<1>8. CASE SendDownBody(d)
  <2>1. /\ spc[d] = "chunk" /\ spc'[d] = "recipe" /\ reader[d].addrs = << >>
        /\ Reply(d, DownBody(reader[d].out)) /\ UNCHANGED reader
    BY <1>0, <1>8, LockTypes DEF SendDownBody, Goto
  <2>2. PICK o, n : o = reader[d].out /\ n = Now(d)
    OBVIOUS
  <2>3. o \in Seq(Bytes) /\ Len(o) \in Nat /\ n \in Nat /\ DownBody(o) \in ClientMsg
    <3>1. o \in Seq(Bytes)
      BY <1>0, <2>2, ReadTypes
    <3> QED
      BY <1>3, <2>1, <2>2, <3>1, ClientMsgs
  <2>4. /\ Aligned(o, n, f, reader[d].missed) /\ n + Len(o) = reader[d].pos
        /\ Rests(reader[d].old, n, f)
        /\ Len(o) = BatchSize \/ reader[d].eof
    <3>1. Aligned(o, n, f, reader[d].missed) /\ n + Len(o) + Len(<< >>) = reader[d].pos
          /\ Rests(reader[d].old, n, f)
          /\ (Len(o) + Len(<< >>) = BatchSize \/ reader[d].eof)
      BY <2>1, <2>2 DEF ReadAt, ChunkAt
    <3>2. Len(<< >>) = 0 /\ n + Len(o) + 0 = n + Len(o) /\ Len(o) + 0 = Len(o)
      BY <2>3
    <3> QED
      BY <3>1, <3>2
  <2>5. (Len(toClient[d]) + 1) + 1 = Len(toClient[d]) + 2
    BY <1>0
  <2>6. ~ reader[d].eof => Ahead(d, Len(toClient[d]) + 2) = reader[d].pos
    BY <1>3, <2>1, <2>2, <2>4, <2>5
  <2>8. ~ reader[d].eof => Rests(Buffer(reader[d]), reader[d].pos, f)
    BY <1>0, <2>2, <2>3, <2>4, ReadTypes, BufferRests
  <2>7. PICK m \in ClientMsg : Reply(d, m) /\ m.type = "DOWNLOADBODY" /\ m.data = o
    BY <2>1, <2>2, <2>3, MsgTypes
  <2> QED
    BY <1>0, <2>1, <2>2, <2>3, <2>4, <2>6, <2>7, <2>8, ReplyRead
<1>9. CASE SendFileEnd(d)
  <2>1. spc[d] = "recipe" /\ spc'[d] = "order" /\ Reply(d, FileEnd) /\ UNCHANGED reader
    BY <1>0, <1>9, LockTypes DEF SendFileEnd, Goto
  <2> QED
    BY <1>0, <1>3, <2>1, ClientMsgs, MsgTypes, ReplyRead
<1> QED
  BY <1>4, <1>5, <1>6, <1>7, <1>8, <1>9 DEF DownloadStep

LEMMA ReplyNoBody ==
  ASSUME TypeOK, NEW d \in Sessions, NoBody(d), NEW m, m.type # "DOWNLOADBODY", Reply(d, m)
  PROVE  NoBody(d)'
<1>1. PICK q, p : q = toClient[d] /\ p = toClient'[d]
  OBVIOUS
<1>2. p = q \o <<m>> /\ q \in Seq(ClientMsg)
  BY <1>1, LockTypes DEF Reply, send_data
<1>3. /\ DOMAIN p = 1 .. Len(q) + 1 /\ DOMAIN q = 1 .. Len(q) /\ p[Len(q) + 1] = m
      /\ \A k \in 1 .. Len(q) : p[k] = q[k]
      /\ \A k \in 1 .. Len(q) + 1 : k \in 1 .. Len(q) \/ k = Len(q) + 1
  BY <1>2
<1> QED
  BY <1>1, <1>3 DEF NoBody

(* Outside of send_file the handler neither reads nor sends a body; and    *)
(* only before it has it takes over another name.                          *)
LEMMA OtherRead ==
  ASSUME NEW L, TypeOK, NEW d \in Sessions, RunStep(d) \/ UploadStep(d), UNCHANGED <<cpc, got>>,
         LockAt(d), StartAt(d)
  PROVE  /\ StartAt(d)'
         /\ \A f : Len(f) \in Nat /\ (key'[d] = key[d] => ReadAt(L, d, f)) => ReadAt(L, d, f)'
<1>0. /\ reader' = reader /\ Unread(d)' = Unread(d)
      /\ toServer'[d] # << >> => toServer[d] # << >>
  <2>1. /\ reader' = reader
        /\ toServer' = toServer
           \/ (toServer' = receive_data(toServer, d) /\ \E ty : Arrived(toServer, d, ty))
    BY DEF RunStep, Serve, RecvOrder, RecvQuit, UploadStep, AdmitStep, ReceiveStep, RecvBody,
           RecvFileEnd, StoreStep, QueryStep, FinishStep, wire
  <2> QED
    BY <2>1 DEF Arrived, Unread
<1>1. ASSUME NoBody(d)', spc'[d] \notin {"accepted", "open", "recipe", "chunk"},
             key'[d] = key[d] \/ got[d] = << >>,
             spc'[d] = "exist" => Unread(d)
      PROVE  /\ StartAt(d)'
             /\ \A f : Len(f) \in Nat /\ (key'[d] = key[d] => ReadAt(L, d, f)) => ReadAt(L, d, f)'
  <2>1. StartAt(d)'
    BY <1>0, <1>1 DEF StartAt
  <2>2. ASSUME NEW f, Len(f) \in Nat, key'[d] = key[d] => ReadAt(L, d, f) PROVE ReadAt(L, d, f)'
    <3>1. Aligned(got'[d], 0, f, reader'[d].missed)
      BY <1>0, <1>1, <2>2, NothingRead DEF ReadAt
    <3> QED
      BY <1>1, <3>1, ReadClear
  <2> QED
    BY <2>1, <2>2
<1>2. CASE Serve(d) \/ RecvOrder(d)
  <2>1. toServer[d] # << >> /\ UNCHANGED toClient /\ spc'[d] \in {"order", "unique", "exist"}
    BY <1>2, LockTypes DEF Serve, RecvOrder, Arrived, Goto
  <2>2. NoBody(d)'
    BY <2>1, PhaseNoBody DEF Streaming, NoBody
  <2>3. got[d] = << >>
    <3>1. Starting(d)
      BY <1>2, ServerPhase DEF Serve, RecvOrder
    <3>2. CASE Serve(d)
      BY <3>2 DEF Serve, StartAt
    <3>3. CASE RecvOrder(d)
      <4>1. spc[d] = "order"
        BY <3>3 DEF RecvOrder
      <4> QED
        BY <3>1, <4>1 DEF Starting, StartAt
    <3> QED
      BY <1>2, <3>2, <3>3
  <2>4. spc'[d] = "exist" => Unread(d)
    <3>1. spc'[d] = "exist" => spc[d] = "order" /\ Arrived(toServer, d, "DOWNLOAD")
      BY <1>2, LockTypes DEF Serve, RecvOrder, Goto
    <3>2. spc[d] = "order" /\ Arrived(toServer, d, "DOWNLOAD") => cpc[d] = "download_rep"
      BY ServerPhase, MsgTypes, ShortSeqs DEF Starting, Told, Arrived
    <3> QED
      BY <2>1, <3>1, <3>2 DEF StartAt
  <2> QED
    BY <1>1, <2>1, <2>2, <2>3, <2>4
<1>3. CASE RecvQuit(d)
  <2>1. spc'[d] = "closed" /\ key' = key
    BY <1>3, LockTypes DEF RecvQuit, Goto
  <2>2. NoBody(d)
    BY <1>3, PhaseNoBody DEF RecvQuit, Arrived, Streaming
  <2>3. NoBody(d)'
    BY <1>3, <2>2, MsgTypes, ReplyNoBody DEF RecvQuit
  <2> QED
    BY <1>1, <2>1, <2>3
<1>4. CASE UploadStep(d)
  <2>1. /\ spc[d] \in {"unique", "add_file", "body", "store", "entry", "query",
                       "last_container", "last_recipe", "join"}
        /\ key' = key /\ spc'[d] \notin {"accepted", "exist", "open", "recipe", "chunk"}
        /\ toClient' = toClient \/ \E m : m.type # "DOWNLOADBODY" /\ Reply(d, m)
    <3>0. key' = key
      BY <1>4 DEF UploadStep
    <3>1. CASE AdmitStep(d)
      <4>1. \A st : Rep("UPLOADREP", st).type # "DOWNLOADBODY"
        BY MsgTypes
      <4>2. /\ spc[d] \in {"unique", "add_file"} /\ spc'[d] \in {"add_file", "order", "body"}
            /\ toClient' = toClient \/ \E st : Reply(d, Rep("UPLOADREP", st))
        BY <3>1, LockTypes DEF AdmitStep, CheckUnique, AddFile, Goto
      <4> QED
        BY <3>0, <4>1, <4>2
    <3>2. CASE ReceiveStep(d)
      BY <3>0, <3>2, LockTypes DEF ReceiveStep, RecvBody, RecvFileEnd, Goto
    <3>3. CASE StoreStep(d)
      BY <3>0, <3>3, LockTypes DEF StoreStep, FlushContainer, StoreChunk, TakeDuplicate,
                                   FlushRecipe, WriteEntry, AtChunk, HasChunk, Goto, wire
    <3>4. CASE QueryStep(d)
      BY <3>0, <3>4, LockTypes, MsgTypes DEF QueryStep, BeginQuery, QueryChunk, SendReply, Goto
    <3>5. CASE FinishStep(d)
      BY <3>0, <3>5, LockTypes DEF FinishStep, InsertLastContainer, InsertLastRecipe, Join,
                                   Goto, wire
    <3> QED
      BY <1>4, <3>1, <3>2, <3>3, <3>4, <3>5 DEF UploadStep
  <2>2. NoBody(d)
    BY <2>1, PhaseNoBody DEF Streaming
  <2>3. NoBody(d)'
    BY <2>1, <2>2, ReplyNoBody DEF NoBody
  <2> QED
    BY <1>1, <2>1, <2>3
<1> QED
  BY <1>2, <1>3, <1>4 DEF RunStep

----------------------------------------------------------------------------
(* Downloads, all of it together.                                          *)

DownloadInv == DiskUnique /\ MadeInv /\ StartInv /\ ReadInv

LEMMA InitDownload == Init => DownloadInv
<1> SUFFICES ASSUME Init PROVE DownloadInv
  OBVIOUS
<1>1. TypeOK
  BY InitTypeInv DEF TypeInv
<1>2. containers = {} /\ DOMAIN recipes = {}
  BY DEF Init, ConnInit
<1>3. ASSUME NEW d \in Sessions
      PROVE  /\ got[d] = << >> /\ toClient[d] = << >> /\ spc[d] = "accepted"
             /\ Unread(d)
  BY DEF Init, ClientInit, ConnInit, Unread
<1>4. ASSUME NEW d \in Sessions, NEW f, Len(f) \in Nat PROVE ReadAt({}, d, f)
  BY <1>3, <1>4, NothingRead DEF ReadAt
<1> QED
  BY <1>1, <1>2, <1>3, <1>4, FileTyped DEF DownloadInv, DiskUnique, MadeInv, StartInv,
                                               StartAt, ReadInv

(* The session d stands aside.                                             *)
LEMMA AsideStart ==
  ASSUME NEW d, StartAt(d), TalkView(d)' = TalkView(d)
  PROVE  StartAt(d)'
<1>1. /\ toClient'[d] = toClient[d] /\ cpc'[d] = cpc[d] /\ got'[d] = got[d] /\ spc'[d] = spc[d]
      /\ reader'[d] = reader[d] /\ toServer'[d] = toServer[d]
  BY DEF TalkView
<1> QED
  BY <1>1 DEF StartAt, Before, Unread

(* What d reads from is the file of the only session that writes it.       *)
LEMMA ReadsFile ==
  ASSUME MadeInv, DiskInv, NEW n, NEW t \in Sessions, Writers(n) \subseteq {t},
         n \in DOMAIN recipes
  PROVE  Named({}, recipes[n].entries, 0, job[t].file)
<1>1. PICK u \in Sessions : Admitted(u) /\ recipeWriter[u] # "open" /\ RecipeName(key[u]) = n
  BY DEF MadeInv
<1>2. u = t /\ Writers(n) = {t}
  BY <1>1 DEF Writers, Admitted
<1> QED
  BY <1>1, <1>2 DEF DiskInv, DiskAt

(* d sends what the recipe has, or what it had been sent already.          *)
LEMMA StepRead ==
  ASSUME NEW L, TypeInv, AddressesKept(L), NEW d \in Sessions, StepOf(d),
         LockAt(d), StartAt(d), NEW f, Len(f) \in Nat, FetchesRight(L, f),
         key'[d] = key[d] =>
           /\ ReadAt(L, d, f)
           /\ RecipeName(key[d]) \in DOMAIN recipes
                => Named(L, recipes[RecipeName(key[d])].entries, 0, f)
  PROVE  ReadAt(L, d, f)'
<1>0. TypeOK
  BY DEF TypeInv
<1>1. CASE ClientSide(d)
  <2>1. key'[d] = key[d]
    BY <1>1 DEF ClientSide, connVars
  <2> QED
    BY <1>0, <1>1, <2>1, ClientRead
<1>2. CASE (DataWriterStep(d) \/ RecipeWriterStep(d)) /\ UNCHANGED <<job, clientVars>>
  <2>1. TalkView(d)' = TalkView(d) /\ key'[d] = key[d]
    BY <1>0, <1>2, WriterOthers DEF TalkView
  <2> QED
    BY <2>1, ReadKept
<1>3. CASE HandlerStep(d) /\ UNCHANGED <<job, clientVars>>
  <2>0. UNCHANGED <<cpc, got>>
    BY <1>3 DEF clientVars
  <2>1. CASE RunStep(d) \/ UploadStep(d)
    BY <1>0, <2>0, <2>1, OtherRead
  <2>2. CASE DownloadStep(d)
    <3>1. key' = key
      BY <2>2 DEF DownloadStep
    <3> QED
      BY <2>0, <2>2, <3>1, DownloadRead
  <2> QED
    BY <1>3, <2>1, <2>2 DEF HandlerStep
<1> QED
  BY <1>1, <1>2, <1>3 DEF StepOf

LEMMA StepStart ==
  ASSUME NEW L, TypeOK, AddressesKept(L), NEW d \in Sessions, StepOf(d), LockAt(d), StartAt(d)
  PROVE  StartAt(d)'
<1>1. CASE ClientSide(d)
  BY <1>1, ClientRead
<1>2. CASE (DataWriterStep(d) \/ RecipeWriterStep(d)) /\ UNCHANGED <<job, clientVars>>
  BY <1>2, WriterOthers, AsideStart
<1>3. CASE HandlerStep(d) /\ UNCHANGED <<job, clientVars>>
  BY <1>3, OtherRead, DownloadStart DEF HandlerStep, clientVars
<1> QED
  BY <1>1, <1>2, <1>3 DEF StepOf

LEMMA NextDownload ==
  ASSUME TypeInv, TypeInv', IndexInv, UploadInv, DownloadInv, [Next]_vars
  PROVE  DownloadInv'
<1>0. /\ TypeOK /\ AddressesKept({}) /\ LockInv /\ IdInv /\ StoreInv /\ PendInv /\ DiskInv
      /\ DiskUnique /\ MadeInv
      /\ \A d \in Sessions : LockAt(d) /\ WriterAt(d) /\ StartAt(d)
      /\ \A t \in Sessions : Len(job[t].file) \in Nat
  BY NextIndex, FileTyped DEF TypeInv, IndexInv, LockInv, UploadInv, PendInv, PendOk, DownloadInv,
                              StartInv
<1>a. \A f : FetchesRight({}, f)
  BY <1>0, FetchRight DEF FetchesRight, Found
<1>1. DiskUnique' /\ MadeInv'
  BY <1>0, NextUnique, NextMade
<1>2. ASSUME job' = job, \A u \in Sessions : StaysAdmitted(u),
             \A d \in Sessions :
               /\ StartAt(d)'
               /\ \A f : (/\ Len(f) \in Nat
                          /\ key'[d] = key[d] =>
                               /\ ReadAt({}, d, f)
                               /\ RecipeName(key[d]) \in DOMAIN recipes
                                    => Named({}, recipes[RecipeName(key[d])].entries, 0, f))
                         => ReadAt({}, d, f)'
      PROVE  DownloadInv'
  <2>1. ASSUME NEW d \in Sessions, NEW t \in Sessions, Writers(RecipeName(key[d]))' \subseteq {t}
        PROVE  ReadAt({}, d, job[t].file)'
    <3>f. PICK f : f = job[t].file
      OBVIOUS
    <3>1. ASSUME key'[d] = key[d] PROVE Writers(RecipeName(key[d])) \subseteq {t}
      <4> SUFFICES ASSUME NEW u \in Writers(RecipeName(key[d])) PROVE u = t
        OBVIOUS
      <4>1. u \in Sessions /\ Admitted(u) /\ RecipeName(key[u]) = RecipeName(key[d])
        BY DEF Writers, Admitted
      <4>2. Admitted(u)' /\ key'[u] = key[u]
        BY <1>2, <4>1 DEF StaysAdmitted
      <4>3. u \in Writers(RecipeName(key[d]))'
        BY <3>1, <4>1, <4>2 DEF Writers, Admitted, RecipeName
      <4> QED
        BY <2>1, <4>3
    <3>2. ASSUME key'[d] = key[d]
          PROVE  /\ ReadAt({}, d, f)
                 /\ RecipeName(key[d]) \in DOMAIN recipes
                      => Named({}, recipes[RecipeName(key[d])].entries, 0, f)
      BY <1>0, <3>1, <3>2, <3>f, ReadsFile DEF DownloadInv, ReadInv
    <3>3. ReadAt({}, d, f)'
      BY <1>0, <1>2, <3>2, <3>f
    <3> QED
      BY <1>2, <3>3, <3>f
  <2> QED
    BY <1>1, <1>2, <2>1 DEF DownloadInv, ReadInv, StartInv
<1>3. ASSUME NEW s \in Sessions, StepOf(s) PROVE DownloadInv'
  <2>1. /\ job' = job /\ \A u \in Sessions : StaysAdmitted(u)
        /\ \A d \in Sessions \ {s} : TalkView(d)' = TalkView(d)
    BY <1>0, <1>3, StepAside
  <2>2. ASSUME NEW d \in Sessions \ {s}
        PROVE  StartAt(d)' /\ key'[d] = key[d] /\ \A f : ReadAt({}, d, f) => ReadAt({}, d, f)'
    BY <1>0, <2>1, AsideStart, ReadKept DEF TalkView
  <2>3. StartAt(s)'
    BY <1>0, <1>3, StepStart
  <2>4. ASSUME NEW f, Len(f) \in Nat,
               key'[s] = key[s] =>
                 /\ ReadAt({}, s, f)
                 /\ RecipeName(key[s]) \in DOMAIN recipes
                      => Named({}, recipes[RecipeName(key[s])].entries, 0, f)
        PROVE  ReadAt({}, s, f)'
    BY <1>0, <1>3, <1>a, <2>4, StepRead
  <2> QED
    BY <1>2, <2>1, <2>2, <2>3, <2>4
<1>4. CASE UNCHANGED vars
  <2>1. ASSUME NEW d \in Sessions
        PROVE  StartAt(d)' /\ key'[d] = key[d] /\ \A f : ReadAt({}, d, f) => ReadAt({}, d, f)'
    <3>1. TalkView(d)' = TalkView(d)
      BY <1>4 DEF vars, wire, clientVars, connVars, uploadVars, TalkView
    <3> QED
      BY <1>0, <3>1, AsideStart, ReadKept DEF TalkView
  <2>2. job' = job /\ \A u \in Sessions : StaysAdmitted(u)
    BY <1>4 DEF vars, connVars, uploadVars, threadVars, StaysAdmitted, Admitted, Uploading
  <2> QED
    BY <1>2, <2>1, <2>2
<1> QED
  BY <1>3, <1>4, StepOfOne DEF StepOf

LEMMA DownloadInvariant == Spec => []DownloadInv
<1>1. TypeInv /\ TypeInv' /\ IndexInv /\ UploadInv /\ DownloadInv /\ [Next]_vars => DownloadInv'
  BY NextDownload
<1> QED
  BY <1>1, InitDownload, TypeInvariant, IndexInvariant, UploadInvariant, PTL DEF Spec

(* send_file and download_file deliver no chunk out of its place, for any  *)
(* number of uploads, downloads and writer threads at work: what a client  *)
(* has received of a recipe that one session only writes is the beginning  *)
(* of that session's file, except at places whose container was not on     *)
(* disk when it was read; there it is what an earlier batch has left at    *)
(* this place of the message buffer.                                       *)
THEOREM DownloadsRight == Spec => []DownloadAligned
<1>1. ASSUME TypeInv, DownloadInv PROVE DownloadAligned
  <2> SUFFICES ASSUME NEW d \in Sessions, NEW t \in Sessions,
                      Writers(RecipeName(key[d])) = {t}, NEW k \in DOMAIN got[d]
               PROVE  RightOrMissed(d, k, job[t].file)
    BY DEF DownloadAligned
  <2>1. PICK g, f : g = got[d] /\ f = job[t].file
    OBVIOUS
  <2>2. Aligned(g, 0, f, reader[d].missed)
    BY <1>1, <2>1 DEF DownloadInv, ReadInv, ReadAt
  <2>3. g \in Seq(Bytes) /\ Len(f) \in Nat
    BY <1>1, <2>1, ReadTypes, FileTyped DEF TypeInv
  <2>4. k \in 1 .. Len(g) /\ Len(g) \in Nat /\ 0 + k = k /\ 0 + Len(g) = Len(g)
    BY <2>1, <2>3
  <2> QED
    BY <2>1, <2>2, <2>3, <2>4 DEF Aligned, Suits, RightOrMissed
<1> QED
  BY <1>1, DownloadInvariant, TypeInvariant, PTL
=============================================================================
