----------------------------- MODULE DedupProofs -----------------------------
(***************************************************************************)
(* Theorems about DedupSystem, for every set of sessions, chunks, command  *)
(* lines and name tails, and every size of batches, containers, queues and *)
(* of the pool.                                                            *)
(*                                                                         *)
(* Types.  No handler reads what is not there.                             *)
(*                                                                         *)
(* Lockstep.  Client and handler of a session take turns: where both stand *)
(* and what is on its way between them, phase by phase; and a step of one  *)
(* session leaves what the others hold alone.                              *)
(*                                                                         *)
(* Containers and the index.  A container file is never overwritten: the   *)
(* numbers of a session's containers ascend on the whole way from the      *)
(* buffer over the queue and the writer thread to the disk.  The index     *)
(* never lies, what a finished upload has stored is on disk, and the queue *)
(* of duplicates stays in step with the replies.                           *)
(***************************************************************************)
EXTENDS DedupProperties, FiniteSetTheorems, TLAPS

(* A recipe is open only during the upload that writes it, a block is in   *)
(* the writer's hands only while it runs, and a stream that has not failed *)
(* belongs to a file that is there.                                        *)
RecipeAt(s) ==
  /\ recipeWriter[s] # "none" => Uploading(s)
  /\ recipeWriter[s] \in {"run", "exit"} => RecipeName(key[s]) \in DOMAIN recipes
  /\ writing[s] # None => recipeWriter[s] = "run"
  /\ (spc[s] \in {"recipe", "chunk"} /\ ~ reader[s].eof)
       => RecipeName(key[s]) \in DOMAIN recipes

RecipeInv == \A s \in Sessions : RecipeAt(s)

TypeInv == TypeOK /\ RecipeInv

USE JobsAssumption, TailsAssumption, BatchSizeAssumption, JunkAssumption,
    NoAddrAssumption, NoneAssumption, ContainerSlotsAssumption
    DEF JobsAssumption, TailsAssumption, BatchSizeAssumption, JunkAssumption,
        NoAddrAssumption, NoneAssumption, ContainerSlotsAssumption

----------------------------------------------------------------------------
(* Types.                                                                  *)

LEMMA InitTypeInv == Init => TypeInv
<1> SUFFICES ASSUME Init PROVE TypeInv
  OBVIOUS
<1>1. ClientTypeOK
  BY DEF Init, ClientInit, ClientTypeOK, ClientPC
<1>2. ServerTypeOK
  BY DEF Init, ServerInit, ServerTypeOK
<1>3. ConnTypeOK
  <2> USE DEF Init, ConnInit
  <2>1. /\ spc \in [Sessions -> ServerPC]
        /\ key \in [Sessions -> Key]
        /\ inMsg \in [Sessions -> [query : Seq(Chunks), data : Seq(Bytes)]]
        /\ reader \in [Sessions -> Reader]
    BY DEF ServerPC, Key, Reader, Entries
  <2>2. container \in [Sessions -> Container]
    BY DEF Container, ContainerId
  <2>3. recipes \in [DOMAIN recipes -> Recipe] /\ DOMAIN recipes \subseteq Seq(Chars)
    OBVIOUS
  <2>4. /\ hashList \in [Sessions -> Seq(Chunks)]
        /\ flags \in [Sessions -> Seq({0, 1})]
        /\ idx \in [Sessions -> Nat \ {0}]
        /\ dup \in [Sessions -> Seq(Addr)]
        /\ recipe \in [Sessions -> Entries]
        /\ containerQueue \in [Sessions -> Seq(Container)]
        /\ recipeQueue \in [Sessions -> Seq(Entries)]
        /\ total \in [Sessions -> Nat]
    BY DEF Entries
  <2>5. /\ done \in [Sessions -> BOOLEAN]
        /\ chunkAddr \in [Sessions -> Addr \cup {NoAddr}]
        /\ dataWriter \in [Sessions -> {"none", "run", "exit"}]
        /\ recipeWriter \in [Sessions -> {"none", "open", "run", "exit"}]
        /\ saving \in [Sessions -> Container \cup {None}]
        /\ writing \in [Sessions -> Entries \cup {None}]
    OBVIOUS
  <2> QED
    BY <2>1, <2>2, <2>3, <2>4, <2>5 DEF ConnTypeOK
<1>4. TypeOK
  BY <1>1, <1>2, <1>3 DEF Init, TypeOK
<1>5. RecipeInv
  BY DEF Init, ConnInit, RecipeInv, RecipeAt, Uploading
<1> QED
  BY <1>4, <1>5 DEF TypeInv

(* What a message of a given type carries.                                 *)
LEMMA ServerMsgFields ==
  ASSUME NEW m \in ServerMsg
  PROVE  /\ m.type = "LOGIN" => m.id \in Seq(Chars)
         /\ m.type \in {"UPLOAD", "DOWNLOAD"} => m.name \in Seq(Chars)
         /\ m.type = "UPLOADBODY" => m.query \in Seq(Chunks) /\ m.data \in Seq(Bytes)
  BY DEF ServerMsg

LEMMA ClientMsgFields ==
  ASSUME NEW m \in ClientMsg
  PROVE  /\ m.type = "UPLOADBODYREP" => m.flags \in Seq({0, 1})
         /\ m.type = "DOWNLOADBODY" => m.data \in Seq(Bytes)
  BY DEF ClientMsg

(* Both directions keep carrying messages of their kind.                   *)
LEMMA WireTyped ==
  ASSUME TypeOK, NEW s \in Sessions
  PROVE  /\ \A ms \in Seq(ServerMsg) :
               send_data(toServer, s, ms) \in [Sessions -> Seq(ServerMsg)]
         /\ \A ms \in Seq(ClientMsg) :
               send_data(toClient, s, ms) \in [Sessions -> Seq(ClientMsg)]
         /\ toServer[s] # << >> => /\ receive_data(toServer, s) \in [Sessions -> Seq(ServerMsg)]
                                   /\ Head(toServer[s]) \in ServerMsg
         /\ toClient[s] # << >> => /\ receive_data(toClient, s) \in [Sessions -> Seq(ClientMsg)]
                                   /\ Head(toClient[s]) \in ClientMsg
  BY DEF TypeOK, send_data, receive_data

LEMMA PartTyped ==
  ASSUME NEW T, NEW e \in Seq(T), NEW m \in Nat, NEW n \in Nat, n <= Len(e)
  PROVE  SubSeq(e, m + 1, n) \in Seq(T)
  OBVIOUS

LEMMA NextBatchTyped ==
  ASSUME NEW s \in Sessions, TypeOK
  PROVE  NextBatch(s) \in Seq(Chunks)
<1>1. job[s].file \in Seq(Chunks) /\ sent[s] \in Nat
  BY DEF TypeOK, ClientTypeOK, Job
<1>2. /\ Least(sent[s] + BatchSize, Len(job[s].file)) \in Nat
      /\ Least(sent[s] + BatchSize, Len(job[s].file)) <= Len(job[s].file)
  BY <1>1 DEF Least
<1> QED
  BY <1>1, <1>2, PartTyped DEF NextBatch

LEMMA ClientTyped ==
  ASSUME TypeOK, NEW s \in Sessions, ClientSide(s)
  PROVE  TypeOK'
<1> DEFINE Msgs == /\ toServer' \in [Sessions -> Seq(ServerMsg)]
                   /\ toClient' \in [Sessions -> Seq(ClientMsg)]
<1> USE DEF TypeOK
<1>0. UNCHANGED <<job, serverVars, connVars>>
  BY DEF ClientSide
<1>1. ServerTypeOK' /\ ConnTypeOK' /\ job' \in [Sessions -> Jobs]
  BY <1>0 DEF ServerTypeOK, ConnTypeOK, serverVars, connVars, uploadVars, queueVars,
              threadVars, writerVars
<1>2. after' \in [Sessions -> SUBSET Sessions]
  <2>1. {t \in finished : cpc[t] = "closed"} \in SUBSET Sessions
    BY DEF ConnTypeOK
  <2> QED
    BY <2>1 DEF ClientSide
<1>3. job[s] \in Job
  OBVIOUS
<1>4. Quit \in ServerMsg /\ FileEnd \in ServerMsg
  BY DEF Quit, FileEnd, ServerMsg
<1>5. ASSUME Connect(s) PROVE ClientTypeOK' /\ Msgs
  <2>1. /\ Login(job[s].id) \in ServerMsg
        /\ Order("UPLOAD", job[s].name) \in ServerMsg
        /\ Order("DOWNLOAD", job[s].name) \in ServerMsg
    BY <1>3 DEF Login, Order, ServerMsg, Job
  <2>2. \E o \in ServerMsg : toServer' = send_data(toServer, s, <<Login(job[s].id), o>>)
    BY <1>3, <1>4, <1>5, <2>1 DEF Connect, Job
  <2>3. Msgs
    <3>1. PICK o \in ServerMsg : toServer' = send_data(toServer, s, <<Login(job[s].id), o>>)
      BY <2>2
    <3>2. <<Login(job[s].id), o>> \in Seq(ServerMsg)
      BY <2>1
    <3>3. toClient' = toClient
      BY <1>5 DEF Connect
    <3> QED
      BY <3>1, <3>2, <3>3, WireTyped
  <2>4. ClientTypeOK'
    BY <1>3, <1>5 DEF Connect, ClientTypeOK, ClientPC, Job
  <2> QED
    BY <2>3, <2>4
<1>6. ASSUME SendQuit(s), toClient[s] # << >>, UNCHANGED <<sent, batch, got>>
      PROVE  ClientTypeOK' /\ Msgs
  <2>1. Msgs
    <3>1. <<Quit>> \in Seq(ServerMsg)
      BY <1>4
    <3> QED
      BY <1>6, <3>1, WireTyped DEF SendQuit
  <2> QED
    BY <1>6, <2>1 DEF SendQuit, ClientTypeOK, ClientPC
<1>7. ASSUME NEW d \in Seq(Bytes), SendBody(s, d), toClient[s] # << >>
      PROVE  ClientTypeOK' /\ Msgs
  <2> DEFINE b == NextBatch(s)
  <2>1. b \in Seq(Chunks)
    BY NextBatchTyped
  <2>2. Body(b, d) \in ServerMsg
    BY <2>1 DEF Body, ServerMsg
  <2>3. \E ms \in Seq(ServerMsg) : toServer' = send_data(toServer, s, ms)
    <3>1. <<Body(b, d), FileEnd, Quit>> \in Seq(ServerMsg) /\ <<Body(b, d)>> \in Seq(ServerMsg)
      BY <1>4, <2>2
    <3> QED
      BY <1>7, <3>1 DEF SendBody
  <2>4. Msgs
    BY <1>7, <2>3, WireTyped DEF SendBody
  <2>5. ClientTypeOK'
    BY SMTT(30), <1>7, <2>1 DEF SendBody, ClientTypeOK, ClientPC
  <2> QED
    BY <2>4, <2>5
<1>8. CASE UploadDuplicate(s) \/ DownloadRefused(s) \/ DownloadEnd(s)
  BY <1>1, <1>2, <1>6, <1>8 DEF UploadDuplicate, DownloadRefused, DownloadEnd, Arrived
<1>9. CASE UploadUnique(s)
  BY <1>1, <1>2, <1>7, <1>9 DEF UploadUnique, Arrived
<1>10. CASE UploadBatch(s)
  <2>1. UniqueChunks(s, Head(toClient[s]).flags) \in Seq(Bytes)
    BY DEF UniqueChunks, ClientTypeOK, Bytes
  <2> QED
    BY <1>1, <1>2, <1>7, <1>10, <2>1 DEF UploadBatch, Arrived
<1>11. CASE DownloadGranted(s) \/ Close(s)
  <2>1. Msgs
    BY <1>11, WireTyped DEF DownloadGranted, Close, Arrived
  <2>2. ClientTypeOK'
    BY <1>11 DEF DownloadGranted, Close, ClientTypeOK, ClientPC
  <2> QED
    BY <1>1, <1>2, <2>1, <2>2
<1>12. CASE DownloadBody(s)
  <2>1. Msgs /\ Head(toClient[s]) \in ClientMsg
    BY <1>12, WireTyped DEF DownloadBody, Arrived
  <2>2. Head(toClient[s]).data \in Seq(Bytes)
    BY <1>12, <2>1, ClientMsgFields DEF DownloadBody, Arrived
  <2>3. ClientTypeOK'
    BY <1>12, <2>2 DEF DownloadBody, ClientTypeOK
  <2> QED
    BY <1>1, <1>2, <2>1, <2>3
<1> QED
  BY <1>1, <1>2, <1>5, <1>8, <1>9, <1>10, <1>11, <1>12 DEF ClientSide, ClientStep

(* The frame of a step of the server: the client's variables.              *)
LEMMA ServerFrame ==
  ASSUME TypeOK, NEW s \in Sessions, ServerSide(s)
  PROVE  ClientTypeOK' /\ job' \in [Sessions -> Jobs] /\ after' \in [Sessions -> SUBSET Sessions]
  BY DEF TypeOK, ClientTypeOK, ServerSide, clientVars

LEMMA GotoTyped ==
  ASSUME TypeOK, NEW s \in Sessions, NEW pc \in ServerPC, Goto(s, pc)
  PROVE  spc' \in [Sessions -> ServerPC]
<1>1. spc \in [Sessions -> ServerPC]
  BY DEF TypeOK, ConnTypeOK
<1> QED
  BY <1>1 DEF Goto

LEMMA ReplyTyped ==
  ASSUME TypeOK, NEW s \in Sessions, NEW m \in ClientMsg, Reply(s, m)
  PROVE  toClient' \in [Sessions -> Seq(ClientMsg)]
<1>1. <<m>> \in Seq(ClientMsg)
  OBVIOUS
<1> QED
  BY <1>1, WireTyped DEF Reply

LEMMA RunTyped ==
  ASSUME TypeOK, NEW s \in Sessions, RunStep(s), UNCHANGED writerVars
  PROVE  /\ toServer' \in [Sessions -> Seq(ServerMsg)]
         /\ toClient' \in [Sessions -> Seq(ClientMsg)]
         /\ ServerTypeOK' /\ ConnTypeOK'
<1>0. /\ toClient \in [Sessions -> Seq(ClientMsg)]
      /\ key \in [Sessions -> [id : Seq(Chars), name : Seq(Chars)]]
  BY DEF TypeOK, ConnTypeOK, Key
<1>1. toServer[s] # << >>
  BY DEF RunStep, Serve, RecvOrder, RecvQuit, Arrived
<1>2. toServer' \in [Sessions -> Seq(ServerMsg)] /\ Head(toServer[s]) \in ServerMsg
  BY <1>1, WireTyped DEF RunStep
<1>3. ServerTypeOK'
  BY DEF RunStep, TypeOK, ServerTypeOK, serverVars
<1>4. ASSUME spc' \in [Sessions -> ServerPC], key' \in [Sessions -> Key] PROVE ConnTypeOK'
  BY <1>4 DEF RunStep, TypeOK, ConnTypeOK, uploadVars, queueVars, threadVars, writerVars
<1>5. CASE Serve(s)
  <2>1. key' \in [Sessions -> Key]
    BY <1>0, <1>2, <1>5, ServerMsgFields DEF Serve, Arrived, Key
  <2>2. spc' \in [Sessions -> ServerPC]
    BY <1>5, GotoTyped DEF Serve, ServerPC
  <2>3. toClient' = toClient
    BY <1>5 DEF Serve
  <2> QED
    BY <1>0, <1>2, <1>3, <1>4, <2>1, <2>2, <2>3
<1>6. CASE RecvOrder(s)
  <2>1. Head(toServer[s]).name \in Seq(Chars)
    BY <1>2, <1>6, ServerMsgFields DEF RecvOrder, Arrived
  <2>2. ReceivedNames(Head(toServer[s]).name) \subseteq Seq(Chars)
    <3>1. \A t \in Tails : Head(toServer[s]).name \o t \in Seq(Chars)
      BY <2>1
    <3> QED
      BY <3>1 DEF ReceivedNames
  <2>3. key' \in [Sessions -> Key]
    BY <1>0, <1>6, <2>2 DEF RecvOrder, Key
  <2>4. spc' \in [Sessions -> ServerPC]
    BY <1>6, GotoTyped DEF RecvOrder, ServerPC
  <2>5. toClient' = toClient
    BY <1>6 DEF RecvOrder
  <2> QED
    BY <1>0, <1>2, <1>3, <1>4, <2>3, <2>4, <2>5
<1>7. CASE RecvQuit(s)
  <2>1. QuitRep \in ClientMsg
    BY DEF QuitRep, ClientMsg
  <2>2. toClient' \in [Sessions -> Seq(ClientMsg)]
    BY <1>7, <2>1, ReplyTyped DEF RecvQuit
  <2>3. spc' \in [Sessions -> ServerPC]
    BY <1>7, GotoTyped DEF RecvQuit, ServerPC
  <2>4. key' \in [Sessions -> Key]
    BY <1>0, <1>7 DEF RecvQuit, Key
  <2> QED
    BY <1>2, <1>3, <1>4, <2>2, <2>3, <2>4
<1> QED
  BY <1>5, <1>6, <1>7 DEF RunStep

LEMMA RecipeBatchTyped ==
  ASSUME TypeInv, NEW s \in Sessions, spc[s] = "recipe"
  PROVE  RecipeBatch(s) \in Entries
<1>1. CASE reader[s].eof
  BY <1>1 DEF RecipeBatch, Entries
<1>2. CASE ~ reader[s].eof
  <2> DEFINE e == recipes[RecipeName(key[s])].entries
             n == reader[s].pos + BatchSize
             last == IF n <= Len(e) THEN n ELSE Len(e)
  <2>1. RecipeName(key[s]) \in DOMAIN recipes
    BY <1>2 DEF TypeInv, RecipeInv, RecipeAt
  <2>2. recipes[RecipeName(key[s])] \in Recipe
    BY <2>1 DEF TypeInv, TypeOK, ConnTypeOK
  <2>3. e \in Seq(Addr \cup {NoAddr})
    BY <2>2 DEF Recipe, Entries
  <2>4. reader[s].pos \in Nat
    BY DEF TypeInv, TypeOK, ConnTypeOK, Reader
  <2>5. last \in Nat /\ last <= Len(e)
    BY <2>3, <2>4
  <2>6. SubSeq(e, reader[s].pos + 1, last) \in Seq(Addr \cup {NoAddr})
    <3> HIDE DEF e, last
    <3> QED
      BY <2>3, <2>4, <2>5, PartTyped
  <2> QED
    BY <1>2, <2>6 DEF RecipeBatch, Entries
<1> QED
  BY <1>1, <1>2

LEMMA FetchTyped ==
  ASSUME TypeOK, NEW a \in Addr \cup {NoAddr}, NEW held \in Bytes
  PROVE  Fetch(a, held) \in Seq(Bytes)
<1>1. CASE ZeroSize(a)
  BY <1>1 DEF Fetch
<1>2. CASE ~ ZeroSize(a) /\ FilesWith(a) = {}
  BY <1>2 DEF Fetch
<1>3. CASE ~ ZeroSize(a) /\ FilesWith(a) # {}
  <2>1. (CHOOSE f \in FilesWith(a) : TRUE) \in FilesWith(a)
    BY <1>3
  <2>2. \A f \in FilesWith(a) : f.data[a.slot] \in Bytes
    BY DEF FilesWith, TypeOK, ConnTypeOK, Container
  <2>3. (CHOOSE f \in FilesWith(a) : TRUE).data[a.slot] \in Bytes
    BY <2>1, <2>2
  <2> QED
    BY <1>3, <2>3 DEF Fetch
<1> QED
  BY <1>1, <1>2, <1>3

(* The buffer of a download, and what it holds at the next place.          *)
LEMMA BufferTyped ==
  ASSUME NEW r \in Reader
  PROVE  Held(r) \in Bytes /\ Buffer(r) \in Seq(Bytes) /\ Missed(r) \subseteq Nat
<1>1. /\ r.out \in Seq(Bytes) /\ r.old \in Seq(Bytes)
      /\ Len(r.out) \in Nat /\ Len(r.old) \in Nat /\ r.pos \in Nat
  BY DEF Reader
<1>2. Held(r) \in Bytes
  <2>1. Len(r.out) < Len(r.old) => r.old[Len(r.out) + 1] \in Bytes
    BY <1>1
  <2> QED
    BY <2>1 DEF Held, Bytes
<1>3. SubSeq(r.old, Len(r.out) + 1, Len(r.old)) \in Seq(Bytes)
  BY <1>1
<1>4. Buffer(r) \in Seq(Bytes)
  BY <1>1, <1>3 DEF Buffer
<1>5. Missed(r) \subseteq Nat
  BY <1>1 DEF Missed
<1> QED
  BY <1>2, <1>4, <1>5

LEMMA DownloadTyped ==
  ASSUME TypeInv, NEW s \in Sessions, DownloadStep(s), UNCHANGED writerVars
  PROVE  /\ toServer' \in [Sessions -> Seq(ServerMsg)]
         /\ toClient' \in [Sessions -> Seq(ClientMsg)]
         /\ ServerTypeOK' /\ ConnTypeOK'
<1>0. TypeOK /\ reader \in [Sessions -> Reader] /\ toClient \in [Sessions -> Seq(ClientMsg)]
      /\ spc \in [Sessions -> ServerPC]
  BY DEF TypeInv, TypeOK, ConnTypeOK
<1>1. toServer' \in [Sessions -> Seq(ServerMsg)] /\ ServerTypeOK'
  BY <1>0 DEF DownloadStep, TypeOK, ServerTypeOK, serverVars
<1>2. ASSUME spc' \in [Sessions -> ServerPC], reader' \in [Sessions -> Reader] PROVE ConnTypeOK'
  BY <1>0, <1>2 DEF DownloadStep, TypeOK, ConnTypeOK, uploadVars, queueVars, threadVars,
                    writerVars
<1>3. CASE CheckExist(s)
  <2>1. Rep("DOWNLOADREP", "EXIST") \in ClientMsg /\ Rep("DOWNLOADREP", "NOTEXIST") \in ClientMsg
    BY DEF Rep, ClientMsg
  <2>2. toClient' \in [Sessions -> Seq(ClientMsg)]
    BY <1>0, <1>3, <2>1, ReplyTyped DEF CheckExist
  <2>3. spc' \in [Sessions -> ServerPC]
    BY <1>0, <1>3, GotoTyped DEF CheckExist, ServerPC
  <2>4. reader' \in [Sessions -> Reader]
    BY <1>0, <1>3 DEF CheckExist
  <2> QED
    BY <1>1, <1>2, <2>2, <2>3, <2>4
<1>4. CASE OpenForRead(s)
  <2>1. spc' \in [Sessions -> ServerPC]
    BY <1>0, <1>4, GotoTyped DEF OpenForRead, ServerPC
  <2>2. reader' \in [Sessions -> Reader]
    BY ZenonT(60), <1>0, <1>4 DEF OpenForRead, Reader
  <2>3. toClient' \in [Sessions -> Seq(ClientMsg)]
    BY <1>0, <1>4 DEF OpenForRead
  <2> QED
    BY <1>1, <1>2, <2>1, <2>2, <2>3
<1>5. CASE ReadRecipe(s)
  <2>1. spc' \in [Sessions -> ServerPC]
    BY <1>0, <1>5, GotoTyped DEF ReadRecipe, ServerPC
  <2>2. reader' \in [Sessions -> Reader]
    <3>1. RecipeBatch(s) \in Entries
      BY <1>5, RecipeBatchTyped DEF ReadRecipe
    <3>2. Len(RecipeBatch(s)) \in Nat /\ reader[s].pos \in Nat
      BY <1>0, <3>1 DEF Entries, Reader
    <3>3. [pos |-> reader[s].pos + Len(RecipeBatch(s)), eof |-> Len(RecipeBatch(s)) < BatchSize,
           addrs |-> RecipeBatch(s), out |-> << >>, old |-> Buffer(reader[s]),
           missed |-> reader[s].missed] \in Reader
      BY <1>0, <3>1, <3>2, BufferTyped DEF Reader
    <3> QED
      BY <1>0, <1>5, <3>3 DEF ReadRecipe
  <2>3. toClient' \in [Sessions -> Seq(ClientMsg)]
    BY <1>0, <1>5 DEF ReadRecipe
  <2> QED
    BY <1>1, <1>2, <2>1, <2>2, <2>3
<1>6. CASE ReadChunk(s)
  <2>1. spc' \in [Sessions -> ServerPC] /\ toClient' \in [Sessions -> Seq(ClientMsg)]
    BY <1>0, <1>6 DEF ReadChunk
  <2>2. reader' \in [Sessions -> Reader]
    <3>1. reader[s].addrs \in Entries /\ reader[s].addrs # << >> /\ reader[s].out \in Seq(Bytes)
      BY <1>0, <1>6 DEF ReadChunk, Reader
    <3>2. Head(reader[s].addrs) \in Addr \cup {NoAddr} /\ Tail(reader[s].addrs) \in Entries
      BY <3>1 DEF Entries
    <3>3. reader[s].out \o Fetch(Head(reader[s].addrs), Held(reader[s])) \in Seq(Bytes)
      BY <1>0, <3>1, <3>2, FetchTyped, BufferTyped
    <3>4. reader[s].missed \cup Missed(reader[s]) \in SUBSET Nat
      BY <1>0, BufferTyped DEF Reader
    <3>5. [reader[s] EXCEPT !.addrs = Tail(@), !.missed = @ \cup Missed(reader[s]),
                            !.out = @ \o Fetch(Head(reader[s].addrs), Held(reader[s]))] \in Reader
      BY <1>0, <3>2, <3>3, <3>4 DEF Reader
    <3> QED
      BY <1>0, <1>6, <3>5 DEF ReadChunk
  <2> QED
    BY <1>1, <1>2, <2>1, <2>2
<1>7. CASE SendDownBody(s) \/ SendFileEnd(s)
  <2>1. DownBody(reader[s].out) \in ClientMsg /\ FileEnd \in ClientMsg
    BY <1>0 DEF DownBody, FileEnd, ClientMsg, Reader
  <2>2. toClient' \in [Sessions -> Seq(ClientMsg)]
    BY <1>0, <1>7, <2>1, ReplyTyped DEF SendDownBody, SendFileEnd
  <2>3. spc' \in [Sessions -> ServerPC]
    BY <1>0, <1>7, GotoTyped DEF SendDownBody, SendFileEnd, ServerPC
  <2>4. reader' \in [Sessions -> Reader]
    BY <1>0, <1>7 DEF SendDownBody, SendFileEnd
  <2> QED
    BY <1>1, <1>2, <2>2, <2>3, <2>4
<1> QED
  BY <1>3, <1>4, <1>5, <1>6, <1>7 DEF DownloadStep

(* new_container and the two pushes keep the types.                        *)
LEMMA UploadFields ==
  ASSUME TypeOK, NEW s \in Sessions
  PROVE  /\ container[s] \in Container /\ new_container(container[s]) \in Container
         /\ recipe[s] \in Entries /\ chunkAddr[s] \in Addr \cup {NoAddr}
         /\ insert_container_queue(s) => containerQueue' \in [Sessions -> Seq(Container)]
         /\ insert_recipe_queue(s) => recipeQueue' \in [Sessions -> Seq(Entries)]
         /\ hashList[s] \in Seq(Chunks) /\ idx[s] \in Nat \ {0}
         /\ inMsg[s].query \in Seq(Chunks) /\ inMsg[s].data \in Seq(Bytes)
<1>1. /\ container \in [Sessions -> Container] /\ recipe \in [Sessions -> Entries]
      /\ chunkAddr \in [Sessions -> Addr \cup {NoAddr}]
      /\ containerQueue \in [Sessions -> Seq(Container)]
      /\ recipeQueue \in [Sessions -> Seq(Entries)]
      /\ hashList \in [Sessions -> Seq(Chunks)] /\ idx \in [Sessions -> Nat \ {0}]
      /\ inMsg \in [Sessions -> [query : Seq(Chunks), data : Seq(Bytes)]]
  BY DEF TypeOK, ConnTypeOK
<1>2. new_container(container[s]) \in Container
  <2>1. container[s].id \in Sessions \X Nat
    BY <1>1 DEF Container, ContainerId
  <2>2. <<container[s].id[1], container[s].id[2] + 1>> \in Sessions \X Nat
    BY <2>1
  <2> QED
    BY <2>2 DEF new_container, Container, ContainerId
<1>3. insert_container_queue(s) => containerQueue' \in [Sessions -> Seq(Container)]
  BY <1>1 DEF insert_container_queue
<1>4. insert_recipe_queue(s) => recipeQueue' \in [Sessions -> Seq(Entries)]
  BY <1>1 DEF insert_recipe_queue
<1> QED
  BY <1>1, <1>2, <1>3, <1>4

LEMMA AdmitTyped ==
  ASSUME TypeOK, NEW s \in Sessions, AdmitStep(s), UNCHANGED <<key, reader, writerVars>>
  PROVE  /\ toServer' \in [Sessions -> Seq(ServerMsg)]
         /\ toClient' \in [Sessions -> Seq(ClientMsg)]
         /\ ServerTypeOK' /\ ConnTypeOK'
<1>0. /\ toClient \in [Sessions -> Seq(ClientMsg)] /\ key[s] \in Key
      /\ dataWriter \in [Sessions -> {"none", "run", "exit"}]
      /\ recipeWriter \in [Sessions -> {"none", "open", "run", "exit"}]
  BY DEF TypeOK, ConnTypeOK
<1>1. toServer' \in [Sessions -> Seq(ServerMsg)]
  BY DEF AdmitStep, TypeOK
<1>2. ASSUME spc' \in [Sessions -> ServerPC],
             dataWriter' \in [Sessions -> {"none", "run", "exit"}],
             recipeWriter' \in [Sessions -> {"none", "open", "run", "exit"}]
      PROVE  ConnTypeOK'
  BY <1>2 DEF AdmitStep, TypeOK, ConnTypeOK, queueVars, writerVars
<1>3. CASE CheckUnique(s)
  <2>1. Rep("UPLOADREP", "UNIQUE") \in ClientMsg /\ Rep("UPLOADREP", "DUPLICATE") \in ClientMsg
    BY DEF Rep, ClientMsg
  <2>2. toClient' \in [Sessions -> Seq(ClientMsg)]
    BY <1>3, <2>1, ReplyTyped DEF CheckUnique
  <2>3. spc' \in [Sessions -> ServerPC]
    BY <1>3, GotoTyped DEF CheckUnique, ServerPC
  <2>4. ServerTypeOK'
    BY <1>3 DEF CheckUnique, AdmitStep, TypeOK, ServerTypeOK
  <2>5. UNCHANGED threadVars
    BY <1>3 DEF CheckUnique
  <2> QED
    BY <1>0, <1>1, <1>2, <2>2, <2>3, <2>4, <2>5 DEF threadVars
<1>4. CASE AddFile(s)
  <2>1. spc' \in [Sessions -> ServerPC]
    BY <1>4, GotoTyped DEF AddFile, ServerPC
  <2>2. ServerTypeOK'
    BY <1>0, <1>4 DEF AddFile, addFile, AdmitStep, TypeOK, ServerTypeOK
  <2>3. /\ toClient' = toClient
        /\ dataWriter' \in [Sessions -> {"none", "run", "exit"}]
        /\ recipeWriter' \in [Sessions -> {"none", "open", "run", "exit"}]
    BY <1>0, <1>4 DEF AddFile
  <2> QED
    BY <1>0, <1>1, <1>2, <2>1, <2>2, <2>3
<1> QED
  BY <1>3, <1>4 DEF AdmitStep

LEMMA ReceiveTyped ==
  ASSUME TypeOK, NEW s \in Sessions, ReceiveStep(s), UNCHANGED <<key, reader, writerVars>>
  PROVE  /\ toServer' \in [Sessions -> Seq(ServerMsg)]
         /\ toClient' \in [Sessions -> Seq(ClientMsg)]
         /\ ServerTypeOK' /\ ConnTypeOK'
<1>0. /\ inMsg \in [Sessions -> [query : Seq(Chunks), data : Seq(Bytes)]]
      /\ idx \in [Sessions -> Nat \ {0}]
  BY DEF TypeOK, ConnTypeOK
<1>1. toServer' \in [Sessions -> Seq(ServerMsg)] /\ Head(toServer[s]) \in ServerMsg
  BY WireTyped DEF ReceiveStep, RecvBody, RecvFileEnd, Arrived
<1>2. toClient' \in [Sessions -> Seq(ClientMsg)] /\ ServerTypeOK'
  BY DEF ReceiveStep, TypeOK, ServerTypeOK, serverVars
<1>3. spc' \in [Sessions -> ServerPC]
  BY GotoTyped DEF ReceiveStep, RecvBody, RecvFileEnd, ServerPC
<1>4. /\ inMsg' \in [Sessions -> [query : Seq(Chunks), data : Seq(Bytes)]]
      /\ idx' \in [Sessions -> Nat \ {0}]
  <2>1. CASE RecvBody(s)
    BY <1>0, <1>1, <2>1, ServerMsgFields DEF RecvBody, Arrived
  <2>2. CASE RecvFileEnd(s)
    BY <1>0, <2>2 DEF RecvFileEnd
  <2> QED
    BY <2>1, <2>2 DEF ReceiveStep
<1>5. ConnTypeOK'
  BY <1>3, <1>4 DEF ReceiveStep, TypeOK, ConnTypeOK, queueVars, threadVars, writerVars
<1> QED
  BY <1>1, <1>2, <1>5

LEMMA StoreTyped ==
  ASSUME TypeOK, NEW s \in Sessions, StoreStep(s), UNCHANGED <<key, reader, writerVars>>
  PROVE  /\ toServer' \in [Sessions -> Seq(ServerMsg)]
         /\ toClient' \in [Sessions -> Seq(ClientMsg)]
         /\ ServerTypeOK' /\ ConnTypeOK'
<1>0. /\ spc \in [Sessions -> ServerPC] /\ idx \in [Sessions -> Nat \ {0}]
      /\ dup \in [Sessions -> Seq(Addr)]
      /\ chunkAddr \in [Sessions -> Addr \cup {NoAddr}]
      /\ container \in [Sessions -> Container] /\ recipe \in [Sessions -> Entries]
      /\ containerQueue \in [Sessions -> Seq(Container)]
      /\ recipeQueue \in [Sessions -> Seq(Entries)]
  BY DEF TypeOK, ConnTypeOK
<1>00. m_all_chunks \in [Chunks -> Addr \cup {NoAddr}]
  BY DEF TypeOK, ServerTypeOK
<1>1. toServer' \in [Sessions -> Seq(ServerMsg)] /\ toClient' \in [Sessions -> Seq(ClientMsg)]
  BY DEF StoreStep, TypeOK, wire
<1>2. ASSUME m_all_chunks' \in [Chunks -> Addr \cup {NoAddr}] PROVE ServerTypeOK'
  BY <1>2 DEF StoreStep, TypeOK, ServerTypeOK
<1>3. ASSUME spc' \in [Sessions -> ServerPC], idx' \in [Sessions -> Nat \ {0}],
             dup' \in [Sessions -> Seq(Addr)],
             chunkAddr' \in [Sessions -> Addr \cup {NoAddr}],
             container' \in [Sessions -> Container], recipe' \in [Sessions -> Entries],
             containerQueue' \in [Sessions -> Seq(Container)],
             recipeQueue' \in [Sessions -> Seq(Entries)]
      PROVE  ConnTypeOK'
  BY <1>3 DEF StoreStep, TypeOK, ConnTypeOK, threadVars, writerVars
<1>4. CASE FlushContainer(s)
  <2>1. container' \in [Sessions -> Container]
    BY <1>0, <1>4, UploadFields DEF FlushContainer
  <2>2. containerQueue' \in [Sessions -> Seq(Container)]
    BY <1>4, UploadFields DEF FlushContainer
  <2>3. UNCHANGED <<m_all_chunks, spc, idx, dup, chunkAddr, recipe, recipeQueue>>
    BY <1>4 DEF FlushContainer
  <2> QED
    BY <1>0, <1>00, <1>1, <1>2, <1>3, <2>1, <2>2, <2>3
<1>5. CASE StoreChunk(s)
  <2> DEFINE a == [id |-> container[s].id, slot |-> Len(container[s].data) + 1]
  <2>1. Received(s, idx[s]) \in Bytes
    BY UploadFields DEF Received, Bytes
  <2>2. container[s].id \in ContainerId /\ container[s].data \in Seq(Bytes)
    BY UploadFields DEF Container
  <2>3. a \in Addr
    BY <2>2 DEF Addr
  <2>4. container' \in [Sessions -> Container]
    <3>1. Append(container[s].data, Received(s, idx[s])) \in Seq(Bytes)
      BY <2>1, <2>2
    <3>2. container' = [container EXCEPT ![s] =
                          [container[s] EXCEPT !.data = Append(container[s].data, Received(s, idx[s]))]]
      BY <1>0, <1>5 DEF StoreChunk
    <3>3. ASSUME NEW d \in Seq(Bytes) PROVE [container[s] EXCEPT !.data = d] \in Container
      BY <1>0 DEF Container
    <3>4. [container[s] EXCEPT !.data = Append(container[s].data, Received(s, idx[s]))] \in Container
      BY <3>1, <3>3
    <3> QED
      BY <1>0, <3>2, <3>4
  <2>5. chunkAddr' \in [Sessions -> Addr \cup {NoAddr}]
    BY <1>0, <1>5, <2>3 DEF StoreChunk
  <2>6. spc' \in [Sessions -> ServerPC]
    BY <1>5, GotoTyped DEF StoreChunk, ServerPC
  <2>7. m_all_chunks' \in [Chunks -> Addr \cup {NoAddr}]
    <3>1. addChunk(hashList[s][idx[s]], a)
      BY <1>5 DEF StoreChunk
    <3> HIDE DEF a
    <3> QED
      BY <1>00, <2>3, <3>1 DEF addChunk
  <2>8. UNCHANGED <<idx, dup, recipe, containerQueue, recipeQueue>>
    BY <1>5 DEF StoreChunk
  <2> QED
    BY <1>0, <1>1, <1>2, <1>3, <2>4, <2>5, <2>6, <2>7, <2>8
<1>6. CASE TakeDuplicate(s)
  <2>1. spc' \in [Sessions -> ServerPC]
    BY <1>6, GotoTyped DEF TakeDuplicate, ServerPC
  <2>2. chunkAddr' \in [Sessions -> Addr \cup {NoAddr}] /\ dup' \in [Sessions -> Seq(Addr)]
    BY <1>0, <1>6 DEF TakeDuplicate
  <2>3. UNCHANGED <<m_all_chunks, idx, container, recipe, containerQueue, recipeQueue>>
    BY <1>6 DEF TakeDuplicate
  <2> QED
    BY <1>0, <1>00, <1>1, <1>2, <1>3, <2>1, <2>2, <2>3
<1>7. CASE FlushRecipe(s)
  <2>1. recipe' \in [Sessions -> Entries]
    BY <1>0, <1>7 DEF FlushRecipe, Entries
  <2>2. recipeQueue' \in [Sessions -> Seq(Entries)]
    BY <1>7, UploadFields DEF FlushRecipe
  <2>3. UNCHANGED <<m_all_chunks, spc, idx, dup, chunkAddr, container, containerQueue>>
    BY <1>7 DEF FlushRecipe
  <2> QED
    BY <1>0, <1>00, <1>1, <1>2, <1>3, <2>1, <2>2, <2>3
<1>8. CASE WriteEntry(s)
  <2>1. recipe' \in [Sessions -> Entries]
    BY SMTT(30), <1>0, <1>8 DEF WriteEntry, Entries
  <2>2. idx' \in [Sessions -> Nat \ {0}]
    BY <1>0, <1>8 DEF WriteEntry
  <2>3. spc' \in [Sessions -> ServerPC]
    BY <1>8, GotoTyped DEF WriteEntry, ServerPC
  <2>4. UNCHANGED <<m_all_chunks, dup, chunkAddr, container, containerQueue, recipeQueue>>
    BY <1>8 DEF WriteEntry
  <2> QED
    BY <1>0, <1>00, <1>1, <1>2, <1>3, <2>1, <2>2, <2>3, <2>4
<1> QED
  BY <1>4, <1>5, <1>6, <1>7, <1>8 DEF StoreStep

LEMMA QueryTyped ==
  ASSUME TypeOK, NEW s \in Sessions, QueryStep(s), UNCHANGED <<key, reader, writerVars>>
  PROVE  /\ toServer' \in [Sessions -> Seq(ServerMsg)]
         /\ toClient' \in [Sessions -> Seq(ClientMsg)]
         /\ ServerTypeOK' /\ ConnTypeOK'
<1>0. /\ toClient \in [Sessions -> Seq(ClientMsg)]
      /\ spc \in [Sessions -> ServerPC] /\ hashList \in [Sessions -> Seq(Chunks)]
      /\ flags \in [Sessions -> Seq({0, 1})] /\ idx \in [Sessions -> Nat \ {0}]
      /\ dup \in [Sessions -> Seq(Addr)]
  BY DEF TypeOK, ConnTypeOK
<1>1. toServer' \in [Sessions -> Seq(ServerMsg)] /\ ServerTypeOK'
  BY DEF QueryStep, TypeOK, ServerTypeOK, serverVars
<1>2. ASSUME spc' \in [Sessions -> ServerPC], hashList' \in [Sessions -> Seq(Chunks)],
             flags' \in [Sessions -> Seq({0, 1})], idx' \in [Sessions -> Nat \ {0}],
             dup' \in [Sessions -> Seq(Addr)]
      PROVE  ConnTypeOK'
  BY <1>2 DEF QueryStep, TypeOK, ConnTypeOK, queueVars, threadVars, writerVars
<1>3. CASE BeginQuery(s)
  <2>1. spc' \in [Sessions -> ServerPC]
    BY <1>3, GotoTyped DEF BeginQuery, ServerPC
  <2>2. /\ hashList' \in [Sessions -> Seq(Chunks)]
        /\ flags' \in [Sessions -> Seq({0, 1})] /\ idx' \in [Sessions -> Nat \ {0}]
    BY <1>0, <1>3, UploadFields DEF BeginQuery
  <2>3. UNCHANGED <<toClient, dup>>
    BY <1>3 DEF BeginQuery
  <2> QED
    BY <1>0, <1>1, <1>2, <2>1, <2>2, <2>3
<1>4. CASE QueryChunk(s)
  <2>1. hashList[s][idx[s]] \in Chunks
    BY <1>4, UploadFields DEF QueryChunk
  <2>2. isChunkStored(hashList[s][idx[s]]) => m_all_chunks[hashList[s][idx[s]]] \in Addr
    BY <2>1 DEF isChunkStored, TypeOK, ServerTypeOK
  <2>3. /\ flags' \in [Sessions -> Seq({0, 1})] /\ idx' \in [Sessions -> Nat \ {0}]
    <3>1. \E b \in {0, 1} : flags' = [flags EXCEPT ![s] = Append(@, b)]
      BY <1>4 DEF QueryChunk
    <3>2. idx' = [idx EXCEPT ![s] = @ + 1]
      BY <1>4 DEF QueryChunk
    <3> QED
      BY <1>0, <3>1, <3>2
  <2>4. dup' \in [Sessions -> Seq(Addr)]
    <3>1. dup' = dup \/ \E a \in Addr : dup' = [dup EXCEPT ![s] = Append(@, a)]
      BY <1>4, <2>2 DEF QueryChunk
    <3>2. CASE dup' = dup
      BY <1>0, <3>2
    <3>3. ASSUME NEW a \in Addr, dup' = [dup EXCEPT ![s] = Append(@, a)]
          PROVE  dup' \in [Sessions -> Seq(Addr)]
      BY <1>0, <3>3
    <3> QED
      BY <3>1, <3>2, <3>3
  <2>5. UNCHANGED <<toClient, spc, hashList>>
    BY <1>4 DEF QueryChunk
  <2> QED
    BY <1>0, <1>1, <1>2, <2>3, <2>4, <2>5
<1>5. CASE SendReply(s)
  <2>1. BodyRep(flags[s]) \in ClientMsg
    BY <1>0 DEF BodyRep, ClientMsg
  <2>2. toClient' \in [Sessions -> Seq(ClientMsg)]
    BY <1>0, <1>5, <2>1, ReplyTyped DEF SendReply
  <2>3. spc' \in [Sessions -> ServerPC]
    BY <1>5, GotoTyped DEF SendReply, ServerPC
  <2>4. UNCHANGED <<hashList, flags, idx, dup>>
    BY <1>5 DEF SendReply
  <2> QED
    BY <1>0, <1>1, <1>2, <2>2, <2>3, <2>4
<1> QED
  BY <1>3, <1>4, <1>5 DEF QueryStep

LEMMA FinishTyped ==
  ASSUME TypeOK, NEW s \in Sessions, FinishStep(s), UNCHANGED <<key, reader, writerVars>>
  PROVE  /\ toServer' \in [Sessions -> Seq(ServerMsg)]
         /\ toClient' \in [Sessions -> Seq(ClientMsg)]
         /\ ServerTypeOK' /\ ConnTypeOK'
<1>0. /\ hashList \in [Sessions -> Seq(Chunks)]
      /\ container \in [Sessions -> Container] /\ recipe \in [Sessions -> Entries]
      /\ containerQueue \in [Sessions -> Seq(Container)]
      /\ recipeQueue \in [Sessions -> Seq(Entries)] /\ done \in [Sessions -> BOOLEAN]
      /\ dataWriter \in [Sessions -> {"none", "run", "exit"}]
      /\ recipeWriter \in [Sessions -> {"none", "open", "run", "exit"}]
      /\ finished \subseteq Sessions
  BY DEF TypeOK, ConnTypeOK
<1>1. /\ toServer' \in [Sessions -> Seq(ServerMsg)]
      /\ toClient' \in [Sessions -> Seq(ClientMsg)]
      /\ ServerTypeOK'
  BY DEF FinishStep, TypeOK, ServerTypeOK, serverVars, wire
<1>2. spc' \in [Sessions -> ServerPC]
  BY GotoTyped DEF FinishStep, InsertLastContainer, InsertLastRecipe, Join, ServerPC
<1>3. ASSUME hashList' \in [Sessions -> Seq(Chunks)],
             container' \in [Sessions -> Container], recipe' \in [Sessions -> Entries],
             containerQueue' \in [Sessions -> Seq(Container)],
             recipeQueue' \in [Sessions -> Seq(Entries)], done' \in [Sessions -> BOOLEAN],
             dataWriter' \in [Sessions -> {"none", "run", "exit"}],
             recipeWriter' \in [Sessions -> {"none", "open", "run", "exit"}],
             finished' \subseteq Sessions
      PROVE  ConnTypeOK'
  BY <1>2, <1>3 DEF FinishStep, TypeOK, ConnTypeOK, writerVars
<1>4. CASE InsertLastContainer(s)
  <2>1. containerQueue' \in [Sessions -> Seq(Container)]
    BY <1>0, <1>4, UploadFields DEF InsertLastContainer
  <2>2. UNCHANGED <<hashList, container, recipe, recipeQueue, done, threadVars, finished>>
    BY <1>4 DEF InsertLastContainer
  <2> QED
    BY <1>0, <1>1, <1>3, <2>1, <2>2 DEF threadVars
<1>5. CASE InsertLastRecipe(s)
  <2>1. recipeQueue' \in [Sessions -> Seq(Entries)]
    BY <1>0, <1>5, UploadFields DEF InsertLastRecipe
  <2>2. done' \in [Sessions -> BOOLEAN]
    BY <1>0, <1>5 DEF InsertLastRecipe
  <2>3. UNCHANGED <<hashList, container, recipe, containerQueue, threadVars, finished>>
    BY <1>5 DEF InsertLastRecipe
  <2> QED
    BY <1>0, <1>1, <1>3, <2>1, <2>2, <2>3 DEF threadVars
<1>6. CASE Join(s)
  <2>1. container' \in [Sessions -> Container]
    BY <1>0, <1>6, UploadFields DEF Join
  <2>2. /\ hashList' \in [Sessions -> Seq(Chunks)] /\ recipe' \in [Sessions -> Entries]
        /\ finished' \subseteq Sessions
    BY <1>0, <1>6 DEF Join, Entries
  <2>3. /\ done' \in [Sessions -> BOOLEAN]
        /\ dataWriter' \in [Sessions -> {"none", "run", "exit"}]
        /\ recipeWriter' \in [Sessions -> {"none", "open", "run", "exit"}]
    BY <1>0, <1>6 DEF Join
  <2>4. UNCHANGED <<containerQueue, recipeQueue>>
    BY <1>6 DEF Join
  <2> QED
    BY <1>0, <1>1, <1>3, <2>1, <2>2, <2>3, <2>4
<1> QED
  BY <1>4, <1>5, <1>6 DEF FinishStep

LEMMA DataWriterTyped ==
  ASSUME TypeOK, NEW s \in Sessions, DataWriterStep(s)
  PROVE  /\ toServer' \in [Sessions -> Seq(ServerMsg)]
         /\ toClient' \in [Sessions -> Seq(ClientMsg)]
         /\ ServerTypeOK' /\ ConnTypeOK'
<1>0. /\ containerQueue \in [Sessions -> Seq(Container)]
      /\ dataWriter \in [Sessions -> {"none", "run", "exit"}]
      /\ saving \in [Sessions -> Container \cup {None}]
      /\ containers \subseteq Container
  BY DEF TypeOK, ConnTypeOK
<1>1. /\ toServer' \in [Sessions -> Seq(ServerMsg)]
      /\ toClient' \in [Sessions -> Seq(ClientMsg)]
      /\ ServerTypeOK'
  BY DEF DataWriterStep, TypeOK, ServerTypeOK, serverVars, wire
<1>2. ASSUME containerQueue' \in [Sessions -> Seq(Container)],
             dataWriter' \in [Sessions -> {"none", "run", "exit"}],
             saving' \in [Sessions -> Container \cup {None}],
             containers' \subseteq Container
      PROVE  ConnTypeOK'
  BY <1>2 DEF DataWriterStep, TypeOK, ConnTypeOK
<1>3. CASE PopContainer(s)
  BY <1>0, <1>1, <1>2, <1>3 DEF PopContainer
<1>4. CASE SaveContainer(s)
  <2>1. containers' \subseteq Container /\ saving' \in [Sessions -> Container \cup {None}]
    BY <1>0, <1>4 DEF SaveContainer
  <2> QED
    BY <1>0, <1>1, <1>2, <1>4, <2>1 DEF SaveContainer
<1>5. CASE EndDataWriter(s)
  BY <1>0, <1>1, <1>2, <1>5 DEF EndDataWriter
<1> QED
  BY <1>3, <1>4, <1>5 DEF DataWriterStep

LEMMA OverlayTyped ==
  ASSUME NEW old \in Entries, NEW n \in Nat, NEW b \in Entries
  PROVE  Overlay(old, n, b) \in Entries
<1> DEFINE T == Addr \cup {NoAddr}
           len == IF n + Len(b) > Len(old) THEN n + Len(b) ELSE Len(old)
           e(i) == IF i > n /\ i <= n + Len(b) THEN b[i - n]
                   ELSE IF i <= Len(old) THEN old[i] ELSE NoAddr
<1>1. old \in Seq(T) /\ b \in Seq(T)
  BY DEF Entries
<1>2. NoAddr \in T
  OBVIOUS
<1> HIDE DEF T
<1>3. len \in Nat
  BY <1>1
<1>4. ASSUME NEW i \in 1 .. len PROVE e(i) \in T
  <2>1. CASE i > n /\ i <= n + Len(b)
    <3>1. i - n \in 1 .. Len(b)
      BY <1>3, <2>1
    <3> QED
      BY <1>1, <2>1, <3>1
  <2>2. CASE ~ (i > n /\ i <= n + Len(b))
    BY <1>1, <1>2, <2>2
  <2> QED
    BY <2>1, <2>2
<1> HIDE DEF len, e
<1>5. [i \in 1 .. len |-> e(i)] \in Seq(T)
  BY <1>3, <1>4
<1> QED
  BY <1>5 DEF Overlay, Entries, T, len, e

LEMMA RecipeWriterTyped ==
  ASSUME TypeInv, NEW s \in Sessions, RecipeWriterStep(s)
  PROVE  /\ toServer' \in [Sessions -> Seq(ServerMsg)]
         /\ toClient' \in [Sessions -> Seq(ClientMsg)]
         /\ ServerTypeOK' /\ ConnTypeOK'
<1> DEFINE n == RecipeName(key[s])
<1>0. /\ recipeQueue \in [Sessions -> Seq(Entries)]
      /\ recipeWriter \in [Sessions -> {"none", "open", "run", "exit"}]
      /\ writing \in [Sessions -> Entries \cup {None}]
      /\ total \in [Sessions -> Nat]
      /\ recipes \in [DOMAIN recipes -> Recipe] /\ DOMAIN recipes \subseteq Seq(Chars)
  BY DEF TypeInv, TypeOK, ConnTypeOK
<1>1. /\ toServer' \in [Sessions -> Seq(ServerMsg)]
      /\ toClient' \in [Sessions -> Seq(ClientMsg)]
      /\ ServerTypeOK'
  BY DEF RecipeWriterStep, TypeInv, TypeOK, ServerTypeOK, serverVars, wire
<1>2. ASSUME recipeQueue' \in [Sessions -> Seq(Entries)],
             recipeWriter' \in [Sessions -> {"none", "open", "run", "exit"}],
             writing' \in [Sessions -> Entries \cup {None}],
             total' \in [Sessions -> Nat],
             recipes' \in [DOMAIN recipes' -> Recipe], DOMAIN recipes' \subseteq Seq(Chars)
      PROVE  ConnTypeOK'
  BY <1>2 DEF RecipeWriterStep, TypeInv, TypeOK, ConnTypeOK
<1>3. n \in Seq(Chars)
  BY SMTT(30) DEF TypeInv, TypeOK, ConnTypeOK, Key, RecipeName
<1> HIDE DEF n
<1>4. ASSUME NEW r \in Recipe, PutRecipe(n, r)
      PROVE  recipes' \in [DOMAIN recipes' -> Recipe] /\ DOMAIN recipes' \subseteq Seq(Chars)
  BY <1>0, <1>3, <1>4 DEF PutRecipe
<1>5. CASE OpenRecipe(s)
  <2>1. [total |-> 0, entries |-> << >>] \in Recipe
    BY DEF Recipe, Entries
  <2>2. recipes' \in [DOMAIN recipes' -> Recipe] /\ DOMAIN recipes' \subseteq Seq(Chars)
    BY <1>4, <1>5, <2>1 DEF OpenRecipe, n
  <2> QED
    BY <1>0, <1>1, <1>2, <1>5, <2>2 DEF OpenRecipe
<1>6. CASE PopRecipe(s)
  BY <1>0, <1>1, <1>2, <1>6 DEF PopRecipe
<1>7. ASSUME recipeWriter[s] = "run" PROVE recipes[n] \in Recipe
  BY <1>0, <1>7 DEF TypeInv, RecipeInv, RecipeAt, n
<1>8. CASE WriteRecipe(s)
  <2>1. recipeWriter[s] = "run" /\ writing[s] \in Entries
    BY <1>0, <1>8 DEF WriteRecipe, TypeInv, RecipeInv, RecipeAt
  <2>2. recipes[n].entries \in Entries /\ recipes[n].total \in Nat /\ total[s] \in Nat
    BY <1>0, <1>7, <2>1 DEF Recipe
  <2>3. Overlay(recipes[n].entries, total[s], writing[s]) \in Entries
    BY <2>1, <2>2, OverlayTyped
  <2>4. [recipes[n] EXCEPT !.entries = Overlay(@, total[s], writing[s])] \in Recipe
    BY <1>7, <2>1, <2>3 DEF Recipe
  <2>5. recipes' \in [DOMAIN recipes' -> Recipe] /\ DOMAIN recipes' \subseteq Seq(Chars)
    BY <1>4, <1>8, <2>4 DEF WriteRecipe, n
  <2>6. total' \in [Sessions -> Nat] /\ writing' \in [Sessions -> Entries \cup {None}]
    BY <1>0, <1>8, <2>1 DEF WriteRecipe, Entries
  <2>7. UNCHANGED <<recipeWriter, recipeQueue>>
    BY <1>8 DEF WriteRecipe
  <2> QED
    BY <1>0, <1>1, <1>2, <2>5, <2>6, <2>7
<1>9. CASE EndRecipeWriter(s)
  <2>1. [recipes[n] EXCEPT !.total = total[s]] \in Recipe
    BY <1>0, <1>7, <1>9 DEF EndRecipeWriter, Recipe
  <2>2. recipes' \in [DOMAIN recipes' -> Recipe] /\ DOMAIN recipes' \subseteq Seq(Chars)
    BY <1>4, <1>9, <2>1 DEF EndRecipeWriter, n
  <2> QED
    BY <1>0, <1>1, <1>2, <1>9, <2>2 DEF EndRecipeWriter
<1> QED
  BY <1>5, <1>6, <1>8, <1>9 DEF RecipeWriterStep

LEMMA HandlerTyped ==
  ASSUME TypeInv, NEW s \in Sessions, HandlerStep(s)
  PROVE  /\ toServer' \in [Sessions -> Seq(ServerMsg)]
         /\ toClient' \in [Sessions -> Seq(ClientMsg)]
         /\ ServerTypeOK' /\ ConnTypeOK'
<1>0. TypeOK /\ UNCHANGED writerVars
  BY DEF TypeInv, HandlerStep
<1>1. CASE RunStep(s)
  BY <1>0, <1>1, RunTyped
<1>2. CASE DownloadStep(s)
  BY <1>0, <1>2, DownloadTyped
<1>3. CASE UploadStep(s)
  <2>0. UNCHANGED <<key, reader>>
    BY <1>3 DEF UploadStep
  <2>1. UNCHANGED <<key, reader, writerVars>>
    BY <1>0, <2>0
  <2>2. CASE AdmitStep(s)
    BY <1>0, <2>1, <2>2, AdmitTyped
  <2>3. CASE ReceiveStep(s)
    BY <1>0, <2>1, <2>3, ReceiveTyped
  <2>4. CASE StoreStep(s)
    BY <1>0, <2>1, <2>4, StoreTyped
  <2>5. CASE QueryStep(s)
    BY <1>0, <2>1, <2>5, QueryTyped
  <2>6. CASE FinishStep(s)
    BY <1>0, <2>1, <2>6, FinishTyped
  <2> QED
    BY <1>3, <2>2, <2>3, <2>4, <2>5, <2>6 DEF UploadStep
<1> QED
  BY <1>1, <1>2, <1>3 DEF HandlerStep

LEMMA NextTyped ==
  ASSUME TypeInv, [Next]_vars
  PROVE  TypeOK'
<1>1. ASSUME NEW s \in Sessions, ClientSide(s) PROVE TypeOK'
  BY <1>1, ClientTyped DEF TypeInv
<1>2. ASSUME NEW s \in Sessions, ServerSide(s) PROVE TypeOK'
  <2>1. /\ toServer' \in [Sessions -> Seq(ServerMsg)]
        /\ toClient' \in [Sessions -> Seq(ClientMsg)]
        /\ ServerTypeOK' /\ ConnTypeOK'
    <3>1. HandlerStep(s) \/ DataWriterStep(s) \/ RecipeWriterStep(s)
      BY <1>2 DEF ServerSide
    <3> QED
      BY <3>1, HandlerTyped, DataWriterTyped, RecipeWriterTyped DEF TypeInv
  <2>2. ClientTypeOK' /\ job' \in [Sessions -> Jobs] /\ after' \in [Sessions -> SUBSET Sessions]
    BY <1>2, ServerFrame DEF TypeInv
  <2> QED
    BY <2>1, <2>2 DEF TypeOK
<1>3. ASSUME UNCHANGED vars PROVE TypeOK'
  BY <1>3 DEF TypeInv, TypeOK, ClientTypeOK, ServerTypeOK, ConnTypeOK, vars, wire, clientVars,
              serverVars, connVars, uploadVars, queueVars, threadVars, writerVars
<1> QED
  BY <1>1, <1>2, <1>3 DEF Next, Idle

----------------------------------------------------------------------------
(* Recipes.                                                                *)

(* The variables of session t that RecipeAt(t) speaks of.                  *)
RecipeView(t) == <<spc[t], key[t], recipeWriter[t], writing[t], reader[t]>>

(* A step of s has to be looked at for s only: no recipe is ever deleted.  *)
LEMMA RecipeKept ==
  ASSUME TypeInv, NEW s \in Sessions, RecipeAt(s)', DOMAIN recipes \subseteq DOMAIN recipes',
         \A t \in Sessions \ {s} : RecipeView(t)' = RecipeView(t)
  PROVE  RecipeInv'
<1>1. ASSUME NEW t \in Sessions \ {s} PROVE RecipeAt(t)'
  <2>1. RecipeAt(t)
    BY DEF TypeInv, RecipeInv
  <2>2. /\ spc'[t] = spc[t] /\ key'[t] = key[t] /\ recipeWriter'[t] = recipeWriter[t]
        /\ writing'[t] = writing[t] /\ reader'[t] = reader[t]
    BY DEF RecipeView
  <2> QED
    BY <2>1, <2>2 DEF RecipeAt, Uploading
<1> QED
  BY <1>1 DEF RecipeInv

(* The types the following proofs need.                                    *)
LEMMA RecipeTypes ==
  ASSUME TypeInv
  PROVE  /\ spc \in [Sessions -> ServerPC]
         /\ key \in [Sessions -> Key]
         /\ recipeWriter \in [Sessions -> {"none", "open", "run", "exit"}]
         /\ writing \in [Sessions -> Entries \cup {None}]
         /\ reader \in [Sessions -> Reader]
  BY DEF TypeInv, TypeOK, ConnTypeOK

LEMMA HandlerRecipe ==
  ASSUME TypeInv, NEW s \in Sessions, HandlerStep(s)
  PROVE  RecipeInv'
<1>0. RecipeAt(s) /\ UNCHANGED <<writing, recipes>>
  BY DEF TypeInv, RecipeInv, HandlerStep, writerVars
<1>1. CASE RunStep(s)
  <2>1. UNCHANGED <<reader, recipeWriter>>
    BY <1>1 DEF RunStep, uploadVars, threadVars
  <2>2. spc[s] \in {"accepted", "order"} /\ spc'[s] \in {"order", "unique", "exist", "closed"}
    BY <1>1, RecipeTypes DEF RunStep, Serve, RecvOrder, RecvQuit, Goto
  <2>3. \A t \in Sessions \ {s} : spc'[t] = spc[t] /\ key'[t] = key[t]
    BY <1>1, RecipeTypes DEF RunStep, Serve, RecvOrder, RecvQuit, Goto
  <2> QED
    BY <1>0, <2>1, <2>2, <2>3, RecipeKept DEF RecipeAt, RecipeView, Uploading
<1>2. CASE DownloadStep(s)
  <2>1. UNCHANGED <<key, recipeWriter>>
    BY <1>2 DEF DownloadStep, uploadVars, threadVars
  <2>2. \A t \in Sessions \ {s} : spc'[t] = spc[t] /\ reader'[t] = reader[t]
    BY <1>2, RecipeTypes DEF DownloadStep, CheckExist, OpenForRead, ReadRecipe, ReadChunk,
                             SendDownBody, SendFileEnd, Goto
  <2>3. ~ Uploading(s)
    BY <1>2 DEF DownloadStep, CheckExist, OpenForRead, ReadRecipe, ReadChunk, SendDownBody,
                SendFileEnd, Uploading
  <2>4. (spc'[s] \in {"recipe", "chunk"} /\ ~ reader'[s].eof)
           => RecipeName(key[s]) \in DOMAIN recipes
    <3>1. CASE CheckExist(s) \/ SendFileEnd(s)
      BY <3>1, RecipeTypes DEF CheckExist, SendFileEnd, Goto
    <3>2. CASE OpenForRead(s)
      BY ZenonT(60), <3>2, RecipeTypes DEF OpenForRead, Reader
    <3>3. CASE ReadRecipe(s)
      BY <1>0, <3>3 DEF ReadRecipe, RecipeBatch, RecipeAt
    <3>4. CASE ReadChunk(s)
      BY <1>0, <3>4, RecipeTypes DEF ReadChunk, RecipeAt, Reader
    <3>5. CASE SendDownBody(s)
      BY <1>0, <3>5, RecipeTypes DEF SendDownBody, RecipeAt
    <3> QED
      BY <1>2, <3>1, <3>2, <3>3, <3>4, <3>5 DEF DownloadStep
  <2> QED
    BY <1>0, <2>1, <2>2, <2>3, <2>4, RecipeKept DEF RecipeAt, RecipeView
<1>3. CASE UploadStep(s)
  <2>1. UNCHANGED <<key, reader>>
    BY <1>3 DEF UploadStep
  <2>2. CASE AdmitStep(s)
    <3>1. spc[s] \in {"unique", "add_file"}
      BY <2>2 DEF AdmitStep, CheckUnique, AddFile
    <3>2. \/ spc'[s] \in {"add_file", "order"} /\ recipeWriter' = recipeWriter
          \/ spc'[s] = "body" /\ recipeWriter' = [recipeWriter EXCEPT ![s] = "open"]
      BY <2>2, RecipeTypes DEF AdmitStep, CheckUnique, AddFile, Goto, threadVars
    <3>3. \A t \in Sessions \ {s} : spc'[t] = spc[t] /\ recipeWriter'[t] = recipeWriter[t]
      BY <2>2, RecipeTypes DEF AdmitStep, CheckUnique, AddFile, Goto, threadVars
    <3> QED
      BY <1>0, <2>1, <3>1, <3>2, <3>3, RecipeTypes, RecipeKept DEF RecipeAt, RecipeView, Uploading
  <2>3. ASSUME recipeWriter' = recipeWriter, Uploading(s), Uploading(s)',
               \A t \in Sessions \ {s} : spc'[t] = spc[t]
        PROVE  RecipeInv'
    BY <1>0, <2>1, <2>3, RecipeKept DEF RecipeAt, RecipeView, Uploading
  <2>4. CASE ReceiveStep(s)
    BY <2>3, <2>4, RecipeTypes DEF ReceiveStep, RecvBody, RecvFileEnd, Goto, Uploading, threadVars
  <2>5. CASE StoreStep(s)
    <3>1. recipeWriter' = recipeWriter
      BY <2>5 DEF StoreStep, threadVars
    <3>2. /\ spc[s] \in {"store", "entry"} /\ spc'[s] \in {"store", "entry"}
          /\ \A t \in Sessions \ {s} : spc'[t] = spc[t]
      BY <2>5, RecipeTypes DEF StoreStep, FlushContainer, StoreChunk, TakeDuplicate, FlushRecipe,
                               WriteEntry, AtChunk, HasChunk, Goto
    <3> QED
      BY <2>3, <3>1, <3>2 DEF Uploading
  <2>6. CASE QueryStep(s)
    BY <2>3, <2>6, RecipeTypes DEF QueryStep, BeginQuery, QueryChunk, SendReply, Goto, Uploading,
                                   threadVars
  <2>7. CASE InsertLastContainer(s) \/ InsertLastRecipe(s)
    BY <2>3, <2>7, RecipeTypes DEF InsertLastContainer, InsertLastRecipe, Goto, Uploading,
                                   threadVars
  <2>8. CASE Join(s)
    <3>1. spc'[s] = "order" /\ recipeWriter'[s] = "none" /\ recipeWriter[s] = "exit"
      BY <2>8, RecipeTypes DEF Join, Goto
    <3>2. \A t \in Sessions \ {s} : spc'[t] = spc[t] /\ recipeWriter'[t] = recipeWriter[t]
      BY <2>8, RecipeTypes DEF Join, Goto
    <3> QED
      BY <1>0, <2>1, <3>1, <3>2, RecipeKept DEF RecipeAt, RecipeView
  <2> QED
    BY <1>3, <2>2, <2>4, <2>5, <2>6, <2>7, <2>8 DEF UploadStep, FinishStep
<1> QED
  BY <1>1, <1>2, <1>3 DEF HandlerStep

LEMMA RecipeWriterRecipe ==
  ASSUME TypeInv, NEW s \in Sessions, RecipeWriterStep(s)
  PROVE  RecipeInv'
<1>0. RecipeAt(s) /\ UNCHANGED <<spc, key, reader>>
  BY DEF TypeInv, RecipeInv, RecipeWriterStep
<1>1. ASSUME NEW n, NEW r, PutRecipe(n, r)
      PROVE  DOMAIN recipes \subseteq DOMAIN recipes' /\ n \in DOMAIN recipes'
  BY <1>1 DEF PutRecipe
<1>2. CASE OpenRecipe(s)
  <2>1. DOMAIN recipes \subseteq DOMAIN recipes' /\ RecipeName(key[s]) \in DOMAIN recipes'
    BY <1>1, <1>2 DEF OpenRecipe
  <2>2. /\ recipeWriter[s] = "open" /\ recipeWriter'[s] = "run" /\ writing' = writing
        /\ \A t \in Sessions \ {s} : recipeWriter'[t] = recipeWriter[t]
    BY <1>2, RecipeTypes DEF OpenRecipe
  <2> QED
    BY <1>0, <2>1, <2>2, RecipeKept DEF RecipeAt, RecipeView, Uploading
<1>3. CASE PopRecipe(s)
  <2>1. /\ recipeWriter[s] = "run" /\ UNCHANGED <<recipeWriter, recipes>>
        /\ \A t \in Sessions \ {s} : writing'[t] = writing[t]
    BY <1>3, RecipeTypes DEF PopRecipe
  <2> QED
    BY <1>0, <2>1, RecipeKept DEF RecipeAt, RecipeView, Uploading
<1>4. CASE WriteRecipe(s)
  <2>1. DOMAIN recipes \subseteq DOMAIN recipes' /\ RecipeName(key[s]) \in DOMAIN recipes'
    BY <1>1, <1>4 DEF WriteRecipe
  <2>2. /\ recipeWriter' = recipeWriter /\ writing'[s] = None
        /\ \A t \in Sessions \ {s} : writing'[t] = writing[t]
    BY <1>4, RecipeTypes DEF WriteRecipe
  <2> QED
    BY <1>0, <2>1, <2>2, RecipeKept DEF RecipeAt, RecipeView, Uploading
<1>5. CASE EndRecipeWriter(s)
  <2>1. DOMAIN recipes \subseteq DOMAIN recipes' /\ RecipeName(key[s]) \in DOMAIN recipes'
    BY <1>1, <1>5 DEF EndRecipeWriter
  <2>2. /\ recipeWriter[s] = "run" /\ writing[s] = None /\ writing' = writing
        /\ \A t \in Sessions \ {s} : recipeWriter'[t] = recipeWriter[t]
    BY <1>5, RecipeTypes DEF EndRecipeWriter
  <2> QED
    BY <1>0, <2>1, <2>2, RecipeKept DEF RecipeAt, RecipeView, Uploading
<1> QED
  BY <1>2, <1>3, <1>4, <1>5 DEF RecipeWriterStep

LEMMA NextRecipe ==
  ASSUME TypeInv, [Next]_vars
  PROVE  RecipeInv'
<1>1. ASSUME UNCHANGED <<spc, key, recipeWriter, writing, reader, recipes>> PROVE RecipeInv'
  BY <1>1 DEF TypeInv, RecipeInv, RecipeAt, Uploading
<1>2. ASSUME NEW s \in Sessions, ClientSide(s) PROVE RecipeInv'
  BY <1>1, <1>2 DEF ClientSide, connVars, uploadVars, threadVars, writerVars
<1>3. ASSUME NEW s \in Sessions, DataWriterStep(s) PROVE RecipeInv'
  BY <1>1, <1>3 DEF DataWriterStep
<1>4. ASSUME UNCHANGED vars PROVE RecipeInv'
  BY <1>1, <1>4 DEF vars, connVars, uploadVars, threadVars, writerVars
<1> QED
  BY <1>2, <1>3, <1>4, HandlerRecipe, RecipeWriterRecipe DEF Next, ServerSide, Idle

LEMMA TypeInvariant == Spec => []TypeInv
<1>1. TypeInv /\ [Next]_vars => TypeInv'
  BY NextTyped, NextRecipe DEF TypeInv
<1> QED
  BY <1>1, InitTypeInv, PTL DEF Spec

(* Every variable keeps a value of its type, whatever the sessions do: no  *)
(* handler reads a recipe that is not there, appends an unset address to   *)
(* the queue of duplicates or stores anything but bytes.                   *)
THEOREM TypeCorrect == Spec => []TypeOK
<1>1. TypeInv => TypeOK
  BY DEF TypeInv
<1> QED
  BY <1>1, TypeInvariant, PTL

HIDE DEF JobsAssumption, TailsAssumption, BatchSizeAssumption, JunkAssumption,
         NoAddrAssumption, NoneAssumption, ContainerSlotsAssumption

----------------------------------------------------------------------------
(* The conversation of session s, phase by phase: where both sides stand   *)
(* and what is on its way between them.                                    *)

Silent(s) == toServer[s] = << >> /\ toClient[s] = << >>

Told(s, ms) == toServer[s] = ms /\ toClient[s] = << >>
Answered(s, m) == toServer[s] = << >> /\ toClient[s] = <<m>>

(* The data d of a body has the chunks that the last reply asked for.      *)
Answers(s, d) ==
  \A i \in DOMAIN hashList[s] : i \in DOMAIN flags[s] /\ flags[s][i] = 1 =>
    i \in DOMAIN d /\ d[i] = hashList[s][i]

(* After the body of an empty batch the client has sent FILEEND and QUIT.  *)
AfterBody(s) == cpc[s] = IF batch[s] = << >> THEN "quit_rep" ELSE "body_rep"
End(s) == IF batch[s] = << >> THEN <<FileEnd, Quit>> ELSE << >>
BodyAndEnd(s, d) == LET m == Body(batch[s], d)
                    IN IF batch[s] = << >> THEN <<m, FileEnd, Quit>> ELSE <<m>>

Starting(s) ==
  \/ cpc[s] = "start" /\ spc[s] = "accepted" /\ Silent(s)
  \/ \E o \in {"UPLOAD", "DOWNLOAD"} :
       /\ cpc[s] = IF o = "UPLOAD" THEN "upload_rep" ELSE "download_rep"
       /\ \/ spc[s] = "accepted" /\ Told(s, <<Login(job[s].id), Order(o, job[s].name)>>)
          \/ spc[s] = "order" /\ Told(s, <<Order(o, job[s].name)>>)
  \/ cpc[s] = "quit_rep" /\ spc[s] = "accepted" /\ Told(s, <<Login(job[s].id), Quit>>)

Admitting(s) ==
  /\ cpc[s] = "upload_rep"
  /\ \/ spc[s] = "unique" /\ Silent(s)
     \/ spc[s] = "order" /\ Answered(s, Rep("UPLOADREP", "DUPLICATE"))
     \/ /\ spc[s] \in {"add_file", "body"} /\ Answered(s, Rep("UPLOADREP", "UNIQUE"))
        /\ hashList[s] = << >>

(* A body is on its way ...                                                *)
BodySent(s) ==
  /\ AfterBody(s) /\ spc[s] \in {"add_file", "body"}
  /\ Arrived(toServer, s, "UPLOADBODY")
  /\ LET d == Head(toServer[s]).data
     IN Told(s, BodyAndEnd(s, d)) /\ Answers(s, d)

(* ... its chunks are stored ...                                           *)
Storing(s) ==
  /\ AfterBody(s) /\ spc[s] \in {"store", "entry"} /\ Told(s, End(s))
  /\ inMsg[s].query = batch[s] /\ Answers(s, inMsg[s].data)

(* ... its query is looked up ...                                          *)
Querying(s) ==
  /\ AfterBody(s) /\ spc[s] = "query" /\ Told(s, End(s)) /\ hashList[s] = batch[s]

(* ... and answered, unless it was empty.                                  *)
Replied(s) ==
  /\ spc[s] = "body" /\ hashList[s] = batch[s]
  /\ \/ cpc[s] = "body_rep" /\ Answered(s, BodyRep(flags[s]))
     \/ cpc[s] = "quit_rep" /\ Told(s, <<FileEnd, Quit>>) /\ batch[s] = << >>

Ending(s) ==
  \/ /\ cpc[s] = "quit_rep" /\ Told(s, <<Quit>>)
     /\ spc[s] \in {"last_container", "last_recipe", "join", "order"}
  \/ cpc[s] = "quit_rep" /\ spc[s] = "closed" /\ Answered(s, QuitRep)
  \/ cpc[s] = "closed" /\ spc[s] = "closed" /\ Silent(s)

(* A download is a stream: FILEEND is the last thing the handler sends.    *)
StreamMsg(s, k, m) ==
  /\ m.type \in {"DOWNLOADREP", "DOWNLOADBODY", "FILEEND"}
  /\ m.type = "FILEEND" <=> spc[s] = "order" /\ k = Len(toClient[s])
  /\ m.type = "DOWNLOADREP" <=> cpc[s] = "download_rep" /\ k = 1
  /\ m.type = "DOWNLOADREP" => m.status = "EXIST"

Streaming(s) ==
  /\ cpc[s] \in {"download_rep", "download"} /\ toServer[s] = << >>
  /\ spc[s] \in {"open", "recipe", "chunk", "order"}
  /\ cpc[s] = "download_rep" => toClient[s] # << >>
  /\ spc[s] = "order" => toClient[s] # << >>
  /\ \A k \in DOMAIN toClient[s] : StreamMsg(s, k, toClient[s][k])

Downloading(s) ==
  \/ cpc[s] = "download_rep" /\ spc[s] = "exist" /\ Silent(s)
  \/ /\ cpc[s] = "download_rep" /\ spc[s] = "order"
     /\ Answered(s, Rep("DOWNLOADREP", "NOTEXIST"))
  \/ Streaming(s)

PhaseAt(s) == \/ Starting(s) \/ Admitting(s) \/ BodySent(s) \/ Storing(s) \/ Querying(s)
              \/ Replied(s) \/ Ending(s) \/ Downloading(s)

(* The reply has one flag per hash looked up so far; outside the loop of   *)
(* receive_file there is no query.                                         *)
QueryAt(s) ==
  /\ Len(flags[s]) = IF spc[s] = "query" THEN idx[s] - 1 ELSE Len(hashList[s])
  /\ spc[s] \in {"query", "store"} => idx[s] <= Len(hashList[s]) + 1
  /\ spc[s] = "entry" => idx[s] <= Len(hashList[s])
  /\ spc[s] \notin {"body", "store", "entry", "query"} => hashList[s] = << >>

LockAt(s) == PhaseAt(s) /\ QueryAt(s)

LockInv == \A s \in Sessions : LockAt(s)

----------------------------------------------------------------------------
(* Short sequences, and what a step does to the channels of its session.   *)

LEMMA ShortSeqs ==
  /\ \A a : <<a>> # << >> /\ Head(<<a>>) = a /\ Tail(<<a>>) = << >>
  /\ \A a, b : <<a, b>> # << >> /\ Head(<<a, b>>) = a /\ Tail(<<a, b>>) = <<b>>
  /\ \A a, b, c : /\ <<a, b, c>> # << >> /\ Head(<<a, b, c>>) = a
                  /\ Tail(<<a, b, c>>) = <<b, c>>
  OBVIOUS

LEMMA SendToSilent ==
  ASSUME NEW T, NEW chan \in [Sessions -> Seq(T)], NEW s \in Sessions, NEW ms \in Seq(T),
         chan[s] = << >>
  PROVE  send_data(chan, s, ms)[s] = ms
<1>1. send_data(chan, s, ms)[s] = << >> \o ms
  BY DEF send_data
<1> QED
  BY <1>1

LEMMA ReceiveOne ==
  ASSUME NEW T, NEW chan \in [Sessions -> Seq(T)], NEW s \in Sessions
  PROVE  receive_data(chan, s)[s] = Tail(chan[s])
  BY DEF receive_data

LEMMA BodyFirst ==
  ASSUME NEW s, NEW d
  PROVE  /\ BodyAndEnd(s, d) # << >>
         /\ Head(BodyAndEnd(s, d)) = Body(batch[s], d)
         /\ Tail(BodyAndEnd(s, d)) = End(s)
  BY ShortSeqs DEF BodyAndEnd, End

LEMMA MsgTypes ==
  /\ \A i : Login(i).type = "LOGIN" /\ Login(i).id = i
  /\ \A o, n : Order(o, n).type = o /\ Order(o, n).name = n
  /\ \A o, st : Rep(o, st).type = o /\ Rep(o, st).status = st
  /\ \A q, d : Body(q, d).type = "UPLOADBODY" /\ Body(q, d).query = q /\ Body(q, d).data = d
  /\ \A fl : BodyRep(fl).type = "UPLOADBODYREP" /\ BodyRep(fl).flags = fl
  /\ \A d : DownBody(d).type = "DOWNLOADBODY" /\ DownBody(d).data = d
  /\ FileEnd.type = "FILEEND" /\ Quit.type = "QUIT" /\ QuitRep.type = "QUITREP"
  BY DEF Login, Order, Rep, Body, BodyRep, DownBody, FileEnd, Quit, QuitRep

(* The type of the first message on its way to the server.                 *)
LEMMA ToldFirst ==
  ASSUME NEW s \in Sessions
  PROVE  /\ \A m : Told(s, <<m>>) => ~ Silent(s) /\ Head(toServer[s]) = m /\ Tail(toServer[s]) = << >>
         /\ \A m, n : Told(s, <<m, n>>) =>
              ~ Silent(s) /\ Head(toServer[s]) = m /\ Tail(toServer[s]) = <<n>>
         /\ \A d : Told(s, BodyAndEnd(s, d)) =>
              /\ ~ Silent(s) /\ Head(toServer[s]) = Body(batch[s], d)
              /\ Tail(toServer[s]) = End(s)
         /\ \A m : Answered(s, m) => Head(toClient[s]) = m /\ Tail(toClient[s]) = << >>
<1>1. ASSUME NEW m, Told(s, <<m>>)
      PROVE  ~ Silent(s) /\ Head(toServer[s]) = m /\ Tail(toServer[s]) = << >>
  BY <1>1, ShortSeqs DEF Told, Silent
<1>2. ASSUME NEW m, NEW n, Told(s, <<m, n>>)
      PROVE  ~ Silent(s) /\ Head(toServer[s]) = m /\ Tail(toServer[s]) = <<n>>
  BY <1>2, ShortSeqs DEF Told, Silent
<1>3. ASSUME NEW d, Told(s, BodyAndEnd(s, d))
      PROVE  /\ ~ Silent(s) /\ Head(toServer[s]) = Body(batch[s], d)
             /\ Tail(toServer[s]) = End(s)
  BY <1>3, BodyFirst DEF Told, Silent
<1>4. ASSUME NEW m, Answered(s, m)
      PROVE  Head(toClient[s]) = m /\ Tail(toClient[s]) = << >>
  BY <1>4, ShortSeqs DEF Answered
<1> QED
  BY <1>1, <1>2, <1>3, <1>4

----------------------------------------------------------------------------
(* Which phase it is, from where one side stands and what it has received. *)

LEMMA ServerPhase ==
  ASSUME NEW s \in Sessions, LockAt(s)
  PROVE  /\ (spc[s] = "accepted" \/ (spc[s] = "order" /\ Arrived(toServer, s, "UPLOAD"))
             \/ (spc[s] = "order" /\ Arrived(toServer, s, "DOWNLOAD"))) => Starting(s)
         /\ spc[s] = "order" /\ Arrived(toServer, s, "QUIT") => Ending(s)
         /\ spc[s] = "unique" => Admitting(s)
         /\ spc[s] = "add_file" => Admitting(s) \/ BodySent(s)
         /\ spc[s] = "body" /\ Arrived(toServer, s, "UPLOADBODY") => BodySent(s)
         /\ spc[s] = "body" /\ Arrived(toServer, s, "FILEEND") => Replied(s)
         /\ spc[s] \in {"store", "entry"} => Storing(s)
         /\ spc[s] = "query" => Querying(s)
         /\ spc[s] \in {"last_container", "last_recipe", "join"} => Ending(s)
         /\ spc[s] \in {"exist", "open", "recipe", "chunk"} => Downloading(s)
<1>1. LockAt(s) => PhaseAt(s)
  BY DEF LockAt
<1>2. Silent(s) => \A ty : ~ Arrived(toServer, s, ty)
  BY DEF Silent, Arrived
<1>3. \A m, ty : Answered(s, m) => ~ Arrived(toServer, s, ty)
  BY DEF Answered, Arrived
<1>4. ASSUME NEW ty, Arrived(toServer, s, ty) PROVE Head(toServer[s]).type = ty
  BY <1>4 DEF Arrived
<1>5. ASSUME Downloading(s), NEW ty PROVE ~ Arrived(toServer, s, ty)
  BY <1>2, <1>3, <1>5 DEF Downloading, Streaming, Arrived
<1> QED
  BY <1>1, <1>2, <1>3, <1>4, <1>5, ToldFirst, MsgTypes
     DEF PhaseAt, Starting, Admitting, BodySent, Storing, Querying, Replied, Ending,
         Downloading, Streaming

LEMMA ClientPhase ==
  ASSUME NEW s \in Sessions, LockAt(s)
  PROVE  /\ cpc[s] = "start" => Starting(s)
         /\ cpc[s] = "upload_rep" /\ Arrived(toClient, s, "UPLOADREP") => Admitting(s)
         /\ cpc[s] = "body_rep" /\ Arrived(toClient, s, "UPLOADBODYREP") => Replied(s)
         /\ cpc[s] = "download_rep" /\ Arrived(toClient, s, "DOWNLOADREP") => Downloading(s)
         /\ cpc[s] = "download" => Downloading(s)
         /\ cpc[s] = "quit_rep" /\ Arrived(toClient, s, "QUITREP") => Ending(s)
<1>1. Silent(s) => \A ty : ~ Arrived(toClient, s, ty)
  BY DEF Silent, Arrived
<1>2. \A ms, ty : Told(s, ms) => ~ Arrived(toClient, s, ty)
  BY DEF Told, Arrived
<1>3. ASSUME NEW ty, Arrived(toClient, s, ty) PROVE Head(toClient[s]).type = ty
  BY <1>3 DEF Arrived
<1> QED
  BY <1>1, <1>2, <1>3, ToldFirst, MsgTypes
     DEF LockAt, PhaseAt, Starting, Admitting, BodySent, Storing, Querying, Replied, Ending,
         Downloading, Streaming, AfterBody

LEMMA LockTypes ==
  ASSUME TypeOK
  PROVE  /\ job \in [Sessions -> Jobs]
         /\ toServer \in [Sessions -> Seq(ServerMsg)] /\ toClient \in [Sessions -> Seq(ClientMsg)]
         /\ cpc \in [Sessions -> ClientPC] /\ batch \in [Sessions -> Seq(Chunks)]
         /\ sent \in [Sessions -> Nat]
         /\ spc \in [Sessions -> ServerPC] /\ hashList \in [Sessions -> Seq(Chunks)]
         /\ flags \in [Sessions -> Seq({0, 1})] /\ idx \in [Sessions -> Nat \ {0}]
         /\ inMsg \in [Sessions -> [query : Seq(Chunks), data : Seq(Bytes)]]
  BY DEF TypeOK, ClientTypeOK, ConnTypeOK

LEMMA StreamTail ==
  ASSUME NEW q \in Seq(ClientMsg), q # << >>
  PROVE  /\ Tail(q) \in Seq(ClientMsg) /\ Len(Tail(q)) = Len(q) - 1 /\ Head(q) = q[1]
         /\ \A k \in DOMAIN Tail(q) : k + 1 \in DOMAIN q /\ Tail(q)[k] = q[k + 1]
         /\ Len(q) = 1 => Tail(q) = << >>
         /\ Len(q) > 1 => Tail(q) # << >>
         /\ 1 \in DOMAIN q /\ Len(q) \in DOMAIN q
<1>1. /\ Tail(q) \in Seq(ClientMsg) /\ Len(Tail(q)) = Len(q) - 1 /\ Head(q) = q[1]
      /\ Len(q) \in Nat \ {0} /\ DOMAIN q = 1 .. Len(q)
  OBVIOUS
<1>2. DOMAIN Tail(q) = 1 .. Len(q) - 1
  BY <1>1
<1>3. \A k \in 1 .. Len(q) - 1 : k + 1 \in DOMAIN q /\ Tail(q)[k] = q[k + 1]
  BY <1>1
<1>4. \A p \in Seq(ClientMsg) : p = << >> <=> Len(p) = 0
  OBVIOUS
<1>5. Len(q) = 1 => Len(Tail(q)) = 0
  BY <1>1
<1>6. Len(q) > 1 => Len(Tail(q)) # 0
  BY <1>1
<1>7. Tail(q) = << >> <=> Len(Tail(q)) = 0
  BY <1>1, <1>4, Zenon
<1>8. (Len(q) = 1 => Tail(q) = << >>) /\ (Len(q) > 1 => Tail(q) # << >>)
  BY <1>5, <1>6, <1>7, Zenon
<1> QED
  BY <1>1, <1>2, <1>3, <1>8

(* The client takes the first message of a stream, which is not FILEEND.   *)
LEMMA StreamGoesOn ==
  ASSUME TypeOK, NEW s \in Sessions, Streaming(s), toClient[s] # << >>,
         Head(toClient[s]).type # "FILEEND", toServer' = toServer, spc' = spc,
         toClient'[s] = Tail(toClient[s]), cpc'[s] = "download"
  PROVE  Streaming(s)'
<1> DEFINE q == toClient[s]
           p == toClient'[s]
<1>1. q \in Seq(ClientMsg) /\ q # << >>
  BY LockTypes
<1>2. /\ p \in Seq(ClientMsg) /\ Len(p) = Len(q) - 1 /\ Head(q) = q[1]
      /\ \A k \in DOMAIN p : k + 1 \in DOMAIN q /\ p[k] = q[k + 1]
      /\ Len(q) > 1 => p # << >>
      /\ 1 \in DOMAIN q
  BY <1>1, StreamTail
<1>q. q = toClient[s]
  OBVIOUS
<1>p. p = toClient'[s]
  OBVIOUS
<1> HIDE DEF p, q
<1>3. Len(q) \in Nat \ {0} /\ Len(p) \in Nat /\ DOMAIN p = 1 .. Len(p)
  BY <1>1, <1>2
<1>4. spc[s] = "order" => p # << >>
  <2>1. StreamMsg(s, 1, q[1])
    BY <1>2, <1>q DEF Streaming
  <2>2. spc[s] = "order" => Len(q) # 1
    BY <1>2, <1>q, <2>1 DEF StreamMsg
  <2> QED
    BY <1>2, <1>3, <2>2
<1>5. ASSUME NEW k \in DOMAIN p PROVE StreamMsg(s, k, toClient[s][k])'
  <2>1. StreamMsg(s, k + 1, q[k + 1])
    BY <1>2, <1>q DEF Streaming
  <2>2. k + 1 = Len(q) <=> k = Len(p)
    BY <1>2, <1>3
  <2>3. k + 1 # 1
    BY <1>3
  <2> QED
    BY <1>2, <1>p, <1>q, <2>1, <2>2, <2>3 DEF StreamMsg
<1> QED
  BY <1>4, <1>5, <1>p DEF Streaming

LEMMA SendQuitEnds ==
  ASSUME TypeOK, NEW s \in Sessions, SendQuit(s), toServer[s] = << >>,
         Tail(toClient[s]) = << >>, spc'[s] = "order"
  PROVE  PhaseAt(s)'
<1>1. toServer'[s] = <<Quit>>
  <2>1. <<Quit>> \in Seq(ServerMsg)
    BY DEF Quit, ServerMsg
  <2> QED
    BY <2>1, LockTypes, SendToSilent DEF SendQuit
<1>2. toClient'[s] = << >> /\ cpc'[s] = "quit_rep"
  BY LockTypes, ReceiveOne DEF SendQuit
<1> QED
  BY <1>1, <1>2 DEF PhaseAt, Ending, Told

LEMMA SendBodyPhase ==
  ASSUME TypeOK, NEW s \in Sessions, NEW d \in Seq(Bytes), SendBody(s, d),
         toServer[s] = << >>, Tail(toClient[s]) = << >>,
         spc[s] \in {"add_file", "body"}, UNCHANGED <<spc, hashList, flags>>, Answers(s, d)
  PROVE  BodySent(s)'
<1> DEFINE b == NextBatch(s)
<1>0. b \in Seq(Chunks)
  BY NextBatchTyped
<1> HIDE DEF b
<1>1. batch'[s] = b /\ cpc'[s] = (IF b = << >> THEN "quit_rep" ELSE "body_rep")
  BY LockTypes DEF SendBody, b
<1>2. toClient'[s] = << >>
  BY LockTypes, ReceiveOne DEF SendBody
<1>3. toServer'[s] = IF b = << >> THEN <<Body(b, d), FileEnd, Quit>> ELSE <<Body(b, d)>>
  <2>1. Body(b, d) \in ServerMsg /\ FileEnd \in ServerMsg /\ Quit \in ServerMsg
    BY <1>0 DEF Body, FileEnd, Quit, ServerMsg
  <2>2. <<Body(b, d), FileEnd, Quit>> \in Seq(ServerMsg) /\ <<Body(b, d)>> \in Seq(ServerMsg)
    BY <2>1
  <2> QED
    BY <2>2, LockTypes, SendToSilent DEF SendBody, b
<1>4. toServer'[s] = BodyAndEnd(s, d)'
  BY <1>1, <1>3 DEF BodyAndEnd
<1>5. toServer'[s] # << >> /\ Head(toServer'[s]) = Body(b, d)
  BY <1>3, ShortSeqs
<1>6. Arrived(toServer', s, "UPLOADBODY") /\ Head(toServer'[s]).data = d
  BY <1>5, MsgTypes DEF Arrived
<1>7. Answers(s, d)'
  BY DEF Answers
<1> QED
  BY <1>1, <1>2, <1>4, <1>6, <1>7 DEF BodySent, AfterBody, Told

----------------------------------------------------------------------------
(* A step of the client of s.                                              *)

(* upload_file answers the reply with the chunks that it asks for.         *)
LEMMA UploadSends ==
  ASSUME TypeOK, NEW s \in Sessions, LockAt(s), UploadUnique(s) \/ UploadBatch(s),
         UNCHANGED <<spc, hashList, flags>>
  PROVE  /\ BodySent(s)' /\ \E d \in Seq(Bytes) : SendBody(s, d)
         /\ toServer[s] = << >> /\ spc[s] \in {"add_file", "body"}
         /\ hashList[s] = batch[s] \/ (cpc[s] = "upload_rep" /\ hashList[s] = << >>)
<1>1. CASE UploadUnique(s)
  <2>1. Admitting(s) /\ Head(toClient[s]).status # "DUPLICATE" /\ toClient[s] # << >>
    BY <1>1, ClientPhase DEF UploadUnique, Arrived
  <2>2. /\ spc[s] \in {"add_file", "body"} /\ hashList[s] = << >>
        /\ toServer[s] = << >> /\ Tail(toClient[s]) = << >>
    BY <2>1, ToldFirst, MsgTypes DEF Admitting, Silent, Answered
  <2>3. Answers(s, << >>) /\ << >> \in Seq(Bytes)
    BY <2>2 DEF Answers
  <2>4. BodySent(s)'
    BY <1>1, <2>2, <2>3, SendBodyPhase DEF UploadUnique
  <2> QED
    BY <1>1, <2>2, <2>3, <2>4 DEF UploadUnique
<1>2. CASE UploadBatch(s)
  <2>1. Replied(s) /\ cpc[s] = "body_rep" /\ toClient[s] # << >>
    BY <1>2, ClientPhase DEF UploadBatch, Arrived
  <2>2. /\ spc[s] = "body" /\ hashList[s] = batch[s] /\ Answered(s, BodyRep(flags[s]))
    BY <2>1 DEF Replied
  <2>3. /\ toServer[s] = << >> /\ Tail(toClient[s]) = << >>
        /\ Head(toClient[s]).flags = flags[s]
    BY <2>2, ToldFirst, MsgTypes DEF Answered
  <2> DEFINE d == UniqueChunks(s, flags[s])
  <2>4. batch[s] \in Seq(Chunks) /\ flags[s] \in Seq({0, 1})
    BY LockTypes
  <2>5. DOMAIN batch[s] = 1 .. Len(batch[s]) /\ Len(batch[s]) \in Nat
    BY <2>4
  <2>6. d \in Seq(Bytes)
    BY <2>4, <2>5 DEF UniqueChunks, Bytes
  <2>7. Answers(s, d)
    BY <2>2, <2>5 DEF Answers, UniqueChunks
  <2> HIDE DEF d
  <2>8. SendBody(s, d)
    BY <1>2, <2>3 DEF UploadBatch, d
  <2>9. BodySent(s)'
    BY <2>2, <2>3, <2>6, <2>7, <2>8, SendBodyPhase
  <2> QED
    BY <2>2, <2>3, <2>6, <2>8, <2>9
<1> QED
  BY <1>1, <1>2

LEMMA ClientLock ==
  ASSUME TypeOK, NEW s \in Sessions, ClientSide(s), LockAt(s)
  PROVE  LockAt(s)'
<1>0. UNCHANGED <<job, spc, hashList, flags, idx>>
  BY DEF ClientSide, connVars, uploadVars
<1>1. QueryAt(s)'
  BY <1>0 DEF LockAt, QueryAt
<1> SUFFICES PhaseAt(s)'
  BY <1>1 DEF LockAt
<1>2. CASE Connect(s)
  <2>1. spc[s] = "accepted" /\ Silent(s)
    BY <1>2, ClientPhase DEF Connect, Starting
  <2>2. toClient'[s] = << >> /\ spc'[s] = "accepted" /\ job'[s] = job[s]
    BY <1>0, <1>2, <2>1 DEF Connect, Silent
  <2>3. job[s] \in Job
    BY LockTypes, JobsAssumption DEF JobsAssumption
  <2> DEFINE l == Login(job[s].id)
  <2>4. /\ l \in ServerMsg /\ Quit \in ServerMsg
        /\ \A o \in {"UPLOAD", "DOWNLOAD"} : Order(o, job[s].name) \in ServerMsg
    BY <2>3 DEF Login, Order, Quit, Job, ServerMsg
  <2> HIDE DEF l
  <2>5. ASSUME NEW m \in ServerMsg, toServer' = send_data(toServer, s, <<l, m>>)
        PROVE  toServer'[s] = <<l, m>>
    <3>1. <<l, m>> \in Seq(ServerMsg)
      BY <2>4
    <3> QED
      BY <2>1, <2>2, <2>5, <3>1, LockTypes, SendToSilent DEF Silent
  <2>6. CASE job[s].op = "u"
    <3>1. /\ toServer' = send_data(toServer, s, <<l, Order("UPLOAD", job[s].name)>>)
          /\ cpc'[s] = "upload_rep"
      BY <1>2, <2>6, LockTypes DEF Connect, l
    <3> QED
      BY <2>2, <2>4, <2>5, <3>1 DEF PhaseAt, Starting, Told, l
  <2>7. CASE job[s].op = "d"
    <3>1. /\ toServer' = send_data(toServer, s, <<l, Order("DOWNLOAD", job[s].name)>>)
          /\ cpc'[s] = "download_rep"
      BY <1>2, <2>7, LockTypes DEF Connect, l
    <3> QED
      BY <2>2, <2>4, <2>5, <3>1 DEF PhaseAt, Starting, Told, l
  <2>8. CASE job[s].op = "x"
    <3>1. /\ toServer' = send_data(toServer, s, <<l, Quit>>)
          /\ cpc'[s] = "quit_rep"
      BY <1>2, <2>8, LockTypes DEF Connect, l
    <3> QED
      BY <2>2, <2>4, <2>5, <3>1 DEF PhaseAt, Starting, Told, l
  <2> QED
    BY <2>3, <2>6, <2>7, <2>8 DEF Job
<1>3. CASE UploadDuplicate(s)
  <2>1. Admitting(s) /\ Head(toClient[s]).status = "DUPLICATE" /\ toClient[s] # << >>
    BY <1>3, ClientPhase DEF UploadDuplicate, Arrived
  <2>2. spc[s] = "order" /\ toServer[s] = << >> /\ Tail(toClient[s]) = << >>
    BY <2>1, ToldFirst, MsgTypes DEF Admitting, Silent, Answered
  <2> QED
    BY <1>0, <1>3, <2>2, SendQuitEnds DEF UploadDuplicate
<1>4. CASE UploadUnique(s) \/ UploadBatch(s)
  BY <1>0, <1>4, UploadSends DEF PhaseAt
<1>5. CASE DownloadRefused(s)
  <2>1. /\ Downloading(s) /\ cpc[s] = "download_rep" /\ toClient[s] # << >>
        /\ Head(toClient[s]).status = "NOTEXIST" /\ Head(toClient[s]).type = "DOWNLOADREP"
    BY <1>5, ClientPhase DEF DownloadRefused, Arrived
  <2>2. Head(toClient[s]) = toClient[s][1] /\ 1 \in DOMAIN toClient[s]
    BY <2>1, LockTypes, StreamTail
  <2>3. spc[s] = "order" /\ Answered(s, Rep("DOWNLOADREP", "NOTEXIST"))
    BY <2>1, <2>2 DEF Downloading, Streaming, StreamMsg, Silent
  <2>4. toServer[s] = << >> /\ Tail(toClient[s]) = << >>
    BY <2>3, ToldFirst DEF Answered
  <2> QED
    BY <1>0, <1>5, <2>3, <2>4, SendQuitEnds DEF DownloadRefused
<1>6. CASE DownloadGranted(s)
  <2>1. /\ Downloading(s) /\ cpc[s] = "download_rep" /\ toClient[s] # << >>
        /\ Head(toClient[s]).status # "NOTEXIST" /\ Head(toClient[s]).type = "DOWNLOADREP"
    BY <1>6, ClientPhase DEF DownloadGranted, Arrived
  <2>2. Answered(s, Rep("DOWNLOADREP", "NOTEXIST")) => FALSE
    BY <2>1, ToldFirst, MsgTypes
  <2>3. /\ toClient'[s] = Tail(toClient[s]) /\ toServer' = toServer
        /\ cpc'[s] = "download" /\ spc' = spc
    BY <1>0, <1>6, LockTypes, ReceiveOne DEF DownloadGranted
  <2> QED
    BY <2>1, <2>2, <2>3, MsgTypes, StreamGoesOn DEF PhaseAt, Downloading, Silent
<1>7. CASE DownloadBody(s)
  <2>1. /\ Downloading(s) /\ cpc[s] = "download" /\ toClient[s] # << >>
        /\ Head(toClient[s]).type = "DOWNLOADBODY"
    BY <1>7, ClientPhase DEF DownloadBody, Arrived
  <2>2. /\ toClient'[s] = Tail(toClient[s]) /\ toServer' = toServer
        /\ cpc'[s] = "download" /\ spc' = spc
    BY <1>0, <1>7, <2>1, LockTypes, ReceiveOne DEF DownloadBody
  <2> QED
    BY <2>1, <2>2, StreamGoesOn DEF PhaseAt, Downloading
<1>8. CASE DownloadEnd(s)
  <2>1. /\ Downloading(s) /\ cpc[s] = "download" /\ toClient[s] # << >>
        /\ Head(toClient[s]).type = "FILEEND"
    BY <1>8, ClientPhase DEF DownloadEnd, Arrived
  <2>2. spc[s] = "order" /\ toServer[s] = << >> /\ Tail(toClient[s]) = << >>
    BY <2>1, LockTypes, StreamTail DEF Downloading, Streaming, StreamMsg
  <2> QED
    BY <1>0, <1>8, <2>2, SendQuitEnds DEF DownloadEnd
<1>9. CASE Close(s)
  <2>1. Ending(s) /\ cpc[s] = "quit_rep" /\ toClient[s] # << >>
    BY <1>9, ClientPhase DEF Close, Arrived
  <2>2. spc[s] = "closed" /\ toServer[s] = << >> /\ Tail(toClient[s]) = << >>
    BY <2>1, ToldFirst DEF Ending, Told, Answered
  <2>3. toServer' = toServer /\ toClient'[s] = Tail(toClient[s]) /\ cpc'[s] = "closed"
    BY <1>9, LockTypes, ReceiveOne DEF Close
  <2> QED
    BY <1>0, <2>2, <2>3 DEF PhaseAt, Ending, Silent
<1> QED
  BY <1>2, <1>3, <1>4, <1>5, <1>6, <1>7, <1>8, <1>9 DEF ClientSide, ClientStep

----------------------------------------------------------------------------
(* A step of the handler of s.                                             *)

LEMMA ReplyToSilent ==
  ASSUME TypeOK, NEW s \in Sessions, NEW m \in ClientMsg, Reply(s, m), toClient[s] = << >>
  PROVE  toClient'[s] = <<m>>
<1>1. <<m>> \in Seq(ClientMsg)
  OBVIOUS
<1> QED
  BY <1>1, LockTypes, SendToSilent DEF Reply

LEMMA ClientMsgs ==
  /\ \A o \in {"UPLOADREP", "DOWNLOADREP"} :
       \A st \in {"DUPLICATE", "UNIQUE", "EXIST", "NOTEXIST"} : Rep(o, st) \in ClientMsg
  /\ \A fl \in Seq({0, 1}) : BodyRep(fl) \in ClientMsg
  /\ \A d \in Seq(Bytes) : DownBody(d) \in ClientMsg
  /\ FileEnd \in ClientMsg /\ QuitRep \in ClientMsg
  BY DEF Rep, BodyRep, DownBody, FileEnd, QuitRep, ClientMsg

LEMMA RunLock ==
  ASSUME TypeOK, NEW s \in Sessions, RunStep(s), UNCHANGED <<job, cpc, batch>>, LockAt(s)
  PROVE  LockAt(s)'
<1>0. /\ UNCHANGED <<hashList, flags, idx>> /\ toServer'[s] = Tail(toServer[s])
  BY LockTypes, ReceiveOne DEF RunStep, uploadVars
<1>1. /\ spc[s] \in {"accepted", "order"} /\ spc'[s] \in {"order", "unique", "exist", "closed"}
  BY LockTypes DEF RunStep, Serve, RecvOrder, RecvQuit, Goto
<1>2. QueryAt(s)'
  BY <1>0, <1>1 DEF LockAt, QueryAt
<1> SUFFICES PhaseAt(s)'
  BY <1>2 DEF LockAt
<1>3. CASE Serve(s)
  <2>1. Starting(s) /\ spc[s] = "accepted" /\ toServer[s] # << >>
    BY <1>3, ServerPhase DEF Serve, Arrived
  <2>2. spc'[s] = "order" /\ toClient' = toClient
    BY <1>3, LockTypes DEF Serve, Goto
  <2>3. PICK m \in {Quit, Order("UPLOAD", job[s].name), Order("DOWNLOAD", job[s].name)} :
          /\ Told(s, <<Login(job[s].id), m>>)
          /\ cpc[s] = CASE m = Quit -> "quit_rep"
                         [] m = Order("UPLOAD", job[s].name) -> "upload_rep"
                         [] m = Order("DOWNLOAD", job[s].name) -> "download_rep"
    <3>1. /\ Order("UPLOAD", job[s].name) # Order("DOWNLOAD", job[s].name)
          /\ Quit # Order("UPLOAD", job[s].name) /\ Quit # Order("DOWNLOAD", job[s].name)
      BY MsgTypes
    <3> QED
      BY <2>1, <3>1 DEF Starting, Silent
  <2>4. Told(s, <<m>>)'
    BY <1>0, <2>2, <2>3, ShortSeqs DEF Told
  <2> QED
    BY <2>2, <2>3, <2>4 DEF PhaseAt, Starting, Ending
<1>4. CASE RecvOrder(s)
  <2>1. /\ Starting(s) /\ spc[s] = "order" /\ toClient' = toClient
    BY <1>4, ServerPhase DEF RecvOrder
  <2>2. \/ Arrived(toServer, s, "UPLOAD") /\ spc'[s] = "unique"
        \/ Arrived(toServer, s, "DOWNLOAD") /\ spc'[s] = "exist"
    BY <1>4, LockTypes DEF RecvOrder, Goto
  <2>3. PICK o \in {"UPLOAD", "DOWNLOAD"} :
          /\ cpc[s] = IF o = "UPLOAD" THEN "upload_rep" ELSE "download_rep"
          /\ Told(s, <<Order(o, job[s].name)>>)
    BY <2>1 DEF Starting
  <2>4. Arrived(toServer, s, o) /\ toServer'[s] = << >> /\ toClient'[s] = << >>
    BY <1>0, <2>1, <2>3, ShortSeqs, MsgTypes DEF Told, Arrived
  <2>5. CASE o = "UPLOAD"
    <3>1. cpc'[s] = "upload_rep" /\ spc'[s] = "unique"
      BY <2>2, <2>3, <2>4, <2>5 DEF Arrived
    <3> QED
      BY <2>4, <3>1 DEF PhaseAt, Admitting, Silent
  <2>6. CASE o = "DOWNLOAD"
    <3>1. cpc'[s] = "download_rep" /\ spc'[s] = "exist"
      BY <2>2, <2>3, <2>4, <2>6 DEF Arrived
    <3> QED
      BY <2>4, <3>1 DEF PhaseAt, Downloading, Silent
  <2> QED
    BY <2>5, <2>6
<1>5. CASE RecvQuit(s)
  <2>1. Ending(s) /\ spc[s] = "order" /\ Reply(s, QuitRep) /\ spc'[s] = "closed"
    BY <1>5, ServerPhase, LockTypes DEF RecvQuit, Goto
  <2>2. cpc[s] = "quit_rep" /\ Told(s, <<Quit>>)
    BY <2>1 DEF Ending
  <2>3. toServer'[s] = << >> /\ toClient'[s] = <<QuitRep>>
    BY <1>0, <2>1, <2>2, ShortSeqs, ClientMsgs, ReplyToSilent DEF Told
  <2> QED
    BY <2>1, <2>2, <2>3 DEF PhaseAt, Ending, Answered
<1> QED
  BY <1>3, <1>4, <1>5 DEF RunStep

LEMMA AdmitLock ==
  ASSUME TypeOK, NEW s \in Sessions, AdmitStep(s), UNCHANGED <<job, cpc, batch>>, LockAt(s)
  PROVE  LockAt(s)'
<1>0. UNCHANGED <<hashList, flags, idx, toServer>>
  BY DEF AdmitStep
<1>1. CASE CheckUnique(s)
  <2>1. Admitting(s) /\ spc[s] = "unique"
    BY <1>1, ServerPhase DEF CheckUnique
  <2>2. cpc[s] = "upload_rep" /\ Silent(s) /\ hashList[s] = << >>
    BY <2>1 DEF Admitting, LockAt, QueryAt
  <2>3. \/ spc'[s] = "add_file" /\ toClient'[s] = <<Rep("UPLOADREP", "UNIQUE")>>
        \/ spc'[s] = "order" /\ toClient'[s] = <<Rep("UPLOADREP", "DUPLICATE")>>
    BY <1>1, <2>2, LockTypes, ClientMsgs, ReplyToSilent DEF CheckUnique, Goto, Silent
  <2>4. PhaseAt(s)'
    BY <1>0, <2>2, <2>3 DEF PhaseAt, Admitting, Answered, Silent
  <2>5. QueryAt(s)'
    BY <1>0, <2>1, <2>3 DEF LockAt, QueryAt
  <2> QED
    BY <2>4, <2>5 DEF LockAt
<1>2. CASE AddFile(s)
  <2>1. /\ Admitting(s) \/ BodySent(s)
        /\ spc[s] = "add_file" /\ toClient' = toClient /\ spc'[s] = "body"
    BY <1>2, ServerPhase, LockTypes DEF AddFile, Goto
  <2>2. ASSUME Admitting(s) PROVE PhaseAt(s)'
    BY <1>0, <2>1, <2>2 DEF PhaseAt, Admitting, Silent, Answered
  <2>3. ASSUME BodySent(s) PROVE PhaseAt(s)'
    BY <1>0, <2>1, <2>3 DEF PhaseAt, BodySent, AfterBody, Arrived, Told, Answers, BodyAndEnd
  <2>4. QueryAt(s)'
    BY <1>0, <2>1 DEF LockAt, QueryAt
  <2> QED
    BY <2>1, <2>2, <2>3, <2>4 DEF LockAt
<1> QED
  BY <1>1, <1>2 DEF AdmitStep

LEMMA ReceiveLock ==
  ASSUME TypeOK, NEW s \in Sessions, ReceiveStep(s), UNCHANGED <<job, cpc, batch>>, LockAt(s)
  PROVE  LockAt(s)'
<1>0. /\ UNCHANGED <<hashList, flags, toClient>> /\ toServer'[s] = Tail(toServer[s])
      /\ spc[s] = "body"
  BY LockTypes, ReceiveOne DEF ReceiveStep
<1>t. hashList[s] \in Seq(Chunks)
  BY LockTypes
<1>1. CASE RecvBody(s)
  <2>1. /\ BodySent(s) /\ spc'[s] = "store" /\ idx'[s] = 1
        /\ inMsg'[s] = [query |-> Head(toServer[s]).query, data |-> Head(toServer[s]).data]
    BY <1>0, <1>1, ServerPhase, LockTypes DEF RecvBody, Goto
  <2> DEFINE d == Head(toServer[s]).data
  <2>2. AfterBody(s) /\ Told(s, BodyAndEnd(s, d)) /\ Answers(s, d)
    BY <2>1 DEF BodySent
  <2>3. Head(toServer[s]) = Body(batch[s], d) /\ Tail(toServer[s]) = End(s)
    BY <2>2, ToldFirst
  <2>4. inMsg'[s].query = batch[s] /\ inMsg'[s].data = d
    BY <2>1, <2>3, MsgTypes
  <2> HIDE DEF d
  <2>5. Told(s, End(s))'
    BY <1>0, <2>2, <2>3 DEF Told, End
  <2>6. Answers(s, inMsg[s].data)'
    BY <1>0, <2>2, <2>4 DEF Answers
  <2>7. Storing(s)'
    BY <2>1, <2>2, <2>4, <2>5, <2>6 DEF Storing, AfterBody
  <2>8. QueryAt(s)'
    BY <1>0, <1>t, <2>1 DEF LockAt, QueryAt
  <2> QED
    BY <2>7, <2>8 DEF LockAt, PhaseAt
<1>2. CASE RecvFileEnd(s)
  <2>1. Replied(s) /\ toServer[s] # << >> /\ spc'[s] = "last_container"
    BY <1>0, <1>2, ServerPhase, LockTypes DEF RecvFileEnd, Goto, Arrived
  <2>2. cpc[s] = "quit_rep" /\ Told(s, <<FileEnd, Quit>>) /\ hashList[s] = << >>
    BY <2>1 DEF Replied, Answered
  <2>3. Ending(s)'
    BY <1>0, <2>1, <2>2, ShortSeqs DEF Ending, Told
  <2>4. QueryAt(s)'
    BY <1>0, <2>1, <2>2 DEF LockAt, QueryAt
  <2> QED
    BY <2>3, <2>4 DEF LockAt, PhaseAt
<1> QED
  BY <1>1, <1>2 DEF ReceiveStep

LEMMA StoreLock ==
  ASSUME TypeOK, NEW s \in Sessions, StoreStep(s), UNCHANGED <<job, cpc, batch>>, LockAt(s)
  PROVE  LockAt(s)'
<1>0. UNCHANGED <<toServer, toClient, inMsg, hashList, flags>>
  BY DEF StoreStep, wire
<1>1. idx[s] \in Nat /\ Len(hashList[s]) \in Nat
  BY LockTypes
<1>2. /\ spc[s] \in {"store", "entry"} /\ spc'[s] \in {"store", "entry"}
      /\ idx'[s] \in Nat
      /\ spc'[s] = "entry" => idx'[s] <= Len(hashList[s])
      /\ spc'[s] = "store" => idx'[s] <= Len(hashList[s]) + 1
  <2>1. CASE FlushContainer(s) \/ FlushRecipe(s)
    BY <1>1, <2>1 DEF FlushContainer, FlushRecipe, AtChunk, HasChunk, LockAt, QueryAt
  <2>2. CASE StoreChunk(s) \/ TakeDuplicate(s)
    BY <1>1, <2>2, LockTypes DEF StoreChunk, TakeDuplicate, AtChunk, HasChunk, Goto
  <2>3. CASE WriteEntry(s)
    BY <1>1, <2>3, LockTypes DEF WriteEntry, Goto, LockAt, QueryAt
  <2> QED
    BY <2>1, <2>2, <2>3 DEF StoreStep
<1>3. QueryAt(s)'
  BY <1>0, <1>2 DEF LockAt, QueryAt
<1>4. Storing(s)
  BY <1>2, ServerPhase
<1>5. Storing(s)'
  BY <1>0, <1>2, <1>4 DEF Storing, AfterBody, Told, End, Answers
<1> QED
  BY <1>3, <1>5 DEF LockAt, PhaseAt

LEMMA QueryLock ==
  ASSUME TypeOK, NEW s \in Sessions, QueryStep(s), UNCHANGED <<job, cpc, batch>>, LockAt(s)
  PROVE  LockAt(s)'
<1>0. UNCHANGED <<toServer, inMsg>>
  BY DEF QueryStep
<1>1. /\ idx[s] \in Nat \ {0} /\ Len(hashList[s]) \in Nat /\ flags[s] \in Seq({0, 1})
      /\ Len(flags[s]) \in Nat
  BY LockTypes
<1>2. CASE BeginQuery(s)
  <2>1. /\ Storing(s) /\ spc'[s] = "query" /\ toClient' = toClient /\ idx'[s] = 1
        /\ flags'[s] = << >> /\ hashList'[s] = inMsg[s].query
    BY <1>2, ServerPhase, LockTypes DEF BeginQuery, Goto
  <2>2. Querying(s)'
    BY <1>0, <2>1 DEF Storing, Querying, AfterBody, Told, End
  <2>3. hashList'[s] \in Seq(Chunks)
    BY <2>1, LockTypes
  <2>4. QueryAt(s)'
    BY <2>1, <2>3 DEF QueryAt
  <2> QED
    BY <2>2, <2>4 DEF LockAt, PhaseAt
<1>3. CASE QueryChunk(s)
  <2>1. /\ Querying(s) /\ idx[s] <= Len(hashList[s]) /\ idx'[s] = idx[s] + 1
        /\ UNCHANGED <<toClient, spc, hashList>> /\ spc[s] = "query"
        /\ flags'[s] \in {Append(flags[s], 0), Append(flags[s], 1)}
    BY <1>3, ServerPhase, LockTypes DEF QueryChunk
  <2>2. Len(flags'[s]) = Len(flags[s]) + 1
    BY <1>1, <2>1
  <2>3. QueryAt(s)'
    BY <1>1, <2>1, <2>2 DEF LockAt, QueryAt
  <2>4. Querying(s)'
    BY <1>0, <2>1 DEF Querying, AfterBody, Told, End
  <2> QED
    BY <2>3, <2>4 DEF LockAt, PhaseAt
<1>4. CASE SendReply(s)
  <2>1. /\ Querying(s) /\ idx[s] > Len(hashList[s]) /\ spc[s] = "query" /\ spc'[s] = "body"
        /\ UNCHANGED <<hashList, flags, idx>>
    BY <1>4, ServerPhase, LockTypes DEF SendReply, Goto
  <2>2. Len(flags[s]) = Len(hashList[s])
    BY <1>1, <2>1 DEF LockAt, QueryAt
  <2>3. QueryAt(s)'
    BY <2>1, <2>2 DEF QueryAt
  <2>4. AfterBody(s) /\ Told(s, End(s)) /\ hashList[s] = batch[s]
    BY <2>1 DEF Querying
  <2>5. CASE hashList[s] = << >>
    <3>1. toClient' = toClient
      BY <1>4, <2>5 DEF SendReply
    <3>2. Replied(s)'
      BY <1>0, <2>1, <2>4, <2>5, <3>1 DEF Replied, AfterBody, Told, End
    <3> QED
      BY <2>3, <3>2 DEF LockAt, PhaseAt
  <2>6. CASE hashList[s] # << >>
    <3>1. cpc[s] = "body_rep" /\ toServer[s] = << >> /\ toClient[s] = << >>
      BY <2>4, <2>6 DEF AfterBody, Told, End
    <3>2. toClient'[s] = <<BodyRep(flags[s])>>
      BY <1>1, <1>4, <2>6, <3>1, ClientMsgs, ReplyToSilent DEF SendReply
    <3>3. Replied(s)'
      BY <1>0, <2>1, <2>4, <3>1, <3>2 DEF Replied, Answered
    <3> QED
      BY <2>3, <3>3 DEF LockAt, PhaseAt
  <2> QED
    BY <2>5, <2>6
<1> QED
  BY <1>2, <1>3, <1>4 DEF QueryStep

LEMMA FinishLock ==
  ASSUME TypeOK, NEW s \in Sessions, FinishStep(s), UNCHANGED <<job, cpc, batch>>, LockAt(s)
  PROVE  LockAt(s)'
<1>0. UNCHANGED <<toServer, toClient, flags, idx>>
  BY DEF FinishStep, wire
<1>1. /\ spc[s] \in {"last_container", "last_recipe", "join"}
      /\ spc'[s] \in {"last_recipe", "join", "order"}
      /\ hashList'[s] \in {hashList[s], << >>}
  BY LockTypes DEF FinishStep, InsertLastContainer, InsertLastRecipe, Join, Goto
<1>2. Ending(s) /\ hashList[s] = << >>
  BY <1>1, ServerPhase DEF LockAt, QueryAt
<1>3. Ending(s)'
  BY <1>0, <1>1, <1>2 DEF Ending, Told, Answered, Silent
<1>4. QueryAt(s)'
  BY <1>0, <1>1, <1>2 DEF LockAt, QueryAt
<1> QED
  BY <1>3, <1>4 DEF LockAt, PhaseAt

(* The handler puts another message at the end of the stream.              *)
LEMMA StreamGrows ==
  ASSUME TypeOK, NEW s \in Sessions, Streaming(s), spc[s] # "order",
         NEW m \in ClientMsg, Reply(s, m), UNCHANGED <<cpc, toServer>>,
         \/ m.type = "DOWNLOADBODY" /\ spc'[s] = "recipe"
         \/ m.type = "FILEEND" /\ spc'[s] = "order"
  PROVE  Streaming(s)'
<1> DEFINE q == toClient[s]
<1>1. toClient'[s] = q \o <<m>>
  BY LockTypes DEF Reply, send_data
<1>2. q \in Seq(ClientMsg)
  BY LockTypes
<1> HIDE DEF q
<1>3. /\ q \o <<m>> # << >> /\ Len(q \o <<m>>) = Len(q) + 1 /\ Len(q) \in Nat
      /\ DOMAIN (q \o <<m>>) = 1 .. Len(q) + 1 /\ DOMAIN q = 1 .. Len(q)
      /\ \A k \in 1 .. Len(q) : (q \o <<m>>)[k] = q[k]
      /\ (q \o <<m>>)[Len(q) + 1] = m
      /\ q # << >> => Len(q) # 0
  BY <1>2
<1>4. ASSUME NEW k \in 1 .. Len(q) + 1 PROVE StreamMsg(s, k, toClient[s][k])'
  <2>1. CASE k = Len(q) + 1
    <3>1. toClient'[s][k] = m /\ Len(toClient'[s]) = k
      BY <1>1, <1>3, <2>1
    <3>2. cpc[s] = "download_rep" => k # 1
      BY <1>3, <2>1 DEF Streaming, q
    <3> QED
      BY <3>1, <3>2 DEF StreamMsg, Streaming
  <2>2. CASE k # Len(q) + 1
    <3>1. k \in 1 .. Len(q)
      BY <1>3, <2>2
    <3>2. StreamMsg(s, k, q[k])
      BY <1>3, <3>1 DEF Streaming, q
    <3>3. toClient'[s][k] = q[k] /\ Len(toClient'[s]) # k
      BY <1>1, <1>3, <2>2, <3>1
    <3> QED
      BY <3>2, <3>3 DEF StreamMsg
  <2> QED
    BY <2>1, <2>2
<1>5. toClient'[s] # << >> /\ DOMAIN toClient'[s] = 1 .. Len(q) + 1
  BY <1>1, <1>3
<1> QED
  BY <1>4, <1>5 DEF Streaming

LEMMA DownloadLock ==
  ASSUME TypeOK, NEW s \in Sessions, DownloadStep(s), UNCHANGED <<job, cpc, batch>>, LockAt(s)
  PROVE  LockAt(s)'
<1>0. UNCHANGED <<toServer, hashList, flags, idx>>
  BY DEF DownloadStep, uploadVars
<1>1. /\ spc[s] \in {"exist", "open", "recipe", "chunk"}
      /\ spc'[s] \in {"open", "order", "recipe", "chunk"}
  BY LockTypes DEF DownloadStep, CheckExist, OpenForRead, ReadRecipe, ReadChunk,
                   SendDownBody, SendFileEnd, Goto
<1>2. QueryAt(s)'
  BY <1>0, <1>1 DEF LockAt, QueryAt
<1>3. Downloading(s)
  BY <1>1, ServerPhase
<1> SUFFICES PhaseAt(s)'
  BY <1>2 DEF LockAt
<1>4. CASE CheckExist(s)
  <2>1. cpc[s] = "download_rep" /\ Silent(s)
    BY <1>3, <1>4 DEF CheckExist, Downloading, Streaming
  <2>2. \/ spc'[s] = "open" /\ toClient'[s] = <<Rep("DOWNLOADREP", "EXIST")>>
        \/ spc'[s] = "order" /\ toClient'[s] = <<Rep("DOWNLOADREP", "NOTEXIST")>>
    BY <1>4, <2>1, LockTypes, ClientMsgs, ReplyToSilent DEF CheckExist, Goto, Silent
  <2>3. CASE spc'[s] = "open"
    <3>0. \A m : DOMAIN <<m>> = {1} /\ <<m>> # << >> /\ <<m>>[1] = m
      OBVIOUS
    <3>1. /\ DOMAIN toClient'[s] = {1} /\ toClient'[s] # << >>
          /\ toClient'[s][1] = Rep("DOWNLOADREP", "EXIST")
      BY <2>2, <2>3, <3>0
    <3>2. StreamMsg(s, 1, toClient[s][1])'
      BY <2>1, <2>3, <3>1, MsgTypes DEF StreamMsg
    <3> QED
      BY <1>0, <2>1, <2>3, <3>1, <3>2 DEF PhaseAt, Downloading, Streaming, Silent
  <2>4. CASE spc'[s] = "order"
    BY <1>0, <2>1, <2>2, <2>4 DEF PhaseAt, Downloading, Answered, Silent
  <2> QED
    BY <2>2, <2>3, <2>4
<1>5. CASE OpenForRead(s) \/ ReadRecipe(s) \/ ReadChunk(s)
  <2>1. /\ toClient' = toClient /\ spc[s] # "order" /\ spc[s] # "exist"
        /\ spc'[s] \in {"recipe", "chunk"}
    BY <1>5, LockTypes DEF OpenForRead, ReadRecipe, ReadChunk, Goto
  <2>2. Streaming(s)
    BY <1>3, <2>1 DEF Downloading
  <2> QED
    BY <1>0, <2>1, <2>2 DEF PhaseAt, Downloading, Streaming, StreamMsg
<1>6. CASE SendDownBody(s)
  <2>1. /\ spc[s] = "chunk" /\ Reply(s, DownBody(reader[s].out)) /\ spc'[s] = "recipe"
    BY <1>6, LockTypes DEF SendDownBody, Goto
  <2>2. DownBody(reader[s].out) \in ClientMsg
    BY ClientMsgs DEF TypeOK, ConnTypeOK, Reader
  <2>3. Streaming(s)'
    BY <1>0, <1>3, <2>1, <2>2, MsgTypes, StreamGrows DEF Downloading
  <2> QED
    BY <2>3 DEF PhaseAt, Downloading
<1>7. CASE SendFileEnd(s)
  <2>1. /\ spc[s] = "recipe" /\ Reply(s, FileEnd) /\ spc'[s] = "order"
    BY <1>7, LockTypes DEF SendFileEnd, Goto
  <2>2. Streaming(s)'
    BY <1>0, <1>3, <2>1, ClientMsgs, MsgTypes, StreamGrows DEF Downloading
  <2> QED
    BY <2>2 DEF PhaseAt, Downloading
<1> QED
  BY <1>4, <1>5, <1>6, <1>7 DEF DownloadStep

LEMMA HandlerLock ==
  ASSUME TypeOK, NEW s \in Sessions, HandlerStep(s), UNCHANGED <<job, cpc, batch>>, LockAt(s)
  PROVE  LockAt(s)'
  BY RunLock, AdmitLock, ReceiveLock, StoreLock, QueryLock, FinishLock, DownloadLock
     DEF HandlerStep, UploadStep

----------------------------------------------------------------------------
(* A step of one session leaves the others alone.                          *)

(* What the client and the handler of session t hold.                      *)
TalkView(t) == <<job[t], toServer[t], toClient[t], cpc[t], sent[t], batch[t], got[t],
                 spc[t], key[t], inMsg[t], hashList[t], flags[t], idx[t], dup[t],
                 chunkAddr[t], reader[t]>>

(* What the handler of session t fills and its writers empty.              *)
StoreView(t) == <<container[t], recipe[t], containerQueue[t], recipeQueue[t], done[t],
                  dataWriter[t], recipeWriter[t], saving[t], writing[t], total[t]>>

LEMMA ViewTypes ==
  ASSUME TypeOK
  PROVE  /\ got \in [Sessions -> Seq(Bytes)] /\ key \in [Sessions -> Key]
         /\ dup \in [Sessions -> Seq(Addr)]
         /\ chunkAddr \in [Sessions -> Addr \cup {NoAddr}]
         /\ reader \in [Sessions -> Reader] /\ container \in [Sessions -> Container]
         /\ recipe \in [Sessions -> Entries]
         /\ containerQueue \in [Sessions -> Seq(Container)]
         /\ recipeQueue \in [Sessions -> Seq(Entries)] /\ done \in [Sessions -> BOOLEAN]
         /\ dataWriter \in [Sessions -> {"none", "run", "exit"}]
         /\ recipeWriter \in [Sessions -> {"none", "open", "run", "exit"}]
         /\ saving \in [Sessions -> Container \cup {None}]
         /\ writing \in [Sessions -> Entries \cup {None}] /\ total \in [Sessions -> Nat]
         /\ containers \subseteq Container /\ finished \subseteq Sessions
         /\ m_all_chunks \in [Chunks -> Addr \cup {NoAddr}]
  BY DEF TypeOK, ClientTypeOK, ConnTypeOK, ServerTypeOK

LEMMA ClientOthers ==
  ASSUME TypeOK, NEW s \in Sessions, ClientSide(s), NEW t \in Sessions \ {s}
  PROVE  TalkView(t)' = TalkView(t) /\ StoreView(t)' = StoreView(t)
<1>1. UNCHANGED <<job, connVars>>
  BY DEF ClientSide
<1>2. StoreView(t)' = StoreView(t)
  BY <1>1 DEF StoreView, connVars, uploadVars, queueVars, threadVars, writerVars
<1>3. UNCHANGED <<job, spc, key, inMsg, hashList, flags, idx, dup, chunkAddr, reader>>
  BY <1>1 DEF connVars, uploadVars
<1>4. \A q : /\ send_data(toServer, s, q)[t] = toServer[t]
             /\ receive_data(toServer, s)[t] = toServer[t]
             /\ receive_data(toClient, s)[t] = toClient[t]
  BY LockTypes DEF send_data, receive_data
<1>5. /\ toServer'[t] = toServer[t] /\ toClient'[t] = toClient[t] /\ cpc'[t] = cpc[t]
      /\ sent'[t] = sent[t] /\ batch'[t] = batch[t] /\ got'[t] = got[t]
  <2> USE <1>4, LockTypes, ViewTypes
  <2>1. CASE Connect(s)
    BY <2>1 DEF Connect
  <2>2. CASE UploadUnique(s) \/ UploadBatch(s)
    BY ZenonT(60), <2>2 DEF UploadUnique, UploadBatch, SendBody
  <2>3. CASE UploadDuplicate(s) \/ DownloadRefused(s) \/ DownloadEnd(s)
    BY <2>3 DEF UploadDuplicate, DownloadRefused, DownloadEnd, SendQuit
  <2>4. CASE DownloadGranted(s) \/ DownloadBody(s) \/ Close(s)
    BY <2>4 DEF DownloadGranted, DownloadBody, Close
  <2> QED
    BY <2>1, <2>2, <2>3, <2>4 DEF ClientSide, ClientStep
<1> QED
  BY <1>2, <1>3, <1>5 DEF TalkView

LEMMA HandlerOthers ==
  ASSUME TypeOK, NEW s \in Sessions, HandlerStep(s), UNCHANGED <<job, clientVars>>,
         NEW t \in Sessions \ {s}
  PROVE  TalkView(t)' = TalkView(t) /\ StoreView(t)' = StoreView(t)
<1>1. UNCHANGED <<job, cpc, sent, batch, got, saving, writing, total>>
  BY DEF HandlerStep, writerVars, clientVars
<1>2. /\ \A q : send_data(toClient, s, q)[t] = toClient[t]
      /\ receive_data(toServer, s)[t] = toServer[t]
  BY LockTypes DEF send_data, receive_data
<1>3. /\ spc'[t] = spc[t] /\ key'[t] = key[t] /\ reader'[t] = reader[t]
      /\ toServer'[t] = toServer[t] /\ toClient'[t] = toClient[t]
  <2> USE <1>2, LockTypes, ViewTypes DEF Goto, Reply
  <2>1. CASE RunStep(s)
    BY <2>1 DEF RunStep, Serve, RecvOrder, RecvQuit
  <2>2. CASE UploadStep(s)
    <3>0. UNCHANGED <<key, reader>>
      BY <2>2 DEF UploadStep
    <3>1. CASE AdmitStep(s)
      <4>1. toServer' = toServer
        BY <3>1 DEF AdmitStep
      <4>2. CASE CheckUnique(s)
        BY <3>0, <4>1, <4>2 DEF CheckUnique
      <4>3. CASE AddFile(s)
        BY <3>0, <4>1, <4>3 DEF AddFile
      <4> QED
        BY <3>1, <4>2, <4>3 DEF AdmitStep
    <3>2. CASE ReceiveStep(s)
      BY ZenonT(60), <3>0, <3>2 DEF ReceiveStep, RecvBody, RecvFileEnd
    <3>3. CASE StoreStep(s)
      BY ZenonT(60), <3>0, <3>3 DEF StoreStep, FlushContainer, StoreChunk, TakeDuplicate,
                        FlushRecipe, WriteEntry, wire
    <3>4. CASE QueryStep(s)
      BY <3>0, <3>4 DEF QueryStep, BeginQuery, QueryChunk, SendReply
    <3>5. CASE FinishStep(s)
      <4>1. UNCHANGED <<toServer, toClient>>
        BY <3>5 DEF FinishStep, wire
      <4>2. spc' \in {[spc EXCEPT ![s] = pc] : pc \in {"last_recipe", "join", "order"}}
        BY <3>5 DEF FinishStep, InsertLastContainer, InsertLastRecipe, Join
      <4> QED
        BY <3>0, <4>1, <4>2
    <3> QED
      BY <2>2, <3>1, <3>2, <3>3, <3>4, <3>5 DEF UploadStep
  <2>3. CASE DownloadStep(s)
    BY ZenonT(60), <2>3 DEF DownloadStep, CheckExist, OpenForRead, ReadRecipe, ReadChunk,
                SendDownBody, SendFileEnd
  <2> QED
    BY <2>1, <2>2, <2>3 DEF HandlerStep
<1>4. /\ inMsg'[t] = inMsg[t] /\ hashList'[t] = hashList[t] /\ flags'[t] = flags[t]
      /\ idx'[t] = idx[t] /\ dup'[t] = dup[t] /\ chunkAddr'[t] = chunkAddr[t]
      /\ container'[t] = container[t] /\ recipe'[t] = recipe[t]
      /\ containerQueue'[t] = containerQueue[t] /\ recipeQueue'[t] = recipeQueue[t]
      /\ done'[t] = done[t] /\ dataWriter'[t] = dataWriter[t]
      /\ recipeWriter'[t] = recipeWriter[t]
  <2> USE LockTypes, ViewTypes
  <2>1. CASE RunStep(s) \/ DownloadStep(s)
    BY <2>1 DEF RunStep, DownloadStep, uploadVars, queueVars, threadVars
  <2>2. CASE UploadStep(s)
    <3>1. CASE AdmitStep(s)
      BY ZenonT(60), <3>1 DEF AdmitStep, CheckUnique, AddFile, queueVars, threadVars
    <3>2. CASE ReceiveStep(s)
      BY <3>2 DEF ReceiveStep, RecvBody, RecvFileEnd, queueVars, threadVars
    <3>3. CASE StoreStep(s)
      BY ZenonT(60), <3>3 DEF StoreStep, FlushContainer, StoreChunk, TakeDuplicate,
                  FlushRecipe, WriteEntry, insert_container_queue, insert_recipe_queue,
                  threadVars
    <3>4. CASE QueryStep(s)
      BY ZenonT(60), <3>4 DEF QueryStep, BeginQuery, QueryChunk, SendReply, queueVars, threadVars
    <3>5. CASE FinishStep(s)
      <4>1. CASE InsertLastContainer(s)
        BY <3>5, <4>1 DEF FinishStep, InsertLastContainer, insert_container_queue, threadVars
      <4>2. CASE InsertLastRecipe(s)
        BY <3>5, <4>2 DEF FinishStep, InsertLastRecipe, insert_recipe_queue, threadVars
      <4>3. CASE Join(s)
        BY <3>5, <4>3 DEF FinishStep, Join
      <4> QED
        BY <3>5, <4>1, <4>2, <4>3 DEF FinishStep
    <3> QED
      BY <2>2, <3>1, <3>2, <3>3, <3>4, <3>5 DEF UploadStep
  <2> QED
    BY <2>1, <2>2 DEF HandlerStep
<1> QED
  BY <1>1, <1>3, <1>4 DEF TalkView, StoreView

(* The writer threads keep out of the conversation, their own too.         *)
LEMMA WriterOthers ==
  ASSUME TypeOK, NEW s \in Sessions, DataWriterStep(s) \/ RecipeWriterStep(s),
         UNCHANGED <<job, clientVars>>
  PROVE  /\ \A t \in Sessions : TalkView(t)' = TalkView(t)
         /\ \A t \in Sessions \ {s} : StoreView(t)' = StoreView(t)
<1>1. ASSUME NEW t \in Sessions PROVE TalkView(t)' = TalkView(t)
  BY DEF DataWriterStep, RecipeWriterStep, TalkView, wire, clientVars
<1>2. ASSUME NEW t \in Sessions \ {s}, DataWriterStep(s) PROVE StoreView(t)' = StoreView(t)
  BY <1>2, ViewTypes DEF DataWriterStep, PopContainer, SaveContainer, EndDataWriter, StoreView
<1>3. ASSUME NEW t \in Sessions \ {s}, RecipeWriterStep(s) PROVE StoreView(t)' = StoreView(t)
  BY <1>3, ViewTypes DEF RecipeWriterStep, OpenRecipe, PopRecipe, WriteRecipe,
                         EndRecipeWriter, StoreView
<1> QED
  BY <1>1, <1>2, <1>3

LEMMA LockKept ==
  ASSUME NEW t, LockAt(t), TalkView(t)' = TalkView(t)
  PROVE  LockAt(t)'
<1>1. /\ job'[t] = job[t] /\ toServer'[t] = toServer[t] /\ toClient'[t] = toClient[t]
      /\ cpc'[t] = cpc[t] /\ batch'[t] = batch[t] /\ spc'[t] = spc[t]
      /\ inMsg'[t] = inMsg[t] /\ hashList'[t] = hashList[t] /\ flags'[t] = flags[t]
      /\ idx'[t] = idx[t]
  BY DEF TalkView
<1>2. QueryAt(t)'
  BY <1>1 DEF LockAt, QueryAt
<1>3. \A d : Answers(t, d)' <=> Answers(t, d)
  BY <1>1 DEF Answers
<1>4. ASSUME Streaming(t) PROVE Streaming(t)'
  BY <1>1, <1>4 DEF Streaming, StreamMsg
<1>5. PhaseAt(t)'
  BY <1>1, <1>3, <1>4
     DEF LockAt, PhaseAt, Starting, Admitting, BodySent, Storing, Querying, Replied, Ending,
         Downloading, AfterBody, End, BodyAndEnd, Told, Answered, Silent, Arrived
<1> QED
  BY <1>2, <1>5 DEF LockAt

LEMMA InitLock == Init => LockInv
<1> SUFFICES ASSUME Init, NEW s \in Sessions PROVE LockAt(s)
  BY DEF LockInv
<1>1. /\ cpc[s] = "start" /\ spc[s] = "accepted" /\ Silent(s)
      /\ flags[s] = << >> /\ hashList[s] = << >>
  BY DEF Init, ClientInit, ConnInit, Silent
<1> QED
  BY <1>1 DEF LockAt, PhaseAt, Starting, QueryAt

(* A step is one of a session's client, handler or writers, or changes     *)
(* nothing.                                                                *)
LEMMA StepOfOne ==
  ASSUME [Next]_vars
  PROVE  \/ \E s \in Sessions : ClientSide(s)
         \/ \E s \in Sessions : HandlerStep(s) /\ UNCHANGED <<job, clientVars, after>>
         \/ \E s \in Sessions : DataWriterStep(s) /\ UNCHANGED <<job, clientVars, after>>
         \/ \E s \in Sessions : RecipeWriterStep(s) /\ UNCHANGED <<job, clientVars, after>>
         \/ UNCHANGED vars
  BY DEF Next, ServerSide, Idle

LEMMA NextLock ==
  ASSUME TypeOK, LockInv, [Next]_vars
  PROVE  LockInv'
<1>1. ASSUME NEW s \in Sessions, ClientSide(s) PROVE LockInv'
  <2>1. LockAt(s)'
    BY <1>1, ClientLock DEF LockInv
  <2>2. \A t \in Sessions \ {s} : LockAt(t)'
    BY <1>1, ClientOthers, LockKept DEF LockInv
  <2> QED
    BY <2>1, <2>2 DEF LockInv
<1>2. ASSUME NEW s \in Sessions, HandlerStep(s), UNCHANGED <<job, clientVars>> PROVE LockInv'
  <2>1. LockAt(s)'
    BY <1>2, HandlerLock DEF LockInv, clientVars
  <2>2. \A t \in Sessions \ {s} : LockAt(t)'
    BY <1>2, HandlerOthers, LockKept DEF LockInv
  <2> QED
    BY <2>1, <2>2 DEF LockInv
<1>3. ASSUME NEW s \in Sessions, DataWriterStep(s) \/ RecipeWriterStep(s),
             UNCHANGED <<job, clientVars>>
      PROVE  LockInv'
  BY <1>3, WriterOthers, LockKept DEF LockInv
<1>4. ASSUME UNCHANGED vars PROVE LockInv'
  <2>1. \A t : TalkView(t)' = TalkView(t)
    BY <1>4 DEF vars, wire, clientVars, connVars, uploadVars, TalkView
  <2> QED
    BY <2>1, LockKept DEF LockInv
<1> QED
  BY <1>1, <1>2, <1>3, <1>4, StepOfOne

----------------------------------------------------------------------------
(* Container ids.                                                          *)

(* The UUIDs of s from which on none has been queued: between queueing its *)
(* last container and drawing a new id, that is one more than container's  *)
(* (also when the handler has gone, which may have been at such a moment). *)
Bound(s) ==
  container[s].id[2] + (IF spc[s] \in {"last_recipe", "join", "closed"} THEN 1 ELSE 0)

(* Containers of s have ascending numbers below b, from those in disk over *)
(* the one in the writer's hands, w, to those in the queue q.              *)
Ascending(s, disk, w, q, b) ==
  /\ \A i \in DOMAIN q : q[i].id[1] = s /\ q[i].id[2] < b
  /\ \A i, j \in DOMAIN q : i < j => q[i].id[2] < q[j].id[2]
  /\ w # None => /\ w.id[1] = s /\ w.id[2] < b
                 /\ \A i \in DOMAIN q : w.id[2] < q[i].id[2]
  /\ \A f \in disk : f.id[1] = s =>
       /\ f.id[2] < b
       /\ \A i \in DOMAIN q : f.id[2] < q[i].id[2]
       /\ w # None => f.id[2] < w.id[2]

IdAt(s) ==
  /\ container[s].id[1] = s
  /\ Ascending(s, containers, saving[s], containerQueue[s], Bound(s))

IdInv == \A s \in Sessions : IdAt(s)

----------------------------------------------------------------------------
(* What queueing, popping and saving a container do to the order.          *)

LEMMA ContainerNumber ==
  ASSUME NEW f \in Container
  PROVE  f.id \in Sessions \X Nat /\ f.id[1] \in Sessions /\ f.id[2] \in Nat
  BY DEF Container, ContainerId

LEMMA AscendingUp ==
  ASSUME NEW s, NEW disk \in SUBSET Container, NEW w \in Container \cup {None},
         NEW q \in Seq(Container), NEW b \in Nat, NEW c \in Nat, b <= c,
         Ascending(s, disk, w, q, b)
  PROVE  Ascending(s, disk, w, q, c)
<1>1. \A n \in Nat : n < b => n < c
  OBVIOUS
<1>2. \A i \in DOMAIN q : q[i].id[2] \in Nat
  BY ContainerNumber
<1>3. \A f \in disk : f.id[2] \in Nat
  BY ContainerNumber
<1>4. w # None => w.id[2] \in Nat
  BY ContainerNumber
<1> QED
  BY <1>1, <1>2, <1>3, <1>4 DEF Ascending

LEMMA AscendingPush ==
  ASSUME NEW s, NEW disk \in SUBSET Container, NEW w \in Container \cup {None},
         NEW q \in Seq(Container), NEW c \in Container, c.id[1] = s,
         Ascending(s, disk, w, q, c.id[2])
  PROVE  Ascending(s, disk, w, Append(q, c), c.id[2] + 1)
<1> DEFINE p == Append(q, c)
           b == c.id[2]
<1>0. b \in Nat
  BY ContainerNumber
<1>1. b + 1 \in Nat /\ b <= b + 1 /\ b < b + 1
  BY <1>0
<1>2. Ascending(s, disk, w, q, b + 1)
  BY <1>0, <1>1, AscendingUp
<1>3. ASSUME NEW i \in DOMAIN p
      PROVE  (i \in DOMAIN q /\ p[i] = q[i]) \/ (i = Len(q) + 1 /\ p[i] = c)
  OBVIOUS
<1>4. ASSUME NEW i \in DOMAIN p, NEW j \in DOMAIN p, i < j
      PROVE  i \in DOMAIN q /\ p[i] = q[i]
  BY <1>4
<1> HIDE DEF p
<1>5. \A i \in DOMAIN p : p[i].id[1] = s /\ p[i].id[2] < b + 1
  BY <1>1, <1>2, <1>3 DEF Ascending
<1>6. ASSUME NEW i \in DOMAIN p, NEW j \in DOMAIN p, i < j PROVE p[i].id[2] < p[j].id[2]
  BY <1>3, <1>4, <1>6 DEF Ascending
<1>7. w # None => \A i \in DOMAIN p : w.id[2] < p[i].id[2]
  BY <1>3 DEF Ascending
<1>8. \A f \in disk : f.id[1] = s => \A i \in DOMAIN p : f.id[2] < p[i].id[2]
  BY <1>3 DEF Ascending
<1>9. Ascending(s, disk, w, p, b + 1)
  BY <1>2, <1>5, <1>6, <1>7, <1>8 DEF Ascending
<1> QED
  BY <1>9 DEF p

LEMMA AscendingPop ==
  ASSUME NEW s, NEW disk, NEW q \in Seq(Container), q # << >>, NEW b,
         Ascending(s, disk, None, q, b)
  PROVE  Ascending(s, disk, Head(q), Tail(q), b)
<1> DEFINE p == Tail(q)
<1>1. Head(q) = q[1] /\ 1 \in DOMAIN q
  OBVIOUS
<1>2. ASSUME NEW i \in DOMAIN p
      PROVE  i + 1 \in DOMAIN q /\ p[i] = q[i + 1] /\ 1 < i + 1
  OBVIOUS
<1>3. ASSUME NEW i \in DOMAIN p, NEW j \in DOMAIN p, i < j PROVE i + 1 < j + 1
  BY <1>3
<1> HIDE DEF p
<1>4. \A i \in DOMAIN p : p[i].id[1] = s /\ p[i].id[2] < b /\ q[1].id[2] < p[i].id[2]
  BY <1>1, <1>2 DEF Ascending
<1>5. \A i, j \in DOMAIN p : i < j => p[i].id[2] < p[j].id[2]
  BY <1>2, <1>3 DEF Ascending
<1>6. q[1].id[1] = s /\ q[1].id[2] < b
  BY <1>1 DEF Ascending
<1>7. \A f \in disk : f.id[1] = s =>
        f.id[2] < b /\ f.id[2] < q[1].id[2] /\ \A i \in DOMAIN p : f.id[2] < p[i].id[2]
  BY <1>1, <1>2 DEF Ascending
<1>8. Ascending(s, disk, q[1], p, b)
  BY <1>4, <1>5, <1>6, <1>7 DEF Ascending
<1> QED
  BY <1>1, <1>8 DEF p

LEMMA AscendingSave ==
  ASSUME NEW s, NEW disk \in SUBSET Container, NEW w \in Container, NEW q, NEW b,
         Ascending(s, disk, w, q, b)
  PROVE  /\ \A f \in disk : f.id # w.id
         /\ Ascending(s, disk \cup {w}, None, q, b)
<1>0. w # None
  BY NoneAssumption DEF NoneAssumption
<1>1. ASSUME NEW f \in disk PROVE f.id # w.id
  <2>1. f.id[2] \in Nat /\ w.id[2] \in Nat /\ w.id[1] = s
    BY <1>0, ContainerNumber DEF Ascending
  <2>2. f.id[1] = s => f.id[2] < w.id[2]
    BY <1>0 DEF Ascending
  <2> QED
    BY <2>1, <2>2
<1>2. Ascending(s, disk \cup {w}, None, q, b)
  BY <1>0 DEF Ascending
<1> QED
  BY <1>1, <1>2

LEMMA IdTypes ==
  ASSUME TypeInv
  PROVE  /\ spc \in [Sessions -> ServerPC]
         /\ container \in [Sessions -> Container]
         /\ containerQueue \in [Sessions -> Seq(Container)]
         /\ saving \in [Sessions -> Container \cup {None}]
         /\ containers \subseteq Container
  BY DEF TypeInv, TypeOK, ConnTypeOK

LEMMA BoundNat ==
  ASSUME TypeInv, NEW s \in Sessions
  PROVE  container[s].id[2] \in Nat /\ Bound(s) \in Nat
  BY IdTypes, ContainerNumber DEF Bound

(* The variables of session t that IdAt(t) speaks of.                      *)
IdView(t) == <<spc[t], container[t], containerQueue[t], saving[t]>>

(* A step of s has to be looked at for s only: it saves no container of    *)
(* another session.                                                        *)
LEMMA IdKept ==
  ASSUME IdInv, NEW s \in Sessions, IdAt(s)',
         \A t \in Sessions \ {s} : IdView(t)' = IdView(t),
         \A f \in containers' : f \in containers \/ f.id[1] = s
  PROVE  IdInv'
<1>1. ASSUME NEW t \in Sessions \ {s} PROVE IdAt(t)'
  <2>1. IdAt(t)
    BY DEF IdInv
  <2>2. /\ spc'[t] = spc[t] /\ container'[t] = container[t]
        /\ containerQueue'[t] = containerQueue[t] /\ saving'[t] = saving[t]
    BY DEF IdView
  <2>3. \A f \in containers' : f.id[1] = t => f \in containers
    OBVIOUS
  <2>4. Bound(t)' = Bound(t)
    BY <2>2 DEF Bound
  <2>5. Ascending(t, containers', saving[t], containerQueue[t], Bound(t))
    BY <2>1, <2>3 DEF IdAt, Ascending
  <2> QED
    BY <2>1, <2>2, <2>4, <2>5 DEF IdAt
<1> QED
  BY <1>1 DEF IdInv

(* A step that queues, pops and saves nothing and lowers no bound.         *)
LEMMA IdMove ==
  ASSUME TypeInv, TypeInv', IdInv, NEW s \in Sessions,
         UNCHANGED <<containerQueue, saving, containers>>,
         container'[s].id[1] = s, Bound(s)' >= Bound(s),
         \A t \in Sessions \ {s} : spc'[t] = spc[t] /\ container'[t] = container[t]
  PROVE  IdInv'
<1>1. Ascending(s, containers, saving[s], containerQueue[s], Bound(s))
  BY DEF IdInv, IdAt
<1>2. Bound(s) \in Nat /\ Bound(s)' \in Nat
  <2>1. container'[s] \in Container
    BY DEF TypeInv, TypeOK, ConnTypeOK
  <2>2. container'[s].id[2] \in Nat
    BY <2>1, ContainerNumber
  <2> QED
    BY <2>2, BoundNat DEF Bound
<1>3. Bound(s) <= Bound(s)'
  BY <1>2
<1>4. Ascending(s, containers, saving[s], containerQueue[s], Bound(s)')
  BY <1>1, <1>2, <1>3, IdTypes, AscendingUp
<1>5. IdAt(s)'
  BY <1>4 DEF IdAt
<1> QED
  BY <1>5, IdKept DEF IdView

(* Queueing the container that is being filled.                            *)
LEMMA IdPush ==
  ASSUME TypeInv, TypeInv', IdInv, NEW s \in Sessions,
         insert_container_queue(s), UNCHANGED <<saving, containers>>,
         container'[s].id[1] = s,
         Bound(s) = container[s].id[2], Bound(s)' = container[s].id[2] + 1,
         \A t \in Sessions \ {s} : spc'[t] = spc[t] /\ container'[t] = container[t]
  PROVE  IdInv'
<1>1. /\ container[s].id[1] = s
      /\ Ascending(s, containers, saving[s], containerQueue[s], container[s].id[2])
  BY DEF IdInv, IdAt
<1>2. /\ containerQueue'[s] = Append(containerQueue[s], container[s])
      /\ \A t \in Sessions \ {s} : containerQueue'[t] = containerQueue[t]
  BY IdTypes DEF insert_container_queue
<1>3. Ascending(s, containers, saving[s], Append(containerQueue[s], container[s]),
                container[s].id[2] + 1)
  BY <1>1, IdTypes, AscendingPush
<1>4. IdAt(s)'
  BY <1>2, <1>3 DEF IdAt
<1> QED
  BY <1>2, <1>4, IdKept DEF IdView

LEMMA NewContainer ==
  ASSUME NEW f \in Container
  PROVE  new_container(f).id[1] = f.id[1] /\ new_container(f).id[2] = f.id[2] + 1
  BY ContainerNumber DEF new_container

(* A step of the handler thread queues nothing, or its container.          *)
MoveStep(s) ==
  containerQueue' = containerQueue /\ container'[s].id[1] = s /\ Bound(s)' >= Bound(s)

PushStep(s) ==
  /\ insert_container_queue(s) /\ container'[s].id[1] = s
  /\ Bound(s) = container[s].id[2] /\ Bound(s)' = container[s].id[2] + 1

LEMMA HandlerMoves ==
  ASSUME TypeInv, IdInv, NEW s \in Sessions, HandlerStep(s)
  PROVE  /\ UNCHANGED <<saving, containers>> /\ (MoveStep(s) \/ PushStep(s))
         /\ \A t \in Sessions \ {s} : spc'[t] = spc[t] /\ container'[t] = container[t]
<1> DEFINE Goal == /\ MoveStep(s) \/ PushStep(s)
                   /\ \A t \in Sessions \ {s} : spc'[t] = spc[t] /\ container'[t] = container[t]
<1>0. UNCHANGED <<saving, containers>> /\ container[s].id[1] = s
  BY DEF HandlerStep, writerVars, IdInv, IdAt
<1>1. container[s].id[2] \in Nat
  BY BoundNat
<1>2. ASSUME UNCHANGED <<container, containerQueue>>,
             spc[s] \notin {"last_recipe", "join", "closed"},
             \A t \in Sessions \ {s} : spc'[t] = spc[t]
      PROVE  Goal
  <2>1. Bound(s)' >= Bound(s)
    BY <1>1, <1>2 DEF Bound
  <2> QED
    BY <1>0, <1>2, <2>1 DEF MoveStep
<1>3. ASSUME RunStep(s) PROVE Goal
  <2>1. UNCHANGED <<container, containerQueue>>
    BY <1>3 DEF RunStep, uploadVars, queueVars
  <2>2. spc[s] \in {"accepted", "order"} /\ spc'[s] \in {"order", "unique", "exist", "closed"}
    BY <1>3, IdTypes DEF RunStep, Serve, RecvOrder, RecvQuit, Goto
  <2>3. \A t \in Sessions \ {s} : spc'[t] = spc[t]
    BY <1>3, IdTypes DEF RunStep, Serve, RecvOrder, RecvQuit, Goto
  <2> QED
    BY <1>2, <2>1, <2>2, <2>3
<1>4. ASSUME DownloadStep(s) PROVE Goal
  <2>1. UNCHANGED <<container, containerQueue>>
    BY <1>4 DEF DownloadStep, uploadVars, queueVars
  <2>2. /\ spc[s] \in {"exist", "open", "recipe", "chunk"}
        /\ spc'[s] \in {"open", "order", "recipe", "chunk"}
        /\ \A t \in Sessions \ {s} : spc'[t] = spc[t]
    BY <1>4, IdTypes DEF DownloadStep, CheckExist, OpenForRead, ReadRecipe, ReadChunk,
                         SendDownBody, SendFileEnd, Goto
  <2> QED
    BY <1>2, <2>1, <2>2
<1>5. ASSUME AdmitStep(s) PROVE Goal
  <2>1. UNCHANGED <<container, containerQueue>>
    BY <1>5 DEF AdmitStep, queueVars
  <2>2. /\ spc[s] \in {"unique", "add_file"} /\ spc'[s] \in {"add_file", "order", "body"}
        /\ \A t \in Sessions \ {s} : spc'[t] = spc[t]
    BY <1>5, IdTypes DEF AdmitStep, CheckUnique, AddFile, Goto
  <2> QED
    BY <1>2, <2>1, <2>2
<1>6. ASSUME ReceiveStep(s) PROVE Goal
  <2>1. UNCHANGED <<container, containerQueue>>
    BY <1>6 DEF ReceiveStep, queueVars
  <2>2. /\ spc[s] = "body" /\ spc'[s] \in {"store", "last_container"}
        /\ \A t \in Sessions \ {s} : spc'[t] = spc[t]
    BY <1>6, IdTypes DEF ReceiveStep, RecvBody, RecvFileEnd, Goto
  <2> QED
    BY <1>2, <2>1, <2>2
<1>7. ASSUME QueryStep(s) PROVE Goal
  <2>1. UNCHANGED <<container, containerQueue>>
    BY <1>7 DEF QueryStep, queueVars
  <2>2. /\ spc[s] \in {"store", "query"} /\ spc'[s] \in {"query", "body"}
        /\ \A t \in Sessions \ {s} : spc'[t] = spc[t]
    BY <1>7, IdTypes DEF QueryStep, BeginQuery, QueryChunk, SendReply, Goto
  <2> QED
    BY <1>2, <2>1, <2>2
<1>8. ASSUME FlushContainer(s) PROVE Goal
  <2>1. insert_container_queue(s) /\ spc' = spc /\ spc[s] = "store"
    BY <1>8 DEF FlushContainer, AtChunk, HasChunk
  <2>2. container'[s] = new_container(container[s])
    BY <1>8, IdTypes DEF FlushContainer
  <2>3. container'[s].id[1] = s /\ container'[s].id[2] = container[s].id[2] + 1
    BY <1>0, <2>2, IdTypes, NewContainer
  <2>4. Bound(s) = container[s].id[2] /\ Bound(s)' = container[s].id[2] + 1
    BY <1>1, <2>1, <2>3 DEF Bound
  <2>5. \A t \in Sessions \ {s} : container'[t] = container[t]
    BY <1>8, IdTypes DEF FlushContainer
  <2> QED
    BY <1>0, <2>1, <2>3, <2>4, <2>5 DEF PushStep
<1>9. ASSUME StoreChunk(s) PROVE Goal
  <2>1. /\ containerQueue' = containerQueue /\ spc[s] = "store" /\ spc'[s] = "entry"
        /\ \A t \in Sessions \ {s} : spc'[t] = spc[t]
    BY <1>9, IdTypes DEF StoreChunk, AtChunk, HasChunk, Goto
  <2>2. /\ container'[s].id = container[s].id
        /\ \A t \in Sessions \ {s} : container'[t] = container[t]
    BY <1>9, IdTypes DEF StoreChunk, Container
  <2>3. Bound(s)' >= Bound(s)
    BY <1>1, <2>1, <2>2 DEF Bound
  <2> QED
    BY <1>0, <2>1, <2>2, <2>3 DEF MoveStep
<1>10. ASSUME TakeDuplicate(s) \/ FlushRecipe(s) \/ WriteEntry(s) PROVE Goal
  <2>1. UNCHANGED <<container, containerQueue>>
    BY <1>10 DEF TakeDuplicate, FlushRecipe, WriteEntry
  <2>2. /\ spc[s] \in {"store", "entry"} /\ spc'[s] \in {"store", "entry"}
        /\ \A t \in Sessions \ {s} : spc'[t] = spc[t]
    BY <1>10, IdTypes DEF TakeDuplicate, FlushRecipe, WriteEntry, AtChunk, HasChunk, Goto
  <2> QED
    BY <1>2, <2>1, <2>2
<1>11. ASSUME InsertLastContainer(s) PROVE Goal
  <2>1. /\ container' = container /\ spc[s] = "last_container" /\ spc'[s] = "last_recipe"
        /\ \A t \in Sessions \ {s} : spc'[t] = spc[t]
    BY <1>11, IdTypes DEF InsertLastContainer, Goto
  <2>2. Bound(s) = container[s].id[2] /\ Bound(s)' = container[s].id[2] + 1
    BY <1>1, <2>1 DEF Bound
  <2>3. CASE insert_container_queue(s)
    BY <1>0, <2>1, <2>2, <2>3 DEF PushStep
  <2>4. CASE containerQueue' = containerQueue
    <3>1. Bound(s)' >= Bound(s)
      BY <1>1, <2>2
    <3> QED
      BY <1>0, <2>1, <2>4, <3>1 DEF MoveStep
  <2> QED
    BY <1>11, <2>3, <2>4 DEF InsertLastContainer
<1>12. ASSUME InsertLastRecipe(s) PROVE Goal
  <2>1. UNCHANGED <<container, containerQueue>>
    BY <1>12 DEF InsertLastRecipe
  <2>2. /\ spc[s] = "last_recipe" /\ spc'[s] = "join"
        /\ \A t \in Sessions \ {s} : spc'[t] = spc[t]
    BY <1>12, IdTypes DEF InsertLastRecipe, Goto
  <2>3. Bound(s)' >= Bound(s)
    BY <1>1, <2>1, <2>2 DEF Bound
  <2> QED
    BY <1>0, <2>1, <2>2, <2>3 DEF MoveStep
<1>13. ASSUME Join(s) PROVE Goal
  <2>1. /\ containerQueue' = containerQueue /\ spc[s] = "join" /\ spc'[s] = "order"
        /\ container'[s] = new_container(container[s])
        /\ \A t \in Sessions \ {s} : spc'[t] = spc[t] /\ container'[t] = container[t]
    BY <1>13, IdTypes DEF Join, Goto
  <2>2. container'[s].id[1] = s /\ container'[s].id[2] = container[s].id[2] + 1
    BY <1>0, <2>1, IdTypes, NewContainer
  <2>3. Bound(s)' >= Bound(s)
    BY <1>1, <2>1, <2>2 DEF Bound
  <2> QED
    BY <1>0, <2>1, <2>2, <2>3 DEF MoveStep
<1> QED
  BY <1>0, <1>3, <1>4, <1>5, <1>6, <1>7, <1>8, <1>9, <1>10, <1>11, <1>12, <1>13
     DEF HandlerStep, UploadStep, StoreStep, FinishStep

LEMMA HandlerIds ==
  ASSUME TypeInv, TypeInv', IdInv, NEW s \in Sessions, HandlerStep(s)
  PROVE  IdInv'
  BY HandlerMoves, IdMove, IdPush DEF MoveStep, PushStep

(* A step of the thread that saves containers.                             *)
LEMMA DataWriterIds ==
  ASSUME TypeInv, IdInv, NEW s \in Sessions, DataWriterStep(s)
  PROVE  IdInv' /\ containers \subseteq containers'
<1>0. UNCHANGED <<spc, container>> /\ container[s].id[1] = s
  BY DEF DataWriterStep, IdInv, IdAt
<1>1. Bound(s)' = Bound(s)
  BY <1>0 DEF Bound
<1>2. Ascending(s, containers, saving[s], containerQueue[s], Bound(s))
  BY DEF IdInv, IdAt
<1>3. CASE PopContainer(s)
  <2>1. /\ saving[s] = None /\ containerQueue[s] # << >> /\ containers' = containers
        /\ saving'[s] = Head(containerQueue[s]) /\ containerQueue'[s] = Tail(containerQueue[s])
    BY <1>3, IdTypes DEF PopContainer
  <2>2. \A t \in Sessions \ {s} : containerQueue'[t] = containerQueue[t] /\ saving'[t] = saving[t]
    BY <1>3, IdTypes DEF PopContainer
  <2>3. Ascending(s, containers, Head(containerQueue[s]), Tail(containerQueue[s]), Bound(s))
    BY <1>2, <2>1, IdTypes, AscendingPop
  <2>4. IdAt(s)'
    BY <1>0, <1>1, <2>1, <2>3 DEF IdAt
  <2> QED
    BY <1>0, <2>1, <2>2, <2>4, IdKept DEF IdView
<1>4. CASE SaveContainer(s)
  <2>1. /\ saving[s] # None /\ saving'[s] = None /\ containerQueue' = containerQueue
        /\ \A t \in Sessions \ {s} : saving'[t] = saving[t]
    BY <1>4, IdTypes DEF SaveContainer
  <2>2. saving[s] \in Container
    BY <2>1, IdTypes
  <2>3. /\ \A f \in containers : f.id # saving[s].id
        /\ Ascending(s, containers \cup {saving[s]}, None, containerQueue[s], Bound(s))
    BY <1>2, <2>2, IdTypes, AscendingSave
  <2>4. containers' = containers \cup {saving[s]}
    BY <1>4, <2>3 DEF SaveContainer
  <2>5. IdAt(s)'
    BY <1>0, <1>1, <2>1, <2>3, <2>4 DEF IdAt
  <2>6. saving[s].id[1] = s
    BY <1>2, <2>1 DEF Ascending
  <2> QED
    BY <1>0, <2>1, <2>4, <2>5, <2>6, IdKept DEF IdView
<1>5. CASE EndDataWriter(s)
  <2>1. UNCHANGED <<saving, containerQueue, containers>>
    BY <1>5 DEF EndDataWriter
  <2>2. IdInv'
    BY <1>0, <2>1 DEF IdInv, IdAt, Bound
  <2> QED
    BY <2>1, <2>2
<1> QED
  BY <1>3, <1>4, <1>5 DEF DataWriterStep

LEMMA InitIds == Init => IdInv
<1> SUFFICES ASSUME Init, NEW s \in Sessions PROVE IdAt(s)
  BY DEF IdInv
<1>1. /\ container[s].id = <<s, 0>> /\ containerQueue[s] = << >> /\ saving[s] = None
      /\ containers = {}
  BY DEF Init, ConnInit
<1> QED
  BY <1>1 DEF IdAt, Ascending

LEMMA NextIds ==
  ASSUME TypeInv, TypeInv', IdInv, [Next]_vars
  PROVE  IdInv' /\ containers \subseteq containers'
<1>1. ASSUME UNCHANGED <<spc, container, containerQueue, saving, containers>>
      PROVE  IdInv' /\ containers \subseteq containers'
  BY <1>1 DEF IdInv, IdAt, Bound
<1>2. ASSUME NEW s \in Sessions, ClientSide(s) PROVE IdInv' /\ containers \subseteq containers'
  BY <1>1, <1>2 DEF ClientSide, connVars, uploadVars, queueVars, writerVars
<1>3. ASSUME NEW s \in Sessions, RecipeWriterStep(s)
      PROVE  IdInv' /\ containers \subseteq containers'
  BY <1>1, <1>3 DEF RecipeWriterStep
<1>4. ASSUME UNCHANGED vars PROVE IdInv' /\ containers \subseteq containers'
  BY <1>1, <1>4 DEF vars, connVars, uploadVars, queueVars, writerVars
<1>5. ASSUME NEW s \in Sessions, HandlerStep(s) PROVE IdInv' /\ containers \subseteq containers'
  <2>1. containers' = containers
    BY <1>5 DEF HandlerStep, writerVars
  <2> QED
    BY <1>5, <2>1, HandlerIds
<1> QED
  BY <1>2, <1>3, <1>4, <1>5, DataWriterIds DEF Next, ServerSide, Idle

(* save_container never overwrites a file: whatever the interleaving of    *)
(* handlers and writer threads, the set of container files only grows.     *)
THEOREM ContainersKept == Spec => ContainersNeverChange
<1>1. TypeInv /\ TypeInv' /\ IdInv /\ [Next]_vars => IdInv'
  BY NextIds
<1>2. TypeInv /\ TypeInv' /\ IdInv /\ [Next]_vars => [containers \subseteq containers']_vars
  BY NextIds
<1> QED
  BY <1>1, <1>2, InitIds, TypeInvariant, PTL DEF Spec, ContainersNeverChange

----------------------------------------------------------------------------
(* Containers on their way, and the addresses that name their chunks.      *)

(* The writer of containers runs while a file is received, and leaves when *)
(* there is nothing left for it; no container exists outside of an upload, *)
(* and the last one has been queued before the handler joins.              *)
StoreAt(s) ==
  /\ dataWriter[s] = "none" <=> ~ Uploading(s)
  /\ ~ Uploading(s) => /\ container[s].data = << >> /\ containerQueue[s] = << >>
                       /\ saving[s] = None
  /\ done[s] => spc[s] = "join"
  /\ dataWriter[s] = "exit" => done[s] /\ containerQueue[s] = << >> /\ saving[s] = None
  /\ (spc[s] \in {"last_recipe", "join"} /\ container[s].data # << >>) =>
       container[s] \in containers \cup {saving[s]} \cup ToSet(containerQueue[s])

StoreInv == \A s \in Sessions : StoreAt(s)

(* Address a names chunk c, or L has the chunk, the container and the      *)
(* slot.  Here L is empty; in RecoveryProofs it has what faults spoil.     *)
Found(L, a, c) == Resolves(a, c) \/ <<c, a.id, a.slot>> \in L

(* IndexSound, but for the pairs in L.                                     *)
IndexAt(L) == \A c \in Chunks : m_all_chunks[c] # NoAddr => Found(L, m_all_chunks[c], c)

(* DuplicatesInStep of one session, also while it does not upload.         *)
DupAt(L, s) ==
  LET open == OpenDuplicates(s)
  IN /\ Len(dup[s]) = Cardinality(open)
     /\ \A i \in open : Found(L, dup[s][Rank(open, i)], hashList[s][i])

(* The address that goes into the recipe names the chunk at idx.           *)
EntryAt(L, s) ==
  spc[s] = "entry" => /\ chunkAddr[s] # NoAddr
                      /\ Found(L, chunkAddr[s], hashList[s][idx[s]])

AddressInv == IndexAt({}) /\ \A s \in Sessions : DupAt({}, s) /\ EntryAt({}, s)

----------------------------------------------------------------------------
(* Containers on their way to disk.                                        *)

LEMMA QueueSets ==
  ASSUME NEW T, NEW q \in Seq(T)
  PROVE  /\ \A c : ToSet(Append(q, c)) = ToSet(q) \cup {c}
         /\ q # << >> => ToSet(q) = {Head(q)} \cup ToSet(Tail(q))
         /\ ToSet(q) \subseteq T
<1>1. ASSUME NEW c PROVE ToSet(Append(q, c)) = ToSet(q) \cup {c}
  <2>1. /\ DOMAIN Append(q, c) = DOMAIN q \cup {Len(q) + 1} /\ Append(q, c)[Len(q) + 1] = c
        /\ \A k \in DOMAIN q : Append(q, c)[k] = q[k]
    OBVIOUS
  <2> QED
    BY <2>1 DEF ToSet
<1>2. ASSUME q # << >> PROVE ToSet(q) = {Head(q)} \cup ToSet(Tail(q))
  <2>1. /\ 1 \in DOMAIN q /\ Head(q) = q[1]
        /\ \A k \in DOMAIN Tail(q) : k + 1 \in DOMAIN q /\ Tail(q)[k] = q[k + 1]
        /\ \A k \in DOMAIN q : k = 1 \/ (k - 1 \in DOMAIN Tail(q) /\ q[k] = Tail(q)[k - 1])
    BY <1>2
  <2> DEFINE p == Tail(q)
  <2>2. \A k \in DOMAIN p : p[k] \in {q[j] : j \in DOMAIN q}
    BY <2>1
  <2>3. \A k \in DOMAIN q : q[k] \in {q[1]} \cup {p[j] : j \in DOMAIN p}
    BY <2>1
  <2> HIDE DEF p
  <2>4. {q[j] : j \in DOMAIN q} = {q[1]} \cup {p[j] : j \in DOMAIN p}
    BY <2>1, <2>2, <2>3
  <2> QED
    BY <2>1, <2>4 DEF ToSet, p
<1>3. \A k \in DOMAIN q : q[k] \in T
  OBVIOUS
<1> QED
  BY <1>1, <1>2, <1>3 DEF ToSet

LEMMA NoneEmpty == ToSet(<< >>) = {}
  BY DEF ToSet

LEMMA StoreKept ==
  ASSUME NEW t, StoreAt(t), spc'[t] = spc[t], StoreView(t)' = StoreView(t),
         containers \subseteq containers'
  PROVE  StoreAt(t)'
<1>1. /\ container'[t] = container[t] /\ containerQueue'[t] = containerQueue[t]
      /\ saving'[t] = saving[t] /\ done'[t] = done[t] /\ dataWriter'[t] = dataWriter[t]
  BY DEF StoreView
<1> QED
  BY <1>1 DEF StoreAt, Uploading

LEMMA DataWriterStore ==
  ASSUME TypeInv, IdInv, NEW s \in Sessions, DataWriterStep(s), StoreAt(s)
  PROVE  /\ StoreAt(s)' /\ containers \subseteq containers'
         /\ \A f \in InMemory(s) : f \in InMemory(s)' \cup containers'
<1>0. /\ UNCHANGED <<spc, container, done>> /\ dataWriter[s] = "run"
      /\ containers \subseteq containers'
  BY DataWriterIds DEF DataWriterStep
<1>1. /\ Uploading(s) /\ Uploading(s)' /\ TypeOK
      /\ containerQueue[s] \in Seq(Container) /\ container[s] \in Container
  BY <1>0, ViewTypes DEF StoreAt, Uploading, TypeInv
<1>2. CASE PopContainer(s)
  <2>1. /\ saving[s] = None /\ saving'[s] = Head(containerQueue[s])
        /\ containerQueue[s] # << >> /\ containerQueue'[s] = Tail(containerQueue[s])
        /\ dataWriter' = dataWriter
    BY <1>1, <1>2, ViewTypes DEF PopContainer
  <2>2. ToSet(containerQueue[s]) = {saving'[s]} \cup ToSet(containerQueue'[s])
    BY <1>1, <2>1, QueueSets
  <2>3. container[s] # None /\ None \notin ToSet(containerQueue[s])
    BY <1>1, QueueSets, NoneAssumption DEF NoneAssumption
  <2>4. StoreAt(s)'
    BY <1>0, <1>1, <2>1, <2>2, <2>3 DEF StoreAt
  <2>5. \A f \in InMemory(s) : f \in InMemory(s)'
    BY <1>0, <2>1, <2>2, <2>3 DEF InMemory
  <2> QED
    BY <1>0, <2>4, <2>5
<1>3. CASE SaveContainer(s)
  <2>1. /\ saving'[s] = None /\ UNCHANGED <<dataWriter, containerQueue>>
        /\ saving[s] \in containers'
    BY <1>1, <1>3, ViewTypes DEF SaveContainer
  <2>2. StoreAt(s)'
    BY <1>0, <1>1, <2>1 DEF StoreAt
  <2>3. \A f \in InMemory(s) : f \in InMemory(s)' \cup containers'
    BY <1>0, <1>1, <2>1, NoneAssumption DEF InMemory, NoneAssumption
  <2> QED
    BY <1>0, <2>2, <2>3
<1>4. CASE EndDataWriter(s)
  <2>1. /\ saving[s] = None /\ containerQueue[s] = << >> /\ done[s] /\ dataWriter'[s] = "exit"
        /\ UNCHANGED <<saving, containerQueue, containers>>
    BY <1>1, <1>4, ViewTypes DEF EndDataWriter
  <2>2. StoreAt(s)'
    BY <1>0, <1>1, <2>1 DEF StoreAt
  <2>3. \A f \in InMemory(s) : f \in InMemory(s)'
    BY <1>0, <2>1 DEF InMemory
  <2> QED
    BY <1>0, <2>2, <2>3
<1> QED
  BY <1>2, <1>3, <1>4 DEF DataWriterStep

(* Container g has what container f has.                                   *)
Extends(f, g) ==
  g.id = f.id /\ \A k \in DOMAIN f.data : k \in DOMAIN g.data /\ g.data[k] = f.data[k]

(* No container with chunks in it gets lost.                               *)
MemoryKept(s) ==
  \A f \in InMemory(s) :
    f.data = << >> \/ \E g \in InMemory(s)' \cup containers' : Extends(f, g)

LEMMA QueuedKept ==
  ASSUME TypeOK, NEW s \in Sessions, UNCHANGED saving, insert_container_queue(s)
  PROVE  /\ ToSet(containerQueue'[s]) = ToSet(containerQueue[s]) \cup {container[s]}
         /\ \A f \in InMemory(s) : f \in InMemory(s)'
<1>1. ToSet(containerQueue'[s]) = ToSet(containerQueue[s]) \cup {container[s]}
  BY ViewTypes, QueueSets DEF insert_container_queue
<1>2. container[s] # None
  BY ViewTypes, NoneAssumption DEF NoneAssumption
<1>3. saving'[s] = saving[s]
  OBVIOUS
<1> QED
  BY <1>1, <1>2, <1>3 DEF InMemory

LEMMA SameKept ==
  ASSUME NEW s, \A f \in InMemory(s) : f \in InMemory(s)' \cup containers'
  PROVE  MemoryKept(s)
  BY DEF MemoryKept, Extends

LEMMA HandlerStore ==
  ASSUME TypeInv, TypeInv', NEW s \in Sessions, HandlerStep(s), StoreAt(s)
  PROVE  StoreAt(s)' /\ MemoryKept(s)
<1>0. UNCHANGED <<saving, containers>> /\ TypeOK /\ saving'[s] = saving[s]
  BY DEF HandlerStep, writerVars, TypeInv
<1>1. ASSUME UNCHANGED <<container, containerQueue, done, dataWriter>>,
             Uploading(s)' <=> Uploading(s), spc'[s] \in {"last_recipe", "join"} => FALSE,
             ~ done[s]
      PROVE  StoreAt(s)' /\ MemoryKept(s)
  <2>1. StoreAt(s)'
    BY <1>0, <1>1 DEF StoreAt
  <2>2. MemoryKept(s)
    BY <1>0, <1>1, SameKept DEF InMemory
  <2> QED
    BY <2>1, <2>2
<1>2. CASE RunStep(s)
  <2>1. UNCHANGED <<container, containerQueue, done, dataWriter>>
    BY <1>2 DEF RunStep, uploadVars, queueVars, threadVars
  <2>2. spc[s] \in {"accepted", "order"} /\ spc'[s] \in {"order", "unique", "exist", "closed"}
    BY <1>0, <1>2, LockTypes DEF RunStep, Serve, RecvOrder, RecvQuit, Goto
  <2> QED
    BY <1>1, <2>1, <2>2 DEF StoreAt, Uploading
<1>3. CASE DownloadStep(s)
  <2>1. UNCHANGED <<container, containerQueue, done, dataWriter>>
    BY <1>3 DEF DownloadStep, uploadVars, queueVars, threadVars
  <2>2. /\ spc[s] \in {"exist", "open", "recipe", "chunk"}
        /\ spc'[s] \in {"open", "order", "recipe", "chunk"}
    BY <1>0, <1>3, LockTypes DEF DownloadStep, CheckExist, OpenForRead, ReadRecipe, ReadChunk,
                                 SendDownBody, SendFileEnd, Goto
  <2> QED
    BY <1>1, <2>1, <2>2 DEF StoreAt, Uploading
<1>4. CASE AdmitStep(s)
  <2>0. UNCHANGED <<container, containerQueue, done>>
    BY <1>4 DEF AdmitStep, queueVars
  <2>1. CASE CheckUnique(s)
    <3>1. /\ spc[s] = "unique" /\ spc'[s] \in {"add_file", "order"}
          /\ dataWriter' = dataWriter
      BY <1>0, <2>1, LockTypes DEF CheckUnique, Goto, threadVars
    <3> QED
      BY <1>1, <2>0, <3>1 DEF StoreAt, Uploading
  <2>2. CASE AddFile(s)
    <3>1. spc[s] = "add_file" /\ spc'[s] = "body" /\ dataWriter'[s] = "run"
      BY <1>0, <2>2, LockTypes, ViewTypes DEF AddFile, Goto
    <3>2. StoreAt(s)'
      BY <1>0, <2>0, <3>1 DEF StoreAt, Uploading
    <3>3. MemoryKept(s)
      BY <1>0, <2>0, SameKept DEF InMemory
    <3> QED
      BY <3>2, <3>3
  <2> QED
    BY <1>4, <2>1, <2>2 DEF AdmitStep
<1>5. CASE ReceiveStep(s)
  <2>1. UNCHANGED <<container, containerQueue, done, dataWriter>>
    BY <1>5 DEF ReceiveStep, queueVars, threadVars
  <2>2. spc[s] = "body" /\ spc'[s] \in {"store", "last_container"}
    BY <1>0, <1>5, LockTypes DEF ReceiveStep, RecvBody, RecvFileEnd, Goto
  <2> QED
    BY <1>1, <2>1, <2>2 DEF StoreAt, Uploading
<1>6. CASE QueryStep(s)
  <2>1. UNCHANGED <<container, containerQueue, done, dataWriter>>
    BY <1>6 DEF QueryStep, queueVars, threadVars
  <2>2. spc[s] \in {"store", "query"} /\ spc'[s] \in {"query", "body"}
    BY <1>0, <1>6, LockTypes DEF QueryStep, BeginQuery, QueryChunk, SendReply, Goto
  <2> QED
    BY <1>1, <2>1, <2>2 DEF StoreAt, Uploading
<1>7. CASE StoreStep(s)
  <2>0. UNCHANGED <<done, dataWriter>>
    BY <1>7 DEF StoreStep, threadVars
  <2>1. spc[s] \in {"store", "entry"} /\ spc'[s] \in {"store", "entry"}
    BY <1>0, <1>7, LockTypes DEF StoreStep, FlushContainer, StoreChunk, TakeDuplicate,
                                 FlushRecipe, WriteEntry, AtChunk, HasChunk, Goto
  <2>2. StoreAt(s)'
    BY <2>0, <2>1 DEF StoreAt, Uploading
  <2>3. CASE FlushContainer(s)
    BY <1>0, <2>2, <2>3, QueuedKept, SameKept DEF FlushContainer
  <2>4. CASE StoreChunk(s)
    <3> DEFINE g == container'[s]
    <3>1. /\ g.id = container[s].id /\ g.data = Append(container[s].data, Received(s, idx[s]))
          /\ containerQueue' = containerQueue
      BY <1>0, <2>4, ViewTypes DEF StoreChunk, Container
    <3>2. container[s].data \in Seq(Bytes)
      BY <1>0, ViewTypes DEF Container
    <3>3. Extends(container[s], g)
      BY <3>1, <3>2 DEF Extends
    <3>4. g # None
      <4>1. g \in Container
        BY DEF TypeInv, TypeOK, ConnTypeOK
      <4> QED
        BY <4>1, NoneAssumption DEF NoneAssumption
    <3>5. g \in InMemory(s)'
      BY <3>4 DEF InMemory
    <3>6. \A f \in InMemory(s) : f = container[s] \/ f \in InMemory(s)'
      BY <1>0, <3>1 DEF InMemory
    <3>7. MemoryKept(s)
      BY <3>3, <3>5, <3>6 DEF MemoryKept, Extends
    <3> QED
      BY <2>2, <3>7
  <2>5. CASE TakeDuplicate(s) \/ FlushRecipe(s) \/ WriteEntry(s)
    <3>1. UNCHANGED <<container, containerQueue>>
      BY <2>5 DEF TakeDuplicate, FlushRecipe, WriteEntry
    <3> QED
      BY <1>0, <2>2, <3>1, SameKept DEF InMemory
  <2> QED
    BY <1>7, <2>3, <2>4, <2>5 DEF StoreStep
<1>8. CASE InsertLastContainer(s)
  <2>1. /\ UNCHANGED <<container, done, dataWriter>> /\ spc[s] = "last_container"
        /\ spc'[s] = "last_recipe"
    BY <1>0, <1>8, LockTypes DEF InsertLastContainer, Goto, threadVars
  <2>2. CASE container[s].data # << >> /\ insert_container_queue(s)
    <3>1. StoreAt(s)'
      BY <1>0, <2>1, <2>2, QueuedKept DEF StoreAt, Uploading
    <3> QED
      BY <1>0, <2>2, <3>1, QueuedKept, SameKept
  <2>3. CASE container[s].data = << >> /\ containerQueue' = containerQueue
    <3>1. StoreAt(s)'
      BY <1>0, <2>1, <2>3 DEF StoreAt, Uploading
    <3> QED
      BY <1>0, <2>1, <2>3, <3>1, SameKept DEF InMemory
  <2> QED
    BY <1>8, <2>2, <2>3 DEF InsertLastContainer
<1>9. CASE InsertLastRecipe(s)
  <2>1. /\ UNCHANGED <<container, containerQueue, dataWriter>> /\ spc[s] = "last_recipe"
        /\ spc'[s] = "join" /\ done'[s] = TRUE
    BY <1>0, <1>9, LockTypes, ViewTypes DEF InsertLastRecipe, Goto, threadVars
  <2>2. StoreAt(s)'
    BY <1>0, <2>1 DEF StoreAt, Uploading
  <2> QED
    BY <1>0, <2>1, <2>2, SameKept DEF InMemory
<1>10. CASE Join(s)
  <2>1. /\ spc[s] = "join" /\ spc'[s] = "order" /\ dataWriter[s] = "exit"
        /\ dataWriter'[s] = "none" /\ done'[s] = FALSE /\ containerQueue' = containerQueue
        /\ container'[s] = new_container(container[s])
    BY <1>0, <1>10, LockTypes, ViewTypes DEF Join, Goto
  <2>2. /\ saving[s] = None /\ containerQueue[s] = << >>
        /\ container[s].data # << >> => container[s] \in containers \cup {None}
    BY <2>1, NoneEmpty DEF StoreAt
  <2>3. container[s] # None
    BY <1>0, ViewTypes, NoneAssumption DEF NoneAssumption
  <2>4. StoreAt(s)'
    BY <1>0, <2>1, <2>2 DEF StoreAt, Uploading, new_container
  <2>5. MemoryKept(s)
    BY <1>0, <2>2, <2>3, NoneEmpty DEF MemoryKept, InMemory, Extends
  <2> QED
    BY <2>4, <2>5
<1> QED
  BY <1>2, <1>3, <1>4, <1>5, <1>6, <1>7, <1>8, <1>9, <1>10
     DEF HandlerStep, UploadStep, FinishStep

(* An address that names a chunk goes on naming it.                        *)
AddressesKept(L) == \A a, c : Found(L, a, c) => Found(L, a, c)'

LEMMA ResolvesKept ==
  ASSUME NEW s \in Sessions, containers \subseteq containers', MemoryKept(s),
         \A t \in Sessions \ {s} : InMemory(t)' = InMemory(t)
  PROVE  AddressesKept({})
<1> SUFFICES ASSUME NEW a, NEW c, Resolves(a, c) PROVE Resolves(a, c)'
  BY DEF AddressesKept, Found
<1>1. CASE OnDisk(a, c)
  BY <1>1 DEF Resolves, OnDisk, Holds
<1>2. ASSUME NEW t \in Sessions, NEW f \in InMemory(t), Holds(f, a, c) PROVE Resolves(a, c)'
  <2>1. CASE t # s
    BY <1>2, <2>1 DEF Resolves, Holds
  <2>2. CASE t = s
    <3>1. f.data # << >>
      BY <1>2 DEF Holds
    <3>2. PICK g \in InMemory(s)' \cup containers' : Extends(f, g)
      BY <2>2, <3>1 DEF MemoryKept
    <3>3. Holds(g, a, c)
      BY <1>2, <3>2 DEF Holds, Extends
    <3> QED
      BY <3>3 DEF Resolves, OnDisk, Holds
  <2> QED
    BY <2>1, <2>2
<1> QED
  BY <1>1, <1>2 DEF Resolves

LEMMA NextStore ==
  ASSUME TypeInv, TypeInv', IdInv, StoreInv, [Next]_vars
  PROVE  StoreInv' /\ AddressesKept({})
<1>0. TypeOK /\ containers \subseteq containers'
  BY NextIds DEF TypeInv
<1>1. ASSUME NEW t, TalkView(t)' = TalkView(t), StoreView(t)' = StoreView(t)
      PROVE  InMemory(t)' = InMemory(t) /\ spc'[t] = spc[t]
  BY <1>1 DEF TalkView, StoreView, InMemory
<1>2. ASSUME NEW s \in Sessions, StoreAt(s)', MemoryKept(s),
             \A t \in Sessions \ {s} : TalkView(t)' = TalkView(t) /\ StoreView(t)' = StoreView(t)
      PROVE  StoreInv' /\ AddressesKept({})
  <2>1. AddressesKept({})
    BY <1>0, <1>1, <1>2, ResolvesKept
  <2>2. \A t \in Sessions \ {s} : StoreAt(t)'
    BY <1>0, <1>1, <1>2, StoreKept DEF StoreInv
  <2> QED
    BY <1>2, <2>1, <2>2 DEF StoreInv
<1>3. ASSUME NEW s \in Sessions, TalkView(s)' = TalkView(s), StoreView(s)' = StoreView(s)
      PROVE  StoreAt(s)' /\ MemoryKept(s)
  BY <1>0, <1>1, <1>3, StoreKept, SameKept DEF StoreInv
<1>4. ASSUME NEW s \in Sessions, ClientSide(s) PROVE StoreInv' /\ AddressesKept({})
  <2>1. spc'[s] = spc[s] /\ StoreView(s)' = StoreView(s) /\ InMemory(s)' = InMemory(s)
    BY <1>4 DEF ClientSide, connVars, uploadVars, queueVars, threadVars, writerVars,
                StoreView, InMemory
  <2>2. StoreAt(s)' /\ MemoryKept(s)
    BY <1>0, <2>1, StoreKept, SameKept DEF StoreInv
  <2> QED
    BY <1>0, <1>2, <1>4, <2>2, ClientOthers
<1>5. ASSUME NEW s \in Sessions, HandlerStep(s), UNCHANGED <<job, clientVars>>
      PROVE  StoreInv' /\ AddressesKept({})
  BY <1>0, <1>2, <1>5, HandlerStore, HandlerOthers DEF StoreInv
<1>6. ASSUME NEW s \in Sessions, DataWriterStep(s), UNCHANGED <<job, clientVars>>
      PROVE  StoreInv' /\ AddressesKept({})
  BY <1>0, <1>2, <1>6, DataWriterStore, SameKept, WriterOthers DEF StoreInv
<1>7. ASSUME NEW s \in Sessions, RecipeWriterStep(s), UNCHANGED <<job, clientVars>>
      PROVE  StoreInv' /\ AddressesKept({})
  <2>1. UNCHANGED <<spc, container, containerQueue, saving, done, dataWriter>>
    BY <1>7 DEF RecipeWriterStep
  <2>2. StoreAt(s)' /\ MemoryKept(s)
    BY <1>0, <2>1, SameKept DEF StoreInv, StoreAt, Uploading, InMemory
  <2> QED
    BY <1>0, <1>2, <1>7, <2>2, WriterOthers
<1>8. ASSUME UNCHANGED vars PROVE StoreInv' /\ AddressesKept({})
  <2>1. UNCHANGED <<spc, container, containerQueue, saving, done, dataWriter, containers>>
    BY <1>8 DEF vars, connVars, uploadVars, queueVars, threadVars, writerVars
  <2>2. StoreInv'
    BY <2>1 DEF StoreInv, StoreAt, Uploading
  <2>3. AddressesKept({})
    BY <2>1 DEF AddressesKept, Found, Resolves, OnDisk, InMemory
  <2> QED
    BY <2>2, <2>3
<1> QED
  BY <1>4, <1>5, <1>6, <1>7, <1>8, StepOfOne

LEMMA InitStore == Init => StoreInv
<1> SUFFICES ASSUME Init, NEW s \in Sessions PROVE StoreAt(s)
  BY DEF StoreInv
<1>1. /\ spc[s] = "accepted" /\ dataWriter[s] = "none" /\ container[s].data = << >>
      /\ containerQueue[s] = << >> /\ saving[s] = None /\ done[s] = FALSE
  BY DEF Init, ConnInit
<1> QED
  BY <1>1 DEF StoreAt, Uploading

----------------------------------------------------------------------------
(* The queue of duplicates.                                                *)

LEMMA OpenSet ==
  ASSUME TypeOK, NEW s \in Sessions
  PROVE  /\ OpenDuplicates(s) \subseteq 1 .. Len(flags[s]) /\ IsFiniteSet(OpenDuplicates(s))
         /\ Len(flags[s]) \in Nat /\ DOMAIN flags[s] = 1 .. Len(flags[s])
<1>1. flags[s] \in Seq({0, 1})
  BY LockTypes
<1>2. Len(flags[s]) \in Nat /\ DOMAIN flags[s] = 1 .. Len(flags[s])
  BY <1>1
<1>3. OpenDuplicates(s) \subseteq 1 .. Len(flags[s])
  BY <1>2 DEF OpenDuplicates
<1>4. IsFiniteSet(1 .. Len(flags[s]))
  BY <1>2, FS_Interval
<1> QED
  BY <1>2, <1>3, <1>4, FS_Subset

LEMMA RankAdd ==
  ASSUME NEW S \in SUBSET Nat, IsFiniteSet(S), NEW n \in Nat, \A j \in S : j < n
  PROVE  /\ Cardinality(S \cup {n}) = Cardinality(S) + 1
         /\ Rank(S \cup {n}, n) = Cardinality(S) + 1
         /\ \A i \in S : Rank(S \cup {n}, i) = Rank(S, i)
<1>1. n \notin S
  OBVIOUS
<1>2. Cardinality(S \cup {n}) = Cardinality(S) + 1
  BY <1>1, FS_AddElement
<1>3. {j \in S \cup {n} : j <= n} = S \cup {n}
  <2>1. \A j \in S \cup {n} : j <= n
    OBVIOUS
  <2> QED
    BY <2>1
<1>4. \A i \in S : {j \in S \cup {n} : j <= i} = {j \in S : j <= i}
  <2>1. \A i \in S : ~ (n <= i)
    OBVIOUS
  <2> QED
    BY <2>1
<1> QED
  BY <1>2, <1>3, <1>4 DEF Rank

LEMMA RankLeast ==
  ASSUME NEW S \in SUBSET Nat, IsFiniteSet(S), NEW n \in S, \A j \in S : n <= j
  PROVE  /\ Cardinality(S \ {n}) = Cardinality(S) - 1
         /\ Cardinality(S) \in Nat /\ Cardinality(S) > 0
         /\ Rank(S, n) = 1
         /\ \A i \in S \ {n} : /\ Rank(S, i) = Rank(S \ {n}, i) + 1
                              /\ Rank(S \ {n}, i) \in 1 .. Cardinality(S) - 1
<1>0. Cardinality(S) \in Nat /\ Cardinality(S) > 0
  BY FS_CardinalityType, FS_EmptySet
<1>1. Cardinality(S \ {n}) = Cardinality(S) - 1
  BY FS_RemoveElement
<1>2. Rank(S, n) = 1
  <2>1. n <= n /\ \A j \in S : j <= n => j = n
    OBVIOUS
  <2>2. {j \in S : j <= n} = {n}
    BY <2>1
  <2> QED
    BY <2>2, FS_Singleton DEF Rank
<1>3. ASSUME NEW i \in S \ {n}
      PROVE  /\ Rank(S, i) = Rank(S \ {n}, i) + 1
             /\ Rank(S \ {n}, i) \in 1 .. Cardinality(S) - 1
  <2> DEFINE A == {j \in S \ {n} : j <= i}
  <2>1. {j \in S : j <= i} = A \cup {n} /\ n \notin A /\ A \subseteq S \ {n} /\ i \in A
    OBVIOUS
  <2>2. IsFiniteSet(S \ {n})
    BY FS_RemoveElement
  <2> HIDE DEF A
  <2>3. IsFiniteSet(A) /\ Cardinality(A) <= Cardinality(S \ {n}) /\ Cardinality(A) \in Nat
    BY <2>1, <2>2, FS_Subset, FS_CardinalityType
  <2>4. Cardinality(A) # 0
    BY <2>1, <2>3, FS_EmptySet
  <2>5. Cardinality(A \cup {n}) = Cardinality(A) + 1
    BY <2>1, <2>3, FS_AddElement
  <2>6. Rank(S, i) = Cardinality(A \cup {n}) /\ Rank(S \ {n}, i) = Cardinality(A)
    BY <2>1 DEF Rank, A
  <2> QED
    BY <1>0, <1>1, <2>3, <2>4, <2>5, <2>6
<1> QED
  BY <1>0, <1>1, <1>2, <1>3

LEMMA RankIn ==
  ASSUME NEW S \in SUBSET Nat, IsFiniteSet(S), NEW i \in S
  PROVE  Rank(S, i) \in 1 .. Cardinality(S)
<1> DEFINE A == {j \in S : j <= i}
<1>1. A \subseteq S /\ i \in A
  OBVIOUS
<1> HIDE DEF A
<1>2. IsFiniteSet(A) /\ Cardinality(A) <= Cardinality(S) /\ Cardinality(A) \in Nat
  BY <1>1, FS_Subset, FS_CardinalityType
<1>3. Cardinality(A) # 0
  BY <1>1, <1>2, FS_EmptySet
<1>4. Cardinality(S) \in Nat
  BY FS_CardinalityType
<1> QED
  BY <1>2, <1>3, <1>4 DEF Rank, A

(* A step that neither looks up nor stores a chunk.                        *)
LEMMA DupSame ==
  ASSUME NEW L, NEW s, DupAt(L, s), AddressesKept(L), dup'[s] = dup[s],
         OpenDuplicates(s)' = OpenDuplicates(s),
         \A i \in OpenDuplicates(s) : hashList'[s][i] = hashList[s][i]
  PROVE  DupAt(L, s)'
  BY DEF DupAt, AddressesKept

LEMMA OpenSame ==
  ASSUME NEW s, flags'[s] = flags[s],
         \/ spc'[s] = spc[s] /\ idx'[s] = idx[s]
         \/ spc[s] \notin {"store", "entry"} /\ spc'[s] \notin {"store", "entry"}
  PROVE  OpenDuplicates(s)' = OpenDuplicates(s)
  BY DEF OpenDuplicates

(* The chunk at idx is stored: what the client sent for it is the chunk.   *)
LEMMA ReceivedRight ==
  ASSUME TypeOK, NEW s \in Sessions, LockAt(s), AtChunk(s, 1)
  PROVE  /\ idx[s] \in DOMAIN hashList[s] /\ hashList[s][idx[s]] \in Chunks
         /\ Received(s, idx[s]) = hashList[s][idx[s]]
<1>1. /\ spc[s] = "store" /\ idx[s] <= Len(hashList[s]) /\ flags[s][idx[s]] = 1
      /\ idx[s] \in Nat \ {0} /\ hashList[s] \in Seq(Chunks) /\ flags[s] \in Seq({0, 1})
  BY LockTypes DEF AtChunk, HasChunk
<1>2. idx[s] \in DOMAIN hashList[s] /\ hashList[s][idx[s]] \in Chunks
  BY <1>1
<1>3. idx[s] \in DOMAIN flags[s]
  <2>1. Len(flags[s]) = Len(hashList[s])
    BY <1>1 DEF LockAt, QueryAt
  <2> QED
    BY <1>1, <2>1
<1>4. Answers(s, inMsg[s].data)
  BY <1>1, ServerPhase DEF Storing
<1> QED
  BY <1>1, <1>2, <1>3, <1>4 DEF Answers, Received

LEMMA StoreChunkAddress ==
  ASSUME NEW L, TypeInv, TypeInv', NEW s \in Sessions, LockAt(s), StoreChunk(s),
         UNCHANGED hashList,
         IndexAt(L), AddressesKept(L)
  PROVE  IndexAt(L)' /\ EntryAt(L, s)' /\ hashList[s][idx[s]] \in Chunks
<1>a. PICK a : a = [id |-> container[s].id, slot |-> Len(container[s].data) + 1]
  OBVIOUS
<1>c. PICK c : c = hashList[s][idx[s]]
  OBVIOUS
<1>g. PICK g : g = container'[s]
  OBVIOUS
<1>0. TypeOK /\ TypeOK' /\ AtChunk(s, 1)
  BY DEF TypeInv, StoreChunk, HasChunk
<1>1. c \in Chunks /\ Received(s, idx[s]) = c
  BY <1>0, <1>c, ReceivedRight
<1>2. g.id = container[s].id /\ g.data = Append(container[s].data, Received(s, idx[s]))
  BY <1>0, <1>g, ViewTypes DEF StoreChunk, Container
<1>3. container[s] \in Container /\ container[s].data \in Seq(Bytes) /\ container[s].id \in ContainerId
  BY <1>0, ViewTypes DEF Container
<1>4. Holds(g, a, c)
  BY <1>1, <1>2, <1>3, <1>a DEF Holds
<1>5. g \in Container
  BY <1>g DEF TypeInv, TypeOK, ConnTypeOK
<1>6. g \in InMemory(s)'
  BY <1>5, <1>g, NoneAssumption DEF InMemory, NoneAssumption
<1>7. Found(L, a, c)'
  BY <1>4, <1>6 DEF Found, Resolves, Holds
<1>8. a \in Addr /\ a # NoAddr
  BY <1>3, <1>a, NoAddrAssumption DEF Addr, NoAddrAssumption
<1>9. chunkAddr'[s] = a /\ addChunk(c, a)
  BY <1>0, <1>a, <1>c, ViewTypes DEF StoreChunk
<1>10. EntryAt(L, s)'
  <2>1. hashList'[s][idx'[s]] = c
    BY <1>c DEF StoreChunk
  <2> QED
    BY <1>7, <1>8, <1>9, <2>1 DEF EntryAt
<1>11. \A d \in Chunks : m_all_chunks'[d] = m_all_chunks[d] \/ (d = c /\ m_all_chunks'[d] = a)
  BY <1>0, <1>1, <1>9, ViewTypes DEF addChunk
<1>12. IndexAt(L)'
  BY <1>7, <1>11 DEF IndexAt, AddressesKept
<1> QED
  BY <1>1, <1>10, <1>12, <1>c

LEMMA TakeDuplicateAddress ==
  ASSUME NEW L, TypeInv, NEW s \in Sessions, LockAt(s), TakeDuplicate(s),
         UNCHANGED <<hashList, flags>>, DupAt(L, s), AddressesKept(L)
  PROVE  DupAt(L, s)' /\ EntryAt(L, s)'
<1>0. TypeOK
  BY DEF TypeInv
<1>1. /\ spc[s] = "store" /\ idx[s] <= Len(hashList[s]) /\ flags[s][idx[s]] = 0
      /\ spc'[s] = "entry" /\ idx' = idx /\ idx[s] \in Nat \ {0}
  BY <1>0, LockTypes DEF TakeDuplicate, AtChunk, HasChunk, Goto
<1> DEFINE S == OpenDuplicates(s)
           i == idx[s]
<1>2. /\ S \subseteq 1 .. Len(flags[s]) /\ IsFiniteSet(S) /\ Len(flags[s]) \in Nat
      /\ DOMAIN flags[s] = 1 .. Len(flags[s])
  BY <1>0, OpenSet
<1>3. i \in S /\ (\A j \in S : i <= j) /\ OpenDuplicates(s)' = S \ {i}
  <2>1. Len(flags[s]) = Len(hashList[s])
    BY <1>1 DEF LockAt, QueryAt
  <2>2. S = {j \in DOMAIN flags[s] : j >= i /\ flags[s][j] = 0}
    BY <1>1 DEF OpenDuplicates
  <2>3. OpenDuplicates(s)' = {j \in DOMAIN flags[s] : j >= i + 1 /\ flags[s][j] = 0}
    BY <1>1 DEF OpenDuplicates
  <2>4. \A j \in DOMAIN flags[s] : j >= i + 1 <=> j >= i /\ j # i
    BY <1>1, <1>2
  <2>5. i \in DOMAIN flags[s] /\ i >= i
    BY <1>1, <1>2, <2>1
  <2>6. \A j \in S : i <= j
    BY <1>1, <1>2, <2>2
  <2> HIDE DEF S
  <2>7. OpenDuplicates(s)' = S \ {i}
    BY <2>2, <2>3, <2>4
  <2> QED
    BY <1>1, <2>2, <2>5, <2>6, <2>7
<1>4. S \in SUBSET Nat
  BY <1>2
<1> HIDE DEF S, i
<1>5. /\ Cardinality(S \ {i}) = Cardinality(S) - 1
      /\ Cardinality(S) \in Nat /\ Cardinality(S) > 0
      /\ Rank(S, i) = 1
      /\ \A j \in S \ {i} : /\ Rank(S, j) = Rank(S \ {i}, j) + 1
                           /\ Rank(S \ {i}, j) \in 1 .. Cardinality(S) - 1
  BY <1>2, <1>3, <1>4, RankLeast
<1>6. /\ Len(dup[s]) = Cardinality(S) /\ dup[s] \in Seq(Addr)
      /\ \A j \in S : Found(L, dup[s][Rank(S, j)], hashList[s][j])
  BY <1>0, ViewTypes DEF DupAt, S
<1>7. dup[s] # << >> /\ dup[s][1] \in Addr /\ Head(dup[s]) = dup[s][1]
  BY <1>5, <1>6
<1>8. /\ dup'[s] = Tail(dup[s]) /\ chunkAddr'[s] = dup[s][1]
  BY <1>0, <1>7, ViewTypes DEF TakeDuplicate
<1>9. EntryAt(L, s)'
  <2>1. Found(L, dup[s][1], hashList[s][i])
    BY <1>3, <1>5, <1>6
  <2>2. chunkAddr'[s] # NoAddr
    BY <1>7, <1>8, NoAddrAssumption DEF NoAddrAssumption
  <2>3. PICK a, c : a = dup[s][1] /\ c = hashList[s][i] /\ Found(L, a, c)
    BY <2>1
  <2>4. Found(L, a, c)'
    BY <2>3 DEF AddressesKept
  <2> QED
    BY <1>1, <1>8, <2>2, <2>3, <2>4 DEF EntryAt, i
<1>10. DupAt(L, s)'
  <2>1. /\ Len(Tail(dup[s])) = Cardinality(S) - 1
        /\ \A k \in 1 .. Cardinality(S) - 1 : Tail(dup[s])[k] = dup[s][k + 1]
    BY <1>5, <1>6, <1>7
  <2>2. \A j \in S \ {i} : Tail(dup[s])[Rank(S \ {i}, j)] = dup[s][Rank(S, j)]
    BY <1>5, <2>1
  <2>3. ASSUME NEW j \in S \ {i}, NEW r, r = Rank(S \ {i}, j)
        PROVE  Found(L, dup[s][r], hashList[s][j])'
    <3>1. PICK a, c : a = dup[s][Rank(S, j)] /\ c = hashList[s][j] /\ Found(L, a, c)
      BY <1>6
    <3>2. dup'[s][r] = a /\ hashList'[s][j] = c
      BY <1>8, <2>2, <2>3, <3>1
    <3> QED
      BY <3>1, <3>2 DEF AddressesKept
  <2> QED
    BY <1>3, <1>5, <1>8, <2>1, <2>3 DEF DupAt
<1> QED
  BY <1>9, <1>10

LEMMA QueryChunkAddress ==
  ASSUME NEW L, TypeInv, NEW s \in Sessions, LockAt(s), QueryChunk(s), IndexAt(L), DupAt(L, s),
         AddressesKept(L)
  PROVE  DupAt(L, s)'
<1>0. TypeOK
  BY DEF TypeInv
<1> DEFINE S == OpenDuplicates(s)
           n == idx[s]
           c == hashList[s][n]
<1>1. /\ spc[s] = "query" /\ n <= Len(hashList[s]) /\ UNCHANGED <<spc, hashList>>
      /\ n \in Nat \ {0} /\ hashList[s] \in Seq(Chunks) /\ flags[s] \in Seq({0, 1})
      /\ dup[s] \in Seq(Addr)
  BY <1>0, LockTypes, ViewTypes DEF QueryChunk
<1>2. /\ S \subseteq 1 .. Len(flags[s]) /\ IsFiniteSet(S) /\ Len(flags[s]) \in Nat
      /\ DOMAIN flags[s] = 1 .. Len(flags[s])
  BY <1>0, OpenSet
<1>3. Len(flags[s]) = n - 1 /\ c \in Chunks
  BY <1>1 DEF LockAt, QueryAt
<1>4. /\ S = {j \in 1 .. n - 1 : j >= 1 /\ flags[s][j] = 0}
      /\ OpenDuplicates(s)' = {j \in DOMAIN flags'[s] : j >= 1 /\ flags'[s][j] = 0}
  BY <1>1, <1>2, <1>3 DEF OpenDuplicates
<1>5. \A e \in {0, 1} : /\ DOMAIN Append(flags[s], e) = 1 .. n
                        /\ \A j \in 1 .. n - 1 : Append(flags[s], e)[j] = flags[s][j]
                        /\ Append(flags[s], e)[n] = e
  BY <1>1, <1>2, <1>3
<1>6. 1 .. n = (1 .. n - 1) \cup {n} /\ n >= 1 /\ n \notin 1 .. n - 1
  BY <1>1
<1> HIDE DEF S, n
<1>7. S \in SUBSET Nat /\ \A j \in S : j < n
  BY <1>2, <1>3, <1>1
<1>8. CASE isChunkStored(c)
  <2>1. flags'[s] = Append(flags[s], 0) /\ dup'[s] = Append(dup[s], m_all_chunks[c])
    BY <1>0, <1>8, LockTypes, ViewTypes DEF QueryChunk, n
  <2>2. OpenDuplicates(s)' = S \cup {n}
    BY <1>4, <1>5, <1>6, <2>1
  <2>3. /\ Cardinality(S \cup {n}) = Cardinality(S) + 1
        /\ Rank(S \cup {n}, n) = Cardinality(S) + 1
        /\ \A j \in S : Rank(S \cup {n}, j) = Rank(S, j)
    BY <1>1, <1>2, <1>7, RankAdd
  <2>4. Len(dup[s]) = Cardinality(S) /\ \A j \in S : Found(L, dup[s][Rank(S, j)], hashList[s][j])
    BY DEF DupAt, S
  <2>5. \A j \in S : Rank(S, j) \in 1 .. Cardinality(S)
    BY <1>2, <1>7, RankIn
  <2>6. /\ Len(dup'[s]) = Cardinality(S) + 1 /\ dup'[s][Cardinality(S) + 1] = m_all_chunks[c]
        /\ \A k \in 1 .. Cardinality(S) : dup'[s][k] = dup[s][k]
    BY <1>1, <2>1, <2>4
  <2>7. Found(L, m_all_chunks[c], c)
    BY <1>3, <1>8 DEF isChunkStored, IndexAt
  <2>8. ASSUME NEW j \in S \cup {n}, NEW r, r = Rank(S \cup {n}, j)
        PROVE  Found(L, dup[s][r], hashList[s][j])'
    <3>1. PICK b, d : b = dup'[s][r] /\ d = hashList[s][j] /\ Found(L, b, d)
      <4>1. CASE j = n
        <5>1. dup'[s][r] = m_all_chunks[c] /\ hashList[s][j] = c
          BY <2>3, <2>6, <2>8, <4>1
        <5> QED
          BY <2>7, <5>1
      <4>2. CASE j \in S
        <5>1. r = Rank(S, j) /\ dup'[s][r] = dup[s][r]
          BY <2>3, <2>5, <2>6, <2>8, <4>2
        <5> QED
          BY <2>4, <4>2, <5>1
      <4> QED
        BY <4>1, <4>2
    <3>2. hashList'[s][j] = d
      BY <1>1, <3>1
    <3> QED
      BY <3>1, <3>2 DEF AddressesKept
  <2> QED
    BY <2>2, <2>3, <2>6, <2>8 DEF DupAt
<1>9. CASE ~ isChunkStored(c)
  <2>1. flags'[s] = Append(flags[s], 1) /\ dup' = dup
    BY <1>0, <1>9, LockTypes DEF QueryChunk, n
  <2>2. OpenDuplicates(s)' = S
    BY <1>4, <1>5, <1>6, <2>1
  <2> QED
    BY <1>1, <2>1, <2>2, DupSame DEF S
<1> QED
  BY <1>8, <1>9

LEMMA HandlerAddress ==
  ASSUME NEW L, TypeInv, TypeInv', NEW s \in Sessions, HandlerStep(s), LockAt(s), IndexAt(L),
         DupAt(L, s), EntryAt(L, s), AddressesKept(L)
  PROVE  IndexAt(L)' /\ DupAt(L, s)' /\ EntryAt(L, s)'
<1>0. TypeOK /\ idx[s] \in Nat \ {0}
  BY LockTypes DEF TypeInv
<1>1. ASSUME UNCHANGED m_all_chunks PROVE IndexAt(L)'
  BY <1>1 DEF IndexAt, AddressesKept
<1>2. ASSUME UNCHANGED <<dup, flags, hashList>>, spc'[s] \notin {"store", "entry"},
             spc[s] \notin {"store", "entry"}
      PROVE  DupAt(L, s)' /\ EntryAt(L, s)'
  BY <1>2, OpenSame, DupSame DEF EntryAt
<1>3. CASE RunStep(s)
  <2>1. UNCHANGED <<m_all_chunks, dup, flags, hashList>>
    BY <1>3 DEF RunStep, serverVars, uploadVars
  <2>2. spc[s] \in {"accepted", "order"} /\ spc'[s] \in {"order", "unique", "exist", "closed"}
    BY <1>0, <1>3, LockTypes DEF RunStep, Serve, RecvOrder, RecvQuit, Goto
  <2> QED
    BY <1>1, <1>2, <2>1, <2>2
<1>4. CASE DownloadStep(s)
  <2>1. UNCHANGED <<m_all_chunks, dup, flags, hashList>>
    BY <1>4 DEF DownloadStep, serverVars, uploadVars
  <2>2. /\ spc[s] \in {"exist", "open", "recipe", "chunk"}
        /\ spc'[s] \in {"open", "order", "recipe", "chunk"}
    BY <1>0, <1>4, LockTypes DEF DownloadStep, CheckExist, OpenForRead, ReadRecipe, ReadChunk,
                                 SendDownBody, SendFileEnd, Goto
  <2> QED
    BY <1>1, <1>2, <2>1, <2>2
<1>5. CASE AdmitStep(s)
  <2>1. UNCHANGED <<m_all_chunks, dup, flags, hashList>>
    BY <1>5 DEF AdmitStep
  <2>2. spc[s] \in {"unique", "add_file"} /\ spc'[s] \in {"add_file", "order", "body"}
    BY <1>0, <1>5, LockTypes DEF AdmitStep, CheckUnique, AddFile, Goto
  <2> QED
    BY <1>1, <1>2, <2>1, <2>2
<1>6. CASE ReceiveStep(s)
  <2>1. UNCHANGED <<m_all_chunks, dup, flags, hashList>> /\ spc[s] = "body"
    BY <1>6 DEF ReceiveStep, serverVars
  <2>2. CASE RecvBody(s)
    <3>1. spc'[s] = "store" /\ idx'[s] = 1
      BY <1>0, <2>2, LockTypes DEF RecvBody, Goto
    <3>2. OpenDuplicates(s)' = OpenDuplicates(s)
      BY <2>1, <3>1 DEF OpenDuplicates
    <3>3. DupAt(L, s)' /\ EntryAt(L, s)'
      BY <2>1, <3>1, <3>2, DupSame DEF EntryAt
    <3> QED
      BY <1>1, <2>1, <3>3
  <2>3. CASE RecvFileEnd(s)
    <3>1. spc'[s] = "last_container"
      BY <1>0, <2>3, LockTypes DEF RecvFileEnd, Goto
    <3> QED
      BY <1>1, <1>2, <2>1, <3>1
  <2> QED
    BY <1>6, <2>2, <2>3 DEF ReceiveStep
<1>7. CASE StoreStep(s)
  <2>0. UNCHANGED <<hashList, flags>> /\ idx[s] \in Nat /\ flags[s] \in Seq({0, 1})
    BY <1>0, <1>7, LockTypes DEF StoreStep
  <2>1. CASE FlushContainer(s) \/ FlushRecipe(s)
    <3>1. UNCHANGED <<m_all_chunks, spc, idx, dup, chunkAddr>>
      BY <2>1 DEF FlushContainer, FlushRecipe
    <3>2. DupAt(L, s)'
      BY <2>0, <3>1, OpenSame, DupSame
    <3>3. EntryAt(L, s)'
      BY <2>0, <3>1 DEF EntryAt, AddressesKept
    <3> QED
      BY <1>1, <3>1, <3>2, <3>3
  <2>2. CASE StoreChunk(s)
    <3>1. /\ spc[s] = "store" /\ spc'[s] = "entry" /\ UNCHANGED <<idx, dup>>
          /\ flags[s][idx[s]] = 1
      BY <1>0, <2>2, LockTypes DEF StoreChunk, AtChunk, HasChunk, Goto
    <3>2. \A j \in DOMAIN flags[s] : flags[s][j] = 0 => (j >= idx[s] <=> j >= idx[s] + 1)
      BY <2>0, <3>1
    <3>3. OpenDuplicates(s)' = OpenDuplicates(s)
      BY <2>0, <3>1, <3>2 DEF OpenDuplicates
    <3>4. DupAt(L, s)'
      BY <2>0, <3>1, <3>3, DupSame
    <3> QED
      BY <2>0, <2>2, <3>4, StoreChunkAddress
  <2>3. CASE TakeDuplicate(s)
    <3>1. UNCHANGED m_all_chunks
      BY <2>3 DEF TakeDuplicate
    <3> QED
      BY <1>1, <2>0, <2>3, <3>1, TakeDuplicateAddress
  <2>4. CASE WriteEntry(s)
    <3>1. /\ UNCHANGED <<m_all_chunks, dup>> /\ spc[s] = "entry" /\ spc'[s] = "store"
          /\ idx'[s] = idx[s] + 1
      BY <1>0, <2>4, LockTypes DEF WriteEntry, Goto
    <3>2. OpenDuplicates(s)' = OpenDuplicates(s)
      BY <2>0, <3>1 DEF OpenDuplicates
    <3> QED
      BY <1>1, <2>0, <3>1, <3>2, DupSame DEF EntryAt
  <2> QED
    BY <1>7, <2>1, <2>2, <2>3, <2>4 DEF StoreStep
<1>8. CASE QueryStep(s)
  <2>0. UNCHANGED m_all_chunks
    BY <1>8 DEF QueryStep, serverVars
  <2>1. CASE BeginQuery(s)
    <3>1. /\ spc[s] = "store" /\ idx[s] > Len(hashList[s]) /\ spc'[s] = "query"
          /\ flags'[s] = << >> /\ dup' = dup
      BY <1>0, <2>1, LockTypes DEF BeginQuery, Goto
    <3>2. Len(flags[s]) = Len(hashList[s]) /\ Len(hashList[s]) \in Nat
      BY <1>0, <3>1, LockTypes DEF LockAt, QueryAt
    <3>3. OpenDuplicates(s) = {}
      <4>1. \A j \in 1 .. Len(flags[s]) : ~ (j >= idx[s])
        BY <1>0, <3>1, <3>2
      <4> QED
        BY <1>0, <3>1, <4>1, OpenSet DEF OpenDuplicates
    <3>4. OpenDuplicates(s)' = {}
      BY <3>1 DEF OpenDuplicates
    <3> QED
      BY <1>1, <2>0, <3>1, <3>3, <3>4, DupSame DEF EntryAt
  <2>2. CASE QueryChunk(s)
    <3>1. spc'[s] = "query"
      BY <2>2 DEF QueryChunk
    <3> QED
      BY <1>1, <2>0, <2>2, <3>1, QueryChunkAddress DEF EntryAt
  <2>3. CASE SendReply(s)
    <3>1. /\ spc[s] = "query" /\ spc'[s] = "body" /\ UNCHANGED <<hashList, flags, dup>>
      BY <1>0, <2>3, LockTypes DEF SendReply, Goto
    <3> QED
      BY <1>1, <1>2, <2>0, <3>1
  <2> QED
    BY <1>8, <2>1, <2>2, <2>3 DEF QueryStep
<1>9. CASE FinishStep(s)
  <2>1. UNCHANGED <<m_all_chunks, flags, dup>>
    BY <1>9 DEF FinishStep, serverVars
  <2>2. /\ spc[s] \in {"last_container", "last_recipe", "join"}
        /\ spc'[s] \in {"last_recipe", "join", "order"}
    BY <1>0, <1>9, LockTypes DEF FinishStep, InsertLastContainer, InsertLastRecipe, Join, Goto
  <2>3. Len(flags[s]) = 0
    BY <2>2 DEF LockAt, QueryAt
  <2>4. OpenDuplicates(s) = {} /\ OpenDuplicates(s)' = OpenDuplicates(s)
    BY <1>0, <2>1, <2>2, <2>3, OpenSet, OpenSame
  <2> QED
    BY <1>1, <2>1, <2>2, <2>4, DupSame DEF EntryAt
<1> QED
  BY <1>3, <1>4, <1>5, <1>6, <1>7, <1>8, <1>9 DEF HandlerStep, UploadStep

LEMMA AddressKept ==
  ASSUME NEW L, NEW t, DupAt(L, t), EntryAt(L, t), AddressesKept(L), TalkView(t)' = TalkView(t)
  PROVE  DupAt(L, t)' /\ EntryAt(L, t)'
<1>1. /\ spc'[t] = spc[t] /\ idx'[t] = idx[t] /\ flags'[t] = flags[t]
      /\ hashList'[t] = hashList[t] /\ dup'[t] = dup[t] /\ chunkAddr'[t] = chunkAddr[t]
  BY DEF TalkView
<1>2. DupAt(L, t)'
  BY <1>1, OpenSame, DupSame
<1> QED
  BY <1>1, <1>2 DEF EntryAt, AddressesKept

----------------------------------------------------------------------------
(* All of it together.                                                     *)

IndexInv == LockInv /\ IdInv /\ StoreInv /\ AddressInv

LEMMA InitIndex == Init => IndexInv
<1> SUFFICES ASSUME Init PROVE AddressInv
  BY InitLock, InitIds, InitStore DEF IndexInv
<1>1. IndexAt({})
  BY DEF Init, ServerInit, IndexAt
<1>2. ASSUME NEW s \in Sessions PROVE DupAt({}, s) /\ EntryAt({}, s)
  <2>1. spc[s] = "accepted" /\ flags[s] = << >> /\ dup[s] = << >>
    BY DEF Init, ConnInit
  <2>2. OpenDuplicates(s) = {}
    BY <2>1 DEF OpenDuplicates
  <2> QED
    BY <2>1, <2>2, FS_EmptySet DEF DupAt, EntryAt
<1> QED
  BY <1>1, <1>2 DEF AddressInv

LEMMA NextIndex ==
  ASSUME TypeInv, TypeInv', IndexInv, [Next]_vars
  PROVE  IndexInv' /\ AddressesKept({})
<1>0. TypeOK /\ LockInv' /\ IdInv' /\ StoreInv' /\ AddressesKept({})
  BY NextLock, NextIds, NextStore DEF IndexInv, TypeInv
<1>1. ASSUME UNCHANGED m_all_chunks PROVE IndexAt({})'
  BY <1>0, <1>1 DEF IndexInv, AddressInv, IndexAt, AddressesKept
<1>2. ASSUME UNCHANGED m_all_chunks, \A t \in Sessions : TalkView(t)' = TalkView(t)
      PROVE  AddressInv'
  BY <1>0, <1>1, <1>2, AddressKept DEF IndexInv, AddressInv
<1>3. ASSUME NEW s \in Sessions, ClientSide(s) PROVE AddressInv'
  <2>1. UNCHANGED <<m_all_chunks, spc, flags, idx, hashList, dup, chunkAddr>>
    BY <1>3 DEF ClientSide, serverVars, connVars, uploadVars
  <2>2. ASSUME NEW t \in Sessions PROVE DupAt({}, t)' /\ EntryAt({}, t)'
    <3>1. DupAt({}, t) /\ EntryAt({}, t)
      BY DEF IndexInv, AddressInv
    <3>2. DupAt({}, t)'
      BY <1>0, <2>1, <3>1, OpenSame, DupSame
    <3> QED
      BY <1>0, <2>1, <3>1, <3>2 DEF EntryAt, AddressesKept
  <2> QED
    BY <1>1, <2>1, <2>2 DEF AddressInv
<1>4. ASSUME NEW s \in Sessions, HandlerStep(s), UNCHANGED <<job, clientVars>>
      PROVE  AddressInv'
  <2>1. IndexAt({})' /\ DupAt({}, s)' /\ EntryAt({}, s)'
    BY <1>0, <1>4, HandlerAddress DEF IndexInv, AddressInv, LockInv
  <2>2. \A t \in Sessions \ {s} : DupAt({}, t)' /\ EntryAt({}, t)'
    BY <1>0, <1>4, HandlerOthers, AddressKept DEF IndexInv, AddressInv
  <2> QED
    BY <2>1, <2>2 DEF AddressInv
<1>5. ASSUME NEW s \in Sessions, DataWriterStep(s) \/ RecipeWriterStep(s),
             UNCHANGED <<job, clientVars>>
      PROVE  AddressInv'
  <2>1. UNCHANGED m_all_chunks
    BY <1>5 DEF DataWriterStep, RecipeWriterStep, serverVars
  <2> QED
    BY <1>0, <1>2, <1>5, <2>1, WriterOthers
<1>6. ASSUME UNCHANGED vars PROVE AddressInv'
  <2>1. UNCHANGED m_all_chunks
    BY <1>6 DEF vars, serverVars
  <2>2. \A t \in Sessions : TalkView(t)' = TalkView(t)
    BY <1>6 DEF vars, wire, clientVars, connVars, uploadVars, TalkView
  <2> QED
    BY <1>2, <2>1, <2>2
<1> QED
  BY <1>0, <1>3, <1>4, <1>5, <1>6, StepOfOne DEF IndexInv

LEMMA IndexInvariant == Spec => []IndexInv
<1>1. TypeInv /\ TypeInv' /\ IndexInv /\ [Next]_vars => IndexInv'
  BY NextIndex
<1> QED
  BY <1>1, InitIndex, TypeInvariant, PTL DEF Spec

(* The index never lies: for any number of clients, whatever interleaving  *)
(* of their handlers and writer threads, an address that isChunkStored     *)
(* hands out names a slot, in memory or on disk, that holds the chunk.     *)
THEOREM IndexNeverLies == Spec => []IndexSound
<1>1. IndexInv => IndexSound
  BY DEF IndexInv, AddressInv, IndexAt, Found, IndexSound
<1> QED
  BY <1>1, IndexInvariant, PTL

(* FILEEND, the queues' done flag and the joins lose no container: when    *)
(* receive_file has returned, every chunk the upload stored is on disk.    *)
THEOREM StoredDurably == Spec => []StoredIsDurable
<1>1. ASSUME TypeInv, IndexInv PROVE StoredIsDurable
  <2> SUFFICES ASSUME NEW c \in Chunks, m_all_chunks[c] # NoAddr,
                      ~ Uploading(m_all_chunks[c].id[1])
               PROVE  OnDisk(m_all_chunks[c], c)
    BY DEF StoredIsDurable
  <2> DEFINE a == m_all_chunks[c]
  <2>1. Resolves(a, c)
    BY <1>1 DEF IndexInv, AddressInv, IndexAt, Found
  <2>2. ASSUME NEW t \in Sessions, NEW f \in InMemory(t), Holds(f, a, c) PROVE FALSE
    <3>1. f.id[1] = t /\ f.data # << >>
      <4>1. \A g \in ToSet(containerQueue[t]) : g.id[1] = t
        BY <1>1 DEF IndexInv, IdInv, IdAt, Ascending, ToSet
      <4>2. container[t].id[1] = t /\ (saving[t] # None => saving[t].id[1] = t)
        BY <1>1 DEF IndexInv, IdInv, IdAt, Ascending
      <4> QED
        BY <2>2, <4>1, <4>2 DEF InMemory, Holds
    <3>2. t = a.id[1]
      BY <2>2, <3>1 DEF Holds
    <3>3. container[t].data = << >> /\ containerQueue[t] = << >> /\ saving[t] = None
      BY <1>1, <3>2 DEF IndexInv, StoreInv, StoreAt
    <3> QED
      BY <2>2, <3>1, <3>3, NoneEmpty DEF InMemory
  <2> QED
    BY <2>1, <2>2 DEF Resolves
<1> QED
  BY <1>1, IndexInvariant, TypeInvariant, PTL

(* m_duplicatedChunkAddr holds one address per 0 of the reply still to be  *)
(* stored, in order and each naming its chunk: front() and pop() of the    *)
(* next batch never meet an empty queue.                                   *)
THEOREM DuplicatesQueued == Spec => []DuplicatesInStep
<1>1. IndexInv => DuplicatesInStep
  BY DEF IndexInv, AddressInv, DupAt, Found, DuplicatesInStep
<1> QED
  BY <1>1, IndexInvariant, PTL
=============================================================================
