----------------------------- MODULE ClientConn -----------------------------
(***************************************************************************)
(* The server's side of a session: ClientConn::run and the handlers it     *)
(* calls, executed by one thread of the pool, and the two threads that     *)
(* receive_file starts to write containers and recipes to disk.            *)
(*                                                                         *)
(* Sizes are counted in chunks: CONTAINERSIZE is a multiple of CHUNKSIZE   *)
(* and only the last chunk of a file is short, so a container holds        *)
(* ContainerSlots chunks and an offset is a slot number.                   *)
(*                                                                         *)
(* The actions of one part of the code share a frame condition, which the  *)
(* definition that gathers them states (AdmitStep, StoreStep, ...).        *)
(***************************************************************************)
EXTENDS DedupServer, FiniteSets

CONSTANTS
  ContainerSlots,  (* CONTAINERSIZE / CHUNKSIZE                            *)
  QueueSize,       (* capacity of m_containerQueue and m_recipeQueue       *)
  ThreadNum,       (* m_thread_num: threads of the pool                    *)
  None             (* no container or block of recipe entries in hand      *)

ASSUME ContainerSlotsAssumption == ContainerSlots \in Nat \ {0}
ASSUME QueueSizeAssumption == QueueSize \in Nat \ {0}
ASSUME ThreadNumAssumption == ThreadNum \in Nat \ {0}

VARIABLES
  spc,             (* where the handler thread stands                      *)
  key,             (* m_client_info.client_id and the fileName argument    *)
  inMsg,           (* m_inMsgBuffer                                        *)
  hashList,        (* m_hashList: the hashes of the last query             *)
  flags,           (* m_outMsgBuffer->data of the last reply               *)
  idx,             (* i, the loop counter over hashList                    *)
  dup,             (* m_duplicatedChunkAddr                                *)
  chunkAddr,       (* chunkAddr, the address of the chunk at idx           *)
  container,       (* m_containerBuffer                                    *)
  recipe,          (* m_recipeBuffer                                       *)
  containerQueue,  (* m_containerQueue                                     *)
  recipeQueue,     (* m_recipeQueue                                        *)
  done,            (* m_done of both queues                                *)
  dataWriter,      (* state of the thread dataWriter                       *)
  recipeWriter,    (* state of the thread recipeWriter                     *)
  saving,          (* tmpContainer of write_container                      *)
  writing,         (* tmpRecipeEntryContainer of write_recipe              *)
  total,           (* totalChunkNum of write_recipe: also its file offset  *)
  reader,          (* locals of send_file: offset and state of the recipe  *)
                   (* stream, the rest of m_chunkAddrs, the body so far    *)
                   (* and what m_outMsgBuffer held before it; history: the *)
                   (* places of the file that were not found on disk       *)
  containers,      (* the files in containers/                             *)
  recipes,         (* the files in recipes/                                *)
  finished         (* history: sessions that have logged "upload finished" *)

queueVars   == <<containerQueue, recipeQueue, done>>
threadVars  == <<dataWriter, recipeWriter>>
writerVars  == <<saving, writing, total, containers, recipes>>
uploadVars  == <<inMsg, hashList, flags, idx, dup, chunkAddr, container, recipe,
                 queueVars, threadVars, finished>>
connVars    == <<spc, key, uploadVars, reader, writerVars>>

----------------------------------------------------------------------------
Container == [id : ContainerId, data : Seq(Bytes)]
Entries   == Seq(Addr \cup {NoAddr})
Recipe    == [total : Nat, entries : Entries]
Reader    == [pos : Nat, eof : BOOLEAN, addrs : Entries, out : Seq(Bytes),
              old : Seq(Bytes), missed : SUBSET Nat]

ASSUME NoneAssumption == None \notin Container /\ None \notin Entries

(* The recipe's file name is the hash of to_string(client_id) + fileName.  *)
RecipeName(k) == k.id \o k.name

ServerPC == {"accepted", "order", "unique", "add_file", "body", "store", "entry",
             "query", "last_container", "last_recipe", "join",
             "exist", "open", "recipe", "chunk", "closed"}

ConnTypeOK ==
  /\ spc \in [Sessions -> ServerPC]
  /\ key \in [Sessions -> Key]
  /\ inMsg \in [Sessions -> [query : Seq(Chunks), data : Seq(Bytes)]]
  /\ hashList \in [Sessions -> Seq(Chunks)]
  /\ flags \in [Sessions -> Seq({0, 1})]
  /\ idx \in [Sessions -> Nat \ {0}]
  /\ dup \in [Sessions -> Seq(Addr)]
  /\ chunkAddr \in [Sessions -> Addr \cup {NoAddr}]
  /\ container \in [Sessions -> Container]
  /\ recipe \in [Sessions -> Entries]
  /\ containerQueue \in [Sessions -> Seq(Container)]
  /\ recipeQueue \in [Sessions -> Seq(Entries)]
  /\ done \in [Sessions -> BOOLEAN]
  /\ dataWriter \in [Sessions -> {"none", "run", "exit"}]
  /\ recipeWriter \in [Sessions -> {"none", "open", "run", "exit"}]
  /\ saving \in [Sessions -> Container \cup {None}]
  /\ writing \in [Sessions -> Entries \cup {None}]
  /\ total \in [Sessions -> Nat]
  /\ reader \in [Sessions -> Reader]
  /\ containers \subseteq Container
  /\ recipes \in [DOMAIN recipes -> Recipe]
  /\ DOMAIN recipes \subseteq Seq(Chars)
  /\ finished \subseteq Sessions

ConnInit ==
  /\ spc = [s \in Sessions |-> "accepted"]
  /\ key = [s \in Sessions |-> [id |-> << >>, name |-> << >>]]
  /\ inMsg = [s \in Sessions |-> [query |-> << >>, data |-> << >>]]
  /\ hashList = [s \in Sessions |-> << >>]
  /\ flags = [s \in Sessions |-> << >>]
  /\ idx = [s \in Sessions |-> 1]
  /\ dup = [s \in Sessions |-> << >>]
  /\ chunkAddr = [s \in Sessions |-> NoAddr]
  /\ container = [s \in Sessions |-> [id |-> <<s, 0>>, data |-> << >>]]
  /\ recipe = [s \in Sessions |-> << >>]
  /\ containerQueue = [s \in Sessions |-> << >>]
  /\ recipeQueue = [s \in Sessions |-> << >>]
  /\ done = [s \in Sessions |-> FALSE]
  /\ dataWriter = [s \in Sessions |-> "none"]
  /\ recipeWriter = [s \in Sessions |-> "none"]
  /\ saving = [s \in Sessions |-> None]
  /\ writing = [s \in Sessions |-> None]
  /\ total = [s \in Sessions |-> 0]
  /\ reader = [s \in Sessions |->
                 [pos |-> 0, eof |-> FALSE, addrs |-> << >>, out |-> << >>,
                  old |-> << >>, missed |-> {}]]
  /\ containers = {}
  /\ recipes = [n \in {} |-> None]
  /\ finished = {}

Goto(s, pc) == spc' = [spc EXCEPT ![s] = pc]

Reply(s, m) == toClient' = send_data(toClient, s, <<m>>)

----------------------------------------------------------------------------
(* run.                                                                    *)

(* Sessions that occupy a thread of the pool.                              *)
Serving == {s \in Sessions : spc[s] \notin {"accepted", "closed"}}

(* A free thread takes the connection and run() receives its login.        *)
Serve(s) ==
  /\ spc[s] = "accepted" /\ Cardinality(Serving) < ThreadNum
  /\ Arrived(toServer, s, "LOGIN")
  /\ key' = [key EXCEPT ![s].id = Head(toServer[s]).id]
  /\ Goto(s, "order")
  /\ UNCHANGED toClient

(* receive_control_msg yields UPLOAD or DOWNLOAD and a file name.          *)
RecvOrder(s) ==
  /\ spc[s] = "order"
  /\ \/ Arrived(toServer, s, "UPLOAD") /\ Goto(s, "unique")
     \/ Arrived(toServer, s, "DOWNLOAD") /\ Goto(s, "exist")
  /\ \E n \in ReceivedNames(Head(toServer[s]).name) : key' = [key EXCEPT ![s].name = n]
  /\ UNCHANGED toClient

RecvQuit(s) ==
  /\ spc[s] = "order" /\ Arrived(toServer, s, "QUIT")
  /\ Reply(s, QuitRep)
  /\ Goto(s, "closed")
  /\ UNCHANGED key

RunStep(s) ==
  /\ Serve(s) \/ RecvOrder(s) \/ RecvQuit(s)
  /\ toServer' = receive_data(toServer, s)
  /\ UNCHANGED <<serverVars, uploadVars, reader>>

----------------------------------------------------------------------------
(* receive_file up to its loop.                                            *)

(* isFileUnique and the reply.  The row is inserted in a later step.       *)
CheckUnique(s) ==
  /\ spc[s] = "unique"
  /\ \/ /\ isFileUnique(key[s])
        /\ Reply(s, Rep("UPLOADREP", "UNIQUE"))
        /\ Goto(s, "add_file")
     \/ /\ ~ isFileUnique(key[s])
        /\ Reply(s, Rep("UPLOADREP", "DUPLICATE"))
        /\ Goto(s, "order")
  /\ UNCHANGED <<FILES, threadVars>>

(* addFile, then the two writer threads start.                             *)
AddFile(s) ==
  /\ spc[s] = "add_file"
  /\ addFile(key[s])
  /\ dataWriter' = [dataWriter EXCEPT ![s] = "run"]
  /\ recipeWriter' = [recipeWriter EXCEPT ![s] = "open"]
  /\ Goto(s, "body")
  /\ UNCHANGED toClient

AdmitStep(s) ==
  /\ CheckUnique(s) \/ AddFile(s)
  /\ UNCHANGED <<toServer, m_all_chunks, inMsg, hashList, flags, idx, dup, chunkAddr,
                 container, recipe, queueVars, finished>>

----------------------------------------------------------------------------
(* receive_file: a message of the client.                                  *)

RecvBody(s) ==
  /\ Arrived(toServer, s, "UPLOADBODY")
  /\ inMsg' = [inMsg EXCEPT ![s] = [query |-> Head(toServer[s]).query,
                                    data |-> Head(toServer[s]).data]]
  /\ idx' = [idx EXCEPT ![s] = 1]
  /\ Goto(s, "store")

RecvFileEnd(s) ==
  /\ Arrived(toServer, s, "FILEEND")
  /\ Goto(s, "last_container")
  /\ UNCHANGED <<inMsg, idx>>

ReceiveStep(s) ==
  /\ spc[s] = "body"
  /\ RecvBody(s) \/ RecvFileEnd(s)
  /\ toServer' = receive_data(toServer, s)
  /\ UNCHANGED <<toClient, serverVars, hashList, flags, dup, chunkAddr, container,
                 recipe, queueVars, threadVars, finished>>

----------------------------------------------------------------------------
(* receive_file: store the chunks of the batch queried before.             *)

(* Fault: the new container keeps the old one's id.                        *)
new_containerSameId(c) == [id |-> c.id, data |-> << >>]

(* new_container: an empty buffer under a fresh UUID.                      *)
new_container(c) == [id |-> <<c.id[1], c.id[2] + 1>>, data |-> << >>]

(* Faults: push drops what does not fit.                                   *)
insert_container_queueDrops(s) ==
  containerQueue' = [containerQueue EXCEPT ![s] =
                       IF Len(@) < QueueSize THEN Append(@, container[s]) ELSE @]

insert_recipe_queueDrops(s) ==
  recipeQueue' = [recipeQueue EXCEPT ![s] =
                    IF Len(@) < QueueSize THEN Append(@, recipe[s]) ELSE @]

(* insert_container_queue and insert_recipe_queue: push waits for room.    *)
insert_container_queue(s) ==
  /\ Len(containerQueue[s]) < QueueSize
  /\ containerQueue' = [containerQueue EXCEPT ![s] = Append(@, container[s])]

insert_recipe_queue(s) ==
  /\ Len(recipeQueue[s]) < QueueSize
  /\ recipeQueue' = [recipeQueue EXCEPT ![s] = Append(@, recipe[s])]

(* The chunk at idx was asked for (1) or is a duplicate (0).               *)
AtChunk(s, flag) ==
  /\ spc[s] = "store" /\ idx[s] <= Len(hashList[s]) /\ flags[s][idx[s]] = flag

(* The i-th chunk of the message; Junk if it has no data for it.           *)
Received(s, i) == IF i \in DOMAIN inMsg[s].data THEN inMsg[s].data[i] ELSE Junk

(* The message has the chunk at idx.  (When it has not, because the client *)
(* is gone and an old message is looked at again, see Recovery.)           *)
HasChunk(s) == AtChunk(s, 1) /\ Received(s, idx[s]) # Junk

(* No room for a unique chunk: queue the container, start a new one.       *)
FlushContainer(s) ==
  /\ HasChunk(s) /\ Len(container[s].data) >= ContainerSlots
  /\ insert_container_queue(s)
  /\ container' = [container EXCEPT ![s] = new_container(@)]
  /\ UNCHANGED <<m_all_chunks, spc, idx, dup, chunkAddr, recipe, recipeQueue>>

(* Copy a unique chunk into the container and enter it in the index.       *)
StoreChunk(s) ==
  LET a == [id |-> container[s].id, slot |-> Len(container[s].data) + 1]
  IN /\ HasChunk(s)
     /\ Len(container[s].data) < ContainerSlots
     /\ container' = [container EXCEPT ![s].data = Append(@, Received(s, idx[s]))]
     /\ addChunk(hashList[s][idx[s]], a)
     /\ chunkAddr' = [chunkAddr EXCEPT ![s] = a]
     /\ Goto(s, "entry")
     /\ UNCHANGED <<idx, dup, recipe, containerQueue, recipeQueue>>

(* Fault: front() without pop().                                           *)
TakeDuplicateKeeps(s) ==
  /\ AtChunk(s, 0)
  /\ chunkAddr' = [chunkAddr EXCEPT ![s] = IF dup[s] = << >> THEN NoAddr ELSE Head(dup[s])]
  /\ Goto(s, "entry")
  /\ UNCHANGED <<m_all_chunks, idx, dup, container, recipe, containerQueue, recipeQueue>>

(* A duplicate's address was remembered when it was queried.  front() and  *)
(* pop() are undefined on an empty queue: no address comes out of it.      *)
TakeDuplicate(s) ==
  /\ AtChunk(s, 0)
  /\ chunkAddr' = [chunkAddr EXCEPT ![s] = IF dup[s] = << >> THEN NoAddr ELSE Head(dup[s])]
  /\ dup' = [dup EXCEPT ![s] = IF @ = << >> THEN @ ELSE Tail(@)]
  /\ Goto(s, "entry")
  /\ UNCHANGED <<m_all_chunks, idx, container, recipe, containerQueue, recipeQueue>>

(* The recipe buffer is full: queue it and start a new one.                *)
FlushRecipe(s) ==
  /\ spc[s] = "entry" /\ Len(recipe[s]) >= BatchSize
  /\ insert_recipe_queue(s)
  /\ recipe' = [recipe EXCEPT ![s] = << >>]
  /\ UNCHANGED <<m_all_chunks, spc, idx, dup, chunkAddr, container, containerQueue>>

WriteEntry(s) ==
  /\ spc[s] = "entry" /\ Len(recipe[s]) < BatchSize
  /\ recipe' = [recipe EXCEPT ![s] = Append(@, chunkAddr[s])]
  /\ idx' = [idx EXCEPT ![s] = @ + 1]
  /\ Goto(s, "store")
  /\ UNCHANGED <<m_all_chunks, dup, chunkAddr, container, containerQueue, recipeQueue>>

StoreStep(s) ==
  /\ \/ FlushContainer(s) \/ StoreChunk(s) \/ TakeDuplicate(s)
     \/ FlushRecipe(s) \/ WriteEntry(s)
  /\ UNCHANGED <<wire, FILES, inMsg, hashList, flags, done, threadVars, finished>>

----------------------------------------------------------------------------
(* receive_file: answer the new query.                                     *)

(* The last batch is stored: take over the hashes of the new query.        *)
BeginQuery(s) ==
  /\ spc[s] = "store" /\ idx[s] > Len(hashList[s])
  /\ hashList' = [hashList EXCEPT ![s] = inMsg[s].query]
  /\ flags' = [flags EXCEPT ![s] = << >>]
  /\ idx' = [idx EXCEPT ![s] = 1]
  /\ Goto(s, "query")
  /\ UNCHANGED <<toClient, dup>>

(* isChunkStored for one hash; the address of a stored chunk is kept.      *)
QueryChunk(s) ==
  LET c == hashList[s][idx[s]]
  IN /\ spc[s] = "query"
     /\ idx[s] <= Len(hashList[s])
     /\ \/ /\ isChunkStored(c)
           /\ flags' = [flags EXCEPT ![s] = Append(@, 0)]
           /\ dup' = [dup EXCEPT ![s] = Append(@, m_all_chunks[c])]
        \/ /\ ~ isChunkStored(c)
           /\ flags' = [flags EXCEPT ![s] = Append(@, 1)]
           /\ UNCHANGED dup
     /\ idx' = [idx EXCEPT ![s] = @ + 1]
     /\ UNCHANGED <<toClient, spc, hashList>>

(* The reply is sent unless the query was empty.                           *)
SendReply(s) ==
  /\ spc[s] = "query" /\ idx[s] > Len(hashList[s])
  /\ \/ hashList[s] # << >> /\ Reply(s, BodyRep(flags[s]))
     \/ hashList[s] = << >> /\ UNCHANGED toClient
  /\ Goto(s, "body")
  /\ UNCHANGED <<hashList, flags, idx, dup>>

QueryStep(s) ==
  /\ BeginQuery(s) \/ QueryChunk(s) \/ SendReply(s)
  /\ UNCHANGED <<toServer, serverVars, inMsg, chunkAddr, container, recipe, queueVars,
                 threadVars, finished>>

----------------------------------------------------------------------------
(* receive_file after FILEEND.                                             *)

(* A container that is not empty is queued ...                             *)
InsertLastContainer(s) ==
  /\ spc[s] = "last_container"
  /\ \/ container[s].data # << >> /\ insert_container_queue(s)
     \/ container[s].data = << >> /\ UNCHANGED containerQueue
  /\ Goto(s, "last_recipe")
  /\ UNCHANGED <<hashList, container, recipe, recipeQueue, done, threadVars, finished>>

(* Fault: nobody marks the queues done.                                    *)
InsertLastRecipeOnly(s) ==
  /\ spc[s] = "last_recipe"
  /\ insert_recipe_queue(s)
  /\ Goto(s, "join")
  /\ UNCHANGED <<hashList, container, recipe, containerQueue, done, threadVars, finished>>

(* ... then the recipe entries, and both queues are marked done.           *)
InsertLastRecipe(s) ==
  /\ spc[s] = "last_recipe"
  /\ insert_recipe_queue(s)
  /\ done' = [done EXCEPT ![s] = TRUE]
  /\ Goto(s, "join")
  /\ UNCHANGED <<hashList, container, recipe, containerQueue, threadVars, finished>>

(* Join both writers, reset_upload and "upload finished!".                 *)
Join(s) ==
  /\ spc[s] = "join" /\ recipeWriter[s] = "exit" /\ dataWriter[s] = "exit"
  /\ recipeWriter' = [recipeWriter EXCEPT ![s] = "none"]
  /\ dataWriter' = [dataWriter EXCEPT ![s] = "none"]
  /\ hashList' = [hashList EXCEPT ![s] = << >>]
  /\ done' = [done EXCEPT ![s] = FALSE]
  /\ container' = [container EXCEPT ![s] = new_container(@)]
  /\ recipe' = [recipe EXCEPT ![s] = << >>]
  /\ finished' = finished \cup {s}
  /\ Goto(s, "order")
  /\ UNCHANGED <<containerQueue, recipeQueue>>

FinishStep(s) ==
  /\ InsertLastContainer(s) \/ InsertLastRecipe(s) \/ Join(s)
  /\ UNCHANGED <<wire, serverVars, inMsg, flags, idx, dup, chunkAddr>>

----------------------------------------------------------------------------
(* write_container: the dataWriter thread.                                 *)

PopContainer(s) ==
  /\ saving[s] = None /\ containerQueue[s] # << >>
  /\ saving' = [saving EXCEPT ![s] = Head(containerQueue[s])]
  /\ containerQueue' = [containerQueue EXCEPT ![s] = Tail(@)]
  /\ UNCHANGED <<dataWriter, containers>>

(* save_container: the file named by the id is created or replaced.        *)
SaveContainer(s) ==
  /\ saving[s] # None
  /\ containers' = {f \in containers : f.id # saving[s].id} \cup {saving[s]}
  /\ saving' = [saving EXCEPT ![s] = None]
  /\ UNCHANGED <<dataWriter, containerQueue>>

(* Fault: the done flag is looked at before the queue.                     *)
EndDataWriterEarly(s) ==
  /\ saving[s] = None /\ done[s]
  /\ dataWriter' = [dataWriter EXCEPT ![s] = "exit"]
  /\ UNCHANGED <<saving, containerQueue, containers>>

(* pop returns false: the queue is empty and marked done.                  *)
EndDataWriter(s) ==
  /\ saving[s] = None /\ containerQueue[s] = << >> /\ done[s]
  /\ dataWriter' = [dataWriter EXCEPT ![s] = "exit"]
  /\ UNCHANGED <<saving, containerQueue, containers>>

DataWriterStep(s) ==
  /\ dataWriter[s] = "run"
  /\ PopContainer(s) \/ SaveContainer(s) \/ EndDataWriter(s)
  /\ UNCHANGED <<wire, serverVars, spc, key, inMsg, hashList, flags, idx, dup,
                 chunkAddr, container, recipe, recipeQueue, done, recipeWriter,
                 writing, total, reader, recipes, finished>>

----------------------------------------------------------------------------
(* write_recipe: the recipeWriter thread.                                  *)

(* The file n in recipes/ is created or becomes r.                         *)
PutRecipe(n, r) ==
  recipes' = [m \in DOMAIN recipes \cup {n} |-> IF m = n THEN r ELSE recipes[m]]

(* fstream::out creates the file or empties it; the count 0 is written.    *)
OpenRecipe(s) ==
  /\ recipeWriter[s] = "open"
  /\ PutRecipe(RecipeName(key[s]), [total |-> 0, entries |-> << >>])
  /\ total' = [total EXCEPT ![s] = 0]
  /\ recipeWriter' = [recipeWriter EXCEPT ![s] = "run"]
  /\ UNCHANGED <<recipeQueue, writing>>

PopRecipe(s) ==
  /\ recipeWriter[s] = "run" /\ writing[s] = None /\ recipeQueue[s] # << >>
  /\ writing' = [writing EXCEPT ![s] = Head(recipeQueue[s])]
  /\ recipeQueue' = [recipeQueue EXCEPT ![s] = Tail(@)]
  /\ UNCHANGED <<recipeWriter, total, recipes>>

(* Writing block b at offset n of a file that holds old.  Another thread   *)
(* may have emptied the file since: what was never written reads as zero.  *)
Overlay(old, n, b) ==
  [i \in 1 .. (IF n + Len(b) > Len(old) THEN n + Len(b) ELSE Len(old)) |->
     IF i > n /\ i <= n + Len(b) THEN b[i - n]
     ELSE IF i <= Len(old) THEN old[i] ELSE NoAddr]

WriteRecipe(s) ==
  LET n == RecipeName(key[s])
  IN /\ writing[s] # None
     /\ PutRecipe(n, [recipes[n] EXCEPT !.entries = Overlay(@, total[s], writing[s])])
     /\ total' = [total EXCEPT ![s] = @ + Len(writing[s])]
     /\ writing' = [writing EXCEPT ![s] = None]
     /\ UNCHANGED <<recipeWriter, recipeQueue>>

(* pop returns false: the count at the head of the file is rewritten.      *)
EndRecipeWriter(s) ==
  LET n == RecipeName(key[s])
  IN /\ recipeWriter[s] = "run"
     /\ writing[s] = None /\ recipeQueue[s] = << >> /\ done[s]
     /\ PutRecipe(n, [recipes[n] EXCEPT !.total = total[s]])
     /\ recipeWriter' = [recipeWriter EXCEPT ![s] = "exit"]
     /\ UNCHANGED <<recipeQueue, writing, total>>

RecipeWriterStep(s) ==
  /\ OpenRecipe(s) \/ PopRecipe(s) \/ WriteRecipe(s) \/ EndRecipeWriter(s)
  /\ UNCHANGED <<wire, serverVars, spc, key, inMsg, hashList, flags, idx, dup,
                 chunkAddr, container, recipe, containerQueue, done, dataWriter,
                 saving, reader, containers, finished>>

----------------------------------------------------------------------------
(* send_file.                                                              *)

CheckExist(s) ==
  /\ spc[s] = "exist"
  /\ \/ /\ isFileExist(key[s])
        /\ Reply(s, Rep("DOWNLOADREP", "EXIST"))
        /\ Goto(s, "open")
     \/ /\ ~ isFileExist(key[s])
        /\ Reply(s, Rep("DOWNLOADREP", "NOTEXIST"))
        /\ Goto(s, "order")
  /\ UNCHANGED reader

(* The stream fails, and stays failed, if the recipe is not there yet.     *)
OpenForRead(s) ==
  /\ spc[s] = "open"
  /\ reader' = [reader EXCEPT ![s].pos = 0,
                              ![s].eof = RecipeName(key[s]) \notin DOMAIN recipes]
  /\ Goto(s, "recipe")
  /\ UNCHANGED toClient

(* What recipe.read delivers: nothing once the stream has met the end.     *)
RecipeBatch(s) ==
  IF reader[s].eof THEN << >>
  ELSE LET e == recipes[RecipeName(key[s])].entries
           n == reader[s].pos + BatchSize
       IN SubSeq(e, reader[s].pos + 1, IF n <= Len(e) THEN n ELSE Len(e))

(* What m_outMsgBuffer holds: the last body, and behind it older bytes.    *)
Buffer(r) == r.out \o SubSeq(r.old, Len(r.out) + 1, Len(r.old))

(* A short read sets the stream's eofbit: it delivers nothing afterwards,  *)
(* even if the file has grown.  The next body is put together in the same  *)
(* buffer.                                                                 *)
ReadRecipe(s) ==
  LET b == RecipeBatch(s)
  IN /\ spc[s] = "recipe"
     /\ b # << >>
     /\ reader' = [reader EXCEPT ![s] = [pos |-> @.pos + Len(b), eof |-> Len(b) < BatchSize,
                                         addrs |-> b, out |-> << >>, old |-> Buffer(@),
                                         missed |-> @.missed]]
     /\ Goto(s, "chunk")
     /\ UNCHANGED toClient

(* Fault: the container is read from its start, without seekg.             *)
FetchFirst(a, held) ==
  LET found == {f \in containers : f.id = a.id /\ f.data # << >>}
  IN IF a = NoAddr \/ found = {} THEN << >> ELSE <<(CHOOSE f \in found : TRUE).data[1]>>

(* The size in address a is zero: that of a hole is, and that of a chunk   *)
(* for which a message had no data.                                        *)
ZeroSize(a) == a = NoAddr \/ a.slot = 0

(* The container files in which the chunk at address a can be read.        *)
FilesWith(a) == {f \in containers : f.id = a.id /\ a.slot \in DOMAIN f.data}

(* What reading address a adds to the message: the chunk; if it is not on  *)
(* disk, what the buffer holds at that place; nothing if its size is zero. *)
Fetch(a, held) ==
  IF ZeroSize(a) THEN << >>
  ELSE IF FilesWith(a) = {} THEN <<held>>
  ELSE <<(CHOOSE f \in FilesWith(a) : TRUE).data[a.slot]>>

(* What the buffer holds where the next chunk goes; at first nothing that  *)
(* the program wrote.                                                      *)
Held(r) == IF Len(r.out) < Len(r.old) THEN r.old[Len(r.out) + 1] ELSE Junk

(* The place in the file of the next chunk, if it is not on disk.          *)
Missed(r) ==
  {k \in 1 .. r.pos : /\ k + Len(r.addrs) = r.pos + 1
                      /\ ~ ZeroSize(Head(r.addrs)) /\ FilesWith(Head(r.addrs)) = {}}

ReadChunk(s) ==
  /\ spc[s] = "chunk" /\ reader[s].addrs # << >>
  /\ LET r == reader[s]
     IN reader' = [reader EXCEPT ![s] =
                     [r EXCEPT !.addrs = Tail(@), !.missed = @ \cup Missed(r),
                               !.out = @ \o Fetch(Head(r.addrs), Held(r))]]
  /\ UNCHANGED <<toClient, spc>>

SendDownBody(s) ==
  /\ spc[s] = "chunk" /\ reader[s].addrs = << >>
  /\ Reply(s, DownBody(reader[s].out))
  /\ Goto(s, "recipe")
  /\ UNCHANGED reader

SendFileEnd(s) ==
  /\ spc[s] = "recipe" /\ RecipeBatch(s) = << >>
  /\ Reply(s, FileEnd)
  /\ Goto(s, "order")
  /\ UNCHANGED reader

DownloadStep(s) ==
  /\ \/ CheckExist(s) \/ OpenForRead(s) \/ ReadRecipe(s) \/ ReadChunk(s)
     \/ SendDownBody(s) \/ SendFileEnd(s)
  /\ UNCHANGED <<toServer, serverVars, key, uploadVars>>

----------------------------------------------------------------------------
(* A step of receive_file.                                                 *)
UploadStep(s) ==
  /\ \/ AdmitStep(s) \/ ReceiveStep(s) \/ StoreStep(s) \/ QueryStep(s) \/ FinishStep(s)
  /\ UNCHANGED <<key, reader>>

(* A step of the pool thread that serves s.                                *)
HandlerStep(s) ==
  /\ RunStep(s) \/ UploadStep(s) \/ DownloadStep(s)
  /\ UNCHANGED writerVars
=============================================================================
