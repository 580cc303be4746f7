------------------------------ MODULE Recovery ------------------------------
(***************************************************************************)
(* DedupSystem with faults: the server process ends and is started again,  *)
(* a client ends in the middle of its session and its handler goes on with *)
(* the last message it received, a container cannot be written.            *)
(*                                                                         *)
(* FILES, containers/ and recipes/ survive the server process (the machine *)
(* goes on, so what has been written to a file stays); the chunk index,    *)
(* buffers, queues and connections do not.  Nothing is recovered from disk *)
(* at a start.                                                             *)
(***************************************************************************)
EXTENDS DedupProperties

CONSTANTS
  MaxFaults,    (* bound: faults in a behaviour                            *)
  MaxStale      (* bound: how often a handler takes an old message for new *)

VARIABLES
  faults,       (* how many there have been                                *)
  gone,         (* sessions whose client has ended, or lost its server     *)
  stale,        (* how often each handler has taken an old message for new *)
  lost,         (* history: ids of containers that were never completely   *)
                (* written: no file could be opened, or the server ended   *)
  fallen,       (* history: those of them that were in memory at a crash   *)
  stray,        (* history: the fingerprints and addresses under which     *)
                (* bytes of an old message have been stored                *)
  admitted      (* history: sessions whose row was added to FILES          *)

faultVars == <<faults, gone, stale, lost, fallen>>
allVars == <<vars, faultVars, stray, admitted>>

FaultInit ==
  /\ faults = 0 /\ gone = {} /\ stale = [s \in Sessions |-> 0]
  /\ lost = {} /\ fallen = {} /\ stray = {} /\ admitted = {}

Fault == faults < MaxFaults /\ faults' = faults + 1

----------------------------------------------------------------------------
(***************************************************************************)
(* A client ends.  (Deleting its ClientConn is AcceptLoop's subject; a     *)
(* SIGPIPE from a reply ends the server, which is Crash.)                  *)
(***************************************************************************)

(* The client process of s ends.  What it has sent still arrives; then     *)
(* read returns 0, or -1.  The handler spins in receive_data, so that its  *)
(* thread is lost, or does what follows.                                   *)
Die(s) ==
  /\ Fault
  /\ cpc[s] \notin {"start", "closed"} /\ s \notin gone
  /\ gone' = gone \cup {s}
  /\ UNCHANGED <<vars, stale, lost, fallen, stray, admitted>>

(* The data of the last message, laid out for the chunks the last reply    *)
(* asked for: the n-th one gets the n-th chunk that the message has.       *)
Reread(s) ==
  LET data == inMsg[s].data
      present == {j \in DOMAIN data : data[j] # Junk}
      asked == {i \in DOMAIN flags[s] : flags[s][i] = 1}
      For(i) == {j \in present : Rank(present, j) = Rank(asked, i)}
  IN [i \in DOMAIN flags[s] |->
        IF i \in asked /\ For(i) # {} THEN data[CHOOSE j \in For(i) : TRUE] ELSE Junk]

(* receive_data returns without a message: the length, which read did not  *)
(* set, happens to be 0, or read returns -1, which counts as much read.    *)
(* receive_file then finds the last message in m_inMsgBuffer once more.    *)
ReceiveStale(s) ==
  /\ s \in gone /\ spc[s] = "body" /\ toServer[s] = << >>
  /\ stale[s] < MaxStale /\ stale' = [stale EXCEPT ![s] = @ + 1]
  /\ inMsg' = [inMsg EXCEPT ![s].data = Reread(s)]
  /\ idx' = [idx EXCEPT ![s] = 1]
  /\ Goto(s, "store")
  /\ UNCHANGED <<job, wire, clientVars, serverVars, key, hashList, flags, dup, chunkAddr,
                 container, recipe, queueVars, threadVars, finished, reader, writerVars,
                 after, faults, gone, lost, fallen, stray, admitted>>

(* A chunk was asked for, and the old message has no more data.            *)
NoChunk(s) == AtChunk(s, 1) /\ Received(s, idx[s]) = Junk

(* The second such chunk has a size below zero, which wraps around:        *)
(* copying that much ends the process.                                     *)
SizeWraps(s) ==
  NoChunk(s) /\ \E i \in 1 .. idx[s] - 1 : flags[s][i] = 1 /\ Received(s, i) = Junk

(* The first one is stored as a chunk of zero bytes.                       *)
StoreNothing(s) ==
  LET c == hashList[s][idx[s]]
      a == [id |-> container[s].id, slot |-> 0]
  IN /\ NoChunk(s) /\ ~ SizeWraps(s)
     /\ addChunk(c, a)
     /\ chunkAddr' = [chunkAddr EXCEPT ![s] = a]
     /\ stray' = stray \cup {<<c, a>>}
     /\ Goto(s, "entry")
     /\ UNCHANGED <<job, wire, clientVars, FILES, key, inMsg, hashList, flags, idx, dup,
                    container, recipe, queueVars, threadVars, finished, reader, writerVars,
                    after, faultVars, admitted>>

----------------------------------------------------------------------------
(* A container is not written.                                             *)

(* save_container cannot open its file: an error is logged, and the        *)
(* container is freed all the same.                                        *)
SaveFails(s) ==
  /\ Fault
  /\ dataWriter[s] = "run" /\ saving[s] # None
  /\ lost' = lost \cup {saving[s].id}
  /\ saving' = [saving EXCEPT ![s] = None]
  /\ UNCHANGED <<job, wire, clientVars, serverVars, spc, key, uploadVars, reader, writing,
                 total, containers, recipes, after, gone, stale, fallen, stray, admitted>>

----------------------------------------------------------------------------
(* The server process ends.                                                *)

Connected == {s \in Sessions : cpc[s] # "start" /\ spc[s] # "closed"}

(* f, for all connected sessions, becomes v(s).                            *)
Forget(f, v(_)) == [s \in Sessions |-> IF s \in Connected THEN v(s) ELSE f[s]]

(* What can be on disk of the container a writer was saving: no file, or   *)
(* the beginning of it.                                                    *)
Torn(s) ==
  IF saving[s] = None THEN {{}}
  ELSE {{}} \cup {{[saving[s] EXCEPT !.data = SubSeq(@, 1, n)]} :
                    n \in 0 .. Len(saving[s].data)}

TornContainers == {t \in [Sessions -> UNION {Torn(s) : s \in Sessions}] :
                     \A s \in Sessions : t[s] \in Torn(s)}

(* An open recipe may lose its end, which the stream has not flushed.      *)
BeingWritten(n) == \E s \in Sessions : recipeWriter[s] = "run" /\ RecipeName(key[s]) = n

Cuts == {cut \in [DOMAIN recipes -> UNION {0 .. Len(recipes[n].entries) : n \in DOMAIN recipes}] :
           \A n \in DOMAIN recipes :
             IF BeingWritten(n) THEN cut[n] <= Len(recipes[n].entries)
             ELSE cut[n] = Len(recipes[n].entries)}

(* Fault: the index is still there after a restart.                        *)
RestartKeepsIndex == UNCHANGED serverVars

(* main builds a DedupServer with an empty index; FILES is in the database.*)
Restart ==
  /\ m_all_chunks' = [c \in Chunks |-> NoAddr]
  /\ UNCHANGED FILES

(* Fault: containers/ is made anew when the server starts.                 *)
FilesAfterNone(t) == UNION {t[s] : s \in Sessions}

(* The container files after a crash.                                      *)
FilesAfter(t) == containers \cup UNION {t[s] : s \in Sessions}

(* Every connection breaks, and what is in memory is lost.                 *)
Crash ==
  /\ Fault \/ ((\E s \in Sessions : SizeWraps(s)) /\ UNCHANGED faults)
  /\ Connected # {}
  /\ gone' = gone \cup Connected
  /\ spc' = Forget(spc, LAMBDA s : "closed")
  /\ toServer' = Forget(toServer, LAMBDA s : << >>)
  /\ toClient' = Forget(toClient, LAMBDA s : << >>)
  /\ container' = Forget(container, LAMBDA s : [container[s] EXCEPT !.data = << >>])
  /\ recipe' = Forget(recipe, LAMBDA s : << >>)
  /\ containerQueue' = Forget(containerQueue, LAMBDA s : << >>)
  /\ recipeQueue' = Forget(recipeQueue, LAMBDA s : << >>)
  /\ dataWriter' = Forget(dataWriter, LAMBDA s : "none")
  /\ recipeWriter' = Forget(recipeWriter, LAMBDA s : "none")
  /\ saving' = Forget(saving, LAMBDA s : None)
  /\ writing' = Forget(writing, LAMBDA s : None)
  /\ \E t \in TornContainers : containers' = FilesAfter(t)
  /\ LET down == UNION {{f.id : f \in InMemory(s) \ containers'} : s \in Connected}
     IN lost' = lost \cup down /\ fallen' = fallen \cup down
  /\ \E cut \in Cuts :
       recipes' = [n \in DOMAIN recipes |->
                     [recipes[n] EXCEPT !.entries = SubSeq(@, 1, cut[n])]]
  /\ Restart
  /\ UNCHANGED <<job, clientVars, key, inMsg, hashList, flags, idx, dup, chunkAddr, done,
                 reader, total, finished, after, stale, stray, admitted>>

----------------------------------------------------------------------------
(* A step of the system; a session enters receive_file's loop when its row *)
(* has been added, and files a chunk before it writes the recipe entry.    *)
SystemStep(s) ==
  /\ (s \notin gone /\ ClientSide(s)) \/ ServerSide(s)
  /\ admitted' = admitted \cup {t \in {s} : spc[t] = "add_file" /\ spc'[t] = "body"}
  /\ stray' = stray \cup {<<hashList[t][idx[t]], chunkAddr'[t]>> :
                            t \in {u \in {s} : /\ stale[u] > 0 /\ AtChunk(u, 1)
                                               /\ spc'[u] = "entry"}}
  /\ UNCHANGED faultVars

(* Every client has ended; the server may spin.  Nothing else stutters, so *)
(* a deadlock would be a client that is left waiting after a fault.        *)
AllGone == (\A s \in Sessions : cpc[s] = "closed" \/ s \in gone) /\ UNCHANGED allVars

RecoveryNext ==
  \/ \E s \in Sessions : \/ SystemStep(s) \/ Die(s) \/ SaveFails(s)
                         \/ ReceiveStale(s) \/ StoreNothing(s)
  \/ Crash
  \/ AllGone

RecoveryInit == Init /\ FaultInit

RecoverySpec == RecoveryInit /\ [][RecoveryNext]_allVars

----------------------------------------------------------------------------
(* After a restart, too, the index never lies: it starts empty, so that it *)
(* names no container that has gone down with the server, and an address   *)
(* resolves to its chunk.  The exceptions are containers that could not be *)
(* written, and fingerprints under which a handler has filed bytes of an   *)
(* old message after its client's death (stray).                           *)
RestartedIndexSound ==
  \A c \in Chunks :
    LET a == m_all_chunks[c]
    IN a # NoAddr =>
         /\ a.id \notin fallen
         /\ Resolves(a, c) \/ a.id \in lost \/ <<c, a>> \in stray

(* The sessions that were admitted to write the recipe called n.           *)
AdmittedTo(n) == {t \in admitted : RecipeName(key[t]) = n}

(* The recipe of a finished upload is complete and right in spite of every *)
(* fault, and its chunks are on disk, or on their way there if another     *)
(* session is still storing them.  What can be missing are chunks in       *)
(* containers that could not be written, or were in memory when the server *)
(* ended, and duplicates of a chunk that a dead client's handler misfiled. *)
DamageConfined ==
  \A t \in finished :
    AdmittedTo(RecipeName(key[t])) = {t} =>
      LET e == recipes[RecipeName(key[t])].entries
          file == job[t].file
      IN /\ Len(e) = Len(file)
         /\ \A k \in DOMAIN e :
              \/ OnDisk(e[k], file[k])
              \/ Uploading(e[k].id[1]) /\ Resolves(e[k], file[k])
              \/ e[k].id \in lost
              \/ <<file[k], e[k]>> \in stray

(* The file that t has uploaded can be read back from disk.                *)
Readable(t) ==
  /\ t \in finished
  /\ LET e == recipes[RecipeName(key[t])].entries
     IN /\ Len(e) = Len(job[t].file)
        /\ \A k \in DOMAIN e : OnDisk(e[k], job[t].file[k])

(* Nor has another session passed the check for its name: CheckUnique and  *)
(* AddFile are two steps, so two may pass it (finding unique_upload).      *)
Settled(t) ==
  /\ Readable(t)
  /\ \A u \in Sessions \ {t} :
       (spc[u] = "add_file" \/ Uploading(u)) => RecipeName(key[u]) # RecipeName(key[t])

(* A file that can be read back can be read back for ever: neither a       *)
(* crash, nor a restart with an empty index, nor another upload, which its *)
(* row in FILES still refuses, takes it away.                              *)
ReadableForEver ==
  [][\A t \in Sessions : Settled(t) => Settled(t)']_allVars

(* No chunk of file has ever been stored from an old message.              *)
Untouched(file) == \A p \in stray : \A k \in DOMAIN file : file[k] # p[1]

(* A download puts every chunk in its place, also of a file whose upload   *)
(* was cut short by a crash: it is the one at this place of the file, or   *)
(* it was not on disk when it was read, and what the buffer still held is  *)
(* delivered instead.  (If one session only was admitted under the name    *)
(* that the handler received, and no old message was taken for a new one   *)
(* in this upload or for one of its chunks.)                               *)
NeverWrong ==
  \A d, t \in Sessions :
    (AdmittedTo(RecipeName(key[d])) = {t} /\ stale[t] = 0 /\ Untouched(job[t].file)) =>
      \A k \in DOMAIN got[d] : RightOrMissed(d, k, job[t].file)
=============================================================================
