------------------------------ MODULE Packing ------------------------------
(***************************************************************************)
(* How a file becomes chunks, messages, containers and addresses, byte by  *)
(* byte.  ClientConn counts in chunks and slots; here are the offsets, the *)
(* short last chunk, the fingerprints inside the messages and the          *)
(* capacities of the buffers, for one client after the other.              *)
(*                                                                         *)
(* The threads, queues and races of DedupSystem are left out: a queued     *)
(* container or block of entries is on disk at once.  Memory and files are *)
(* sequences of bytes, offsets count from 0 as in the code.                *)
(***************************************************************************)
EXTENDS Naturals, Sequences, FiniteSets, SequencesExt

CONSTANTS
  CHUNKSIZE, BATCHSIZE, CONTAINERSIZE, HASHSIZE,
  Digest(_),    (* EVP_Digest                                              *)
  Paths,        (* file paths of the clients                               *)
  Files,        (* contents of their files                                 *)
  MaxUploads,   (* bound: uploads in a behaviour                           *)
  NoFile

Slash == 47

ASSUME SizesAssumption ==
  /\ CHUNKSIZE \in Nat \ {0} /\ BATCHSIZE \in Nat \ {0} /\ HASHSIZE \in Nat \ {0}
  /\ CONTAINERSIZE \in Nat \ {0} /\ CONTAINERSIZE % CHUNKSIZE = 0

VARIABLES
  cpc,          (* where the client stands                                 *)
  path, file,   (* m_file_path, and what that file holds                   *)
  pos,          (* position of read_data's stream                          *)
  readBuffer,   (* readBuffer of upload_file                               *)
  got,          (* the local file of a download                            *)
  delivered,    (* history: that file when it was closed, with its name    *)
  toServer, toClient,
  spc,          (* where the server's handler stands                       *)
  inMsg,        (* m_inMsgBuffer                                           *)
  hashList,     (* m_hashList: num and data                                *)
  flags,        (* m_outMsgBuffer->data of the last reply                  *)
  i,            (* the counter of the loop over m_hashList                 *)
  unique,       (* currentUniqueNum                                        *)
  dup,          (* m_duplicatedChunkAddr                                   *)
  container,    (* m_containerBuffer                                       *)
  recipe,       (* m_recipeBuffer                                          *)
  m_all_chunks, (* fingerprint, as a string -> ChunkAddr_t                 *)
  FILES,        (* names in the table                                      *)
  finished,     (* history: names whose upload has been logged as finished *)
  containers,   (* containers/: id -> bytes                                *)
  recipes,      (* recipes/: hashed name -> entries                        *)
  rpos          (* position of send_file's recipe stream, in entries       *)

clientVars == <<cpc, path, file, pos, readBuffer, got, delivered>>
storeVars  == <<hashList, flags, dup, container, recipe, m_all_chunks, finished,
                containers, recipes>>
vars == <<clientVars, toServer, toClient, spc, inMsg, i, unique, storeVars, FILES, rpos>>

----------------------------------------------------------------------------
(* Util.                                                                   *)

Lesser(a, b) == IF a <= b THEN a ELSE b

(* memcpy of the n bytes at offset start; behind what a buffer was filled  *)
(* with it holds other bytes (255 here).                                   *)
Copy(d, start, n) == [k \in 1 .. n |-> IF start + k <= Len(d) THEN d[start + k] ELSE 255]

(* What follows the last slash of a path.                                  *)
get_file_name(p) ==
  SubSeq(p, 1 + (CHOOSE k \in 0 .. Len(p) :
                   /\ k = 0 \/ p[k] = Slash
                   /\ \A m \in k + 1 .. Len(p) : p[m] # Slash), Len(p))

generate_hash(d) == Digest(d)

HexDigit(v) == IF v <= 9 THEN v + 48 ELSE v - 10 + 97

convert_array_hash_to_string(hash) ==
  [k \in 1 .. 2 * HASHSIZE |->
     LET b == hash[(k + 1) \div 2]
     IN HexDigit(IF k % 2 = 1 THEN b \div 16 ELSE b % 16)]

----------------------------------------------------------------------------
(* What there is at the start.                                             *)

(* The recipe's file name (the client's id is part of n).                  *)
RecipeName(n) == convert_array_hash_to_string(generate_hash(n))

(* f with f[k] = v.                                                        *)
Put(f, k, v) == [x \in DOMAIN f \cup {k} |-> IF x = k THEN v ELSE f[x]]

(* A new UUID, none of those in cs: they are numbered here.                *)
new_container(cs) ==
  [id |-> Cardinality(DOMAIN cs), data |-> << >>, capacity |-> CONTAINERSIZE]

(* An empty block of recipe entries.                                       *)
new_recipe == << >>

NoBatch == [data |-> << >>, chunkNum |-> 0, hashes |-> << >>]
NoMsg   == [type |-> "UPLOADBODY", start |-> 0, queryNum |-> 0, data |-> << >>]
NoQuery == [num |-> 0, data |-> << >>]

Init ==
  /\ cpc = "idle" /\ path = << >> /\ file = << >> /\ pos = 0
  /\ readBuffer = NoBatch /\ got = << >> /\ delivered = NoFile
  /\ toServer = << >> /\ toClient = << >>
  /\ spc = "order" /\ i = 0 /\ unique = 0 /\ rpos = 0
  /\ inMsg = NoMsg /\ hashList = NoQuery /\ flags = << >> /\ dup = << >>
  /\ m_all_chunks = [h \in {} |-> 0]
  /\ FILES = {} /\ finished = {}
  /\ containers = [id \in {} |-> << >>]
  /\ recipes = [n \in {} |-> << >>]
  /\ container = new_container(containers) /\ recipe = new_recipe

----------------------------------------------------------------------------
(* The client.                                                             *)

(* The j-th chunk of a batch, counted from 0: only the last can be short.  *)
Chunk(d, j) == Copy(d, j * CHUNKSIZE, Lesser((j + 1) * CHUNKSIZE, Len(d)) - j * CHUNKSIZE)

(* ceil(len * 1.0 / CHUNKSIZE)                                             *)
ChunkNum(len) == (len + CHUNKSIZE - 1) \div CHUNKSIZE

(* One turn of read_data: a batch of the file and its fingerprints.        *)
ReadBuffer(p) ==
  LET d == SubSeq(file, p + 1, Lesser(p + CHUNKSIZE * BATCHSIZE, Len(file)))
      num == ChunkNum(Len(d))
  IN [data |-> d, chunkNum |-> num,
      hashes |-> FlattenSeq([j \in 1 .. num |-> generate_hash(Chunk(d, j - 1))])]

(* Fault: the duplicates are sent, too.                                    *)
UniqueBytesAll(fl) ==
  FlattenSeq([j \in 1 .. readBuffer.chunkNum |-> Chunk(readBuffer.data, j - 1)])

(* The chunks of the last batch that the reply marks 1, back to back.      *)
UniqueBytes(fl) ==
  FlattenSeq([j \in 1 .. readBuffer.chunkNum |->
                IF fl[j] = 1 THEN Chunk(readBuffer.data, j - 1) ELSE << >>])

(* One turn of upload_file's loop: bytes of the last batch, fingerprints   *)
(* of the next.  After an empty batch the loop ends with FILEEND.          *)
SendBody(bytes) ==
  LET b == ReadBuffer(pos)
      body == [type |-> "UPLOADBODY", start |-> Len(bytes), queryNum |-> b.chunkNum,
               data |-> bytes \o b.hashes]
      end == [body EXCEPT !.type = "FILEEND", !.data = << >>]
  IN /\ toServer' = toServer \o (IF b.chunkNum = 0 THEN <<body, end>> ELSE <<body>>)
     /\ readBuffer' = b
     /\ pos' = pos + Len(b.data)
     /\ cpc' = IF b.chunkNum = 0 THEN "quit" ELSE "body_rep"

FirstBody ==
  /\ cpc = "first"
  /\ SendBody(<< >>)
  /\ UNCHANGED <<path, file, got, delivered, toClient, spc, inMsg, i, unique, storeVars,
                 FILES, rpos>>

NextBody ==
  /\ cpc = "body_rep" /\ toClient # << >>
  /\ SendBody(UniqueBytes(Head(toClient).data))
  /\ toClient' = Tail(toClient)
  /\ UNCHANGED <<path, file, got, delivered, spc, inMsg, i, unique, storeVars, FILES, rpos>>

(* download_file: a body is written to the local file, FILEEND closes it.  *)
DownBody ==
  /\ cpc = "download" /\ toClient # << >> /\ Head(toClient).type = "DOWNLOADBODY"
  /\ got' = got \o Head(toClient).data
  /\ toClient' = Tail(toClient)
  /\ UNCHANGED <<cpc, path, file, pos, readBuffer, delivered, toServer, spc, inMsg, i,
                 unique, storeVars, FILES, rpos>>

DownEnd ==
  /\ cpc = "download" /\ toClient # << >> /\ Head(toClient).type = "FILEEND"
  /\ delivered' = [name |-> get_file_name(path), data |-> got]
  /\ toClient' = Tail(toClient)
  /\ cpc' = "quit"
  /\ UNCHANGED <<path, file, pos, readBuffer, got, toServer, spc, inMsg, i, unique,
                 storeVars, FILES, rpos>>

(* QUIT is answered when the handler is back in run's loop; the client     *)
(* ends, and the next one has a ClientConn of its own.                     *)
Quit ==
  /\ cpc = "quit" /\ spc = "order"
  /\ cpc' = "idle" /\ path' = << >> /\ file' = << >> /\ pos' = 0
  /\ readBuffer' = NoBatch /\ got' = << >> /\ delivered' = NoFile
  /\ i' = 0 /\ unique' = 0 /\ rpos' = 0
  /\ inMsg' = NoMsg /\ hashList' = NoQuery /\ flags' = << >> /\ dup' = << >>
  /\ container' = new_container(containers) /\ recipe' = new_recipe
  /\ UNCHANGED <<toServer, toClient, spc, m_all_chunks, FILES, finished, containers, recipes>>

----------------------------------------------------------------------------
(* The server: receive_file.                                               *)

(* A client uploads the file f at path p; its name is not in FILES.        *)
BeginUpload(p, f) ==
  LET n == get_file_name(p)
  IN /\ cpc = "idle" /\ Cardinality(FILES) < MaxUploads /\ n \notin FILES
     /\ cpc' = "first" /\ path' = p /\ file' = f /\ pos' = 0
     /\ FILES' = FILES \cup {n}
     /\ recipes' = Put(recipes, RecipeName(n), << >>)
     /\ spc' = "body"
     /\ UNCHANGED <<readBuffer, got, delivered, toServer, toClient, inMsg, i, unique,
                    hashList, flags, dup, container, recipe, m_all_chunks, finished,
                    containers, rpos>>

RecvBody ==
  /\ spc = "body" /\ toServer # << >> /\ Head(toServer).type = "UPLOADBODY"
  /\ inMsg' = Head(toServer) /\ toServer' = Tail(toServer)
  /\ i' = 0 /\ unique' = 0
  /\ spc' = "store"
  /\ UNCHANGED <<clientVars, toClient, storeVars, FILES, rpos>>

(* The j-th fingerprint of a list that begins at offset start.             *)
HashAt(d, start, j) == convert_array_hash_to_string(Copy(d, start + j * HASHSIZE, HASHSIZE))

(* Fault: every chunk is CHUNKSIZE long.                                   *)
ReceivedFull(u) == Copy(inMsg.data, u * CHUNKSIZE, CHUNKSIZE)

(* The u-th unique chunk of the message, which ends where the hashes start.*)
Received(u) ==
  Copy(inMsg.data, u * CHUNKSIZE,
       Lesser((u + 1) * CHUNKSIZE, inMsg.start) - u * CHUNKSIZE)

(* Fault: there is always room.                                            *)
HasRoomAlways(c, size) == TRUE

HasRoom(c, size) == ~ (c.capacity < size)

(* The recipe entry for address a; a full buffer goes to disk before.      *)
WriteEntry(a) ==
  IF Len(recipe) >= BATCHSIZE
  THEN /\ recipes' = [recipes EXCEPT ![RecipeName(get_file_name(path))] = @ \o recipe]
       /\ recipe' = Append(new_recipe, a)
  ELSE recipe' = Append(recipe, a) /\ UNCHANGED recipes

(* Fault: the address is where the chunk ends.                             *)
AddressBehind(c, size) == [id |-> c.id, offset |-> Len(c.data), size |-> size]

(* occupied - chunkSize, once the chunk has been copied.                   *)
Address(c, size) == [id |-> c.id, offset |-> Len(c.data) - size, size |-> size]

StoreUnique ==
  LET chunk == Received(unique)
      size == Len(chunk)
      fresh == ~ HasRoom(container, size)
      disk == IF fresh THEN Put(containers, container.id, container.data) ELSE containers
      room == IF fresh THEN new_container(disk) ELSE container
      filled == [room EXCEPT !.data = @ \o chunk, !.capacity = @ - size]
      a == Address(filled, size)
      h == HashAt(hashList.data, 0, i)
  IN /\ spc = "store" /\ i < hashList.num /\ flags[i + 1] = 1
     /\ containers' = disk
     /\ container' = filled
     /\ m_all_chunks' = IF h \in DOMAIN m_all_chunks THEN m_all_chunks
                        ELSE Put(m_all_chunks, h, a)
     /\ WriteEntry(a)
     /\ i' = i + 1 /\ unique' = unique + 1
     /\ UNCHANGED <<clientVars, toServer, toClient, spc, inMsg, hashList, flags, dup,
                    finished, FILES, rpos>>

StoreDuplicate ==
  /\ spc = "store" /\ i < hashList.num /\ flags[i + 1] = 0
  /\ WriteEntry(Head(dup)) /\ dup' = Tail(dup)
  /\ i' = i + 1
  /\ UNCHANGED <<clientVars, toServer, toClient, spc, inMsg, unique, hashList, flags,
                 container, m_all_chunks, finished, containers, FILES, rpos>>

(* The new query: its hashes lie behind the chunks.                        *)
AnswerQuery ==
  LET num == inMsg.queryNum
      h(j) == HashAt(inMsg.data, inMsg.start, j - 1)
      hit(j) == h(j) \in DOMAIN m_all_chunks
      reply == [j \in 1 .. num |-> IF hit(j) THEN 0 ELSE 1]
  IN /\ spc = "store" /\ i = hashList.num
     /\ hashList' = [num |-> num, data |-> Copy(inMsg.data, inMsg.start, HASHSIZE * num)]
     /\ flags' = reply
     /\ dup' = dup \o FlattenSeq([j \in 1 .. num |->
                        IF hit(j) THEN <<m_all_chunks[h(j)]>> ELSE << >>])
     /\ toClient' = IF num = 0 THEN toClient
                    ELSE Append(toClient, [type |-> "UPLOADBODYREP", data |-> reply])
     /\ spc' = "body"
     /\ UNCHANGED <<clientVars, toServer, inMsg, i, unique, container, recipe,
                    m_all_chunks, finished, containers, recipes, FILES, rpos>>

(* FILEEND: the last container and entries go to disk; reset_upload.       *)
RecvFileEnd ==
  /\ spc = "body" /\ toServer # << >> /\ Head(toServer).type = "FILEEND"
  /\ toServer' = Tail(toServer)
  /\ containers' = IF container.data = << >> THEN containers
                   ELSE Put(containers, container.id, container.data)
  /\ recipes' = [recipes EXCEPT ![RecipeName(get_file_name(path))] = @ \o recipe]
  /\ container' = new_container(containers')
  /\ recipe' = new_recipe
  /\ hashList' = [hashList EXCEPT !.num = 0]
  /\ finished' = finished \cup {get_file_name(path)}
  /\ spc' = "order"
  /\ UNCHANGED <<clientVars, toClient, inMsg, i, unique, flags, dup, m_all_chunks, FILES,
                 rpos>>

----------------------------------------------------------------------------
(* The server: send_file.                                                  *)

(* A client downloads to the path p a name that is in FILES.               *)
BeginDownload(p) ==
  /\ cpc = "idle" /\ get_file_name(p) \in FILES
  /\ cpc' = "download" /\ path' = p /\ got' = << >>
  /\ rpos' = 0 /\ spc' = "send"
  /\ UNCHANGED <<file, pos, readBuffer, delivered, toServer, toClient, inMsg, i, unique,
                 storeVars, FILES>>

Fetch(a) == Copy(containers[a.id], a.offset, a.size)

(* A batch of entries: the chunks they name, back to back.                 *)
SendDownBody ==
  LET e == recipes[RecipeName(get_file_name(path))]
      b == SubSeq(e, rpos + 1, Lesser(rpos + BATCHSIZE, Len(e)))
  IN /\ spc = "send"
     /\ \/ /\ b # << >>
           /\ toClient' = Append(toClient,
                [type |-> "DOWNLOADBODY",
                 data |-> FlattenSeq([j \in 1 .. Len(b) |-> Fetch(b[j])])])
           /\ UNCHANGED spc
        \/ /\ b = << >>
           /\ toClient' = Append(toClient, [type |-> "FILEEND", data |-> << >>])
           /\ spc' = "order"
     /\ rpos' = rpos + Len(b)
     /\ UNCHANGED <<clientVars, toServer, inMsg, i, unique, storeVars, FILES>>

----------------------------------------------------------------------------
Next ==
  \/ \E p \in Paths : BeginDownload(p) \/ \E f \in Files : BeginUpload(p, f)
  \/ FirstBody \/ NextBody \/ DownBody \/ DownEnd \/ Quit
  \/ RecvBody \/ StoreUnique \/ StoreDuplicate \/ AnswerQuery \/ RecvFileEnd
  \/ SendDownBody

Spec == Init /\ [][Next]_vars

----------------------------------------------------------------------------
(* The server keeps the bytes of every file, whatever its length and       *)
(* whatever it shares with others: read through the recipe, the containers *)
(* hold what the client sent, and a download delivers it under any path    *)
(* with the same name.                                                     *)
Contents ==
  [n \in finished |->
     LET e == recipes[RecipeName(n)]
         upto[k \in 0 .. Len(e)] == IF k = 0 THEN << >> ELSE upto[k - 1] \o Fetch(e[k])
     IN upto[Len(e)]]

Store == INSTANCE FileStore WITH
  Names    <- {get_file_name(p) : p \in Paths},
  contents <- Contents,
  request  <- IF FILES = finished THEN NoFile
              ELSE [name |-> get_file_name(path), data |-> file]

ImplementsFileStore == Store!StoreSpec

(* The container files and the one that is being filled.                   *)
Stored == Put(containers, container.id, container.data)

(* The index is by content: the bytes at an address have the fingerprint   *)
(* it is filed under, so that a hit of isChunkStored is the same chunk.    *)
IndexedByContent ==
  \A h \in DOMAIN m_all_chunks :
    LET a == m_all_chunks[h]
    IN /\ a.id \in DOMAIN Stored /\ a.offset + a.size <= Len(Stored[a.id])
       /\ convert_array_hash_to_string(generate_hash(Copy(Stored[a.id], a.offset, a.size))) = h

(* Containers are cut into slots of CHUNKSIZE bytes: an address names one  *)
(* of them, and a short chunk is the last of its container.                *)
SlotAligned ==
  \A h \in DOMAIN m_all_chunks :
    LET a == m_all_chunks[h]
    IN /\ a.offset % CHUNKSIZE = 0
       /\ a.size = CHUNKSIZE \/ (a.size < CHUNKSIZE /\ a.offset + a.size = Len(Stored[a.id]))

(* No buffer overflows: what is copied into one never exceeds what the     *)
(* constructors and new_container have allocated.                          *)
BuffersHold ==
  /\ \A k \in DOMAIN toServer : Len(toServer[k].data) <= (CHUNKSIZE + HASHSIZE) * BATCHSIZE
  /\ \A k \in DOMAIN toClient : Len(toClient[k].data) <= CHUNKSIZE * BATCHSIZE
  /\ hashList.num <= BATCHSIZE /\ Len(recipe) <= BATCHSIZE
  /\ Len(container.data) <= CONTAINERSIZE
=============================================================================
