----------------------------- MODULE DedupServer -----------------------------
(***************************************************************************)
(* What all connections share in the server process: the FILES table and   *)
(* the index of stored chunks.  Each operation is one atomic step: a query *)
(* on a pooled MySQL connection, or a critical section of m_mutex.         *)
(***************************************************************************)
EXTENDS Wire

CONSTANTS
  NoAddr      (* no address: an unset ChunkAddr_t, or one read from a hole *)

VARIABLES
  FILES,          (* rows (ID, FileName) of the table                      *)
  m_all_chunks    (* fingerprint -> ChunkAddr_t, NoAddr if not stored      *)

serverVars == <<FILES, m_all_chunks>>

(***************************************************************************)
(* A container id is a random UUID, which never repeats: the n-th one that *)
(* session s draws is <<s, n>>.  An address names a slot of a container;   *)
(* slot 0 is an address of zero bytes.                                     *)
(***************************************************************************)
ContainerId == Sessions \X Nat
Addr == [id : ContainerId, slot : Nat]

ASSUME NoAddrAssumption == NoAddr \notin Addr

(* (client_id, fileName), as in a row of FILES.                            *)
Key == [id : Seq(Chars), name : Seq(Chars)]

ServerTypeOK ==
  /\ FILES \subseteq Key
  /\ m_all_chunks \in [Chunks -> Addr \cup {NoAddr}]

ServerInit ==
  /\ FILES = {}
  /\ m_all_chunks = [c \in Chunks |-> NoAddr]

isFileUnique(k) == k \notin FILES

isFileExist(k) == ~ isFileUnique(k)

(* Fault: the insertion fails and nobody notices.                          *)
addFileLost(k) == FILES' = FILES

addFile(k) == FILES' = FILES \cup {k}

(* std::map::insert keeps the entry that is already there.                 *)
addChunk(c, a) ==
  m_all_chunks' = IF m_all_chunks[c] = NoAddr
                  THEN [m_all_chunks EXCEPT ![c] = a]
                  ELSE m_all_chunks

(* Faults: the lookup never finds a chunk; it takes end() for a hit.       *)
isChunkStoredNever(c) == FALSE
isChunkStoredAlways(c) == TRUE

isChunkStored(c) == m_all_chunks[c] # NoAddr
=============================================================================
