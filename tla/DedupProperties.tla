--------------------------- MODULE DedupProperties ---------------------------
(***************************************************************************)
(* What the system promises: properties of DedupSystem.                    *)
(***************************************************************************)
EXTENDS DedupSystem, SequencesExt

(* The containers of session t: being saved, being filled, or queued.      *)
InMemory(t) == ({saving[t], container[t]} \ {None}) \cup ToSet(containerQueue[t])

Holds(f, a, c) == f.id = a.id /\ a.slot \in DOMAIN f.data /\ f.data[a.slot] = c

(* Address a names a slot that holds chunk c on disk ...                   *)
OnDisk(a, c) == \E f \in containers : Holds(f, a, c)

(* ... or in a container that is on its way there.                         *)
Resolves(a, c) == OnDisk(a, c) \/ \E t \in Sessions : \E f \in InMemory(t) : Holds(f, a, c)

(* The loop of receive_file runs for s.                                    *)
Uploading(s) == spc[s] \in {"body", "store", "entry", "query", "last_container",
                            "last_recipe", "join"}

(* Sessions admitted to write the recipe called n.                         *)
Writers(n) == {t \in Sessions : /\ Uploading(t) \/ t \in finished
                                /\ RecipeName(key[t]) = n}

----------------------------------------------------------------------------
(* Safety of the index and of the containers.                              *)

(* The index never lies: whatever the interleaving of sessions and writer  *)
(* threads, the address isChunkStored hands out for a fingerprint names a  *)
(* slot, in memory or on disk, that holds that chunk.                      *)
IndexSound ==
  \A c \in Chunks : m_all_chunks[c] # NoAddr => Resolves(m_all_chunks[c], c)

(* Once the upload that stored a chunk is over (receive_file has returned) *)
(* the chunk is on disk: FILEEND, the queues' done flag and the joins lose *)
(* no container.                                                           *)
StoredIsDurable ==
  \A c \in Chunks :
    LET a == m_all_chunks[c]
    IN (a # NoAddr /\ ~ Uploading(a.id[1])) => OnDisk(a, c)

(* A container file, once written, never changes or disappears: recipes    *)
(* of other clients may point into it.                                     *)
ContainersNeverChange == [][containers \subseteq containers']_vars

----------------------------------------------------------------------------
(* Safety of an upload.                                                    *)

(* The places of the 0s of the reply that are still to be stored.          *)
OpenDuplicates(s) ==
  LET from == CASE spc[s] = "store" -> idx[s]
                [] spc[s] = "entry" -> idx[s] + 1
                [] OTHER -> 1
  IN {i \in DOMAIN flags[s] : i >= from /\ flags[s][i] = 0}

(* i is the Rank(S, i)-th number in S.                                     *)
Rank(S, i) == Cardinality({j \in S : j <= i})

(* The address queue of duplicates stays in step with the reply: while a   *)
(* batch is answered and stored it holds one address per 0 of the reply    *)
(* still to be stored, each naming its chunk, so that front() and pop()    *)
(* never meet an empty queue and no address is left over for a next file.  *)
DuplicatesInStep ==
  \A s \in Sessions : Uploading(s) =>
    LET open == OpenDuplicates(s)
    IN /\ Len(dup[s]) = Cardinality(open)
       /\ \A i \in open : Resolves(dup[s][Rank(open, i)], hashList[s][i])

(* The entries b, which belong behind the first n ones of a recipe, name   *)
(* the chunks that f has behind its first n ones.                          *)
Names(b, n, f) ==
  /\ n + Len(b) <= Len(f)
  /\ \A k \in DOMAIN b : b[k] # NoAddr /\ Resolves(b[k], f[n + k])

(* The block in the hands of the recipe writer of s.                       *)
InHand(s) == IF writing[s] = None THEN << >> ELSE writing[s]

(* receive_file loses, repeats and reorders no recipe entry: the entries   *)
(* in the file, then the block in the writer's hands, then those queued,   *)
(* which are full except for a last one, then those in the buffer (which   *)
(* has been queued before join) name the first chunks of the client's      *)
(* file; all of them are in the recipe once the upload has finished, when  *)
(* the count at its head is right too.  (If no other session writes a      *)
(* recipe of the same name.)                                               *)
RecipeFaithful ==
  \A s \in Sessions :
    (Writers(RecipeName(key[s])) = {s} /\ recipeWriter[s] # "open") =>
      LET r == recipes[RecipeName(key[s])]
          file == job[s].file
          n == Len(r.entries)
          q == recipeQueue[s]
          Start(j) == n + Len(InHand(s)) + (j - 1) * BatchSize
      IN /\ Names(r.entries, 0, file)
         /\ Names(InHand(s), n, file)
         /\ \A j \in DOMAIN q :
              /\ Names(q[j], Start(j), file)
              /\ Len(q[j]) = BatchSize \/ (j = Len(q) /\ spc[s] = "join")
         /\ spc[s] # "join" => Names(recipe[s], Start(Len(q) + 1), file)
         /\ s \in finished => n = Len(file) /\ r.total = n

(* Two sessions never hold the same recipe open: a file is admitted only   *)
(* once.                                                                   *)
UniqueUpload ==
  \A s, t \in Sessions :
    (s # t /\ {s, t} \subseteq Writers(RecipeName(key[s]))) => key[s] # key[t]

(* No chunk is stored by two sessions: deduplication across clients.       *)
StoredOnce ==
  \A f, g \in containers :
    f.id[1] # g.id[1] => ToSet(f.data) \cap ToSet(g.data) = {}

----------------------------------------------------------------------------
(* Safety of a download.                                                   *)

(* What can be left in m_outMsgBuffer where the k-th chunk of f goes: the  *)
(* chunk at the same place of an earlier batch, or nothing of f.           *)
LeftOver(f, k) ==
  {Junk} \cup {f[j] : j \in {i \in 1 .. k : \E m \in 1 .. k : k = i + m * BatchSize}}

(* The k-th chunk that d has received is the one f has at that place; or   *)
(* it was not on disk when it was read, and what was left in the buffer    *)
(* has been sent instead.                                                  *)
RightOrMissed(d, k, f) ==
  /\ k <= Len(f)
  /\ \/ got[d][k] = f[k]
     \/ k \in reader[d].missed /\ got[d][k] \in LeftOver(f, k)

(* A download shifts, repeats and skips nothing.  Even while the file is   *)
(* still being uploaded each chunk received is the one the file has at     *)
(* that place, unless its container was not on disk yet: then it is the    *)
(* one at this place of an earlier batch, or bytes that are no chunk.  (If *)
(* one session only writes a recipe of the name the handler received.)     *)
DownloadAligned ==
  \A d, t \in Sessions :
    Writers(RecipeName(key[d])) = {t} =>
      \A k \in DOMAIN got[d] : RightOrMissed(d, k, job[t].file)

(* The client d has downloaded the file that t had uploaded before.        *)
DownloadsAfter(d, t) ==
  /\ job[d].op = "d" /\ cpc[d] = "closed"
  /\ t \in after[d] /\ job[t].id = job[d].id /\ job[t].name = job[d].name

(* What was uploaded is what is downloaded later.                          *)
ReadBack ==
  \A d, t \in Sessions : DownloadsAfter(d, t) => got[d] = job[t].file

(* The same, for a download that connects when no upload is running or     *)
(* still to come: every container is on disk by then.                      *)
QuietReadBack ==
  \A d, t \in Sessions :
    /\ DownloadsAfter(d, t)
    /\ \A u \in Sessions : job[u].op = "u" => u \in after[d]
    => got[d] = job[t].file

----------------------------------------------------------------------------
(* Liveness.                                                               *)

(* Every client is served to the end: nobody waits for ever on a full      *)
(* queue, on a reply, on a writer thread or on a thread of the pool.       *)
AllServed == \A s \in Sessions : <>(cpc[s] = "closed" /\ spc[s] = "closed")

(* Every chunk that enters the index reaches the disk.                     *)
EventuallyDurable ==
  \A c \in Chunks :
    m_all_chunks[c] # NoAddr ~> (m_all_chunks[c] # NoAddr /\ OnDisk(m_all_chunks[c], c))
=============================================================================
