# A TLA+ model of DedupServer

DedupServer is a prototype of a cloud storage server with client-side, chunk-level
deduplication. A client sends the fingerprints of a batch of chunks, the server answers
which of them it does not have, and the client sends those together with the next
batch of fingerprints. The server packs new chunks into containers, keeps an index
from fingerprints to addresses in containers, and writes for each file a recipe: the
list of its chunks' addresses. A download reads the recipe and then the chunks.

This directory models that system in TLA+, checks it with TLC on small instances and
proves part of it with TLAPS for all instances. Paths below are relative to the
repository (`src/server/...`, `include/...`).

## 1. Inventory

| Component | State | Operations | Interacts with |
|---|---|---|---|
| Transport, `include/Util.h`, `include/define.h` | none (the socket) | `send_data`, `receive_data`, `send_control_message`, `receive_control_msg` | client and server code call it; frames of an 8-byte length and a body over TCP |
| `DedupClient`, `src/client/DedupClient.cc` | one command, two message buffers, a queue of read batches | `connect_server`, `run`, `upload_file`, `download_file`; thread `read_data` | messages to `ClientConn`; `BlockQueue` between reader thread and uploader |
| `ClientConn`, `src/server/ClientConn.cc` | per connection: message buffers, hash list, queue of duplicates' addresses, container and recipe buffers, two `BlockQueue`s | `run`, `receive_file`, `send_file`; threads `write_container`, `write_recipe` | messages to the client; shared table, index, directories `containers/` and `recipes/` |
| `DedupServer`, `src/server/DedupServer.cc` | FILES table (MySQL), `m_all_chunks`, `m_clients`, epoll set | `isFileUnique`, `isFileExist`, `addFile`, `addChunk`, `isChunkStored`; `run` (accept, hang-up) | called by all `ClientConn`s, index under `m_mutex`; hands connections to the pool |
| `ThreadPool`, `src/comm/ThreadPool.cc` | threads, request queue | `append`, `run` | executes `ClientConn::run` |
| `BlockQueue`, `include/BlockQueue.h` | buffer, `m_isEmpty`, `m_done`, a mutex, two condition variables | `push`, `pop`, `empty`, `set_done`, `undone` | used by `ClientConn`, `DedupClient`, `ThreadPool`, `Logger` |
| `MysqlConnPool`, `MysqlConn` | free connections | `get_connection`, `release_connection`, `hasResult`, `executeInsertion` | used by `DedupServer` for each query |
| `Logger`, `src/comm/Logger.cc` | file stream, line count, day, queue | `init`, `write_log` (rotation), `async_write_log`, destructor | called by everybody |
| `Config`, `argparse.hpp`, `src/app/test*.cc` | options | parsing; stand-alone trials | — |

What is hard here: every connection has three threads in the server; all connections
share index, table and disk; an address is looked up when a query is answered and used
one message later; a chunk is in the index long before its container is on disk; the
uniqueness of a file name is tested and recorded in two queries; queues block when
full, and `set_done` wakes nobody; the main loop deletes the object of a connection that
a pool thread may be using; the index lives in memory only, table and files do not.

What makes each part correct:

* index and containers: an address handed out names a slot that holds the chunk; a
  finished upload is on disk; container files never change;
* an upload: the recipe names the chunks of the file, in order, all of them, whatever
  the writers' pace; one writer per recipe; a chunk is stored once;
* a download: what was uploaded is what comes back, and nothing is shifted, repeated or skipped;
* everybody is served; every chunk becomes durable;
* BlockQueue: a bounded FIFO; the end is reported only when all has been taken;
  nobody sleeps for ever;
* MySQL pool: a connection is in one hand at a time and none is lost; no wakeup is lost;
* accept loop: an object is deleted once, after its session, and never because of an event
  or an entry that belongs to an earlier connection on the same descriptor;
* after a crash: what could be read back still can; damage stays where the crash happened;
* bytes: every address names exactly the bytes of its chunk, the buffers hold what is put in;
* Logger: every line reaches a file, files are not overwritten, and a rotation and the writer
  thread do not wait for each other.

`PROJECT.json` lists the hazards line by line with the properties that cover them.

## 2. Modules

| Module | Models |
|---|---|
| `Wire` | messages and transport; constants of the whole model |
| `DedupServer` | FILES table and chunk index |
| `DedupClient` | the client program |
| `ClientConn` | handler thread and the two writer threads of a connection, the disk |
| `DedupSystem` | composition: any number of sessions over the shared state; fairness |
| `DedupProperties` | what the system promises |
| `MCDedup` + `MC*.cfg` | instances for TLC |
| `AcceptLoop` | `DedupServer::run` and the thread pool: accept, `m_clients`, epoll, descriptors that are used again, the life of a `ClientConn` |
| `Recovery`, `MCRecovery` | `DedupSystem` with faults: the server ends and is started again, a client ends and its handler takes an old message for a new one, a container cannot be written |
| `Packing`, `MCPacking` | one client after the other, in bytes: chunking, message layout, offsets and sizes, fingerprints as strings |
| `FileStore` | what a client expects of the server (abstract specification of `Packing`) |
| `BlockQueue` | the queue at the grain of lock and condition variables |
| `BoundedFifo` | what the queue promises (abstract specification) |
| `MysqlConnPool` | the pool of MySQL connections and the life of a `MysqlConn` |
| `Logger` | `write_log` with its rotations, the writer thread, the destructor |
| `DedupProofs`, `RecipeProofs`, `ReadBackProofs` | theorems about `DedupSystem`, each module on top of the one before |
| `RecoveryProofs` | theorems about `Recovery`, on top of `ReadBackProofs` |
| `BlockQueueProofs`, `MysqlConnPoolProofs`, `AcceptProofs`, `LoggerProofs` | theorems about the components |

Definitions whose comment begins with "Fault" are wrong variants of the definition that
follows them; they take no part in the specification and serve to check that the properties
notice such an error.

### State and actions

A *session* is one TCP connection made by one run of the client program. `spc[s]` and
`cpc[s]` tell where the handler and the client stand; the other variables carry the names
of the C++ members (comments in the modules give the correspondence). The handler takes
one action per shared-state access or message: `CheckUnique` (the select and the reply),
`AddFile` (the insert, then the threads start), `RecvBody`, per chunk `FlushContainer`,
`StoreChunk`, `TakeDuplicate`, `FlushRecipe`, `WriteEntry`, per hash `QueryChunk`, then
`SendReply`; after FILEEND `InsertLastContainer`, `InsertLastRecipe` (with both
`set_done`), `Join` (with `reset_upload`). The writers pop and save or write in separate
steps, so that a block in a writer's hands is neither in the queue nor on disk. A
download opens the recipe, reads it in batches and fetches each chunk in a step of its
own. `Fetch` is the `container.read` into `m_outMsgBuffer`: if the container is not on disk the
buffer keeps what it held, from the second batch on a chunk of an earlier one
(`old` is the buffer behind the part already written, `missed` a history of the places this
happened to).

`MysqlConnPool` has one step per critical section and one per call on a connection, because
`hasResult` fetches its result in a second call: `answered` says whose select a connection
has answered. A select may fail: nobody looks at the result, and `mysql_num_rows` follows the null
pointer, which ends the process. `Logger` splits `write_log` where another thread can interfere: `time`,
`localtime` (whose buffer all threads share), the critical section, the end of the waiting
loop, `close`, `open`, and the `push` after the unlock.

In `AcceptLoop` a client is also its connection and its `ClientConn`. `conn[c]` is how far the
server is with it, `object[c]` whether the object lives, `fd[c]` its descriptor while that is
open. `EpollWait` fetches events, `Accept`, `append` and `HangUp` handle them one by one, so
that an event can be older than the connection that has its descriptor by then. Using or
deleting a deleted object, and the SIGPIPE of a write to a client that died, end the
behaviour: `fault` says which it was. `AcceptFails` is `accept` returning -1: `run` builds a
`ClientConn` on that descriptor all the same, which a pool thread serves and nobody deletes.

`Recovery` adds to `DedupSystem`:

* `Crash` ends the process and starts it again: the index is empty, buffers, queues and
  connections are gone, FILES and both directories stay; the container that was being saved may be
  there in part or not at all, and an open recipe may lose its end. The ids of what was in memory
  and is not on disk go into `fallen` and `lost`.
* `SaveFails` is the error path of `save_container`; the id goes into `lost`.
* `Die`: the client does nothing more; what it has sent still arrives. Then `read` returns 0, or
  -1, and `receive_data` looks at neither. Its length `len` has not been set: with any value but 0
  and `read` returning 0 the loop spins, and the pool thread is lost (the handler takes no
  further step). With 0, or with `read` returning -1, which is added to a `size_t`, it returns:
  `ReceiveStale` lets the handler go through the message in `m_inMsgBuffer` again, with its old data for the
  chunks that the last reply has asked for (`Reread`). `StoreChunk` then files a chunk under a
  hash that is not its own. If the message has too little data, the first chunk without any is stored
  with size 0 (`StoreNothing`, slot 0), and the size of a second one wraps around (`SizeWraps`), so
  that the process ends: that `Crash` is not counted as a fault. `stray` records every
  pair of a fingerprint and an address that has been filed this way.

`Packing` keeps the files, messages, containers and recipes of `ClientConn` and
`DedupClient` as sequences of bytes and leaves out threads and queues: what is queued is on disk at
once, and one client follows the other. The mapping to `FileStore` reads, for each finished
upload, the bytes at the addresses in its recipe.

### Abstractions

* A chunk and its fingerprint are one value (SHA-256 injective). Sizes are counted in
  chunks: CONTAINERSIZE is a multiple of CHUNKSIZE and only the last chunk of a file is
  short, so an offset is a slot number. `Packing` has the byte arithmetic; its invariant
  `SlotAligned` says that an offset is a multiple of CHUNKSIZE, for one upload at a time, which
  is the case for a container: it belongs to one upload.
* In `Packing` the digest is an injective function on the chunks of the instance, container ids
  are numbers, and the client's id is left out of names.
* The faults of `Recovery` end processes, not the machine: a file that has been closed stays. A torn
  container ends at a chunk's boundary; a chunk of which a part is there counts as missing.
  A SIGPIPE, and the null result of a failed select, are a `Crash`; a client that has lost its server
  stops. Bytes of an old message that nobody asks for are dropped by `Reread`: no later pass
  can reach them. An old message is taken for a new one in `receive_file`'s loop; before the loop's
  first message the buffer is fresh memory, taken for zeros, which are an upload body without hashes.
  A handler that waits for a command when its client ends is `QuitUnset` of `AcceptLoop`; in
  `Recovery` it spins. A container that `SizeWraps` queues in the last
  moment is taken to be lost.
* `AcceptLoop` leaves out the arguments of `accept` but the descriptor, and a listening socket that
  cannot be set up, which ends the process.
* A random UUID never repeats: the n-th one that session s draws is `<<s, n>>`.
* `BlockQueue` inside `ClientConn` is its abstract specification: a bounded sequence and a
  done flag. Run `queue` and the theorem `Refinement` justify this. Both queues are marked
  done one right after the other by the same thread and share one variable.
* Bytes nobody wrote (the receive buffer behind the message, the send buffer of a first batch
  whose container cannot be opened) are `Junk`; what is left over of an earlier message is that
  message's data. Where a short last chunk is missing, only the beginning of the chunk left in the
  buffer is sent; the model keeps that chunk whole. What follows an unterminated name is one of `Tails`.
* A block of recipe entries is visible once `recipeFile.write` is called. The stream
  may delay it until `close`; a reader that sees it later is one that ran earlier.
* Writing a recipe that another session has emptied leaves a hole (`Overlay`).
* The pool takes waiting connections in any order, and a thread takes a connection when its
  login message is there: `Connect` sends login and order in one step, since the server
  does nothing observable in between.
* `Logger` begins with any of `QueueSizes`; 0 means no queue and no writer thread.
  A line is a caller and a number, a file a day and a number. The writer thread and a
  rotation use the stream without a common lock, which is undefined behaviour; the model takes
  each call on the stream as one step, so that a line may land in the old file, in the new
  one, or nowhere. `write_log` reads the shared `tm_mday` up to four times under the mutex,
  the model once. Days are numbered; the code compares days of the month.
* `read_data` is reduced to the batches its queue delivers, in order.

## 3. Runs

| Run | Instance | Checks | Result |
|---|---|---|---|
| `concurrent` | 3 sessions and 3 pool threads, batch 2, container of 1 chunk, queues of 1: uploads of xy and y and a download; uploads of xy and yxx and another command; one file uploaded twice and its download (in these two the third client comes when the first has ended) | `TypeOK`, `IndexSound`, `StoredIsDurable`, `DuplicatesInStep`, `RecipeFaithful`, `DownloadAligned`, `QuietReadBack`, `ContainersNeverChange` | hold, 444 690 states |
| `serial` | 3 sessions, four sets of commands (two uploads and a download of either file; one file twice and its download; an empty file, its download and another command), one pool thread, fairness | `ReadBack`, `StoredOnce`, `UniqueUpload`, `AllServed`, `EventuallyDurable` | hold, 17 319 states |
| `recovery` | uploads of xy and y by two clients and, when both have ended, a download of xy; y uploaded twice under one name; xyz, a file of two batches, with its download or with an upload of z by another client; 2 pool threads, one fault anywhere, each handler takes two old messages for new | `RestartedIndexSound`, `DamageConfined`, `NeverWrong`, `ReadableForEver`, no deadlock | hold, 487 252 states |
| `packing` | chunks of 2 bytes, batches of 2 chunks, containers of 4 bytes, 2 uploads of any file of up to 3 bytes or of four longer ones, names with and without a directory | `IndexedByContent`, `SlotAligned`, `BuffersHold`, `ImplementsFileStore` | hold, 26 381 states |
| `accept` | 3 clients, 3 descriptors, 2 pool threads, request queue of 1, backlog 2, 2 events at a time, one client may die or one `accept` fail, fairness | `TypeOK`, `NoDoubleDelete`, `DeletedAfterQuit`, `EveryoneServed` | hold, 448 224 states |
| `queue` | 2 producers of 3 elements, 3 consumers, size 2, fairness | `TypeOK`, `EmptyFlagRight`, `ImplementsFifo`, `RoundsEnd` | hold, 2 187 states |
| `mysql_pool` | 4 threads, 2 connections, a select may fail, fairness | `TypeOK`, `NoneSharedNoneLost`, `OwnAnswer`, `NoWakeupLost`, `SomebodyServed` | hold, 3 304 states |
| `logger` | 2 callers of 3 lines, a new file every 3 lines, a queue of 2 or none, two days, fairness | `TypeOK`, `AllWritten`, `SyncLosesNothing`, `LossBounded`, `FilesOnlyGrow`, `ShutsDown` | hold, 410 018 states |
| `stored_once` | two clients upload xy | `StoredOnce` | violated |
| `read_back` | uploads of xy and of y under different names, a download of the first | `ReadBack` | violated |
| `unique_upload` | two sessions of one client and file | `UniqueUpload` | violated |
| `collide` | client 1 with file `2f`, client 12 with file `f` | `ReadBack` | violated |

Why the bounds are enough. Two chunks in different orders and a repeated one give every
pattern of new, known and repeated chunks within and across batches; a batch of two and a
container of one make both the container and the recipe buffer overflow in the middle of a
batch and the last batch be partial; queues of one element make the handler wait for each
writer; three sessions are two uploads that depend on one another and a reader. Four threads at two
connections let two sleep while a third barges in; the lines are enough for two rotations (a
split and a new day, or two splits), and two callers one that rotates and one that logs
meanwhile. The pool needs no bound on queries: its
state space is finite. Three clients on three descriptors are one that holds a thread, one that
fills the queue and one on which `append` blocks, and a descriptor that is used again while its
old entry and an old event are around; a client that dies leaves one of two threads for the
others. One fault at any step of three sessions meets every combination of a finished,
a running and a coming session; a container that is lost or torn belongs to another session than
the recipe that names it in the first set of commands; in the third and fourth the file has a second
batch: an old message then has data for hashes of the next batch, another client's upload meets a
fingerprint under which such data was filed, and a download has a chunk of the first batch in its
buffer when it looks for one of the second. Two old messages are the last data message and, once
more, the same with the chunk now known, which sends the misfiled chunk to the disk. One fault is
enough for the run: what a second one meets, a session of a second server process among what
the first has left, is in the proofs, which put no bound on either. Files of up to three bytes over two values
have a whole, a short and no last chunk, the longer ones have two batches, a batch that
ends with the file, and a chunk that occurs in both.

What they show. Within one upload the code is right under every interleaving: nothing is
lost between buffer, queue, writer and disk, the queue of duplicates never gets out of step,
and the index never lies. What fails is what sessions assume of each other:

* `stored_once`: the query and the insertion of a chunk are two critical sections, so two
  uploads at the same time store it twice. (A chunk that occurs twice in one batch is
  stored twice too; `StoredOnce` speaks of different sessions only.)
* `read_back`: an upload made of another session's chunks finishes before they are on disk.
  `QuietReadBack` states what remains true: when no upload is running, a download is right.
* `unique_upload`, `collide`: a recipe file with two writers.

What faults take is confined: after a crash the index is empty and therefore right
(`RestartedIndexSound`: it names nothing that went down with the server), and recipes of finished uploads are
whole. What `DamageConfined` has to exempt is a real loss: chunks of a finished upload that
another session was still writing when the server ended, or could not write, or that a dead
client's handler has misfiled. (TLC reaches that: with `stray` taken out of `RestartedIndexSound` the
run fails, on a client that ends after its second query has been answered. Its handler finds the last
message once more and files a chunk of the first batch under the second batch's hash, and
the next upload of that hash is answered "known".) It exempts these addresses only: what a finished session
had on disk before a crash is still there. A download has every chunk in its place that was on
disk when it was read (`NeverWrong`); what it has for the others is the chunk at the same place of
an earlier batch or bytes nobody wrote, and neither client nor server notices. A
name stays taken although its upload was cut short. `ReadableForEver` speaks of names that no second
session has been let in for, because of `unique_upload`.

The bookkeeping of `AcceptLoop` never deletes twice and never deletes the wrong session's object.
Two things it does not promise. The object may be deleted while its thread is between the QUITREP and
`close(m_sockfd)`: `fault` then becomes "used", and TLC reaches it. And `insert` keeps a stale entry,
so the connection that gets such a descriptor is missing from `m_clients` and its object is never
freed.

An object built on descriptor -1 is deleted by nobody either.

In `Logger` an empty queue does not mean that its last line has been written: a rotation closes the
stream under the writer and the line is lost. `LossBounded` states what the waiting loop
does achieve, `SyncLosesNothing` that without a queue nothing is lost.

With one pool thread (`serial`) the promises of the repository's README hold, but for names that
collide.

Two more disagreements show when a constant is changed. With a `Tails` that has a nonempty
element (the byte behind an unterminated name is not zero) the server may see another name in
the download than in the upload, and `ReadBack` fails. Without its restriction to the first day
`FilesOnlyGrow` fails: a thread that asked for the time before midnight and calls `localtime`
after another thread has rotated takes the logger back to the day before, whose file is
opened for writing from the start.

### Fairness

`FairSpec` assumes weak fairness of each client process, handler and writer thread: the
operating system's scheduler runs a thread that can run. A waiting connection gets a thread
because the pool's queue is a FIFO and every served session ends (`AllServed` is about
finitely many sessions). In `BlockQueue` weak fairness of each producer and consumer includes the
timeout of `wait_for`; spurious wakeups are possible and not relied on. In `MysqlConnPool` no
thread has to begin a query, and mutex and condition variable are not fair: a single thread may
starve, so `SomebodyServed` speaks of some thread. In `Logger` every caller logs finitely many
lines, so that weak fairness of each thread is enough for the mutex. In `AcceptLoop` the main loop,
the taking of requests, each client and each handler that has something to do are weakly fair; the
handler of a client that died without a QUIT is not, since it may spin in `receive_data`
for ever. In `MysqlConnPool` a thread's steps are fair as long as the process is alive. `Recovery` assumes no fairness: what takes its place is the deadlock check, in which only
a state where every client has ended may stutter.

## 4. Proofs

TLAPS proves, for every set of sessions, chunks, command lines and name tails and every size
of batches, containers, queues and pool (assumptions: the sizes are positive, `Jobs` and
`Tails` have their types, `Junk`, `NoAddr` and `None` are none of the values they stand in for):

* `DedupProofs!TypeCorrect`: `Spec => []TypeOK`. `TypeOK` alone is not inductive: the recipe
  writer and `send_file` apply `recipes` to a name, which has a value of the right type only
  if the file exists. `RecipeInv` adds that: the writer runs only during an upload, once it
  has opened the file the recipe is there, a block is in its hands only while it runs, and a
  stream that has not failed belongs to a file that exists. Recipes are never deleted, so a
  step of one session leaves the others' part alone (`RecipeKept`).
* `DedupProofs!ContainersKept`: `Spec => ContainersNeverChange`. The invariant `IdInv`
  orders the containers of a session: on disk, being saved, queued, being filled, by
  ascending number. `Bound` accounts for the moment between queueing the last container and
  `reset_upload`, when the buffer's id has been handed over.
* `DedupProofs!IndexNeverLies`, `StoredDurably`, `DuplicatesQueued`: `[]IndexSound`,
  `[]StoredIsDurable`, `[]DuplicatesInStep`. They rest on the lock-step of client and handler:
  `PhaseAt` lists, phase by phase, where both stand and which messages are on
  their way, and that the data of a body has the chunks which the last reply asked for;
  `QueryAt` bounds the reply and the loop variable. From it follows that a chunk with flag 1 is
  in the message when the handler stores it. `StoreAt` says that a session holds containers only
  during its upload, that the container writer leaves only when there is nothing left for it, and that
  the last container has been queued before `join`. `AddressInv` collects every place an address is
  kept in before it reaches a recipe (index, queue of duplicates, `chunkAddr`) and says that it resolves to its
  chunk; what resolves goes on to do so, because a container goes from the buffer over queue and
  writer to the disk with its slots unchanged, by `IdInv` under a number of its own.
* `RecipeProofs!RecipesFaithful`: `[]RecipeFaithful`, by positions in the client's file.
  `SliceInv`: batch and hash list are the parts of the file just before `sent`, and the whole file
  has been sent once an empty batch has. `PendInv`: the block being written, the queued blocks and
  the buffer name consecutive chunks, starting where the writer is (`Chain`) and ending at the
  chunk the handler has reached (`ChainEnd`); a session finishes one upload at most. `DiskInv`: what the
  writer has counted is in the file, as long as no other session writes a recipe of that name.
  None of the three is inductive alone: that a finished recipe has all chunks needs that the
  handler saw FILEEND only after the last batch, which is `SliceInv` and the lock-step.
* `RecipeProofs!DownloadsRight`: `[]DownloadAligned`, for a name whose recipe one session only
  writes. `ReadInv` places all that a download has under way in that session's file: what the
  client has received, each body on its way (a body that is not full is the last one, and the
  stream has met its end), the body the handler builds and the addresses it still has to
  follow, up to where it stands in the recipe. It needs that nothing has been received or sent when
  the recipe is opened (`StartInv`), that a recipe on disk was opened by a session admitted
  to write it (`MadeInv`), so that `DiskInv` tells what is in it, and that no two containers have
  one id (`DiskUnique`, from `IdInv`): then an address that resolves to a chunk is read as that
  chunk, or as what the buffer holds while its container is still on the way (`FetchRight`). What
  the buffer holds is the invariant `Aligned`: a full batch begins at a multiple of `BatchSize`, so that
  each place of the buffer has chunks of places of the file that are a multiple of
  `BatchSize` apart (`Rests`), and `missed` has every place where one of them was sent.
* `ReadBackProofs!QuietlyReadBack`, `QuietlyReadBackByName`: `[]QuietReadBack`. It does not hold
  for every set of command lines: two uploads can write one recipe, because they passed the
  check for their name together or because `id` and `name` of two files concatenate to the
  same string. So the theorem is `Spec => [](OwnRecipes => QuietReadBack)`, where `OwnRecipes` says that
  a download asks under the key of the upload and that this upload alone has written the
  recipe; `QuietlyReadBackByName` derives that from the command lines, if no byte is left
  behind a name (`Tails = {<< >>}`) and no two uploads share a recipe's name
  (`NamesApart`; `KeyInv` follows the two parts of the key from the command line to the
  handler). `DownloadsRight` says that nothing wrong is delivered; what is added is that nothing
  is missing. `PastInv`: an upload that had finished when the download connected has its row
  in FILES and keeps it, so the download is granted. `WholeInv`: the bodies received, on their
  way and being built end where the reader stands in the recipe, which is complete, and FILEEND is
  sent only at its end (`EndsAt`). `PureInv`: no byte was read from a container that
  was not there, since while nobody uploads nothing is in memory (`StoreAt`), so that every
  address of the recipe is on disk.
* `ReadBackProofs!OneThread`, `SerialUniqueUpload`, `SerialStoredOnce`, `SerialReadBack`,
  `OneThreadReadBack`: the three promises that the runs `unique_upload`, `stored_once` and
  `read_back` refute for several threads do hold while the pool serves one connection at a time:
  `Spec /\ []OneAtATime => []UniqueUpload`, and so on. `OneThread` shows `OneAtATime` for
  `ThreadNum = 1` (`Config.h` ships 8; with a larger pool it is a condition on when clients
  come). `AloneInv`: between `CheckUnique` and `AddFile` the name stays out of FILES, and two
  admitted sessions have different keys. `OnceInv`: every chunk of a container is in the index
  under the session that filled it, and a chunk that a session was asked for is in the index
  under that session or not at all. `OneThreadReadBack` puts the condition on the command
  lines: two uploads share a recipe's name only if they are the same file of the same user (the
  second is then refused).
* `RecoveryProofs!IndexSoundAfterRestart`, `ContainersOutliveFaults`, `ReadableIsForEver`: for any
  number of faults and old messages, in any order. `FaultInv` restates the invariants of
  `DedupProofs` with what a fault leaves behind: a session stands in the lock-step, or is `Dead` (its
  server process has ended; it holds no container and takes no step), or is `Stray` (its client
  has ended and its handler goes on with old messages; it stores and queries and never
  leaves the loop of `receive_file`). The last container of a session is queued or is recorded in
  `lost`; a container that a crash tore has a number below `Bound`, so no later one takes its
  place. `KnownInv`: what the index names resolves, or is in `lost` or `stray`. `FallenInv`: what fell
  with the server belongs to sessions that are over, whose addresses nobody enters any more. `RowInv`: an
  upload that was admitted has its row in FILES, which outlives the process, so nobody passes
  `isFileUnique` with the name of a finished upload. What remains is a name shared with an upload under another
  row, since `id` and `name` are hashed run together (run `collide`): `ReadableIsForEver` is
  `RecoverySpec /\ []KeysApart => ReadableForEver`, where `KeysApart` excludes just that.
* `RecoveryProofs!DamageIsConfined`, `DownloadsNeverWrong`: the recipe of a finished upload is
  complete and right but for what faults have taken, and a download puts every chunk that is on disk in its
  place, for any number of faults. `Excused` is what may be missing: slots of containers in
  `lost` that are in no file, and the pairs in `stray`. `LossInv`: an id in `lost` is not used again, and
  a file under it was torn when its session's process ended. `KnownStays`: an address that names a chunk
  goes on naming it or becomes excused, and `Excused` only grows. The invariants of `RecipeProofs`
  carry a parameter `L`, a set of slots exempt from them; with `L = Excused` they are restated for the
  sessions that live and have taken no old message for a new one (`WorkInv`), for recipes, whose
  beginning is right even if the writer died (`FileAt`), and for downloads (`FetchedAt`), as far as no
  chunk of the file has been misfiled (`Untouched`); `AdmitInv` says that a recipe was opened by a session that was
  admitted under its name. `NeverWrong` is stated for the name that the handler received, so no
  assumption on `receive_data` is needed.
* `BlockQueueProofs!TypeCorrect`, `FlagCorrect`, `Refinement`: BlockQueue is type
  correct and within its bound, its flag is right, and it implements `BoundedFifo`, for any
  number of producers and consumers. The inductive invariant consists of the lock discipline
  (`LockInv`), the protocol of a round (`RoundInv`) and the flag (`FlagInv`).
* `MysqlConnPoolProofs!PoolTyped`, `PoolSound`, `AnswersOwn`, `WakeupsKept`: for any finite set of threads and any
  number of connections. `HoldInv` (a thread has a connection exactly between get and release) makes
  `NoneSharedNoneLost` inductive and shows that the test for a repeated release never hits; a
  pigeonhole lemma bounds the counter. `NoWakeupLost` is inductive on top of them: every release
  that finds a sleeper adds one to both sides.
* `AcceptProofs!TypeCorrect`, `NeverDeletedTwice`, `DeletesAfterQuit`: for any sets of clients and
  descriptors and any sizes. `PlaceInv`: a connection is in one place (backlog, `append`, queue).
  `EntryInv`: an entry of `m_clients` is a live object, of the connection that has the descriptor
  or of one the server has closed; no object has two entries. `EventInv`: even when its
  descriptor has been given away, an event leads to the entry of a connection of which one side has
  closed. `LifeInv`: a client that closed without dying has been answered.
* `LoggerProofs!TypeCorrect`, `SyncKeepsAll`, `FilesNeverShrink`, `NothingLeftBehind`,
  `LossIsBounded`: for any finite set of callers and any number of lines, lines per file, queue
  sizes and days. `m_count` is bounded by the lines that have passed the lock (`CountInv`), since it
  starts again at midnight. `EndInv`: the stream is closed only between `close` and `open` of
  the one rotation or at the end, and the writer leaves an empty queue. `FileInv`: on
  the first day the file a rotation will open and all later ones are empty, and the open one is
  earlier. `WhereInv`: a line whose call has returned is in a file, lost, queued or in the writer's
  hand. `LossInv`: once a rotation has seen the queue empty, what is lost and what can still be
  lost (the callers that are to push, the queue, the writer's line) is together within the
  bound. Additional assumption: `NoLine` is not a line.

Only model-checked:

* liveness (`AllServed`, `EventuallyDurable`, `RoundsEnd`, `SomebodyServed`, `ShutsDown`,
  `EveryoneServed`), which is out of the prover's reach;
* `Packing`: its invariants and its refinement rest on what folds over sequences compute, which
  needs induction over data.

## 5. Not modelled, and the plan

Not modelled: a message that ends in the middle and a length prefix that arrives in two pieces
(`receive_data` neither checks what `read` returns nor reads the length in a loop); other values of an
unset length than 0 that meet data; an insert into FILES that fails unnoticed; a second upload on
one connection (the actions allow it, but the client program ends after one command); the 200 bytes for a
received control message and the 256 of a query; the order in
which logger and MySQL pool are initialised; start-up errors, which end the process
(`errExit`); a failing machine or disk beyond `SaveFails`. Never to be modelled: option parsing,
`argparse.hpp`, the trial programs.

The plan is carried out: every safety invariant and action property that a passing run checks is
a theorem, some under a condition that section 4 names (`OneAtATime`, `KeysApart`), except
`Packing`'s and, as said above, liveness.
