--------------------------- MODULE RecoveryProofs ---------------------------
(***************************************************************************)
(* Theorems about Recovery.  After a restart, too, the index never lies; a *)
(* file that can be read back can be read back for ever, whatever faults   *)
(* follow; what faults take of finished uploads is confined; and a         *)
(* download puts every chunk that was on disk in its place.                *)
(*                                                                         *)
(* What DedupProofs and RecipeProofs show of one session still holds of    *)
(* every session that is not Dead, except for the slots that faults have   *)
(* taken; a dead session holds nothing and does nothing.                   *)
(***************************************************************************)
EXTENDS Recovery, ReadBackProofs

(* The server process that served s has ended.                             *)
Dead(s) ==
  /\ s \in gone /\ cpc[s] # "start" /\ spc[s] = "closed"
  /\ dataWriter[s] = "none" /\ recipeWriter[s] = "none"
  /\ container[s].data = << >> /\ containerQueue[s] = << >> /\ saving[s] = None

(* The client of s has ended, and its handler goes on with old messages.   *)
Stray(s) ==
  /\ s \in gone /\ cpc[s] # "start" /\ stale[s] > 0 /\ toServer[s] = << >>
  /\ spc[s] \in {"body", "store", "entry", "query"}

TalkInv == \A s \in Sessions : LockAt(s) \/ Dead(s) \/ Stray(s)

(* The last container of s is queued, or could not be written.             *)
LostAt(s) ==
  /\ spc[s] \in {"last_recipe", "join"} /\ container[s].id \in lost
  /\ dataWriter[s] # "none" /\ (done[s] => spc[s] = "join")
  /\ dataWriter[s] = "exit" => done[s] /\ containerQueue[s] = << >> /\ saving[s] = None

HeldInv == \A s \in Sessions : StoreAt(s) \/ LostAt(s) \/ Dead(s)

HistoryInv == stale \in [Sessions -> Nat] /\ stray \subseteq Chunks \X Addr

(* What the index names can be found, but for what faults have taken.      *)
KnownInv ==
  \A c \in Chunks :
    LET a == m_all_chunks[c]
    IN a # NoAddr => Resolves(a, c) \/ a.id \in lost \/ <<c, a>> \in stray

FaultInv == TypeInv /\ HistoryInv /\ TalkInv /\ IdInv /\ HeldInv /\ KnownInv

----------------------------------------------------------------------------
(* A step of the system.                                                   *)

LEMMA SystemStepOfOne ==
  ASSUME NEW s \in Sessions, SystemStep(s)
  PROVE  /\ UNCHANGED faultVars /\ stray \subseteq stray'
         /\ [Next]_vars
         /\ \/ s \notin gone /\ ClientSide(s)
            \/ HandlerStep(s) /\ UNCHANGED <<job, clientVars, after>>
            \/ DataWriterStep(s) /\ UNCHANGED <<job, clientVars, after>>
            \/ RecipeWriterStep(s) /\ UNCHANGED <<job, clientVars, after>>
  BY DEF SystemStep, Next, ServerSide

(* A dead session does nothing ...                                         *)
LEMMA DeadStops ==
  ASSUME TypeInv, NEW s \in Sessions, SystemStep(s)
  PROVE  ~ Dead(s)
<1> SUFFICES ASSUME Dead(s) PROVE FALSE
  OBVIOUS
<1>0. TypeOK /\ RecipeAt(s)
  BY DEF TypeInv, RecipeInv
<1>1. /\ s \in gone /\ spc[s] = "closed" /\ dataWriter[s] = "none"
      /\ recipeWriter[s] = "none" /\ writing[s] = None
  BY <1>0 DEF Dead, RecipeAt
<1>2. ~ HandlerStep(s)
  BY <1>0, <1>1, RunMoves, UploadMoves, DownloadMoves DEF HandlerStep, Uploading
<1>3. ~ DataWriterStep(s)
  BY <1>1 DEF DataWriterStep
<1>4. ~ RecipeWriterStep(s)
  BY <1>1 DEF RecipeWriterStep, OpenRecipe, PopRecipe, WriteRecipe, EndRecipeWriter
<1> QED
  BY <1>1, <1>2, <1>3, <1>4, SystemStepOfOne

(* ... and nothing is done to it.                                          *)
LEMMA SystemOthers ==
  ASSUME TypeOK, NEW s \in Sessions, SystemStep(s), NEW t \in Sessions \ {s}
  PROVE  /\ TalkView(t)' = TalkView(t) /\ StoreView(t)' = StoreView(t)
         /\ InMemory(t)' = InMemory(t)
<1>1. TalkView(t)' = TalkView(t) /\ StoreView(t)' = StoreView(t)
  BY SystemStepOfOne, ClientOthers, HandlerOthers, WriterOthers
<1> QED
  BY <1>1 DEF StoreView, InMemory

LEMMA DeadKept ==
  ASSUME NEW t, Dead(t), gone \subseteq gone', TalkView(t)' = TalkView(t),
         StoreView(t)' = StoreView(t)
  PROVE  Dead(t)'
<1>1. /\ cpc'[t] = cpc[t] /\ spc'[t] = spc[t] /\ container'[t] = container[t]
      /\ containerQueue'[t] = containerQueue[t] /\ saving'[t] = saving[t]
      /\ dataWriter'[t] = dataWriter[t] /\ recipeWriter'[t] = recipeWriter[t]
  BY DEF TalkView, StoreView
<1> QED
  BY <1>1 DEF Dead

LEMMA LostKept ==
  ASSUME NEW t, LostAt(t), lost \subseteq lost', spc'[t] = spc[t],
         StoreView(t)' = StoreView(t)
  PROVE  LostAt(t)'
<1>1. /\ container'[t] = container[t] /\ containerQueue'[t] = containerQueue[t]
      /\ saving'[t] = saving[t] /\ done'[t] = done[t] /\ dataWriter'[t] = dataWriter[t]
  BY DEF StoreView
<1> QED
  BY <1>1 DEF LostAt

LEMMA StrayKept ==
  ASSUME NEW t, Stray(t), UNCHANGED <<gone, stale>>, TalkView(t)' = TalkView(t)
  PROVE  Stray(t)'
<1>1. cpc'[t] = cpc[t] /\ spc'[t] = spc[t] /\ toServer'[t] = toServer[t]
  BY DEF TalkView
<1> QED
  BY <1>1 DEF Stray

(* The handler of a stray session stores and queries, and never leaves the *)
(* loop of receive_file.                                                   *)
LEMMA StrayMoves ==
  ASSUME TypeOK, NEW s \in Sessions, SystemStep(s), Stray(s)
  PROVE  /\ Stray(s)'
         /\ HandlerStep(s) => UploadStep(s) /\ (StoreStep(s) \/ QueryStep(s))
<1>0. /\ UNCHANGED <<gone, stale>> /\ s \in gone /\ toServer[s] = << >>
      /\ spc[s] \in {"body", "store", "entry", "query"}
  BY SystemStepOfOne DEF Stray, faultVars
<1>1. ASSUME HandlerStep(s) PROVE UploadStep(s) /\ (StoreStep(s) \/ QueryStep(s))
  <2>1. UploadStep(s)
    BY <1>0, <1>1, RunMoves, DownloadMoves DEF HandlerStep
  <2>2. StoreStep(s) \/ QueryStep(s)
    BY <1>0, <2>1 DEF UploadStep, AdmitStep, CheckUnique, AddFile, ReceiveStep, RecvBody,
       RecvFileEnd, Arrived, FinishStep, InsertLastContainer, InsertLastRecipe, Join
  <2> QED
    BY <2>1, <2>2
<1>2. ASSUME HandlerStep(s), UNCHANGED <<job, clientVars, after>> PROVE Stray(s)'
  <2>2. StoreStep(s) \/ QueryStep(s)
    BY <1>1, <1>2
  <2>3. UNCHANGED <<cpc, toServer>>
    BY <1>2, <2>2 DEF clientVars, StoreStep, QueryStep, wire
  <2>4. spc'[s] \in {"body", "store", "entry", "query"}
    BY <1>0, <2>2, LockTypes
       DEF StoreStep, FlushContainer, StoreChunk, TakeDuplicate, FlushRecipe, WriteEntry,
           QueryStep, BeginQuery, QueryChunk, SendReply, Goto
  <2> QED
    BY <1>0, <2>3, <2>4 DEF Stray
<1>3. ASSUME DataWriterStep(s) \/ RecipeWriterStep(s), UNCHANGED <<job, clientVars, after>>
      PROVE  Stray(s)'
  BY <1>0, <1>3, WriterOthers, StrayKept
<1> QED
  BY <1>0, <1>1, <1>2, <1>3, SystemStepOfOne

LEMMA SystemTalk ==
  ASSUME TypeInv, TalkInv, NEW s \in Sessions, SystemStep(s)
  PROVE  TalkInv'
<1>0. TypeOK /\ UNCHANGED <<gone, stale>> /\ (LockAt(s) \/ Stray(s))
  BY DeadStops, SystemStepOfOne DEF TypeInv, TalkInv, faultVars
<1>1. LockAt(s)' \/ Stray(s)'
  <2>0. CASE Stray(s)
    BY <1>0, <2>0, StrayMoves
  <2> SUFFICES ASSUME LockAt(s) PROVE LockAt(s)'
    BY <1>0, <2>0
  <2>1. CASE ClientSide(s)
    BY <1>0, <2>1, ClientLock
  <2>2. CASE HandlerStep(s) /\ UNCHANGED <<job, clientVars, after>>
    <3>1. UNCHANGED <<job, cpc, batch>>
      BY <2>2 DEF clientVars
    <3> QED
      BY <1>0, <2>2, <3>1, HandlerLock
  <2>3. CASE (DataWriterStep(s) \/ RecipeWriterStep(s)) /\ UNCHANGED <<job, clientVars, after>>
    BY <1>0, <2>3, WriterOthers, LockKept
  <2> QED
    BY <2>1, <2>2, <2>3, SystemStepOfOne
<1>2. ASSUME NEW t \in Sessions \ {s} PROVE LockAt(t)' \/ Dead(t)' \/ Stray(t)'
  <2>1. TalkView(t)' = TalkView(t) /\ StoreView(t)' = StoreView(t)
    BY <1>0, SystemOthers
  <2> QED
    BY <1>0, <2>1, LockKept, DeadKept, StrayKept DEF TalkInv
<1> QED
  BY <1>1, <1>2 DEF TalkInv

----------------------------------------------------------------------------
(* Containers on their way.                                                *)

(* No container with chunks in it gets lost without a trace.               *)
KeptOrLost(s) ==
  \A f \in InMemory(s) :
    \/ f.data = << >> \/ f.id \in lost'
    \/ \E g \in InMemory(s)' \cup containers' : Extends(f, g)

(* An address that names a chunk goes on naming it, unless its container   *)
(* could not be written.                                                   *)
NamedOrLost == \A a, c : Resolves(a, c) => Resolves(a, c)' \/ a.id \in lost'

LEMMA ResolvesOrLost ==
  ASSUME NEW s \in Sessions, containers \subseteq containers', KeptOrLost(s),
         \A t \in Sessions \ {s} : InMemory(t)' = InMemory(t)
  PROVE  NamedOrLost
<1> SUFFICES ASSUME NEW a, NEW c, Resolves(a, c) PROVE Resolves(a, c)' \/ a.id \in lost'
  BY DEF NamedOrLost
<1>1. CASE OnDisk(a, c)
  BY <1>1 DEF Resolves, OnDisk, Holds
<1>2. ASSUME NEW t \in Sessions, NEW f \in InMemory(t), Holds(f, a, c)
      PROVE  Resolves(a, c)' \/ a.id \in lost'
  <2>1. CASE t # s
    BY <1>2, <2>1 DEF Resolves, Holds
  <2>2. CASE t = s /\ f.id \in lost'
    BY <1>2, <2>2 DEF Holds
  <2>3. CASE t = s /\ f.id \notin lost'
    <3>1. f.data # << >>
      BY <1>2 DEF Holds
    <3>2. PICK g \in InMemory(s)' \cup containers' : Extends(f, g)
      BY <1>2, <2>3, <3>1 DEF KeptOrLost
    <3>3. Holds(g, a, c)
      BY <1>2, <3>2 DEF Holds, Extends
    <3> QED
      BY <3>3 DEF Resolves, OnDisk, Holds
  <2> QED
    BY <2>1, <2>2, <2>3
<1> QED
  BY <1>1, <1>2 DEF Resolves

LEMMA KeptIsEnough ==
  ASSUME NEW s, MemoryKept(s)
  PROVE  KeptOrLost(s)
  BY DEF MemoryKept, KeptOrLost

(* The handler of a session whose last container is lost ...               *)
LEMMA LostHandler ==
  ASSUME TypeInv, NEW s \in Sessions, HandlerStep(s), LostAt(s), lost' = lost
  PROVE  (StoreAt(s)' \/ LostAt(s)') /\ KeptOrLost(s)
<1>0. TypeOK /\ UNCHANGED <<saving, containers>> /\ spc[s] \in {"last_recipe", "join"}
  BY DEF TypeInv, HandlerStep, writerVars, LostAt
<1>1. InsertLastRecipe(s) \/ Join(s)
  <2>1. UploadStep(s)
    BY <1>0, RunMoves, DownloadMoves DEF HandlerStep
  <2> QED
    BY <1>0, <2>1
       DEF UploadStep, AdmitStep, CheckUnique, AddFile, ReceiveStep, StoreStep, FlushContainer,
           StoreChunk, TakeDuplicate, FlushRecipe, WriteEntry, AtChunk, HasChunk, QueryStep, BeginQuery,
           QueryChunk, SendReply, FinishStep, InsertLastContainer
<1>2. CASE InsertLastRecipe(s)
  <2>1. /\ UNCHANGED <<container, containerQueue, dataWriter>>
        /\ spc[s] = "last_recipe" /\ spc'[s] = "join" /\ done'[s] = TRUE
    BY <1>0, <1>2, LockTypes, ViewTypes DEF InsertLastRecipe, threadVars, Goto
  <2>2. LostAt(s)'
    BY <1>0, <2>1 DEF LostAt
  <2>3. KeptOrLost(s)
    BY <1>0, <2>1, SameKept, KeptIsEnough DEF InMemory
  <2> QED
    BY <2>2, <2>3
<1>3. CASE Join(s)
  <2>1. /\ containerQueue' = containerQueue /\ dataWriter[s] = "exit" /\ dataWriter'[s] = "none"
        /\ spc'[s] = "order" /\ done'[s] = FALSE /\ container'[s] = new_container(container[s])
    BY <1>0, <1>3, LockTypes, ViewTypes DEF Join, Goto
  <2>2. container'[s].data = << >> /\ containerQueue[s] = << >> /\ saving[s] = None
    BY <2>1 DEF new_container, LostAt
  <2>3. StoreAt(s)'
    BY <1>0, <2>1, <2>2 DEF StoreAt, Uploading
  <2>4. \A f \in InMemory(s) : f = container[s]
    BY <2>2, NoneEmpty DEF InMemory
  <2> QED
    BY <2>3, <2>4 DEF KeptOrLost, LostAt
<1> QED
  BY <1>1, <1>2, <1>3

(* ... and the thread that saves its containers.                           *)
LEMMA LostDataWriter ==
  ASSUME TypeInv, IdInv, NEW s \in Sessions, DataWriterStep(s), LostAt(s), lost' = lost
  PROVE  LostAt(s)' /\ KeptOrLost(s)
<1>0. /\ UNCHANGED <<spc, container, done>> /\ TypeOK
      /\ containerQueue[s] \in Seq(Container) /\ container[s] \in Container
  BY ViewTypes DEF DataWriterStep, TypeInv
<1>1. ASSUME dataWriter' = dataWriter, dataWriter[s] = "run" PROVE LostAt(s)'
  BY <1>0, <1>1 DEF LostAt
<1>2. CASE PopContainer(s)
  <2>1. /\ saving[s] = None /\ saving'[s] = Head(containerQueue[s])
        /\ containerQueue[s] # << >> /\ containerQueue'[s] = Tail(containerQueue[s])
        /\ dataWriter' = dataWriter
    BY <1>0, <1>2, ViewTypes DEF PopContainer
  <2>2. ToSet(containerQueue[s]) = {saving'[s]} \cup ToSet(containerQueue'[s])
    BY <1>0, <2>1, QueueSets
  <2>3. container[s] # None /\ None \notin ToSet(containerQueue[s])
    BY <1>0, QueueSets, NoneAssumption DEF NoneAssumption
  <2>4. \A f \in InMemory(s) : f \in InMemory(s)'
    BY <1>0, <2>1, <2>2, <2>3 DEF InMemory
  <2> QED
    BY <1>1, <2>1, <2>4, SameKept, KeptIsEnough DEF DataWriterStep
<1>3. CASE SaveContainer(s)
  <2>1. /\ saving'[s] = None /\ UNCHANGED <<dataWriter, containerQueue>>
        /\ saving[s] \in containers'
    BY <1>0, <1>3, ViewTypes DEF SaveContainer
  <2>2. \A f \in InMemory(s) : f \in InMemory(s)' \cup containers'
    BY <1>0, <2>1, NoneAssumption DEF InMemory, NoneAssumption
  <2> QED
    BY <1>1, <2>1, <2>2, SameKept, KeptIsEnough DEF DataWriterStep
<1>4. CASE EndDataWriter(s)
  <2>1. /\ saving[s] = None /\ containerQueue[s] = << >> /\ done[s] /\ dataWriter'[s] = "exit"
        /\ UNCHANGED <<saving, containerQueue, containers>>
    BY <1>0, <1>4, ViewTypes DEF EndDataWriter
  <2>2. LostAt(s)'
    BY <1>0, <2>1 DEF LostAt
  <2>3. \A f \in InMemory(s) : f \in InMemory(s)'
    BY <1>0, <2>1 DEF InMemory
  <2> QED
    BY <2>2, <2>3, SameKept, KeptIsEnough
<1> QED
  BY <1>2, <1>3, <1>4 DEF DataWriterStep

LEMMA SystemHeld ==
  ASSUME TypeInv, TypeInv', IdInv, HeldInv, NEW s \in Sessions, SystemStep(s)
  PROVE  HeldInv' /\ NamedOrLost /\ containers \subseteq containers'
<1>0. /\ TypeOK /\ gone' = gone /\ lost' = lost /\ (StoreAt(s) \/ LostAt(s))
      /\ containers \subseteq containers'
  BY DeadStops, SystemStepOfOne, NextIds DEF TypeInv, HeldInv, faultVars
<1>1. (StoreAt(s)' \/ LostAt(s)') /\ KeptOrLost(s)
  <2>1. ASSUME spc'[s] = spc[s], StoreView(s)' = StoreView(s), InMemory(s)' = InMemory(s)
        PROVE  (StoreAt(s)' \/ LostAt(s)') /\ KeptOrLost(s)
    <3>1. KeptOrLost(s)
      BY <2>1, SameKept, KeptIsEnough
    <3> QED
      BY <1>0, <2>1, <3>1, StoreKept, LostKept
  <2>2. CASE ClientSide(s)
    <3>1. spc'[s] = spc[s] /\ StoreView(s)' = StoreView(s) /\ InMemory(s)' = InMemory(s)
      BY <2>2 DEF ClientSide, connVars, uploadVars, queueVars, threadVars, writerVars,
                  StoreView, InMemory
    <3> QED
      BY <2>1, <3>1
  <2>3. CASE HandlerStep(s)
    BY <1>0, <2>3, HandlerStore, LostHandler, KeptIsEnough
  <2>4. CASE DataWriterStep(s)
    <3>1. CASE StoreAt(s)
      BY <2>4, <3>1, DataWriterStore, SameKept, KeptIsEnough
    <3> QED
      BY <1>0, <2>4, <3>1, LostDataWriter
  <2>5. CASE RecipeWriterStep(s)
    <3>1. UNCHANGED <<spc, container, containerQueue, saving, done, dataWriter>>
      BY <2>5 DEF RecipeWriterStep
    <3>2. StoreAt(s)' \/ LostAt(s)'
      BY <1>0, <3>1 DEF StoreAt, LostAt, Uploading
    <3>3. InMemory(s)' = InMemory(s)
      BY <3>1 DEF InMemory
    <3> QED
      BY <3>2, <3>3, SameKept, KeptIsEnough
  <2> QED
    BY <2>2, <2>3, <2>4, <2>5, SystemStepOfOne
<1>2. ASSUME NEW t \in Sessions \ {s} PROVE StoreAt(t)' \/ LostAt(t)' \/ Dead(t)'
  <2>1. TalkView(t)' = TalkView(t) /\ StoreView(t)' = StoreView(t)
    BY <1>0, SystemOthers
  <2>2. spc'[t] = spc[t]
    BY <2>1 DEF TalkView
  <2> QED
    BY <1>0, <2>1, <2>2, StoreKept, LostKept, DeadKept DEF HeldInv
<1>3. NamedOrLost
  BY <1>0, <1>1, SystemOthers, ResolvesOrLost
<1> QED
  BY <1>0, <1>1, <1>2, <1>3 DEF HeldInv

----------------------------------------------------------------------------
(* The index.                                                              *)

(* A chunk of an old message is recorded as stray.                         *)
LEMMA StrayStored ==
  ASSUME TypeOK, NEW s \in Sessions, SystemStep(s), StoreChunk(s)
  PROVE  /\ hashList[s][idx[s]] \in Chunks
         /\ chunkAddr'[s] = [id |-> container[s].id, slot |-> Len(container[s].data) + 1]
         /\ stale[s] > 0 => <<hashList[s][idx[s]], chunkAddr'[s]>> \in stray'
<1>1. AtChunk(s, 1) /\ spc'[s] = "entry"
  BY LockTypes DEF StoreChunk, HasChunk, Goto
<1>2. hashList[s] \in Seq(Chunks) /\ idx[s] \in Nat \ {0} /\ idx[s] <= Len(hashList[s])
  BY <1>1, LockTypes DEF AtChunk
<1>3. hashList[s][idx[s]] \in Chunks
  BY <1>2
<1>4. chunkAddr'[s] = [id |-> container[s].id, slot |-> Len(container[s].data) + 1]
  BY ViewTypes DEF StoreChunk
<1> QED
  BY <1>1, <1>3, <1>4 DEF SystemStep

LEMMA StoredTyped ==
  ASSUME TypeOK, NEW s \in Sessions, NEW n \in Nat
  PROVE  [id |-> container[s].id, slot |-> n] \in Addr
  BY ViewTypes DEF Container, Addr

LEMMA SystemHistory ==
  ASSUME TypeOK, HistoryInv, NEW s \in Sessions, SystemStep(s)
  PROVE  HistoryInv'
<1>1. stale' = stale
  BY SystemStepOfOne DEF faultVars
<1>2. ASSUME AtChunk(s, 1), spc'[s] = "entry"
      PROVE  <<hashList[s][idx[s]], chunkAddr'[s]>> \in Chunks \X Addr
  <2>1. HandlerStep(s)
    BY <1>2, SystemStepOfOne
       DEF AtChunk, ClientSide, connVars, DataWriterStep, RecipeWriterStep
  <2>2. StoreChunk(s)
    <3>1. UploadStep(s)
      BY <1>2, <2>1, RunMoves, DownloadMoves DEF HandlerStep, AtChunk
    <3> QED
      BY <1>2, <3>1, LockTypes
         DEF AtChunk, UploadStep, AdmitStep, CheckUnique, AddFile, ReceiveStep, StoreStep,
             FlushContainer, TakeDuplicate, FlushRecipe, WriteEntry, QueryStep, BeginQuery,
             QueryChunk, SendReply, FinishStep, InsertLastContainer, InsertLastRecipe, Join, Goto
  <2>3. Len(container[s].data) + 1 \in Nat
    BY ViewTypes DEF Container
  <2> QED
    BY <2>2, <2>3, StrayStored, StoredTyped
<1> QED
  BY <1>1, <1>2 DEF SystemStep, HistoryInv

LEMMA SystemIndex ==
  ASSUME TypeInv, TypeInv', TalkInv, KnownInv, NamedOrLost,
         NEW s \in Sessions, SystemStep(s)
  PROVE  KnownInv'
<1>0. TypeOK /\ lost' = lost /\ stray \subseteq stray' /\ (LockAt(s) \/ Stray(s))
  BY DeadStops, SystemStepOfOne DEF TypeInv, TalkInv, faultVars
<1>1. ASSUME m_all_chunks' = m_all_chunks PROVE KnownInv'
  BY <1>0, <1>1 DEF KnownInv, NamedOrLost
<1>2. CASE HandlerStep(s) /\ StoreChunk(s)
  <2>a. PICK a : a = [id |-> container[s].id, slot |-> Len(container[s].data) + 1]
    OBVIOUS
  <2>c. PICK c : c = hashList[s][idx[s]]
    OBVIOUS
  <2>g. PICK g : g = container'[s]
    OBVIOUS
  <2>1. /\ AtChunk(s, 1) /\ container[s] \in Container /\ addChunk(c, a) /\ c \in Chunks
        /\ stale[s] > 0 => <<c, a>> \in stray'
    BY <1>0, <1>2, <2>a, <2>c, ViewTypes, StrayStored DEF StoreChunk, HasChunk
  <2>0. \A d \in Chunks : m_all_chunks'[d] = m_all_chunks[d] \/ (d = c /\ m_all_chunks'[d] = a)
    BY <1>0, <2>1, ViewTypes DEF addChunk
  <2>s. CASE Stray(s)
    BY <1>0, <2>0, <2>1, <2>s DEF KnownInv, NamedOrLost, Stray
  <2> SUFFICES ASSUME LockAt(s) PROVE KnownInv'
    BY <1>0, <2>s
  <2>2. Received(s, idx[s]) = c
    BY <1>0, <2>1, <2>c, ReceivedRight
  <2>3. g.id = container[s].id /\ g.data = Append(container[s].data, c)
    BY <1>0, <1>2, <2>2, <2>g, ViewTypes DEF StoreChunk, Container
  <2>4. container[s].data \in Seq(Bytes) /\ g \in Container
    BY <2>1, <2>g DEF Container, TypeInv, TypeOK, ConnTypeOK
  <2>5. Holds(g, a, c)
    BY <2>3, <2>4, <2>a DEF Holds
  <2>6. g \in InMemory(s)'
    BY <2>4, <2>g, NoneAssumption DEF InMemory, NoneAssumption
  <2>7. Resolves(a, c)'
    BY <2>5, <2>6 DEF Resolves, Holds
  <2> QED
    BY <1>0, <2>0, <2>7 DEF KnownInv, NamedOrLost
<1>3. CASE HandlerStep(s) /\ ~ StoreChunk(s)
  BY <1>0, <1>1, <1>3, HandlerNew
<1>4. CASE ClientSide(s) \/ DataWriterStep(s) \/ RecipeWriterStep(s)
  BY <1>1, <1>4 DEF ClientSide, DataWriterStep, RecipeWriterStep, serverVars
<1> QED
  BY <1>2, <1>3, <1>4, SystemStepOfOne

LEMMA SystemFault ==
  ASSUME FaultInv, NEW s \in Sessions, SystemStep(s)
  PROVE  FaultInv' /\ containers \subseteq containers'
<1>1. TypeInv /\ TypeInv' /\ [Next]_vars
  BY SystemStepOfOne, NextTyped, NextRecipe DEF FaultInv, TypeInv
<1>2. IdInv'
  BY <1>1, NextIds DEF FaultInv
<1>3. TalkInv'
  BY <1>1, SystemTalk DEF FaultInv
<1>4. HeldInv' /\ NamedOrLost /\ containers \subseteq containers'
  BY <1>1, SystemHeld DEF FaultInv
<1>5. KnownInv'
  BY <1>1, <1>4, SystemIndex DEF FaultInv
<1>6. HistoryInv'
  BY <1>1, SystemHistory DEF FaultInv, TypeInv
<1> QED
  BY <1>1, <1>2, <1>3, <1>4, <1>5, <1>6 DEF FaultInv

----------------------------------------------------------------------------
(* A container cannot be written.                                          *)

LEMMA SaveFailsOthers ==
  ASSUME TypeOK, NEW s \in Sessions, SaveFails(s)
  PROVE  /\ UNCHANGED <<job, wire, clientVars, serverVars, spc, key, uploadVars, reader, writing,
                        total, containers, recipes, after, gone, stale, stray>>
         /\ \A t \in Sessions : TalkView(t)' = TalkView(t)
         /\ \A t \in Sessions \ {s} : StoreView(t)' = StoreView(t)
         /\ saving[s] # None /\ saving'[s] = None
         /\ saving' \in [Sessions -> Container \cup {None}]
<1>1. UNCHANGED <<job, wire, clientVars, serverVars, spc, key, uploadVars, reader, writing,
                  total, containers, recipes, after, gone, stale, stray>>
  BY DEF SaveFails
<1>2. /\ saving[s] # None /\ saving'[s] = None
      /\ saving' \in [Sessions -> Container \cup {None}]
      /\ \A t \in Sessions \ {s} : saving'[t] = saving[t]
  BY ViewTypes DEF SaveFails
<1>3. UNCHANGED <<toServer, toClient, cpc, sent, batch, got, inMsg, hashList, flags, idx, dup,
                  chunkAddr, container, recipe, containerQueue, recipeQueue, done, dataWriter,
                  recipeWriter>>
  BY <1>1 DEF wire, clientVars, uploadVars, queueVars, threadVars
<1> QED
  BY <1>1, <1>2, <1>3 DEF TalkView, StoreView

LEMMA SaveFailsFault ==
  ASSUME FaultInv, NEW s \in Sessions, SaveFails(s)
  PROVE  FaultInv' /\ containers' = containers
<1>0. /\ TypeOK /\ TypeInv
      /\ UNCHANGED <<job, wire, clientVars, serverVars, spc, key, uploadVars, reader, writing,
                     total, containers, recipes, after, gone, stale, stray>>
  BY SaveFailsOthers DEF FaultInv, TypeInv
<1>1. /\ saving[s] # None /\ saving'[s] = None /\ dataWriter[s] = "run"
      /\ lost' = lost \cup {saving[s].id} /\ ~ Dead(s)
      /\ \A t \in Sessions \ {s} : saving'[t] = saving[t]
  BY <1>0, ViewTypes DEF SaveFails, Dead
<1>2. UNCHANGED <<m_all_chunks, container, containerQueue, done, dataWriter, recipeWriter,
                  containers, spc>>
  BY <1>0 DEF uploadVars, queueVars, threadVars, serverVars
<1>3. TypeOK'
  <2>1. ConnTypeOK'
    BY <1>0, SaveFailsOthers
       DEF TypeOK, ConnTypeOK, uploadVars, queueVars, threadVars
  <2> QED
    BY <1>0, <2>1
       DEF TypeOK, ClientTypeOK, ServerTypeOK, clientVars, serverVars, wire
<1>4. RecipeInv'
  BY <1>0, <1>2 DEF TypeInv, RecipeInv, RecipeAt, Uploading, RecipeName
<1>5. TalkInv'
  <2>1. ASSUME NEW t \in Sessions \ {s} PROVE LockAt(t)' \/ Dead(t)' \/ Stray(t)'
    BY <1>0, SaveFailsOthers, LockKept, DeadKept, StrayKept DEF FaultInv, TalkInv
  <2>2. LockAt(s)' \/ Stray(s)'
    BY <1>0, <1>1, SaveFailsOthers, LockKept, StrayKept DEF FaultInv, TalkInv
  <2> QED
    BY <2>1, <2>2 DEF TalkInv
<1>6. IdInv'
  <2>1. Ascending(s, containers, None, containerQueue[s], Bound(s))
    <3>1. Ascending(s, containers, saving[s], containerQueue[s], Bound(s))
      BY DEF FaultInv, IdInv, IdAt
    <3> QED
      BY <3>1 DEF Ascending
  <2>2. IdAt(s)'
    BY <1>1, <1>2, <2>1 DEF FaultInv, IdInv, IdAt, Bound
  <2> QED
    BY <1>1, <1>2, <2>2, IdKept DEF FaultInv, IdView
<1>7. HeldInv'
  <2>1. ASSUME NEW t \in Sessions \ {s} PROVE StoreAt(t)' \/ LostAt(t)' \/ Dead(t)'
    <3>1. StoreView(t)' = StoreView(t) /\ TalkView(t)' = TalkView(t)
      BY <1>0, SaveFailsOthers
    <3> QED
      BY <1>0, <1>1, <1>2, <3>1, StoreKept, LostKept, DeadKept DEF FaultInv, HeldInv
  <2>2. ASSUME LostAt(s) PROVE LostAt(s)'
    BY <1>1, <1>2, <2>2 DEF LostAt
  <2>3. ASSUME StoreAt(s) PROVE StoreAt(s)' \/ LostAt(s)'
    <3>1. CASE container[s] = saving[s] /\ spc[s] \in {"last_recipe", "join"}
      BY <1>1, <1>2, <2>3, <3>1 DEF StoreAt, LostAt
    <3>2. CASE ~ (container[s] = saving[s] /\ spc[s] \in {"last_recipe", "join"})
      BY <1>1, <1>2, <2>3, <3>2 DEF StoreAt, Uploading
    <3> QED
      BY <3>1, <3>2
  <2> QED
    BY <1>1, <2>1, <2>2, <2>3 DEF FaultInv, HeldInv
<1>8. KnownInv'
  <2>1. KeptOrLost(s)
    <3>1. \A f \in InMemory(s) : f.id \in lost' \/ f \in InMemory(s)'
      BY <1>1, <1>2 DEF InMemory
    <3> QED
      BY <3>1 DEF KeptOrLost, Extends
  <2>2. \A t \in Sessions \ {s} : InMemory(t)' = InMemory(t)
    BY <1>1, <1>2 DEF InMemory
  <2>3. NamedOrLost
    BY <1>2, <2>1, <2>2, ResolvesOrLost
  <2> QED
    BY <1>0, <1>1, <1>2, <2>3 DEF FaultInv, KnownInv, NamedOrLost
<1>9. HistoryInv'
  BY <1>0 DEF FaultInv, HistoryInv
<1> QED
  BY <1>0, <1>3, <1>4, <1>5, <1>6, <1>7, <1>8, <1>9 DEF FaultInv, TypeInv

----------------------------------------------------------------------------
(* A handler takes an old message for a new one.                           *)

(* A session that has not connected waits for its client.                  *)
LEMMA StartAccepted ==
  ASSUME TalkInv, NEW s \in Sessions, cpc[s] = "start"
  PROVE  spc[s] = "accepted" /\ LockAt(s)
<1>1. LockAt(s)
  BY DEF TalkInv, Dead, Stray
<1> QED
  BY <1>1 DEF LockAt, PhaseAt, Starting, Admitting, BodySent, Storing, Querying, Replied, Ending,
              Downloading, Streaming, AfterBody

LEMMA ReceiveStaleParts ==
  ASSUME TypeOK, HistoryInv, NEW s \in Sessions, ReceiveStale(s)
  PROVE  /\ inMsg' \in [Sessions -> [query : Seq(Chunks), data : Seq(Bytes)]]
         /\ idx' \in [Sessions -> Nat \ {0}] /\ spc' \in [Sessions -> ServerPC]
         /\ stale' \in [Sessions -> Nat] /\ stale'[s] > 0
         /\ spc[s] = "body" /\ spc'[s] = "store" /\ s \in gone /\ toServer[s] = << >>
         /\ UNCHANGED <<m_all_chunks, chunkAddr, stray>>
         /\ \A t \in Sessions \ {s} : /\ spc'[t] = spc[t] /\ inMsg'[t] = inMsg[t]
                                       /\ idx'[t] = idx[t] /\ stale'[t] = stale[t]
<1>1. flags[s] \in Seq({0, 1}) /\ inMsg[s] \in [query : Seq(Chunks), data : Seq(Bytes)]
  BY LockTypes
<1>2. Reread(s) \in Seq(Bytes)
  <2>1. inMsg[s].data \in Seq(Bytes)
    BY <1>1
  <2>2. \A j \in DOMAIN inMsg[s].data : inMsg[s].data[j] \in Bytes
    BY <2>1
  <2>3. Junk \in Bytes
    BY DEF Bytes
  <2>4. Reread(s) \in [DOMAIN flags[s] -> Bytes]
    BY <2>2, <2>3 DEF Reread
  <2>5. DOMAIN flags[s] = 1 .. Len(flags[s]) /\ Len(flags[s]) \in Nat
    BY <1>1
  <2> QED
    BY <2>4, <2>5
<1>3. /\ inMsg' = [inMsg EXCEPT ![s].data = Reread(s)]
      /\ idx' = [idx EXCEPT ![s] = 1] /\ spc' = [spc EXCEPT ![s] = "store"]
      /\ stale' = [stale EXCEPT ![s] = @ + 1] /\ spc[s] = "body" /\ s \in gone
      /\ toServer[s] = << >> /\ UNCHANGED <<m_all_chunks, chunkAddr, stray>>
  BY DEF ReceiveStale, Goto, serverVars
<1>4. /\ stale' \in [Sessions -> Nat] /\ stale'[s] > 0
      /\ \A t \in Sessions \ {s} : stale'[t] = stale[t]
  <2>1. stale \in [Sessions -> Nat]
    BY DEF HistoryInv
  <2> QED
    BY <1>3, <2>1
<1>5. /\ inMsg' \in [Sessions -> [query : Seq(Chunks), data : Seq(Bytes)]]
      /\ \A t \in Sessions \ {s} : inMsg'[t] = inMsg[t]
  <2>1. [inMsg[s] EXCEPT !.data = Reread(s)] \in [query : Seq(Chunks), data : Seq(Bytes)]
    BY <1>1, <1>2
  <2> QED
    BY <1>3, <2>1, LockTypes
<1>6. /\ idx' \in [Sessions -> Nat \ {0}] /\ spc' \in [Sessions -> ServerPC]
      /\ spc'[s] = "store" /\ \A t \in Sessions \ {s} : spc'[t] = spc[t] /\ idx'[t] = idx[t]
  BY <1>3, LockTypes DEF ServerPC
<1> QED
  BY <1>3, <1>4, <1>5, <1>6

LEMMA StoreNothingParts ==
  ASSUME TypeOK, HistoryInv, NEW s \in Sessions, StoreNothing(s)
  PROVE  /\ m_all_chunks' \in [Chunks -> Addr \cup {NoAddr}]
         /\ chunkAddr' \in [Sessions -> Addr \cup {NoAddr}] /\ spc' \in [Sessions -> ServerPC]
         /\ chunkAddr'[s] # NoAddr /\ <<hashList[s][idx[s]], chunkAddr'[s]>> \in stray'
         /\ chunkAddr'[s].slot = 0 /\ chunkAddr'[s].id = container[s].id
         /\ stray' = stray \cup {<<hashList[s][idx[s]], chunkAddr'[s]>>}
         /\ spc[s] = "store" /\ spc'[s] = "entry" /\ ~ LockAt(s)
         /\ UNCHANGED <<inMsg, idx, stale>> /\ stray \subseteq stray'
         /\ stray' \subseteq Chunks \X Addr
         /\ \A c \in Chunks : \/ m_all_chunks'[c] = m_all_chunks[c]
                              \/ <<c, m_all_chunks'[c]>> \in stray'
         /\ \A t \in Sessions \ {s} : spc'[t] = spc[t] /\ chunkAddr'[t] = chunkAddr[t]
<1>a. PICK a : a = [id |-> container[s].id, slot |-> 0]
  OBVIOUS
<1>c. PICK c : c = hashList[s][idx[s]]
  OBVIOUS
<1>1. /\ AtChunk(s, 1) /\ Received(s, idx[s]) = Junk /\ addChunk(c, a)
      /\ chunkAddr' = [chunkAddr EXCEPT ![s] = a] /\ stray' = stray \cup {<<c, a>>}
      /\ spc' = [spc EXCEPT ![s] = "entry"] /\ UNCHANGED <<inMsg, idx, stale>>
  BY <1>a, <1>c DEF StoreNothing, NoChunk, Goto, faultVars
<1>2. a \in Addr /\ a # NoAddr /\ a.slot = 0 /\ a.id = container[s].id
  <2>1. 0 \in Nat
    OBVIOUS
  <2> QED
    BY <1>a, <2>1, StoredTyped, NoAddrAssumption DEF NoAddrAssumption
<1>3. c \in Chunks
  <2>1. hashList[s] \in Seq(Chunks) /\ idx[s] \in Nat \ {0} /\ idx[s] <= Len(hashList[s])
    BY <1>1, LockTypes DEF AtChunk
  <2> QED
    BY <1>c, <2>1
<1>4. ~ LockAt(s)
  BY <1>1, <1>3, <1>c, ReceivedRight, JunkAssumption DEF JunkAssumption
<1>5. /\ m_all_chunks' \in [Chunks -> Addr \cup {NoAddr}]
      /\ \A d \in Chunks : m_all_chunks'[d] = m_all_chunks[d] \/ (d = c /\ m_all_chunks'[d] = a)
  BY <1>1, <1>2, <1>3, ViewTypes DEF addChunk
<1>6. /\ chunkAddr' \in [Sessions -> Addr \cup {NoAddr}] /\ chunkAddr'[s] = a
      /\ \A t \in Sessions \ {s} : chunkAddr'[t] = chunkAddr[t]
  BY <1>1, <1>2, ViewTypes
<1>7. /\ spc' \in [Sessions -> ServerPC] /\ spc[s] = "store" /\ spc'[s] = "entry"
      /\ \A t \in Sessions \ {s} : spc'[t] = spc[t]
  BY <1>1, LockTypes DEF ServerPC, AtChunk
<1> QED
  BY <1>1, <1>2, <1>3, <1>4, <1>5, <1>6, <1>7, <1>c DEF HistoryInv

StaleStep(s) == ReceiveStale(s) \/ StoreNothing(s)

(* What both leave alone.                                                  *)
LEMMA StaleFrame ==
  ASSUME TypeInv, HistoryInv, TalkInv, NEW s \in Sessions, StaleStep(s)
  PROVE  /\ UNCHANGED <<job, wire, clientVars, FILES, key, hashList, flags, dup, container,
                        recipe, queueVars, threadVars, finished, reader, writerVars, after,
                        faults, gone, lost, admitted>>
         /\ TypeInv' /\ HistoryInv' /\ Stray(s)' /\ stray \subseteq stray'
         /\ spc[s] \in {"body", "store"} /\ spc'[s] \in {"store", "entry"}
         /\ (LockAt(s) \/ Stray(s)) /\ stale'[s] > 0
         /\ \A t \in Sessions : StoreView(t)' = StoreView(t) /\ InMemory(t)' = InMemory(t)
         /\ \A t \in Sessions \ {s} : TalkView(t)' = TalkView(t) /\ stale'[t] = stale[t]
         /\ \A c \in Chunks : \/ m_all_chunks'[c] = m_all_chunks[c]
                              \/ <<c, m_all_chunks'[c]>> \in stray'
<1>0. TypeOK /\ RecipeInv
  BY DEF TypeInv
<1>1. UNCHANGED <<job, wire, clientVars, FILES, key, hashList, flags, dup, container,
                  recipe, queueVars, threadVars, finished, reader, writerVars, after,
                  faults, gone, lost, admitted>>
  BY DEF StaleStep, ReceiveStale, StoreNothing, serverVars, faultVars
<1>2. /\ UNCHANGED <<toServer, toClient, cpc, sent, batch, got, containerQueue, recipeQueue, done,
                     dataWriter, recipeWriter, saving, writing, total, containers, recipes>>
  BY <1>1 DEF wire, clientVars, queueVars, threadVars, writerVars
<1>3. /\ inMsg' \in [Sessions -> [query : Seq(Chunks), data : Seq(Bytes)]]
      /\ idx' \in [Sessions -> Nat \ {0}] /\ spc' \in [Sessions -> ServerPC]
      /\ chunkAddr' \in [Sessions -> Addr \cup {NoAddr}]
      /\ m_all_chunks' \in [Chunks -> Addr \cup {NoAddr}]
      /\ \A t \in Sessions \ {s} : /\ spc'[t] = spc[t] /\ inMsg'[t] = inMsg[t]
                                    /\ idx'[t] = idx[t] /\ stale'[t] = stale[t]
                                    /\ chunkAddr'[t] = chunkAddr[t]
      /\ \A c \in Chunks : \/ m_all_chunks'[c] = m_all_chunks[c]
                           \/ <<c, m_all_chunks'[c]>> \in stray'
      /\ spc[s] \in {"body", "store"} /\ spc'[s] \in {"store", "entry"} /\ stray \subseteq stray'
  <2>1. CASE ReceiveStale(s)
    <3>1. UNCHANGED <<m_all_chunks, chunkAddr, stray>>
      BY <1>0, <2>1, ReceiveStaleParts
    <3> QED
      BY <1>0, <2>1, <3>1, ReceiveStaleParts, ViewTypes
  <2>2. CASE StoreNothing(s)
    <3>1. UNCHANGED <<inMsg, idx, stale>>
      BY <1>0, <2>2, StoreNothingParts
    <3> QED
      BY <1>0, <2>2, <3>1, StoreNothingParts, LockTypes
  <2> QED
    BY <2>1, <2>2 DEF StaleStep
<1>4. TypeOK'
  <2>1. ConnTypeOK'
    BY <1>0, <1>1, <1>2, <1>3 DEF TypeOK, ConnTypeOK
  <2> QED
    BY <1>0, <1>1, <1>2, <1>3, <2>1 DEF TypeOK, ClientTypeOK, ServerTypeOK
<1>5. RecipeInv'
  BY <1>0, <1>1, <1>2, <1>3 DEF RecipeInv, RecipeAt, Uploading, RecipeName
<1>6. HistoryInv'
  BY <1>0, ReceiveStaleParts, StoreNothingParts DEF StaleStep, HistoryInv
<1>7. LockAt(s) \/ Stray(s)
  BY <1>3 DEF TalkInv, Dead
<1>8. cpc[s] # "start"
  BY <1>3, StartAccepted
<1>9. Stray(s)' /\ stale'[s] > 0
  <2>1. CASE ReceiveStale(s)
    BY <1>0, <1>1, <1>2, <1>8, <2>1, ReceiveStaleParts DEF Stray
  <2>2. CASE StoreNothing(s)
    BY <1>0, <1>1, <1>2, <1>3, <1>7, <2>2, StoreNothingParts DEF Stray
  <2> QED
    BY <2>1, <2>2 DEF StaleStep
<1>10. \A t \in Sessions : StoreView(t)' = StoreView(t) /\ InMemory(t)' = InMemory(t)
  BY <1>1, <1>2 DEF StoreView, InMemory
<1>11. \A t \in Sessions \ {s} : TalkView(t)' = TalkView(t)
  BY <1>1, <1>2, <1>3 DEF TalkView
<1> QED
  BY <1>1, <1>3, <1>4, <1>5, <1>6, <1>7, <1>9, <1>10, <1>11 DEF TypeInv

LEMMA StaleFault ==
  ASSUME FaultInv, NEW s \in Sessions, StaleStep(s)
  PROVE  FaultInv' /\ containers' = containers
<1>0. TypeInv /\ HistoryInv /\ TalkInv
  BY DEF FaultInv
<1>1. /\ TypeInv' /\ HistoryInv' /\ Stray(s)' /\ stray \subseteq stray'
      /\ spc[s] \in {"body", "store"} /\ spc'[s] \in {"store", "entry"}
      /\ \A t \in Sessions : StoreView(t)' = StoreView(t) /\ InMemory(t)' = InMemory(t)
      /\ \A t \in Sessions \ {s} : TalkView(t)' = TalkView(t) /\ stale'[t] = stale[t]
      /\ \A c \in Chunks : \/ m_all_chunks'[c] = m_all_chunks[c]
                           \/ <<c, m_all_chunks'[c]>> \in stray'
      /\ UNCHANGED <<containers, container, containerQueue, saving, done, dataWriter, gone, lost>>
  BY <1>0, StaleFrame DEF writerVars, queueVars, threadVars
<1>2. TalkInv'
  <2>1. ASSUME NEW t \in Sessions \ {s} PROVE LockAt(t)' \/ Dead(t)' \/ Stray(t)'
    <3>1. TalkView(t)' = TalkView(t) /\ StoreView(t)' = StoreView(t)
      BY <1>1
    <3>2. Stray(t) => Stray(t)'
      BY <1>1, <3>1 DEF Stray, TalkView
    <3> QED
      BY <1>0, <1>1, <3>1, <3>2, LockKept, DeadKept DEF TalkInv
  <2> QED
    BY <1>1, <2>1 DEF TalkInv
<1>3. IdInv'
  <2>1. \A t \in Sessions \ {s} : spc'[t] = spc[t]
    BY <1>1 DEF TalkView
  <2>2. \A t \in Sessions : Bound(t)' = Bound(t)
    BY <1>1, <2>1 DEF Bound
  <2> QED
    BY <1>1, <2>2 DEF FaultInv, IdInv, IdAt
<1>4. HeldInv'
  <2>1. ASSUME NEW t \in Sessions \ {s} PROVE StoreAt(t)' \/ LostAt(t)' \/ Dead(t)'
    <3>1. TalkView(t)' = TalkView(t) /\ StoreView(t)' = StoreView(t)
      BY <1>1
    <3>2. spc'[t] = spc[t]
      BY <3>1 DEF TalkView
    <3> QED
      BY <1>1, <3>1, <3>2, StoreKept, LostKept, DeadKept DEF FaultInv, HeldInv
  <2>2. StoreAt(s)
    BY <1>1 DEF FaultInv, HeldInv, LostAt, Dead
  <2>3. StoreAt(s)'
    BY <1>1, <2>2 DEF StoreAt, Uploading
  <2> QED
    BY <2>1, <2>3 DEF HeldInv
<1>5. KnownInv'
  <2>1. \A a, c : Resolves(a, c) => Resolves(a, c)'
    BY <1>1 DEF Resolves, OnDisk, Holds
  <2> QED
    BY <1>1, <2>1 DEF FaultInv, KnownInv
<1> QED
  BY <1>1, <1>2, <1>3, <1>4, <1>5 DEF FaultInv

----------------------------------------------------------------------------
(* The server process ends.                                                *)

LEMMA TornParts ==
  ASSUME TypeOK, NEW t \in TornContainers, NEW u \in Sessions, NEW f \in t[u]
  PROVE  /\ saving[u] # None /\ f \in Container /\ f.id = saving[u].id
         /\ Extends(f, saving[u]) /\ \A g \in t[u] : g = f
<1>1. f \in UNION Torn(u)
  BY DEF TornContainers
<1>2. saving[u] # None
  BY <1>1 DEF Torn
<1>3. PICK n \in 0 .. Len(saving[u].data) :
        f = [saving[u] EXCEPT !.data = SubSeq(saving[u].data, 1, n)]
  BY <1>1, <1>2 DEF Torn
<1>4. saving[u] \in Container
  BY <1>2, ViewTypes
<1>5. saving[u].data \in Seq(Bytes)
  BY <1>4 DEF Container
<1>6. n \in Nat /\ n <= Len(saving[u].data)
  BY <1>5
<1>7. SubSeq(saving[u].data, 1, n) \in Seq(Bytes)
  <2>1. SubSeq(saving[u].data, 0 + 1, n) \in Seq(Bytes)
    BY <1>5, <1>6, PartTyped
  <2> QED
    BY <2>1
<1>8. f \in Container /\ f.id = saving[u].id /\ f.data = SubSeq(saving[u].data, 1, n)
  BY <1>3, <1>4, <1>7 DEF Container
<1>9. Extends(f, saving[u])
  <2>1. \A k \in 1 .. n : k \in 1 .. Len(saving[u].data) /\ f.data[k] = saving[u].data[k]
    BY <1>5, <1>6, <1>8
  <2>2. DOMAIN f.data = 1 .. n /\ DOMAIN saving[u].data = 1 .. Len(saving[u].data)
    BY <1>5, <1>6, <1>8
  <2> QED
    BY <1>8, <2>1, <2>2 DEF Extends
<1>10. ASSUME NEW g \in t[u] PROVE g = f
  <2>1. t[u] \in Torn(u)
    BY DEF TornContainers
  <2>2. \A S \in Torn(u) : \A x, y \in S : x = y
    BY <1>2 DEF Torn
  <2> QED
    BY <2>1, <2>2
<1> QED
  BY <1>2, <1>8, <1>9, <1>10

LEMMA CutTyped ==
  ASSUME TypeOK, NEW cut \in Cuts, NEW n \in DOMAIN recipes
  PROVE  /\ recipes[n] \in Recipe
         /\ [recipes[n] EXCEPT !.entries = SubSeq(recipes[n].entries, 1, cut[n])] \in Recipe
<1>1. recipes[n] \in Recipe
  BY DEF TypeOK, ConnTypeOK
<1>2. recipes[n].entries \in Entries
  BY <1>1 DEF Recipe
<1>3. Len(recipes[n].entries) \in Nat
  BY <1>2 DEF Entries
<1>4. cut[n] \in Nat /\ cut[n] <= Len(recipes[n].entries)
  <2>1. /\ cut[n] \in UNION {0 .. Len(recipes[m].entries) : m \in DOMAIN recipes}
        /\ cut[n] <= Len(recipes[n].entries) \/ cut[n] = Len(recipes[n].entries)
    BY DEF Cuts
  <2>2. PICK m \in DOMAIN recipes : cut[n] \in 0 .. Len(recipes[m].entries)
    BY <2>1
  <2> QED
    BY <1>3, <2>1, <2>2
<1>5. SubSeq(recipes[n].entries, 1, cut[n]) \in Entries
  <2>1. SubSeq(recipes[n].entries, 0 + 1, cut[n]) \in Entries
    BY <1>2, <1>4, PartTyped DEF Entries
  <2> QED
    BY <2>1
<1> QED
  BY <1>1, <1>5 DEF Recipe

(* What Crash does to a session that was connected ...                     *)
LEMMA CrashConnected ==
  ASSUME Crash, NEW s \in Connected
  PROVE  /\ s \in Sessions /\ cpc[s] # "start"
         /\ spc'[s] = "closed" /\ dataWriter'[s] = "none" /\ recipeWriter'[s] = "none"
         /\ toServer'[s] = << >> /\ toClient'[s] = << >>
         /\ container'[s] = [container[s] EXCEPT !.data = << >>]
         /\ recipe'[s] = << >> /\ containerQueue'[s] = << >> /\ recipeQueue'[s] = << >>
         /\ saving'[s] = None /\ writing'[s] = None /\ s \in gone'
<1>1. s \in Sessions /\ cpc[s] # "start"
  BY DEF Connected
<1> QED
  BY <1>1 DEF Crash, Forget

(* ... and to one that was not.                                            *)
LEMMA CrashOthers ==
  ASSUME Crash, NEW s \in Sessions \ Connected
  PROVE  TalkView(s)' = TalkView(s) /\ StoreView(s)' = StoreView(s)
<1>2. /\ spc'[s] = spc[s] /\ dataWriter'[s] = dataWriter[s]
      /\ recipeWriter'[s] = recipeWriter[s]
      /\ toServer'[s] = toServer[s] /\ toClient'[s] = toClient[s]
      /\ container'[s] = container[s] /\ recipe'[s] = recipe[s]
      /\ containerQueue'[s] = containerQueue[s] /\ recipeQueue'[s] = recipeQueue[s]
      /\ saving'[s] = saving[s] /\ writing'[s] = writing[s]
  BY DEF Crash, Forget
<1>3. UNCHANGED <<job, clientVars, key, inMsg, hashList, flags, idx, dup, chunkAddr, done,
                  reader, total>>
  BY DEF Crash
<1> QED
  BY <1>2, <1>3 DEF TalkView, StoreView, clientVars

(* A session that is not connected, or not any more, holds nothing.        *)
LEMMA NotConnected ==
  ASSUME TalkInv, HeldInv, NEW s \in Sessions \ Connected
  PROVE  /\ spc[s] \in {"accepted", "closed"}
         /\ Dead(s) \/ (LockAt(s) /\ StoreAt(s))
         /\ saving[s] = None /\ containerQueue[s] = << >> /\ container[s].data = << >>
<1>1. spc[s] \in {"accepted", "closed"}
  BY StartAccepted DEF Connected
<1>2. Dead(s) \/ (LockAt(s) /\ StoreAt(s))
  BY <1>1 DEF TalkInv, HeldInv, LostAt, Stray
<1> QED
  BY <1>1, <1>2 DEF StoreAt, Uploading, Dead

LEMMA CrashDisk ==
  ASSUME TypeOK, Crash
  PROVE  /\ containers \subseteq containers' /\ containers' \subseteq Container
         /\ \A f \in containers' \ containers :
              \E u \in Sessions : saving[u] # None /\ f.id = saving[u].id /\ Extends(f, saving[u])
         /\ DOMAIN recipes' = DOMAIN recipes /\ recipes' \in [DOMAIN recipes -> Recipe]
<1>1. PICK t \in TornContainers : containers' = containers \cup UNION {t[s] : s \in Sessions}
  BY DEF Crash, FilesAfter
<1>2. PICK cut \in Cuts :
        recipes' = [n \in DOMAIN recipes |->
                      [recipes[n] EXCEPT !.entries = SubSeq(recipes[n].entries, 1, cut[n])]]
  BY DEF Crash
<1>3. recipes' \in [DOMAIN recipes -> Recipe]
  BY <1>2, CutTyped
<1>4. \A f \in containers' \ containers :
        /\ f \in Container
        /\ \E u \in Sessions : saving[u] # None /\ f.id = saving[u].id /\ Extends(f, saving[u])
  BY <1>1, TornParts
<1>5. containers \subseteq Container
  BY ViewTypes
<1> QED
  BY <1>1, <1>3, <1>4, <1>5

LEMMA EmptyContainer ==
  ASSUME NEW f \in Container
  PROVE  /\ [f EXCEPT !.data = << >>] \in Container
         /\ [f EXCEPT !.data = << >>].data = << >>
<1>1. << >> \in Seq(Bytes)
  OBVIOUS
<1> QED
  BY <1>1 DEF Container

LEMMA CrashTyped ==
  ASSUME TypeInv, Crash
  PROVE  TypeInv'
<1>0. TypeOK
  BY DEF TypeInv
<1>1. UNCHANGED <<job, clientVars, key, inMsg, hashList, flags, idx, dup, chunkAddr, done,
                  reader, total, finished, after, FILES>>
  BY DEF Crash, Restart
<1>2. m_all_chunks' \in [Chunks -> Addr \cup {NoAddr}]
  BY DEF Crash, Restart
<1>3. /\ spc' \in [Sessions -> ServerPC]
      /\ dataWriter' \in [Sessions -> {"none", "run", "exit"}]
      /\ recipeWriter' \in [Sessions -> {"none", "open", "run", "exit"}]
  BY <1>0, LockTypes, ViewTypes DEF Crash, Forget, ServerPC
<1>4. /\ toServer' \in [Sessions -> Seq(ServerMsg)]
      /\ toClient' \in [Sessions -> Seq(ClientMsg)]
  BY <1>0, LockTypes DEF Crash, Forget
<1>5. container' \in [Sessions -> Container]
  <2>1. \A f \in Container : [f EXCEPT !.data = << >>] \in Container
    BY EmptyContainer
  <2> QED
    BY <1>0, <2>1, ViewTypes DEF Crash, Forget
<1>6. /\ containerQueue' \in [Sessions -> Seq(Container)]
      /\ saving' \in [Sessions -> Container \cup {None}]
  BY <1>0, ViewTypes DEF Crash, Forget
<1>7. /\ recipe' \in [Sessions -> Entries]
      /\ recipeQueue' \in [Sessions -> Seq(Entries)]
      /\ writing' \in [Sessions -> Entries \cup {None}]
  <2>1. << >> \in Entries /\ << >> \in Seq(Entries)
    BY DEF Entries
  <2> QED
    BY <1>0, <2>1, ViewTypes DEF Crash, Forget
<1>8. /\ containers' \subseteq Container
      /\ DOMAIN recipes' = DOMAIN recipes /\ recipes' \in [DOMAIN recipes' -> Recipe]
  BY <1>0, CrashDisk
<1>9. ConnTypeOK'
  BY <1>0, <1>1, <1>3, <1>5, <1>6, <1>7, <1>8 DEF TypeOK, ConnTypeOK
<1>10. TypeOK'
  BY <1>0, <1>1, <1>2, <1>4, <1>9 DEF TypeOK, ClientTypeOK, ServerTypeOK, clientVars
<1>11. ASSUME NEW s \in Sessions PROVE RecipeAt(s)'
  <2>1. CASE s \in Connected
    BY <2>1, CrashConnected DEF RecipeAt
  <2>2. CASE s \notin Connected
    <3>1. TalkView(s)' = TalkView(s) /\ StoreView(s)' = StoreView(s)
      BY <2>2, CrashOthers
    <3>2. /\ spc'[s] = spc[s] /\ key'[s] = key[s] /\ recipeWriter'[s] = recipeWriter[s]
          /\ writing'[s] = writing[s] /\ reader'[s] = reader[s]
      BY <3>1 DEF TalkView, StoreView
    <3> QED
      BY <1>8, <3>2 DEF TypeInv, RecipeInv, RecipeAt, Uploading, RecipeName
  <2> QED
    BY <2>1, <2>2
<1> QED
  BY <1>10, <1>11 DEF TypeInv, RecipeInv

LEMMA CrashIds ==
  ASSUME TypeInv, TalkInv, HeldInv, IdInv, Crash
  PROVE  IdInv'
<1> SUFFICES ASSUME NEW s \in Sessions PROVE IdAt(s)'
  BY DEF IdInv
<1>0. TypeOK
  BY DEF TypeInv
<1>1. /\ container[s].id[1] = s
      /\ Ascending(s, containers, saving[s], containerQueue[s], Bound(s))
  BY DEF IdInv, IdAt
<1>2. \A u \in Sessions : saving[u] # None => saving[u].id[1] = u
  BY DEF IdInv, IdAt, Ascending
<1>3. ASSUME NEW f \in containers', f.id[1] = s, f \notin containers
      PROVE  saving[s] # None /\ f.id = saving[s].id
  BY <1>0, <1>2, <1>3, CrashDisk
<1>4. CASE s \in Connected
  <2>1. /\ container'[s] = [container[s] EXCEPT !.data = << >>] /\ containerQueue'[s] = << >>
        /\ saving'[s] = None /\ spc'[s] = "closed"
    BY <1>4, CrashConnected
  <2>2. container'[s].id = container[s].id
    BY <1>0, <2>1, ViewTypes DEF Container
  <2>3. container[s].id[2] \in Nat /\ Bound(s) \in Nat
    BY BoundNat
  <2>4. Bound(s)' = container[s].id[2] + 1
    BY <2>1, <2>2 DEF Bound
  <2>5. Bound(s) <= Bound(s)'
    BY <2>3, <2>4 DEF Bound
  <2>6. \A f \in containers' : f.id[1] = s => f.id[2] < Bound(s)
    BY <1>1, <1>3 DEF Ascending
  <2>7. \A f \in containers' : f.id[2] \in Nat
    BY <1>0, CrashDisk, ContainerNumber
  <2>8. \A f \in containers' : f.id[1] = s => f.id[2] < Bound(s)'
    BY <2>3, <2>4, <2>5, <2>6, <2>7
  <2> QED
    BY <1>1, <2>1, <2>2, <2>8 DEF IdAt, Ascending
<1>5. CASE s \notin Connected
  <2>1. TalkView(s)' = TalkView(s) /\ StoreView(s)' = StoreView(s)
    BY <1>5, CrashOthers
  <2>2. /\ container'[s] = container[s] /\ containerQueue'[s] = containerQueue[s]
        /\ saving'[s] = saving[s] /\ spc'[s] = spc[s]
    BY <2>1 DEF TalkView, StoreView
  <2>3. saving[s] = None /\ containerQueue[s] = << >>
    BY <1>5, NotConnected
  <2>4. Bound(s)' = Bound(s)
    BY <2>2 DEF Bound
  <2>5. \A f \in containers' : f.id[1] = s => f \in containers
    BY <1>3, <2>3
  <2>6. Ascending(s, containers', saving[s], containerQueue[s], Bound(s))
    BY <1>1, <2>5 DEF Ascending
  <2> QED
    BY <1>1, <2>2, <2>4, <2>6 DEF IdAt
<1> QED
  BY <1>4, <1>5

LEMMA CrashDead ==
  ASSUME TypeOK, Crash, NEW s \in Connected
  PROVE  Dead(s)'
<1>1. container'[s].data = << >>
  <2>1. container[s] \in Container
    BY CrashConnected, ViewTypes
  <2> QED
    BY <2>1, CrashConnected, EmptyContainer
<1>2. cpc' = cpc
  BY DEF Crash, clientVars
<1> QED
  BY <1>1, <1>2, CrashConnected DEF Dead

LEMMA CrashFault ==
  ASSUME FaultInv, Crash
  PROVE  FaultInv' /\ containers \subseteq containers'
<1>0. /\ TypeOK /\ TypeInv /\ TalkInv /\ HeldInv /\ IdInv
      /\ TypeInv' /\ IdInv' /\ containers \subseteq containers'
  BY CrashTyped, CrashIds, CrashDisk DEF FaultInv, TypeInv
<1>1. ASSUME NEW s \in Connected PROVE Dead(s)'
  BY <1>0, CrashDead
<1>2. ASSUME NEW s \in Sessions \ Connected PROVE Dead(s)' \/ (LockAt(s)' /\ StoreAt(s)')
  <2>1. TalkView(s)' = TalkView(s) /\ StoreView(s)' = StoreView(s)
    BY <1>2, CrashOthers
  <2>2. spc'[s] = spc[s] /\ gone \subseteq gone'
    BY <2>1 DEF TalkView, Crash
  <2> QED
    BY <1>0, <1>2, <2>1, <2>2, NotConnected, LockKept, StoreKept, DeadKept
<1>3. KnownInv'
  BY DEF Crash, Restart, KnownInv
<1>4. HistoryInv'
  BY DEF Crash, FaultInv, HistoryInv
<1> QED
  BY <1>0, <1>1, <1>2, <1>3, <1>4 DEF FaultInv, TalkInv, HeldInv

----------------------------------------------------------------------------
(* The index never lies.                                                   *)

LEMMA QuietFault ==
  ASSUME FaultInv, UNCHANGED <<vars, stale, lost, stray>>, gone \subseteq gone'
  PROVE  FaultInv' /\ containers' = containers
<1>1. UNCHANGED <<job, wire, clientVars, serverVars, connVars, after>>
  BY DEF vars
<1>2. /\ UNCHANGED <<job, toServer, toClient, clientVars, FILES, m_all_chunks>>
      /\ UNCHANGED <<spc, key, inMsg, hashList, flags, idx, dup, chunkAddr, container, recipe>>
      /\ UNCHANGED <<containerQueue, recipeQueue, done, dataWriter, recipeWriter, finished>>
      /\ UNCHANGED <<reader, saving, writing, total, containers, recipes, after>>
  BY <1>1 DEF wire, serverVars, connVars, uploadVars, queueVars, threadVars, writerVars
<1>3. cpc' = cpc /\ TypeInv
  BY <1>2 DEF clientVars, FaultInv
<1>4. TypeInv'
  <2>1. [Next]_vars
    OBVIOUS
  <2> QED
    BY <1>3, <2>1, NextTyped, NextRecipe DEF TypeInv
<1>5. \A t : TalkView(t)' = TalkView(t) /\ StoreView(t)' = StoreView(t)
  BY <1>2 DEF TalkView, StoreView, clientVars
<1>6. \A t \in Sessions : (Dead(t) => Dead(t)') /\ (Stray(t) => Stray(t)')
  BY <1>2, <1>3 DEF Dead, Stray
<1>7. TalkInv'
  BY <1>5, <1>6, LockKept DEF FaultInv, TalkInv
<1>8. IdInv'
  BY <1>2 DEF FaultInv, IdInv, IdAt, Bound
<1>9. HeldInv'
  BY <1>2, <1>5, <1>6, StoreKept, LostKept DEF FaultInv, HeldInv
<1>10. KnownInv'
  BY <1>2 DEF FaultInv, KnownInv, Resolves, OnDisk, InMemory
<1> QED
  BY <1>2, <1>4, <1>7, <1>8, <1>9, <1>10 DEF FaultInv, HistoryInv

LEMMA InitFault == RecoveryInit => FaultInv
<1> SUFFICES ASSUME RecoveryInit PROVE FaultInv
  OBVIOUS
<1>1. Init
  BY DEF RecoveryInit
<1>2. TalkInv /\ HeldInv
  BY <1>1, InitLock, InitStore DEF TalkInv, HeldInv, LockInv, StoreInv
<1>3. KnownInv
  BY <1>1 DEF Init, ServerInit, KnownInv
<1>4. HistoryInv
  BY DEF RecoveryInit, FaultInit, HistoryInv
<1> QED
  BY <1>1, <1>2, <1>3, <1>4, InitTypeInv, InitIds DEF FaultInv

(* No step, of the system or of a fault, breaks the invariant or changes   *)
(* a container file.                                                       *)
LEMMA NextFault ==
  ASSUME FaultInv, [RecoveryNext]_allVars
  PROVE  FaultInv' /\ containers \subseteq containers'
<1>1. ASSUME NEW s \in Sessions, Die(s) PROVE FaultInv' /\ containers \subseteq containers'
  BY <1>1, QuietFault DEF Die
<1>2. ASSUME AllGone \/ UNCHANGED allVars PROVE FaultInv' /\ containers \subseteq containers'
  BY <1>2, QuietFault DEF AllGone, allVars, faultVars
<1> QED
  BY <1>1, <1>2, SystemFault, SaveFailsFault, StaleFault, CrashFault DEF RecoveryNext, StaleStep

LEMMA FaultInvariant == RecoverySpec => []FaultInv
  BY InitFault, NextFault, PTL DEF RecoverySpec

(* What is in memory of a session belongs to it.                           *)
LEMMA MemoryOwn ==
  ASSUME TypeOK, IdInv, NEW s \in Sessions, NEW f \in InMemory(s)
  PROVE  /\ f \in Container /\ f.id \in ContainerId /\ f.id[1] = s /\ f.id[2] \in Nat
         /\ container[s].id[2] \in Nat /\ f.id[2] < container[s].id[2] + 1
<1>2. /\ container[s] \in Container /\ containerQueue[s] \in Seq(Container)
      /\ saving[s] \in Container \cup {None}
  BY ViewTypes
<1>3. /\ container[s].id[1] = s /\ container[s].id[2] \in Nat
      /\ Ascending(s, containers, saving[s], containerQueue[s], Bound(s))
      /\ Bound(s) \in {container[s].id[2], container[s].id[2] + 1}
  BY <1>2, ContainerNumber DEF IdInv, IdAt, Bound
<1>4. ASSUME f \in Container, f.id[1] = s, f.id[2] < Bound(s) \/ f = container[s]
      PROVE  /\ f \in Container /\ f.id \in ContainerId /\ f.id[1] = s /\ f.id[2] \in Nat
             /\ container[s].id[2] \in Nat /\ f.id[2] < container[s].id[2] + 1
  BY <1>3, <1>4, ContainerNumber DEF ContainerId
<1>5. CASE f \in ToSet(containerQueue[s])
  <2>1. PICK i \in DOMAIN containerQueue[s] : f = containerQueue[s][i]
    BY <1>5 DEF ToSet
  <2> QED
    BY <1>2, <1>3, <1>4, <2>1 DEF Ascending
<1>6. CASE f \in {saving[s], container[s]} \ {None}
  BY <1>2, <1>3, <1>4, <1>6 DEF Ascending
<1> QED
  BY <1>5, <1>6 DEF InMemory

(* What was in memory when the server ended belongs to sessions whose      *)
(* process is over, and the index does not name it.                        *)
FallenInv ==
  \A i \in fallen :
    /\ i \in ContainerId /\ spc[i[1]] = "closed"
    /\ \A c \in Chunks : m_all_chunks[c] # NoAddr => m_all_chunks[c].id # i

LEMMA ContainerIdParts == ASSUME NEW i \in ContainerId PROVE i[1] \in Sessions
  BY DEF ContainerId

(* Entering an address of a session at work does not disturb it.           *)
LEMMA FallenKept ==
  ASSUME FallenInv, fallen' = fallen, NEW s \in Sessions, container[s].id[1] = s,
         \A t \in Sessions : spc[t] = "closed" => spc'[t] = "closed",
         \A c \in Chunks : \/ m_all_chunks'[c] = m_all_chunks[c]
                           \/ m_all_chunks'[c].id = container[s].id /\ spc[s] # "closed"
  PROVE  FallenInv'
<1> SUFFICES ASSUME NEW i \in fallen
             PROVE  /\ i \in ContainerId /\ spc'[i[1]] = "closed"
                    /\ \A c \in Chunks : m_all_chunks'[c] # NoAddr => m_all_chunks'[c].id # i
  BY DEF FallenInv
<1>1. /\ i \in ContainerId /\ spc[i[1]] = "closed" /\ i[1] \in Sessions
      /\ \A c \in Chunks : m_all_chunks[c] # NoAddr => m_all_chunks[c].id # i
  BY ContainerIdParts DEF FallenInv
<1> QED
  BY <1>1

LEMMA SystemFallen ==
  ASSUME FaultInv, FallenInv, NEW s \in Sessions, SystemStep(s)
  PROVE  FallenInv'
<1>0. /\ TypeOK /\ TypeInv /\ fallen' = fallen /\ container[s].id[1] = s
  BY SystemStepOfOne DEF FaultInv, TypeInv, IdInv, IdAt, faultVars
<1>1. ASSUME NEW t \in Sessions, spc[t] = "closed" PROVE spc'[t] = "closed"
  <2>1. CASE t # s
    BY <1>0, <1>1, <2>1, SystemOthers DEF TalkView
  <2>2. CASE t = s
    <3>1. ~ HandlerStep(s)
      BY <1>0, <1>1, <2>2, RunMoves, UploadMoves, DownloadMoves DEF HandlerStep, Uploading
    <3> QED
      BY <1>1, <2>2, <3>1, SystemStepOfOne
         DEF ClientSide, DataWriterStep, RecipeWriterStep, ServerSide, connVars,
             PopContainer, SaveContainer, EndDataWriter, OpenRecipe, PopRecipe, WriteRecipe,
             EndRecipeWriter, uploadVars
  <2> QED
    BY <2>1, <2>2
<1>2. ASSUME NEW c \in Chunks
      PROVE  \/ m_all_chunks'[c] = m_all_chunks[c]
             \/ m_all_chunks'[c].id = container[s].id /\ spc[s] # "closed"
  <2>1. CASE HandlerStep(s) /\ StoreChunk(s)
    BY <1>0, <2>1, ViewTypes DEF StoreChunk, HasChunk, AtChunk, addChunk
  <2>2. CASE HandlerStep(s) /\ ~ StoreChunk(s)
    BY <1>0, <2>2, HandlerNew
  <2>3. CASE ClientSide(s) \/ DataWriterStep(s) \/ RecipeWriterStep(s)
    BY <2>3 DEF ClientSide, DataWriterStep, RecipeWriterStep, serverVars
  <2> QED
    BY <2>1, <2>2, <2>3, SystemStepOfOne
<1> QED
  BY <1>0, <1>1, <1>2, FallenKept

LEMMA StaleFallen ==
  ASSUME FaultInv, FallenInv, NEW s \in Sessions, StaleStep(s)
  PROVE  FallenInv'
<1>0. TypeOK /\ HistoryInv /\ container[s].id[1] = s
  BY DEF FaultInv, TypeInv, IdInv, IdAt
<1>1. CASE ReceiveStale(s)
  <2>1. fallen' = fallen /\ m_all_chunks' = m_all_chunks
    BY <1>1 DEF ReceiveStale, serverVars
  <2>2. \A t \in Sessions : spc[t] = "closed" => spc'[t] = "closed"
    BY <1>0, <1>1, ReceiveStaleParts
  <2> QED
    BY <1>0, <2>1, <2>2, FallenKept
<1>2. CASE StoreNothing(s)
  <2>1. fallen' = fallen /\ spc[s] = "store"
    BY <1>2 DEF StoreNothing, NoChunk, AtChunk, faultVars
  <2>2. \A t \in Sessions : spc[t] = "closed" => spc'[t] = "closed"
    BY <1>0, <1>2, StoreNothingParts
  <2>3. \A c \in Chunks : \/ m_all_chunks'[c] = m_all_chunks[c]
                           \/ m_all_chunks'[c].id = container[s].id
    BY <1>0, <1>2, ViewTypes DEF StoreNothing, addChunk
  <2> QED
    BY <1>0, <2>1, <2>2, <2>3, FallenKept
<1> QED
  BY <1>1, <1>2 DEF StaleStep

LEMMA CrashFallen ==
  ASSUME FaultInv, FallenInv, Crash
  PROVE  FallenInv'
<1>0. TypeOK
  BY DEF FaultInv, TypeInv
<1>1. \A c \in Chunks : m_all_chunks'[c] = NoAddr
  BY DEF Crash, Restart
<1>2. \A t \in Sessions : spc[t] = "closed" \/ t \in Connected => spc'[t] = "closed"
  BY <1>0, ViewTypes DEF Crash, Forget
<1>3. ASSUME NEW i \in fallen' \ fallen PROVE i \in ContainerId /\ i[1] \in Connected
  <2>1. fallen' = fallen \cup UNION {{f.id : f \in InMemory(s) \ containers'} : s \in Connected}
    BY DEF Crash
  <2>2. PICK s \in Connected : \E f \in InMemory(s) : i = f.id
    BY <1>3, <2>1
  <2> QED
    BY <1>0, <2>2, MemoryOwn DEF FaultInv, Connected
<1>4. \A i \in fallen : i \in ContainerId /\ i[1] \in Sessions /\ spc[i[1]] = "closed"
  BY ContainerIdParts DEF FallenInv
<1> QED
  BY <1>1, <1>2, <1>3, <1>4, ContainerIdParts DEF FallenInv

LEMMA NextFallen ==
  ASSUME FaultInv, FallenInv, [RecoveryNext]_allVars
  PROVE  FallenInv'
<1>1. ASSUME \/ \E s \in Sessions : Die(s) \/ SaveFails(s)
             \/ AllGone \/ UNCHANGED allVars
      PROVE  FallenInv'
  <2>1. UNCHANGED <<fallen, m_all_chunks, spc>>
    BY <1>1 DEF Die, SaveFails, AllGone, allVars, faultVars, vars, connVars, serverVars
  <2> QED
    BY <2>1 DEF FallenInv
<1> QED
  BY <1>1, SystemFallen, StaleFallen, CrashFallen DEF RecoveryNext, StaleStep

(* After a restart, too, the index never lies: whatever ends the server or *)
(* a client, an address that isChunkStored hands out is of a container     *)
(* that did not go down with the server, and names the chunk.  What        *)
(* save_container could not write is excepted, and what receive_file has   *)
(* filed from an old message of a dead client.                             *)
THEOREM IndexSoundAfterRestart == RecoverySpec => []RestartedIndexSound
<1>1. RecoveryInit => FaultInv /\ FallenInv
  BY InitFault DEF RecoveryInit, FaultInit, FallenInv
<1>2. FaultInv /\ FallenInv /\ [RecoveryNext]_allVars => (FaultInv /\ FallenInv)'
  BY NextFault, NextFallen
<1>3. FaultInv /\ FallenInv => RestartedIndexSound
  BY DEF FaultInv, KnownInv, FallenInv, RestartedIndexSound
<1> QED
  BY <1>1, <1>2, <1>3, PTL DEF RecoverySpec

(* No fault and no restart changes or removes a container file that has    *)
(* been written: torn containers are files of their own.                   *)
THEOREM ContainersOutliveFaults == RecoverySpec => [][containers \subseteq containers']_allVars
<1>1. FaultInv /\ [RecoveryNext]_allVars => [containers \subseteq containers']_allVars
  BY NextFault
<1> QED
  BY <1>1, FaultInvariant, PTL DEF RecoverySpec

----------------------------------------------------------------------------
(* Uploads that have finished.                                             *)

(* An upload that has been admitted has its row; one that has finished has *)
(* its recipe, and its handler expects nothing but QUIT.                   *)
RowAt(s) ==
  /\ Admitted(s) => key[s] \in FILES
  /\ s \in finished => /\ RecipeName(key[s]) \in DOMAIN recipes
                       /\ spc[s] \in {"order", "closed"}
                       /\ spc[s] = "order" => cpc[s] = "quit_rep"

RowInv == \A s \in Sessions : RowAt(s)

(* What a step of its handler may do to a session's row and name: a        *)
(* session passes the check only if its row is not there.                  *)
RowStep(s) ==
  /\ FILES \subseteq FILES' /\ finished \subseteq finished' /\ finished' \subseteq finished \cup {s}
  /\ s \in finished => key'[s] = key[s]
  /\ (spc'[s] = "add_file" \/ Uploading(s)') =>
       /\ key'[s] = key[s]
       /\ \/ spc[s] = "add_file" \/ Uploading(s)
          \/ spc'[s] = "add_file" /\ key[s] \notin FILES

LEMMA HandlerRow ==
  ASSUME TypeInv, NEW s \in Sessions, HandlerStep(s), LockAt(s) \/ Stray(s), RowAt(s),
         cpc' = cpc
  PROVE  RowAt(s)' /\ RowStep(s)
<1>0. TypeOK /\ RecipeAt(s) /\ recipes' = recipes
  BY DEF TypeInv, RecipeInv, HandlerStep, writerVars
<1>1. CASE RunStep(s)
  <2>1. /\ UNCHANGED <<FILES, finished>> /\ spc[s] \in {"accepted", "order"}
        /\ spc'[s] \in {"order", "unique", "exist", "closed"}
    BY <1>0, <1>1, RunMoves DEF RunStep, serverVars, uploadVars
  <2>2. ASSUME s \in finished PROVE key' = key /\ spc'[s] = "closed"
    <3>1. cpc[s] = "quit_rep" /\ spc[s] = "order"
      BY <2>1, <2>2 DEF RowAt
    <3>2. ~ Starting(s) /\ LockAt(s)
      BY <3>1 DEF Starting, Stray
    <3>3. RecvQuit(s)
      BY <1>1, <3>1, <3>2, ServerPhase DEF RunStep, Serve, RecvOrder
    <3> QED
      BY <1>0, <3>3, LockTypes DEF RecvQuit, Goto
  <2>3. RowStep(s)
    BY <2>1, <2>2 DEF RowStep, Uploading
  <2>4. RowAt(s)'
    BY <1>0, <2>1, <2>2 DEF RowAt, Admitted, Uploading, RecipeName
  <2> QED
    BY <2>3, <2>4
<1>2. CASE DownloadStep(s)
  <2>1. /\ UNCHANGED <<FILES, finished, key>> /\ spc[s] \in {"exist", "open", "recipe", "chunk"}
        /\ spc'[s] \in {"open", "order", "recipe", "chunk"}
    BY <1>0, <1>2, DownloadMoves DEF DownloadStep, serverVars, uploadVars
  <2> QED
    BY <2>1 DEF RowAt, RowStep, Admitted, Uploading
<1>3. CASE UploadStep(s)
  <2>0. key' = key
    BY <1>3 DEF UploadStep
  <2>1. CASE CheckUnique(s) /\ finished' = finished
    <3>1. /\ FILES' = FILES /\ spc[s] = "unique"
          /\ \/ spc'[s] = "add_file" /\ key[s] \notin FILES
             \/ spc'[s] = "order"
      BY <1>0, <2>1, LockTypes DEF CheckUnique, Goto, isFileUnique
    <3> QED
      BY <2>0, <2>1, <3>1 DEF RowAt, RowStep, Admitted, Uploading
  <2>2. CASE AddFile(s) /\ finished' = finished
    <3>1. FILES' = FILES \cup {key[s]} /\ spc[s] = "add_file" /\ spc'[s] = "body"
      BY <1>0, <2>2, LockTypes DEF AddFile, Goto, addFile
    <3> QED
      BY <2>0, <2>2, <3>1 DEF RowAt, RowStep, Admitted, Uploading
  <2>3. ASSUME UNCHANGED <<FILES, finished>>, Uploading(s), Uploading(s)'
        PROVE  RowAt(s)' /\ RowStep(s)
    BY <2>0, <2>3 DEF RowAt, RowStep, Admitted, Uploading
  <2>4. CASE ReceiveStep(s)
    BY <1>0, <2>3, <2>4, LockTypes
     DEF ReceiveStep, RecvBody, RecvFileEnd, Goto, serverVars, Uploading
  <2>5. CASE StoreStep(s)
    <3>1. UNCHANGED <<FILES, finished>>
      BY <2>5 DEF StoreStep
    <3>2. spc[s] \in {"store", "entry"} /\ spc'[s] \in {"store", "entry"}
      BY <1>0, <2>5, LockTypes DEF StoreStep, FlushContainer, StoreChunk, TakeDuplicate,
                                   FlushRecipe, WriteEntry, AtChunk, HasChunk, Goto
    <3> QED
      BY <2>3, <3>1, <3>2 DEF Uploading
  <2>6. CASE QueryStep(s)
    BY <1>0, <2>3, <2>6, LockTypes
       DEF QueryStep, BeginQuery, QueryChunk, SendReply, Goto, serverVars, Uploading
  <2>7. CASE (InsertLastContainer(s) \/ InsertLastRecipe(s)) /\ UNCHANGED serverVars
    BY <1>0, <2>3, <2>7, LockTypes
       DEF InsertLastContainer, InsertLastRecipe, Goto, serverVars, Uploading
  <2>8. CASE Join(s) /\ UNCHANGED serverVars
    <3>1. /\ recipeWriter[s] = "exit" /\ finished' = finished \cup {s} /\ spc[s] = "join"
          /\ spc'[s] = "order" /\ FILES' = FILES
      BY <1>0, <2>8, LockTypes DEF Join, Goto, serverVars
    <3>2. cpc[s] = "quit_rep" /\ RecipeName(key[s]) \in DOMAIN recipes
      BY <1>0, <3>1, ServerPhase DEF Ending, RecipeAt, Stray
    <3>3. key[s] \in FILES
      BY <3>1 DEF RowAt, Admitted, Uploading
    <3>4. RowAt(s)'
      BY <1>0, <2>0, <3>1, <3>2, <3>3 DEF RowAt, RecipeName
    <3> QED
      BY <2>0, <3>1, <3>4 DEF RowStep, Uploading
  <2> QED
    BY <1>3, <2>1, <2>2, <2>4, <2>5, <2>6, <2>7, <2>8 DEF UploadStep, AdmitStep, FinishStep
<1> QED
  BY <1>1, <1>2, <1>3 DEF HandlerStep

(* Nothing happens to the row and the recipe's name of t, and no recipe    *)
(* disappears.                                                             *)
LEMMA RowKept ==
  ASSUME NEW t, RowAt(t), key'[t] = key[t], spc'[t] = spc[t], cpc'[t] = cpc[t],
         FILES \subseteq FILES', DOMAIN recipes \subseteq DOMAIN recipes',
         t \in finished' <=> t \in finished
  PROVE  RowAt(t)'
  BY DEF RowAt, Admitted, Uploading, RecipeName

(* The client of a session whose upload has finished waits for QUITREP.    *)
LEMMA ClientRow ==
  ASSUME TypeOK, NEW s \in Sessions, ClientSide(s), LockAt(s), RowAt(s)
  PROVE  RowAt(s)' /\ RowStep(s) /\ recipes' = recipes
<1>1. UNCHANGED <<spc, key, FILES, finished, recipes>>
  BY DEF ClientSide, connVars, serverVars, uploadVars, writerVars
<1>2. ASSUME s \in finished, spc[s] = "order" PROVE FALSE
  <2>1. cpc[s] = "quit_rep"
    BY <1>2 DEF RowAt
  <2>2. Close(s)
    BY <2>1
       DEF ClientSide, ClientStep, Connect, UploadDuplicate, UploadUnique, UploadBatch,
           DownloadRefused, DownloadGranted, DownloadBody, DownloadEnd
  <2>3. Ending(s)
    BY <2>1, <2>2, ClientPhase DEF Close
  <2>4. toClient[s] = << >>
    BY <1>2, <2>1, <2>3 DEF Ending, Told
  <2> QED
    BY <2>2, <2>4 DEF Close, Arrived
<1>3. RowAt(s)'
  BY <1>1, <1>2 DEF RowAt, Admitted, Uploading, RecipeName
<1>4. RowStep(s)
  BY <1>1 DEF RowStep, Uploading
<1> QED
  BY <1>1, <1>3, <1>4

(* Only the recipe of an upload that is going on is written.               *)
LEMMA RecipeWriterRow ==
  ASSUME TypeInv, NEW s \in Sessions, RecipeWriterStep(s)
  PROVE  /\ RowStep(s) /\ UNCHANGED <<spc, key, FILES, finished>> /\ Uploading(s)
         /\ DOMAIN recipes \subseteq DOMAIN recipes'
         /\ \A n \in DOMAIN recipes : n # RecipeName(key[s]) => recipes'[n] = recipes[n]
<1>1. UNCHANGED <<spc, key, FILES, finished>>
  BY DEF RecipeWriterStep, serverVars
<1>2. RowStep(s)
  BY <1>1 DEF RowStep, Uploading
<1>3. Uploading(s)
  <2>1. RecipeAt(s)
    BY DEF TypeInv, RecipeInv
  <2> QED
    BY <2>1 DEF RecipeAt, RecipeWriterStep, OpenRecipe, PopRecipe, WriteRecipe, EndRecipeWriter
<1>4. recipes' = recipes \/ \E r : PutRecipe(RecipeName(key[s]), r)
  BY DEF RecipeWriterStep, OpenRecipe, PopRecipe, WriteRecipe, EndRecipeWriter
<1> QED
  BY <1>1, <1>2, <1>3, <1>4 DEF PutRecipe

LEMMA SystemRow ==
  ASSUME FaultInv, RowInv, NEW s \in Sessions, SystemStep(s)
  PROVE  /\ RowInv' /\ RowStep(s) /\ job' = job
         /\ \A t \in Sessions \ {s} : key'[t] = key[t] /\ spc'[t] = spc[t]
         /\ \A n \in DOMAIN recipes :
              recipes'[n] = recipes[n] \/ (Uploading(s) /\ n = RecipeName(key[s]))
<1>0. /\ TypeInv /\ TypeOK /\ (LockAt(s) \/ Stray(s)) /\ RowAt(s)
      /\ job' = job /\ finished \subseteq Sessions
  <2>1. TypeInv /\ TypeOK /\ (LockAt(s) \/ Stray(s)) /\ RowAt(s)
    BY DeadStops DEF FaultInv, TypeInv, TalkInv, RowInv
  <2>2. job' = job
    BY SystemStepOfOne DEF ClientSide
  <2> QED
    BY <2>1, <2>2, ViewTypes
<1>1. /\ RowAt(s)' /\ RowStep(s) /\ DOMAIN recipes \subseteq DOMAIN recipes'
      /\ \A n \in DOMAIN recipes :
           recipes'[n] = recipes[n] \/ (Uploading(s) /\ n = RecipeName(key[s]))
  <2>1. CASE s \notin gone /\ ClientSide(s)
    BY <1>0, <2>1, ClientRow DEF Stray
  <2>2. CASE HandlerStep(s) /\ UNCHANGED <<job, clientVars, after>>
    <3>1. cpc' = cpc /\ recipes' = recipes
      BY <2>2 DEF clientVars, HandlerStep, writerVars
    <3> QED
      BY <1>0, <2>2, <3>1, HandlerRow
  <2>3. CASE DataWriterStep(s) /\ UNCHANGED <<job, clientVars, after>>
    <3>1. UNCHANGED <<spc, key, FILES, finished, recipes, cpc>>
      BY <2>3 DEF DataWriterStep, serverVars, clientVars
    <3>2. RowStep(s)
      BY <3>1 DEF RowStep, Uploading
    <3> QED
      BY <1>0, <3>1, <3>2, RowKept
  <2>4. CASE RecipeWriterStep(s) /\ UNCHANGED <<job, clientVars, after>>
    <3>1. cpc' = cpc
      BY <2>4 DEF clientVars
    <3> QED
      BY <1>0, <2>4, <3>1, RecipeWriterRow, RowKept
  <2> QED
    BY <2>1, <2>2, <2>3, <2>4, SystemStepOfOne
<1>2. ASSUME NEW t \in Sessions \ {s}
      PROVE  key'[t] = key[t] /\ spc'[t] = spc[t] /\ RowAt(t)'
  <2>1. key'[t] = key[t] /\ spc'[t] = spc[t] /\ cpc'[t] = cpc[t]
    BY <1>0, SystemOthers DEF TalkView
  <2>2. t \in finished' <=> t \in finished
    BY <1>1 DEF RowStep
  <2> QED
    BY <1>1, <2>1, <2>2, RowKept DEF RowInv, RowStep
<1> QED
  BY <1>0, <1>1, <1>2 DEF RowInv

LEMMA CrashRow ==
  ASSUME FaultInv, RowInv, Crash
  PROVE  RowInv'
<1> SUFFICES ASSUME NEW s \in Sessions PROVE RowAt(s)'
  BY DEF RowInv
<1>1. UNCHANGED <<key, FILES, finished, cpc>> /\ DOMAIN recipes' = DOMAIN recipes /\ RowAt(s)
  BY CrashDisk DEF Crash, Restart, clientVars, FaultInv, TypeInv, RowInv
<1>2. CASE s \in Connected
  <2>1. spc'[s] = "closed"
    BY <1>2, CrashConnected
  <2> QED
    BY <1>1, <2>1 DEF RowAt, Admitted, Uploading, RecipeName
<1>3. CASE s \notin Connected
  <2>1. spc'[s] = spc[s]
    BY <1>3, CrashOthers DEF TalkView
  <2> QED
    BY <1>1, <2>1, RowKept
<1> QED
  BY <1>2, <1>3

LEMMA QuietRow ==
  ASSUME RowInv, UNCHANGED <<spc, key, cpc, FILES, finished, recipes>>
  PROVE  RowInv'
  BY RowKept DEF RowInv

LEMMA StaleRow ==
  ASSUME FaultInv, RowInv, NEW s \in Sessions, StaleStep(s)
  PROVE  /\ RowInv' /\ Uploading(s) /\ Uploading(s)'
         /\ UNCHANGED <<job, key, FILES, finished, recipes, containers>>
         /\ \A t \in Sessions \ {s} : spc'[t] = spc[t]
<1>0. TypeInv /\ HistoryInv /\ TalkInv
  BY DEF FaultInv
<1>1. /\ UNCHANGED <<job, key, cpc, FILES, finished, recipes, containers>>
      /\ spc[s] \in {"body", "store"} /\ spc'[s] \in {"store", "entry"}
      /\ \A t \in Sessions \ {s} : TalkView(t)' = TalkView(t)
  BY <1>0, StaleFrame DEF clientVars, writerVars
<1>2. Uploading(s) /\ Uploading(s)'
  BY <1>1 DEF Uploading
<1>3. \A t \in Sessions \ {s} : spc'[t] = spc[t]
  BY <1>1 DEF TalkView
<1>4. RowAt(s)'
  BY <1>1, <1>2 DEF RowInv, RowAt, Admitted
<1>5. ASSUME NEW t \in Sessions \ {s} PROVE RowAt(t)'
  BY <1>1, <1>3, RowKept DEF RowInv
<1> QED
  BY <1>1, <1>2, <1>3, <1>4, <1>5 DEF RowInv

LEMMA InitRow == RecoveryInit => RowInv
<1> SUFFICES ASSUME RecoveryInit, NEW s \in Sessions PROVE RowAt(s)
  BY DEF RowInv
<1>1. spc[s] = "accepted" /\ finished = {}
  BY DEF RecoveryInit, Init, ConnInit
<1> QED
  BY <1>1 DEF RowAt, Admitted, Uploading

(* What the faults that end no handler leave alone.                        *)
LEMMA QuietFaults ==
  ASSUME FaultInv, (\E s \in Sessions : Die(s) \/ SaveFails(s)) \/ AllGone \/ UNCHANGED allVars
  PROVE  UNCHANGED <<job, spc, key, cpc, FILES, finished, recipes, containers>>
<1>1. ASSUME UNCHANGED vars
      PROVE  UNCHANGED <<job, spc, key, cpc, FILES, finished, recipes, containers>>
  BY <1>1 DEF vars, clientVars, serverVars, connVars, uploadVars, writerVars
<1>2. ASSUME NEW s \in Sessions, SaveFails(s)
      PROVE  UNCHANGED <<job, spc, key, cpc, FILES, finished, recipes, containers>>
  BY <1>2 DEF SaveFails, clientVars, serverVars, uploadVars
<1> QED
  BY <1>1, <1>2 DEF Die, AllGone, allVars

LEMMA NextRow ==
  ASSUME FaultInv, RowInv, [RecoveryNext]_allVars
  PROVE  RowInv'
  BY SystemRow, CrashRow, StaleRow, QuietFaults, QuietRow DEF RecoveryNext, StaleStep

LEMMA RowInvariant == RecoverySpec => []RowInv
  BY InitRow, NextRow, FaultInvariant, PTL DEF RecoverySpec

----------------------------------------------------------------------------
(* A file that can be read back.                                           *)

(* Whoever has passed isFileUnique does not share its recipe's name with a *)
(* file that was uploaded under another row: the name is hashed from       *)
(* client_id and fileName run together, so that this is a matter of the    *)
(* names that clients choose (run collide).                                *)
KeysApart ==
  \A u \in Sessions, t \in finished :
    spc[u] = "add_file" /\ RecipeName(key[u]) = RecipeName(key[t]) => key[u] = key[t]

LEMMA SettledKept ==
  ASSUME NEW t \in Sessions, Settled(t), t \in finished', key'[t] = key[t], job' = job,
         containers \subseteq containers', NEW n, n = RecipeName(key[t]),
         recipes'[n].entries = recipes[n].entries,
         \A u \in Sessions \ {t} :
           (spc'[u] = "add_file" \/ Uploading(u)') => RecipeName(key'[u]) # n
  PROVE  Settled(t)'
<1>1. RecipeName(key[t])' = n
  BY DEF RecipeName
<1>2. \A a, c : OnDisk(a, c) => OnDisk(a, c)'
  BY DEF OnDisk, Holds
<1>3. /\ Len(recipes[n].entries) = Len(job[t].file)
      /\ \A k \in DOMAIN recipes[n].entries : OnDisk(recipes[n].entries[k], job[t].file[k])
  BY DEF Settled, Readable
<1>4. Readable(t)'
  BY <1>1, <1>2, <1>3 DEF Readable
<1>5. \A u \in Sessions : RecipeName(key[u])' = RecipeName(key'[u])
  BY DEF RecipeName
<1> QED
  BY <1>1, <1>4, <1>5 DEF Settled

LEMMA SystemSettled ==
  ASSUME FaultInv, RowInv, KeysApart', NEW s \in Sessions, SystemStep(s),
         NEW t \in Sessions, Settled(t)
  PROVE  Settled(t)'
<1>n. PICK n : n = RecipeName(key[t])
  OBVIOUS
<1>1. t \in finished /\ RowAt(t) /\ containers \subseteq containers'
  BY SystemFault DEF Settled, Readable, RowInv
<1>2. /\ RowStep(s) /\ job' = job
      /\ \A u \in Sessions \ {s} : key'[u] = key[u] /\ spc'[u] = spc[u]
      /\ \A m \in DOMAIN recipes :
           recipes'[m] = recipes[m] \/ (Uploading(s) /\ m = RecipeName(key[s]))
  BY SystemRow
<1>3. t \in finished' /\ key'[t] = key[t]
  BY <1>1, <1>2 DEF RowStep
<1>4. ~ Uploading(t) /\ n \in DOMAIN recipes /\ key[t] \in FILES
  BY <1>1, <1>n DEF RowAt, Uploading, Admitted
<1>5. recipes'[n] = recipes[n]
  BY <1>2, <1>4, <1>n DEF Settled
<1>6. ASSUME NEW u \in Sessions \ {t}, spc'[u] = "add_file" \/ Uploading(u)',
             RecipeName(key'[u]) = n
      PROVE  FALSE
  <2>1. CASE u # s
    BY <1>2, <1>6, <1>n, <2>1 DEF Settled, Uploading
  <2>2. CASE u = s
    <3>1. key'[s] = key[s]
      BY <1>2, <1>6, <2>2 DEF RowStep
    <3>2. spc[s] # "add_file" /\ ~ Uploading(s)
      BY <1>6, <1>n, <2>2, <3>1 DEF Settled
    <3>3. spc'[s] = "add_file" /\ key[s] \notin FILES
      BY <1>2, <1>6, <2>2, <3>2 DEF RowStep
    <3>4. key[s] = key[t]
      BY <1>3, <1>6, <1>n, <2>2, <3>1, <3>3 DEF KeysApart, RecipeName
    <3> QED
      BY <1>4, <3>3, <3>4
  <2> QED
    BY <2>1, <2>2
<1> QED
  BY <1>1, <1>2, <1>3, <1>5, <1>6, <1>n, SettledKept

LEMMA WholeSeq ==
  ASSUME NEW T, NEW e \in Seq(T)
  PROVE  SubSeq(e, 1, Len(e)) = e
<1>1. /\ Len(e) \in Nat /\ Len(SubSeq(e, 1, Len(e))) = Len(e)
      /\ \A i \in 1 .. Len(e) : SubSeq(e, 1, Len(e))[i] = e[i]
      /\ SubSeq(e, 1, Len(e)) \in Seq(T)
  OBVIOUS
<1> QED
  BY <1>1

LEMMA CrashSettled ==
  ASSUME FaultInv, RowInv, Crash, NEW t \in Sessions, Settled(t)
  PROVE  Settled(t)'
<1>n. PICK n : n = RecipeName(key[t])
  OBVIOUS
<1>0. /\ TypeOK /\ RecipeInv /\ UNCHANGED <<job, key, finished>>
      /\ t \in finished /\ RowAt(t) /\ containers \subseteq containers'
  BY CrashFault DEF FaultInv, TypeInv, Crash, Settled, Readable, RowInv
<1>1. ~ Uploading(t) /\ n \in DOMAIN recipes
  BY <1>0, <1>n DEF RowAt, Uploading
<1>2. ~ BeingWritten(n)
  <2> SUFFICES ASSUME NEW u \in Sessions, recipeWriter[u] = "run", RecipeName(key[u]) = n
               PROVE  FALSE
    BY DEF BeingWritten
  <2>1. Uploading(u)
    BY <1>0 DEF RecipeInv, RecipeAt
  <2> QED
    BY <1>1, <1>n, <2>1 DEF Settled
<1>3. PICK cut \in Cuts :
        recipes' = [m \in DOMAIN recipes |->
                      [recipes[m] EXCEPT !.entries = SubSeq(recipes[m].entries, 1, cut[m])]]
  BY DEF Crash
<1>4. cut[n] = Len(recipes[n].entries)
  BY <1>1, <1>2 DEF Cuts
<1>5. recipes[n] \in Recipe /\ recipes[n].entries \in Seq(Addr \cup {NoAddr})
  BY <1>0, <1>1, CutTyped DEF Recipe, Entries
<1>6. recipes'[n].entries = recipes[n].entries
  <2>1. recipes'[n] = [recipes[n] EXCEPT !.entries = SubSeq(recipes[n].entries, 1, cut[n])]
    BY <1>1, <1>3
  <2>2. recipes'[n].entries = SubSeq(recipes[n].entries, 1, cut[n])
    BY <1>5, <2>1 DEF Recipe
  <2> QED
    BY <1>4, <1>5, <2>2, WholeSeq
<1>7. ASSUME NEW u \in Sessions \ {t}, spc'[u] = "add_file" \/ Uploading(u)'
      PROVE  RecipeName(key'[u]) # n
  <2>1. spc'[u] = spc[u]
    <3>1. CASE u \in Connected
      BY <1>7, <3>1, CrashConnected DEF Uploading
    <3>2. CASE u \notin Connected
      BY <3>2, CrashOthers DEF TalkView
    <3> QED
      BY <3>1, <3>2
  <2> QED
    BY <1>0, <1>7, <1>n, <2>1 DEF Settled, Uploading
<1> QED
  BY <1>0, <1>6, <1>7, <1>n, SettledKept

LEMMA NextSettled ==
  ASSUME FaultInv, RowInv, KeysApart', [RecoveryNext]_allVars, NEW t \in Sessions, Settled(t)
  PROVE  Settled(t)'
<1>1. ASSUME UNCHANGED <<job, key, finished, recipes, containers>>,
             \A u \in Sessions :
               spc'[u] = "add_file" \/ Uploading(u)' => spc[u] = "add_file" \/ Uploading(u)
      PROVE  Settled(t)'
  <2>1. \A u \in Sessions : RecipeName(key'[u]) = RecipeName(key[u])
    BY <1>1
  <2>2. Readable(t)'
    BY <1>1 DEF Settled, Readable, OnDisk
  <2> QED
    BY <1>1, <2>1, <2>2 DEF Settled
<1>2. CASE \E s \in Sessions : SystemStep(s)
  BY <1>2, SystemSettled
<1>3. CASE Crash
  BY <1>3, CrashSettled
<1>4. CASE (\E s \in Sessions : Die(s) \/ SaveFails(s)) \/ AllGone \/ UNCHANGED allVars
  BY <1>1, <1>4, QuietFaults DEF Uploading
<1>5. ASSUME NEW s \in Sessions, StaleStep(s) PROVE Settled(t)'
  BY <1>1, <1>5, StaleRow DEF Uploading
<1> QED
  BY <1>2, <1>3, <1>4, <1>5 DEF RecoveryNext, StaleStep

(* A file that can be read back can be read back for ever, whatever        *)
(* faults and restarts follow: receive_file has written its recipe to the  *)
(* end, its containers are never touched again, and its row makes          *)
(* isFileUnique refuse any other upload of the name.                       *)
THEOREM ReadableIsForEver == RecoverySpec /\ []KeysApart => ReadableForEver
<1>1. FaultInv /\ RowInv /\ KeysApart' /\ [RecoveryNext]_allVars
        => [\A t \in Sessions : Settled(t) => Settled(t)']_allVars
  BY NextSettled
<1> QED
  BY <1>1, FaultInvariant, RowInvariant, PTL DEF RecoverySpec, ReadableForEver

----------------------------------------------------------------------------
(* What faults have taken.                                                 *)

(* The containers that were not completely written, whatever is in them.   *)
LostFiles == {f \in Container : f.id \in lost}

(* Their ids are not used again, and what a crash has left of a container  *)
(* is all there will be.                                                   *)
LossInv ==
  /\ lost \subseteq ContainerId /\ DiskUnique
  /\ \A f \in containers : f.id \in lost => Dead(f.id[1])
  /\ \A s \in Sessions : Ascending(s, LostFiles, saving[s], containerQueue[s], Bound(s))

(* The chunk p[1] will never be on disk in slot p[3] of container p[2].    *)
Missing(p) ==
  /\ p[2] \in lost /\ p[3] # 0
  /\ \A f \in containers : f.id = p[2] => p[3] \notin DOMAIN f.data

(* Or bytes of an old message have been stored there in its stead.         *)
Misfiled(p) == <<p[1], [id |-> p[2], slot |-> p[3]]>> \in stray

Excused == {p \in Bytes \X ContainerId \X Nat : Missing(p) \/ Misfiled(p)}

LEMMA LostOrNot ==
  ASSUME TypeOK, LossInv
  PROVE  \A s \in Sessions : saving[s] # None => saving[s].id \notin lost
<1>2. ASSUME NEW s \in Sessions, saving[s] # None, saving[s].id \in lost PROVE FALSE
  <2>1. saving[s] \in Container
    BY <1>2, ViewTypes
  <2>2. saving[s] \in LostFiles /\ saving[s].id[2] \in Nat
    BY <1>2, <2>1, ContainerNumber DEF LostFiles
  <2>3. saving[s].id[1] = s /\ saving[s].id[2] < saving[s].id[2]
    BY <1>2, <2>2 DEF LossInv, Ascending
  <2> QED
    BY <2>2, <2>3
<1> QED
  BY <1>2

(* It is in one place, and comes to disk unchanged.                        *)
LEMMA InOnePlace ==
  ASSUME FaultInv, LossInv, NEW s \in Sessions, NEW f \in InMemory(s), f.data # << >>
  PROVE  /\ f \in Container /\ f.id[1] = s /\ ~ Dead(s)
         /\ \A g \in containers : g.id = f.id => f = g
         /\ saving[s] # None /\ saving[s].id = f.id => f = saving[s]
<1>0. TypeOK /\ IdInv /\ (StoreAt(s) \/ LostAt(s) \/ Dead(s))
  BY DEF FaultInv, TypeInv, HeldInv
<1>1. ~ Dead(s)
  BY NoneEmpty DEF Dead, InMemory
<1>2. /\ container[s] \in Container /\ containerQueue[s] \in Seq(Container)
      /\ saving[s] \in Container \cup {None}
  BY <1>0, ViewTypes
<1>3. /\ container[s].id[1] = s
      /\ Ascending(s, containers, saving[s], containerQueue[s], Bound(s))
      /\ Ascending(s, LostFiles, saving[s], containerQueue[s], Bound(s))
  BY <1>0 DEF IdInv, IdAt, LossInv
<1>4. f \in Container /\ f.id[1] = s
  BY <1>0, MemoryOwn
<1>5. ASSUME NEW g \in containers, g.id = f.id PROVE f = g
  <2>1. f = container[s] => StoreAt(s)
    <3>1. f.id \notin lost
      BY <1>1, <1>4, <1>5 DEF LossInv
    <3> QED
      BY <1>0, <1>1, <3>1 DEF LostAt
  <2>2. f \in containers
    BY <1>0, <1>5, <2>1, MemoryAlone
  <2> QED
    BY <1>5, <2>2 DEF LossInv, DiskUnique
<1>6. ASSUME saving[s] # None, saving[s].id = f.id PROVE f = saving[s]
  <2>0. saving[s] \in Container /\ saving[s].id[2] \in Nat /\ container[s].id[2] \in Nat
    BY <1>2, <1>6, ContainerNumber
  <2>1. ASSUME f \in ToSet(containerQueue[s]) PROVE FALSE
    <3>1. PICK i \in DOMAIN containerQueue[s] : f = containerQueue[s][i]
      BY <2>1 DEF ToSet
    <3>2. saving[s].id[2] < saving[s].id[2]
      BY <1>3, <1>6, <3>1 DEF Ascending
    <3> QED
      BY <2>0, <3>2
  <2>2. ASSUME f = container[s], f # saving[s] PROVE FALSE
    <3>1. spc[s] \in {"last_recipe", "join", "closed"}
      <4> SUFFICES ASSUME spc[s] \notin {"last_recipe", "join", "closed"} PROVE FALSE
        OBVIOUS
      <4>1. Bound(s) = saving[s].id[2]
        BY <1>6, <2>0, <2>2 DEF Bound
      <4>2. saving[s].id[2] < saving[s].id[2]
        BY <1>3, <1>6, <4>1 DEF Ascending
      <4> QED
        BY <2>0, <4>2
    <3>2. StoreAt(s)
      BY <1>0, <1>1, <1>6, <2>2, LostOrNot DEF LostAt
    <3>3. f \in containers
      BY <2>1, <2>2, <3>1, <3>2 DEF StoreAt, Uploading
    <3>4. saving[s].id[2] < saving[s].id[2]
      BY <1>3, <1>4, <1>6, <3>3 DEF Ascending
    <3> QED
      BY <2>0, <3>4
  <2> QED
    BY <2>1, <2>2 DEF InMemory
<1> QED
  BY <1>1, <1>4, <1>5, <1>6

LEMMA ResolvesTyped ==
  ASSUME FaultInv, NEW a, NEW c, Resolves(a, c)
  PROVE  <<c, a.id, a.slot>> \in Bytes \X ContainerId \X Nat /\ a.slot # 0
<1>0. TypeOK /\ IdInv /\ containers \subseteq Container
  BY ViewTypes DEF FaultInv, TypeInv
<1>1. PICK f \in Container : Holds(f, a, c)
  BY <1>0, MemoryOwn DEF Resolves, OnDisk
<1>2. f.data \in Seq(Bytes) /\ f.id \in ContainerId
  BY DEF Container
<1>3. c \in Bytes /\ a.slot \in Nat /\ a.id \in ContainerId
  BY <1>1, <1>2 DEF Holds
<1> QED
  BY <1>0, <1>3, ResolvedSlot

(* Every address that names a chunk goes on naming it, or is excused.      *)
KnownStays == \A a, c : Resolves(a, c) => Found(Excused, a, c)'

(* A container that is read has the chunk, or has nothing in its slot.     *)
LEMMA ExcusedFetch ==
  ASSUME FaultInv, LossInv, NEW L, L = Excused', containers \subseteq containers',
         NEW f, Untouched(f)', Len(f) \in Nat, DOMAIN f = 1 .. Len(f)
  PROVE  FetchesRight(L, f)
<1> SUFFICES ASSUME NEW a \in Addr, NEW k \in 1 .. Len(f), Found(L, a, f[k]), NEW held
             PROVE  Fetch(a, held) = <<f[k]>> \/ NotThere(a, held)
  BY DEF FetchesRight
<1>c. PICK c : c = f[k]
  OBVIOUS
<1>1. CASE Resolves(a, c)
  <2>1. a.slot # 0
    BY <1>1, ResolvesTyped
  <2>2. ASSUME NEW g \in containers, g.id = a.id, a.slot \in DOMAIN g.data
        PROVE  g.data[a.slot] = c
    <3>1. CASE OnDisk(a, c)
      BY <2>2, <3>1 DEF OnDisk, Holds, LossInv, DiskUnique
    <3>2. ASSUME NEW t \in Sessions, NEW h \in InMemory(t), Holds(h, a, c)
          PROVE  g.data[a.slot] = c
      <4>1. h.data # << >> /\ g.id = h.id
        BY <2>2, <3>2 DEF Holds
      <4>2. h = g
        BY <4>1, InOnePlace
      <4> QED
        BY <3>2, <4>2 DEF Holds
    <3> QED
      BY <1>1, <3>1, <3>2 DEF Resolves
  <2> QED
    BY <1>c, <2>1, <2>2, FetchUnique
<1>2. CASE <<c, a.id, a.slot>> \in Excused'
  <2>1. ~ Misfiled(<<c, a.id, a.slot>>)'
    BY <1>c DEF Misfiled, Untouched
  <2>2. a.slot # 0 /\ \A g \in containers' : g.id = a.id => a.slot \notin DOMAIN g.data
    BY <1>2, <2>1 DEF Excused, Missing
  <2> QED
    BY <1>c, <2>2, FetchUnique
<1> QED
  BY <1>1, <1>2, <1>c DEF Found

LEMMA SystemDisk ==
  ASSUME TypeInv, IdInv, NEW s \in Sessions, SystemStep(s)
  PROVE  \A f \in containers' : f \in containers \/ (saving[s] # None /\ f = saving[s])
<1>1. CASE DataWriterStep(s)
  BY <1>1 DEF DataWriterStep, PopContainer, SaveContainer, EndDataWriter
<1>2. CASE ClientSide(s) \/ HandlerStep(s) \/ RecipeWriterStep(s)
  BY <1>2 DEF ClientSide, connVars, writerVars, HandlerStep, RecipeWriterStep
<1> QED
  BY <1>1, <1>2, SystemStepOfOne

(* The ids in D have been used: no step of s uses one of them again.       *)
LEMMA SystemAscending ==
  ASSUME TypeInv, TypeInv', IdInv, NEW s \in Sessions, SystemStep(s), NEW D \in SUBSET Container,
         Ascending(s, D, saving[s], containerQueue[s], Bound(s))
  PROVE  Ascending(s, D, saving'[s], containerQueue'[s], Bound(s)')
<1>0. /\ container[s] \in Container /\ containerQueue[s] \in Seq(Container)
      /\ saving[s] \in Container \cup {None} /\ Bound(s) \in Nat /\ Bound(s)' \in Nat
      /\ container[s].id[1] = s
  <2>1. container'[s] \in Container
    BY DEF TypeInv, TypeOK, ConnTypeOK
  <2>2. Bound(s)' \in Nat
    BY <2>1, ContainerNumber DEF Bound
  <2> QED
    BY <2>2, IdTypes, BoundNat DEF IdInv, IdAt
<1>1. CASE HandlerStep(s)
  <2>1. saving' = saving /\ (MoveStep(s) \/ PushStep(s))
    BY <1>1, HandlerMoves
  <2>2. CASE MoveStep(s)
    <3>1. Bound(s) <= Bound(s)' /\ containerQueue' = containerQueue
      BY <1>0, <2>2 DEF MoveStep
    <3> QED
      BY <1>0, <2>1, <3>1, AscendingUp
  <2>3. CASE PushStep(s)
    <3>1. containerQueue'[s] = Append(containerQueue[s], container[s])
      BY <2>3, IdTypes DEF PushStep, insert_container_queue
    <3>2. Bound(s) = container[s].id[2] /\ Bound(s)' = container[s].id[2] + 1
      BY <2>3 DEF PushStep
    <3> QED
      BY <1>0, <2>1, <3>1, <3>2, AscendingPush
  <2> QED
    BY <2>1, <2>2, <2>3
<1>2. CASE DataWriterStep(s)
  <2>1. Bound(s)' = Bound(s)
    BY <1>2 DEF DataWriterStep, Bound
  <2>2. CASE PopContainer(s)
    <3>1. /\ saving[s] = None /\ containerQueue[s] # << >>
          /\ saving'[s] = Head(containerQueue[s]) /\ containerQueue'[s] = Tail(containerQueue[s])
      BY <2>2, IdTypes DEF PopContainer
    <3> QED
      BY <1>0, <2>1, <3>1, AscendingPop
  <2>3. CASE SaveContainer(s)
    <3>1. saving'[s] = None /\ containerQueue' = containerQueue
      BY <2>3, IdTypes DEF SaveContainer
    <3> QED
      BY <2>1, <3>1 DEF Ascending
  <2>4. CASE EndDataWriter(s)
    BY <2>1, <2>4 DEF EndDataWriter
  <2> QED
    BY <1>2, <2>2, <2>3, <2>4 DEF DataWriterStep
<1>3. CASE ClientSide(s) \/ RecipeWriterStep(s)
  BY <1>3 DEF ClientSide, connVars, uploadVars, queueVars, writerVars, RecipeWriterStep, Bound
<1> QED
  BY <1>1, <1>2, <1>3, SystemStepOfOne

LEMMA SystemLoss ==
  ASSUME FaultInv, FaultInv', LossInv, NEW s \in Sessions, SystemStep(s)
  PROVE  LossInv'
<1>0. /\ TypeInv /\ TypeInv' /\ TypeOK /\ IdInv /\ UNCHANGED <<gone, lost>>
      /\ LostFiles' = LostFiles /\ LostFiles \subseteq Container /\ ~ Dead(s) /\ [Next]_vars
  BY SystemStepOfOne, DeadStops DEF FaultInv, TypeInv, faultVars, LostFiles
<1>1. DiskUnique'
  BY <1>0, NextUnique DEF LossInv
<1>2. ASSUME NEW f \in containers', f.id \in lost' PROVE Dead(f.id[1])'
  <2>1. Dead(f.id[1]) /\ f.id[1] \in Sessions \ {s}
    BY <1>0, <1>2, SystemDisk, LostOrNot, ViewTypes, ContainerNumber DEF LossInv
  <2> QED
    BY <1>0, <2>1, SystemOthers, DeadKept
<1>3. ASSUME NEW t \in Sessions
      PROVE  Ascending(t, LostFiles, saving'[t], containerQueue'[t], Bound(t)')
  <2>1. CASE t = s
    BY <1>0, <2>1, SystemAscending DEF LossInv
  <2>2. CASE t # s
    <3>1. TalkView(t)' = TalkView(t) /\ StoreView(t)' = StoreView(t)
      BY <1>0, <2>2, SystemOthers
    <3>2. /\ saving'[t] = saving[t] /\ containerQueue'[t] = containerQueue[t]
          /\ spc'[t] = spc[t] /\ container'[t] = container[t]
      BY <3>1 DEF TalkView, StoreView
    <3> QED
      BY <3>2 DEF LossInv, Bound
  <2> QED
    BY <2>1, <2>2
<1> QED
  BY <1>0, <1>1, <1>2, <1>3 DEF LossInv

LEMMA ExcusedGrows ==
  ASSUME stray \subseteq stray', lost \subseteq lost',
         \A f \in containers' : f \in containers \/ f.id \notin lost
  PROVE  Excused \subseteq Excused'
<1> SUFFICES ASSUME NEW p \in Excused PROVE p \in Excused'
  OBVIOUS
<1>1. p \in Bytes \X ContainerId \X Nat /\ (Missing(p) \/ Misfiled(p))
  BY DEF Excused
<1>2. Missing(p) => Missing(p)'
  BY DEF Missing
<1>3. Misfiled(p) => Misfiled(p)'
  BY DEF Misfiled
<1> QED
  BY <1>1, <1>2, <1>3 DEF Excused

(* A step of the system takes nothing away.                                *)
LEMMA SystemKnown ==
  ASSUME FaultInv, LossInv, NEW s \in Sessions, SystemStep(s)
  PROVE  KnownStays /\ Excused \subseteq Excused' /\ containers \subseteq containers'
<1>0. /\ TypeInv /\ TypeInv' /\ TypeOK /\ IdInv /\ HeldInv /\ lost' = lost
      /\ stray \subseteq stray'
  BY SystemStepOfOne, SystemFault DEF FaultInv, TypeInv, faultVars
<1>1. NamedOrLost /\ containers \subseteq containers'
  BY <1>0, SystemHeld
<1>2. \A f \in containers' : f \in containers \/ f.id \notin lost
  BY <1>0, SystemDisk, LostOrNot
<1>3. ASSUME NEW a, NEW c, Resolves(a, c), ~ Resolves(a, c)' PROVE <<c, a.id, a.slot>> \in Excused'
  <2>1. a.id \in lost' /\ ~ OnDisk(a, c)
    BY <1>1, <1>3 DEF NamedOrLost, Resolves, OnDisk, Holds
  <2>2. PICK t \in Sessions : \E f \in InMemory(t) : Holds(f, a, c)
    BY <1>3, <2>1 DEF Resolves
  <2>f. PICK f \in InMemory(t) : Holds(f, a, c)
    BY <2>2
  <2>3. f.data # << >> /\ f.id = a.id
    BY <2>f DEF Holds
  <2>4. f.id[1] = t /\ ~ Dead(t)
    BY <2>3, InOnePlace
  <2>5. \A g \in containers' : g.id # a.id
    BY <1>0, <1>2, <2>1, <2>3, <2>4 DEF LossInv
  <2>6. <<c, a.id, a.slot>> \in Bytes \X ContainerId \X Nat /\ a.slot # 0
    BY <1>3, ResolvesTyped
  <2> QED
    BY <2>1, <2>5, <2>6 DEF Excused, Missing
<1> QED
  BY <1>0, <1>1, <1>2, <1>3, ExcusedGrows DEF KnownStays, Found

(* A container cannot be written: its chunks are excused.                  *)
LEMMA SaveFailsLoss ==
  ASSUME FaultInv, LossInv, NEW s \in Sessions, SaveFails(s)
  PROVE  LossInv' /\ KnownStays /\ Excused \subseteq Excused'
<1>0. /\ TypeOK /\ IdInv
      /\ UNCHANGED <<spc, cpc, container, containerQueue, dataWriter, recipeWriter, containers>>
      /\ UNCHANGED <<gone, stray>>
      /\ saving[s] # None /\ saving'[s] = None /\ lost' = lost \cup {saving[s].id}
      /\ \A t \in Sessions \ {s} : saving'[t] = saving[t]
  BY ViewTypes DEF FaultInv, TypeInv, SaveFails, clientVars, uploadVars, queueVars, threadVars
<1>1. /\ saving[s] \in Container /\ saving[s].id[1] = s
      /\ Ascending(s, containers, saving[s], containerQueue[s], Bound(s))
      /\ Ascending(s, LostFiles, saving[s], containerQueue[s], Bound(s))
      /\ saving[s].id \in ContainerId
  BY <1>0, ViewTypes, ContainerNumber DEF IdInv, IdAt, Ascending, LossInv, ContainerId
<1>2. \A f \in containers : f.id # saving[s].id
  <2>1. containers \in SUBSET Container
    BY <1>0, ViewTypes
  <2> QED
    BY <1>1, <2>1, AscendingSave
<1>3. ASSUME NEW t \in Sessions
      PROVE  Ascending(t, LostFiles', saving'[t], containerQueue'[t], Bound(t)')
  <2>0. Bound(t)' = Bound(t)
    BY <1>0 DEF Bound
  <2>1. \A f \in LostFiles' : f \in LostFiles \/ f.id = saving[s].id
    BY <1>0 DEF LostFiles
  <2>2. CASE t = s
    BY <1>0, <1>1, <2>0, <2>1, <2>2 DEF Ascending
  <2>3. CASE t # s
    <3>1. \A f \in LostFiles' : f.id[1] = t => f \in LostFiles
      BY <1>1, <2>1, <2>3
    <3>2. Ascending(t, LostFiles, saving[t], containerQueue[t], Bound(t))
      BY DEF LossInv
    <3>3. Ascending(t, LostFiles', saving[t], containerQueue[t], Bound(t))
      BY <3>1, <3>2 DEF Ascending
    <3> QED
      BY <1>0, <2>0, <2>3, <3>3
  <2> QED
    BY <2>2, <2>3
<1>4. ASSUME NEW f \in containers', f.id \in lost' PROVE Dead(f.id[1])'
  <2>1. f \in containers /\ f.id \in lost /\ f.id[1] \in Sessions
    BY <1>0, <1>2, <1>4, ViewTypes, ContainerNumber
  <2>2. Dead(f.id[1])
    BY <2>1 DEF LossInv
  <2>3. \A t \in Sessions : saving[t] = None => saving'[t] = None
    BY <1>0
  <2> QED
    BY <1>0, <2>1, <2>2, <2>3 DEF Dead
<1>5. LossInv'
  BY <1>0, <1>1, <1>3, <1>4 DEF LossInv, DiskUnique
<1>6. Excused \subseteq Excused'
  BY <1>0, ExcusedGrows
<1>7. ASSUME NEW a, NEW c, Resolves(a, c) PROVE Found(Excused, a, c)'
  <2>1. CASE OnDisk(a, c)
    BY <1>0, <2>1 DEF OnDisk, Holds, Found, Resolves
  <2>2. ASSUME NEW t \in Sessions, NEW f \in InMemory(t), Holds(f, a, c)
        PROVE  Found(Excused, a, c)'
    <3>1. CASE f \in InMemory(t)'
      BY <2>2, <3>1 DEF Holds, Found, Resolves
    <3>2. CASE f \notin InMemory(t)'
      <4>1. t = s /\ f = saving[s]
        BY <1>0, <3>2 DEF InMemory
      <4>2. /\ a.id = saving[s].id /\ a.slot # 0
            /\ <<c, a.id, a.slot>> \in Bytes \X ContainerId \X Nat
        BY <1>7, <2>2, <4>1, ResolvesTyped DEF Holds
      <4>3. <<c, a.id, a.slot>> \in Excused'
        BY <1>0, <1>2, <4>2 DEF Excused, Missing
      <4> QED
        BY <4>3 DEF Found
    <3> QED
      BY <3>1, <3>2
  <2> QED
    BY <1>7, <2>1, <2>2 DEF Resolves
<1> QED
  BY <1>5, <1>6, <1>7 DEF KnownStays

(* The server process ends: what was in its memory is excused, unless the  *)
(* disk has it.                                                            *)
LEMMA CrashUnique ==
  ASSUME FaultInv, LossInv, Crash
  PROVE  DiskUnique'
<1>0. TypeOK /\ IdInv /\ containers \subseteq Container
  BY ViewTypes DEF FaultInv, TypeInv
<1>1. PICK t \in TornContainers : containers' = containers \cup UNION {t[s] : s \in Sessions}
  BY DEF Crash, FilesAfter
<1>2. ASSUME NEW u \in Sessions, NEW g \in t[u]
      PROVE  g.id[1] = u /\ (\A f \in containers : f.id # g.id) /\ \A f \in t[u] : f = g
  <2>1. saving[u] # None /\ g.id = saving[u].id /\ \A f \in t[u] : f = g
    BY <1>0, TornParts
  <2>2. saving[u] \in Container /\ Ascending(u, containers, saving[u], containerQueue[u], Bound(u))
    BY <1>0, <2>1, ViewTypes DEF IdInv, IdAt
  <2>3. \A f \in containers : f.id # saving[u].id
    BY <1>0, <2>2, AscendingSave
  <2> QED
    BY <2>1, <2>2, <2>3 DEF Ascending
<1>3. ASSUME NEW f \in containers', NEW g \in containers', f.id = g.id PROVE f = g
  <2>1. CASE f \in containers /\ g \in containers
    BY <1>3, <2>1 DEF LossInv, DiskUnique
  <2>2. CASE f \notin containers /\ g \notin containers
    <3>1. PICK u \in Sessions, v \in Sessions : f \in t[u] /\ g \in t[v]
      BY <1>1, <2>2
    <3> QED
      BY <1>2, <1>3, <3>1
  <2> QED
    BY <1>1, <1>2, <1>3, <2>1, <2>2
<1> QED
  BY <1>3 DEF DiskUnique

(* What is lost with the server was in the memory of a connected session.  *)
LEMMA CrashLost ==
  ASSUME FaultInv, LossInv, Crash
  PROVE  /\ lost \subseteq lost' /\ lost' \subseteq ContainerId
         /\ \A i \in lost' \ lost : /\ i[1] \in Connected /\ i[2] \in Nat
                                    /\ i[2] < container[i[1]].id[2] + 1
         /\ \A s \in Connected : \A f \in InMemory(s) : f \in containers' \/ f.id \in lost'
<1>0. TypeOK /\ IdInv /\ Connected \subseteq Sessions
  BY DEF FaultInv, TypeInv, Connected
<1>1. lost' = lost \cup UNION {{f.id : f \in InMemory(s) \ containers'} : s \in Connected}
  BY DEF Crash
<1>2. ASSUME NEW i \in lost' \ lost
      PROVE  /\ i \in ContainerId /\ i[1] \in Connected /\ i[2] \in Nat
             /\ i[2] < container[i[1]].id[2] + 1
  <2>1. PICK s \in Connected : \E f \in InMemory(s) : i = f.id
    BY <1>1, <1>2
  <2> QED
    BY <1>0, <2>1, MemoryOwn
<1>3. ASSUME NEW s \in Connected, NEW f \in InMemory(s), f \notin containers'
      PROVE  f.id \in lost'
  BY <1>1, <1>3
<1> QED
  BY <1>1, <1>2, <1>3 DEF LossInv

LEMMA CrashLoss ==
  ASSUME FaultInv, LossInv, Crash
  PROVE  LossInv' /\ KnownStays /\ Excused \subseteq Excused'
<1>0. /\ TypeOK /\ TypeInv /\ IdInv /\ TalkInv /\ HeldInv /\ cpc' = cpc /\ stray' = stray
      /\ gone \subseteq gone'
      /\ containers \subseteq containers' /\ containers' \subseteq Container
  BY CrashDisk DEF FaultInv, TypeInv, Crash, clientVars
<1>1. ASSUME NEW g \in containers' \ containers
      PROVE  \E u \in Sessions : /\ saving[u] # None /\ g.id = saving[u].id /\ Extends(g, saving[u])
                                 /\ g.id[1] = u /\ g.id \notin lost
  <2>1. PICK u \in Sessions : saving[u] # None /\ g.id = saving[u].id /\ Extends(g, saving[u])
    BY <1>0, CrashDisk
  <2>2. saving[u].id[1] = u /\ saving[u].id \notin lost
    BY <1>0, <2>1, LostOrNot DEF IdInv, IdAt, Ascending
  <2> QED
    BY <2>1, <2>2
<1>2. ASSUME NEW f \in containers', f.id \in lost' PROVE Dead(f.id[1])'
  <2>0. f.id[1] \in Sessions
    BY <1>0, ContainerNumber
  <2>1. CASE f.id[1] \in Connected
    BY <1>0, <2>1, CrashDead
  <2>2. CASE f.id[1] \notin Connected
    <3>1. f.id \in lost /\ f \in containers
      BY <1>1, <1>2, <2>2, CrashLost
    <3>2. Dead(f.id[1])
      BY <3>1 DEF LossInv
    <3> QED
      BY <1>0, <2>0, <2>2, <3>2, CrashOthers, DeadKept
  <2> QED
    BY <2>1, <2>2
<1>3. ASSUME NEW s \in Sessions
      PROVE  Ascending(s, LostFiles', saving'[s], containerQueue'[s], Bound(s)')
  <2>0. Ascending(s, LostFiles, saving[s], containerQueue[s], Bound(s))
    BY DEF LossInv
  <2>1. CASE s \in Connected
    <3>1. /\ container'[s] = [container[s] EXCEPT !.data = << >>] /\ containerQueue'[s] = << >>
          /\ saving'[s] = None /\ spc'[s] = "closed"
      BY <2>1, CrashConnected
    <3>2. container'[s].id = container[s].id
      BY <1>0, <3>1, ViewTypes DEF Container
    <3>3. container[s].id[2] \in Nat /\ Bound(s) \in Nat
      BY <1>0, BoundNat
    <3>4. Bound(s)' = container[s].id[2] + 1 /\ Bound(s) <= Bound(s)'
      BY <3>1, <3>2, <3>3 DEF Bound
    <3>5. ASSUME NEW f \in LostFiles', f.id[1] = s PROVE f.id[2] < Bound(s)'
      <4>0. f \in Container /\ f.id[2] \in Nat
        BY ContainerNumber DEF LostFiles
      <4>1. CASE f.id \in lost
        <5>1. f.id[2] < Bound(s)
          BY <2>0, <3>5, <4>0, <4>1 DEF Ascending, LostFiles
        <5> QED
          BY <3>3, <3>4, <4>0, <5>1
      <4>2. CASE f.id \notin lost
        BY <3>4, <3>5, <4>2, CrashLost DEF LostFiles
      <4> QED
        BY <4>1, <4>2
    <3> QED
      BY <3>1, <3>5 DEF Ascending
  <2>2. CASE s \notin Connected
    <3>1. TalkView(s)' = TalkView(s) /\ StoreView(s)' = StoreView(s)
      BY <2>2, CrashOthers
    <3>2. /\ container'[s] = container[s] /\ containerQueue'[s] = containerQueue[s]
          /\ saving'[s] = saving[s] /\ spc'[s] = spc[s]
      BY <3>1 DEF TalkView, StoreView
    <3>3. \A f \in LostFiles' : f.id[1] = s => f \in LostFiles
      BY <2>2, CrashLost DEF LostFiles
    <3>4. Bound(s)' = Bound(s)
      BY <3>2 DEF Bound
    <3> QED
      BY <2>0, <3>2, <3>3, <3>4 DEF Ascending
  <2> QED
    BY <2>1, <2>2
<1>5. LossInv'
  BY <1>2, <1>3, CrashUnique, CrashLost DEF LossInv
<1>6. Excused \subseteq Excused'
  BY <1>0, <1>1, CrashLost, ExcusedGrows
<1>7. ASSUME NEW a, NEW c, Resolves(a, c) PROVE Found(Excused, a, c)'
  <2>1. CASE OnDisk(a, c)
    BY <1>0, <2>1 DEF OnDisk, Holds, Found, Resolves
  <2>2. ASSUME NEW t \in Sessions, NEW f \in InMemory(t), Holds(f, a, c)
        PROVE  Found(Excused, a, c)'
    <3>1. /\ f.data # << >> /\ a.id = f.id /\ a.slot # 0
          /\ <<c, a.id, a.slot>> \in Bytes \X ContainerId \X Nat
      BY <1>7, <2>2, ResolvesTyped DEF Holds
    <3>2. /\ f.id[1] = t /\ \A g \in containers : g.id = f.id => f = g
          /\ saving[t] # None /\ saving[t].id = f.id => f = saving[t]
      BY <3>1, InOnePlace
    <3>3. t \in Connected
      <4> SUFFICES ASSUME t \notin Connected PROVE FALSE
        OBVIOUS
      <4>1. saving[t] = None /\ containerQueue[t] = << >> /\ container[t].data = << >>
        BY <1>0, NotConnected
      <4> QED
        BY <3>1, <4>1, NoneEmpty DEF InMemory
    <3>4. ASSUME NEW g \in containers', g.id = a.id, a.slot \in DOMAIN g.data
          PROVE  Holds(g, a, c)
      <4>1. CASE g \in containers
        BY <2>2, <3>1, <3>2, <3>4, <4>1
      <4>2. CASE g \notin containers
        <5>1. saving[t] # None /\ g.id = saving[t].id /\ Extends(g, saving[t])
          BY <1>1, <3>1, <3>2, <3>4, <4>2
        <5>2. f = saving[t]
          BY <3>1, <3>2, <3>4, <5>1
        <5> QED
          BY <2>2, <3>4, <5>1, <5>2 DEF Extends, Holds
      <4> QED
        BY <4>1, <4>2
    <3>5. CASE \E g \in containers' : g.id = a.id /\ a.slot \in DOMAIN g.data
      <4>1. OnDisk(a, c)'
        BY <3>4, <3>5 DEF OnDisk, Holds
      <4> QED
        BY <4>1 DEF Found, Resolves
    <3>6. CASE ~ \E g \in containers' : g.id = a.id /\ a.slot \in DOMAIN g.data
      <4>1. f.id \in lost'
        <5>1. f \notin containers'
          BY <2>2, <3>1, <3>6 DEF Holds
        <5> QED
          BY <3>3, <5>1, CrashLost
      <4>2. <<c, a.id, a.slot>> \in Excused'
        BY <3>1, <3>6, <4>1 DEF Excused, Missing
      <4> QED
        BY <4>2 DEF Found
    <3> QED
      BY <3>5, <3>6
  <2> QED
    BY <1>7, <2>1, <2>2 DEF Resolves
<1> QED
  BY <1>5, <1>6, <1>7 DEF KnownStays

----------------------------------------------------------------------------
(* What sessions are doing, but for what is in L: those that are neither   *)
(* dead nor stray go on as if there were no faults.  A stray session never *)
(* finishes.                                                               *)
LiveAt(L, s) == SliceAt(s) /\ DupAt(L, s) /\ EntryAt(L, s) /\ PendOk(L, s) /\ StartAt(s)

WorkAt(L, s) ==
  /\ (stale[s] = 0 /\ LiveAt(L, s)) \/ Dead(s) \/ Stray(s)
  /\ s \in finished => stale[s] = 0

WorkInv(L) == \A s \in Sessions : WorkAt(L, s)

(* A recipe has been opened by a session that was admitted, which is still *)
(* writing it, has finished it or has died.                                *)
AdmitInv ==
  /\ admitted \subseteq Sessions
  /\ \A t \in Sessions : Admitted(t) => t \in admitted
  /\ \A t \in admitted : Admitted(t) \/ Dead(t)
  /\ \A t \in finished : total[t] = Len(job[t].file)
  /\ \A n \in DOMAIN recipes : \E t \in AdmittedTo(n) : recipeWriter[t] # "open"

(* What has been written is in the file, also if the writer has died, but  *)
(* not if it is stray.                                                     *)
FileAt(L, t) ==
  (AdmittedTo(RecipeName(key[t])) \subseteq {t} /\ stale[t] = 0) =>
    /\ DiskAt(L, t)
    /\ (t \in admitted /\ ~ Admitted(t) /\ RecipeName(key[t]) \in DOMAIN recipes)
         => Named(L, recipes[RecipeName(key[t])].entries, 0, job[t].file)

(* What d has downloaded is of the file of the only session that was       *)
(* admitted to the recipe, if nothing stray is in it.                      *)
FetchedAt(L, d, t) ==
  (AdmittedTo(RecipeName(key[d])) \subseteq {t} /\ stale[t] = 0 /\ Untouched(job[t].file)) =>
    ReadAt(L, d, job[t].file)

DataInv(L) ==
  /\ WorkInv(L) /\ AdmitInv /\ IndexAt(L)
  /\ \A t \in Sessions : FileAt(L, t)
  /\ \A d, t \in Sessions : FetchedAt(L, d, t)

LEMMA Weaker ==
  ASSUME NEW L, NEW M, L \subseteq M, DataInv(L)
  PROVE  DataInv(M)
<1>1. \A a, c : Found(L, a, c) => Found(M, a, c)
  BY DEF Found
<1>2. \A b, n, f : Named(L, b, n, f) => Named(M, b, n, f)
  BY <1>1 DEF Named
<1>3. ASSUME NEW s \in Sessions, LiveAt(L, s) PROVE LiveAt(M, s)
  <2>1. DupAt(M, s) /\ EntryAt(M, s)
    BY <1>1, <1>3 DEF LiveAt, DupAt, EntryAt
  <2>2. PendOk(M, s)
    BY <1>2, <1>3 DEF LiveAt, PendOk, PendAt, Chain
  <2> QED
    BY <1>3, <2>1, <2>2 DEF LiveAt
<1>4. ASSUME NEW t \in Sessions, FileAt(L, t) PROVE FileAt(M, t)
  BY <1>2, <1>4 DEF FileAt, DiskAt
<1>5. ASSUME NEW d \in Sessions, NEW t \in Sessions, FetchedAt(L, d, t) PROVE FetchedAt(M, d, t)
  BY <1>2, <1>5 DEF FetchedAt, ReadAt, ChunkAt
<1>6. IndexAt(L) => IndexAt(M)
  BY <1>1 DEF IndexAt
<1> QED
  BY <1>3, <1>4, <1>5, <1>6 DEF DataInv, WorkInv, WorkAt

(* What has been shown of what will be excused.                            *)
LEMMA ExcusedData ==
  ASSUME NEW L, L = Excused', DataInv(L)'
  PROVE  DataInv(Excused)'
<1>1. ASSUME NEW s \in Sessions, LiveAt(L, s)' PROVE LiveAt(Excused, s)'
  <2>1. DupAt(Excused, s)' /\ EntryAt(Excused, s)'
    BY <1>1 DEF LiveAt, DupAt, EntryAt, Found
  <2>2. PendOk(Excused, s)'
    BY <1>1 DEF LiveAt, PendOk, PendAt, Chain, Named, Found
  <2> QED
    BY <1>1, <2>1, <2>2 DEF LiveAt
<1>2. ASSUME NEW t \in Sessions, FileAt(L, t)' PROVE FileAt(Excused, t)'
  BY <1>2 DEF FileAt, DiskAt, Named, Found
<1>3. ASSUME NEW d \in Sessions, NEW t \in Sessions, FetchedAt(L, d, t)'
      PROVE  FetchedAt(Excused, d, t)'
  BY <1>3 DEF FetchedAt, ReadAt, ChunkAt, Named, Found
<1>4. IndexAt(L)' => IndexAt(Excused)'
  BY DEF IndexAt, Found
<1> QED
  BY <1>1, <1>2, <1>3, <1>4 DEF DataInv, WorkInv, WorkAt

----------------------------------------------------------------------------
(* A step of the system.                                                   *)

(* A stray session receives, stores and queries, and nothing else.         *)
LEMMA StrayStep ==
  ASSUME FaultInv, NEW s \in Sessions, SystemStep(s), Stray(s)
  PROVE  /\ UNCHANGED <<job, key, finished, stale>> /\ Uploading(s) /\ Uploading(s)' /\ Stray(s)'
         /\ spc[s] # "add_file" /\ (recipeWriter[s] # "open" => recipeWriter'[s] # "open")
         /\ DOMAIN recipes' \subseteq DOMAIN recipes \cup {RecipeName(key[s])}
         /\ RecipeWriterStep(s) \/ recipes' = recipes
<1>0. /\ TypeOK /\ RecipeAt(s) /\ Stray(s)' /\ Uploading(s) /\ Uploading(s)' /\ stale' = stale
      /\ spc[s] # "add_file" /\ s \in gone
      /\ HandlerStep(s) => UploadStep(s) /\ (StoreStep(s) \/ QueryStep(s))
  BY StrayMoves, SystemStepOfOne DEF FaultInv, TypeInv, RecipeInv, Stray, Uploading, faultVars
<1>1. CASE HandlerStep(s) /\ UNCHANGED <<job, clientVars, after>>
  <2>1. key' = key /\ recipes' = recipes
    BY <1>0, <1>1 DEF UploadStep, HandlerStep, writerVars
  <2>2. UNCHANGED <<finished, recipeWriter>>
    BY <1>0, <1>1 DEF StoreStep, QueryStep, threadVars
  <2> QED
    BY <1>0, <1>1, <2>1, <2>2
<1>2. CASE DataWriterStep(s) /\ UNCHANGED <<job, clientVars, after>>
  BY <1>0, <1>2 DEF DataWriterStep
<1>3. CASE RecipeWriterStep(s) /\ UNCHANGED <<job, clientVars, after>>
  <2>1. UNCHANGED <<key, finished>>
    BY <1>3 DEF RecipeWriterStep
  <2>2. recipeWriter'[s] # "open"
    BY <1>0, <1>3, ViewTypes DEF RecipeWriterStep, OpenRecipe, PopRecipe, WriteRecipe,
                                 EndRecipeWriter, RecipeAt
  <2>3. DOMAIN recipes' \subseteq DOMAIN recipes \cup {RecipeName(key[s])}
    BY <1>3 DEF RecipeWriterStep, OpenRecipe, PopRecipe, WriteRecipe, EndRecipeWriter, PutRecipe
  <2> QED
    BY <1>0, <1>3, <2>1, <2>2, <2>3
<1> QED
  BY <1>0, <1>1, <1>2, <1>3, SystemStepOfOne

(* What the session that takes a step is known to be.                      *)
LEMMA SystemLive ==
  ASSUME FaultInv, NEW L, WorkInv(L), NEW s \in Sessions, SystemStep(s)
  PROVE  /\ TypeInv /\ TypeInv' /\ TypeOK /\ UNCHANGED <<gone, stale>> /\ StepOf(s)
         /\ ~ Dead(s) /\ (done[s] => spc[s] = "join")
         /\ \/ stale[s] = 0 /\ LockAt(s) /\ LiveAt(L, s) /\ WriterAt(s)
            \/ stale[s] # 0 /\ Stray(s) /\ s \notin finished
<1>1. TypeInv /\ TypeInv' /\ TypeOK /\ UNCHANGED <<gone, stale>> /\ ~ Dead(s)
  BY SystemStepOfOne, SystemFault, DeadStops DEF FaultInv, TypeInv, faultVars
<1>2. StepOf(s)
  BY SystemStepOfOne DEF StepOf
<1>3. WorkAt(L, s) /\ (LockAt(s) \/ Stray(s)) /\ stale[s] \in Nat
  BY <1>1 DEF FaultInv, TalkInv, WorkInv, HistoryInv
<1>4. Stray(s) => stale[s] # 0
  BY <1>3 DEF Stray
<1>5. LiveAt(L, s) => WriterAt(s)
  BY DEF LiveAt, PendOk
<1>6. done[s] => spc[s] = "join"
  BY <1>1 DEF FaultInv, HeldInv, StoreAt, LostAt
<1> QED
  BY <1>1, <1>2, <1>3, <1>4, <1>5, <1>6 DEF WorkAt

(* What its step leaves to the others.                                     *)
LEMMA SystemAside ==
  ASSUME FaultInv, NEW L, WorkInv(L), NEW s \in Sessions, SystemStep(s)
  PROVE  /\ job' = job /\ MadeStep /\ \A u \in Sessions : StaysAdmitted(u)
         /\ \A t \in Sessions \ {s} : /\ TalkView(t)' = TalkView(t)
                                      /\ StoreView(t)' = StoreView(t)
                                      /\ t \in finished' <=> t \in finished
<1>0. TypeInv /\ TypeOK /\ StepOf(s) /\ RecipeAt(s)
  BY SystemLive DEF TypeInv, RecipeInv
<1>1. CASE LockAt(s) /\ WriterAt(s)
  BY <1>0, <1>1, StepAside, StepMade DEF StepOf
<1>2. CASE Stray(s)
  <2>1. \A t \in Sessions \ {s} : TalkView(t)' = TalkView(t) /\ StoreView(t)' = StoreView(t)
    BY <1>0, SystemOthers
  <2>2. /\ UNCHANGED <<job, key, finished>> /\ Uploading(s) /\ Uploading(s)'
        /\ recipeWriter[s] # "open" => recipeWriter'[s] # "open"
        /\ DOMAIN recipes' \subseteq DOMAIN recipes \cup {RecipeName(key[s])}
        /\ RecipeWriterStep(s) \/ recipes' = recipes
    BY <1>2, StrayStep
  <2>3. ASSUME NEW t \in Sessions
        PROVE  (Uploading(t)' <=> Uploading(t)) /\ (Maker(t) => Maker(t)')
    <3>1. CASE t = s
      BY <2>2, <3>1 DEF Maker, Admitted
    <3>2. CASE t # s
      <4>1. spc'[t] = spc[t] /\ recipeWriter'[t] = recipeWriter[t]
        BY <2>1, <3>2 DEF TalkView, StoreView
      <4> QED
        BY <2>2, <4>1 DEF Maker, Admitted, Uploading
    <3> QED
      BY <3>1, <3>2
  <2>4. \A u \in Sessions : StaysAdmitted(u)
    BY <2>2, <2>3 DEF StaysAdmitted, Admitted
  <2>5. MadeStep
    <3>1. ASSUME RecipeWriterStep(s) PROVE Maker(s)' /\ RecipeName(key[s])' = RecipeName(key[s])
      <4>1. recipeWriter'[s] # "open"
        BY <1>0, <3>1, ViewTypes DEF RecipeWriterStep, OpenRecipe, PopRecipe, WriteRecipe,
                                     EndRecipeWriter, RecipeAt
      <4> QED
        BY <2>2, <4>1 DEF Maker, Admitted, RecipeName
    <3> QED
      BY <2>2, <2>3, <3>1 DEF MadeStep
  <2> QED
    BY <2>1, <2>2, <2>4, <2>5
<1> QED
  BY <1>1, <1>2, SystemLive

LEMMA SystemAddress ==
  ASSUME FaultInv, NEW L, AddressesKept(L), IndexAt(L), WorkInv(L),
         NEW s \in Sessions, SystemStep(s), LockAt(s), LiveAt(L, s)
  PROVE  IndexAt(L)' /\ DupAt(L, s)' /\ EntryAt(L, s)'
<1>0. TypeInv /\ TypeInv' /\ TypeOK /\ DupAt(L, s) /\ EntryAt(L, s)
  BY SystemLive DEF LiveAt
<1>i. m_all_chunks' = m_all_chunks => IndexAt(L)'
  BY DEF IndexAt, AddressesKept
<1>1. CASE ClientSide(s)
  <2>1. UNCHANGED <<m_all_chunks, spc, flags, idx, hashList, dup, chunkAddr>>
    BY <1>1 DEF ClientSide, serverVars, connVars, uploadVars
  <2>2. DupAt(L, s)'
    BY <1>0, <2>1, OpenSame, DupSame
  <2> QED
    BY <1>0, <1>i, <2>1, <2>2 DEF EntryAt, AddressesKept
<1>2. CASE HandlerStep(s)
  BY <1>0, <1>2, HandlerAddress
<1>3. CASE (DataWriterStep(s) \/ RecipeWriterStep(s)) /\ UNCHANGED <<job, clientVars>>
  <2>1. m_all_chunks' = m_all_chunks
    BY <1>3 DEF DataWriterStep, RecipeWriterStep, serverVars
  <2> QED
    BY <1>0, <1>3, <1>i, <2>1, WriterOthers, AddressKept
<1> QED
  BY <1>1, <1>2, <1>3, SystemStepOfOne

(* What a stray session enters in the index is excused.                    *)
LEMMA StrayIndex ==
  ASSUME FaultInv, NEW L, L = Excused', AddressesKept(L), IndexAt(L),
         NEW s \in Sessions, SystemStep(s), Stray(s)
  PROVE  IndexAt(L)'
<1>0. TypeOK /\ HistoryInv' /\ stale[s] > 0
  BY SystemFault DEF FaultInv, TypeInv, Stray
<1>1. ASSUME m_all_chunks' = m_all_chunks PROVE IndexAt(L)'
  BY <1>1 DEF IndexAt, AddressesKept
<1>2. CASE HandlerStep(s) /\ StoreChunk(s)
  <2>c. PICK c, a : c = hashList[s][idx[s]] /\ a = chunkAddr'[s]
    OBVIOUS
  <2>1. /\ c \in Chunks /\ <<c, a>> \in stray' /\ addChunk(c, a) /\ a \in Addr
        /\ a = [id |-> container[s].id, slot |-> Len(container[s].data) + 1]
    BY <1>0, <1>2, <2>c, StrayStored DEF StoreChunk, HistoryInv
  <2>2. a = [id |-> a.id, slot |-> a.slot] /\ a.id \in ContainerId /\ a.slot \in Nat
    BY <2>1 DEF Addr
  <2>3. <<c, a.id, a.slot>> \in Excused'
    BY <2>1, <2>2 DEF Excused, Misfiled, Bytes
  <2>4. ASSUME NEW b \in Chunks, m_all_chunks'[b] # NoAddr PROVE Found(L, m_all_chunks[b], b)'
    <3>1. CASE b = c /\ m_all_chunks'[b] = a
      BY <2>3, <3>1 DEF Found
    <3>2. CASE m_all_chunks'[b] = m_all_chunks[b]
      BY <2>4, <3>2 DEF IndexAt, AddressesKept
    <3> QED
      BY <1>0, <2>1, <3>1, <3>2, ViewTypes DEF addChunk
  <2> QED
    BY <2>4 DEF IndexAt
<1>3. CASE HandlerStep(s) /\ ~ StoreChunk(s)
  BY <1>0, <1>1, <1>3, HandlerNew
<1>4. CASE ClientSide(s) \/ DataWriterStep(s) \/ RecipeWriterStep(s)
  BY <1>1, <1>4 DEF ClientSide, DataWriterStep, RecipeWriterStep, serverVars
<1> QED
  BY <1>2, <1>3, <1>4, SystemStepOfOne

LEMMA SystemWork ==
  ASSUME FaultInv, NEW L, L = Excused', AddressesKept(L), IndexAt(L), WorkInv(L),
         NEW s \in Sessions, SystemStep(s)
  PROVE  WorkInv(L)' /\ IndexAt(L)'
<1>0. /\ TypeInv /\ TypeOK /\ UNCHANGED <<gone, stale>> /\ StepOf(s)
      /\ (done[s] => spc[s] = "join")
      /\ \/ stale[s] = 0 /\ LockAt(s) /\ LiveAt(L, s) /\ WriterAt(s)
         \/ stale[s] # 0 /\ Stray(s) /\ s \notin finished
  BY SystemLive
<1>1. ASSUME LockAt(s), LiveAt(L, s), WriterAt(s) PROVE LiveAt(L, s)' /\ IndexAt(L)'
  <2>1. SliceAt(s)' /\ PendOk(L, s)'
    BY <1>0, <1>1, StepPend DEF LiveAt
  <2>2. StartAt(s)'
    BY <1>0, <1>1, StepStart DEF LiveAt
  <2> QED
    BY <1>1, <2>1, <2>2, SystemAddress DEF LiveAt
<1>2. ASSUME Stray(s) PROVE Stray(s)' /\ IndexAt(L)' /\ finished' = finished
  BY <1>2, StrayStep, StrayIndex
<1>3. WorkAt(L, s)' /\ IndexAt(L)'
  BY <1>0, <1>1, <1>2 DEF WorkAt
<1>4. ASSUME NEW t \in Sessions \ {s} PROVE WorkAt(L, t)'
  <2>1. TalkView(t)' = TalkView(t) /\ StoreView(t)' = StoreView(t)
    BY <1>0, SystemOthers
  <2>2. t \in finished' <=> t \in finished
    BY SystemAside
  <2>3. Dead(t) => Dead(t)'
    BY <1>0, <2>1, DeadKept
  <2>4. ASSUME LiveAt(L, t) PROVE LiveAt(L, t)'
    BY <1>0, <2>1, <2>2, <2>4, AddressKept, AsidePend, AsideStart DEF LiveAt
  <2>5. Stray(t) => Stray(t)'
    BY <1>0, <2>1, StrayKept
  <2> QED
    BY <1>0, <2>2, <2>3, <2>4, <2>5 DEF WorkInv, WorkAt
<1> QED
  BY <1>3, <1>4 DEF WorkInv

(* A session that begins to upload has added its row.                      *)
LEMMA AddedRow ==
  ASSUME TypeOK, NEW s \in Sessions, StepOf(s), spc[s] = "add_file", Uploading(s)'
  PROVE  spc'[s] = "body"
<1>1. CASE ClientSide(s) \/ DataWriterStep(s) \/ RecipeWriterStep(s)
  <2>1. spc' = spc
    BY <1>1 DEF ClientSide, connVars, DataWriterStep, RecipeWriterStep
  <2> QED
    BY <2>1 DEF Uploading
<1>2. CASE HandlerStep(s)
  <2>1. UploadStep(s)
    BY <1>2, RunMoves, DownloadMoves DEF HandlerStep
  <2>2. AddFile(s)
    BY <2>1 DEF UploadStep, AdmitStep, CheckUnique, AddFile, ReceiveStep, RecvBody, RecvFileEnd,
                StoreStep, FlushContainer, StoreChunk, TakeDuplicate, FlushRecipe, WriteEntry,
                AtChunk, HasChunk, QueryStep, BeginQuery, QueryChunk, SendReply, FinishStep,
                InsertLastContainer, InsertLastRecipe, Join
  <2> QED
    BY <2>2, LockTypes DEF AddFile, Goto
<1> QED
  BY <1>1, <1>2 DEF StepOf

(* Whoever was admitted stays so, under the same name.                     *)
StillAdmitted ==
  /\ \A t \in admitted : t \in admitted' /\ key'[t] = key[t]
  /\ \A t \in admitted' \ admitted : Admitted(t)'

LEMMA AdmittedBefore ==
  ASSUME StillAdmitted, NEW n, NEW m, AdmittedTo(n)' \subseteq m
  PROVE  AdmittedTo(n) \subseteq m
<1> SUFFICES ASSUME NEW t \in AdmittedTo(n) PROVE t \in AdmittedTo(n)'
  OBVIOUS
<1>1. t \in admitted /\ RecipeName(key[t]) = n
  BY DEF AdmittedTo
<1>2. t \in admitted' /\ RecipeName(key[t])' = n
  BY <1>1 DEF StillAdmitted, RecipeName
<1> QED
  BY <1>2 DEF AdmittedTo

(* What a step of s does to the sessions that were admitted.               *)
LEMMA SystemAdmits ==
  ASSUME FaultInv, RowInv, NEW L, AddressesKept(L), WorkInv(L), AdmitInv,
         NEW s \in Sessions, SystemStep(s)
  PROVE  /\ StillAdmitted /\ admitted' \subseteq Sessions
         /\ \A t \in Sessions : Admitted(t)' => t \in admitted'
         /\ \A t \in admitted' : Admitted(t)' \/ (Dead(t)' /\ Dead(t) /\ ~ Admitted(t) /\ t # s)
<1>0. /\ TypeInv /\ TypeOK /\ gone' = gone /\ StepOf(s) /\ ~ Dead(s)
      /\ admitted' = admitted \cup {t \in {s} : spc[t] = "add_file" /\ spc'[t] = "body"}
      /\ RowStep(s)
  BY SystemLive, SystemRow DEF SystemStep
<1>1. WriterAt(s)' \/ (Stray(s) /\ Uploading(s))
  BY SystemLive, StepPend, StrayStep DEF LiveAt, PendOk
<1>2. /\ \A u \in Sessions : StaysAdmitted(u)
      /\ \A t \in Sessions \ {s} : /\ TalkView(t)' = TalkView(t) /\ StoreView(t)' = StoreView(t)
                                   /\ t \in finished' <=> t \in finished
  BY SystemAside
<1>3. ASSUME NEW t \in Sessions \ {s}
      PROVE  /\ Admitted(t)' <=> Admitted(t)
             /\ t \in admitted' <=> t \in admitted
             /\ key'[t] = key[t] /\ (Dead(t) => Dead(t)')
  <2>1. spc'[t] = spc[t] /\ key'[t] = key[t]
    BY <1>2 DEF TalkView
  <2>2. Dead(t) => Dead(t)'
    BY <1>0, <1>2, DeadKept
  <2> QED
    BY <1>0, <1>2, <2>1, <2>2 DEF Admitted, Uploading
<1>4. Admitted(s)' => s \in admitted'
  <2> SUFFICES ASSUME Admitted(s)', ~ Admitted(s) PROVE s \in admitted'
    BY <1>0 DEF AdmitInv
  <2>1. recipeWriter'[s] = "open"
    BY <1>2 DEF StaysAdmitted
  <2>2. Uploading(s)' /\ ~ Uploading(s)
    BY <1>1, <2>1 DEF WriterAt, Admitted
  <2>3. spc[s] = "add_file"
    BY <1>0, <2>2 DEF RowStep, Uploading
  <2>4. spc'[s] = "body"
    BY <1>0, <2>2, <2>3, AddedRow
  <2> QED
    BY <1>0, <2>3, <2>4
<1>5. s \in admitted' => Admitted(s)'
  <2>1. CASE s \in admitted
    BY <1>0, <1>2, <2>1 DEF AdmitInv, StaysAdmitted
  <2>2. CASE s \in admitted' \ admitted
    BY <1>0, <2>2 DEF Admitted, Uploading
  <2> QED
    BY <2>1, <2>2
<1>6. s \in admitted => key'[s] = key[s]
  BY <1>0, <1>2 DEF AdmitInv, StaysAdmitted
<1>7. admitted' \subseteq Sessions /\ admitted \subseteq admitted'
  BY <1>0 DEF AdmitInv
<1>8. StillAdmitted
  BY <1>3, <1>5, <1>6, <1>7 DEF StillAdmitted
<1>9. ASSUME NEW t \in admitted', ~ Admitted(t)'
      PROVE  Dead(t)' /\ Dead(t) /\ ~ Admitted(t) /\ t # s
  BY <1>3, <1>5, <1>7, <1>9 DEF AdmitInv
<1> QED
  BY <1>3, <1>4, <1>7, <1>8, <1>9 DEF AdmitInv

LEMMA SystemAdmitted ==
  ASSUME FaultInv, RowInv, NEW L, AddressesKept(L), WorkInv(L), AdmitInv,
         NEW s \in Sessions, SystemStep(s)
  PROVE  AdmitInv'
<1>1. /\ StillAdmitted /\ admitted' \subseteq Sessions
      /\ \A t \in Sessions : Admitted(t)' => t \in admitted'
      /\ \A t \in admitted' : Admitted(t)' \/ (Dead(t)' /\ Dead(t) /\ ~ Admitted(t) /\ t # s)
  BY SystemAdmits
<1>2. WriterAt(s)' \/ s \notin finished'
  BY SystemLive, StepPend, StrayStep DEF LiveAt, PendOk
<1>3. /\ job' = job
      /\ \A t \in Sessions \ {s} : /\ TalkView(t)' = TalkView(t) /\ StoreView(t)' = StoreView(t)
                                   /\ t \in finished' <=> t \in finished
  BY SystemAside
<1>4. ASSUME NEW t \in finished' PROVE total'[t] = Len(job'[t].file)
  <2>1. CASE t = s
    BY <1>2, <1>4, <2>1 DEF WriterAt
  <2>2. CASE t # s
    <3>1. t \in finished'
      BY <1>4
    <3>2. t \in Sessions \ {s}
      <4>1. finished' \subseteq Sessions
        BY SystemLive DEF TypeInv, TypeOK, ConnTypeOK
      <4> QED
        BY <2>2, <3>1, <4>1
    <3>3. total'[t] = total[t] /\ t \in finished
      BY <1>3, <3>1, <3>2 DEF StoreView
    <3> QED
      BY <1>3, <3>3 DEF AdmitInv
  <2> QED
    BY <2>1, <2>2
<1>5. MadeStep
  BY SystemAside
<1>6. ASSUME NEW n \in DOMAIN recipes'
      PROVE  \E t \in AdmittedTo(n)' : recipeWriter'[t] # "open"
  <2>1. CASE n \in DOMAIN recipes
    <3>1. PICK t \in admitted : RecipeName(key[t]) = n /\ recipeWriter[t] # "open"
      BY <2>1 DEF AdmitInv, AdmittedTo
    <3>2. t \in admitted' /\ RecipeName(key[t])' = n
      BY <1>1, <3>1 DEF StillAdmitted, RecipeName
    <3>3. recipeWriter'[t] # "open"
      <4>1. CASE Admitted(t)
        BY <1>1, <1>5, <3>1, <3>2, <4>1 DEF MadeStep, Maker
      <4>2. CASE ~ Admitted(t)
        <5>1. Dead(t) /\ t \in Sessions \ {s}
          BY <4>2, SystemLive DEF AdmitInv
        <5> QED
          BY <1>3, <5>1 DEF Dead, StoreView
      <4> QED
        BY <4>1, <4>2
    <3> QED
      BY <3>2, <3>3 DEF AdmittedTo
  <2>2. CASE n \notin DOMAIN recipes
    <3>1. PICK t \in Sessions : Maker(t)' /\ RecipeName(key[t])' = n
      BY <1>5, <1>6, <2>2 DEF MadeStep
    <3> QED
      BY <1>1, <3>1 DEF Maker, AdmittedTo
  <2> QED
    BY <2>1, <2>2
<1> QED
  BY <1>1, <1>4, <1>6 DEF AdmitInv

LEMMA WritersAdmitted ==
  ASSUME AdmitInv, NEW n
  PROVE  Writers(n) \subseteq AdmittedTo(n)
  BY DEF AdmitInv, Writers, Admitted, AdmittedTo

(* What is in a recipe is of the file of the only session that was         *)
(* admitted to write it.                                                   *)
LEMMA AdmittedFile ==
  ASSUME NEW L, AdmitInv, NEW n \in DOMAIN recipes, NEW t \in Sessions,
         AdmittedTo(n) \subseteq {t}, stale[t] = 0, FileAt(L, t)
  PROVE  /\ RecipeName(key[t]) = n /\ t \in admitted
         /\ Named(L, recipes[n].entries, 0, job[t].file)
<1>1. t \in AdmittedTo(n) /\ recipeWriter[t] # "open"
  BY DEF AdmitInv
<1>2. t \in admitted /\ RecipeName(key[t]) = n
  BY <1>1 DEF AdmittedTo
<1>3. CASE Admitted(t)
  <2>1. Writers(n) = {t}
    BY <1>2, <1>3, WritersAdmitted DEF Writers, Admitted
  <2> QED
    BY <1>1, <1>2, <2>1 DEF FileAt, DiskAt
<1>4. CASE ~ Admitted(t)
  BY <1>2, <1>4 DEF FileAt
<1> QED
  BY <1>2, <1>3, <1>4

LEMMA SystemFile ==
  ASSUME FaultInv, RowInv, NEW L, AddressesKept(L), WorkInv(L), AdmitInv,
         NEW s \in Sessions, SystemStep(s), NEW t \in Sessions, FileAt(L, t)
  PROVE  FileAt(L, t)'
<1>n. PICK n : n = RecipeName(key'[t])
  OBVIOUS
<1>m. RecipeName(key[t])' = n
  BY <1>n DEF RecipeName
<1>s. stale' = stale
  BY SystemLive
<1> SUFFICES ASSUME AdmittedTo(n)' \subseteq {t}, stale[t] = 0
             PROVE  /\ DiskAt(L, t)'
                    /\ (t \in admitted' /\ ~ Admitted(t)' /\ n \in DOMAIN recipes')
                         => Named(L, recipes[n].entries, 0, job[t].file)'
  BY <1>m, <1>s DEF FileAt
<1>0. /\ TypeInv /\ TypeOK /\ StepOf(s)
      /\ (LockAt(s) /\ PendOk(L, s)) \/ (Stray(s) /\ t # s)
  BY SystemLive DEF LiveAt
<1>1. /\ StillAdmitted
      /\ \A u \in Sessions : Admitted(u)' => u \in admitted'
      /\ \A u \in admitted' : Admitted(u)' \/ (Dead(u)' /\ Dead(u) /\ ~ Admitted(u) /\ u # s)
  BY SystemAdmits
<1>2. /\ AdmittedTo(n) \subseteq {t} /\ job' = job /\ \A u \in Sessions : StaysAdmitted(u)
      /\ t # s => StoreView(t)' = StoreView(t) /\ (t \in finished' <=> t \in finished)
  BY <1>1, AdmittedBefore, SystemAside
<1>3. DiskAt(L, t)'
  <2>1. CASE key'[t] = key[t]
    <3>1. DiskAt(L, t)
      BY <1>2, <1>n, <2>1 DEF FileAt
    <3>2. CASE LockAt(s) /\ PendOk(L, s)
      BY <1>0, <3>1, <3>2, StepDisk
    <3>3. CASE Stray(s) /\ t # s
      <4>1. Uploading(s)
        BY <3>3 DEF Stray, Uploading
      <4>2. total'[t] = total[t] /\ recipeWriter'[t] = recipeWriter[t]
        BY <1>2, <3>3 DEF StoreView
      <4>3. RecipeName(key[t]) \in DOMAIN recipes /\ Writers(RecipeName(key[t])) = {t} =>
              /\ RecipeName(key[t]) \in DOMAIN recipes'
              /\ recipes'[RecipeName(key[t])] = recipes[RecipeName(key[t])]
        <5> SUFFICES ASSUME RecipeName(key[t]) \in DOMAIN recipes,
                            Writers(RecipeName(key[t])) = {t}
                     PROVE  /\ RecipeName(key[t]) \in DOMAIN recipes'
                            /\ recipes'[RecipeName(key[t])] = recipes[RecipeName(key[t])]
          OBVIOUS
        <5>1. RecipeName(key[s]) # RecipeName(key[t])
          BY <3>3, <4>1 DEF Writers
        <5>2. DOMAIN recipes \subseteq DOMAIN recipes'
          BY <3>3, StrayStep, RecipeWriterRow, SystemLive
        <5> QED
          BY <5>1, <5>2, SystemRow
      <4> QED
        BY <1>2, <3>1, <3>3, <4>2, <4>3, DiskKept
    <3> QED
      BY <1>0, <3>2, <3>3
  <2>2. CASE key'[t] # key[t]
    <3>1. ~ Admitted(t)' \/ recipeWriter'[t] = "open"
      BY <1>2, <2>2 DEF StaysAdmitted
    <3>2. Admitted(t)' \/ t \notin Writers(RecipeName(key[t]))'
      BY DEF Writers, Admitted
    <3> QED
      BY <3>1, <3>2 DEF DiskAt
  <2> QED
    BY <2>1, <2>2
<1>4. ASSUME t \in admitted', ~ Admitted(t)', n \in DOMAIN recipes'
      PROVE  Named(L, recipes[n].entries, 0, job[t].file)'
  <2>1. t # s /\ ~ Admitted(t) /\ t \in admitted
    BY <1>1, <1>4 DEF StillAdmitted
  <2>2. RecipeName(key[t]) = n
    BY <1>1, <1>n, <2>1 DEF StillAdmitted
  <2>3. n \in DOMAIN recipes
    <3> SUFFICES ASSUME n \notin DOMAIN recipes PROVE FALSE
      OBVIOUS
    <3>2. MadeStep
      BY SystemAside
    <3>3. PICK u \in Sessions : Maker(u)' /\ RecipeName(key[u])' = n
      BY <1>4, <3>2 DEF MadeStep
    <3>4. Admitted(u)' /\ u \in AdmittedTo(n)'
      BY <1>1, <3>3 DEF Maker, AdmittedTo
    <3> QED
      BY <1>4, <3>4
  <2>4. Named(L, recipes[n].entries, 0, job[t].file)
    BY <1>2, <2>3, AdmittedFile
  <2>5. recipes'[n] = recipes[n]
    <3> SUFFICES ASSUME Uploading(s), n = RecipeName(key[s]) PROVE FALSE
      BY <2>3, SystemRow
    <3>1. s \in AdmittedTo(n)
      BY DEF AdmitInv, Admitted, AdmittedTo
    <3> QED
      BY <1>2, <2>1, <3>1
  <2>6. PICK e, f : e = recipes[n].entries /\ f = job[t].file
    OBVIOUS
  <2>7. Named(L, e, 0, f)'
    BY <2>4, <2>6 DEF Named, AddressesKept
  <2> QED
    BY <1>2, <2>5, <2>6, <2>7 DEF Named
<1> QED
  BY <1>3, <1>4

LEMMA SystemFetched ==
  ASSUME FaultInv, RowInv, NEW L, AddressesKept(L), DataInv(L),
         NEW s \in Sessions, SystemStep(s), NEW d \in Sessions, NEW t \in Sessions,
         NEW f, f = job[t].file, Untouched(f)' => FetchesRight(L, f)
  PROVE  FetchedAt(L, d, t)'
<1>n. PICK n : n = RecipeName(key'[d])
  OBVIOUS
<1>m. RecipeName(key[d])' = n
  BY <1>n DEF RecipeName
<1>0. /\ TypeInv /\ TypeOK /\ StepOf(s) /\ AdmitInv /\ stale' = stale
      /\ (LockAt(s) /\ StartAt(s)) \/ (stale[s] # 0 /\ Stray(s))
      /\ FileAt(L, t) /\ FetchedAt(L, d, t)
  BY SystemLive DEF LiveAt, DataInv
<1>1. /\ job' = job /\ StillAdmitted /\ Len(f) \in Nat /\ stray \subseteq stray'
      /\ \A u \in Sessions \ {s} : TalkView(u)' = TalkView(u)
      /\ \A u \in Sessions : Admitted(u)' => u \in admitted'
  BY <1>0, SystemAside, SystemAdmits, SystemStepOfOne, FileTyped DEF DataInv
<1> SUFFICES ASSUME AdmittedTo(n)' \subseteq {t}, stale[t] = 0, Untouched(f)'
             PROVE  ReadAt(L, d, f)'
  <2>1. Untouched(job[t].file)' => Untouched(f)'
    BY <1>1 DEF Untouched
  <2>2. ReadAt(L, d, f)' => ReadAt(L, d, job[t].file)'
    BY <1>1 DEF ReadAt, BodyAt, ChunkAt
  <2> QED
    BY <1>0, <1>m, <2>1, <2>2 DEF FetchedAt
<1>u. Untouched(f)
  BY <1>1 DEF Untouched
<1>2. ASSUME key'[d] = key[d]
      PROVE  /\ ReadAt(L, d, f)
             /\ RecipeName(key[d]) \in DOMAIN recipes
                  => Named(L, recipes[RecipeName(key[d])].entries, 0, f)
  <2>1. RecipeName(key[d]) = n /\ AdmittedTo(n) \subseteq {t}
    BY <1>1, <1>2, <1>n, AdmittedBefore
  <2> QED
    BY <1>0, <1>u, <2>1, AdmittedFile DEF FetchedAt
<1>3. CASE d = s
  <2>1. CASE LockAt(s) /\ StartAt(s)
    BY <1>0, <1>1, <1>2, <1>3, <2>1, StepRead
  <2>2. CASE stale[s] # 0 /\ Stray(s)
    <3>1. s \in admitted'
      BY <1>1, <2>2, StrayStep DEF Admitted
    <3>2. s \in AdmittedTo(n)'
      BY <1>3, <1>n, <3>1 DEF AdmittedTo
    <3> QED
      BY <2>2, <3>2
  <2> QED
    BY <1>0, <2>1, <2>2
<1>4. CASE d # s
  BY <1>1, <1>2, <1>4, ReadKept DEF TalkView
<1> QED
  BY <1>3, <1>4

LEMMA SystemData ==
  ASSUME FaultInv, RowInv, LossInv, DataInv(Excused), NEW s \in Sessions, SystemStep(s)
  PROVE  LossInv' /\ DataInv(Excused)'
<1>0. LossInv' /\ KnownStays /\ Excused \subseteq Excused' /\ containers \subseteq containers'
  BY SystemFault, SystemLoss, SystemKnown
<1>1. PICK L : L = Excused'
  OBVIOUS
<1>2. AddressesKept(L) /\ DataInv(L)
  BY <1>0, <1>1, Weaker DEF KnownStays, AddressesKept, Found
<1>4. WorkInv(L)' /\ IndexAt(L)' /\ AdmitInv'
  BY <1>1, <1>2, SystemWork, SystemAdmitted DEF DataInv
<1>5. \A t \in Sessions : FileAt(L, t)'
  BY <1>2, SystemFile DEF DataInv
<1>6. ASSUME NEW d \in Sessions, NEW t \in Sessions PROVE FetchedAt(L, d, t)'
  <2>1. PICK f : f = job[t].file
    OBVIOUS
  <2>2. Len(f) \in Nat /\ DOMAIN f = 1 .. Len(f)
    BY <2>1, FileTyped DEF FaultInv, TypeInv
  <2>3. Untouched(f)' => FetchesRight(L, f)
    BY <1>0, <1>1, <2>2, ExcusedFetch
  <2> QED
    BY <1>2, <2>1, <2>3, SystemFetched
<1>7. DataInv(L)'
  BY <1>4, <1>5, <1>6 DEF DataInv
<1> QED
  BY <1>0, <1>1, <1>7, ExcusedData

----------------------------------------------------------------------------
(* A fault that leaves every recipe as it is, and every session but those  *)
(* that have an old message.                                               *)

LEMMA AsideFiles ==
  ASSUME NEW L, AddressesKept(L), AdmitInv, \A t \in Sessions : FileAt(L, t),
         \A d, t \in Sessions : FetchedAt(L, d, t),
         UNCHANGED <<job, key, recipeWriter, total, recipes, finished, admitted>>,
         \A t \in Sessions : Uploading(t)' <=> Uploading(t),
         \A t \in Sessions : Dead(t) => Dead(t)',
         \A t \in Sessions : stale'[t] = stale[t] \/ stale'[t] # 0, stray \subseteq stray',
         \A t \in Sessions :
           TalkView(t)' = TalkView(t) \/ (t \in admitted /\ stale'[t] # 0)
  PROVE  /\ AdmitInv' /\ \A t \in Sessions : FileAt(L, t)'
         /\ \A d, t \in Sessions : FetchedAt(L, d, t)'
<1>1. \A t \in Sessions : (Admitted(t)' <=> Admitted(t)) /\ RecipeName(key[t])' = RecipeName(key[t])
  BY DEF Admitted, RecipeName
<1>2. \A n : AdmittedTo(n)' = AdmittedTo(n)
  BY DEF AdmittedTo, RecipeName
<1>4. AdmitInv'
  BY <1>1, <1>2 DEF AdmitInv
<1>5. ASSUME NEW t \in Sessions PROVE FileAt(L, t)'
  <2>0. FileAt(L, t)
    OBVIOUS
  <2>1. DiskAt(L, t) => DiskAt(L, t)'
    <3>1. \A u \in Sessions : StaysAdmitted(u)
      BY <1>1 DEF StaysAdmitted
    <3> QED
      BY <3>1, DiskKept
  <2>2. \A b, f : Named(L, b, 0, f) => Named(L, b, 0, f)'
    BY DEF Named, AddressesKept
  <2>3. PICK n, e, f : n = RecipeName(key[t]) /\ e = recipes[n].entries /\ f = job[t].file
    OBVIOUS
  <2>4. Named(L, e, 0, f)' => Named(L, recipes[n].entries, 0, job[t].file)'
    BY <2>3 DEF Named
  <2>5. RecipeName(key[t])' = n /\ recipes' = recipes
    BY <1>1, <2>3
  <2> QED
    BY <1>1, <1>2, <2>0, <2>1, <2>2, <2>3, <2>4, <2>5 DEF FileAt
<1>6. ASSUME NEW d \in Sessions, NEW t \in Sessions PROVE FetchedAt(L, d, t)'
  <2>0. FetchedAt(L, d, t)
    OBVIOUS
  <2>1. PICK f, n : f = job[t].file /\ n = RecipeName(key[d])
    OBVIOUS
  <2>2. ReadAt(L, d, f) /\ TalkView(d)' = TalkView(d) => ReadAt(L, d, f)'
    BY ReadKept
  <2>3. Untouched(job[t].file)' => Untouched(f)
    BY <2>1 DEF Untouched
  <2>4. d \in admitted => d \in AdmittedTo(n)
    BY <2>1 DEF AdmittedTo
  <2>5. ReadAt(L, d, f)' => ReadAt(L, d, job[t].file)'
    BY <2>1 DEF ReadAt, BodyAt, ChunkAt
  <2> QED
    BY <1>1, <1>2, <2>0, <2>1, <2>2, <2>3, <2>4, <2>5 DEF FetchedAt
<1> QED
  BY <1>4, <1>5, <1>6

(* One that leaves every session as it is, but for what it is saving.      *)
LEMMA AsideData ==
  ASSUME TypeOK, NEW L, AddressesKept(L), DataInv(L), \A t : TalkView(t)' = TalkView(t),
         \A t \in Sessions : Dead(t) => Dead(t)', gone \subseteq gone',
         UNCHANGED <<job, key, spc, recipe, recipeQueue, done, recipeWriter, writing, total>>,
         UNCHANGED <<recipes, finished, admitted, stale, stray, m_all_chunks>>
  PROVE  DataInv(L)'
<1>1. \A t : (Uploading(t)' <=> Uploading(t)) /\ cpc'[t] = cpc[t] /\ toServer'[t] = toServer[t]
  BY DEF Uploading, TalkView
<1>3. ASSUME NEW t \in Sessions, LiveAt(L, t) PROVE LiveAt(L, t)'
  <2>1. SliceAt(t)' /\ Reached(t)' = Reached(t)
    BY <1>3, SliceKept DEF LiveAt
  <2>2. PendOk(L, t)'
    <3>1. t \in finished => /\ spc'[t] \in {"order", "closed"}
                            /\ cpc'[t] \in {"quit_rep", "closed"}
      BY <1>1, <1>3 DEF LiveAt, PendOk, WriterAt
    <3> QED
      BY <1>1, <1>3, <2>1, <3>1, PendKept DEF LiveAt
  <2> QED
    BY <1>3, <2>1, <2>2, AddressKept, AsideStart DEF LiveAt
<1>4. \A t \in Sessions : Stray(t) => Stray(t)'
  BY <1>1 DEF Stray
<1>5. WorkInv(L)'
  BY <1>3, <1>4 DEF DataInv, WorkInv, WorkAt
<1>6. IndexAt(L)'
  BY DEF DataInv, IndexAt, AddressesKept
<1>7. /\ AdmitInv' /\ \A t \in Sessions : FileAt(L, t)'
      /\ \A d, t \in Sessions : FetchedAt(L, d, t)'
  BY <1>1, AsideFiles DEF DataInv
<1> QED
  BY <1>5, <1>6, <1>7 DEF DataInv

(* A handler goes on with an old message.                                  *)
LEMMA StaleData ==
  ASSUME FaultInv, RowInv, LossInv, DataInv(Excused), NEW s \in Sessions, StaleStep(s)
  PROVE  LossInv' /\ DataInv(Excused)'
<1>0. /\ TypeOK /\ TypeInv' /\ HistoryInv' /\ containers' = containers /\ stray \subseteq stray'
      /\ UNCHANGED <<job, key, finished, container, queueVars, threadVars, writerVars, gone, lost>>
      /\ admitted' = admitted
      /\ Stray(s)' /\ stale'[s] > 0 /\ (LockAt(s) \/ Stray(s))
      /\ spc[s] \in {"body", "store"} /\ spc'[s] \in {"store", "entry"}
      /\ \A t \in Sessions : StoreView(t)' = StoreView(t) /\ InMemory(t)' = InMemory(t)
      /\ \A t \in Sessions \ {s} : TalkView(t)' = TalkView(t) /\ stale'[t] = stale[t]
      /\ \A c \in Chunks : \/ m_all_chunks'[c] = m_all_chunks[c]
                           \/ <<c, m_all_chunks'[c]>> \in stray'
  BY StaleFault, StaleFrame DEF FaultInv, TypeInv
<1>1. /\ UNCHANGED <<containerQueue, saving, recipeWriter, total, recipes>>
      /\ \A t \in Sessions \ {s} : spc'[t] = spc[t]
  BY <1>0 DEF queueVars, threadVars, writerVars, TalkView
<1>2. /\ ~ Dead(s) /\ Uploading(s) /\ Uploading(s)'
      /\ \A t \in Sessions : Dead(t) => Dead(t)'
  BY <1>0, DeadKept DEF Dead, Uploading
<1>3. LossInv'
  <2>1. \A t \in Sessions : Bound(t)' = Bound(t)
    BY <1>0, <1>1 DEF Bound
  <2>2. LostFiles' = LostFiles
    BY <1>0 DEF LostFiles
  <2>3. \A f \in containers : f.id[1] \in Sessions
    BY <1>0, ViewTypes, ContainerNumber
  <2> QED
    BY <1>0, <1>1, <1>2, <2>1, <2>2, <2>3 DEF LossInv, DiskUnique
<1>4. KnownStays /\ Excused \subseteq Excused'
  BY <1>0, ExcusedGrows DEF KnownStays, Found, Resolves, OnDisk
<1>5. PICK L : L = Excused'
  OBVIOUS
<1>6. AddressesKept(L) /\ DataInv(L)
  BY <1>4, <1>5, Weaker DEF KnownStays, AddressesKept, Found
<1>7. s \notin finished /\ s \in admitted
  <2>1. WorkAt(L, s) /\ Admitted(s)
    BY <1>2, <1>6 DEF DataInv, WorkInv, Admitted
  <2>2. stale[s] \in Nat
    BY DEF FaultInv, HistoryInv
  <2> QED
    BY <1>0, <1>2, <1>6, <2>1, <2>2 DEF WorkAt, LiveAt, PendOk, WriterAt, Stray, DataInv, AdmitInv
<1>8. WorkInv(L)'
  <2>1. ASSUME NEW t \in Sessions \ {s} PROVE WorkAt(L, t)'
    <3>1. LiveAt(L, t) => LiveAt(L, t)'
      BY <1>0, <1>6, AddressKept, AsidePend, AsideStart DEF LiveAt
    <3>2. Stray(t) => Stray(t)'
      <4>1. cpc'[t] = cpc[t] /\ spc'[t] = spc[t] /\ toServer'[t] = toServer[t]
        BY <1>0 DEF TalkView
      <4> QED
        BY <1>0, <4>1 DEF Stray
    <3> QED
      BY <1>0, <1>2, <1>6, <3>1, <3>2 DEF DataInv, WorkInv, WorkAt
  <2> QED
    BY <1>0, <1>7, <2>1 DEF WorkInv, WorkAt
<1>9. IndexAt(L)'
  <2> SUFFICES ASSUME NEW c \in Chunks, m_all_chunks'[c] # NoAddr,
                      <<c, m_all_chunks'[c]>> \in stray'
               PROVE  Found(L, m_all_chunks[c], c)'
    BY <1>0, <1>6 DEF DataInv, IndexAt, AddressesKept
  <2>1. PICK a : a = m_all_chunks'[c]
    OBVIOUS
  <2>2. a = [id |-> a.id, slot |-> a.slot] /\ a.id \in ContainerId /\ a.slot \in Nat
    BY <1>0, <2>1 DEF HistoryInv, Addr
  <2>3. <<c, a.id, a.slot>> \in Excused'
    BY <2>1, <2>2 DEF Excused, Misfiled, Bytes
  <2> QED
    BY <1>5, <2>1, <2>3 DEF Found
<1>10. /\ AdmitInv' /\ \A t \in Sessions : FileAt(L, t)'
       /\ \A d, t \in Sessions : FetchedAt(L, d, t)'
  <2>1. \A t \in Sessions : Uploading(t)' <=> Uploading(t)
    BY <1>1, <1>2 DEF Uploading
  <2>2. \A t \in Sessions : stale'[t] = stale[t] \/ stale'[t] # 0
    BY <1>0
  <2>3. \A t \in Sessions : TalkView(t)' = TalkView(t) \/ (t \in admitted /\ stale'[t] # 0)
    BY <1>0, <1>7
  <2>4. /\ AdmitInv /\ \A t \in Sessions : FileAt(L, t)
        /\ \A d, t \in Sessions : FetchedAt(L, d, t)
    BY <1>6 DEF DataInv
  <2> QED
    BY <1>0, <1>1, <1>2, <1>6, <2>1, <2>2, <2>3, <2>4, AsideFiles
<1>11. DataInv(L)'
  BY <1>8, <1>9, <1>10 DEF DataInv
<1> QED
  BY <1>3, <1>5, <1>11, ExcusedData

LEMMA SaveFailsData ==
  ASSUME FaultInv, LossInv, DataInv(Excused), NEW s \in Sessions, SaveFails(s)
  PROVE  LossInv' /\ DataInv(Excused)'
<1>0. TypeOK /\ LossInv' /\ KnownStays /\ Excused \subseteq Excused'
  BY SaveFailsLoss DEF FaultInv, TypeInv
<1>1. PICK L : L = Excused'
  OBVIOUS
<1>2. AddressesKept(L) /\ DataInv(L)
  BY <1>0, <1>1, Weaker DEF KnownStays, AddressesKept, Found
<1>3. /\ UNCHANGED <<job, wire, clientVars, serverVars, spc, key, uploadVars, reader, writing>>
      /\ UNCHANGED <<total, recipes, gone, admitted, stale, stray>>
      /\ saving'[s] = None /\ \A t \in Sessions \ {s} : saving'[t] = saving[t]
  BY <1>0, ViewTypes DEF SaveFails
<1>4. /\ UNCHANGED <<cpc, recipe, recipeQueue, done, recipeWriter, finished>>
      /\ UNCHANGED <<container, containerQueue, dataWriter, m_all_chunks>>
      /\ \A t : TalkView(t)' = TalkView(t)
  BY <1>3 DEF wire, clientVars, serverVars, uploadVars, queueVars, threadVars, TalkView
<1>5. \A t \in Sessions : Dead(t) => Dead(t)'
  BY <1>3, <1>4 DEF Dead
<1>6. DataInv(L)'
  BY <1>0, <1>2, <1>3, <1>4, <1>5, AsideData
<1> QED
  BY <1>0, <1>1, <1>6, ExcusedData

LEMMA QuietData ==
  ASSUME FaultInv, LossInv, DataInv(Excused), UNCHANGED <<vars, stale, lost, stray, admitted>>,
         gone \subseteq gone'
  PROVE  LossInv' /\ DataInv(Excused)'
<1>1. UNCHANGED <<job, wire, clientVars, serverVars, connVars, after>>
  BY DEF vars
<1>2. /\ UNCHANGED <<job, toServer, toClient, clientVars, FILES, m_all_chunks>>
      /\ UNCHANGED <<spc, key, inMsg, hashList, flags, idx, dup, chunkAddr, container, recipe>>
      /\ UNCHANGED <<containerQueue, recipeQueue, done, dataWriter, recipeWriter, finished>>
      /\ UNCHANGED <<reader, saving, writing, total, containers, recipes, after>>
  BY <1>1 DEF wire, serverVars, connVars, uploadVars, queueVars, threadVars, writerVars
<1>3. cpc' = cpc /\ \A t : TalkView(t)' = TalkView(t)
  BY <1>2 DEF TalkView, clientVars
<1>4. \A t \in Sessions : Dead(t) => Dead(t)'
  BY <1>2, <1>3 DEF Dead
<1>5. LossInv'
  <2>1. \A f \in containers : f.id[1] \in Sessions
    BY ViewTypes, ContainerNumber DEF FaultInv, TypeInv
  <2> QED
    BY <1>2, <1>4, <2>1 DEF LossInv, LostFiles, DiskUnique, Bound
<1>6. PICK L : L = Excused
  OBVIOUS
<1>7. L = Excused' /\ AddressesKept(L)
  BY <1>2, <1>6 DEF Excused, Missing, Misfiled, AddressesKept, Found, Resolves, OnDisk, InMemory
<1>8. DataInv(L)'
  <2>1. TypeOK /\ DataInv(L)
    BY <1>6 DEF FaultInv, TypeInv
  <2> QED
    BY <1>2, <1>3, <1>4, <1>7, <2>1, AsideData
<1> QED
  BY <1>5, <1>7, <1>8, ExcusedData

----------------------------------------------------------------------------
(* The server process ends.                                                *)

LEMMA NamedPart ==
  ASSUME NEW L, AddressesKept(L), NEW e \in Entries, NEW m \in Nat, m <= Len(e), NEW f,
         Len(f) \in Nat, Named(L, e, 0, f)
  PROVE  LET b == SubSeq(e, 1, m)
         IN Len(b) = m /\ Named(L, b, 0, f)'
<1>1. PICK b : b = SubSeq(e, 1, m)
  OBVIOUS
<1>2. /\ Len(b) = m /\ Len(e) \in Nat /\ DOMAIN b = 1 .. m /\ DOMAIN e = 1 .. Len(e)
      /\ \A k \in 1 .. m : b[k] = e[k]
  BY <1>1 DEF Entries
<1>3. 0 + Len(b) <= Len(f)
  BY <1>2 DEF Named
<1>4. \A k \in DOMAIN b : k \in DOMAIN e /\ b[k] = e[k]
  BY <1>2
<1>5. Named(L, b, 0, f)'
  BY <1>3, <1>4 DEF Named, AddressesKept
<1> QED
  BY <1>1, <1>2, <1>5

(* A recipe keeps its beginning, and all of it if nobody is writing it.    *)
LEMMA CrashRecipe ==
  ASSUME FaultInv, Crash, NEW n \in DOMAIN recipes
  PROVE  /\ \E m \in Nat : /\ m <= Len(recipes[n].entries)
                           /\ recipes'[n].entries = SubSeq(recipes[n].entries, 1, m)
         /\ ~ BeingWritten(n) => recipes'[n].entries = recipes[n].entries
         /\ recipes'[n].total = recipes[n].total /\ recipes[n].entries \in Entries
<1>0. TypeOK
  BY DEF FaultInv, TypeInv
<1>1. PICK cut \in Cuts :
        recipes' = [m \in DOMAIN recipes |->
                      [recipes[m] EXCEPT !.entries = SubSeq(recipes[m].entries, 1, cut[m])]]
  BY DEF Crash
<1>2. recipes[n] \in Recipe /\ recipes[n].entries \in Entries /\ Len(recipes[n].entries) \in Nat
  <2>1. recipes[n] \in Recipe
    BY <1>0, CutTyped
  <2>2. recipes[n].entries \in Entries
    BY <2>1 DEF Recipe
  <2> QED
    BY <2>1, <2>2 DEF Entries
<1>3. recipes'[n] = [recipes[n] EXCEPT !.entries = SubSeq(recipes[n].entries, 1, cut[n])]
  BY <1>1
<1>4. /\ recipes'[n].entries = SubSeq(recipes[n].entries, 1, cut[n])
      /\ recipes'[n].total = recipes[n].total
  BY <1>2, <1>3 DEF Recipe
<1>5. cut[n] \in Nat /\ cut[n] <= Len(recipes[n].entries)
  <2>1. cut[n] \in UNION {0 .. Len(recipes[m].entries) : m \in DOMAIN recipes}
    BY DEF Cuts
  <2>2. PICK m \in DOMAIN recipes : cut[n] \in 0 .. Len(recipes[m].entries)
    BY <2>1
  <2>3. recipes[m].entries \in Entries
    BY <1>0, CutTyped DEF Recipe
  <2>4. Len(recipes[m].entries) \in Nat
    BY <2>3 DEF Entries
  <2>5. cut[n] \in Nat
    BY <2>2, <2>4
  <2> QED
    BY <1>2, <2>5 DEF Cuts
<1>6. ASSUME ~ BeingWritten(n) PROVE recipes'[n].entries = recipes[n].entries
  <2>1. cut[n] = Len(recipes[n].entries)
    BY <1>6 DEF Cuts
  <2> QED
    BY <1>2, <1>4, <2>1, WholeSeq DEF Entries
<1> QED
  BY <1>2, <1>4, <1>5, <1>6

(* Nobody uploads to a server that has just been started.                  *)
LEMMA CrashWork ==
  ASSUME FaultInv, NEW L, AddressesKept(L), DataInv(L), Crash
  PROVE  /\ WorkInv(L)' /\ IndexAt(L)' /\ AdmitInv'
         /\ UNCHANGED <<job, key, finished, total, admitted, got, stale, stray, reader>>
         /\ \A n : AdmittedTo(n)' = AdmittedTo(n)
         /\ \A t \in Sessions : ~ Uploading(t)'
<1>0. /\ TypeOK /\ TalkInv /\ HeldInv /\ DOMAIN recipes' = DOMAIN recipes
      /\ UNCHANGED <<job, key, finished, total, admitted, cpc, got, stale, stray, reader>>
      /\ AdmitInv /\ Connected \subseteq Sessions /\ gone \subseteq gone'
  BY CrashDisk DEF FaultInv, TypeInv, Crash, clientVars, DataInv, Connected
<1>1. \A n : AdmittedTo(n)' = AdmittedTo(n)
  BY <1>0 DEF AdmittedTo, RecipeName
<1>2. ASSUME NEW t \in Connected
      PROVE  Dead(t)' /\ recipeWriter'[t] = "none" /\ ~ Uploading(t)'
  BY <1>0, <1>2, CrashConnected, CrashDead DEF Uploading
<1>3. ASSUME NEW t \in Sessions \ Connected
      PROVE  /\ WorkAt(L, t)' /\ ~ Uploading(t) /\ ~ Uploading(t)'
             /\ recipeWriter'[t] = recipeWriter[t] /\ (Dead(t) => Dead(t)')
  <2>1. TalkView(t)' = TalkView(t) /\ StoreView(t)' = StoreView(t)
    BY CrashOthers
  <2>2. /\ spc[t] \in {"accepted", "closed"} /\ spc'[t] = spc[t]
        /\ recipeWriter'[t] = recipeWriter[t]
    BY <1>0, <2>1, NotConnected DEF TalkView, StoreView
  <2>3. WorkAt(L, t) /\ ~ Stray(t)
    BY <2>2 DEF DataInv, WorkInv, Stray
  <2>4. LiveAt(L, t) => LiveAt(L, t)'
    BY <1>0, <2>1, AddressKept, AsidePend, AsideStart DEF LiveAt
  <2>5. Dead(t) => Dead(t)'
    BY <1>0, <2>1, DeadKept
  <2> QED
    BY <1>0, <2>2, <2>3, <2>4, <2>5 DEF Uploading, WorkAt
<1>4. WorkInv(L)'
  <2>1. ASSUME NEW t \in Connected PROVE WorkAt(L, t)'
    <3>1. t \in finished => stale[t] = 0
      BY <1>0 DEF DataInv, WorkInv, WorkAt
    <3> QED
      BY <1>0, <1>2, <3>1 DEF WorkAt
  <2> QED
    BY <1>3, <2>1 DEF WorkInv
<1>i. IndexAt(L)'
  BY DEF Crash, Restart, IndexAt
<1>5. \A t \in Sessions : ~ Uploading(t)'
  BY <1>2, <1>3
<1>6. \A t \in Sessions : Admitted(t)' => t \in admitted'
  BY <1>0, <1>5 DEF AdmitInv, Admitted
<1>7. \A t \in admitted' : Admitted(t)' \/ Dead(t)'
  BY <1>0, <1>2, <1>3 DEF AdmitInv, Admitted
<1>8. ASSUME NEW n \in DOMAIN recipes'
      PROVE  \E t \in AdmittedTo(n)' : recipeWriter'[t] # "open"
  <2>1. PICK t \in AdmittedTo(n) : recipeWriter[t] # "open"
    BY <1>0 DEF AdmitInv
  <2>2. t \in Sessions
    BY <1>0 DEF AdmitInv, AdmittedTo
  <2> QED
    BY <1>1, <1>2, <1>3, <2>1, <2>2
<1>9. AdmitInv'
  BY <1>0, <1>6, <1>7, <1>8 DEF AdmitInv
<1> QED
  BY <1>0, <1>1, <1>4, <1>i, <1>5, <1>9

(* The recipe of a file that has been uploaded is not touched; another one *)
(* still has the beginning of its file.                                    *)
LEMMA CrashFile ==
  ASSUME FaultInv, RowInv, NEW L, AddressesKept(L), DataInv(L), Crash, NEW t \in Sessions
  PROVE  FileAt(L, t)'
<1>n. PICK n : n = RecipeName(key[t])
  OBVIOUS
<1>f. PICK f : f = job[t].file
  OBVIOUS
<1>0. /\ TypeOK /\ RecipeInv /\ DOMAIN recipes' = DOMAIN recipes /\ AdmitInv /\ FileAt(L, t)
      /\ UNCHANGED <<job, key, finished, total, admitted, stale>>
      /\ \A u : AdmittedTo(u)' = AdmittedTo(u)
      /\ \A u \in Sessions : ~ Uploading(u)'
      /\ RowAt(t) /\ Len(f) \in Nat
  BY <1>f, CrashDisk, CrashWork, FileTyped DEF FaultInv, TypeInv, DataInv, RowInv
<1>m. RecipeName(key[t])' = n /\ job'[t].file = f
  BY <1>0, <1>n, <1>f DEF RecipeName
<1> SUFFICES ASSUME AdmittedTo(n) \subseteq {t}, stale[t] = 0
             PROVE  /\ DiskAt(L, t)'
                    /\ (t \in admitted /\ ~ Admitted(t)' /\ n \in DOMAIN recipes)
                         => Named(L, recipes[n].entries, 0, job[t].file)'
  BY <1>0, <1>m DEF FileAt
<1>1. ASSUME t \in finished PROVE DiskAt(L, t)'
  <2>1. ~ Uploading(t) /\ n \in DOMAIN recipes
    BY <1>0, <1>1, <1>n DEF RowAt, Uploading
  <2>2. Writers(n) = {t}
    BY <1>0, <1>1, <1>n, WritersAdmitted DEF Writers
  <2>3. ~ BeingWritten(n)
    <3> SUFFICES ASSUME NEW u \in Sessions, recipeWriter[u] = "run", RecipeName(key[u]) = n
                 PROVE  FALSE
      BY DEF BeingWritten
    <3>1. Uploading(u)
      BY <1>0 DEF RecipeInv, RecipeAt
    <3>2. u \in Writers(n)
      BY <3>1 DEF Writers
    <3> QED
      BY <2>1, <2>2, <3>1, <3>2
  <2>4. recipeWriter[t] # "open"
    BY <1>0, <2>1 DEF RecipeInv, RecipeAt
  <2>5. PICK e : e = recipes[n].entries
    OBVIOUS
  <2>6. /\ Len(e) = total[t] /\ Named(L, e, 0, f) /\ recipes[n].total = total[t]
    BY <1>0, <1>1, <1>n, <1>f, <2>2, <2>4, <2>5 DEF FileAt, DiskAt
  <2>7. recipes'[n].entries = e /\ recipes'[n].total = recipes[n].total
    BY <2>1, <2>3, <2>5, CrashRecipe
  <2> QED
    BY <1>0, <1>m, <2>1, <2>6, <2>7, DiskTo
<1>2. ASSUME t \notin finished PROVE DiskAt(L, t)'
  <2>1. t \notin Writers(RecipeName(key[t]))'
    BY <1>0, <1>2 DEF Writers
  <2> QED
    BY <2>1 DEF DiskAt
<1>3. ASSUME n \in DOMAIN recipes PROVE Named(L, recipes[n].entries, 0, job[t].file)'
  <2>1. PICK e : e = recipes[n].entries
    OBVIOUS
  <2>2. Named(L, e, 0, f)
    BY <1>0, <1>3, <1>f, <2>1, AdmittedFile
  <2>3. PICK m \in Nat : m <= Len(e) /\ recipes'[n].entries = SubSeq(e, 1, m)
    BY <1>3, <2>1, CrashRecipe
  <2>4. e \in Entries
    BY <1>3, <2>1, CrashRecipe
  <2>5. PICK b : b = SubSeq(e, 1, m)
    OBVIOUS
  <2>6. Named(L, b, 0, f)'
    BY <1>0, <2>2, <2>3, <2>4, <2>5, NamedPart
  <2> QED
    BY <1>m, <2>3, <2>5, <2>6 DEF Named
<1> QED
  BY <1>1, <1>2, <1>3

LEMMA CrashData ==
  ASSUME FaultInv, RowInv, LossInv, DataInv(Excused), Crash
  PROVE  LossInv' /\ DataInv(Excused)'
<1>0. TypeOK /\ LossInv' /\ KnownStays /\ Excused \subseteq Excused'
  BY CrashLoss DEF FaultInv, TypeInv
<1>1. PICK L : L = Excused'
  OBVIOUS
<1>2. AddressesKept(L) /\ DataInv(L)
  BY <1>0, <1>1, Weaker DEF KnownStays, AddressesKept, Found
<1>3. /\ WorkInv(L)' /\ IndexAt(L)' /\ AdmitInv'
      /\ UNCHANGED <<job, key, got, stale, stray, reader>>
      /\ \A n : AdmittedTo(n)' = AdmittedTo(n)
  BY <1>2, CrashWork
<1>4. \A t \in Sessions : FileAt(L, t)'
  BY <1>2, CrashFile
<1>5. ASSUME NEW d \in Sessions, NEW t \in Sessions PROVE FetchedAt(L, d, t)'
  <2>1. PICK f : f = job[t].file
    OBVIOUS
  <2>2. ASSUME ReadAt(L, d, f) PROVE ReadAt(L, d, f)'
    <3>1. CASE d \in Connected
      <4>1. toClient'[d] = << >> /\ spc'[d] = "closed"
        BY <3>1, CrashConnected
      <4>2. NoBody(d)'
        BY <4>1 DEF NoBody
      <4>3. Aligned(got'[d], 0, f, reader'[d].missed)
        BY <1>3, <2>2 DEF ReadAt
      <4> QED
        BY <4>1, <4>2, <4>3, ReadClear
    <3>2. CASE d \notin Connected
      BY <1>2, <2>2, <3>2, CrashOthers, ReadKept
    <3> QED
      BY <3>1, <3>2
  <2>3. FetchedAt(L, d, t)
    BY <1>2 DEF DataInv
  <2> QED
    <3>1. Untouched(job[t].file)' => Untouched(f)
      BY <1>3, <2>1 DEF Untouched
    <3>2. ReadAt(L, d, f)' => ReadAt(L, d, job[t].file)'
      BY <1>3, <2>1 DEF ReadAt, BodyAt, ChunkAt
    <3> QED
      BY <1>3, <2>1, <2>2, <2>3, <3>1, <3>2 DEF FetchedAt, RecipeName
<1>6. DataInv(L)'
  BY <1>3, <1>4, <1>5 DEF DataInv
<1> QED
  BY <1>0, <1>1, <1>6, ExcusedData

----------------------------------------------------------------------------
(* All of it together.                                                     *)

LEMMA InitData == RecoveryInit => LossInv /\ DataInv(Excused)
<1> SUFFICES ASSUME RecoveryInit PROVE LossInv /\ DataInv(Excused)
  OBVIOUS
<1>0. /\ Init /\ lost = {} /\ stale = [s \in Sessions |-> 0] /\ admitted = {} /\ containers = {} /\ finished = {}
      /\ DOMAIN recipes = {} /\ \A s \in Sessions : spc[s] = "accepted"
  BY DEF RecoveryInit, FaultInit, Init, ConnInit
<1>1. \A s \in Sessions : Ascending(s, LostFiles, saving[s], containerQueue[s], Bound(s))
  <2>1. LostFiles = containers
    BY <1>0 DEF LostFiles
  <2> QED
    BY <1>0, <2>1, InitIds DEF IdInv, IdAt
<1>2. LossInv
  BY <1>0, <1>1 DEF LossInv, DiskUnique
<1>3. WorkInv({}) /\ IndexAt({})
  BY <1>0, InitIndex, InitUpload, InitDownload
     DEF WorkInv, WorkAt, LiveAt, IndexInv, AddressInv, UploadInv, SliceInv, PendInv, DownloadInv, StartInv
<1>4. AdmitInv
  BY <1>0 DEF AdmitInv, Admitted, Uploading
<1>5. \A t \in Sessions : FileAt({}, t)
  BY <1>0, InitUpload DEF FileAt, UploadInv, DiskInv
<1>6. \A d, t \in Sessions : FetchedAt({}, d, t)
  <2>1. \A n : Writers(n) = {}
    BY <1>0 DEF Writers, Uploading
  <2> QED
    BY <1>0, <2>1, InitDownload DEF FetchedAt, DownloadInv, ReadInv
<1>7. DataInv({})
  BY <1>3, <1>4, <1>5, <1>6 DEF DataInv
<1> QED
  BY <1>2, <1>7, Weaker

LEMMA NextData ==
  ASSUME FaultInv, RowInv, LossInv, DataInv(Excused), [RecoveryNext]_allVars
  PROVE  LossInv' /\ DataInv(Excused)'
<1>1. ASSUME NEW s \in Sessions, Die(s) PROVE LossInv' /\ DataInv(Excused)'
  BY <1>1, QuietData DEF Die
<1>2. ASSUME AllGone \/ UNCHANGED allVars PROVE LossInv' /\ DataInv(Excused)'
  BY <1>2, QuietData DEF AllGone, allVars, faultVars
<1> QED
  BY <1>1, <1>2, SystemData, SaveFailsData, StaleData, CrashData DEF RecoveryNext, StaleStep

ConfinedInv == LossInv /\ DataInv(Excused)

LEMMA ConfinedInvariant == RecoverySpec => []ConfinedInv
<1>1. RecoveryInit => ConfinedInv
  BY InitData DEF ConfinedInv
<1>2. FaultInv /\ RowInv /\ ConfinedInv /\ [RecoveryNext]_allVars => ConfinedInv'
  BY NextData DEF ConfinedInv
<1> QED
  BY <1>1, <1>2, FaultInvariant, RowInvariant, PTL DEF RecoverySpec

(* What is in memory is on its way to disk: its session is uploading.      *)
LEMMA InMemoryUploads ==
  ASSUME FaultInv, LossInv, NEW s \in Sessions, NEW f \in InMemory(s), f.data # << >>
  PROVE  Uploading(s) /\ f.id[1] = s
<1>1. f.id[1] = s /\ (StoreAt(s) \/ LostAt(s))
  BY InOnePlace DEF FaultInv, HeldInv
<1>2. ASSUME StoreAt(s), ~ Uploading(s) PROVE FALSE
  <2>1. container[s].data = << >> /\ containerQueue[s] = << >> /\ saving[s] = None
    BY <1>2 DEF StoreAt
  <2> QED
    BY <2>1, NoneEmpty DEF InMemory
<1>3. LostAt(s) => Uploading(s)
  BY DEF LostAt, Uploading
<1> QED
  BY <1>1, <1>2, <1>3

(* Whatever faults there have been, receive_file's recipe of an upload     *)
(* that has finished is complete and right, if no other session was        *)
(* admitted under its name.  Each of its chunks is on disk or on its way   *)
(* there, or was in a container that was never completely written (it      *)
(* could not be, or the server took it down with it), or is a duplicate of *)
(* one that a handler has filed from an old message of a dead client.      *)
THEOREM DamageIsConfined == RecoverySpec => []DamageConfined
<1>1. ASSUME FaultInv, RowInv, ConfinedInv PROVE DamageConfined
  <2> SUFFICES ASSUME NEW t \in finished, NEW n, n = RecipeName(key[t]), AdmittedTo(n) = {t},
                      NEW e, e = recipes[n].entries, NEW f, f = job[t].file
               PROVE  /\ Len(e) = Len(f)
                      /\ \A k \in DOMAIN e :
                           \/ OnDisk(e[k], f[k])
                           \/ Uploading(e[k].id[1]) /\ Resolves(e[k], f[k])
                           \/ e[k].id \in lost
                           \/ <<f[k], e[k]>> \in stray
    BY DEF DamageConfined
  <2>1. /\ t \in Sessions /\ TypeOK /\ RecipeAt(t) /\ ~ Uploading(t) /\ AdmitInv
        /\ FileAt(Excused, t) /\ LossInv /\ stale[t] = 0
    <3>1. TypeOK /\ t \in Sessions
      BY <1>1, ViewTypes DEF FaultInv, TypeInv
    <3>2. RecipeAt(t) /\ ~ Uploading(t)
      BY <1>1, <3>1 DEF FaultInv, TypeInv, RecipeInv, RowInv, RowAt, Uploading
    <3> QED
      BY <1>1, <3>1, <3>2 DEF ConfinedInv, DataInv, WorkInv, WorkAt
  <2>2. Writers(n) = {t} /\ recipeWriter[t] # "open"
    BY <2>1, WritersAdmitted DEF Writers, RecipeAt
  <2>3. n \in DOMAIN recipes /\ Len(e) = total[t] /\ Named(Excused, e, 0, f)
    <3>1. DiskAt(Excused, t)
      BY <2>1 DEF FileAt
    <3> QED
      BY <2>2, <3>1 DEF DiskAt
  <2>4. Len(e) = Len(f)
    BY <2>1, <2>3 DEF AdmitInv
  <2>5. ASSUME NEW k \in DOMAIN e, ~ OnDisk(e[k], f[k])
        PROVE  \/ Uploading(e[k].id[1]) /\ Resolves(e[k], f[k])
               \/ e[k].id \in lost
               \/ <<f[k], e[k]>> \in stray
    <3>0. e \in Seq(Addr \cup {NoAddr}) /\ 0 + k = k /\ e[k] \in Addr \cup {NoAddr}
      <4>1. recipes[n] \in Recipe
        BY <2>1, <2>3 DEF TypeOK, ConnTypeOK
      <4>2. e \in Seq(Addr \cup {NoAddr})
        BY <4>1 DEF Recipe, Entries
      <4> QED
        BY <4>2
    <3>1. Found(Excused, e[k], f[k]) /\ e[k] \in Addr
      <4>1. e[k] # NoAddr /\ Found(Excused, e[k], f[0 + k])
        BY <2>3 DEF Named
      <4> QED
        BY <3>0, <4>1
    <3>2. CASE <<f[k], e[k].id, e[k].slot>> \in Excused
      <4>1. e[k] = [id |-> e[k].id, slot |-> e[k].slot]
        BY <3>1 DEF Addr
      <4>2. Missing(<<f[k], e[k].id, e[k].slot>>) \/ Misfiled(<<f[k], e[k].id, e[k].slot>>)
        BY <3>2 DEF Excused
      <4> QED
        BY <4>1, <4>2 DEF Missing, Misfiled
    <3>3. ASSUME NEW u \in Sessions, NEW g \in InMemory(u), Holds(g, e[k], f[k])
          PROVE  Uploading(e[k].id[1]) /\ Resolves(e[k], f[k])
      <4>1. g.data # << >> /\ e[k].id = g.id
        BY <3>3 DEF Holds
      <4>2. Uploading(u) /\ g.id[1] = u
        BY <1>1, <2>1, <4>1, InMemoryUploads
      <4> QED
        BY <3>3, <4>1, <4>2 DEF Resolves
    <3> QED
      BY <2>5, <3>1, <3>2, <3>3 DEF Found, Resolves
  <2> QED
    BY <2>4, <2>5
<1> QED
  BY <1>1, FaultInvariant, RowInvariant, ConfinedInvariant, PTL

(* A download puts every chunk in its place, whatever faults there have    *)
(* been: send_file follows the recipe of the only upload that was admitted *)
(* under the name, which is a beginning of that upload's file, and what it *)
(* finds at an address is that chunk, or nothing is there; then it sends   *)
(* what its buffer held at that place of the body.                         *)
THEOREM DownloadsNeverWrong == RecoverySpec => []NeverWrong
<1>1. ASSUME FaultInv, ConfinedInv PROVE NeverWrong
  <2> SUFFICES ASSUME NEW d \in Sessions, NEW t \in Sessions,
                      AdmittedTo(RecipeName(key[d])) = {t}, stale[t] = 0,
                      Untouched(job[t].file), NEW k \in DOMAIN got[d]
               PROVE  RightOrMissed(d, k, job[t].file)
    BY DEF NeverWrong
  <2>1. PICK g, f : g = got[d] /\ f = job[t].file
    OBVIOUS
  <2>2. Aligned(g, 0, f, reader[d].missed)
    BY <1>1, <2>1 DEF ConfinedInv, DataInv, FetchedAt, ReadAt
  <2>3. g \in Seq(Bytes) /\ Len(f) \in Nat
    BY <1>1, <2>1, ReadTypes, FileTyped DEF FaultInv, TypeInv
  <2>4. k \in 1 .. Len(g) /\ Len(g) \in Nat /\ 0 + k = k /\ 0 + Len(g) = Len(g)
    BY <2>1, <2>3
  <2> QED
    BY <2>1, <2>2, <2>3, <2>4 DEF Aligned, Suits, RightOrMissed
<1> QED
  BY <1>1, FaultInvariant, ConfinedInvariant, PTL
=============================================================================
