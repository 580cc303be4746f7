-------------------------- MODULE BlockQueueProofs --------------------------
(***************************************************************************)
(* BlockQueue is type correct, its flag is right and it implements the     *)
(* bounded FIFO, for every number of threads, size and number of elements. *)
(***************************************************************************)
EXTENDS BlockQueue, TLAPS

(* The lock: exactly the thread between lock and unlock owns it.           *)
LockInv ==
  /\ \A p \in Producers : pc[p] \in {"ready", "notFull", "pushed"}
  /\ \A c \in Consumers : pc[c] \in {"ready", "notEmpty", "popped", "exit"}
  /\ \A t \in Threads : pc[t] \in {"pushed", "popped"} <=> owner = t

(* The protocol: set_done comes after the last push, the consumers leave   *)
(* after set_done and find the buffer drained.                             *)
RoundInv ==
  /\ \A p \in Producers : pc[p] \in {"notFull", "pushed"} => pushed[p] < Items
  /\ m_done => \A p \in Producers : pushed[p] = Items
  /\ \A c \in Consumers : pc[c] = "exit" => m_done /\ m_queue = << >>

(* The flag while a push or a pop is under way.                            *)
FlagInv ==
  /\ EmptyFlagRight
  /\ \A p \in Producers : pc[p] = "pushed" => m_queue # << >>
  /\ \A c \in Consumers : pc[c] = "popped" => ~ m_isEmpty

IInv == TypeOK /\ LockInv /\ RoundInv /\ FlagInv

USE SizeAssumption, ItemsAssumption, ThreadsAssumption
    DEF SizeAssumption, ItemsAssumption, ThreadsAssumption, Threads

LEMMA InitIInv == Init => IInv
<1> SUFFICES ASSUME Init PROVE IInv
  OBVIOUS
<1> USE DEF Init
<1>1. TypeOK
  <2>1. /\ m_queue \in Seq(Element) /\ Len(m_queue) <= Size
        /\ pc \in [Threads -> {"ready", "notFull", "notEmpty", "pushed", "popped", "exit"}]
        /\ pushed \in [Producers -> 0 .. Items]
    OBVIOUS
  <2>2. m_isEmpty \in BOOLEAN /\ m_done \in BOOLEAN /\ owner \in Threads \cup {NoThread}
    BY Zenon
  <2> QED
    BY <2>1, <2>2, Zenon DEF TypeOK
<1>2. LockInv
  BY DEF LockInv
<1>3. RoundInv
  BY DEF RoundInv
<1>4. FlagInv
  BY DEF FlagInv, EmptyFlagRight
<1> QED
  BY <1>1, <1>2, <1>3, <1>4 DEF IInv

(* Waking a thread puts it, and the one that unlocks, back to "ready".     *)
LEMMA NotifyOne ==
  ASSUME TypeOK, NEW t \in Threads, NEW cond \in {"notFull", "notEmpty"},
         notify_one(t, cond)
  PROVE  /\ pc' \in [Threads -> {"ready", "notFull", "notEmpty", "pushed", "popped", "exit"}]
         /\ pc'[t] = "ready"
         /\ \A u \in Threads : u # t => pc'[u] = pc[u] \/ (pc[u] = cond /\ pc'[u] = "ready")
  BY DEF TypeOK, notify_one

LEMMA NextIInv == IInv /\ [Next]_vars => IInv'
<1> SUFFICES ASSUME IInv, [Next]_vars PROVE IInv'
  OBVIOUS
<1> USE DEF IInv
<1>1. ASSUME NEW p \in Producers, WaitNotFull(p) PROVE IInv'
  BY <1>1 DEF WaitNotFull, CanPush, CanLock, TypeOK, LockInv, RoundInv, FlagInv, EmptyFlagRight
<1>2. ASSUME NEW p \in Producers, Push(p) PROVE IInv'
  <2> USE <1>2 DEF Push, CanPush, CanLock
  <2>1. TypeOK'
    BY DEF TypeOK, Element
  <2>2. LockInv'
    BY DEF TypeOK, LockInv
  <2>3. RoundInv'
    BY DEF TypeOK, LockInv, RoundInv, Element
  <2>4. FlagInv'
    BY DEF TypeOK, LockInv, FlagInv, EmptyFlagRight
  <2> QED
    BY <2>1, <2>2, <2>3, <2>4
<1>3. ASSUME NEW p \in Producers, PushReturn(p) PROVE IInv'
  <2> USE <1>3 DEF PushReturn
  <2>0. /\ pc' \in [Threads -> {"ready", "notFull", "notEmpty", "pushed", "popped", "exit"}]
        /\ pc'[p] = "ready"
        /\ \A u \in Threads : u # p => pc'[u] = pc[u] \/ (pc[u] = "notEmpty" /\ pc'[u] = "ready")
    BY NotifyOne
  <2>1. TypeOK'
    <3>1. pushed[p] + 1 \in 0 .. Items
      BY DEF TypeOK, RoundInv
    <3>2. m_isEmpty' \in BOOLEAN
      OBVIOUS
    <3> QED
      BY <2>0, <3>1, <3>2 DEF TypeOK
  <2>2. LockInv'
    BY <2>0 DEF TypeOK, LockInv
  <2>3. RoundInv'
    BY <2>0 DEF TypeOK, LockInv, RoundInv
  <2>4. FlagInv'
    BY <2>0 DEF TypeOK, LockInv, FlagInv, EmptyFlagRight
  <2> QED
    BY <2>1, <2>2, <2>3, <2>4
<1>4. ASSUME NEW c \in Consumers, WaitNotEmpty(c) PROVE IInv'
  BY <1>4 DEF WaitNotEmpty, CanLock, TypeOK, LockInv, RoundInv, FlagInv, EmptyFlagRight
<1>5. ASSUME NEW c \in Consumers, PopFalse(c) PROVE IInv'
  BY <1>5 DEF PopFalse, CanLock, TypeOK, LockInv, RoundInv, FlagInv, EmptyFlagRight
<1>6. ASSUME NEW c \in Consumers, Pop(c) PROVE IInv'
  <2> USE <1>6 DEF Pop, CanLock
  <2>1. TypeOK'
    BY DEF TypeOK, Element
  <2>2. LockInv'
    BY DEF TypeOK, LockInv
  <2>3. RoundInv'
    BY DEF TypeOK, LockInv, RoundInv, Element
  <2>4. FlagInv'
    BY DEF TypeOK, LockInv, FlagInv, EmptyFlagRight
  <2> QED
    BY <2>1, <2>2, <2>3, <2>4
<1>7. ASSUME NEW c \in Consumers, PopReturn(c) PROVE IInv'
  <2> USE <1>7 DEF PopReturn
  <2>0. /\ pc' \in [Threads -> {"ready", "notFull", "notEmpty", "pushed", "popped", "exit"}]
        /\ pc'[c] = "ready"
        /\ \A u \in Threads : u # c => pc'[u] = pc[u] \/ (pc[u] = "notFull" /\ pc'[u] = "ready")
    BY NotifyOne
  <2>1. TypeOK'
    BY <2>0 DEF TypeOK
  <2>2. LockInv'
    BY <2>0 DEF TypeOK, LockInv
  <2>3. RoundInv'
    BY <2>0 DEF TypeOK, LockInv, RoundInv
  <2>4. FlagInv'
    BY <2>0 DEF TypeOK, LockInv, FlagInv, EmptyFlagRight
  <2> QED
    BY <2>1, <2>2, <2>3, <2>4
<1>8. ASSUME NEW c \in Consumers, Timeout(c) PROVE IInv'
  BY <1>8 DEF Timeout, TypeOK, LockInv, RoundInv, FlagInv, EmptyFlagRight
<1>9. ASSUME NEW p \in Producers, Spurious(p) PROVE IInv'
  BY <1>9 DEF Spurious, TypeOK, LockInv, RoundInv, FlagInv, EmptyFlagRight
<1>10. ASSUME set_done PROVE IInv'
  BY <1>10 DEF set_done, TypeOK, LockInv, RoundInv, FlagInv, EmptyFlagRight
<1>11. ASSUME undone PROVE IInv'
  <2>1. owner = NoThread
    BY <1>11 DEF undone, TypeOK, LockInv, RoundInv
  <2>2. pc' \in [Threads -> {"ready", "notFull", "notEmpty", "pushed", "popped", "exit"}]
    BY <1>11 DEF undone
  <2>3. m_done' \in BOOLEAN /\ m_isEmpty' \in BOOLEAN
    BY <1>11, Zenon DEF undone, TypeOK
  <2>4. TypeOK'
    BY <1>11, <2>2, <2>3 DEF undone, TypeOK
  <2>5. LockInv'
    BY <1>11, <2>1 DEF undone, LockInv
  <2>6. RoundInv'
    BY <1>11 DEF undone, RoundInv
  <2>7. FlagInv'
    BY <1>11, <2>1 DEF undone, FlagInv, EmptyFlagRight
  <2> QED
    BY <2>4, <2>5, <2>6, <2>7
<1>12. CASE UNCHANGED vars
  BY <1>12 DEF vars, TypeOK, LockInv, RoundInv, FlagInv, EmptyFlagRight
<1> QED
  BY <1>1, <1>2, <1>3, <1>4, <1>5, <1>6, <1>7, <1>8, <1>9, <1>10, <1>11, <1>12
     DEF Next, ProducerStep, ConsumerStep

(* Every variable keeps its type.                                          *)
THEOREM TypeCorrect == Spec => []TypeOK
<1>1. IInv => TypeOK
  BY DEF IInv
<1> QED
  BY InitIInv, NextIInv, <1>1, PTL DEF Spec

(* The flag empty() reads without the lock agrees with the buffer whenever *)
(* no thread is inside push or pop.                                        *)
THEOREM FlagCorrect == Spec => []EmptyFlagRight
<1>1. IInv => EmptyFlagRight
  BY DEF IInv, FlagInv
<1> QED
  BY InitIInv, NextIInv, <1>1, PTL DEF Spec

----------------------------------------------------------------------------
(* Refinement.                                                             *)

LEMMA InitFifo == Init => Fifo!Init
  BY DEF Init, Fifo!Init

LEMMA NextFifo == IInv /\ [Next]_vars => [Fifo!Next]_<<m_queue, m_done, {c \in Consumers : pc[c] = "exit"}>>
<1> DEFINE ended == {c \in Consumers : pc[c] = "exit"}
<1> SUFFICES ASSUME IInv, [Next]_vars
             PROVE  Fifo!Next \/ UNCHANGED <<m_queue, m_done, ended>>
  OBVIOUS
<1> USE DEF IInv
(* A step that leaves the buffer and the flag alone, and in which no       *)
(* consumer enters or leaves "exit", is a stutter.                         *)
<1>0. ASSUME \A c \in Consumers : pc'[c] = "exit" <=> pc[c] = "exit" PROVE ended' = ended
  BY <1>0
<1>1. ASSUME NEW p \in Producers, Push(p) PROVE Fifo!Next
  <2>1. ended' = ended
    BY <1>0, <1>1 DEF Push, CanPush, CanLock, TypeOK
  <2>2. <<p, pushed[p] + 1>> \in Element
    BY <1>1 DEF Push, CanPush, TypeOK, Element
  <2>3. ~ m_done /\ Len(m_queue) < Size
    BY <1>1 DEF Push, CanPush, TypeOK, RoundInv
  <2>4. Fifo!Put(<<p, pushed[p] + 1>>)
    BY <1>1, <2>1, <2>3 DEF Push, Fifo!Put
  <2> QED
    BY <2>2, <2>4 DEF Fifo!Next
<1>2. ASSUME NEW c \in Consumers, Pop(c) PROVE Fifo!Next
  <2>1. ended' = ended /\ c \notin ended
    BY <1>0, <1>2 DEF Pop, CanLock, TypeOK
  <2>2. Fifo!Get(c)
    BY <1>2, <2>1 DEF Pop, Fifo!Get
  <2> QED
    BY <2>2 DEF Fifo!Next
<1>3. ASSUME NEW c \in Consumers, PopFalse(c) PROVE Fifo!Next
  <2>1. ended' = ended \cup {c}
    BY <1>3 DEF PopFalse, CanLock, TypeOK
  <2>2. Fifo!End(c)
    BY <1>3, <2>1 DEF PopFalse, Fifo!End
  <2> QED
    BY <2>2 DEF Fifo!Next
<1>4. ASSUME set_done PROVE Fifo!Next
  BY <1>4 DEF set_done, Fifo!Next, Fifo!Close
<1>5. ASSUME undone PROVE Fifo!Next
  <2>1. ended = Consumers /\ ended' = {}
    BY <1>5 DEF undone
  <2> QED
    BY <1>5, <2>1 DEF undone, Fifo!Next, Fifo!Reopen
<1>6. ASSUME NEW p \in Producers, WaitNotFull(p) \/ PushReturn(p) \/ Spurious(p)
      PROVE  UNCHANGED <<m_queue, m_done, ended>>
  <2>1. CASE PushReturn(p)
    BY <1>0, <2>1, NotifyOne DEF PushReturn, LockInv, TypeOK
  <2>2. CASE WaitNotFull(p) \/ Spurious(p)
    BY <1>0, <2>2 DEF WaitNotFull, Spurious, CanPush, CanLock, TypeOK
  <2> QED
    BY <1>6, <2>1, <2>2
<1>7. ASSUME NEW c \in Consumers, WaitNotEmpty(c) \/ PopReturn(c) \/ Timeout(c)
      PROVE  UNCHANGED <<m_queue, m_done, ended>>
  <2>1. CASE PopReturn(c)
    BY <1>0, <2>1, NotifyOne DEF PopReturn, LockInv, TypeOK
  <2>2. CASE WaitNotEmpty(c) \/ Timeout(c)
    BY <1>0, <2>2 DEF WaitNotEmpty, Timeout, CanLock, TypeOK
  <2> QED
    BY <1>7, <2>1, <2>2
<1>8. CASE UNCHANGED vars
  BY <1>8 DEF vars
<1> QED
  BY <1>1, <1>2, <1>3, <1>4, <1>5, <1>6, <1>7, <1>8 DEF Next, ProducerStep, ConsumerStep

(* BlockQueue implements the bounded FIFO: each step of a thread is a      *)
(* step of the abstract queue or invisible to it.                          *)
THEOREM Refinement == Spec => ImplementsFifo
  BY InitIInv, NextIInv, InitFifo, NextFifo, PTL DEF Spec, ImplementsFifo, Fifo!Spec
=============================================================================
