----------------------------- MODULE BlockQueue -----------------------------
(***************************************************************************)
(* BlockQueue<T>: a bounded buffer with one mutex and two condition        *)
(* variables, under the protocol of ClientConn and DedupClient: producers  *)
(* push Items elements each, then set_done is called, the consumers pop    *)
(* until pop returns false and are joined, undone rearms the queue.        *)
(*                                                                         *)
(* A thread that holds m_mtx excludes the others, so what it does under    *)
(* the lock is split only where another thread can see it without the      *)
(* lock: m_isEmpty (read by empty()) changes after m_queue does, and       *)
(* set_done and undone write m_done without locking.                       *)
(***************************************************************************)
EXTENDS Naturals, Sequences

CONSTANTS
  Producers, Consumers,   (* the threads                                   *)
  Size,                   (* m_size                                        *)
  Items,                  (* elements each producer pushes in a round      *)
  NoThread                (* m_mtx is free                                 *)

Threads == Producers \cup Consumers

ASSUME SizeAssumption == Size \in Nat \ {0}
ASSUME ItemsAssumption == Items \in Nat \ {0}
ASSUME ThreadsAssumption ==
  /\ Producers \cap Consumers = {} /\ Consumers # {} /\ NoThread \notin Threads

VARIABLES
  m_queue,      (* the buffered elements                                   *)
  m_isEmpty, m_done,
  owner,        (* the thread that holds m_mtx between two steps           *)
  pc,           (* ready: outside, or woken up and about to lock;          *)
                (* notFull, notEmpty: waits on that condition variable;    *)
                (* pushed, popped: holds the lock; exit: pop gave false    *)
  pushed        (* elements each producer has pushed in this round         *)

vars == <<m_queue, m_isEmpty, m_done, owner, pc, pushed>>

(* The n-th element of producer p.                                         *)
Element == Producers \X (1 .. Items)

Init ==
  /\ m_queue = << >>
  /\ m_isEmpty = TRUE
  /\ m_done = FALSE
  /\ owner = NoThread
  /\ pc = [t \in Threads |-> "ready"]
  /\ pushed = [p \in Producers |-> 0]

----------------------------------------------------------------------------
(* Thread t, leaving push or pop, wakes one thread waiting on cond, if any.*)
notify_one(t, cond) ==
  LET waiting == {u \in Threads : pc[u] = cond}
  IN \/ /\ waiting = {}
        /\ pc' = [pc EXCEPT ![t] = "ready"]
     \/ \E u \in waiting : pc' = [pc EXCEPT ![t] = "ready", ![u] = "ready"]

(* A thread inside push or pop that finds the mutex free.                  *)
CanLock(t) == pc[t] = "ready" /\ owner = NoThread

CanPush(p) == CanLock(p) /\ pushed[p] < Items

(* push: wait while the buffer is full ...                                 *)
WaitNotFull(p) ==
  /\ CanPush(p) /\ Len(m_queue) = Size
  /\ pc' = [pc EXCEPT ![p] = "notFull"]
  /\ UNCHANGED <<m_queue, m_isEmpty, m_done, owner, pushed>>

(* Fault: push tests the buffer's size with an off-by-one.                 *)
PushBeyond(p) ==
  /\ CanPush(p) /\ Len(m_queue) <= Size
  /\ m_queue' = Append(m_queue, <<p, pushed[p] + 1>>)
  /\ owner' = p
  /\ pc' = [pc EXCEPT ![p] = "pushed"]
  /\ UNCHANGED <<m_isEmpty, m_done, pushed>>

(* ... append the element ...                                              *)
Push(p) ==
  /\ CanPush(p) /\ Len(m_queue) # Size
  /\ m_queue' = Append(m_queue, <<p, pushed[p] + 1>>)
  /\ owner' = p
  /\ pc' = [pc EXCEPT ![p] = "pushed"]
  /\ UNCHANGED <<m_isEmpty, m_done, pushed>>

(* ... clear m_isEmpty, notify a consumer and unlock.                      *)
PushReturn(p) ==
  /\ pc[p] = "pushed"
  /\ m_isEmpty' = FALSE
  /\ notify_one(p, "notEmpty")
  /\ owner' = NoThread
  /\ pushed' = [pushed EXCEPT ![p] = @ + 1]
  /\ UNCHANGED <<m_queue, m_done>>

(* pop: wait, for a second at most, while the buffer is empty and the      *)
(* producers are not done ...                                              *)
WaitNotEmpty(c) ==
  /\ CanLock(c) /\ m_queue = << >> /\ ~ m_done
  /\ pc' = [pc EXCEPT ![c] = "notEmpty"]
  /\ UNCHANGED <<m_queue, m_isEmpty, m_done, owner, pushed>>

(* Fault: m_done is tested before the buffer.                              *)
PopFalseEarly(c) ==
  /\ CanLock(c) /\ m_done
  /\ pc' = [pc EXCEPT ![c] = "exit"]
  /\ UNCHANGED <<m_queue, m_isEmpty, m_done, owner, pushed>>

(* ... return false if they are ...                                        *)
PopFalse(c) ==
  /\ CanLock(c) /\ m_queue = << >> /\ m_done
  /\ pc' = [pc EXCEPT ![c] = "exit"]
  /\ UNCHANGED <<m_queue, m_isEmpty, m_done, owner, pushed>>

(* ... or take the oldest element ...                                      *)
Pop(c) ==
  /\ CanLock(c) /\ m_queue # << >>
  /\ m_queue' = Tail(m_queue)
  /\ owner' = c
  /\ pc' = [pc EXCEPT ![c] = "popped"]
  /\ UNCHANGED <<m_isEmpty, m_done, pushed>>

(* Faults: pop notifies nobody; it sets m_isEmpty whenever an element has  *)
(* been taken.                                                             *)
PopReturnSilent(c) ==
  /\ pc[c] = "popped"
  /\ m_isEmpty' = (m_isEmpty \/ m_queue = << >>)
  /\ pc' = [pc EXCEPT ![c] = "ready"]
  /\ owner' = NoThread
  /\ UNCHANGED <<m_queue, m_done, pushed>>

PopReturnEmpty(c) ==
  /\ pc[c] = "popped"
  /\ m_isEmpty' = TRUE
  /\ notify_one(c, "notFull")
  /\ owner' = NoThread
  /\ UNCHANGED <<m_queue, m_done, pushed>>

(* ... set m_isEmpty if it was the last, notify a producer and unlock.     *)
PopReturn(c) ==
  /\ pc[c] = "popped"
  /\ m_isEmpty' = (m_isEmpty \/ m_queue = << >>)
  /\ notify_one(c, "notFull")
  /\ owner' = NoThread
  /\ UNCHANGED <<m_queue, m_done, pushed>>

(* The timeout of wait_for.                                                *)
Timeout(c) ==
  /\ pc[c] = "notEmpty"
  /\ pc' = [pc EXCEPT ![c] = "ready"]
  /\ UNCHANGED <<m_queue, m_isEmpty, m_done, owner, pushed>>

(* wait may return without a notification (a spurious wakeup).             *)
Spurious(p) ==
  /\ pc[p] = "notFull"
  /\ pc' = [pc EXCEPT ![p] = "ready"]
  /\ UNCHANGED <<m_queue, m_isEmpty, m_done, owner, pushed>>

(* set_done, once the last push has returned.                              *)
set_done ==
  /\ ~ m_done
  /\ \A p \in Producers : pushed[p] = Items
  /\ m_done' = TRUE
  /\ UNCHANGED <<m_queue, m_isEmpty, owner, pc, pushed>>

(* undone, after the consumers have been joined; the next round begins.    *)
undone ==
  /\ \A c \in Consumers : pc[c] = "exit"
  /\ m_done' = FALSE
  /\ pc' = [t \in Threads |-> "ready"]
  /\ pushed' = [p \in Producers |-> 0]
  /\ UNCHANGED <<m_queue, m_isEmpty, owner>>

ProducerStep(p) == WaitNotFull(p) \/ Push(p) \/ PushReturn(p)

ConsumerStep(c) ==
  WaitNotEmpty(c) \/ PopFalse(c) \/ Pop(c) \/ PopReturn(c) \/ Timeout(c)

Next ==
  \/ \E p \in Producers : ProducerStep(p) \/ Spurious(p)
  \/ \E c \in Consumers : ConsumerStep(c)
  \/ set_done \/ undone

Spec == Init /\ [][Next]_vars

(* Every thread runs on and every wait_for times out; spurious wakeups     *)
(* cannot be relied on.                                                    *)
FairSpec ==
  /\ Spec
  /\ \A p \in Producers : WF_vars(ProducerStep(p))
  /\ \A c \in Consumers : WF_vars(ConsumerStep(c))
  /\ WF_vars(set_done) /\ WF_vars(undone)

----------------------------------------------------------------------------
(* Every variable holds a value the code's types allow, and the buffer no  *)
(* more than m_size elements, however many producers push at once.         *)
TypeOK ==
  /\ m_queue \in Seq(Element) /\ Len(m_queue) <= Size
  /\ m_isEmpty \in BOOLEAN
  /\ m_done \in BOOLEAN
  /\ owner \in Threads \cup {NoThread}
  /\ pc \in [Threads -> {"ready", "notFull", "notEmpty", "pushed", "popped", "exit"}]
  /\ pushed \in [Producers -> 0 .. Items]

(* The unlocked flag that empty() returns agrees with the buffer whenever  *)
(* no push or pop is under way.                                            *)
EmptyFlagRight == owner = NoThread => (m_isEmpty <=> m_queue = << >>)

(* BlockQueue implements the bounded FIFO: no element is lost, repeated or *)
(* reordered, the bound holds, and pop returns false only when everything  *)
(* pushed has been taken.                                                  *)
Fifo == INSTANCE BoundedFifo WITH
          fifo <- m_queue, closed <- m_done,
          ended <- {c \in Consumers : pc[c] = "exit"},
          Elements <- Element, Readers <- Consumers

ImplementsFifo == Fifo!Spec

(* Nobody waits for ever: although set_done notifies no one and push waits *)
(* without a timeout, every round comes to its end.                        *)
RoundsEnd == []<>(\A c \in Consumers : pc[c] = "exit")
=============================================================================
