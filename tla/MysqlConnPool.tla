--------------------------- MODULE MysqlConnPool ---------------------------
(***************************************************************************)
(* The pool of MySQL connections and MysqlConn, which holds one for the    *)
(* time of a query.  Any number of threads run isFileUnique (select, fetch *)
(* the result) and addFile (insert) over m_maxconn connections.            *)
(*                                                                         *)
(* All of the pool's state is touched under m_mtx only, so a critical      *)
(* section is one step; a thread that waits on m_cond_notEmpty has left it.*)
(***************************************************************************)
EXTENDS Naturals, Sequences, FiniteSets

CONSTANTS
  Threads,        (* the threads that run queries                          *)
  m_maxconn       (* number of connections, opened by the constructor      *)

ASSUME MaxconnAssumption == m_maxconn \in Nat \ {0}
ASSUME ThreadsFinite == IsFiniteSet(Threads)

Conns == 1 .. m_maxconn

(* m_conn of a thread that has no MysqlConn; the answer of no query.       *)
NoConn == 0

VARIABLES
  m_connpool, m_freeconn,
  m_conn,       (* the connection of each thread's MysqlConn               *)
  pc,           (* idle; get: in get_connection, about to lock; waiting on *)
                (* m_cond_notEmpty; got: has a connection; asked: its      *)
                (* select is answered, the result not fetched; failed: its *)
                (* select failed; release; ended: the process is no more   *)
  answered      (* the thread whose select each connection answered last   *)

vars == <<m_connpool, m_freeconn, m_conn, pc, answered>>

(* The constructor opens m_maxconn connections (it exits if it cannot).    *)
Init ==
  /\ m_connpool = [i \in Conns |-> i]
  /\ m_freeconn = m_maxconn
  /\ m_conn = [t \in Threads |-> NoConn]
  /\ pc = [t \in Threads |-> "idle"]
  /\ answered = [c \in Conns |-> {}]

InPool(c) == \E i \in DOMAIN m_connpool : m_connpool[i] = c

----------------------------------------------------------------------------
(* isFileUnique or addFile begins: the constructor of MysqlConn.           *)
MysqlConn(t) ==
  /\ pc[t] = "idle"
  /\ pc' = [pc EXCEPT ![t] = "get"]
  /\ UNCHANGED <<m_connpool, m_freeconn, m_conn, answered>>

(* get_connection: wait while no connection is free ...                    *)
Wait(t) ==
  /\ pc[t] = "get" /\ m_freeconn = 0
  /\ pc' = [pc EXCEPT ![t] = "waiting"]
  /\ UNCHANGED <<m_connpool, m_freeconn, m_conn, answered>>

(* Faults: the front element is not removed; the counter is forgotten.     *)
get_connectionKeeps(t) ==
  /\ pc[t] = "get" /\ m_freeconn # 0
  /\ m_conn' = [m_conn EXCEPT ![t] = Head(m_connpool)]
  /\ m_freeconn' = m_freeconn - 1
  /\ pc' = [pc EXCEPT ![t] = "got"]
  /\ UNCHANGED <<m_connpool, answered>>

get_connectionUncounted(t) ==
  /\ pc[t] = "get" /\ m_connpool # << >>
  /\ m_conn' = [m_conn EXCEPT ![t] = Head(m_connpool)]
  /\ m_connpool' = Tail(m_connpool)
  /\ pc' = [pc EXCEPT ![t] = "got"]
  /\ UNCHANGED <<m_freeconn, answered>>

(* ... and take the one at the front.                                      *)
get_connection(t) ==
  /\ pc[t] = "get" /\ m_freeconn # 0
  /\ m_conn' = [m_conn EXCEPT ![t] = Head(m_connpool)]
  /\ m_connpool' = Tail(m_connpool)
  /\ m_freeconn' = m_freeconn - 1
  /\ pc' = [pc EXCEPT ![t] = "got"]
  /\ UNCHANGED answered

(* A wait may return without a notification.                               *)
Spurious(t) ==
  /\ pc[t] = "waiting"
  /\ pc' = [pc EXCEPT ![t] = "get"]
  /\ UNCHANGED <<m_connpool, m_freeconn, m_conn, answered>>

(* hasResult: the select.  The connection now holds the answer for t; or   *)
(* the select fails, which nobody looks at.                                *)
mysql_query(t) ==
  /\ pc[t] = "got"
  /\ \/ /\ answered' = [answered EXCEPT ![m_conn[t]] = {t}]
        /\ pc' = [pc EXCEPT ![t] = "asked"]
     \/ /\ answered' = [answered EXCEPT ![m_conn[t]] = {}]
        /\ pc' = [pc EXCEPT ![t] = "failed"]
  /\ UNCHANGED <<m_connpool, m_freeconn, m_conn>>

(* t fetches the answer the connection holds.                              *)
mysql_store_result(t) ==
  /\ pc[t] = "asked"
  /\ answered' = [answered EXCEPT ![m_conn[t]] = {}]
  /\ pc' = [pc EXCEPT ![t] = "release"]
  /\ UNCHANGED <<m_connpool, m_freeconn, m_conn>>

(* After a failed select the result is a null pointer: mysql_num_rows      *)
(* follows it, and the process ends with all its threads.                  *)
mysql_num_rows(t) ==
  /\ pc[t] = "failed"
  /\ pc' = [pc EXCEPT ![t] = "ended"]
  /\ UNCHANGED <<m_connpool, m_freeconn, m_conn, answered>>

(* executeInsertion: an insert has no result to fetch, failed or not.      *)
executeInsertion(t) ==
  /\ pc[t] = "got"
  /\ answered' = [answered EXCEPT ![m_conn[t]] = {}]
  /\ pc' = [pc EXCEPT ![t] = "release"]
  /\ UNCHANGED <<m_connpool, m_freeconn, m_conn>>

(* Thread t leaves release_connection and wakes one waiting thread, if any.*)
notify_one(t) ==
  LET waiting == {u \in Threads : pc[u] = "waiting"}
  IN \/ /\ waiting = {}
        /\ pc' = [pc EXCEPT ![t] = "idle"]
     \/ \E u \in waiting : pc' = [pc EXCEPT ![t] = "idle", ![u] = "get"]

(* Fault: release_connection notifies only when the pool was empty.        *)
release_connectionFirstOnly(t) ==
  /\ pc[t] = "release"
  /\ ~ InPool(m_conn[t])
  /\ m_connpool' = Append(m_connpool, m_conn[t])
  /\ m_freeconn' = m_freeconn + 1
  /\ IF m_freeconn = 0 THEN notify_one(t) ELSE pc' = [pc EXCEPT ![t] = "idle"]
  /\ m_conn' = [m_conn EXCEPT ![t] = NoConn]
  /\ UNCHANGED answered

(* Fault: it notifies nobody.                                              *)
release_connectionSilent(t) ==
  /\ pc[t] = "release"
  /\ ~ InPool(m_conn[t])
  /\ m_connpool' = Append(m_connpool, m_conn[t])
  /\ m_freeconn' = m_freeconn + 1
  /\ pc' = [pc EXCEPT ![t] = "idle"]
  /\ m_conn' = [m_conn EXCEPT ![t] = NoConn]
  /\ UNCHANGED answered

(* The destructor of MysqlConn: release_connection.  A connection that is  *)
(* in the pool already would be ignored.                                   *)
release_connection(t) ==
  /\ pc[t] = "release"
  /\ IF InPool(m_conn[t])
     THEN pc' = [pc EXCEPT ![t] = "idle"] /\ UNCHANGED <<m_connpool, m_freeconn>>
     ELSE /\ m_connpool' = Append(m_connpool, m_conn[t])
          /\ m_freeconn' = m_freeconn + 1
          /\ notify_one(t)
  /\ m_conn' = [m_conn EXCEPT ![t] = NoConn]
  /\ UNCHANGED answered

(* What a thread that has begun a query does by itself.                    *)
Step(t) ==
  \/ Wait(t) \/ get_connection(t)
  \/ mysql_query(t) \/ mysql_store_result(t) \/ mysql_num_rows(t) \/ executeInsertion(t)
  \/ release_connection(t)

Alive == \A t \in Threads : pc[t] # "ended"

Ended == ~ Alive /\ UNCHANGED vars

Next ==
  \/ Alive /\ \E t \in Threads : MysqlConn(t) \/ Step(t) \/ Spurious(t)
  \/ Ended

Spec == Init /\ [][Next]_vars

(* A thread that can run runs on.  Nothing makes anybody begin a query or  *)
(* wake up without a notification.                                         *)
FairSpec == Spec /\ \A t \in Threads : WF_vars(Alive /\ Step(t))

----------------------------------------------------------------------------
(* Every variable holds a value the code's types allow.                    *)
TypeOK ==
  /\ m_connpool \in Seq(Conns)
  /\ m_freeconn \in 0 .. m_maxconn
  /\ m_conn \in [Threads -> Conns \cup {NoConn}]
  /\ pc \in [Threads -> {"idle", "get", "waiting", "got", "asked", "failed", "release",
                         "ended"}]
  /\ answered \in [Conns -> SUBSET Threads]

(* get_connection and release_connection hand every connection around      *)
(* whole: none is in the pool twice, in two threads' hands, or in both;    *)
(* and none disappears.                                                    *)
NoneSharedNoneLost ==
  /\ m_freeconn = Len(m_connpool)
  /\ \A i, j \in DOMAIN m_connpool : m_connpool[i] = m_connpool[j] => i = j
  /\ \A t \in Threads : m_conn[t] # NoConn => ~ InPool(m_conn[t])
  /\ \A t, u \in Threads : m_conn[t] = m_conn[u] /\ m_conn[t] # NoConn => t = u
  /\ \A c \in Conns : InPool(c) \/ \E t \in Threads : m_conn[t] = c

(* hasResult counts the rows of its own select: no other query runs on the *)
(* connection between mysql_query and mysql_store_result.                  *)
OwnAnswer == \A t \in Threads : pc[t] = "asked" => answered[m_conn[t]] = {t}

(* While somebody sleeps in get_connection, every free connection has a    *)
(* thread that is on its way to take it: one notify_one per release is     *)
(* enough, although threads that never slept may take the connection that  *)
(* a sleeper was woken for.                                                *)
NoWakeupLost ==
  (\E t \in Threads : pc[t] = "waiting")
     => Cardinality({t \in Threads : pc[t] = "get"}) >= m_freeconn

(* When a query wants a connection, some query gets one, even if nobody    *)
(* begins another query: get_connection has no timeout to save it.  (Or a  *)
(* select fails, and the process ends.)                                    *)
SomebodyServed ==
  (\E t \in Threads : pc[t] \in {"get", "waiting"})
     ~> (\E t \in Threads : pc[t] \in {"got", "ended"})
=============================================================================
