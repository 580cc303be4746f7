------------------------ MODULE MysqlConnPoolProofs ------------------------
(***************************************************************************)
(* For every number of threads and connections: the pool hands each        *)
(* connection to one thread at a time and loses none, a thread reads the   *)
(* answer of its own select, and no wakeup is lost.                        *)
(***************************************************************************)
EXTENDS MysqlConnPool, FiniteSetTheorems, TLAPS

(* A thread has a connection from get_connection to the end of release.    *)
HoldInv ==
  \A t \in Threads :
    pc[t] \in {"got", "asked", "failed", "release", "ended"} <=> m_conn[t] # NoConn

IInv == TypeOK /\ NoneSharedNoneLost /\ HoldInv /\ OwnAnswer

Places == {"idle", "get", "waiting", "got", "asked", "failed", "release", "ended"}

Getters == {t \in Threads : pc[t] = "get"}

USE MaxconnAssumption DEF MaxconnAssumption, Conns, NoConn, Places

(* A list without repetitions holds at most m_maxconn connections.         *)
LEMMA PoolBound ==
  ASSUME NEW p \in Seq(Conns),
         \A i, j \in DOMAIN p : p[i] = p[j] => i = j
  PROVE  Len(p) <= m_maxconn
<1> SUFFICES ASSUME ~ (Len(p) <= m_maxconn) PROVE FALSE
  OBVIOUS
<1> DEFINE n == Len(p)
<1>1. n \in Nat /\ n > m_maxconn /\ p \in [1 .. n -> 1 .. m_maxconn]
  OBVIOUS
<1> HIDE DEF n
<1>2. /\ IsFiniteSet(1 .. n) /\ Cardinality(1 .. n) = n
      /\ IsFiniteSet(1 .. m_maxconn) /\ Cardinality(1 .. m_maxconn) = m_maxconn
  BY <1>1, FS_Interval
<1>3. Cardinality(1 .. m_maxconn) < Cardinality(1 .. n)
  BY <1>1, <1>2
<1>4. \E i, j \in 1 .. n : i # j /\ p[i] = p[j]
  BY ZenonT(60), <1>1, <1>2, <1>3, FS_PigeonHole
<1> QED
  BY <1>1, <1>4

(* A connection put at the end of the list leaves the rest where it is.    *)
LEMMA PutBack ==
  ASSUME NEW p \in Seq(Conns), NEW c \in Conns, NEW q, q = Append(p, c)
  PROVE  /\ q \in Seq(Conns) /\ Len(q) = Len(p) + 1
         /\ \A i \in DOMAIN p : i \in DOMAIN q /\ q[i] = p[i]
         /\ \A i \in DOMAIN q : i \in DOMAIN p \/ i = Len(q)
         /\ Len(q) \in DOMAIN q /\ q[Len(q)] = c
<1>1. q \in Seq(Conns) /\ Len(q) = Len(p) + 1
  OBVIOUS
<1>2. DOMAIN p = 1 .. Len(p) /\ DOMAIN q = 1 .. Len(q) /\ Len(p) \in Nat
  BY <1>1
<1>3. \A i \in 1 .. Len(p) : q[i] = p[i]
  OBVIOUS
<1>4. q[Len(p) + 1] = c
  OBVIOUS
<1> QED
  BY <1>1, <1>2, <1>3, <1>4

(* Waking a thread moves it from the wait set to the entry of              *)
(* get_connection; the releasing thread is idle.                           *)
LEMMA NotifyOne ==
  ASSUME TypeOK, NEW t \in Threads, pc[t] = "release", notify_one(t)
  PROVE  /\ pc' \in [Threads -> Places]
         /\ pc'[t] = "idle"
         /\ \A u \in Threads : u # t => pc'[u] = pc[u] \/ (pc[u] = "waiting" /\ pc'[u] = "get")
  BY DEF TypeOK, notify_one

LEMMA InitIInv == Init => IInv
  BY DEF Init, IInv, TypeOK, NoneSharedNoneLost, HoldInv, OwnAnswer, InPool

(* Steps that leave pool and holders alone.                                *)
LEMMA Outside ==
  ASSUME IInv, NEW t \in Threads,
         \/ MysqlConn(t) \/ Wait(t) \/ Spurious(t)
         \/ mysql_query(t) \/ mysql_store_result(t) \/ mysql_num_rows(t) \/ executeInsertion(t)
  PROVE  IInv'
<1> USE DEF IInv, MysqlConn, Wait, Spurious, mysql_query, mysql_store_result, mysql_num_rows, executeInsertion
<1>1. m_connpool' = m_connpool /\ m_freeconn' = m_freeconn /\ m_conn' = m_conn
  OBVIOUS
<1>2. TypeOK'
  <2>1. pc' \in [Threads -> Places]
    BY DEF TypeOK
  <2>2. answered' \in [Conns -> SUBSET Threads]
    <3>1. answered' = answered \/ answered' = [answered EXCEPT ![m_conn[t]] = {t}]
            \/ answered' = [answered EXCEPT ![m_conn[t]] = {}]
      OBVIOUS
    <3>2. {t} \in SUBSET Threads /\ {} \in SUBSET Threads
      OBVIOUS
    <3>3. answered \in [Conns -> SUBSET Threads]
      BY DEF TypeOK
    <3> QED
      BY <3>1, <3>2, <3>3, Zenon
  <2> QED
    BY <1>1, <2>1, <2>2 DEF TypeOK
<1>3. NoneSharedNoneLost'
  BY <1>1 DEF NoneSharedNoneLost, InPool
<1>4. HoldInv'
  BY DEF TypeOK, HoldInv
<1>5. OwnAnswer'
  BY DEF TypeOK, HoldInv, OwnAnswer, NoneSharedNoneLost
<1> QED
  BY <1>2, <1>3, <1>4, <1>5

LEMMA Getting ==
  ASSUME IInv, NEW t \in Threads, get_connection(t)
  PROVE  IInv'
<1> USE DEF IInv, get_connection
<1>1. /\ m_connpool # << >> /\ m_connpool \in Seq(Conns)
      /\ Head(m_connpool) = m_connpool[1] /\ m_connpool[1] \in Conns
      /\ m_connpool' \in Seq(Conns)
      /\ Len(m_connpool') = Len(m_connpool) - 1
      /\ \A i \in DOMAIN m_connpool' : i + 1 \in DOMAIN m_connpool
                                       /\ m_connpool'[i] = m_connpool[i + 1]
      /\ \A i \in DOMAIN m_connpool : i = 1 \/ i - 1 \in DOMAIN m_connpool'
  BY DEF TypeOK, NoneSharedNoneLost
<1>2. m_conn[t] = NoConn
  BY DEF HoldInv
<1>3. TypeOK'
  BY <1>1 DEF TypeOK, NoneSharedNoneLost
<1>4. /\ m_conn'[t] = m_connpool[1]
      /\ \A u \in Threads : u # t => m_conn'[u] = m_conn[u]
  BY <1>1 DEF TypeOK
<1>5. NoneSharedNoneLost'
  <2>1. m_freeconn' = Len(m_connpool')
    BY <1>1 DEF TypeOK, NoneSharedNoneLost
  <2>2. \A i, j \in DOMAIN m_connpool' : m_connpool'[i] = m_connpool'[j] => i = j
    <3> SUFFICES ASSUME NEW i \in DOMAIN m_connpool', NEW j \in DOMAIN m_connpool',
                        m_connpool'[i] = m_connpool'[j]
                 PROVE  i = j
      OBVIOUS
    <3>1. i + 1 = j + 1
      BY <1>1 DEF NoneSharedNoneLost
    <3> QED
      BY <1>1, <3>1
  <2>3. \A u \in Threads : m_conn'[u] # NoConn => ~ InPool(m_conn[u])'
    <3> SUFFICES ASSUME NEW u \in Threads, m_conn'[u] # NoConn,
                        NEW i \in DOMAIN m_connpool', m_connpool'[i] = m_conn'[u]
                 PROVE  FALSE
      BY DEF InPool
    <3>1. i + 1 \in DOMAIN m_connpool /\ m_connpool[i + 1] = m_conn'[u] /\ i + 1 # 1
      BY <1>1
    <3>2. CASE u = t
      BY SMTT(30), <1>1, <1>4, <3>1, <3>2 DEF NoneSharedNoneLost
    <3>3. CASE u # t
      BY <1>4, <3>1, <3>3 DEF NoneSharedNoneLost, InPool
    <3> QED
      BY <3>2, <3>3
  <2>4. \A u, v \in Threads : m_conn'[u] = m_conn'[v] /\ m_conn'[u] # NoConn => u = v
    BY SMTT(30), <1>1, <1>4 DEF NoneSharedNoneLost, InPool
  <2>5. \A c \in Conns : InPool(c)' \/ \E u \in Threads : m_conn'[u] = c
    <3> SUFFICES ASSUME NEW c \in Conns PROVE InPool(c)' \/ \E u \in Threads : m_conn'[u] = c
      OBVIOUS
    <3>1. CASE \E u \in Threads : m_conn[u] = c
      BY <1>2, <1>4, <3>1
    <3>2. CASE InPool(c)
      <4>1. PICK i \in DOMAIN m_connpool : m_connpool[i] = c
        BY <3>2 DEF InPool
      <4>2. CASE i = 1
        BY <1>4, <4>1, <4>2
      <4>3. CASE i # 1
        <5>1. i - 1 \in DOMAIN m_connpool' /\ m_connpool'[i - 1] = m_connpool[(i - 1) + 1]
          BY <1>1, <4>3
        <5>2. (i - 1) + 1 = i
          BY <1>1
        <5> QED
          BY <4>1, <5>1, <5>2 DEF InPool
      <4> QED
        BY <4>2, <4>3
    <3> QED
      BY <3>1, <3>2 DEF NoneSharedNoneLost
  <2> QED
    BY <2>1, <2>2, <2>3, <2>4, <2>5 DEF NoneSharedNoneLost
<1>6. HoldInv'
  BY <1>1, <1>4 DEF TypeOK, HoldInv
<1>7. OwnAnswer'
  BY <1>4 DEF TypeOK, OwnAnswer
<1> QED
  BY <1>3, <1>5, <1>6, <1>7

(* The connection a thread gives back is never in the pool already.        *)
LEMMA Releasing ==
  ASSUME IInv, NEW t \in Threads, release_connection(t)
  PROVE  IInv'
<1> USE DEF IInv, release_connection
<1> DEFINE c == m_conn[t]
<1>1. c \in Conns /\ ~ InPool(c)
  BY DEF TypeOK, HoldInv, NoneSharedNoneLost
<1>a. /\ m_connpool \in Seq(Conns)
      /\ m_connpool' = Append(m_connpool, c)
      /\ m_freeconn' = m_freeconn + 1
  BY <1>1 DEF TypeOK
<1> HIDE DEF c
<1>2. /\ m_connpool' \in Seq(Conns) /\ Len(m_connpool') = Len(m_connpool) + 1
      /\ \A i \in DOMAIN m_connpool : i \in DOMAIN m_connpool' /\ m_connpool'[i] = m_connpool[i]
      /\ \A i \in DOMAIN m_connpool' : i \in DOMAIN m_connpool \/ i = Len(m_connpool')
      /\ Len(m_connpool') \in DOMAIN m_connpool' /\ m_connpool'[Len(m_connpool')] = c
  BY <1>1, <1>a, PutBack
<1> USE DEF c
<1>3. /\ m_conn'[t] = NoConn
      /\ \A u \in Threads : u # t => m_conn'[u] = m_conn[u]
      /\ m_conn' \in [Threads -> Conns \cup {NoConn}]
  BY DEF TypeOK
<1>4. /\ pc' \in [Threads -> Places]
      /\ pc'[t] = "idle"
      /\ \A u \in Threads : u # t => pc'[u] = pc[u] \/ (pc[u] = "waiting" /\ pc'[u] = "get")
  BY <1>1, NotifyOne
<1>5. NoneSharedNoneLost'
  <2>1. m_freeconn' = Len(m_connpool')
    BY <1>2, <1>a DEF TypeOK, NoneSharedNoneLost
  <2>2. \A i, j \in DOMAIN m_connpool' : m_connpool'[i] = m_connpool'[j] => i = j
    BY <1>1, <1>2, <1>a DEF NoneSharedNoneLost, InPool
  <2>3. \A u \in Threads : m_conn'[u] # NoConn => ~ InPool(m_conn[u])'
    <3> SUFFICES ASSUME NEW u \in Threads, m_conn'[u] # NoConn,
                        NEW i \in DOMAIN m_connpool', m_connpool'[i] = m_conn'[u]
                 PROVE  FALSE
      BY DEF InPool
    <3>1. u # t /\ m_conn[u] = m_conn'[u]
      BY <1>3
    <3>2. m_conn[u] # c
      BY <1>1, <1>3, <3>1 DEF NoneSharedNoneLost
    <3>3. i \in DOMAIN m_connpool /\ m_connpool[i] = m_conn[u]
      BY <1>2, <1>a, <3>1, <3>2
    <3> QED
      BY <3>1, <3>3 DEF NoneSharedNoneLost, InPool
  <2>4. \A u, v \in Threads : m_conn'[u] = m_conn'[v] /\ m_conn'[u] # NoConn => u = v
    BY <1>3 DEF NoneSharedNoneLost
  <2>5. \A d \in Conns : InPool(d)' \/ \E u \in Threads : m_conn'[u] = d
    BY <1>2, <1>a, <1>3 DEF NoneSharedNoneLost, InPool
  <2> QED
    BY <2>1, <2>2, <2>3, <2>4, <2>5 DEF NoneSharedNoneLost
<1>6. m_freeconn' \in 0 .. m_maxconn
  <2>1. Len(m_connpool') <= m_maxconn
    BY <1>2, <1>a, <1>5, PoolBound DEF NoneSharedNoneLost
  <2> QED
    BY <1>2, <1>a, <1>5, <2>1 DEF NoneSharedNoneLost
<1>7. TypeOK'
  BY <1>2, <1>a, <1>3, <1>4, <1>6 DEF TypeOK
<1>8. HoldInv'
  BY <1>3, <1>4 DEF HoldInv
<1>9. OwnAnswer'
  BY <1>3, <1>4 DEF OwnAnswer
<1> QED
  BY <1>5, <1>7, <1>8, <1>9

LEMMA NextIInv == IInv /\ [Next]_vars => IInv'
<1> SUFFICES ASSUME IInv, [Next]_vars PROVE IInv'
  OBVIOUS
<1>1. ASSUME NEW t \in Threads, MysqlConn(t) \/ Step(t) \/ Spurious(t) PROVE IInv'
  BY <1>1, Outside, Getting, Releasing DEF Step
<1>2. CASE UNCHANGED vars
  BY <1>2 DEF vars, IInv, TypeOK, NoneSharedNoneLost, HoldInv, OwnAnswer, InPool
<1> QED
  BY <1>1, <1>2 DEF Next, Ended

(* The pool's variables keep their types; in particular m_freeconn stays   *)
(* within the number of connections.                                       *)
THEOREM PoolTyped == Spec => []TypeOK
<1>1. IInv => TypeOK
  BY DEF IInv
<1> QED
  BY <1>1, InitIInv, NextIInv, PTL DEF Spec

(* No connection is shared or lost, for every number of threads and        *)
(* connections.                                                            *)
THEOREM PoolSound == Spec => []NoneSharedNoneLost
<1>1. IInv => NoneSharedNoneLost
  BY DEF IInv
<1> QED
  BY <1>1, InitIInv, NextIInv, PTL DEF Spec

(* A select is never disturbed by another thread's query.                  *)
THEOREM AnswersOwn == Spec => []OwnAnswer
<1>1. IInv => OwnAnswer
  BY DEF IInv
<1> QED
  BY <1>1, InitIInv, NextIInv, PTL DEF Spec

----------------------------------------------------------------------------
(* Every step keeps as many threads on their way to the pool as there are  *)
(* free connections, while anybody sleeps.                                 *)
LEMMA NextWakeup == IInv /\ NoWakeupLost /\ [Next]_vars => NoWakeupLost'
<1> SUFFICES ASSUME IInv, NoWakeupLost, [Next]_vars,
                    NEW w \in Threads, pc'[w] = "waiting"
             PROVE  Cardinality(Getters') >= m_freeconn'
  BY DEF NoWakeupLost, Getters
<1> USE DEF IInv
<1>0. /\ IsFiniteSet(Getters) /\ Cardinality(Getters) \in Nat
      /\ m_freeconn \in Nat
      /\ pc[w] = "waiting" => Cardinality(Getters) >= m_freeconn
  <2>1. IsFiniteSet(Getters)
    BY ThreadsFinite, FS_Subset DEF Getters, ThreadsFinite
  <2>2. Cardinality(Getters) \in Nat
    BY <2>1, FS_CardinalityType
  <2> QED
    BY <2>1, <2>2 DEF NoWakeupLost, Getters, TypeOK
<1>1. ASSUME NEW t \in Threads, MysqlConn(t) \/ Spurious(t) PROVE Cardinality(Getters') >= m_freeconn'
  <2>1. Getters' = Getters \cup {t} /\ t \notin Getters /\ m_freeconn' = m_freeconn
    BY <1>1 DEF MysqlConn, Spurious, Getters, TypeOK
  <2>2. pc[w] = "waiting"
    BY <1>1 DEF MysqlConn, Spurious, TypeOK
  <2>3. Cardinality(Getters \cup {t}) = Cardinality(Getters) + 1
    BY <1>0, <2>1, FS_AddElement
  <2> QED
    BY <1>0, <2>1, <2>2, <2>3
<1>2. ASSUME NEW t \in Threads, Wait(t) PROVE Cardinality(Getters') >= m_freeconn'
  <2>1. Getters' = Getters \ {t} /\ m_freeconn' = 0
    BY <1>2 DEF Wait, Getters, TypeOK
  <2>2. IsFiniteSet(Getters \ {t})
    BY <1>0, FS_RemoveElement
  <2>3. Cardinality(Getters \ {t}) \in Nat
    BY <2>2, FS_CardinalityType
  <2> QED
    BY <2>1, <2>3
<1>3. ASSUME NEW t \in Threads, get_connection(t) PROVE Cardinality(Getters') >= m_freeconn'
  <2>1. Getters' = Getters \ {t} /\ t \in Getters /\ m_freeconn' = m_freeconn - 1
    BY <1>3 DEF get_connection, Getters, TypeOK
  <2>2. pc[w] = "waiting"
    BY <1>3 DEF get_connection, TypeOK
  <2>3. Cardinality(Getters \ {t}) = Cardinality(Getters) - 1
    BY <1>0, <2>1, FS_RemoveElement
  <2> QED
    BY <1>0, <2>1, <2>2, <2>3
<1>4. ASSUME NEW t \in Threads, \/ mysql_query(t) \/ mysql_store_result(t)
                            \/ mysql_num_rows(t) \/ executeInsertion(t)
      PROVE  Cardinality(Getters') >= m_freeconn'
  <2>1. Getters' = Getters /\ m_freeconn' = m_freeconn /\ pc[w] = "waiting"
    BY <1>4 DEF mysql_query, mysql_store_result, mysql_num_rows, executeInsertion, Getters, TypeOK
  <2> QED
    BY <1>0, <2>1
<1>5. ASSUME NEW t \in Threads, release_connection(t) PROVE Cardinality(Getters') >= m_freeconn'
  <2>1. ~ InPool(m_conn[t]) /\ pc[t] = "release"
    BY <1>5 DEF release_connection, HoldInv, NoneSharedNoneLost
  <2>2. m_freeconn' = m_freeconn + 1 /\ notify_one(t)
    BY <1>5, <2>1 DEF release_connection
  <2>3. pc[w] = "waiting"
    BY <2>1, <2>2 DEF notify_one, TypeOK
  <2>4. PICK u \in Threads : pc[u] = "waiting" /\ pc' = [pc EXCEPT ![t] = "idle", ![u] = "get"]
    BY <2>2, <2>3 DEF notify_one
  <2>5. Getters' = Getters \cup {u} /\ u \notin Getters
    BY <2>1, <2>4 DEF Getters, TypeOK
  <2>6. Cardinality(Getters \cup {u}) = Cardinality(Getters) + 1
    BY <1>0, <2>5, FS_AddElement
  <2> QED
    BY <1>0, <2>2, <2>3, <2>5, <2>6
<1>6. CASE UNCHANGED vars
  <2>1. Getters' = Getters /\ m_freeconn' = m_freeconn /\ pc[w] = "waiting"
    BY <1>6 DEF vars, Getters
  <2> QED
    BY <1>0, <2>1
<1> QED
  BY <1>1, <1>2, <1>3, <1>4, <1>5, <1>6 DEF Next, Ended, Step

(* One notification per release is enough, for every number of threads and *)
(* connections and in spite of barging and spurious wakeups.               *)
THEOREM WakeupsKept == Spec => []NoWakeupLost
<1>1. Init => NoWakeupLost
  BY DEF Init, NoWakeupLost
<1> QED
  BY <1>1, InitIInv, NextIInv, NextWakeup, PTL DEF Spec
=============================================================================
