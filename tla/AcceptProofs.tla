---------------------------- MODULE AcceptProofs ----------------------------
(***************************************************************************)
(* Theorems about AcceptLoop, for every set of clients and descriptors and *)
(* every size of the pool, its queue, the backlog and m_events.            *)
(***************************************************************************)
EXTENDS AcceptLoop, TLAPS

(* Every connection is in one place: not accepted (in the backlog), handed *)
(* to append, or in the pool's queue; the last two are not served yet.     *)
PlaceInv ==
  /\ \A i \in DOMAIN backlog : conn[backlog[i]] = "none"
  /\ \A i, j \in DOMAIN backlog : backlog[i] = backlog[j] => i = j
  /\ \A i \in DOMAIN m_requests : conn[m_requests[i]] = "waiting"
                                  /\ m_requests[i] # appending
  /\ \A i, j \in DOMAIN m_requests : m_requests[i] = m_requests[j] => i = j
  /\ appending # NoConn => conn[appending] = "waiting"
  /\ \A c \in Clients : client[c] = "new" =>
       conn[c] = "none" /\ \A i \in DOMAIN backlog : backlog[i] # c

(* An object exists from accept on.  A client that has closed its end was  *)
(* answered, if it did not die.                                            *)
LifeInv ==
  /\ \A c \in Clients : object[c] = "none" <=> conn[c] = "none"
  /\ \A c \in Clients : client[c] = "closed" =>
       c \in died \/ conn[c] \in {"replied", "closed"}
  /\ \A c \in Clients : conn[c] = "none" => fd[c] = NoFd

(* An entry of m_clients is a live object, of the connection that has the  *)
(* descriptor or of one the server has closed; no object has two entries;  *)
(* a watched descriptor has an entry.                                      *)
EntryInv ==
  /\ \A c, d \in Clients : fd[c] = fd[d] /\ fd[c] # NoFd => c = d
  /\ \A f \in Fds : m_clients[f] # NoConn =>
       /\ object[m_clients[f]] = "live"
       /\ fd[m_clients[f]] = f \/ conn[m_clients[f]] = "closed"
  /\ \A f, g \in Fds : m_clients[f] = m_clients[g] /\ m_clients[f] # NoConn => f = g
  /\ \A f \in epoll : m_clients[f] # NoConn

(* Events are different descriptors.  Even if its descriptor has been      *)
(* given to a new connection, an event leads to the entry of a connection  *)
(* whose client or whose server side has closed.                           *)
EventInv ==
  /\ \A i, j \in DOMAIN events : events[i] = events[j] => i = j
  /\ \A i \in DOMAIN events : events[i] # Listen =>
       /\ m_clients[events[i]] # NoConn
       /\ \/ client[m_clients[events[i]]] = "closed"
          \/ conn[m_clients[events[i]]] = "closed"

IInv == /\ TypeOK /\ PlaceInv /\ LifeInv /\ EntryInv /\ EventInv
        /\ NoDoubleDelete /\ DeletedAfterQuit

USE AcceptAssumption DEF AcceptAssumption

----------------------------------------------------------------------------
(* Elements of a queue after a push and after a pop.                       *)

LEMMA AppendElements ==
  ASSUME NEW T, NEW q \in Seq(T), NEW e \in T
  PROVE  /\ Append(q, e) \in Seq(T)
         /\ Len(Append(q, e)) = Len(q) + 1
         /\ \A i \in DOMAIN Append(q, e) :
              \/ i \in DOMAIN q /\ Append(q, e)[i] = q[i]
              \/ i = Len(q) + 1 /\ Append(q, e)[i] = e
  OBVIOUS

LEMMA TailElements ==
  ASSUME NEW T, NEW q \in Seq(T), q # << >>
  PROVE  /\ Head(q) = q[1] /\ 1 \in DOMAIN q /\ Head(q) \in T
         /\ Tail(q) \in Seq(T) /\ Len(Tail(q)) = Len(q) - 1
         /\ \A i \in DOMAIN Tail(q) :
              i \in Nat /\ i + 1 \in DOMAIN q /\ i + 1 # 1 /\ Tail(q)[i] = q[i + 1]
  OBVIOUS

(* No element occurs twice.                                                *)
Distinct(q) == \A i, j \in DOMAIN q : q[i] = q[j] => i = j

LEMMA DistinctAppend ==
  ASSUME NEW T, NEW q \in Seq(T), NEW e \in T, Distinct(q),
         \A i \in DOMAIN q : q[i] # e
  PROVE  Distinct(Append(q, e))
  BY AppendElements DEF Distinct

LEMMA DistinctTail ==
  ASSUME NEW T, NEW q \in Seq(T), q # << >>, Distinct(q)
  PROVE  Distinct(Tail(q)) /\ \A i \in DOMAIN Tail(q) : Tail(q)[i] # Head(q)
<1>1. \A i \in DOMAIN Tail(q) :
        i \in Nat /\ i + 1 \in DOMAIN q /\ i + 1 # 1 /\ Tail(q)[i] = q[i + 1]
  BY TailElements
<1>2. \A i, j \in Nat : i + 1 = j + 1 => i = j
  OBVIOUS
<1>3. Head(q) = q[1] /\ 1 \in DOMAIN q
  BY TailElements
<1> QED
  BY <1>1, <1>2, <1>3 DEF Distinct

----------------------------------------------------------------------------
LEMMA InitIInv == Init => IInv
<1> SUFFICES ASSUME Init PROVE IInv
  OBVIOUS
<1> USE DEF Init, init, ThreadPool
<1>1. TypeOK
  BY DEF TypeOK
<1>2. PlaceInv /\ LifeInv
  BY DEF PlaceInv, LifeInv
<1>3. EntryInv /\ EventInv
  BY DEF EntryInv, EventInv
<1>4. NoDoubleDelete /\ DeletedAfterQuit
  BY DEF NoDoubleDelete, DeletedAfterQuit
<1> QED
  BY <1>1, <1>2, <1>3, <1>4 DEF IInv

(* The clients.                                                            *)
LEMMA ClientIInv ==
  ASSUME IInv, NEW c \in Clients, ClientStep(c) \/ Die(c)
  PROVE  IInv'
<1> USE DEF IInv
<1>0. /\ UNCHANGED <<fd, loopVars, m_requests, conn, object, fault>>
      /\ \A d \in Clients : client[d] = "closed" => client'[d] = "closed"
      /\ died \subseteq died'
  BY DEF ClientStep, Connect, SendQuit, CloseClient, Die, TypeOK
<1>1. TypeOK' /\ PlaceInv'
  <2>1. CASE Connect(c)
    <3>1. backlog \in Seq(Clients)
      BY DEF TypeOK
    <3>2. TypeOK'
      BY <1>0, <2>1, <3>1, AppendElements DEF Connect, TypeOK, loopVars
    <3>3. \A i \in DOMAIN backlog : backlog[i] # c /\ conn[c] = "none"
      BY <2>1 DEF Connect, PlaceInv
    <3>4. Distinct(backlog')
      BY <2>1, <3>1, <3>3, DistinctAppend DEF Connect, PlaceInv, Distinct
    <3>5. \A i \in DOMAIN backlog' : conn[backlog'[i]] = "none"
      BY <2>1, <3>1, AppendElements DEF Connect, PlaceInv
    <3>6. \A d \in Clients : client'[d] = "new" => d # c /\ client[d] = "new"
      BY <2>1 DEF Connect, TypeOK
    <3>7. \A d \in Clients : client'[d] = "new" => \A i \in DOMAIN backlog' : backlog'[i] # d
      BY <2>1, <3>1, <3>6, AppendElements DEF Connect, PlaceInv
    <3> QED
      BY <1>0, <3>2, <3>4, <3>5, <3>6, <3>7 DEF PlaceInv, Distinct, loopVars
  <2>2. CASE SendQuit(c) \/ CloseClient(c) \/ Die(c)
    <3>1. backlog' = backlog /\ \A d \in Clients : client'[d] = "new" => client[d] = "new"
      BY <2>2 DEF SendQuit, CloseClient, Die, TypeOK
    <3>2. TypeOK'
      BY <1>0, <2>2 DEF SendQuit, CloseClient, Die, TypeOK, loopVars
    <3> QED
      BY <1>0, <3>1, <3>2 DEF PlaceInv, loopVars
  <2> QED
    BY <2>1, <2>2 DEF ClientStep
<1>2. LifeInv'
  BY <1>0 DEF LifeInv, ClientStep, Connect, SendQuit, CloseClient, Die, TypeOK
<1>3. EntryInv'
  BY <1>0 DEF EntryInv, loopVars
<1>4. EventInv'
  <2>1. \A f \in Fds : m_clients[f] # NoConn => m_clients[f] \in Clients
    BY DEF TypeOK
  <2>2. \A i \in DOMAIN events : events[i] # Listen => events[i] \in Fds
    BY DEF TypeOK
  <2> QED
    BY <1>0, <2>1, <2>2 DEF EventInv, loopVars
<1>5. NoDoubleDelete' /\ DeletedAfterQuit'
  BY <1>0 DEF NoDoubleDelete, DeletedAfterQuit
<1> QED
  BY <1>1, <1>2, <1>3, <1>4, <1>5

----------------------------------------------------------------------------
(* The main loop.                                                          *)

LEMMA LoopTypes ==
  ASSUME TypeOK
  PROVE  /\ backlog \in Seq(Clients) /\ m_requests \in Seq(Clients)
         /\ events \in Seq(Fds \cup {Listen})
         /\ \A f \in Fds : m_clients[f] # NoConn => m_clients[f] \in Clients
         /\ \A i \in DOMAIN events : events[i] # Listen => events[i] \in Fds
  BY DEF TypeOK

(* An event is for a descriptor whose peer has closed: its entry is that   *)
(* peer's, or the stale one of a connection that the server has closed.    *)
LEMMA EpollWaitIInv ==
  ASSUME IInv, EpollWait
  PROVE  IInv'
<1> USE DEF IInv
<1>0. UNCHANGED <<clientVars, backlog, fd, epoll, m_clients, appending, m_requests,
                  conn, object, fault>>
  BY DEF EpollWait
<1>1. PICK n \in 1 .. MaxEvents :
        /\ events' \in [1 .. n -> Ready]
        /\ \A i, j \in 1 .. n : events'[i] = events'[j] => i = j
  BY DEF EpollWait
<1>2. Ready \subseteq Fds \cup {Listen}
  BY DEF Ready, TypeOK
<1>3. events' \in Seq(Fds \cup {Listen}) /\ DOMAIN events' = 1 .. n /\ Len(events') <= MaxEvents
  BY <1>1, <1>2
<1>4. TypeOK'
  BY <1>0, <1>3 DEF TypeOK, clientVars
<1>5. ASSUME NEW f \in Ready, f # Listen
      PROVE  /\ m_clients[f] # NoConn
             /\ client[m_clients[f]] = "closed" \/ conn[m_clients[f]] = "closed"
  <2>1. PICK c \in Clients : f \in epoll /\ fd[c] = f /\ client[c] = "closed"
    BY <1>5 DEF Ready
  <2>2. f \in Fds /\ f # NoFd
    BY <2>1 DEF TypeOK
  <2>3. m_clients[f] # NoConn /\ m_clients[f] \in Clients
    BY <2>1, <2>2, LoopTypes DEF EntryInv
  <2>4. fd[m_clients[f]] = f => m_clients[f] = c
    BY <2>1, <2>2, <2>3 DEF EntryInv
  <2> QED
    BY <2>1, <2>2, <2>3, <2>4 DEF EntryInv
<1>6. EventInv'
  BY <1>0, <1>1, <1>3, <1>5 DEF EventInv, clientVars
<1>7. PlaceInv' /\ LifeInv' /\ EntryInv'
  BY <1>0 DEF PlaceInv, LifeInv, EntryInv, clientVars
<1>8. NoDoubleDelete' /\ DeletedAfterQuit'
  BY <1>0 DEF NoDoubleDelete, DeletedAfterQuit, clientVars
<1> QED
  BY <1>4, <1>6, <1>7, <1>8

(* accept: a descriptor that is not open, whose old entry stays.           *)
LEMMA AcceptIInv ==
  ASSUME IInv, Accept
  PROVE  IInv'
<1> USE DEF IInv
<1> DEFINE c == Head(backlog)
<1>0. UNCHANGED <<clientVars, m_requests, fault>> /\ backlog # << >> /\ events # << >>
      /\ backlog' = Tail(backlog) /\ events' = Tail(events) /\ appending = NoConn
  BY DEF Accept
<1>1. PICK f \in Fds \ {fd[d] : d \in Clients} :
        /\ fd' = [fd EXCEPT ![c] = f]
        /\ object' = [object EXCEPT ![c] = "live"]
        /\ m_clients' = insert(f, c)
        /\ epoll' = addfd(f)
        /\ appending' = c
        /\ conn' = [conn EXCEPT ![c] = "waiting"]
  BY DEF Accept
<1>2. c \in Clients /\ conn[c] = "none" /\ object[c] = "none" /\ client[c] # "new"
  <2>1. c = backlog[1] /\ 1 \in DOMAIN backlog /\ c \in Clients
    BY <1>0, LoopTypes, TailElements
  <2> QED
    BY <2>1 DEF PlaceInv, LifeInv
<1>3. Distinct(Tail(backlog)) /\ \A i \in DOMAIN Tail(backlog) : Tail(backlog)[i] # c
  BY <1>0, LoopTypes, DistinctTail DEF PlaceInv, Distinct
<1>4. \A i \in DOMAIN Tail(backlog) : \E j \in DOMAIN backlog : Tail(backlog)[i] = backlog[j]
  BY <1>0, LoopTypes, TailElements
<1>5. \A i \in DOMAIN Tail(events) : \E j \in DOMAIN events : Tail(events)[i] = events[j]
  BY <1>0, LoopTypes, TailElements
<1>6. Distinct(Tail(events))
  BY <1>0, LoopTypes, DistinctTail DEF EventInv, Distinct
<1>a. /\ Tail(backlog) \in Seq(Clients) /\ Tail(events) \in Seq(Fds \cup {Listen})
      /\ Len(Tail(backlog)) = Len(backlog) - 1 /\ Len(Tail(events)) = Len(events) - 1
  BY <1>0, LoopTypes, TailElements
<1>7. /\ Tail(backlog) \in Seq(Clients) /\ Tail(events) \in Seq(Fds \cup {Listen})
      /\ Len(Tail(backlog)) <= Backlog /\ Len(Tail(events)) <= MaxEvents
  BY <1>a, LoopTypes DEF TypeOK
<1> HIDE DEF c
<1>8. TypeOK'
  BY <1>0, <1>1, <1>2, <1>7 DEF TypeOK, clientVars, insert, addfd
<1>9. PlaceInv'
  <2>1. \A i \in DOMAIN backlog' : conn'[backlog'[i]] = "none"
    BY <1>0, <1>1, <1>2, <1>3, <1>4 DEF PlaceInv, TypeOK
  <2>2. Distinct(backlog')
    BY <1>0, <1>3
  <2>3. \A i \in DOMAIN m_requests : conn'[m_requests[i]] = "waiting" /\ m_requests[i] # c
    BY <1>1, <1>2 DEF PlaceInv, TypeOK
  <2>4. conn'[c] = "waiting"
    BY <1>1, <1>2 DEF TypeOK
  <2>5. \A d \in Clients : client[d] = "new" =>
          conn'[d] = "none" /\ \A i \in DOMAIN backlog' : backlog'[i] # d
    BY <1>0, <1>1, <1>2, <1>4 DEF PlaceInv, TypeOK
  <2> QED
    BY <1>0, <1>1, <2>1, <2>2, <2>3, <2>4, <2>5 DEF PlaceInv, Distinct, clientVars
<1>10. LifeInv'
  BY <1>0, <1>1, <1>2 DEF LifeInv, TypeOK, clientVars
<1>11. \A g \in Fds : m_clients[g] # c
  BY <1>2 DEF EntryInv
<1>12. \A g \in Fds : /\ m_clients'[g] # NoConn =>
                          m_clients'[g] = m_clients[g] \/ (g = f /\ m_clients'[g] = c)
                      /\ m_clients[g] # NoConn => m_clients'[g] = m_clients[g]
  BY <1>1 DEF insert, TypeOK
<1>13. EntryInv'
  <2>1. \A d \in Clients : fd[d] # f
    BY <1>1
  <2>2. \A d, e \in Clients : fd'[d] = fd'[e] /\ fd'[d] # NoFd => d = e
    BY <1>1, <1>2, <2>1 DEF EntryInv, TypeOK
  <2>3. \A g \in Fds : m_clients'[g] # NoConn =>
          /\ object'[m_clients'[g]] = "live"
          /\ fd'[m_clients'[g]] = g \/ conn'[m_clients'[g]] = "closed"
    <3>1. fd'[c] = f /\ object'[c] = "live"
      BY <1>1, <1>2 DEF TypeOK
    <3>2. \A d \in Clients \ {c} : fd'[d] = fd[d] /\ object'[d] = object[d] /\ conn'[d] = conn[d]
      BY <1>1, <1>2 DEF TypeOK
    <3> QED
      BY <1>11, <1>12, <3>1, <3>2, LoopTypes DEF EntryInv
  <2>4. \A g, h \in Fds : m_clients'[g] = m_clients'[h] /\ m_clients'[g] # NoConn => g = h
    BY <1>11, <1>12 DEF EntryInv
  <2>5. \A g \in epoll' : m_clients'[g] # NoConn
    BY <1>1, <1>2, <1>12 DEF EntryInv, TypeOK, insert, addfd
  <2> QED
    BY <2>2, <2>3, <2>4, <2>5 DEF EntryInv
<1>14. EventInv'
  <2>1. \A d \in Clients : conn[d] = "closed" => conn'[d] = "closed"
    BY <1>1, <1>2 DEF TypeOK
  <2>2. ASSUME NEW i \in DOMAIN events', events'[i] # Listen
        PROVE  /\ m_clients'[events'[i]] # NoConn
               /\ \/ client'[m_clients'[events'[i]]] = "closed"
                  \/ conn'[m_clients'[events'[i]]] = "closed"
    <3>1. PICK j \in DOMAIN events : events'[i] = events[j]
      BY <1>0, <1>5
    <3>2. events[j] \in Fds /\ m_clients[events[j]] # NoConn
      BY <2>2, <3>1, LoopTypes DEF EventInv
    <3>3. m_clients'[events[j]] = m_clients[events[j]] /\ m_clients[events[j]] \in Clients
      BY <1>12, <3>2, LoopTypes
    <3> QED
      BY <1>0, <2>1, <2>2, <3>1, <3>2, <3>3 DEF EventInv, clientVars
  <2> QED
    BY <1>0, <1>6, <2>2 DEF EventInv, Distinct
<1>15. NoDoubleDelete' /\ DeletedAfterQuit'
  BY <1>0, <1>1, <1>2 DEF NoDoubleDelete, DeletedAfterQuit, TypeOK, clientVars
<1> QED
  BY <1>8, <1>9, <1>10, <1>13, <1>14, <1>15

(* accept fails: a live object without a descriptor and without an entry.  *)
LEMMA AcceptFailsIInv ==
  ASSUME IInv, AcceptFails
  PROVE  IInv'
<1> USE DEF IInv
<1>0. UNCHANGED <<quit, fd, epoll, m_clients, m_requests, fault>>
      /\ backlog # << >> /\ events # << >> /\ events' = Tail(events) /\ appending = NoConn
  BY DEF AcceptFails
<1>1. PICK c \in Clients :
        /\ \/ c = Head(backlog) /\ backlog' = Tail(backlog)
           \/ client[c] = "new" /\ backlog' = backlog
        /\ client' = [client EXCEPT ![c] = "closed"]
        /\ died' = died \cup {c}
        /\ object' = [object EXCEPT ![c] = "live"]
        /\ appending' = c
        /\ conn' = [conn EXCEPT ![c] = "waiting"]
  BY DEF AcceptFails
<1>2. conn[c] = "none" /\ object[c] = "none"
  <2>1. CASE client[c] = "new"
    BY <2>1 DEF PlaceInv, LifeInv
  <2>2. CASE c = Head(backlog)
    <3>1. c = backlog[1] /\ 1 \in DOMAIN backlog
      BY <1>0, <2>2, LoopTypes, TailElements
    <3> QED
      BY <3>1 DEF PlaceInv, LifeInv
  <2> QED
    BY <1>1, <2>1, <2>2
<1>3. /\ Distinct(backlog') /\ backlog' \in Seq(Clients) /\ Len(backlog') <= Backlog
      /\ \A i \in DOMAIN backlog' : backlog'[i] # c
                                  /\ \E j \in DOMAIN backlog : backlog'[i] = backlog[j]
  <2>1. CASE client[c] = "new" /\ backlog' = backlog
    BY <2>1 DEF PlaceInv, TypeOK, Distinct
  <2>2. CASE c = Head(backlog) /\ backlog' = Tail(backlog)
    <3>1. Distinct(Tail(backlog)) /\ \A i \in DOMAIN Tail(backlog) : Tail(backlog)[i] # Head(backlog)
      BY <1>0, LoopTypes, DistinctTail DEF PlaceInv, Distinct
    <3>2. /\ \A i \in DOMAIN Tail(backlog) : \E j \in DOMAIN backlog : Tail(backlog)[i] = backlog[j]
          /\ Tail(backlog) \in Seq(Clients) /\ Len(Tail(backlog)) = Len(backlog) - 1
      BY <1>0, LoopTypes, TailElements
    <3>3. Len(Tail(backlog)) <= Backlog
      BY <3>2, LoopTypes DEF TypeOK
    <3> QED
      BY <2>2, <3>1, <3>2, <3>3
  <2> QED
    BY <1>1, <2>1, <2>2
<1>4. /\ Distinct(events') /\ events' \in Seq(Fds \cup {Listen}) /\ Len(events') <= MaxEvents
      /\ \A i \in DOMAIN events' : \E j \in DOMAIN events : events'[i] = events[j]
  <2>1. Distinct(Tail(events))
    BY <1>0, LoopTypes, DistinctTail DEF EventInv, Distinct
  <2>2. /\ \A i \in DOMAIN Tail(events) : \E j \in DOMAIN events : Tail(events)[i] = events[j]
        /\ Tail(events) \in Seq(Fds \cup {Listen}) /\ Len(Tail(events)) = Len(events) - 1
    BY <1>0, LoopTypes, TailElements
  <2>3. Len(Tail(events)) <= MaxEvents
    BY <2>2, LoopTypes DEF TypeOK
  <2> QED
    BY <1>0, <2>1, <2>2, <2>3
<1>5. TypeOK'
  BY <1>0, <1>1, <1>3, <1>4 DEF TypeOK
<1>6. \A d \in Clients \ {c} : conn'[d] = conn[d] /\ object'[d] = object[d] /\ client'[d] = client[d]
  BY <1>1 DEF TypeOK
<1>7. conn'[c] = "waiting" /\ object'[c] = "live" /\ client'[c] = "closed"
  BY <1>1 DEF TypeOK
<1>8. PlaceInv'
  <2>1. \A i \in DOMAIN backlog' : conn'[backlog'[i]] = "none"
    BY <1>3, <1>6, LoopTypes DEF PlaceInv
  <2>2. \A i \in DOMAIN m_requests : conn'[m_requests[i]] = "waiting" /\ m_requests[i] # c
    BY <1>2, <1>6, LoopTypes DEF PlaceInv
  <2>3. \A d \in Clients : client'[d] = "new" =>
          conn'[d] = "none" /\ \A i \in DOMAIN backlog' : backlog'[i] # d
    BY <1>3, <1>6, <1>7 DEF PlaceInv
  <2> QED
    BY <1>0, <1>1, <1>3, <1>7, <2>1, <2>2, <2>3 DEF PlaceInv, Distinct
<1>9. LifeInv'
  BY <1>0, <1>1, <1>6, <1>7 DEF LifeInv
<1>10. \A g \in Fds : m_clients[g] # c
  BY <1>2 DEF EntryInv
<1>11. EntryInv'
  BY <1>0, <1>6, <1>10, LoopTypes DEF EntryInv
<1>12. EventInv'
  BY <1>0, <1>4, <1>6, <1>10, LoopTypes DEF EventInv, Distinct
<1>13. NoDoubleDelete' /\ DeletedAfterQuit'
  BY <1>0, <1>1, <1>6, <1>7 DEF NoDoubleDelete, DeletedAfterQuit
<1> QED
  BY <1>5, <1>8, <1>9, <1>11, <1>12, <1>13

LEMMA AppendIInv ==
  ASSUME IInv, append
  PROVE  IInv'
<1> USE DEF IInv
<1>0. /\ UNCHANGED <<clientVars, backlog, fd, epoll, events, m_clients, conn, object, fault>>
      /\ appending \in Clients /\ appending' = NoConn
      /\ m_requests' = Append(m_requests, appending) /\ Len(m_requests) < QueueSize
  BY DEF append, TypeOK
<1>1. m_requests \in Seq(Clients) /\ \A i \in DOMAIN m_requests : m_requests[i] # appending
  BY DEF TypeOK, PlaceInv
<1>2. TypeOK'
  BY <1>0, <1>1, AppendElements DEF TypeOK, clientVars
<1>3. Distinct(m_requests')
  BY <1>0, <1>1, DistinctAppend DEF PlaceInv, Distinct
<1>4. \A i \in DOMAIN m_requests' : conn[m_requests'[i]] = "waiting" /\ m_requests'[i] # NoConn
  BY <1>0, <1>1, AppendElements DEF PlaceInv
<1>5. PlaceInv'
  BY <1>0, <1>3, <1>4 DEF PlaceInv, Distinct, clientVars
<1>6. LifeInv' /\ EntryInv' /\ EventInv'
  BY <1>0 DEF LifeInv, EntryInv, EventInv, clientVars
<1>7. NoDoubleDelete' /\ DeletedAfterQuit'
  BY <1>0 DEF NoDoubleDelete, DeletedAfterQuit, clientVars
<1> QED
  BY <1>2, <1>5, <1>6, <1>7

(* EPOLLRDHUP: the entry is a live object, so it is deleted for the first  *)
(* time, and its session is over.                                          *)
LEMMA HangUpIInv ==
  ASSUME IInv, HangUp
  PROVE  IInv'
<1> USE DEF IInv
<1> DEFINE f == Head(events)
           c == m_clients[f]
<1>0. /\ UNCHANGED <<clientVars, backlog, fd, appending, m_requests, conn>>
      /\ events # << >> /\ f # Listen /\ events' = Tail(events)
      /\ epoll' = epoll \ {f} /\ m_clients' = [m_clients EXCEPT ![f] = NoConn]
  BY DEF HangUp, delfd
<1>1. /\ f \in Fds /\ c # NoConn /\ c \in Clients
      /\ client[c] = "closed" \/ conn[c] = "closed"
  <2>1. f = events[1] /\ 1 \in DOMAIN events
    BY <1>0, LoopTypes, TailElements
  <2> QED
    BY <1>0, <2>1, LoopTypes DEF EventInv
<1>2. object[c] = "live"
  BY <1>1 DEF EntryInv
<1>3. object' = [object EXCEPT ![c] = "deleted"] /\ fault' = fault
  BY <1>1, <1>2 DEF HangUp, Delete
<1>a. Len(Tail(events)) <= MaxEvents
  <2>1. Len(Tail(events)) = Len(events) - 1
    BY <1>0, LoopTypes, TailElements
  <2> QED
    BY <2>1, LoopTypes DEF TypeOK
<1>4. Tail(events) \in Seq(Fds \cup {Listen}) /\ Distinct(Tail(events))
      /\ \A i \in DOMAIN Tail(events) :
           Tail(events)[i] # f /\ \E j \in DOMAIN events : Tail(events)[i] = events[j]
  BY <1>0, LoopTypes, TailElements, DistinctTail DEF EventInv, Distinct
<1> HIDE DEF f, c
<1>5. TypeOK'
  BY <1>0, <1>1, <1>3, <1>a, <1>4 DEF TypeOK, clientVars
<1>6. PlaceInv'
  BY <1>0 DEF PlaceInv, clientVars
<1>7. LifeInv'
  BY <1>0, <1>1, <1>2, <1>3 DEF LifeInv, TypeOK, clientVars
<1>8. \A g \in Fds : m_clients'[g] # NoConn =>
        g # f /\ m_clients'[g] = m_clients[g] /\ m_clients[g] # c
  BY <1>0, <1>1 DEF TypeOK, EntryInv, c
<1>9. \A g \in Fds \ {f} : m_clients'[g] = m_clients[g]
  BY <1>0 DEF TypeOK
<1>10. EntryInv'
  <2>1. \A d \in Clients \ {c} : object'[d] = object[d]
    BY <1>3 DEF TypeOK
  <2>2. \A g \in Fds : m_clients'[g] # NoConn =>
          /\ object'[m_clients'[g]] = "live"
          /\ fd[m_clients'[g]] = g \/ conn[m_clients'[g]] = "closed"
    BY <1>8, <2>1, LoopTypes DEF EntryInv
  <2>3. \A g \in epoll' : m_clients'[g] # NoConn
    BY <1>0, <1>9 DEF EntryInv, TypeOK
  <2> QED
    BY <1>0, <1>8, <2>2, <2>3 DEF EntryInv
<1>11. EventInv'
  <2>1. ASSUME NEW i \in DOMAIN events', events'[i] # Listen
        PROVE  /\ m_clients'[events'[i]] # NoConn
               /\ \/ client'[m_clients'[events'[i]]] = "closed"
                  \/ conn'[m_clients'[events'[i]]] = "closed"
    <3>1. PICK j \in DOMAIN events : events'[i] = events[j] /\ events[j] # f
      BY <1>0, <1>4
    <3>2. events[j] \in Fds \ {f}
      BY <2>1, <3>1, LoopTypes
    <3> QED
      BY <1>0, <1>9, <2>1, <3>1, <3>2 DEF EventInv, clientVars
  <2> QED
    BY <1>0, <1>4, <2>1 DEF EventInv, Distinct
<1>12. NoDoubleDelete'
  BY <1>3 DEF NoDoubleDelete
<1>13. DeletedAfterQuit'
  <2>1. c \in died \/ conn[c] \in {"replied", "closed"}
    BY <1>1 DEF LifeInv
  <2> QED
    BY <1>0, <1>1, <1>3, <2>1 DEF DeletedAfterQuit, TypeOK, clientVars
<1> QED
  BY <1>5, <1>6, <1>7, <1>10, <1>11, <1>12, <1>13

----------------------------------------------------------------------------
(* The pool.                                                               *)

LEMMA TakeIInv ==
  ASSUME IInv, Take
  PROVE  IInv'
<1> USE DEF IInv
<1> DEFINE c == Head(m_requests)
<1>0. /\ UNCHANGED <<clientVars, backlog, fd, loopVars, object>>
      /\ m_requests # << >> /\ m_requests' = Tail(m_requests)
      /\ conn' = [conn EXCEPT ![c] = "running"]
      /\ fault' \in {fault, "used"}
  BY DEF Take, Use
<1>1. c \in Clients /\ conn[c] = "waiting" /\ c # appending
  <2>1. c = m_requests[1] /\ 1 \in DOMAIN m_requests /\ c \in Clients
    BY <1>0, LoopTypes, TailElements
  <2> QED
    BY <2>1 DEF PlaceInv
<1>2. /\ Distinct(Tail(m_requests)) /\ Tail(m_requests) \in Seq(Clients)
      /\ Len(Tail(m_requests)) = Len(m_requests) - 1
      /\ \A i \in DOMAIN Tail(m_requests) :
           /\ Tail(m_requests)[i] # c
           /\ \E j \in DOMAIN m_requests : Tail(m_requests)[i] = m_requests[j]
  BY <1>0, LoopTypes, TailElements, DistinctTail DEF PlaceInv, Distinct
<1> HIDE DEF c
<1>3. TypeOK'
  <2>1. m_requests' \in Seq(Clients) /\ Len(m_requests') <= QueueSize
    BY <1>0, <1>2, LoopTypes DEF TypeOK
  <2> QED
    BY <1>0, <1>1, <2>1 DEF TypeOK, clientVars, loopVars
<1>4. \A d \in Clients \ {c} : conn'[d] = conn[d]
  BY <1>0, <1>1 DEF TypeOK
<1>5. PlaceInv'
  <2>1. \A i \in DOMAIN backlog : conn'[backlog[i]] = "none"
    BY <1>0, <1>1 DEF PlaceInv, TypeOK
  <2>2. \A i \in DOMAIN m_requests' :
          conn'[m_requests'[i]] = "waiting" /\ m_requests'[i] # appending
    BY <1>0, <1>2, <1>4, LoopTypes DEF PlaceInv
  <2>3. appending # NoConn => conn'[appending] = "waiting"
    BY <1>1, <1>4 DEF PlaceInv, TypeOK
  <2>4. \A d \in Clients : client[d] = "new" => conn'[d] = "none"
    BY <1>1, <1>4 DEF PlaceInv
  <2> QED
    BY <1>0, <1>2, <2>1, <2>2, <2>3, <2>4 DEF PlaceInv, Distinct, clientVars, loopVars
<1>6. \A d \in Clients : /\ conn[d] = "none" <=> conn'[d] = "none"
                         /\ conn[d] = "closed" => conn'[d] = "closed"
                         /\ conn[d] = "replied" => conn'[d] = "replied"
  BY <1>0, <1>1 DEF TypeOK
<1>7. LifeInv'
  BY <1>0, <1>6 DEF LifeInv, clientVars, loopVars
<1>8. EntryInv'
  BY <1>0, <1>6, LoopTypes DEF EntryInv, loopVars
<1>9. EventInv'
  BY <1>0, <1>6, LoopTypes DEF EventInv, clientVars, loopVars
<1>10. NoDoubleDelete' /\ DeletedAfterQuit'
  BY <1>0, <1>6 DEF NoDoubleDelete, DeletedAfterQuit, clientVars, loopVars
<1> QED
  BY <1>3, <1>5, <1>7, <1>8, <1>9, <1>10

(* A thread answers QUIT, closes the descriptor, or meets SIGPIPE.         *)
LEMMA HandlerIInv ==
  ASSUME IInv, NEW c \in Clients, Reply(c) \/ Close(c) \/ Killed(c)
  PROVE  IInv'
<1> USE DEF IInv
<1>0. /\ UNCHANGED <<clientVars, backlog, events, m_clients, appending, m_requests, object>>
      /\ fault' \in {fault, "used", "killed"}
      /\ conn[c] \in {"running", "replied"}
  BY DEF Reply, Close, Killed, Use, loopVars
<1>1. /\ conn' \in [Clients -> {"none", "waiting", "running", "replied", "closed"}]
      /\ \A d \in Clients \ {c} : conn'[d] = conn[d]
      /\ conn'[c] \in {"running", "replied", "closed"}
      /\ conn[c] = "replied" => conn'[c] \in {"replied", "closed"}
  BY DEF Reply, Close, Killed, TypeOK
<1>2. /\ fd' \in [Clients -> Fds \cup {NoFd}] /\ epoll' \subseteq epoll
      /\ \A d \in Clients : fd'[d] = fd[d] \/ (d = c /\ fd'[c] = NoFd /\ conn'[c] = "closed")
  BY DEF Reply, Close, Killed, loopVars, TypeOK
<1>3. TypeOK'
  BY <1>0, <1>1, <1>2 DEF TypeOK, clientVars
<1>4. \A d \in Clients : /\ conn[d] = "none" <=> conn'[d] = "none"
                         /\ conn[d] = "waiting" => conn'[d] = "waiting"
                         /\ conn[d] = "closed" => conn'[d] = "closed"
                         /\ conn[d] \in {"replied", "closed"} => conn'[d] \in {"replied", "closed"}
  BY <1>0, <1>1
<1>5. PlaceInv'
  <2>1. \A i \in DOMAIN backlog : backlog[i] \in Clients
    BY LoopTypes
  <2>2. \A i \in DOMAIN m_requests : m_requests[i] \in Clients
    BY LoopTypes
  <2>3. appending # NoConn => appending \in Clients
    BY DEF TypeOK
  <2> QED
    BY <1>0, <1>4, <2>1, <2>2, <2>3 DEF PlaceInv, clientVars
<1>6. LifeInv'
  BY <1>0, <1>2, <1>4 DEF LifeInv, clientVars
<1>7. EntryInv'
  <2>1. \A d, e \in Clients : fd'[d] = fd'[e] /\ fd'[d] # NoFd => d = e
    BY <1>2 DEF EntryInv
  <2>2. \A f \in Fds : m_clients[f] # NoConn =>
          fd'[m_clients[f]] = f \/ conn'[m_clients[f]] = "closed"
    BY <1>2, <1>4, LoopTypes DEF EntryInv
  <2> QED
    BY <1>0, <1>2, <2>1, <2>2 DEF EntryInv
<1>8. EventInv'
  BY <1>0, <1>4, LoopTypes DEF EventInv, clientVars
<1>9. NoDoubleDelete' /\ DeletedAfterQuit'
  BY <1>0, <1>4 DEF NoDoubleDelete, DeletedAfterQuit, clientVars
<1> QED
  BY <1>3, <1>5, <1>6, <1>7, <1>8, <1>9

LEMMA NextIInv == IInv /\ [Next]_vars => IInv'
<1> SUFFICES ASSUME IInv, [Next]_vars PROVE IInv'
  OBVIOUS
<1>1. CASE LoopStep
  BY <1>1, EpollWaitIInv, AcceptIInv, AppendIInv, HangUpIInv DEF LoopStep
<1>2. CASE UNCHANGED vars
  BY <1>2 DEF vars, clientVars, loopVars, IInv, TypeOK, PlaceInv, LifeInv, EntryInv, EventInv,
              NoDoubleDelete, DeletedAfterQuit
<1>3. ASSUME NEW c \in Clients, HandlerStep(c) \/ QuitUnset(c) \/ Killed(c) PROVE IInv'
  BY <1>3, HandlerIInv DEF HandlerStep, Quit, QuitUnset
<1>4. CASE AcceptFails
  BY <1>4, AcceptFailsIInv
<1> QED
  BY <1>1, <1>2, <1>3, <1>4, TakeIInv, ClientIInv DEF Next, Idle

LEMMA Invariant == Spec => []IInv
  BY InitIInv, NextIInv, PTL DEF Spec

----------------------------------------------------------------------------
(* Every variable of the main loop and the pool keeps its type; the        *)
(* backlog, the events fetched and the pool's queue never exceed their     *)
(* sizes.                                                                  *)
THEOREM TypeCorrect == Spec => []TypeOK
<1>1. IInv => TypeOK
  BY DEF IInv
<1> QED
  BY <1>1, Invariant, PTL

(* DedupServer::run deletes no ClientConn twice, whatever descriptors are  *)
(* used again while stale entries and stale events are around.             *)
THEOREM NeverDeletedTwice == Spec => []NoDoubleDelete
<1>1. IInv => NoDoubleDelete
  BY DEF IInv
<1> QED
  BY <1>1, Invariant, PTL

(* DedupServer::run deletes only objects of sessions that are over.        *)
THEOREM DeletesAfterQuit == Spec => []DeletedAfterQuit
<1>1. IInv => DeletedAfterQuit
  BY DEF IInv
<1> QED
  BY <1>1, Invariant, PTL
=============================================================================
