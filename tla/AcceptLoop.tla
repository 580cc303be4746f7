----------------------------- MODULE AcceptLoop -----------------------------
(***************************************************************************)
(* DedupServer::run and the thread pool: who owns a ClientConn, and when   *)
(* it is deleted.                                                          *)
(*                                                                         *)
(* The main loop accepts connections, enters each in m_clients and in the  *)
(* epoll set and appends it to the pool's queue, which blocks when full.   *)
(* A pool thread runs ClientConn::run and closes the descriptor after the  *)
(* QUITREP.  A client closes its socket when it has read the QUITREP; if   *)
(* that happens before the server's close, epoll reports EPOLLRDHUP and    *)
(* the main loop deletes the ClientConn.  A client may also die earlier.   *)
(*                                                                         *)
(* A client connects once: c names the client, its connection and its      *)
(* ClientConn object.  What happens inside a session is ClientConn.tla's   *)
(* subject: here it lasts until the QUIT is received.                      *)
(*                                                                         *)
(* Using or deleting an object that has been deleted is undefined.  The    *)
(* model records it in fault and stops there: nothing can be said of what  *)
(* the process does afterwards.                                            *)
(***************************************************************************)
EXTENDS Naturals, Sequences, FiniteSets

CONSTANTS
  Clients,      (* runs of the client program                              *)
  Fds,          (* descriptors that accept can return                      *)
  Listen,       (* m_listenfd                                              *)
  NoFd,         (* no descriptor: not accepted yet, or closed              *)
  NoConn,       (* no ClientConn                                           *)
  ThreadNum,    (* m_thread_num                                            *)
  QueueSize,    (* m_queue_size                                            *)
  Backlog,      (* second argument of listen: 10                           *)
  MaxEvents,    (* size of m_events: 5                                     *)
  MaxDeaths     (* bound: clients that die, and calls of accept that fail  *)

ASSUME AcceptAssumption ==
  /\ Listen \notin Fds /\ NoFd \notin Fds /\ NoConn \notin Clients
  /\ ThreadNum \in Nat \ {0} /\ QueueSize \in Nat \ {0}
  /\ Backlog \in Nat \ {0} /\ MaxEvents \in Nat \ {0} /\ MaxDeaths \in Nat

VARIABLES
  client,       (* client[c]: new, open, closed (its end of the socket)    *)
  quit,         (* the clients that have sent QUIT                         *)
  died,         (* the clients that died or never got their connection     *)
  backlog,      (* connections that accept has not taken yet               *)
  fd,           (* m_sockfd while it is open                               *)
  epoll,        (* the descriptors in the epoll set, but for Listen        *)
  events,       (* m_events: the events the loop has still to look at      *)
  m_clients,    (* descriptor -> ClientConn                                *)
  appending,    (* the connection that append is pushing, or NoConn        *)
  m_requests,   (* the pool's queue                                        *)
  conn,         (* conn[c]: none, waiting, running, replied, closed        *)
  object,       (* object[c]: none, live, deleted                          *)
  fault         (* none, used (after delete), deleted_twice, killed        *)

clientVars == <<client, quit, died>>
loopVars   == <<epoll, events, m_clients, appending>>
vars == <<clientVars, backlog, fd, loopVars, m_requests, conn, object, fault>>

TypeOK ==
  /\ client \in [Clients -> {"new", "open", "closed"}]
  /\ quit \subseteq Clients /\ died \subseteq Clients
  /\ backlog \in Seq(Clients) /\ Len(backlog) <= Backlog
  /\ fd \in [Clients -> Fds \cup {NoFd}]
  /\ epoll \subseteq Fds
  /\ events \in Seq(Fds \cup {Listen}) /\ Len(events) <= MaxEvents
  /\ m_clients \in [Fds -> Clients \cup {NoConn}]
  /\ appending \in Clients \cup {NoConn}
  /\ m_requests \in Seq(Clients) /\ Len(m_requests) <= QueueSize
  /\ conn \in [Clients -> {"none", "waiting", "running", "replied", "closed"}]
  /\ object \in [Clients -> {"none", "live", "deleted"}]
  /\ fault \in {"none", "used", "deleted_twice", "killed"}

(* init: the listening socket and an epoll set that watches it.            *)
init ==
  /\ backlog = << >>
  /\ fd = [c \in Clients |-> NoFd]
  /\ epoll = {} /\ events = << >>

(* The pool starts its threads on an empty queue.                          *)
ThreadPool == m_requests = << >> /\ conn = [c \in Clients |-> "none"]

Init ==
  /\ client = [c \in Clients |-> "new"] /\ quit = {} /\ died = {}
  /\ m_clients = [f \in Fds |-> NoConn] /\ appending = NoConn
  /\ object = [c \in Clients |-> "none"]
  /\ fault = "none"
  /\ ThreadPool
  /\ init

----------------------------------------------------------------------------
(* The clients.                                                            *)

(* connect: the kernel completes the connection while the backlog has room.*)
Connect(c) ==
  /\ client[c] = "new" /\ Len(backlog) < Backlog
  /\ client' = [client EXCEPT ![c] = "open"]
  /\ backlog' = Append(backlog, c)
  /\ UNCHANGED <<quit, died, fd, loopVars, m_requests, conn, object, fault>>

(* The operation is over: the client sends QUIT.                           *)
SendQuit(c) ==
  /\ client[c] = "open" /\ c \notin quit
  /\ quit' = quit \cup {c}
  /\ UNCHANGED <<client, died, backlog, fd, loopVars, m_requests, conn, object, fault>>

(* QUITREP has arrived: the client closes its end.                         *)
CloseClient(c) ==
  /\ client[c] = "open" /\ conn[c] \in {"replied", "closed"}
  /\ client' = [client EXCEPT ![c] = "closed"]
  /\ UNCHANGED <<quit, died, backlog, fd, loopVars, m_requests, conn, object, fault>>

(* The client process ends, and the kernel closes its end.                 *)
Die(c) ==
  /\ client[c] = "open" /\ Cardinality(died) < MaxDeaths
  /\ client' = [client EXCEPT ![c] = "closed"]
  /\ died' = died \cup {c}
  /\ UNCHANGED <<quit, backlog, fd, loopVars, m_requests, conn, object, fault>>

----------------------------------------------------------------------------
(* The main loop.                                                          *)

(* A descriptor whose peer has closed is ready with EPOLLRDHUP.            *)
Ready ==
  {f \in epoll : \E c \in Clients : fd[c] = f /\ client[c] = "closed"}
    \cup {e \in {Listen} : backlog # << >>}

(* epoll_wait: some of the ready descriptors, each once, in any order.     *)
EpollWait ==
  /\ events = << >> /\ appending = NoConn
  /\ \E n \in 1 .. MaxEvents :
       /\ events' \in [1 .. n -> Ready]
       /\ \A i, j \in 1 .. n : events'[i] = events'[j] => i = j
  /\ UNCHANGED <<clientVars, backlog, fd, epoll, m_clients, appending, m_requests,
                 conn, object, fault>>

(* Fault: m_clients[sockfd] = clientConn.                                  *)
insertOverwrites(f, c) == [m_clients EXCEPT ![f] = c]

(* std::map::insert keeps the entry that is already there.                 *)
insert(f, c) == IF m_clients[f] = NoConn THEN [m_clients EXCEPT ![f] = c] ELSE m_clients

addfd(f) == epoll \cup {f}

delfd(f) == epoll \ {f}

(* accept returns any descriptor that is not open; the connection gets its *)
(* ClientConn, its entry in m_clients and in the epoll set.                *)
Accept ==
  /\ events # << >> /\ Head(events) = Listen /\ appending = NoConn
  /\ backlog # << >>
  /\ LET c == Head(backlog)
     IN \E f \in Fds \ {fd[d] : d \in Clients} :
          /\ fd' = [fd EXCEPT ![c] = f]
          /\ object' = [object EXCEPT ![c] = "live"]
          /\ m_clients' = insert(f, c)
          /\ epoll' = addfd(f)
          /\ appending' = c
          /\ conn' = [conn EXCEPT ![c] = "waiting"]
  /\ backlog' = Tail(backlog)
  /\ events' = Tail(events)
  /\ UNCHANGED <<clientVars, m_requests, fault>>

(* accept fails, and run goes on with descriptor -1: the connection stays  *)
(* in the backlog (no descriptor is left; the ClientConn then has the name *)
(* of a client that will not come), or it is gone.  The object is entered  *)
(* under -1, which epoll does not watch and no hang-up ever names.         *)
AcceptFails ==
  /\ events # << >> /\ Head(events) = Listen /\ appending = NoConn
  /\ backlog # << >> /\ Cardinality(died) < MaxDeaths
  /\ \E c \in Clients :
       /\ \/ c = Head(backlog) /\ backlog' = Tail(backlog)
          \/ client[c] = "new" /\ backlog' = backlog
       /\ client' = [client EXCEPT ![c] = "closed"]
       /\ died' = died \cup {c}
       /\ object' = [object EXCEPT ![c] = "live"]
       /\ appending' = c
       /\ conn' = [conn EXCEPT ![c] = "waiting"]
  /\ events' = Tail(events)
  /\ UNCHANGED <<quit, fd, epoll, m_clients, m_requests, fault>>

(* Fault: a request that finds the queue full is dropped.                  *)
appendDrops ==
  /\ appending # NoConn
  /\ m_requests' = IF Len(m_requests) < QueueSize THEN Append(m_requests, appending)
                   ELSE m_requests
  /\ appending' = NoConn
  /\ UNCHANGED <<clientVars, backlog, fd, epoll, events, m_clients, conn, object, fault>>

(* Fault: a request goes into a full queue.                                *)
appendFull ==
  /\ appending # NoConn
  /\ m_requests' = Append(m_requests, appending)
  /\ appending' = NoConn
  /\ UNCHANGED <<clientVars, backlog, fd, epoll, events, m_clients, conn, object, fault>>

(* append: push waits for room, and the main loop with it.                 *)
append ==
  /\ appending # NoConn /\ Len(m_requests) < QueueSize
  /\ m_requests' = Append(m_requests, appending)
  /\ appending' = NoConn
  /\ UNCHANGED <<clientVars, backlog, fd, epoll, events, m_clients, conn, object, fault>>

(* delete of a ClientConn: freeing it again is undefined.                  *)
Delete(c) ==
  \/ object[c] = "deleted" /\ fault' = "deleted_twice" /\ UNCHANGED object
  \/ /\ object[c] # "deleted"
     /\ object' = [object EXCEPT ![c] = "deleted"]
     /\ UNCHANGED fault

(* Fault: the entry stays in m_clients.                                    *)
HangUpKeeps ==
  /\ events # << >> /\ Head(events) # Listen /\ appending = NoConn
  /\ LET f == Head(events)
     IN /\ epoll' = delfd(f)
        /\ \/ m_clients[f] # NoConn /\ Delete(m_clients[f])
           \/ m_clients[f] = NoConn /\ UNCHANGED <<object, fault>>
  /\ events' = Tail(events)
  /\ UNCHANGED <<clientVars, backlog, fd, m_clients, appending, m_requests, conn>>

(* EPOLLRDHUP: whatever m_clients has for the descriptor is deleted.  (For *)
(* a missing entry operator[] makes a null pointer, whose deletion does    *)
(* nothing, and erase removes it.)                                         *)
HangUp ==
  /\ events # << >> /\ Head(events) # Listen /\ appending = NoConn
  /\ LET f == Head(events)
     IN /\ epoll' = delfd(f)
        /\ \/ m_clients[f] # NoConn /\ Delete(m_clients[f])
           \/ m_clients[f] = NoConn /\ UNCHANGED <<object, fault>>
        /\ m_clients' = [m_clients EXCEPT ![f] = NoConn]
  /\ events' = Tail(events)
  /\ UNCHANGED <<clientVars, backlog, fd, appending, m_requests, conn>>

----------------------------------------------------------------------------
(* The pool.                                                               *)

(* Connections that occupy a thread.                                       *)
Running == {c \in Clients : conn[c] \in {"running", "replied"}}

(* The thread touches its ClientConn: undefined if it has been deleted.    *)
Use(c) == fault' = IF object[c] = "deleted" THEN "used" ELSE fault

(* ThreadPool::run takes a request; stub calls ClientConn::run.            *)
Take ==
  /\ m_requests # << >> /\ Cardinality(Running) < ThreadNum
  /\ conn' = [conn EXCEPT ![Head(m_requests)] = "running"]
  /\ Use(Head(m_requests))
  /\ m_requests' = Tail(m_requests)
  /\ UNCHANGED <<clientVars, backlog, fd, loopVars, object>>

(* The order is QUIT, and it is answered.                                  *)
Reply(c) ==
  /\ conn[c] = "running"
  /\ conn' = [conn EXCEPT ![c] = "replied"]
  /\ Use(c)
  /\ UNCHANGED <<clientVars, backlog, fd, loopVars, m_requests, object>>

Quit(c) == c \in quit /\ Reply(c)

(* When the client died without a QUIT, read returns 0 for ever and the    *)
(* thread spins in receive_data; unless the length that read did not set   *)
(* is 0: then whatever the buffer holds is taken for the order.  (Read     *)
(* from descriptor -1 returns -1, which also ends receive_data.)           *)
QuitUnset(c) == c \in died /\ Reply(c)

(* Writing to a client that died raises SIGPIPE, which nobody handles; a   *)
(* write to descriptor -1 only fails.                                      *)
Killed(c) ==
  /\ conn[c] = "running" /\ c \in died /\ fd[c] # NoFd
  /\ fault' = "killed"
  /\ UNCHANGED <<clientVars, backlog, fd, loopVars, m_requests, conn, object>>

(* close(m_sockfd) removes it from the epoll set; the thread is free.      *)
Close(c) ==
  /\ conn[c] = "replied"
  /\ Use(c)
  /\ fd' = [fd EXCEPT ![c] = NoFd]
  /\ epoll' = epoll \ {fd[c]}
  /\ conn' = [conn EXCEPT ![c] = "closed"]
  /\ UNCHANGED <<clientVars, backlog, events, m_clients, appending, m_requests, object>>

----------------------------------------------------------------------------
ClientStep(c) == Connect(c) \/ SendQuit(c) \/ CloseClient(c)
LoopStep      == EpollWait \/ Accept \/ append \/ HangUp
HandlerStep(c) == Quit(c) \/ Close(c)

(* The main loop blocks in epoll_wait; or the process has ended or is in   *)
(* an undefined state.                                                     *)
Idle ==
  /\ fault # "none" \/ (Ready = {} /\ events = << >> /\ appending = NoConn)
  /\ UNCHANGED vars

Next ==
  \/ fault = "none" /\ \/ LoopStep \/ AcceptFails \/ Take
                       \/ \E c \in Clients : \/ ClientStep(c) \/ Die(c)
                                             \/ HandlerStep(c) \/ QuitUnset(c) \/ Killed(c)
  \/ Idle

Spec == Init /\ [][Next]_vars

(* The main loop, every pool thread and every client that can run does.    *)
Fairness ==
  /\ WF_vars(fault = "none" /\ LoopStep)
  /\ WF_vars(fault = "none" /\ Take)
  /\ \A c \in Clients : /\ WF_vars(fault = "none" /\ ClientStep(c))
                        /\ WF_vars(fault = "none" /\ HandlerStep(c))

FairSpec == Spec /\ Fairness

----------------------------------------------------------------------------
(* No ClientConn is deleted twice, although m_clients keeps the entries of *)
(* connections that the server closed first, and the descriptor of such an *)
(* entry, or of an event fetched earlier, is given to new connections.     *)
NoDoubleDelete == fault # "deleted_twice"

(* run never deletes the ClientConn of a session that is still going on:   *)
(* only one whose QUITREP is on its way, or whose client died.  Neither a  *)
(* stale entry nor an event that is older than the connection now on its   *)
(* descriptor leads it to another session's object.                        *)
DeletedAfterQuit ==
  \A c \in Clients :
    object[c] = "deleted" => c \in died \/ conn[c] \in {"replied", "closed"}

(* Every client is served to the end, also when a client that died keeps a *)
(* thread (as long as there are others) and the main loop waits in append; *)
(* unless a deleted object is used or SIGPIPE ends the process.            *)
EveryoneServed ==
  \A c \in Clients : <>(conn[c] = "closed" \/ c \in died \/ fault # "none")
=============================================================================
