CONSTANTS
  Clients = {c1, c2, c3}
  Fds = {f1, f2, f3}
  Listen = Listen
  NoFd = NoFd
  NoConn = NoConn
  ThreadNum = 2
  QueueSize = 1
  Backlog = 2
  MaxEvents = 2
  MaxDeaths = 1
SPECIFICATION FairSpec
INVARIANTS
  TypeOK
  NoDoubleDelete
  DeletedAfterQuit
PROPERTIES
  EveryoneServed
