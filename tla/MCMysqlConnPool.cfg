CONSTANTS
  Threads = {t1, t2, t3, t4}
  m_maxconn = 2
SPECIFICATION FairSpec
INVARIANTS
  TypeOK
  NoneSharedNoneLost
  OwnAnswer
  NoWakeupLost
PROPERTIES
  SomebodyServed
