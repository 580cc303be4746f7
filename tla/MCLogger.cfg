CONSTANTS
  Callers = {t1, t2}
  Lines = 3
  m_split_lines = 3
  QueueSizes = {0, 2}
  Days = 2
  NoLine = NoLine
SPECIFICATION FairSpec
INVARIANTS
  TypeOK
  AllWritten
  SyncLosesNothing
  LossBounded
PROPERTIES
  FilesOnlyGrow
  ShutsDown
