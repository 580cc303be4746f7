CONSTANTS
  s1 = s1
  s2 = s2
  s3 = s3
  x = x
  y = y
  z = z
  Sessions = {s1, s2, s3}
  Chunks = {x, y, z}
  Junk = Junk
  Chars = {"1", "2", "f"}
  Jobs <- RecoveryJobs
  Tails <- NoTails
  BatchSize = 2
  NoAddr = NoAddr
  ContainerSlots = 1
  QueueSize = 1
  ThreadNum = 2
  None = None
  MaxFaults = 1
  MaxStale = 2
SPECIFICATION MCRecoverySpec
INVARIANTS
  RestartedIndexSound
  DamageConfined
  NeverWrong
PROPERTIES
  ReadableForEver
