CONSTANTS
  s1 = s1
  s2 = s2
  s3 = s3
  x = x
  y = y
  Sessions = {s1, s2, s3}
  Chunks = {x, y}
  Junk = Junk
  Chars = {"1", "2", "f"}
  Jobs <- MixedJobs
  Tails <- NoTails
  BatchSize = 1
  NoAddr = NoAddr
  ContainerSlots = 2
  QueueSize = 1
  ThreadNum = 1
  None = None
SPECIFICATION SerialSpec
INVARIANTS
  ReadBack
  StoredOnce
  UniqueUpload
PROPERTIES
  AllServed
  EventuallyDurable
