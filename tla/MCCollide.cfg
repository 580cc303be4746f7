CONSTANTS
  s1 = s1
  s2 = s2
  s3 = s3
  x = x
  y = y
  Sessions = {s1, s2, s3}
  Chunks = {x, y}
  Junk = Junk
  Chars = {"1", "2", "f"}
  Jobs <- CollideJobs
  Tails <- NoTails
  BatchSize = 1
  NoAddr = NoAddr
  ContainerSlots = 1
  QueueSize = 1
  ThreadNum = 1
  None = None
SPECIFICATION Spec
INVARIANTS
  ReadBack
SYMMETRY Symmetry
