CONSTANTS
  Producers = {p1, p2}
  Consumers = {c1, c2, c3}
  Size = 2
  Items = 3
  NoThread = NoThread
SPECIFICATION FairSpec
INVARIANTS
  TypeOK
  EmptyFlagRight
PROPERTIES
  ImplementsFifo
  RoundsEnd
