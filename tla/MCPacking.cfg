CONSTANTS
  CHUNKSIZE = 2
  BATCHSIZE = 2
  CONTAINERSIZE = 4
  HASHSIZE = 2
  Digest <- MCDigest
  Paths <- MCPaths
  Files <- MCFiles
  MaxUploads = 2
  MaxLen = 3
  NoFile = NoFile
SPECIFICATION Spec
INVARIANTS
  IndexedByContent
  SlotAligned
  BuffersHold
PROPERTIES
  ImplementsFileStore
