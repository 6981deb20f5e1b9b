\* Two readers, two decoder threads, batches of one and two frames, and the
\* shutdown at any moment.
SPECIFICATION Spec
CONSTANTS
  Concurrency = 2
  MaxIo = 2
  FilterIds = {1}
  Filters <- MCOneFilter
  NoFilter = NoFilter
  NoId = NoId
  Matches <- MCMatches
  Roles <- TwoReaders
  MaxBatch = 2
  MaxRead <- TwoAndOne
  FilterChunk = 1
  OutputChunk = 1
  MaxFilterOps = 0
  MaxPanics = 0
INVARIANTS
  StoredInOrder
  SerialHandover
  NothingLost
  ReaderOrder
  CompletionLast
  ThreadsJoined
PROPERTIES
  LogSpec
