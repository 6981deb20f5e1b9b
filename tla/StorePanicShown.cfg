\* A panic of a thread is reported while the store runs: the code does not.
SPECIFICATION FairSpec
CONSTANTS
  Concurrency = 2
  MaxIo = 2
  FilterIds = {1}
  Filters <- MCOneFilter
  NoFilter = NoFilter
  NoId = NoId
  Matches <- MCMatches
  Roles <- ReaderWriter
  MaxBatch = 1
  MaxRead <- Two
  FilterChunk = 1
  OutputChunk = 1
  MaxFilterOps = 0
  MaxPanics = 1
PROPERTIES
  PanicShown
