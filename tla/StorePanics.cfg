\* Up to two panics: of decoders, of a filter, of a reader.
SPECIFICATION Spec
CONSTANTS
  Concurrency = 2
  MaxIo = 2
  FilterIds = {1}
  Filters <- MCOneFilter
  NoFilter = NoFilter
  NoId = NoId
  Matches <- MCMatches
  Roles <- ReaderWriter
  MaxBatch = 1
  MaxRead <- Two
  FilterChunk = 1
  OutputChunk = 1
  MaxFilterOps = 1
  MaxPanics = 2
INVARIANTS
  TypeOK
  PanicReported
  OnePanicSurvived
