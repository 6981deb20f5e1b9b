\* A filter that is set, replaced and removed and a writer, while frames arrive.
SPECIFICATION Spec
CONSTANTS
  Concurrency = 1
  MaxIo = 2
  FilterIds = {1}
  Filters <- MCFilters
  NoFilter = NoFilter
  NoId = NoId
  Matches <- MCMatches
  Roles <- ReaderWriter
  MaxBatch = 1
  MaxRead <- Two
  FilterChunk = 1
  OutputChunk = 1
  MaxFilterOps = 2
  MaxPanics = 0
INVARIANTS
  AnnouncedBacked
  FilteredExact
PROPERTIES
  OutputComplete
