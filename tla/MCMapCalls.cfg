SPECIFICATION Spec
CONSTANTS
  Entries = 2
  Frames = {0, 1, 2, 3, 4, 5, 6, 7, 8}
  Root = 0
  PoolSizes = {4, 8}
  Requests <- RegularRequests
  MaxCalls = 2
INVARIANTS
  TypeOK
  TablesFormTree
PROPERTIES
  MapsTheRequest
  CallEnds
