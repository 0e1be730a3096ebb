SPECIFICATION Spec
CONSTANTS
  Entries = 8
  Frames <- Ram
  Root = 1
  RamSizes = {1, 3, 16, 50, 66}
  PoolSizes = {0, 2, 7, 11, 18, 25, 29, 31, 33, 36, 45, 60}
  DmaPages = 4
  KernelBase <- LayoutBase
  ApicPage = 200
  StackPages = 4
  StackGap = 1
  StackStep = 8
  StackWords = 3
  NrCpus = 2
  MaxThreads = 2
INVARIANTS
  TypeOK
  TablesFormTree
  DirectMapKept
  TasksApart
PROPERTIES
  NoLiveRemap
  WorkEnds
