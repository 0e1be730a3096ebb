SPECIFICATION Spec
CONSTANTS
  Entries = 8
  Frames <- Ram
  Root = 1
  RamSizes = {66}
  PoolSizes = {60}
  DmaPages = 4
  KernelBase <- LayoutBase
  ApicPage = 200
  StackPages = 4
  StackGap = 1
  StackStep = 8
  StackWords = 3
  NrCpus = 2
  MaxThreads = 2
INVARIANT
  AllMemoryRemapped
