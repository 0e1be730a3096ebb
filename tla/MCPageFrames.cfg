SPECIFICATION Spec
CONSTANTS
  E820Tables <- Maps
  PageSize = 4
  AddrSpace = 1024
  KernelStartPage = 2
  KernelImageSize = 3
  FrameDescSize = 1
  DmaPages = 5
  MinPhysMemory = 24
  NrCpus = 2
INVARIANTS
  TypeOK
  FramesPartitioned
  ZoneCountersExact
  PoolAvoidsKernelAndDma
  FreeIsRam
  NoRamLost
  CounterCoversCache
PROPERTIES
  BootEnds
  PoolRefinement
