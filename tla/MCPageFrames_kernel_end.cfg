SPECIFICATION Spec
CONSTANTS
  E820Tables <- Maps
  PageSize = 4
  AddrSpace = 1024
  KernelStartPage = 2
  KernelImageSize = 3
  FrameDescSize = 1
  DmaPages = 5
  MinPhysMemory = 24
  NrCpus = 2
INVARIANT
  KernelPagesReserved
