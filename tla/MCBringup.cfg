SPECIFICATION Spec
CONSTANTS
  Loaders <- MCLoaders
  MaxRecords = 2
  MaxTasks = 2
  Cursors = {0, 1920, 1921, 65535}
  KernelHalf = 1000
  Garbage <- MCGarbage
  MaxLvts = {1, 2, 3, 4, 5, 255}
  Versions = {0, 16, 20, 255}
INVARIANTS
  LongModeSafe
  TablesMatchLoader
  HaltMessageVisible
  QuietWhenCleared
PROPERTIES
  RegistersAsMeant
