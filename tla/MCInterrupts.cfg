SPECIFICATION Spec
CONSTANTS
  PicWidth = 4
  Cascade = 2
  Devices = {0, 1, 5}
  TimerLine = 0
  Data = {d1}
  MaxActions = 2
  MaxRaises = 3
  MaxOps = 2
  MaxDepth = 3
INVARIANTS
  TypeOK
  HandlersNotPreempted
  InServiceMatchesStack
  SpuriousOnlyIfBlind
  TicksWithinStat
PROPERTIES
  OpenRequestsTaken
