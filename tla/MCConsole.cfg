SPECIFICATION ConsoleSpec
CONSTANTS
  Cols = 3
  Rows = 3
  TextRows = 9
  Uint16 = 65536
  Messages <- MCMessages
  IrqMessages <- MCIrqMessages
  MaxPrints = 4
INVARIANTS
  LogShown
  PlainInMemory
PROPERTIES
  IndexAsSelected
CHECK_DEADLOCK FALSE
