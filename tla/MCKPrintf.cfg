SPECIFICATION Spec
CONSTANTS
  CharBits = 2
  ShortBits = 3
  IntBits = 4
  LongBits = 6
  Calls <- MCCalls
  Slots = {0, 1, 7, 9, 63}
  Texts <- MCTexts
  StarWidths <- MCStars
  TmpBufSize = 8
  VsprintfSize = 11
  PanicBufSize = 5
  Junk <- MCJunk
INVARIANTS
  TypeOK
  WithinLimit
  MessagesStandard
PROPERTIES
  CallsEnd
