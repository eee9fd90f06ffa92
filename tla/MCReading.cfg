\* One member with two requests at a time; see ReadAndList.
SPECIFICATION Spec
CONSTANTS
  r1 = r1
  r2 = r2
  MaxMessages = 3
  Stored = {0, 3}
  Requests = {r1, r2}
  Limit = 2
  Scripts <- Conversations
  Scenarios <- ReadAndList
CHECK_DEADLOCK FALSE
SYMMETRY RequestSymmetry
INVARIANTS
  TypeOK
  CountedCanBeSeen
  ShownOnce
  ContentOnlyOnceOpened
  GapsAreFilled
PROPERTIES
  NeverUnread
  WatermarkForward
