\* As MCReading: a message may be read without having been opened.
SPECIFICATION Spec
CONSTANTS
  r1 = r1
  r2 = r2
  MaxMessages = 3
  Stored = {0, 3}
  Requests = {r1, r2}
  Limit = 2
  Scripts <- Conversations
  Scenarios <- ReadAndList
CHECK_DEADLOCK FALSE
SYMMETRY RequestSymmetry
INVARIANT ReadMeansOpened
