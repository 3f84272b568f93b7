CONSTANTS
  Sender = {s1, s2}
  Parts = 2
  Echo = {e1, e2}
  NoEcho = NoEcho
  NoRequest = NoRequest
  WriteQueue = 1
SPECIFICATION FairSpec
CHECK_DEADLOCK FALSE
INVARIANT NobodyBlocks
INVARIANT SendIsSound
PROPERTY SessionEnds
