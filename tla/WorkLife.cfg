CONSTANTS
  b0 = b0
  w1 = w1
  w2 = w2
  Change = {w1, w2}
  SourceBase <- MCBase
  Base <- MCBase
  Upstream = {u1}
  Foreign = {f1}
  MaxBytes = 16
  MarkerBytes = 3
  EntryBytes = {2}
  Earlier = {0, 12}
  MaxEvents = 2
  Checks = 1
  MaxFaults = 2
SPECIFICATION FairSpec
CHECK_DEADLOCK FALSE
INVARIANT TypeOK
INVARIANT LogSound
INVARIANT SuccessIsComplete
INVARIANT CancelKillsGroup
INVARIANT PreparedOrGone
INVARIANT PushIsEvidenced
PROPERTY RemoteMoves
PROPERTY WorkEnds
