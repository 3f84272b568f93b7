CONSTANTS
  Worker = {w1, w2}
  EventQueue = 1
  MessageQueue = 1
  Attempts = 2
  MaxMessages = 6
  MaxSessions = 2
  MaxFaults = 1
SPECIFICATION FairSpec
CHECK_DEADLOCK FALSE
INVARIANT TypeOK
INVARIANT NothingLost
INVARIANT StopIsSafe
PROPERTY MessagesHandled
PROPERTY StopsGracefully
