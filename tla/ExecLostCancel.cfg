CONSTANTS
  dev = dev
  p1 = p1
  first = t1
  Task = {t1}
  NoTask = NoTask
  Message = {m1, m2, m3}
  Confirms = {m1}
  Supplements = {m2}
  NoMessage = NoMessage
  Commit = {c1}
  NoCommit = NoCommit
  Project = {p1}
  ProjectOf <- MCProjectOf
  User = {dev}
  Admin = {}
  Creator <- MCCreator
  Sender <- MCSender
  CommandOf <- MCCommandOf
  Worker = {w1, w2}
  NoWorker = NoWorker
  SlotOf <- MCSlotOf
  Created <- MCCreated
  ScanLimit = 256
  MaxFaults = 0
SPECIFICATION Spec
INVARIANT CancelReachesWorker
