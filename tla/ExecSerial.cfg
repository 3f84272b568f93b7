CONSTANTS
  dev = dev
  p1 = p1
  first = t1
  Task = {t1, t2}
  NoTask = NoTask
  Message = {m1, m2, m3, m4}
  Confirms = {m1, m2}
  Supplements = {m3}
  NoMessage = NoMessage
  Commit = {c1}
  NoCommit = NoCommit
  Project = {p1}
  ProjectOf <- MCProjectOf
  User = {dev}
  Admin = {}
  Creator <- MCCreator
  Sender <- MCSender
  CommandOf <- MCCommandOf
  Worker = {w1}
  NoWorker = NoWorker
  SlotOf <- MCSlotOf
  Created <- MCCreated
  ScanLimit = 1
  MaxFaults = 0
SPECIFICATION FairSpec
INVARIANT OneSlotSuffices
PROPERTY TasksSettle
