CONSTANTS
  boss = boss
  dev = dev
  p1 = p1
  Task = {t1, t2}
  NoTask = NoTask
  Message = {m1, m2, m3}
  Merges = {m1, m2}
  Deploys = {m3}
  Supplements = {}
  NoMessage = NoMessage
  Project = {p1}
  ProjectOf <- MCProjectOf
  User = {boss, dev}
  Admin = {boss}
  Creator <- MCCreator
  Sender <- MCSender
  CommandOf <- MCCommandOf
  TaskCommit <- MCTaskCommit
  Foreign = {}
  NoCommit = NoCommit
  Base = Base
  MaxFaults = 0
SPECIFICATION MCFairSpec
INVARIANT OneHelperPerProject
PROPERTY ReleaseEnds
