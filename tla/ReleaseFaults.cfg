CONSTANTS
  boss = boss
  dev = dev
  p1 = p1
  Task = {t1, t2}
  NoTask = NoTask
  Message = {m1, m2, m3, m4, s1, c1}
  Merges = {m1, m2}
  Deploys = {m3, m4}
  Supplements = {s1}
  NoMessage = NoMessage
  Project = {p1}
  ProjectOf <- MCProjectOf
  User = {boss, dev}
  Admin = {boss}
  Creator <- MCCreator
  Sender <- MCSender
  CommandOf <- MCCommandOf
  TaskCommit <- MCTaskCommit
  Foreign = {f1}
  NoCommit = NoCommit
  Base = Base
  MaxFaults = 2
SPECIFICATION MCSpec
SYMMETRY Symmetry
INVARIANT TypeOK
INVARIANT NoConflict
INVARIANT MergedIsInRc
INVARIANT DeployedWasApproved
PROPERTY LedgerSpec
