CONSTANTS
  boss = boss
  dev = dev
  p1 = p1
  Pushed = {t2}
  DevMessages = {e1, e2}
  Task = {t1, t2}
  NoTask = NoTask
  Message = {e1, e2, a1, a2, a3}
  NoMessage = NoMessage
  Commit = {c1, c2}
  NoCommit = NoCommit
  Project = {p1}
  ProjectOf <- MCProjectOf
  User = {boss, dev}
  Admin = {boss}
  Creator <- MCCreator
  Sender <- MCSender
SPECIFICATION MCSpec
SYMMETRY Symmetry
INVARIANT TypeOK
INVARIANT ReleaseIsLocked
INVARIANT RowsCanGoOn
PROPERTY StatusMachine
PROPERTY CallsAuthorised
PROPERTY RestartClean
