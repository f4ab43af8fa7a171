SPECIFICATION BrowserFairSpec
CONSTANTS
  t1 = t1
  t2 = t2
  Sockets = {t1, t2}
  NoSocket = NoSocket
  Pids = {me, peer}
  Self = me
  BaseDelay = 1
  CapDelay = 30
  MaxVisits = 3
  MaxTasks = 2
  MaxAttempts = 5
INVARIANTS BrowserTypeOK OneLine QuietAfterLeave DelaysDouble KeyPerStay KeysForgotten
PROPERTIES KeepsCalling
