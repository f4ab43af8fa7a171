SPECIFICATION RosterFairSpec
CONSTANTS
  c1 = c1
  c2 = c2
  k1 = k1
  NoConn = NoConn
  NoPid = NoPid
  NoKey = NoKey
  Conns = {c1, c2}
  Pids = {c1, c2}
  Keys = {k1}
  PidOf <- OwnPid
  QueueCap = 2
  SfuCap = 2
  IdleTicks = 1
  Frames <- OneAnnounces
  Faults = {"stall"}
INVARIANTS RosterAgrees KeysAgree NotOwnPeer
PROPERTIES SilentIsClosed GoneIsForgotten DepartureSeen KeepsPromise
