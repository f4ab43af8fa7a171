SPECIFICATION Spec
CONSTANTS
  c1 = c1
  c2 = c2
  c3 = c3
  p1 = p1
  p2 = p2
  k1 = k1
  NoConn = NoConn
  NoPid = NoPid
  NoKey = NoKey
  Conns = {c1, c2, c3}
  Pids = {p1, p2}
  Keys = {k1}
  PidOf <- Reconnecting
  QueueCap = 1
  SfuCap = 2
  IdleTicks = 0
  Frames <- Violations
  Faults = {"stall", "sfu"}
INVARIANTS HubServed LiveRegistered EmptyRoomDropped SfuServed
