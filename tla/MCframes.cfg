SPECIFICATION Spec
CONSTANTS
  c1 = c1
  c2 = c2
  c3 = c3
  p1 = p1
  p2 = p2
  k1 = k1
  NoConn = NoConn
  NoPid = NoPid
  NoKey = NoKey
  Conns = {c1, c2}
  Pids = {c1, c2}
  Keys = {k1}
  PidOf <- OwnPid
  QueueCap = 1
  SfuCap = 1
  IdleTicks = 1
  Frames <- AllFrames
  Faults = {"stall", "sfu"}
SYMMETRY Symmetry
INVARIANTS TypeOK SfuWithinCap
PROPERTIES KeyRecordedByItsOwner
