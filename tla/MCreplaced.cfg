SPECIFICATION FairSpec
CONSTANTS
  c1 = c1
  c2 = c2
  c3 = c3
  p1 = p1
  p2 = p2
  k1 = k1
  NoConn = NoConn
  NoPid = NoPid
  NoKey = NoKey
  Conns = {c1, c2}
  Pids = {p1}
  Keys = {k1}
  PidOf <- SharedPid
  QueueCap = 1
  SfuCap = 2
  IdleTicks = 1
  Frames <- Chats
  Faults = {}
PROPERTIES ReplacedIsClosed
