SPECIFICATION RoomsSpec
CONSTANTS
  j1 = j1
  j2 = j2
  a1 = a1
  a2 = a2
  s1 = s1
  r1 = r1
  r2 = r2
  k1 = k1
  Callers = {j1, j2}
  Admins = {a1, a2}
  Sockets = {k1}
  Scopes = {s1}
  RoomIds = {r1, r2}
  RoomOf <- RoomOfScope
  Limit <- One
  Window = 2
  Second = 1
  Lag = 0
  MaxTime = 2
  TokenLife = 1
SYMMETRY Symmetry
INVARIANTS RoomsTypeOK DeletedStaysShut AdmittedOnRecord LogFaithful LogPaced Undisclosed
PROPERTIES LimiterSpec
