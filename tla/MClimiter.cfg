SPECIFICATION LimiterSpec
CONSTANTS
  t1 = t1
  t2 = t2
  a1 = a1
  a2 = a2
  Callers = {t1, t2}
  Scopes = {a1, a2}
  Limit <- TwoAndOne
  Window = 4
  Second = 2
  Lag = 1
  MaxTime = 7
SYMMETRY Symmetry
INVARIANTS LimiterTypeOK TwoWindowsApart
PROPERTIES RefusalDeserved HintSuffices
