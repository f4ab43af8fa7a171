SPECIFICATION DirSpec
CONSTANTS
  s1 = s1
  s2 = s2
  w1 = w1
  w2 = w2
  Shell = Shell
  Absent = Absent
  Torn = Torn
  Servers = {s1}
  Passphrases = {w1, w2}
  ServicePass = w1
  RotateAge = 1
  Validity = 2
  MaxDay = 2
  MaxFresh = 3
  MaxKills = 0
INVARIANTS OldTokensRefused
