SPECIFICATION MCSpec
CONSTANTS
  d1 = d1
  d2 = d2
  r1 = r1
  global = global
  noOrg = noOrg
  c1 = c1
  c2 = c2
  Clients = {c1, c2}
  RpmLimit = 1
  TpmLimit = 1
  KeyWindow = 2
  Tokens = {1}
  MaxPending = 1
  MaxCount = 2
  Ips = {ip1, ip2}
  RegisterLimit = 2
  RegisterWindow = 2
  MaxEntries = 1
  Letters = {"a", "b"}
  MaxLetters = 3
  Buffer = 1
  N = 4
  MaxScore = 2
  CounterMod = 12
  MaxJitter = 1
INVARIANTS
  PartTypeOK
  OrderIsFair
  RaceIsClean
  EndedIsWhole
  NoLimitIsExceeded
PROPERTIES
  EveryCallEnds
  RetryIsAdmitted
  GoroutinesEnd
