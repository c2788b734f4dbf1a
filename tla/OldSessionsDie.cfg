\* The row is cleared and another password is set; no hash in the environment.
SPECIFICATION Spec
CONSTANTS
  w1 = w1
  w2 = w2
  l1 = l1
  l2 = l2
  e1 = e1
  Null = Null
  Worker <- MCWorker
  Login <- MCLogin
  EnvHash <- NoHash
  SessionTTL = 4
  SessionRefresh = 2
  OperatorActs <- SetAndClear
  Faults = FALSE
  MaxTime = 5
  MaxVersion = 2
  MaxEpoch = 3
  MaxCookies = 3
SYMMETRY Symmetry
INVARIANTS OldSessionsDie
