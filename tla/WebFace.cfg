\* Two requests, one login and its renewals, every act of the operator, reads that fail, 12 h : 6 h as 4 : 2.
SPECIFICATION Spec
CONSTANTS
  w1 = w1
  w2 = w2
  l1 = l1
  l2 = l2
  e1 = e1
  Null = Null
  Worker <- MCWorker
  Login = {l1}
  EnvHash <- MCEnvHash
  SessionTTL = 4
  SessionRefresh = 2
  OperatorActs <- AllActs
  Faults = TRUE
  MaxTime = 6
  MaxVersion = 2
  MaxEpoch = 3
  MaxCookies = 3
SYMMETRY Symmetry
INVARIANTS WebTypeOK RotationEndsSessions
PROPERTIES LapsedSessionsDrain EndedStaysEnded
