\* The password changes while a request is relayed; it is never cleared.
SPECIFICATION Spec
CONSTANTS
  w1 = w1
  w2 = w2
  l1 = l1
  l2 = l2
  e1 = e1
  Null = Null
  Worker <- MCWorker
  Login <- MCLogin
  EnvHash <- MCEnvHash
  SessionTTL = 4
  SessionRefresh = 2
  OperatorActs <- OnlySet
  Faults = FALSE
  MaxTime = 5
  MaxVersion = 2
  MaxEpoch = 3
  MaxCookies = 3
SYMMETRY Symmetry
INVARIANTS LoggedInWithThisPassword
