\* Two requests in flight, crashes and failing writes, the real 600:300:1800 s ratio.
SPECIFICATION Spec
CONSTANTS
  w1 = w1  w2 = w2  p1 = p1  p2 = p2  c1 = c1  c2 = c2  c3 = c3
  j1 = j1  j2 = j2  j3 = j3  k1 = k1  k2 = k2  h1 = h1  q1 = q1  q2 = q2  t1 = t1  t2 = t2
  Worker = {w1, w2}
  PairingId = {p1, p2}
  ClaimId = {c1}
  Jti = {j1, j2}
  Code = {k1}
  HostCode = {h1}
  Port = {q1}
  TunnelPorts = {q1}
  TenantId = {}
  Default = Default  Operator = Operator  Open = Open  Null = Null
  PairingTTL = 2  ClaimTTL = 1  ReuseWindow = 6  MaxTime = 7
  Faults = TRUE
SYMMETRY UuidSymmetry
INVARIANTS
  TypeOK UniquePendingCode CodeQuarantine ClaimSingleUse
  ConfirmedHasClaim StatusNamesAGrant
PROPERTIES SpentStaysSpent GrantSpec
