\* Tenants, a port registry that changes under a claim in flight, late offers.
SPECIFICATION Spec
CONSTANTS
  w1 = w1  w2 = w2  p1 = p1  p2 = p2  c1 = c1  c2 = c2  c3 = c3
  j1 = j1  j2 = j2  j3 = j3  k1 = k1  k2 = k2  h1 = h1  q1 = q1  q2 = q2  t1 = t1  t2 = t2
  Worker = {w1}
  PairingId = {p1, p2}
  ClaimId = {c1}
  Jti = {j1}
  Code = {k1}
  HostCode = {h1}
  Port = {q1, q2}
  TunnelPorts = {q1}
  TenantId = {t1, t2}
  Default = Default  Operator = Operator  Open = Open  Null = Null
  PairingTTL = 1  ClaimTTL = 1  ReuseWindow = 2  MaxTime = 2
  Faults = TRUE
SYMMETRY Symmetry
INVARIANTS AnchorFence PortAuthority
PROPERTIES IssueSpec RevokedTenantDrains LostPortDrains
