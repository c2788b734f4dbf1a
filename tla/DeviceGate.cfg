\* Three requests or sockets, two tokens, two tenants.
SPECIFICATION Spec
CONSTANTS
  r1 = r1
  r2 = r2
  r3 = r3
  j1 = j1
  j2 = j2
  t1 = t1
  Default = Default
  Operator = Operator
  Null = Null
  Request <- MCRequest
  Jti <- MCJti
  TenantId <- MCTenantId
SYMMETRY Symmetry
INVARIANTS GateTypeOK PresenceExact RevokeFence
PROPERTIES RevokedAdmitsNobody GateSpec
