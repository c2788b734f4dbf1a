---------------------------- MODULE MCDeviceGate ----------------------------
(* DeviceGate with three requests, two tokens and two tenants: a token may *)
(* have several sockets, and the tokens one tenant or two.                 *)
EXTENDS DeviceGate, TLC

CONSTANTS r1, r2, r3, j1, j2, t1

MCRequest == {r1, r2, r3}
MCJti == {j1, j2}
MCTenantId == {Default, t1}
Symmetry == Permutations(MCRequest) \cup Permutations(MCJti)
=============================================================================
