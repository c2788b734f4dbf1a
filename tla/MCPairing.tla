----------------------------- MODULE MCPairing -----------------------------
(* Instances of Pairing for TLC. *)
EXTENDS Pairing, TLC

CONSTANTS w1, w2, p1, p2, c1, c2, c3, j1, j2, j3, k1, k2, h1, q1, q2, t1, t2

\* Symmetric sets: uuids, codes and requests are interchangeable everywhere.
UuidSymmetry ==
  Permutations(Worker) \cup Permutations(PairingId) \cup Permutations(ClaimId)
    \cup Permutations(Jti) \cup Permutations(Code)
Symmetry == UuidSymmetry \cup Permutations(TenantId)
=============================================================================
