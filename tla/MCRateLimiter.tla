--------------------------- MODULE MCRateLimiter ---------------------------
(* Two keys, two admissions in a window of three instants. *)
EXTENDS RateLimiter, TLC

CONSTANTS k1, k2

MCKey == {k1, k2}
Symmetry == Permutations(MCKey)
=============================================================================
