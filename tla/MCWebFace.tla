----------------------------- MODULE MCWebFace -----------------------------
(* WebFace on a small instance: two requests, one or two logins, an        *)
(* environment with or without a hash.  Requests and logins are            *)
(* interchangeable.                                                        *)
EXTENDS WebFace, TLC

CONSTANTS w1, w2, l1, l2, e1

MCWorker == {w1, w2}
MCLogin == {l1, l2}
MCEnvHash == {e1}
NoHash == {}
AllActs == {"set", "clear", "env"}
SetAndClear == {"set", "clear"}
OnlySet == {"set"}
Symmetry == Permutations(MCWorker) \cup Permutations(MCLogin)
=============================================================================
