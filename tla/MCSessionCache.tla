---------------------------- MODULE MCSessionCache ----------------------------
(* Two sessions and two wrapper processes; the names are interchangeable.      *)
EXTENDS SessionCache, TLC

CONSTANTS s1, s2, w1, w2

MCSessions == {s1, s2}
MCWrappers == {w1, w2}
MCSymmetry == Permutations(MCSessions) \cup Permutations(MCWrappers)
=============================================================================
