----------------------------- MODULE MCOtelShim -----------------------------
(***************************************************************************)
(* Instances of OtelShim for TLC.  Three handles make the counter wrap     *)
(* within the bound on spans and skip 0 once.                              *)
(***************************************************************************)
EXTENDS OtelShim, TLC

CONSTANTS t1, t2

MCThreads == {t1, t2}

\* Threads are interchangeable in every safety property.
MCSymmetry == Permutations(MCThreads)
=============================================================================
