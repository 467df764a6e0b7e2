--------------------------- MODULE MCAsyncLifecycle ---------------------------
(* Three calls on two threads; calls, and threads, are interchangeable.        *)
EXTENDS AsyncLifecycle, TLC

CONSTANTS f1, f2, f3, t1, t2

MCFutures == {f1, f2, f3}
MCThreads == {t1, t2}
MCSymmetry == Permutations(MCFutures) \cup Permutations(MCThreads)
=============================================================================
