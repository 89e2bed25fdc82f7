----------------------------- MODULE MCRegistry -----------------------------
(* A small instance of Registry for TLC.                                    *)
EXTENDS Registry

CONSTANTS t1, t2, l1, l2, s1, s2, h1

TwoThreads == {t1, t2}
TwoLoggers == {l1, l2}
TwoSinks == {s1, s2}
OneHandler == {h1}

RegistrySymmetry ==
    Permutations(Threads) \cup Permutations(Loggers) \cup Permutations(Sinks)
=============================================================================
