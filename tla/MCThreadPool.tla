---------------------------- MODULE MCThreadPool ----------------------------
(* Small instances of ThreadPool for TLC.                                  *)
EXTENDS ThreadPool

CONSTANTS w1, w2, w3, c1, c2, k1, k2, k3, h1, h2

TwoWorkers == {w1, w2}
ThreeWorkers == {w1, w2, w3}
OneClient == {c1}
TwoClients == {c1, c2}
TwoTasks == {k1, k2}
ThreeTasks == {k1, k2, k3}
OneFailing == {k1}
TwoHandlers == {h1, h2}
OneHandler == {h1}

\* Workers, clients and handlers are interchangeable; the tasks are but for
\* the failing one.
PoolSymmetry == Permutations(Workers) \cup Permutations(Clients)
                    \cup Permutations(Handlers)
                    \cup Permutations(Tasks \ FailingTasks)
=============================================================================
