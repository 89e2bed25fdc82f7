----------------------------- MODULE MCPipeline -----------------------------
(* Small instances of Pipeline for TLC.  The messages are numbered; each    *)
(* instance gives their authors, loggers and what filters and modules do.   *)
EXTENDS Pipeline

CONSTANTS w1, w2, p1, p2, l1, l2, s1, s2

TwoWorkers == {w1, w2}
TwoProducers == {p1, p2}
TwoLoggers == {l1, l2}
TwoSinks == {s1, s2}
NoPairs == {}

\* Two producers log alternately to two loggers that share a sink; the first
\* logger gets deleted.
FourMessages == 1 .. 4
SharedAuthor == <<p1, p2, p1, p2>>
SharedVia == <<l1, l1, l2, l1>>
SharedLinks == (l1 :> <<s1, s2>>) @@ (l2 :> <<s1>>)
\* A filter and a module that throw, and a filter that rejects.
SharedRejects == {<<s2, 2>>}
SharedFilterThrows == {<<s2, 1>>}
SharedModuleThrows == {<<s1, 2>>, <<s2, 4>>}

\* Three messages, two of them of the first logger.
ThreeMessages == 1 .. 3
TwoAuthors == <<p1, p2, p1>>
TwoVia == <<l1, l2, l1>>
TwoLinks == (l1 :> <<s1>>) @@ (l2 :> <<s2>>)
FirstLogger == {l1}

\* Two loggers share one sink; the first is disconnected and connected again,
\* and deleted, while its messages are on their way.  The filter throws on the
\* message of the other logger, the module on the last one.
OneSink == {s1}
OneSinkLinks == (l1 :> <<s1>>) @@ (l2 :> <<s1>>)
ReconnectedSink == {<<l1, s1>>}
OneFilterThrows == {<<s1, 2>>}
OneModuleThrows == {<<s1, 3>>}

WorkerSymmetry == Permutations(Workers)
=============================================================================
