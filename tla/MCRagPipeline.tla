--------------------------- MODULE MCRagPipeline ----------------------------
EXTENDS RagPipeline
CONSTANTS t1, t2, t3, a1, a2, a3
MCTasks == {t1, t2, t3}
MCApis == {a1, a2, a3}
\* t1 and t2 can match the same API; a1 is expected for all tasks.
MCMatches == (t1 :> {a1, a2}) @@ (t2 :> {a2, a3}) @@ (t3 :> {a3})
MCExpected == <<a1>>
=============================================================================
