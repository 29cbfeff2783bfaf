--------------------------- MODULE MCEvalWorkers ----------------------------
EXTENDS EvalWorkers
=============================================================================
