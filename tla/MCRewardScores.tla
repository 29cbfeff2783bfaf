--------------------------- MODULE MCRewardScores ---------------------------
EXTENDS RewardScores, TLC

CONSTANTS d1, d2, d3, bracket, gear, p1, p2

MCDialogues == {d1, d2, d3}

MCTasks == {bracket, gear}

\* Two samples of one task and one of another.
MCTaskOf == d1 :> bracket @@ d2 :> bracket @@ d3 :> gear

MCReused == {d1}

MCSlow == {d3}

MCCopied == MCTasks

MCProcs == {p1, p2}

\* Two threads of one process, one of another.
MCProcOf == d1 :> p1 @@ d2 :> p2 @@ d3 :> p1

MCFaithful == {d1, d3}

\* Below, between and above the thresholds.
MCDistances == {0, 2, 4}
=============================================================================
