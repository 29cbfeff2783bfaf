--------------------------- MODULE MCRewardFiles ----------------------------
EXTENDS RewardFiles, TLC

CONSTANTS d1, d2, d3, bracket, gear

MCDialogues == {d1, d2, d3}

MCTasks == {bracket, gear}

\* Two samples of one task and one of another.
MCTaskOf == d1 :> bracket @@ d2 :> bracket @@ d3 :> gear

MCReused == {d1}

MCSlow == {d3}

MCCopied == MCTasks
=============================================================================
