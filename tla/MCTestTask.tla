----------------------------- MODULE MCTestTask -----------------------------
EXTENDS TestTask

CONSTANTS w1, w2

\* Two workers with the task in their slices.
MCRunners == {w1, w2}

\* No memory, the scripts' value, and more.
MCLengths == {0, 1, 2}
=============================================================================
