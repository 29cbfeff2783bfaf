--------------------------- MODULE MCAsyncRollout ---------------------------
EXTENDS AsyncRollout
\* Three requests for two workers in training; in evaluation one, so that a
\* worker gets the placeholder.
MCSize == [m \in Modes |-> IF m = "train" THEN 3 ELSE 1]
=============================================================================
