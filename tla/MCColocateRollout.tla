------------------------- MODULE MCColocateRollout --------------------------
EXTENDS ColocateRollout
=============================================================================
