-------------------------- MODULE MCConnectionLoop --------------------------
EXTENDS ConnectionLoop

CONSTANTS r1, r2   \* requests, as model values
=============================================================================
