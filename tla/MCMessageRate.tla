--------------------------- MODULE MCMessageRate ---------------------------
EXTENDS MessageRate
=============================================================================
