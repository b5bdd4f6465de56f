----------------------- MODULE MCConnectionRateLimit -----------------------
EXTENDS ConnectionRateLimit, TLC

CONSTANTS t1, t2, t3, t4   \* init tasks, as model values

TaskSymmetry == Permutations(Tasks)
=============================================================================
