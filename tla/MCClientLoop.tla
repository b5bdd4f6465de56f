---------------------------- MODULE MCClientLoop ----------------------------
EXTENDS ClientLoop, TLC

CONSTANTS a, b   \* channels, as model values

ChannelSymmetry == Permutations(Channels)
=============================================================================
