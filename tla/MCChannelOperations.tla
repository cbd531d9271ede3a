------------------------- MODULE MCChannelOperations -------------------------
EXTENDS ChannelOperations, TLC

CallSymmetry == Permutations(Calls)
=============================================================================
