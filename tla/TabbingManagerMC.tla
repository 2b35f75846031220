-------------------------- MODULE TabbingManagerMC --------------------------
EXTENDS TabbingManager
CONSTANTS None, Zero, MinusOne
MCElements == 1 .. 2
MCIndices == {None, Zero, MinusOne}
=============================================================================
