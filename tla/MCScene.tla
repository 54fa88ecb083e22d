------------------------------- MODULE MCScene --------------------------------
\* A wall that hides the farther entities in one column only, and that is just in
\* front of the nearer ones where draw_entities does not notice; entities on both
\* sides of the middle, some of them partly off the screen.
EXTENDS Scene

MCWalls       == {[c \in Columns |-> IF c = 1 THEN 1 ELSE 3]}
MCSideOffsets == {-1, 0, 1}
=============================================================================
