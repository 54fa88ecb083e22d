------------------------------- MODULE MCView ---------------------------------
\* Rays along the axes, along the diagonals, which meet corners of the grid, and
\* between them.
EXTENDS View

MCDirections ==
  [x : -2 .. 2, y : -2 .. 2] \ [x : {-2, 0, 2}, y : {-2, 0, 2}]
=============================================================================
