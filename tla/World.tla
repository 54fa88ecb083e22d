-------------------------------- MODULE World ---------------------------------
(***************************************************************************)
(* The map of src/src/game/world.c: a rectangle of tiles with walls around *)
(* its edge, and the rule by which every other file turns a coordinate     *)
(* into a tile.                                                            *)
(***************************************************************************)
EXTENDS Integers

CONSTANTS
  TILE_SIZE,     \* 64
  MAP_NUM_ROWS,  \* 11
  MAP_NUM_COLS   \* 15

\* There is room inside the walls.
ASSUME WorldAssumption ==
  /\ TILE_SIZE \in Nat \ {0}
  /\ MAP_NUM_ROWS \in Nat /\ MAP_NUM_COLS \in Nat
  /\ 4 <= MAP_NUM_ROWS /\ 4 <= MAP_NUM_COLS

\* The tile of a coordinate that is not negative.
TileOf(c) == c \div TILE_SIZE

Columns == 0 .. MAP_NUM_COLS - 1
Rows    == 0 .. MAP_NUM_ROWS - 1

\* world_contains_tile.
ContainsTile(col, row) == col \in Columns /\ row \in Rows

\* Mutant: a slip of the finger, 19 for 9.
LeftEdgeMistyped(row) == IF row = MAP_NUM_ROWS - 2 THEN 19 ELSE 1

\* The textures of the left edge, which are other ones in its lower half.  They
\* are counted from the lowest row, so that a smaller map has them too.
LeftEdge(row) ==
  LET up == MAP_NUM_ROWS - 1 - row
  IN  IF up = 1 THEN 9
      ELSE IF up \in {2, 5} THEN 4
      ELSE IF up = 4 THEN 2
      ELSE 1

\* default_tilemap: -1 where there is no wall, otherwise the texture of the wall.
tiles ==
  [row \in Rows |-> [col \in Columns |->
     IF col \in 1 .. MAP_NUM_COLS - 2 /\ row \in 1 .. MAP_NUM_ROWS - 2 THEN -1
     ELSE IF col = 0 THEN LeftEdge(row)
     ELSE 1]]
=============================================================================
