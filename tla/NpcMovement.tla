---------------------------- MODULE NpcMovement -----------------------------
(***************************************************************************)
(* Where the entities are: init_entity_state of src/src/game/entity.c      *)
(* places them, move_random_npc of src/src/game/npc_movement.c moves one.  *)
(*                                                                         *)
(* Coordinates are doubles in the code, but every value they take is a     *)
(* whole number: rand() is, and a step is 480.0 * (1.0 / 60.0), which is 8 *)
(* in double arithmetic.                                                   *)
(***************************************************************************)
EXTENDS World

CONSTANTS
  Entity,  \* the indices of entity_state->entities
  Step,    \* the distance of one move: 8
  Rolls    \* what rand() returns

\* The map is wider than high, and a step is no longer than a tile.
ASSUME MapAssumption ==
  /\ 6 <= MAP_NUM_ROWS /\ MAP_NUM_ROWS < MAP_NUM_COLS
  /\ Step \in 1 .. TILE_SIZE
  /\ Rolls \subseteq Nat

VARIABLES x, y, forward

npcVars == <<x, y, forward>>

\* The limits an entity turns around at.
Left  == TILE_SIZE * 2
Right == TILE_SIZE * (MAP_NUM_COLS - 2)

\* A random coordinate on an axis of so many tiles, pulled away from the walls.
\* Both axes are compared with the number of rows.
Spawn(r, length) ==
  LET roll   == r % (TILE_SIZE * length)
      pulled == IF roll < Left THEN roll + Left ELSE roll
  IN  IF pulled > TILE_SIZE * (MAP_NUM_ROWS - 2) THEN pulled - Left ELSE pulled

NpcInit ==
  /\ x \in [Entity -> {Spawn(r, MAP_NUM_COLS) : r \in Rolls}]
  /\ y \in [Entity -> {Spawn(r, MAP_NUM_ROWS) : r \in Rolls}]
  /\ forward \in [Entity -> BOOLEAN]

\* Mutant: the turn at the right is made at the wall and not a tile before it.
FacesLate(e) ==
  IF x[e] >= Right + 2 * TILE_SIZE THEN FALSE
  ELSE IF x[e] < Left THEN TRUE ELSE forward[e]

\* Mutant: the turn at the right is made at the number of rows.
FacesByRows(e) ==
  IF x[e] >= TILE_SIZE * (MAP_NUM_ROWS - 2) THEN FALSE
  ELSE IF x[e] < Left THEN TRUE ELSE forward[e]

\* Which way an entity faces when it is moved.
Faces(e) ==
  IF x[e] >= Right THEN FALSE
  ELSE IF x[e] < Left THEN TRUE ELSE forward[e]

\* move_random_npc; the button of the move is not looked at.
MoveNpc(e) ==
  /\ forward' = [forward EXCEPT ![e] = Faces(e)]
  /\ x' = [x EXCEPT ![e] = IF Faces(e) THEN x[e] + Step ELSE x[e] - Step]
  /\ UNCHANGED y

NpcNext == \E e \in Entity : MoveNpc(e)

NpcSpec == NpcInit /\ [][NpcNext]_npcVars

\* Every entity is moved again and again, as long as moves for it arrive.
NpcFairSpec == NpcSpec /\ \A e \in Entity : WF_npcVars(MoveNpc(e))

-----------------------------------------------------------------------------
\* Coordinates are whole numbers.
NpcTypeOK ==
  /\ x \in [Entity -> Int] /\ y \in [Entity -> Int]
  /\ forward \in [Entity -> BOOLEAN]

\* An entity overshoots a limit by less than a step, and starts between them.
NpcInv ==
  /\ NpcTypeOK
  /\ \A e \in Entity : Left - Step <= x[e] /\ x[e] < Right + Step
  /\ \A e \in Entity : Left <= y[e] /\ y[e] <= TILE_SIZE * (MAP_NUM_ROWS - 2)

\* entity_draws_prepare looks an entity's tile up in visible_tiles: the tile is
\* on the map and inside its outer walls, from the spawn on and after any
\* number of moves.
InsideWalls ==
  \A e \in Entity :
    /\ TileOf(x[e]) \in 1 .. MAP_NUM_COLS - 2
    /\ TileOf(y[e]) \in 1 .. MAP_NUM_ROWS - 2

\* Entities march back and forth: each reaches both limits again and again.
MarchesBackAndForth ==
  \A e \in Entity : []<>(x[e] >= Right) /\ []<>(x[e] < Left)
=============================================================================
