-------------------------------- MODULE Sight ---------------------------------
(***************************************************************************)
(* The part of a frame that moves the player and casts the rays            *)
(* (player_movement of src/src/game/player.c, then cast_all_rays of        *)
(* src/src/game/ray.c): which tiles the player sees decides which entities *)
(* are drawn.                                                              *)
(*                                                                         *)
(* A unit of length is as small a part of a pixel as one likes.  Angles    *)
(* are left out: a move is any vector that is not too long, and a ray      *)
(* crosses vertical and horizontal grid lines in any order, always in the  *)
(* same two directions.                                                    *)
(***************************************************************************)
EXTENDS World

CONSTANTS
  Radius,    \* player->radius: 3
  MaxMove,   \* move_speed * delta_time of the longest frame
  RAY_COUNT, \* 960
  NoWalk     \* mark_visible_tiles is not running

\* No frame takes the player farther than a tile: at 240 pixels a second,
\* frames are shorter than 266 ms.
ASSUME SightAssumption ==
  /\ Radius \in 1 .. TILE_SIZE - 1
  /\ MaxMove \in Nat /\ MaxMove <= TILE_SIZE
  /\ RAY_COUNT \in Nat \ {0}
  /\ NoWalk \notin [x : Int, y : Int, step_x : Int, step_y : Int]

VARIABLES
  phase,    \* of the frame: "starting", "clearing", "casting" or "drawing"
  px, py,   \* player->x and player->y
  visible,  \* the tiles for which visible_tiles is true
  rays,     \* the rays still to be cast
  walk      \* where mark_visible_tiles is, and the way it steps; or NoWalk

vars == <<phase, px, py, visible, rays, walk>>

\* player_init_default; the program's state is zeroed before.
Init ==
  /\ phase = "starting"
  /\ px = (TILE_SIZE * MAP_NUM_COLS) \div 2
  /\ py = (TILE_SIZE * MAP_NUM_ROWS) \div 2
  /\ visible = {} /\ rays = 0 /\ walk = NoWalk

\* Mutant: the player is a disc only on the side of larger coordinates.
ProbeAhead(old, new) == new + Radius

\* The edge of the player that is ahead in a move along one axis.
Probe(old, new) == IF new > old THEN new + Radius ELSE new - Radius

Moves ==
  {m \in [x : -MaxMove .. MaxMove, y : -MaxMove .. MaxMove] :
     m.x * m.x + m.y * m.y <= MaxMove * MaxMove}

\* player_movement: each axis by itself, the second with what has become of the
\* first.
PlayerMovement ==
  /\ phase \in {"starting", "drawing"}
  /\ \E m \in Moves :
       /\ px' = IF tiles[TileOf(py)][TileOf(Probe(px, px + m.x))] = -1
                  THEN px + m.x ELSE px
       /\ py' = IF tiles[TileOf(Probe(py, py + m.y))][TileOf(px')] = -1
                  THEN py + m.y ELSE py
  /\ phase' = "clearing"
  /\ UNCHANGED <<visible, rays, walk>>

\* Mutant: what was seen in the last frame stays visible.
ClearNothing ==
  /\ phase = "clearing"
  /\ rays' = RAY_COUNT /\ phase' = "casting"
  /\ UNCHANGED <<px, py, visible, walk>>

\* clear_visible_tiles.
ClearVisibleTiles ==
  /\ phase = "clearing"
  /\ visible' = {} /\ rays' = RAY_COUNT /\ phase' = "casting"
  /\ UNCHANGED <<px, py, walk>>

\* step_x and step_y: one way or the other.
Steps == {-1, 1}

\* mark_visible_tiles up to its loop.
CastRay ==
  /\ phase = "casting" /\ walk = NoWalk /\ rays > 0
  /\ rays' = rays - 1
  /\ IF ContainsTile(TileOf(px), TileOf(py))
       THEN \E step_x, step_y \in Steps :
              walk' = [x |-> TileOf(px), y |-> TileOf(py),
                       step_x |-> step_x, step_y |-> step_y]
       ELSE UNCHANGED walk
  /\ UNCHANGED <<phase, px, py, visible>>

\* The loop marks its tile and goes on to the next one, unless it is a wall;
\* off the map it ends.
MarkTile ==
  /\ walk # NoWalk
  /\ visible' = visible \cup
       IF ContainsTile(walk.x, walk.y) THEN {<<walk.x, walk.y>>} ELSE {}
  /\ IF ContainsTile(walk.x, walk.y) /\ tiles[walk.y][walk.x] < 0
       THEN \/ walk' = [walk EXCEPT !.x = @ + walk.step_x]
            \/ walk' = [walk EXCEPT !.y = @ + walk.step_y]
       ELSE walk' = NoWalk
  /\ UNCHANGED <<phase, px, py, rays>>

\* The last ray has been cast.
AllRaysCast ==
  /\ phase = "casting" /\ walk = NoWalk /\ rays = 0
  /\ phase' = "drawing"
  /\ UNCHANGED <<px, py, visible, rays, walk>>

Next ==
  \/ PlayerMovement \/ ClearVisibleTiles
  \/ CastRay \/ MarkTile \/ AllRaysCast

Spec == Init /\ [][Next]_vars

\* The main thread runs.
FairSpec == Spec /\ WF_vars(Next)

-----------------------------------------------------------------------------
\* All of the player is inside the walls, so every tile player_movement looks
\* up is on the map.  (That it only looks ahead of the player and never behind
\* it, and looks up the row by the player's middle, does no harm.)
KeepsDistance ==
  /\ px \in Int /\ py \in Int
  /\ TileOf(px - Radius) >= 1 /\ TileOf(px + Radius) <= MAP_NUM_COLS - 2
  /\ TileOf(py - Radius) >= 1 /\ TileOf(py + Radius) <= MAP_NUM_ROWS - 2

Apart(a, b) ==
  LET Distance(c, d) == IF c > d THEN c - d ELSE d - c
  IN  Distance(a[1], b[1]) + Distance(a[2], b[2])

\* What is drawn is what can be seen from where the player is now: a tile is
\* visible only if it is next to a visible tile that is nearer to the player
\* and not a wall, and in some direction the view reaches a wall.
LinesOfSight ==
  LET own == <<TileOf(px), TileOf(py)>>
  IN  phase = "drawing" =>
        /\ own \in visible
        /\ \E t \in visible : tiles[t[2]][t[1]] # -1
        /\ \A t \in visible \ {own} : \E u \in visible :
             /\ tiles[u[2]][u[1]] = -1
             /\ Apart(t, u) = 1 /\ Apart(own, u) < Apart(own, t)
===============================================================================
