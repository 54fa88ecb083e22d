-------------------------------- MODULE Rays ----------------------------------
(***************************************************************************)
(* The two algorithms of src/src/game/ray.c that follow one and the same   *)
(* ray.  mark_visible_tiles walks from tile to tile and decides by two     *)
(* running distances which grid line comes next; what it marks decides     *)
(* which entities are drawn.  cast_single_ray looks for a wall along the   *)
(* horizontal grid lines, then along the vertical ones, and takes the      *)
(* nearer; its distance decides what hides an entity, and it names the     *)
(* texture of the wall and the column of it.                               *)
(*                                                                         *)
(* A ray is the vector it points along, not an angle, and all arithmetic   *)
(* is exact: a point is three whole numbers [x, y, den] for (x / den,      *)
(* y / den).  The rounding of tan and of the sums is left out.             *)
(***************************************************************************)
EXTENDS Sight, FiniteSets

CONSTANTS
  Directions,   \* the vectors [x, y] rays may point along
  NUM_TEXTURES, \* 12
  NoRay         \* no ray is being cast, or none has been

\* The map names textures 1, 2, 4 and 9.
ASSUME RaysAssumption ==
  /\ Directions \subseteq [x : Int, y : Int] \ {[x |-> 0, y |-> 0]}
  /\ NoRay \notin Directions
  /\ NUM_TEXTURES \in Nat /\ NUM_TEXTURES > 9

VARIABLES
  dir,    \* where the ray that is being cast points, or NoRay
  ahead,  \* the way left, along each axis, to the next grid line of the walk
  last,   \* the tile this frame's walk marked last
  hit     \* rays[i] of the ray this frame cast last, or NoRay

rayVars == <<vars, dir, ahead, last, hit>>

Abs(n) == IF n < 0 THEN -n ELSE n

\* is_ray_down, is_ray_right, and the steps of the walk: which way along an
\* axis.  No way at all counts as the negative one.
Forward(d) == d > 0
StepOf(d)  == IF Forward(d) THEN 1 ELSE -1

\* The k-th grid line across an axis, seen from coordinate c in direction d.
GridLine(c, d, k) ==
  (TileOf(c) + (IF Forward(d) THEN 1 ELSE 0) + k * StepOf(d)) * TILE_SIZE

RayInit ==
  /\ Init
  /\ dir = NoRay /\ hit = NoRay
  /\ ahead = [x |-> 0, y |-> 0]
  /\ last = <<TileOf(px), TileOf(py)>>

-----------------------------------------------------------------------------
\* tile_first_delta_x < tile_first_delta_y, each of them the way left along
\* its axis over what the ray covers of it, DBL_MAX if it covers nothing.
XComesFirst ==
  dir.x # 0 /\ (dir.y = 0 \/ ahead.x * Abs(dir.y) < ahead.y * Abs(dir.x))

\* Mutant: the way to the first grid line is a whole tile.
WholeTile(c, d) == TILE_SIZE

\* next_vertical_grid_x - player->x, and its like on the other axis.
FirstWay(c, d) == Abs(GridLine(c, d, 0) - c)

\* mark_visible_tiles up to its loop, for the ray cast_all_rays is at.
WalkBegins ==
  /\ phase = "casting" /\ dir = NoRay /\ rays > 0
  /\ rays' = rays - 1
  /\ \E d \in Directions :
       /\ dir' = d
       /\ walk' = IF ContainsTile(TileOf(px), TileOf(py))
                    THEN [x |-> TileOf(px), y |-> TileOf(py),
                          step_x |-> StepOf(d.x), step_y |-> StepOf(d.y)]
                    ELSE NoWalk
       /\ ahead' = [x |-> FirstWay(px, d.x), y |-> FirstWay(py, d.y)]
  /\ UNCHANGED <<phase, px, py, visible, last, hit>>

\* Mutant: the walk does not stop at a wall.
WalkThroughWalls ==
  /\ walk # NoWalk
  /\ visible' = visible \cup {<<walk.x, walk.y>>} /\ last' = <<walk.x, walk.y>>
  /\ IF walk.x \in 1 .. MAP_NUM_COLS - 2 \/ walk.y \in 1 .. MAP_NUM_ROWS - 2
       THEN /\ walk' = [walk EXCEPT !.x = @ + walk.step_x]
            /\ ahead' = [ahead EXCEPT !.x = @ + TILE_SIZE]
       ELSE walk' = NoWalk /\ ahead' = [x |-> 0, y |-> 0]
  /\ UNCHANGED <<phase, px, py, rays, dir, hit>>

\* A round of its loop.
WalkSteps ==
  /\ walk # NoWalk
  /\ IF ContainsTile(walk.x, walk.y)
       THEN /\ visible' = visible \cup {<<walk.x, walk.y>>}
            /\ last' = <<walk.x, walk.y>>
       ELSE UNCHANGED <<visible, last>>
  /\ IF ContainsTile(walk.x, walk.y) /\ tiles[walk.y][walk.x] < 0
       THEN IF XComesFirst
              THEN /\ walk' = [walk EXCEPT !.x = @ + walk.step_x]
                   /\ ahead' = [ahead EXCEPT !.x = @ + TILE_SIZE]
              ELSE /\ walk' = [walk EXCEPT !.y = @ + walk.step_y]
                   /\ ahead' = [ahead EXCEPT !.y = @ + TILE_SIZE]
       ELSE walk' = NoWalk /\ ahead' = [x |-> 0, y |-> 0]
  /\ UNCHANGED <<phase, px, py, rays, dir, hit>>

-----------------------------------------------------------------------------
\* The points where a ray along d crosses the k-th horizontal, or vertical, grid
\* line, with the way to it along the axis.
HorizontalCrossing(d, k) ==
  LET y == GridLine(py, d.y, k)
  IN  [x |-> px * Abs(d.y) + Abs(y - py) * d.x, y |-> y * Abs(d.y),
       den |-> Abs(d.y), way |-> Abs(y - py)]

VerticalCrossing(d, k) ==
  LET x == GridLine(px, d.x, k)
  IN  [x |-> x * Abs(d.x), y |-> py * Abs(d.x) + Abs(x - px) * d.y,
       den |-> Abs(d.x), way |-> Abs(x - px)]

\* Both loops go on while the point is in the frame, whose edges they treat
\* differently on the two axes.
InFrame(p) ==
  /\ 0 <= p.x /\ p.x < MAP_NUM_COLS * TILE_SIZE * p.den
  /\ 0 < p.y /\ p.y <= MAP_NUM_ROWS * TILE_SIZE * p.den

\* Mutant: a ray that goes up looks for its wall where it crosses the line.
TileAtLine(p, back_x, back_y) ==
  <<(p.x - back_x * p.den) \div (TILE_SIZE * p.den), p.y \div (TILE_SIZE * p.den)>>

\* The tile a crossing leads into: the point itself is on its border, and lies
\* one pixel too far when the ray goes up, or left.
TileBehind(p, back_x, back_y) ==
  <<(p.x - back_x * p.den) \div (TILE_SIZE * p.den),
    (p.y - back_y * p.den) \div (TILE_SIZE * p.den)>>

HorizontalTile(d, k) ==
  TileBehind(HorizontalCrossing(d, k), 0, IF Forward(d.y) THEN 0 ELSE 1)
VerticalTile(d, k) ==
  TileBehind(VerticalCrossing(d, k), IF Forward(d.x) THEN 0 ELSE 1, 0)

\* world_has_wall, which is false off the map, and world_get_wall_texture_id.
HasWall(t)       == ContainsTile(t[1], t[2]) /\ tiles[t[2]][t[1]] # -1
WallTextureId(t) == tiles[t[2]][t[1]]

\* A loop meets a wall at its k-th crossing if all until then are in the frame
\* and the ones before it lead into no wall.
HorizontalHits(d) ==
  {k \in 0 .. MAP_NUM_ROWS :
     /\ d.y # 0
     /\ \A j \in 0 .. k : InFrame(HorizontalCrossing(d, j))
     /\ HasWall(HorizontalTile(d, k))
     /\ \A j \in 0 .. k - 1 : ~HasWall(HorizontalTile(d, j))}

VerticalHits(d) ==
  {k \in 0 .. MAP_NUM_COLS :
     /\ d.x # 0
     /\ \A j \in 0 .. k : InFrame(VerticalCrossing(d, j))
     /\ HasWall(VerticalTile(d, k))
     /\ \A j \in 0 .. k - 1 : ~HasWall(VerticalTile(d, j))}

\* Which of two hits is nearer.
Nearer(p, q) == p.way * q.den < q.way * p.den

\* fmod(c, TILE_SIZE), or what it leaves of a tile, rounded down.
Strip(c, den, mirrored) ==
  LET f == c % (TILE_SIZE * den)
  IN  (IF mirrored THEN TILE_SIZE * den - f ELSE f) \div den

\* What cast_single_ray returns: the end point and the distance of the nearer
\* hit, and its texture; of two hits that are equally near, the point of the
\* vertical one and the texture of the horizontal one.
CastSingleRay ==
  /\ dir # NoRay /\ walk = NoWalk
  /\ LET h == {HorizontalCrossing(dir, k) : k \in HorizontalHits(dir)}
         v == {VerticalCrossing(dir, k) : k \in VerticalHits(dir)}
         vertical == v # {} /\ \A p \in h, q \in v : Nearer(q, p)
         ends == IF h # {} /\ \A p \in h, q \in v : Nearer(p, q) THEN h ELSE v
         ids  == IF vertical
                   THEN {WallTextureId(VerticalTile(dir, k)) : k \in VerticalHits(dir)}
                   ELSE {WallTextureId(HorizontalTile(dir, k)) : k \in HorizontalHits(dir)}
         strips == IF vertical
                     THEN {Strip(p.y, p.den, ~Forward(dir.x)) : p \in v}
                     ELSE {Strip(p.x, p.den, Forward(dir.y)) : p \in h}
     IN  hit' = [ends |-> ends, vertical |-> vertical,
                 texture_id |-> ids, texture_strip_index |-> strips]
  /\ dir' = NoRay
  /\ UNCHANGED <<phase, px, py, visible, rays, walk, ahead, last>>

RayNext ==
  \/ PlayerMovement /\ UNCHANGED <<dir, ahead, last, hit>>
  \/ /\ ClearVisibleTiles
     /\ hit' = NoRay /\ last' = <<TileOf(px), TileOf(py)>>
     /\ UNCHANGED <<dir, ahead>>
  \/ WalkBegins \/ WalkSteps \/ CastSingleRay
  \/ /\ AllRaysCast /\ dir = NoRay
     /\ UNCHANGED <<dir, ahead, last, hit>>

RaySpec == RayInit /\ [][RayNext]_rayVars /\ WF_rayVars(RayNext)

-----------------------------------------------------------------------------
\* The walk of one ray by its running distances is one of the walks Sight
\* allows, so what Sight promises (LinesOfSight, and that the casting ends)
\* holds of the program's rays.
ImplementsSight == FairSpec

\* The two algorithms of a ray agree: the wall that bounds the distance of an
\* entity's column is the wall the walk has ended at, met on the side of the
\* room, and wears its texture.
ViewEndsAtHit ==
  hit # NoRay /\ dir = NoRay =>
    /\ tiles[last[2]][last[1]] # -1
    /\ \A p \in hit.ends :
         LET Touches(c, t) == /\ t * TILE_SIZE * p.den <= c
                              /\ c <= (t + 1) * TILE_SIZE * p.den
             OnLine(c)     == c % (TILE_SIZE * p.den) = 0
         IN  /\ Touches(p.x, last[1]) /\ Touches(p.y, last[2])
             /\ \E row \in Rows, col \in Columns :
                  tiles[row][col] = -1 /\ Touches(p.x, col) /\ Touches(p.y, row)
             /\ ~(OnLine(p.x) /\ OnLine(p.y))
                  => hit.texture_id = {tiles[last[2]][last[1]]}

\* Each ray gives draw_walls a wall that is not where the player is (the column
\* is drawn with 1 / distance), one of the textures, and a column of it; only at
\* a corner of the grid may the column be the one past the last.
HitIsDrawable ==
  hit # NoRay =>
    /\ Cardinality(hit.ends) = 1 /\ \A p \in hit.ends : p.way > 0
    /\ hit.texture_id # {} /\ hit.texture_id \subseteq 0 .. NUM_TEXTURES - 1
    /\ \A p \in hit.ends, s \in hit.texture_strip_index :
         /\ s \in 0 .. TILE_SIZE
         /\ s = TILE_SIZE => /\ p.x % (TILE_SIZE * p.den) = 0
                             /\ p.y % (TILE_SIZE * p.den) = 0
=============================================================================
