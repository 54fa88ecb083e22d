-------------------------------- MODULE Scene ---------------------------------
(***************************************************************************)
(* What a frame shows above the floor: draw_walls and draw_entities of     *)
(* src/src/render/draw.c.  The walls fill the columns of the screen; then  *)
(* the entities are drawn over them in the order of EntityDraws, column    *)
(* by column, except where the wall of the column is nearer.               *)
(*                                                                         *)
(* The two are not measured alike.  The distance of a wall is the length   *)
(* of its ray; the depth of an entity is the way to it along the direction *)
(* the player looks in.  draw_walls turns the one into the other before it *)
(* draws, draw_entities compares them as they are.                         *)
(*                                                                         *)
(* Where on the screen an entity is follows from its depth and its side    *)
(* offset.  The offset and the distances of the walls are chosen when they *)
(* are first read, since nothing before depends on them.                   *)
(***************************************************************************)
EXTENDS EntityDraws, CInt

CONSTANTS
  RENDER_TEXTURE_WIDTH, \* 960
  TILE_SIZE,            \* 64
  DIST_PROJ_PLANE,      \* 831, of which the program keeps a fraction too
  SideOffsets,          \* what side_offset may be
  Walls,                \* what wall_distance_by_column may be: lengths of rays
  Wall                  \* a column shows its wall

Columns == 0 .. RENDER_TEXTURE_WIDTH - 1

ASSUME SceneAssumption ==
  /\ RENDER_TEXTURE_WIDTH \in Nat \ {0}
  /\ TILE_SIZE \in Nat \ {0} /\ DIST_PROJ_PLANE \in Nat \ {0}
  /\ SideOffsets \subseteq Int
  /\ Walls \subseteq [Columns -> Nat]
  /\ Wall \notin Entity

VARIABLES
  wall_distance_by_column,
  screen,  \* what each column shows: its wall, or an entry of entity_draws
  next,    \* the loop of draw_entities: the entry it is at
  covered  \* the columns the entity of an entry covers, hidden or not

screenVars == <<wall_distance_by_column, screen, next, covered>>
sceneVars  == <<vars, screenVars>>

SceneInit ==
  /\ Init
  /\ wall_distance_by_column \in Walls
  /\ screen = [c \in Columns |-> Wall]
  /\ next = Count /\ covered = [e \in Entity |-> {}]

\* screen_x for every x of the loop: the entity is a square of TILE_SIZE around
\* its center, scaled by DIST_PROJ_PLANE / depth.
ScreenColumns(depth, side_offset) ==
  LET left == RENDER_TEXTURE_WIDTH * depth + 2 * side_offset * DIST_PROJ_PLANE
                - TILE_SIZE * DIST_PROJ_PLANE
      xs   == {x \in 0 .. TILE_SIZE * DIST_PROJ_PLANE :
                 x * depth < TILE_SIZE * DIST_PROJ_PLANE}
  IN  {Truncate(left + 2 * depth * x, 2 * depth) : x \in xs} \cap Columns

\* Twice screen_x of cast_all_rays: how far the middle of a column is from the
\* middle of the screen.
Aside(c) == 2 * c + 1 - RENDER_TEXTURE_WIDTH

\* Four times the square of the way from the eye to a point of the projection
\* plane that is n / 2 columns from its middle.  The ray of a column through such
\* a point is atan(screen_x / DIST_PROJ_PLANE) aside, and the square of the cosine
\* of that is Slant(0) / Slant(n).
Slant(n) == 4 * DIST_PROJ_PLANE * DIST_PROJ_PLANE + n * n

\* The wall of a column as draw_walls shows it, at ray.distance times the cosine
\* of the column, is at a smaller depth than this one, which is not negative.
WallIsNearer(c, depth) ==
  wall_distance_by_column[c] * wall_distance_by_column[c] * Slant(0)
    < depth * depth * Slant(Aside(c))

\* draw_walls: every column shows a wall, and what it showed before is gone.
DrawWalls ==
  /\ StartDrawing
  /\ wall_distance_by_column' \in Walls
  /\ screen' = [c \in Columns |-> Wall]
  /\ next' = 0 /\ covered' = [e \in Entity |-> {}]

\* Mutant: the distance of the wall is not looked at.
NeverHidden(c, depth) == FALSE

\* Mutant: it is looked up one column further.
HiddenByNeighbour(c, depth) ==
  wall_distance_by_column[(c + 1) % RENDER_TEXTURE_WIDTH] < depth

\* draw_entities leaves a column to its wall.
Hidden(c, depth) == wall_distance_by_column[c] < depth

\* One round of draw_entities.
DrawEntity ==
  /\ phase = "drawing" /\ next < Count
  /\ next' = next + 1
  /\ LET d == entity_draws[next]
     IN  IF next \in Drawn
           THEN \E side_offset \in SideOffsets :
                  LET columns == ScreenColumns(d.depth, side_offset)
                  IN  /\ covered' = [covered EXCEPT ![next] = columns]
                      /\ screen' =
                           [c \in Columns |->
                              IF c \in columns /\ ~Hidden(c, d.depth)
                                THEN next ELSE screen[c]]
           ELSE UNCHANGED <<screen, covered>>
  /\ UNCHANGED <<vars, wall_distance_by_column>>

\* EndDrawing.
ShowFrame == EndFrame /\ next = Count /\ UNCHANGED screenVars

SceneNext ==
  \/ (Prepare \/ SortCompare \/ SortSplit \/ SortReturn) /\ UNCHANGED screenVars
  \/ DrawWalls \/ DrawEntity \/ ShowFrame

SceneSpec == SceneInit /\ [][SceneNext]_sceneVars /\ WF_sceneVars(SceneNext)

-----------------------------------------------------------------------------
\* The wall is nearer by more than the cosine at the edge of the screen makes of a
\* depth: shortened by it the depth is still behind the wall.
WallIsFarNearer(c, depth) ==
  wall_distance_by_column[c] * wall_distance_by_column[c]
      * Slant(RENDER_TEXTURE_WIDTH)
    < depth * depth * Slant(Aside(c))

\* When the frame is shown, an entity that is in front of a column's wall, where
\* the wall is drawn and not where draw_entities measures it, is not hidden by it;
\* and an entity that is shown is there, is not far behind the wall, and is the
\* nearest of all entities there, however old the depths of those that are not on
\* the screen.  Of the order of the entities nothing can be said while some depth
\* is not a number, since then the sort promises none.
NearestOnTop ==
  phase = "drawing" /\ next = Count =>
    \A c \in Columns :
      LET there    == {k \in Entity : c \in covered[k]}
          depth(k) == entity_draws[k].depth
      IN  /\ (\E k \in there : ~WallIsNearer(c, depth(k))) => screen[c] # Wall
          /\ screen[c] # Wall =>
               /\ screen[c] \in there /\ ~WallIsFarNearer(c, depth(screen[c]))
               /\ (\A k \in Entity : depth(k) # NaN)
                    => \A k \in there : depth(screen[c]) <= depth(k)
=============================================================================
