---------------------------- MODULE FloorCeiling ------------------------------
(***************************************************************************)
(* The pixels of floor and ceiling: draw_floor_and_ceiling_segment of      *)
(* src/src/render/draw.c, which a job of render_frame runs for a range of  *)
(* rows, and draw_floor_and_ceiling, which did the same for all of them.   *)
(* Both write into one buffer: row r below the horizon and row r above it  *)
(* get the texels that are under the same points of the floor.             *)
(***************************************************************************)
EXTENDS CInt

CONSTANTS
  RENDER_TEXTURE_WIDTH,   \* 960
  RENDER_TEXTURE_HEIGHT,  \* 704
  CAMERA_AND_PLANE,       \* CAMERA_HEIGHT times DIST_PROJ_PLANE: 26604
  PROJ_PLANE_SCALE        \* in thousandths: 577

ASSUME FrameAssumption ==
  /\ RENDER_TEXTURE_WIDTH \in Nat \ {0}
  /\ RENDER_TEXTURE_HEIGHT \in Nat \ {0} /\ RENDER_TEXTURE_HEIGHT % 2 = 0
  /\ CAMERA_AND_PLANE \in Nat /\ PROJ_PLANE_SCALE \in Nat

Horizon == RENDER_TEXTURE_HEIGHT \div 2
Across  == 0 .. RENDER_TEXTURE_WIDTH - 1

\* Mutant: the ceiling begins above the horizon.
PixelRowsApart(r) == {Horizon + r, Horizon - r - 1}

\* The row of the floor and the row of the ceiling at one distance from the
\* horizon.
PixelRows(r) == {Horizon + r, Horizon - r}

\* Where pixel x of a row is in the buffer.
PixelIndex(row, x) == row * RENDER_TEXTURE_WIDTH + x

\* The pixels one call of draw_floor_and_ceiling_segment writes.
SegmentPixels(start, end) ==
  {PixelIndex(row, x) : row \in UNION {PixelRows(r) : r \in start .. end - 1},
                        x \in Across}

\* The rows draw_floor_and_ceiling paints.
RowsOfOneThread == UNION {PixelRows(r) : r \in 1 .. Horizon - 1}

-----------------------------------------------------------------------------
\* What a job is told of the player's view: the directions of the left and of
\* the right edge of the screen.  (Where the player is, is FloorPoint's p.)
FloorCeilingJobData ==
  [left : [x : Int, y : Int], right : [x : Int, y : Int]]

\* What render_frame gives the jobs: the directions of the left and of the right
\* edge of the screen, in thousandths, for a player who looks along forward.
JobData(forward) ==
  LET plane == [x |-> -forward.y * PROJ_PLANE_SCALE,
                y |-> forward.x * PROJ_PLANE_SCALE]
  IN  [left  |-> [x |-> 1000 * forward.x - plane.x, y |-> 1000 * forward.y - plane.y],
       right |-> [x |-> 1000 * forward.x + plane.x, y |-> 1000 * forward.y + plane.y]]

\* The direction of pixel x of a row, after x steps from the left edge to the
\* right one, in parts of DirectionUnit.
DirectionUnit == 1000 * RENDER_TEXTURE_WIDTH

PixelDirection(job, x) ==
  LET Between(a, b) == RENDER_TEXTURE_WIDTH * a + x * (b - a)
  IN  [x |-> Between(job.left.x, job.right.x), y |-> Between(job.left.y, job.right.y)]

\* Where, along one axis, the floor point of a pixel of row r is: n / m tiles, for
\* a player at p pixels and d the pixel's direction along the axis.
FloorPoint(p, d, r, tile_size) ==
  [n |-> DirectionUnit * (p * r) + CAMERA_AND_PLANE * d, m |-> DirectionUnit * (r * tile_size)]

\* Mutant: C's remainder is taken for the index.
WrapLikeC(t, size) == Remainder(t, size)

\* A coordinate of a texel is wrapped.  (If the size is a power of two by a
\* mask, which is the same as the remainder that is never negative.)
Wrap(t, size) ==
  LET t1 == Remainder(t, size) IN IF t1 < 0 THEN t1 + size ELSE t1

\* texture_x, or texture_y: where in its tile the point is.
Texel(f, size) ==
  LET tile == Truncate(f.n, f.m)
  IN  Wrap(Truncate(size * (f.n - tile * f.m), f.m), size)

\* What both textures are indexed with: the size is the one of the floor's.
TexelIndex(texture_x, texture_y, floor_texture_width) ==
  texture_y * floor_texture_width + texture_x

\* get_depth_gradient_with_distance of n / m pixels: green and blue.
DepthGradient(n, m) ==
  LET far_dist == 800
  IN  IF n < 0 THEN 255
      ELSE IF n > far_dist * m THEN 0
      ELSE Truncate(255 * (far_dist * m - n), far_dist * m)
===============================================================================
