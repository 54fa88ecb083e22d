-------------------------------- MODULE View ----------------------------------
(***************************************************************************)
(* What a frame computes from where the player is: the rays, and the       *)
(* points of the floor under the pixels of the screen.  The length of the  *)
(* direction the player looks in is left out, as in Rays.                  *)
(***************************************************************************)
EXTENDS Rays, FloorCeiling

CONSTANTS
  floor_texture_width, floor_texture_height,
  ceiling_width, ceiling_height

\* The textures that come with the program are of one size; the code relies on
\* it and never looks at the size of the ceiling's.
ASSUME TextureAssumption ==
  /\ floor_texture_width \in Nat \ {0} /\ floor_texture_height \in Nat \ {0}
  /\ ceiling_width = floor_texture_width
  /\ ceiling_height = floor_texture_height

\* The texel the pattern of the tiles, all of them the same, has at a point.
PatternTexel(f, size) == (size * (f.n % f.m)) \div f.m

\* Every pixel draw.c paints comes from a texel that both images have.  On the
\* map it is the texel of the pattern; beyond its left and upper edge, where the
\* fraction of (int) turns negative, it may be the next one.
FloorIsSampled ==
  phase = "drawing" =>
    \A forward \in Directions, r \in 1 .. Horizon - 1, x \in Across :
      LET d  == PixelDirection(JobData(forward), x)
          fx == FloorPoint(px, d.x, r, TILE_SIZE)
          fy == FloorPoint(py, d.y, r, TILE_SIZE)
          tx == Texel(fx, floor_texture_width)
          ty == Texel(fy, floor_texture_height)
          AsPattern(t, f, size) ==
            \/ t = PatternTexel(f, size)
            \/ f.n < 0 /\ t = (PatternTexel(f, size) + 1) % size
      IN  /\ TexelIndex(tx, ty, floor_texture_width)
               \in 0 .. ceiling_width * ceiling_height - 1
          /\ AsPattern(tx, fx, floor_texture_width)
          /\ AsPattern(ty, fy, floor_texture_height)
===============================================================================
