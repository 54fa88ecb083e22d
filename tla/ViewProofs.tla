------------------------------ MODULE ViewProofs -------------------------------
(***************************************************************************)
(* Proofs about what a frame computes from where the player is.            *)
(*                                                                         *)
(* The player stays clear of the walls, for every size of the map, of a    *)
(* tile and of the player, and every length of a frame in which the player *)
(* cannot get farther than a tile.  The rays of Rays, whatever the         *)
(* directions, walk as Sight allows; what they mark can be seen; and each  *)
(* of them finds a wall that can be drawn, the one its walk has ended at.  *)
(*                                                                         *)
(* For textures and frames of any size, and points anywhere: every texel   *)
(* the floor is painted with is one of the texture, every pixel is one of  *)
(* the buffer, and threads that paint different rows write different       *)
(* pixels.                                                                 *)
(***************************************************************************)
EXTENDS View, FiniteSetTheorems, TLAPS

-----------------------------------------------------------------------------
\* When a coordinate lies in a tile.

\* Multiplication by a positive number is monotonic.
LEMMA TimesMonotonic ==
  ASSUME NEW n \in Nat, NEW a \in Int, NEW b \in Int, a <= b
  PROVE  n * a <= n * b
<1>1. n * b - n * a = n * (b - a)
  OBVIOUS
<1>2. n * (b - a) >= 0
  OBVIOUS
<1>3. QED
  BY <1>1, <1>2

\* The quotient of a number between two multiples of n.
LEMMA Quotient ==
  ASSUME NEW n \in Nat, n > 0, NEW c \in Int, NEW low \in Int, NEW high \in Int,
         n * low <= c, c < n * (high + 1)
  PROVE  (c \div n) \in low .. high
<1> DEFINE q == c \div n
<1>1. /\ q \in Int /\ n * q <= c /\ c < n * q + n
  OBVIOUS
<1> HIDE DEF q
<1>2. n * q + n = n * (q + 1)
  BY <1>1
<1>3. low <= q
  <2> SUFFICES ASSUME q + 1 <= low PROVE FALSE
    BY <1>1
  <2>1. n * (q + 1) <= n * low
    BY <1>1, TimesMonotonic
  <2>2. n * (q + 1) \in Int /\ n * low \in Int
    BY <1>1
  <2>3. QED
    BY <1>1, <1>2, <2>1, <2>2
<1>4. q <= high
  <2> SUFFICES ASSUME high + 1 <= q PROVE FALSE
    BY <1>1
  <2>1. n * (high + 1) <= n * q
    BY <1>1, TimesMonotonic
  <2>2. n * (high + 1) \in Int /\ n * q \in Int
    BY <1>1
  <2>3. QED
    BY <1>1, <2>1, <2>2
<1>5. QED
  BY <1>1, <1>3, <1>4 DEF q

\* The tile of a coordinate on an axis of so many tiles, told by where the
\* walls at its ends are.
LEMMA TileBounds ==
  ASSUME NEW length \in Nat, NEW c \in Int
  PROVE  /\ TileOf(c) \in Int
         /\ TileOf(c) >= 0 <=> c >= 0
         /\ TileOf(c) >= 1 <=> c >= TILE_SIZE
         /\ TileOf(c) <= length - 1 <=> c < TILE_SIZE * (length - 1) + TILE_SIZE
         /\ TileOf(c) <= length - 2 <=> c < TILE_SIZE * (length - 1)
<1> DEFINE t == TileOf(c)
<1>1. TILE_SIZE \in Nat /\ TILE_SIZE > 0
  BY WorldAssumption
<1>2. /\ t \in Int /\ TILE_SIZE * t \in Int
      /\ TILE_SIZE * t <= c /\ c < TILE_SIZE * t + TILE_SIZE
  BY <1>1 DEF TileOf
<1> HIDE DEF t
<1> DEFINE Edge(k) == TILE_SIZE * k
<1>3. ASSUME NEW k \in Int
      PROVE  t >= k <=> c >= Edge(k)
  <2>1. /\ Edge(k) \in Int /\ TILE_SIZE * (t + 1) \in Int
        /\ TILE_SIZE * t + TILE_SIZE = TILE_SIZE * (t + 1)
    BY <1>1, <1>2
  <2>2. ASSUME k <= t PROVE Edge(k) <= c
    <3>1. Edge(k) <= TILE_SIZE * t
      BY <1>1, <1>2, <2>2, TimesMonotonic
    <3> HIDE DEF Edge
    <3>2. QED
      BY <1>2, <2>1, <3>1
  <2>3. ASSUME t + 1 <= k PROVE c < Edge(k)
    <3>1. TILE_SIZE * (t + 1) <= Edge(k)
      BY <1>1, <1>2, <2>3, TimesMonotonic
    <3> DEFINE edge == TILE_SIZE * (t + 1)
    <3> HIDE DEF Edge, edge
    <3>2. c < edge
      BY <1>2, <2>1 DEF edge
    <3>3. QED
      BY <2>1, <3>1, <3>2 DEF edge
  <2> HIDE DEF Edge
  <2>4. QED
    BY <1>2, <2>1, <2>2, <2>3
<1>4. /\ Edge(0) = 0 /\ Edge(1) = TILE_SIZE
      /\ Edge(length) = TILE_SIZE * (length - 1) + TILE_SIZE
      /\ Edge(length) \in Int /\ Edge(length - 1) \in Int
      /\ Edge(length - 1) = TILE_SIZE * (length - 1)
  BY <1>1
<1> HIDE DEF Edge
<1>5. /\ t >= 0 <=> c >= Edge(0)
      /\ t >= 1 <=> c >= Edge(1)
      /\ t >= length <=> c >= Edge(length)
      /\ t >= length - 1 <=> c >= Edge(length - 1)
  BY <1>3
<1>6. /\ t >= 0 <=> c >= 0
      /\ t >= 1 <=> c >= TILE_SIZE
  BY <1>4, <1>5
<1>7. /\ t <= length - 1 <=> c < Edge(length)
      /\ t <= length - 2 <=> c < Edge(length - 1)
  BY <1>2, <1>4, <1>5
<1>8. QED
  BY <1>2, <1>4, <1>6, <1>7 DEF t

-----------------------------------------------------------------------------
\* The player and the rays.

\* The constants, as the assumptions give them.
LEMMA Sizes ==
  /\ TILE_SIZE \in Nat /\ TILE_SIZE > 0
  /\ MAP_NUM_ROWS \in Nat /\ MAP_NUM_COLS \in Nat
  /\ 4 <= MAP_NUM_ROWS /\ 4 <= MAP_NUM_COLS
  /\ Radius \in Nat /\ Radius < TILE_SIZE
  /\ MaxMove \in Nat /\ MaxMove <= TILE_SIZE
BY WorldAssumption, SightAssumption

\* A coordinate that leaves room for the player on an axis of so many tiles.
Clear(c, length) ==
  /\ c \in Int
  /\ TILE_SIZE <= c - Radius
  /\ c + Radius < TILE_SIZE * (length - 1)

\* What the property says of an axis, in tiles.
LEMMA ClearTiles ==
  ASSUME NEW length \in Nat, NEW c \in Int
  PROVE  Clear(c, length)
           <=> TileOf(c - Radius) >= 1 /\ TileOf(c + Radius) <= length - 2
<1>1. c - Radius \in Int /\ c + Radius \in Int
  BY Sizes
<1>2. /\ TileOf(c - Radius) >= 1 <=> c - Radius >= TILE_SIZE
      /\ TileOf(c + Radius) <= length - 2
           <=> c + Radius < TILE_SIZE * (length - 1)
  BY <1>1, TileBounds
<1>3. QED
  BY <1>1, <1>2, Sizes DEF Clear

\* The middle of an axis leaves room for the player.
LEMMA MiddleIsClear ==
  ASSUME NEW length \in Nat, 4 <= length
  PROVE  Clear((TILE_SIZE * length) \div 2, length)
<1> DEFINE all == TILE_SIZE * length
           c   == all \div 2
<1>1. /\ all \in Nat
      /\ TILE_SIZE * (length - 1) = all - TILE_SIZE
      /\ TILE_SIZE * 4 = TILE_SIZE + TILE_SIZE + TILE_SIZE + TILE_SIZE
  BY Sizes
<1>2. TILE_SIZE * 4 <= all
  BY Sizes, TimesMonotonic
<1> HIDE DEF all
<1>3. c \in Int /\ c + c <= all /\ all <= c + c + 1
  BY <1>1
<1> HIDE DEF c
<1>4. /\ TILE_SIZE + TILE_SIZE <= c
      /\ c + TILE_SIZE <= all - TILE_SIZE
  BY <1>1, <1>2, <1>3, Sizes
<1>5. Clear(c, length)
  BY <1>1, <1>3, <1>4, Sizes DEF Clear
<1>6. QED
  BY <1>5 DEF c, all

\* The tile ahead of the player is on the map, and if it is no wall of this
\* axis the player may go there.
LEMMA AxisStaysClear ==
  ASSUME NEW length \in Nat, 4 <= length,
         NEW c, Clear(c, length), NEW d \in -MaxMove .. MaxMove
  PROVE  /\ TileOf(Probe(c, c + d)) \in 0 .. length - 1
         /\ TileOf(Probe(c, c + d)) \in 1 .. length - 2 => Clear(c + d, length)
<1> DEFINE probe == Probe(c, c + d)
<1>1. /\ c \in Int /\ d \in Int /\ c + d \in Int
      /\ TILE_SIZE <= c - Radius /\ c + Radius < TILE_SIZE * (length - 1)
      /\ - TILE_SIZE <= d /\ d <= TILE_SIZE
  BY Sizes DEF Clear
<1>2. TILE_SIZE * (length - 1) \in Int
  BY Sizes
<1>3. probe \in Int
  BY <1>1, Sizes DEF Probe
<1> DEFINE t == TileOf(probe)
<1>4. /\ t \in Int
      /\ t >= 0 <=> probe >= 0
      /\ t >= 1 <=> probe >= TILE_SIZE
      /\ t <= length - 1 <=> probe < TILE_SIZE * (length - 1) + TILE_SIZE
      /\ t <= length - 2 <=> probe < TILE_SIZE * (length - 1)
  BY <1>3, TileBounds
<1>5. /\ d > 0 => probe = c + d + Radius
      /\ ~(d > 0) => probe = c + d - Radius
  BY <1>1, Sizes DEF Probe
<1> HIDE DEF probe, t
<1> DEFINE wall == TILE_SIZE * (length - 1)
<1> HIDE DEF wall
<1>6. 0 <= probe /\ probe < wall + TILE_SIZE
  BY <1>1, <1>2, <1>3, <1>5, Sizes DEF wall
<1>7. t \in 0 .. length - 1
  BY <1>4, <1>6 DEF wall
<1>8. t \in 1 .. length - 2 => Clear(c + d, length)
  BY <1>1, <1>2, <1>3, <1>4, <1>5, Sizes DEF Clear
<1>9. QED
  BY <1>7, <1>8 DEF probe, t

\* The middle of the player is in a tile inside the walls.
LEMMA ClearIsInside ==
  ASSUME NEW length \in Nat, 4 <= length, NEW c, Clear(c, length)
  PROVE  TileOf(c) \in 1 .. length - 2
<1>1. /\ c \in Int /\ TILE_SIZE * (length - 1) \in Int
      /\ TILE_SIZE <= c /\ c < TILE_SIZE * (length - 1)
  BY Sizes DEF Clear
<1>2. TileOf(c) \in Int /\ TileOf(c) >= 1 /\ TileOf(c) <= length - 2
  BY <1>1, TileBounds
<1>3. QED
  BY <1>2

-----------------------------------------------------------------------------
\* Both coordinates leave room for the player.
PlayerInv == Clear(px, MAP_NUM_COLS) /\ Clear(py, MAP_NUM_ROWS)

\* Looking ahead on each axis is enough, although player_movement looks up the
\* row of the player's middle in the first step and its new column in the
\* second.
LEMMA MovementKeeps == PlayerInv /\ PlayerMovement => PlayerInv'
<1> SUFFICES ASSUME PlayerInv, PlayerMovement PROVE PlayerInv'
  OBVIOUS
<1>1. PICK m \in Moves :
        /\ px' = IF tiles[TileOf(py)][TileOf(Probe(px, px + m.x))] = -1
                   THEN px + m.x ELSE px
        /\ py' = IF tiles[TileOf(Probe(py, py + m.y))][TileOf(px')] = -1
                   THEN py + m.y ELSE py
  BY DEF PlayerMovement
<1>2. m.x \in -MaxMove .. MaxMove /\ m.y \in -MaxMove .. MaxMove
  BY DEF Moves
<1>3. \A col \in Columns, row \in Rows :
        tiles[row][col] = -1
          => col \in 1 .. MAP_NUM_COLS - 2 /\ row \in 1 .. MAP_NUM_ROWS - 2
  BY DEF tiles, LeftEdge
<1>4. Clear(px', MAP_NUM_COLS)
  <2> DEFINE edge == TileOf(Probe(px, px + m.x))
  <2>1. /\ edge \in 0 .. MAP_NUM_COLS - 1
        /\ edge \in 1 .. MAP_NUM_COLS - 2 => Clear(px + m.x, MAP_NUM_COLS)
    BY <1>2, AxisStaysClear, Sizes DEF PlayerInv
  <2>2. TileOf(py) \in Rows
    BY ClearIsInside, Sizes DEF PlayerInv, Rows
  <2> HIDE DEF edge
  <2>3. tiles[TileOf(py)][edge] = -1 => Clear(px + m.x, MAP_NUM_COLS)
    BY <1>3, <2>1, <2>2 DEF Columns
  <2>4. px' = IF tiles[TileOf(py)][edge] = -1 THEN px + m.x ELSE px
    BY <1>1 DEF edge
  <2>5. QED
    BY <2>3, <2>4 DEF PlayerInv
<1>5. Clear(py', MAP_NUM_ROWS)
  <2> DEFINE edge == TileOf(Probe(py, py + m.y))
  <2>1. /\ edge \in 0 .. MAP_NUM_ROWS - 1
        /\ edge \in 1 .. MAP_NUM_ROWS - 2 => Clear(py + m.y, MAP_NUM_ROWS)
    BY <1>2, AxisStaysClear, Sizes DEF PlayerInv
  <2>2. TileOf(px') \in Columns
    BY <1>4, ClearIsInside, Sizes DEF Columns
  <2> HIDE DEF edge
  <2>3. tiles[edge][TileOf(px')] = -1 => Clear(py + m.y, MAP_NUM_ROWS)
    BY <1>3, <2>1, <2>2 DEF Rows
  <2>4. py' = IF tiles[edge][TileOf(px')] = -1 THEN py + m.y ELSE py
    BY <1>1 DEF edge
  <2>5. QED
    BY <2>3, <2>4 DEF PlayerInv
<1>6. QED
  BY <1>4, <1>5 DEF PlayerInv, Clear

\* The player never reaches a wall, and every tile player_movement and
\* mark_visible_tiles look up for it is on the map.
THEOREM PlayerKeepsDistance == Spec => []KeepsDistance
<1>1. Init => PlayerInv
  BY MiddleIsClear, Sizes DEF Init, PlayerInv
<1>2. PlayerInv /\ [Next]_vars => PlayerInv'
  <2> SUFFICES ASSUME PlayerInv, [Next]_vars PROVE PlayerInv'
    OBVIOUS
  <2>1. CASE PlayerMovement
    BY <2>1, MovementKeeps
  <2>2. ASSUME UNCHANGED <<px, py>> PROVE PlayerInv'
    BY <2>2 DEF PlayerInv, Clear
  <2>3. CASE ClearVisibleTiles
    BY <2>2, <2>3 DEF ClearVisibleTiles
  <2>4. CASE CastRay
    BY <2>2, <2>4, Zenon DEF CastRay
  <2>5. CASE MarkTile
    BY <2>2, <2>5, Zenon DEF MarkTile
  <2>6. CASE AllRaysCast
    BY <2>2, <2>6 DEF AllRaysCast
  <2>7. CASE UNCHANGED vars
    BY <2>2, <2>7 DEF vars
  <2>8. QED
    BY <2>1, <2>3, <2>4, <2>5, <2>6, <2>7 DEF Next
<1>3. PlayerInv => KeepsDistance
  BY ClearTiles, Sizes DEF PlayerInv, KeepsDistance, Clear
<1>4. QED
  BY <1>1, <1>2, <1>3, PTL DEF Spec

-----------------------------------------------------------------------------
\* What the rays of a frame mark.

\* A tile is no wall just inside the outer ones.
LEMMA TileValues ==
  ASSUME NEW col \in Columns, NEW row \in Rows
  PROVE  /\ tiles[row][col] \in {-1, 1, 2, 4, 9}
         /\ tiles[row][col] = -1
              <=> col \in 1 .. MAP_NUM_COLS - 2 /\ row \in 1 .. MAP_NUM_ROWS - 2
BY DEF tiles, LeftEdge

\* The number of steps between two tiles.
Steps1(c, d) == IF c > d THEN c - d ELSE d - c

LEMMA ApartIs ==
  ASSUME NEW a, NEW b, NEW c, NEW d
  PROVE  Apart(<<a, b>>, <<c, d>>) = Steps1(a, c) + Steps1(b, d)
BY DEF Apart, Steps1

Own == <<TileOf(px), TileOf(py)>>

\* A tile of the map is the player's own, or next to one that has been marked, is
\* no wall and is nearer.
Reached(t) ==
  /\ t \in Columns \X Rows
  /\ \/ t = Own
     \/ \E u \in visible : /\ tiles[u[2]][u[1]] = -1
                           /\ Apart(t, u) = 1 /\ Apart(Own, u) < Apart(Own, t)

\* The walk goes away from the player.
Away(c, step, start) == (step = 1 /\ start <= c) \/ (step = -1 /\ c <= start)

WalkSound ==
  /\ walk \in [x : Columns, y : Rows, step_x : Steps, step_y : Steps]
  /\ Away(walk.x, walk.step_x, TileOf(px)) /\ Away(walk.y, walk.step_y, TileOf(py))
  /\ Reached(<<walk.x, walk.y>>)
  /\ <<walk.x, walk.y>> = Own \/ Own \in visible

\* Once a ray has been cast, the player's own tile and a wall are marked.
MarksSound ==
  /\ \A t \in visible : Reached(t)
  /\ walk = NoWalk /\ rays < RAY_COUNT =>
       Own \in visible /\ \E t \in visible : tiles[t[2]][t[1]] # -1
  /\ walk # NoWalk => WalkSound

SightInv ==
  /\ PlayerInv
  /\ phase \in {"starting", "clearing", "casting", "drawing"}
  /\ rays \in Nat
  /\ phase # "casting" => walk = NoWalk
  /\ phase = "drawing" => rays = 0
  /\ phase \in {"casting", "drawing"} => MarksSound

\* The player's own tile is on the map.
LEMMA OwnOnMap ==
  ASSUME PlayerInv
  PROVE  /\ TileOf(px) \in Columns /\ TileOf(py) \in Rows
         /\ TileOf(px) \in Int /\ TileOf(py) \in Int
<1>1. /\ TileOf(px) \in 1 .. MAP_NUM_COLS - 2
      /\ TileOf(py) \in 1 .. MAP_NUM_ROWS - 2
  BY ClearIsInside, Sizes DEF PlayerInv
<1>2. QED
  BY <1>1, Sizes DEF Columns, Rows

\* The walk of a ray begins where the player is.
LEMMA CastSees ==
  ASSUME SightInv, CastRay
  PROVE  SightInv'
<1>1. /\ phase = "casting" /\ walk = NoWalk /\ rays > 0 /\ rays \in Nat
      /\ rays' = rays - 1 /\ UNCHANGED <<phase, px, py, visible>>
      /\ MarksSound /\ PlayerInv
  BY DEF CastRay, SightInv
<1>2. TileOf(px) \in Columns /\ TileOf(py) \in Rows
  BY <1>1, OwnOnMap
<1>3. TileOf(px) \in Int /\ TileOf(py) \in Int
  BY <1>1, OwnOnMap
<1>4. PICK step_x \in Steps, step_y \in Steps :
        walk' = [x |-> TileOf(px), y |-> TileOf(py),
                 step_x |-> step_x, step_y |-> step_y]
  BY <1>2, Zenon DEF CastRay, ContainsTile
<1>5. walk' \in [x : Columns, y : Rows, step_x : Steps, step_y : Steps]
  BY <1>2, <1>4
<1>6. walk' # NoWalk
  <2>1. walk' \in [x : Int, y : Int, step_x : Int, step_y : Int]
    BY <1>3, <1>4 DEF Steps
  <2>2. QED
    BY <2>1, SightAssumption
<1>7. Own' = Own /\ PlayerInv' /\ TileOf(px)' = TileOf(px) /\ TileOf(py)' = TileOf(py)
  BY <1>1 DEF Own, PlayerInv, Clear, TileOf
<1>8. \A t : Reached(t)' <=> Reached(t)
  BY <1>1, <1>7 DEF Reached
<1>9. <<walk'.x, walk'.y>> = Own /\ Reached(Own)
  BY <1>2, <1>4 DEF Own, Reached
<1>10. /\ Away(walk'.x, walk'.step_x, TileOf(px))
       /\ Away(walk'.y, walk'.step_y, TileOf(py))
  BY <1>3, <1>4 DEF Away, Steps
<1>11. WalkSound'
  BY <1>5, <1>7, <1>8, <1>9, <1>10 DEF WalkSound
<1>12. \A t \in visible' : Reached(t)'
  BY <1>1, <1>8 DEF MarksSound
<1>13. MarksSound'
  BY <1>6, <1>11, <1>12 DEF MarksSound
<1>14. QED
  BY <1>1, <1>7, <1>13 DEF SightInv

\* One step of the walk from an open tile.
LEMMA StepIsFarther ==
  ASSUME NEW a \in Int, NEW c \in Int, NEW step \in Steps, Away(c, step, a)
  PROVE  /\ Away(c + step, step, a) /\ Steps1(c + step, c) = 1
         /\ Steps1(a, c + step) = Steps1(a, c) + 1
         /\ Steps1(a, c) \in Nat /\ Steps1(c, c) = 0
BY DEF Away, Steps, Steps1

\* A round of the loop marks a tile that has been reached and goes on to one that
\* is reached from it, or it has come to a wall.
LEMMA MarkSees ==
  ASSUME SightInv, MarkTile
  PROVE  SightInv'
<1>1. /\ phase = "casting" /\ walk # NoWalk /\ rays \in Nat
      /\ UNCHANGED <<phase, px, py, rays>>
      /\ MarksSound /\ WalkSound /\ PlayerInv
  BY DEF MarkTile, SightInv, MarksSound
<1> DEFINE col == walk.x
           row == walk.y
           here == <<col, row>>
<1>2. /\ col \in Columns /\ row \in Rows /\ col \in Int /\ row \in Int
      /\ walk.step_x \in Steps /\ walk.step_y \in Steps
      /\ Away(col, walk.step_x, TileOf(px)) /\ Away(row, walk.step_y, TileOf(py))
      /\ Reached(here) /\ (here = Own \/ Own \in visible)
  BY <1>1 DEF WalkSound, Columns, Rows
<1>3. visible' = visible \cup {here}
  BY <1>2 DEF MarkTile, ContainsTile
<1>4. Own' = Own /\ PlayerInv' /\ TileOf(px)' = TileOf(px) /\ TileOf(py)' = TileOf(py)
  BY <1>1 DEF Own, PlayerInv, Clear, TileOf
<1>5. \A t : Reached(t) => Reached(t)'
  BY <1>3, <1>4 DEF Reached
<1>6. \A t \in visible' : Reached(t)'
  BY <1>1, <1>2, <1>3, <1>5 DEF MarksSound
<1>7. Own \in visible'
  BY <1>2, <1>3
<1>8. tiles[row][col] < 0 <=> tiles[row][col] = -1
  BY <1>2, TileValues
<1>9. CASE tiles[row][col] = -1
  <2>1. /\ col \in 1 .. MAP_NUM_COLS - 2 /\ row \in 1 .. MAP_NUM_ROWS - 2
    BY <1>2, <1>9, TileValues
  <2>2. TileOf(px) \in Int /\ TileOf(py) \in Int
    BY <1>1, OwnOnMap
  <2>3. /\ col + walk.step_x \in Columns /\ row + walk.step_y \in Rows
        /\ col + walk.step_x \in Int /\ row + walk.step_y \in Int
    BY <1>2, <2>1, Sizes DEF Steps, Columns, Rows
  <2>4. \/ walk' = [walk EXCEPT !.x = walk.x + walk.step_x]
        \/ walk' = [walk EXCEPT !.y = walk.y + walk.step_y]
    BY <1>2, <1>8, <1>9, Zenon DEF MarkTile, ContainsTile
  <2> DEFINE next == <<walk'.x, walk'.y>>
  <2>5. walk' \in [x : Columns, y : Rows, step_x : Steps, step_y : Steps]
    BY <1>1, <2>3, <2>4 DEF WalkSound
  <2>6. /\ walk'.step_x = walk.step_x /\ walk'.step_y = walk.step_y
        /\ \/ walk'.x = col + walk.step_x /\ walk'.y = row
           \/ walk'.x = col /\ walk'.y = row + walk.step_y
    BY <1>1, <2>4 DEF WalkSound
  <2>7. /\ Away(walk'.x, walk'.step_x, TileOf(px))
        /\ Away(walk'.y, walk'.step_y, TileOf(py))
    BY <1>2, <2>2, <2>6, StepIsFarther
  <2> HIDE DEF col, row
  <2>8. Apart(next, here) = 1 /\ Apart(Own, here) < Apart(Own, next)
    <3>1. /\ Apart(next, here) = Steps1(walk'.x, col) + Steps1(walk'.y, row)
          /\ Apart(Own, here) = Steps1(TileOf(px), col) + Steps1(TileOf(py), row)
          /\ Apart(Own, next)
               = Steps1(TileOf(px), walk'.x) + Steps1(TileOf(py), walk'.y)
      BY ApartIs DEF Own
    <3>2. /\ Steps1(col + walk.step_x, col) = 1 /\ Steps1(col, col) = 0
          /\ Steps1(TileOf(px), col + walk.step_x) = Steps1(TileOf(px), col) + 1
          /\ Steps1(TileOf(px), col) \in Nat
          /\ Steps1(row + walk.step_y, row) = 1 /\ Steps1(row, row) = 0
          /\ Steps1(TileOf(py), row + walk.step_y) = Steps1(TileOf(py), row) + 1
          /\ Steps1(TileOf(py), row) \in Nat
      BY <1>2, <2>2, StepIsFarther
    <3>3. QED
      BY <2>6, <3>1, <3>2
  <2>9. \A t : t = next => Reached(t)'
    <3> SUFFICES ASSUME NEW t, t = next PROVE Reached(t)'
      OBVIOUS
    <3>1. here \in visible' /\ tiles[here[2]][here[1]] = -1
      BY <1>3, <1>9
    <3>2. t \in Columns \X Rows
      BY <2>5
    <3>3. Apart(t, here) = 1 /\ Apart(Own', here) < Apart(Own', t)
      BY <1>4, <2>8
    <3> HIDE DEF next, here
    <3>4. QED
      BY <3>1, <3>2, <3>3 DEF Reached
  <2>10. WalkSound'
    BY <1>4, <1>7, <2>5, <2>7, <2>9 DEF WalkSound
  <2>11. walk' # NoWalk
    <3>1. walk' \in [x : Int, y : Int, step_x : Int, step_y : Int]
      BY <2>5 DEF Columns, Rows, Steps
    <3>2. QED
      BY <3>1, SightAssumption
  <2>12. QED
    BY <1>1, <1>4, <1>6, <2>10, <2>11 DEF SightInv, MarksSound
<1>10. CASE tiles[row][col] # -1
  <2>1. walk' = NoWalk
    BY <1>2, <1>8, <1>10 DEF MarkTile
  <2>2. here \in visible' /\ tiles[here[2]][here[1]] # -1
    BY <1>3, <1>10
  <2>3. \E t \in visible' : tiles[t[2]][t[1]] # -1
    BY <2>2
  <2>4. MarksSound'
    BY <1>4, <1>6, <1>7, <2>1, <2>3 DEF MarksSound
  <2>5. QED
    BY <1>1, <1>4, <2>1, <2>4 DEF SightInv
<1>11. QED
  BY <1>9, <1>10

\* What is marked when a frame is drawn is what rays reach from where the player
\* is.
THEOREM SightInvariant == Spec => []SightInv
<1>1. Init => SightInv
  BY MiddleIsClear, Sizes DEF Init, PlayerInv, SightInv
<1>2. SightInv /\ [Next]_vars => SightInv'
  <2> SUFFICES ASSUME SightInv, [Next]_vars PROVE SightInv'
    OBVIOUS
  <2>1. CASE PlayerMovement
    <3>1. PlayerInv'
      BY <2>1, MovementKeeps DEF SightInv
    <3>2. phase' = "clearing" /\ UNCHANGED <<visible, rays, walk>>
      BY <2>1 DEF PlayerMovement
    <3>3. phase # "casting"
      BY <2>1 DEF PlayerMovement
    <3>4. QED
      BY <3>1, <3>2, <3>3 DEF SightInv
  <2>2. CASE ClearVisibleTiles
    <3>1. /\ phase = "clearing" /\ visible' = {} /\ rays' = RAY_COUNT
          /\ phase' = "casting" /\ UNCHANGED <<px, py, walk>>
      BY <2>2 DEF ClearVisibleTiles
    <3>2. PlayerInv' /\ walk' = NoWalk
      BY <3>1 DEF SightInv, PlayerInv, Clear
    <3>3. RAY_COUNT \in Nat
      BY SightAssumption
    <3>4. MarksSound'
      BY <3>1, <3>2, <3>3 DEF MarksSound
    <3>5. QED
      BY <3>1, <3>2, <3>3, <3>4 DEF SightInv
  <2>3. CASE CastRay
    BY <2>3, CastSees
  <2>4. CASE MarkTile
    BY <2>4, MarkSees
  <2>5. CASE AllRaysCast \/ UNCHANGED vars
    <3>1. UNCHANGED <<px, py, visible, rays, walk>>
      BY <2>5 DEF AllRaysCast, vars
    <3>2. /\ PlayerInv' <=> PlayerInv
          /\ MarksSound' <=> MarksSound
      BY <3>1 DEF PlayerInv, Clear, MarksSound, Reached, WalkSound, Own, Away, TileOf
    <3>3. QED
      BY <2>5, <3>1, <3>2 DEF SightInv, AllRaysCast, vars
  <2>6. QED
    BY <2>1, <2>2, <2>3, <2>4, <2>5 DEF Next
<1>3. QED
  BY <1>1, <1>2, PTL DEF Spec

\* What is drawn can be seen: a line of open tiles leads to every visible tile,
\* and the view ends at a wall; whatever the directions of the rays are.
THEOREM SightIsInLine == Spec => []LinesOfSight
<1>1. SightInv => LinesOfSight
  <2> SUFFICES ASSUME SightInv, phase = "drawing" PROVE LinesOfSight
    BY DEF LinesOfSight
  <2>1. /\ MarksSound /\ walk = NoWalk /\ rays < RAY_COUNT
    BY SightAssumption DEF SightInv
  <2>2. /\ Own \in visible /\ \E t \in visible : tiles[t[2]][t[1]] # -1
        /\ \A t \in visible \ {Own} : \E u \in visible :
             /\ tiles[u[2]][u[1]] = -1
             /\ Apart(t, u) = 1 /\ Apart(Own, u) < Apart(Own, t)
    BY <2>1 DEF MarksSound, Reached
  <2>3. QED
    BY <2>2 DEF LinesOfSight, Own
<1>2. QED
  BY <1>1, SightInvariant, PTL

-----------------------------------------------------------------------------
\* No walk is left over from one ray to the next.
WalkOfRay == dir = NoRay => walk = NoWalk

\* What starts the walk of a ray, or makes one round of it, is one of the
\* choices Sight has.
LEMMA WalkIsAllowed ==
  WalkOfRay /\ [RayNext]_rayVars => WalkOfRay' /\ [Next]_vars
<1> SUFFICES ASSUME WalkOfRay, [RayNext]_rayVars
             PROVE  WalkOfRay' /\ [Next]_vars
  OBVIOUS
<1>1. CASE PlayerMovement /\ UNCHANGED <<dir, ahead, last, hit>>
  BY <1>1, Zenon DEF WalkOfRay, PlayerMovement, Next
<1>2. CASE ClearVisibleTiles /\ UNCHANGED dir
  BY <1>2 DEF WalkOfRay, ClearVisibleTiles, Next
<1>3. CASE WalkBegins
  <2>1. PICK d \in Directions :
          /\ dir' = d
          /\ walk' = IF ContainsTile(TileOf(px), TileOf(py))
                       THEN [x |-> TileOf(px), y |-> TileOf(py),
                             step_x |-> StepOf(d.x), step_y |-> StepOf(d.y)]
                       ELSE NoWalk
    BY <1>3 DEF WalkBegins
  <2>2. StepOf(d.x) \in Steps /\ StepOf(d.y) \in Steps
    BY DEF StepOf, Steps
  <2>3. CastRay
    BY <1>3, <2>1, <2>2, Zenon DEF WalkBegins, WalkOfRay, CastRay
  <2>4. WalkOfRay'
    BY <2>1, RaysAssumption DEF WalkOfRay
  <2>5. QED
    BY <2>3, <2>4 DEF Next
<1>4. CASE WalkSteps
  <2>1. WalkOfRay'
    BY <1>4 DEF WalkOfRay, WalkSteps
  <2>2. MarkTile
    <3>1. visible' = visible \cup
            IF ContainsTile(walk.x, walk.y) THEN {<<walk.x, walk.y>>} ELSE {}
      BY <1>4 DEF WalkSteps
    <3>2. IF ContainsTile(walk.x, walk.y) /\ tiles[walk.y][walk.x] < 0
            THEN \/ walk' = [walk EXCEPT !.x = @ + walk.step_x]
                 \/ walk' = [walk EXCEPT !.y = @ + walk.step_y]
            ELSE walk' = NoWalk
      BY <1>4, Zenon DEF WalkSteps
    <3>3. QED
      BY <1>4, <3>1, <3>2, Zenon DEF WalkSteps, MarkTile
  <2>3. QED
    BY <2>1, <2>2 DEF Next
<1>5. CASE CastSingleRay
  BY <1>5 DEF CastSingleRay, WalkOfRay, vars
<1>6. CASE AllRaysCast /\ UNCHANGED dir
  BY <1>6 DEF AllRaysCast, WalkOfRay, Next
<1>7. CASE UNCHANGED rayVars
  BY <1>7 DEF rayVars, vars, WalkOfRay
<1>8. QED
  BY <1>1, <1>2, <1>3, <1>4, <1>5, <1>6, <1>7, Zenon DEF RayNext

\* The rays of the program, whichever way they point, show what Sight promises.
THEOREM RaysImplementSight == RaySpec => Spec
<1>1. RayInit => Init /\ WalkOfRay
  BY DEF RayInit, Init, WalkOfRay
<1>2. QED
  BY <1>1, WalkIsAllowed, PTL DEF RaySpec, Spec

\* And so the player keeps its distance in the program.
THEOREM PlayerOfRaysKeepsDistance == RaySpec => []KeepsDistance
BY RaysImplementSight, PlayerKeepsDistance, PTL

\* And sees along lines.
THEOREM RaysAreInLine == RaySpec => []LinesOfSight
BY RaysImplementSight, SightIsInLine, PTL

-----------------------------------------------------------------------------
\* The floor and the ceiling.

Sized(size) == size \in Nat /\ size > 0

\* Division with remainder.
LEMMA DivMod ==
  ASSUME NEW m \in Nat, m > 0, NEW a \in Int
  PROVE  /\ a \div m \in Int /\ a % m \in 0 .. m - 1
         /\ a = m * (a \div m) + (a % m)
OBVIOUS

\* The part of a size that belongs to a part of a whole.
LEMMA PartOfSize ==
  ASSUME NEW size, Sized(size), NEW m, Sized(m), NEW g \in 0 .. m - 1
  PROVE  /\ size * g \in Nat
         /\ (size * g) \div m \in 0 .. size - 1
<1>1. size \in Nat /\ size > 0 /\ m \in Nat /\ m > 0 /\ g \in Nat /\ m - 1 \in Int
  BY DEF Sized
<1>2. size * g <= size * (m - 1)
  BY <1>1, TimesMonotonic
<1>3. size * (m - 1) = m * size - size /\ m * size \in Int /\ size * g \in Nat
  BY <1>1
<1>4. m * 0 <= size * g
  BY <1>1, <1>3
<1>5. (size - 1) + 1 = size /\ size - 1 \in Int
  BY <1>1
<1>6. size * g < m * ((size - 1) + 1)
  BY <1>1, <1>2, <1>3, <1>5
<1>7. QED
  BY <1>1, <1>3, <1>4, <1>5, <1>6, Quotient

\* A number below the modulus, and the modulus itself.
LEMMA SmallModulo ==
  ASSUME NEW size, Sized(size), NEW t \in 0 .. size - 1
  PROVE  t % size = t
<1> DEFINE q == t \div size
<1>1. size \in Nat /\ size > 0 /\ t \in Nat /\ t < size
  BY DEF Sized
<1>2. q \in Int /\ t = size * q + (t % size) /\ t % size \in 0 .. size - 1
  BY <1>1, DivMod
<1>3. size * 0 <= t /\ t < size * (0 + 1)
  BY <1>1
<1>4. q \in 0 .. 0
  BY <1>1, <1>3, Quotient
<1> HIDE DEF q
<1>5. size * q = 0
  BY <1>1, <1>4
<1>6. QED
  BY <1>1, <1>2, <1>5

LEMMA SelfModulo ==
  ASSUME NEW size, Sized(size)
  PROVE  size % size = 0
<1> DEFINE q == size \div size
<1>1. size \in Nat /\ size > 0
  BY DEF Sized
<1>2. q \in Int /\ size = size * q + (size % size) /\ size % size \in 0 .. size - 1
  BY <1>1, DivMod
<1>3. size * 1 <= size /\ size < size * (1 + 1)
  BY <1>1
<1>4. q \in 1 .. 1
  BY <1>1, <1>3, Quotient
<1> HIDE DEF q
<1>5. size * q = size
  BY <1>1, <1>4
<1>6. QED
  BY <1>1, <1>2, <1>5

\* A coordinate that is off by less than a texture is wrapped at most once.
LEMMA WrapOnce ==
  ASSUME NEW size, Sized(size), NEW t \in 0 .. size - 1
  PROVE  /\ Wrap(t, size) = t
         /\ Wrap(-t, size) = IF t = 0 THEN 0 ELSE size - t
<1>1. size \in Nat /\ size > 0 /\ t \in Nat /\ t < size
  BY DEF Sized
<1>2. t % size = t
  BY SmallModulo
<1>3. Remainder(t, size) = t
  BY <1>1, <1>2 DEF Remainder
<1>4. Remainder(-t, size) = -t
  BY <1>1, <1>2 DEF Remainder
<1>5. QED
  BY <1>1, <1>3, <1>4 DEF Wrap

\* Whatever (int) makes of a coordinate, even of one that is no number, the
\* texel is one of the texture: the row at the horizon, whose distance is a
\* division by zero, reads no memory but the texture's.
THEOREM AnythingIsWrapped ==
  ASSUME NEW size, Sized(size), NEW t \in Int
  PROVE  Wrap(t, size) \in 0 .. size - 1
<1>1. size \in Nat /\ size > 0
  BY DEF Sized
<1>2. t % size \in 0 .. size - 1 /\ (-t) % size \in 0 .. size - 1
  BY <1>1, DivMod
<1>3. Remainder(t, size) \in -(size - 1) .. size - 1
  BY <1>1, <1>2 DEF Remainder
<1>4. QED
  BY <1>1, <1>3 DEF Wrap

\* On the map, the texel of a point is the one of the pattern.
LEMMA TexelOnMap ==
  ASSUME NEW f, f.n \in Int, Sized(f.m), NEW size, Sized(size), f.n >= 0
  PROVE  /\ Texel(f, size) = PatternTexel(f, size)
         /\ Texel(f, size) \in 0 .. size - 1
<1> DEFINE g == f.n % f.m
           tile == f.n \div f.m
           t == (size * g) \div f.m
<1>1. f.m \in Nat /\ f.m > 0
  BY DEF Sized
<1>2. tile \in Int /\ g \in 0 .. f.m - 1 /\ f.n = f.m * tile + g
  BY <1>1, DivMod
<1>3. Truncate(f.n, f.m) = tile
  BY DEF Truncate
<1>4. size * g \in Nat /\ t \in 0 .. size - 1
  BY <1>2, PartOfSize
<1> HIDE DEF tile, g
<1>5. f.n - tile * f.m = g
  BY <1>1, <1>2
<1>6. Truncate(size * g, f.m) = t
  BY <1>4 DEF Truncate
<1>7. Wrap(t, size) = t
  BY <1>4, WrapOnce
<1> HIDE DEF t
<1>8. Texel(f, size) = t
  BY <1>3, <1>5, <1>6, <1>7 DEF Texel
<1>9. QED
  BY <1>4, <1>8 DEF t, g, PatternTexel

\* Left of the map, or above it, it may be the next one.
LEMMA TexelOffMap ==
  ASSUME NEW f, f.n \in Int, Sized(f.m), NEW size, Sized(size), f.n < 0
  PROVE  /\ Texel(f, size) \in 0 .. size - 1
         /\ \/ Texel(f, size) = PatternTexel(f, size)
            \/ Texel(f, size) = (PatternTexel(f, size) + 1) % size
<1> DEFINE m == f.m
           q == (-f.n) \div m
           g == (-f.n) % m
           s == (size * g) \div m
<1>1. size \in Nat /\ size > 0 /\ m \in Nat /\ m > 0 /\ f.n \in Int
  BY DEF Sized
<1>2. q \in Int /\ g \in 0 .. m - 1 /\ -f.n = m * q + g
  BY <1>1, DivMod
<1>3. Truncate(f.n, m) = -q
  BY DEF Truncate
<1>4. size * g \in Nat /\ s \in 0 .. size - 1
  BY <1>2, PartOfSize
<1>5. s \in Int /\ m * s <= size * g /\ size * g < m * s + m /\ m * s \in Int
  <2> HIDE DEF g, m
  <2>1. size * g \in Int
    BY <1>4
  <2> DEFINE a == size * g
  <2> HIDE DEF a
  <2>2. /\ a \div m \in Int /\ a % m \in 0 .. m - 1
        /\ a = m * (a \div m) + (a % m)
    BY <1>1, <2>1, DivMod DEF a
  <2>3. m * (a \div m) \in Int /\ a \in Int
    BY <1>1, <2>1, <2>2 DEF a
  <2>4. a \div m = s
    BY DEF a
  <2> HIDE DEF s
  <2>5. m * (a \div m) <= a /\ a < m * (a \div m) + m
    BY <1>1, <2>2, <2>3
  <2>6. QED
    BY <2>2, <2>3, <2>4, <2>5 DEF a
<1> HIDE DEF q, g
<1>6. f.n - (-q) * m = -g
  <2> HIDE DEF m
  <2>1. (-q) * m = -(m * q) /\ m * q \in Int
    BY <1>1, <1>2
  <2>2. QED
    BY <1>1, <1>2, <2>1
<1>7. size * (-g) = -(size * g)
  BY <1>1, <1>2
<1>8. Truncate(size * (-g), m) = -s
  <2>1. CASE size * g > 0
    BY <1>4, <1>7, <2>1 DEF Truncate
  <2>2. CASE size * g = 0
    <3>1. s = 0 /\ size * (-g) = 0
      BY <1>1, <1>7, <2>2
    <3>2. QED
      BY <1>1, <3>1, <2>2 DEF Truncate
  <2>3. QED
    BY <1>4, <2>1, <2>2
<1>9. Wrap(-s, size) = IF s = 0 THEN 0 ELSE size - s
  BY <1>4, WrapOnce
<1> HIDE DEF s
<1>10. Texel(f, size) = IF s = 0 THEN 0 ELSE size - s
  BY <1>3, <1>6, <1>8, <1>9 DEF Texel
<1>11. Texel(f, size) \in 0 .. size - 1
  BY <1>1, <1>4, <1>10
<1> DEFINE back == f.n % m
<1>12. back = IF g = 0 THEN 0 ELSE m - g
  <2> DEFINE p == f.n \div m
  <2>1. p \in Int /\ back \in 0 .. m - 1 /\ f.n = m * p + back
    BY <1>1, DivMod
  <2>2. f.n = m * (-q) - g /\ m * (-q) \in Int
    BY <1>1, <1>2
  <2>3. CASE g = 0
    <3>1. m * (-q) <= f.n /\ f.n < m * (-q + 1)
      BY <1>1, <1>2, <2>2, <2>3
    <3>2. p \in -q .. -q
      BY <1>1, <1>2, <3>1, Quotient
    <3> HIDE DEF p, back
    <3>3. p = -q
      BY <1>2, <3>2
    <3>4. m * p = m * (-q)
      BY <3>3
    <3>5. QED
      BY <2>1, <2>2, <2>3, <3>4, <1>1
  <2>4. CASE g # 0
    <3>1. m * (-q - 1) = m * (-q) - m /\ m * (-q - 1 + 1) = m * (-q)
      BY <1>1, <1>2
    <3>2. m * (-q - 1) <= f.n /\ f.n < m * (-q - 1 + 1)
      BY <1>1, <1>2, <2>2, <2>4, <3>1
    <3>3. p \in -q - 1 .. -q - 1
      BY <1>1, <1>2, <3>2, Quotient
    <3> HIDE DEF p, back
    <3>4. p = -q - 1
      BY <1>2, <3>3
    <3>5. m * p = m * (-q) - m
      BY <3>1, <3>4
    <3>6. QED
      BY <1>1, <1>2, <2>1, <2>2, <2>4, <3>5
  <2>5. QED
    BY <2>3, <2>4
<1> HIDE DEF back
<1>13. PatternTexel(f, size) = (size * back) \div m
  BY DEF PatternTexel, back
<1>14. CASE g = 0
  <2>1. size * g = 0 /\ size * back = 0
    BY <1>1, <1>12, <1>14
  <2>2. s = 0
    BY <1>1, <2>1 DEF s
  <2>3. PatternTexel(f, size) = 0
    BY <1>1, <1>13, <2>1
  <2>4. QED
    BY <1>10, <1>11, <2>2, <2>3
<1>15. CASE g # 0
  <2> HIDE DEF m
  <2>1. size * back = m * size - size * g /\ m * size \in Int
    <3>1. back = m - g
      BY <1>12, <1>15
    <3>2. size * (m - g) = m * size - size * g /\ m * size \in Int
      BY <1>1, <1>2
    <3>3. QED
      BY <3>1, <3>2
  <2>2. m * (size - s - 1) = m * size - m * s - m
    BY <1>1, <1>5
  <2>3. m * (size - s + 1) = m * size - m * s + m
    BY <1>1, <1>5
  <2>4. /\ size - s - 1 \in Int /\ size - s \in Int /\ size * back \in Int
        /\ m * (size - s - 1) <= size * back
        /\ size * back < m * (size - s + 1)
    BY <1>1, <1>4, <1>5, <2>1, <2>2, <2>3
  <2>5. PatternTexel(f, size) \in size - s - 1 .. size - s
    BY <1>1, <1>13, <2>4, Quotient
  <2>6. CASE PatternTexel(f, size) = size - s - 1
    <3>1. (PatternTexel(f, size) + 1) % size = (size - s) % size
      BY <1>1, <1>4, <2>6
    <3>2. (size - s) % size = IF s = 0 THEN 0 ELSE size - s
      <4>1. CASE s = 0
        BY <1>1, <4>1, SelfModulo
      <4>2. CASE s # 0
        BY <1>1, <1>4, <4>2, SmallModulo
      <4>3. QED
        BY <4>1, <4>2
    <3>3. QED
      BY <1>10, <1>11, <3>1, <3>2
  <2>7. CASE PatternTexel(f, size) = size - s
    <3>1. CASE s # 0
      BY <1>10, <1>11, <2>7, <3>1
    <3>2. CASE s = 0
      <4>1. back \in 0 .. m - 1
        BY <1>1, <1>2, <1>12
      <4>2. Sized(m)
        BY DEF m
      <4>3. (size * back) \div m \in 0 .. size - 1
        BY <4>1, <4>2, PartOfSize
      <4>4. QED
        BY <1>1, <1>13, <2>7, <3>2, <4>3
    <3>3. QED
      BY <3>1, <3>2
  <2>8. QED
    BY <1>1, <1>4, <2>5, <2>6, <2>7
<1>16. QED
  BY <1>14, <1>15

-----------------------------------------------------------------------------
\* The type of a floor point.
LEMMA FloorPointType ==
  ASSUME NEW p \in Int, NEW d \in Int, NEW r \in 1 .. Horizon - 1
  PROVE  LET f == FloorPoint(p, d, r, TILE_SIZE)
         IN  f.n \in Int /\ Sized(f.m)
<1>1. r \in Nat /\ r > 0 /\ CAMERA_AND_PLANE \in Nat
  BY FrameAssumption
<1>2. r * TILE_SIZE \in Nat /\ r * TILE_SIZE > 0
  BY <1>1, Sizes
<1>3. DirectionUnit \in Nat /\ DirectionUnit > 0
  BY FrameAssumption DEF DirectionUnit
<1>4. /\ DirectionUnit * (r * TILE_SIZE) \in Nat
      /\ DirectionUnit * (r * TILE_SIZE) > 0
  BY <1>2, <1>3
<1>5. DirectionUnit * (p * r) + CAMERA_AND_PLANE * d \in Int
  BY <1>1, <1>3
<1>6. QED
  BY <1>4, <1>5 DEF FloorPoint, Sized

\* The direction of a pixel is one of whole numbers.
LEMMA PixelDirectionType ==
  ASSUME NEW f \in [x : Int, y : Int], NEW x \in Across
  PROVE  LET d == PixelDirection(JobData(f), x) IN d.x \in Int /\ d.y \in Int
<1>1. f.x \in Int /\ f.y \in Int
  OBVIOUS
<1>2. RENDER_TEXTURE_WIDTH \in Int /\ PROJ_PLANE_SCALE \in Int /\ x \in Int
  BY FrameAssumption DEF Across
<1>3. \A a, b \in Int : (RENDER_TEXTURE_WIDTH * a) + x * (b - a) \in Int
  BY <1>2
<1> DEFINE job == JobData(f)
<1>4. job \in FloorCeilingJobData
  BY <1>1, <1>2 DEF JobData, FloorCeilingJobData
<1> HIDE DEF job
<1>5. LET d == PixelDirection(job, x) IN d.x \in Int /\ d.y \in Int
  BY <1>3, <1>4 DEF PixelDirection, FloorCeilingJobData
<1>6. QED
  BY <1>5 DEF job

\* A texel of both coordinates is one of the image.
LEMMA TexelOfImage ==
  ASSUME NEW w, Sized(w), NEW h, Sized(h), NEW x \in 0 .. w - 1, NEW y \in 0 .. h - 1
  PROVE  TexelIndex(x, y, w) \in 0 .. w * h - 1
<1>1. w \in Nat /\ w > 0 /\ h \in Nat /\ h > 0 /\ x \in Nat /\ x < w
      /\ y \in Nat /\ y <= h - 1 /\ h - 1 \in Int
  BY DEF Sized
<1>2. w * y <= w * (h - 1)
  BY <1>1, TimesMonotonic
<1>3. /\ w * (h - 1) = w * h - w /\ w * h \in Int
      /\ y * w = w * y /\ w * y \in Nat
  BY <1>1
<1>4. QED
  BY <1>1, <1>2, <1>3 DEF TexelIndex

\* Whatever the sizes, the position of the player and the direction of a ray:
\* a frame paints its floor and its ceiling with texels both images have, and on
\* the map with the right ones.
THEOREM FloorIsAlwaysSampled == RaySpec => []FloorIsSampled
<1>1. KeepsDistance => FloorIsSampled
  <2> SUFFICES ASSUME KeepsDistance,
                      NEW forward \in Directions, NEW r \in 1 .. Horizon - 1,
                      NEW x \in Across
               PROVE  LET d  == PixelDirection(JobData(forward), x)
                          fx == FloorPoint(px, d.x, r, TILE_SIZE)
                          fy == FloorPoint(py, d.y, r, TILE_SIZE)
                          tx == Texel(fx, floor_texture_width)
                          ty == Texel(fy, floor_texture_height)
                          AsPattern(t, f, size) ==
                            \/ t = PatternTexel(f, size)
                            \/ f.n < 0 /\ t = (PatternTexel(f, size) + 1) % size
                      IN  /\ TexelIndex(tx, ty, floor_texture_width)
                               \in 0 .. ceiling_width * ceiling_height - 1
                          /\ AsPattern(tx, fx, floor_texture_width)
                          /\ AsPattern(ty, fy, floor_texture_height)
    BY DEF FloorIsSampled
  <2> DEFINE d  == PixelDirection(JobData(forward), x)
             fx == FloorPoint(px, d.x, r, TILE_SIZE)
             fy == FloorPoint(py, d.y, r, TILE_SIZE)
             w  == floor_texture_width
             h  == floor_texture_height
  <2>1. px \in Int /\ py \in Int /\ d.x \in Int /\ d.y \in Int
    BY RaysAssumption, PixelDirectionType DEF KeepsDistance
  <2>2. fx.n \in Int /\ Sized(fx.m) /\ fy.n \in Int /\ Sized(fy.m)
    BY <2>1, FloorPointType
  <2>3. Sized(w) /\ Sized(h) /\ ceiling_width = w /\ ceiling_height = h
    BY TextureAssumption DEF Sized
  <2> HIDE DEF d, fx, fy, w, h
  <2>4. /\ Texel(fx, w) \in 0 .. w - 1
        /\ \/ Texel(fx, w) = PatternTexel(fx, w)
           \/ fx.n < 0 /\ Texel(fx, w) = (PatternTexel(fx, w) + 1) % w
    BY <2>2, <2>3, TexelOnMap, TexelOffMap
  <2>5. /\ Texel(fy, h) \in 0 .. h - 1
        /\ \/ Texel(fy, h) = PatternTexel(fy, h)
           \/ fy.n < 0 /\ Texel(fy, h) = (PatternTexel(fy, h) + 1) % h
    BY <2>2, <2>3, TexelOnMap, TexelOffMap
  <2>6. TexelIndex(Texel(fx, w), Texel(fy, h), w)
          \in 0 .. ceiling_width * ceiling_height - 1
    BY <2>3, <2>4, <2>5, TexelOfImage
  <2>7. QED
    BY <2>4, <2>5, <2>6 DEF d, fx, fy, w, h
<1>2. QED
  BY <1>1, PlayerOfRaysKeepsDistance, PTL

-----------------------------------------------------------------------------
\* Two pixels of the frame with the same index are one pixel.
LEMMA IndexOfOnePixel ==
  ASSUME NEW a \in Int, NEW b \in Int, NEW x \in Across, NEW y \in Across,
         PixelIndex(a, x) = PixelIndex(b, y)
  PROVE  a = b /\ x = y
<1> DEFINE w == RENDER_TEXTURE_WIDTH
<1>1. w \in Nat /\ w > 0 /\ x \in Nat /\ y \in Nat /\ x < w /\ y < w
  BY FrameAssumption DEF Across
<1>2. a * w + x = b * w + y
  BY DEF PixelIndex
<1> HIDE DEF w
<1>3. a * w = w * a /\ b * w = w * b /\ w * a \in Int /\ w * b \in Int
  BY <1>1
<1>4. ASSUME NEW c \in Int, NEW e \in Int, c + 1 <= e
      PROVE  w * c + w <= w * e
  <2>1. w * (c + 1) <= w * e /\ w * (c + 1) = w * c + w
    BY <1>1, <1>4, TimesMonotonic
  <2>2. QED
    BY <2>1
<1>5. ~(a + 1 <= b)
  BY <1>1, <1>2, <1>3, <1>4
<1>6. ~(b + 1 <= a)
  BY <1>1, <1>2, <1>3, <1>4
<1>7. a = b
  BY <1>5, <1>6
<1>8. QED
  BY <1>1, <1>2, <1>3, <1>7

\* Calls of draw_floor_and_ceiling_segment for ranges that have no row in common
\* write no pixel in common, although each of them writes above the horizon and
\* below it: the jobs of a frame may run at the same time without a lock.
THEOREM SegmentsApart ==
  ASSUME NEW s1 \in Nat, NEW e1 \in Nat, NEW s2 \in Nat, NEW e2 \in Nat,
         e1 <= s2
  PROVE  SegmentPixels(s1, e1) \cap SegmentPixels(s2, e2) = {}
<1> SUFFICES ASSUME NEW i \in SegmentPixels(s1, e1), i \in SegmentPixels(s2, e2)
             PROVE  FALSE
  OBVIOUS
<1>0. Horizon \in Int
  BY FrameAssumption DEF Horizon
<1>1. PICK r \in s1 .. e1 - 1 :
        \E a \in PixelRows(r), x \in Across : i = PixelIndex(a, x)
  BY DEF SegmentPixels
<1>2. PICK q \in s2 .. e2 - 1 :
        \E b \in PixelRows(q), y \in Across : i = PixelIndex(b, y)
  BY DEF SegmentPixels
<1> PICK a \in PixelRows(r), x \in Across : i = PixelIndex(a, x)
  BY <1>1
<1> PICK b \in PixelRows(q), y \in Across : i = PixelIndex(b, y)
  BY <1>2
<1>3. r \in Nat /\ q \in Nat /\ r < q
  OBVIOUS
<1>4. a \in Int /\ b \in Int /\ a # b
  BY <1>0, <1>3 DEF PixelRows
<1>5. QED
  BY <1>4, IndexOfOnePixel

\* No segment of the range parallel_for is called with writes outside of the
\* buffer.
THEOREM SegmentsInBuffer ==
  ASSUME NEW start \in Nat, NEW end \in Nat, end <= Horizon
  PROVE  SegmentPixels(start, end)
           \subseteq 0 .. RENDER_TEXTURE_WIDTH * RENDER_TEXTURE_HEIGHT - 1
<1> DEFINE w == RENDER_TEXTURE_WIDTH
           h == RENDER_TEXTURE_HEIGHT
<1>1. w \in Nat /\ w > 0 /\ h \in Nat /\ h > 0
  BY FrameAssumption
<1>2. Horizon \in Int /\ Horizon + Horizon = h
  BY FrameAssumption DEF Horizon
<1> SUFFICES ASSUME NEW i \in SegmentPixels(start, end) PROVE i \in 0 .. w * h - 1
  OBVIOUS
<1> PICK r \in start .. end - 1 :
        \E a \in PixelRows(r), x \in Across : i = PixelIndex(a, x)
  BY DEF SegmentPixels
<1>3. PICK a \in PixelRows(r), x \in Across : i = PixelIndex(a, x)
  OBVIOUS
<1>4. a \in 0 .. h - 1
  BY <1>1, <1>2 DEF PixelRows
<1>5. Sized(w) /\ Sized(h)
  BY <1>1 DEF Sized
<1>6. TexelIndex(x, a, w) \in 0 .. w * h - 1
  BY <1>4, <1>5, TexelOfImage DEF Across
<1>7. QED
  BY <1>3, <1>6 DEF TexelIndex, PixelIndex

-----------------------------------------------------------------------------
\* The shade of the view of the depth is a byte at every distance, so the
\* conversion to unsigned char loses nothing, and what is farther away is never
\* brighter.
THEOREM GradientFades ==
  ASSUME NEW m, Sized(m), NEW near \in Int, NEW far \in Int, near <= far
  PROVE  /\ DepthGradient(near, m) \in 0 .. 255
         /\ DepthGradient(far, m) <= DepthGradient(near, m)
<1> DEFINE all == 800 * m
           Shade(n) == (255 * (all - n)) \div all
<1>1. m \in Nat /\ m > 0 /\ all \in Nat /\ all > 0 /\ all * 255 \in Nat
  BY DEF Sized
<1>2. ASSUME NEW n \in Int
      PROVE  DepthGradient(n, m) = IF n < 0 THEN 255
                                   ELSE IF n > all THEN 0 ELSE Shade(n)
  <2>1. 255 * (all - n) < 0 => n > all
    BY <1>1
  <2>2. QED
    BY <1>1, <2>1 DEF DepthGradient, Truncate
<1> HIDE DEF all
<1>3. ASSUME NEW n \in 0 .. all
      PROVE  Shade(n) \in 0 .. 255
  <2>1. all * 0 <= 255 * (all - n) /\ 255 * (all - n) < all * (255 + 1)
    BY <1>1
  <2>2. QED
    BY <1>1, <2>1, Quotient
<1>4. ASSUME NEW n \in 0 .. all, NEW k \in n .. all
      PROVE  Shade(k) <= Shade(n)
  <2> DEFINE a == 255 * (all - n)
             b == 255 * (all - k)
             q == a \div all
  <2>1. a \in Int /\ b \in Int /\ b <= a /\ 0 <= b /\ all * 0 <= b
    BY <1>1
  <2> HIDE DEF a, b
  <2>2. q \in Int /\ a < all * q + all /\ all * q + all = all * (q + 1)
    BY <1>1, <2>1
  <2>3. b < all * (q + 1)
    BY <1>1, <2>1, <2>2
  <2> HIDE DEF q
  <2>4. b \div all \in 0 .. q
    BY <1>1, <2>1, <2>2, <2>3, Quotient
  <2>5. QED
    BY <2>4 DEF a, b, q
<1> HIDE DEF Shade
<1>5. DepthGradient(near, m) \in 0 .. 255
  BY <1>1, <1>2, <1>3
<1>6. DepthGradient(far, m) <= DepthGradient(near, m)
  <2>1. CASE 0 <= near /\ far <= all
    BY <1>1, <1>2, <1>4, <2>1
  <2>2. CASE near < 0 \/ all < far
    <3>1. /\ near < 0 => DepthGradient(near, m) = 255
          /\ all < far => DepthGradient(far, m) = 0
      BY <1>1, <1>2
    <3>2. DepthGradient(far, m) \in 0 .. 255
      BY <1>1, <1>2, <1>3
    <3>3. QED
      BY <1>5, <2>2, <3>1, <3>2
  <2>3. QED
    BY <1>1, <2>1, <2>2
<1>7. QED
  BY <1>5, <1>6

-----------------------------------------------------------------------------
\* What a ray hits.

\* The radius keeps the player off the line between two tiles.
LEMMA RadiusIsPositive == Radius > 0
BY SightAssumption

\* A multiple leaves nothing.
LEMMA MultipleModulo ==
  ASSUME NEW m \in Nat, m > 0, NEW n \in Int
  PROVE  (m * n) % m = 0
<1> DEFINE c == m * n
           q == c \div m
<1>1. /\ c \in Int /\ m * n <= c /\ c < m * (n + 1)
  BY SMT
<1>2. q \in n .. n
  BY <1>1, Quotient
<1>3. c = m * q + (c % m) /\ c % m \in Int
  BY <1>1, DivMod
<1> HIDE DEF q
<1>4. q = n
  BY <1>2
<1>5. c % m = 0
  BY <1>3, <1>4
<1>6. QED
  BY <1>5

\* What is left of a tile, or of what it lacks, in whole pixels.
LEMMA StripRange ==
  ASSUME NEW den \in Nat, den > 0, NEW c \in Int, NEW mirrored \in BOOLEAN
  PROVE  /\ Strip(c, den, mirrored) \in 0 .. TILE_SIZE
         /\ Strip(c, den, mirrored) = TILE_SIZE => c % (TILE_SIZE * den) = 0
<1> DEFINE m == TILE_SIZE * den
           f == c % m
           g == IF mirrored THEN m - f ELSE f
<1>1. m \in Nat /\ m > 0 /\ m = den * TILE_SIZE
  BY Sizes
<1> HIDE DEF m
<1>2. f \in 0 .. m - 1
  BY <1>1
<1> HIDE DEF f
<1>3. /\ g \in 0 .. m
      /\ f # 0 => g <= m - 1
      /\ f = 0 /\ ~mirrored => g = 0
  BY <1>1, <1>2
<1> HIDE DEF g
<1>4. Strip(c, den, mirrored) = g \div den
  BY DEF Strip, f, g, m
<1>5. g \div den \in 0 .. TILE_SIZE
  <2>1. den * 0 <= g /\ g < den * (TILE_SIZE + 1)
    BY <1>1, <1>3, Sizes
  <2>2. QED
    BY <1>1, <1>3, <2>1, Quotient, Sizes
<1>6. ASSUME f # 0 PROVE g \div den \in 0 .. TILE_SIZE - 1
  <2>1. den * 0 <= g /\ g < den * ((TILE_SIZE - 1) + 1) /\ TILE_SIZE - 1 \in Int
    BY <1>1, <1>3, <1>6, Sizes
  <2>2. QED
    BY <1>1, <1>3, <2>1, Quotient
<1>7. g \div den = TILE_SIZE => f = 0
  BY <1>6, Sizes
<1>8. QED
  BY <1>4, <1>5, <1>7 DEF f, m

\* Where a coordinate b has got to, after a way along the other axis, when the
\* whole way would not take it out of low .. high.
LEMMA BetweenWalls ==
  ASSUME NEW den \in Nat, NEW b \in Int, NEW e \in Int,
         NEW whole \in Nat, NEW way \in 0 .. whole,
         NEW low \in Int, NEW high \in Int, low <= b, b <= high,
         e > 0 => whole * e <= (high - b) * den,
         e <= 0 => whole * (-e) <= (b - low) * den
  PROVE  low * den <= b * den + way * e /\ b * den + way * e <= high * den
<1>1. /\ den * low <= den * b /\ den * b <= den * high
      /\ low * den = den * low /\ b * den = den * b /\ high * den = den * high
      /\ (high - b) * den = high * den - b * den
      /\ (b - low) * den = b * den - low * den
  BY TimesMonotonic
<1> DEFINE l == low * den
           h == high * den
           p == b * den
<1>2. l \in Int /\ h \in Int /\ p \in Int /\ l <= p /\ p <= h
  BY <1>1
<1>3. CASE e > 0
  <2>1. e * way <= e * whole /\ e * 0 <= e * way
    BY <1>3, TimesMonotonic
  <2>2. way * e \in Int /\ 0 <= way * e /\ way * e <= whole * e /\ whole * e \in Int
    BY <1>3, <2>1
  <2>3. whole * e <= h - p
    BY <1>1, <1>3
  <2> HIDE DEF l, h, p
  <2> DEFINE part == way * e
             all == whole * e
  <2> HIDE DEF part, all
  <2>4. l <= p + part /\ p + part <= h
    BY <1>2, <2>2, <2>3 DEF part, all
  <2>5. QED
    BY <2>4 DEF l, h, p, part
<1>4. CASE e <= 0
  <2> DEFINE part == way * (-e)
             all == whole * (-e)
  <2>1. -e \in Nat /\ way \in Int /\ whole \in Int /\ way <= whole /\ 0 <= way
    BY <1>4
  <2>2. (-e) * way <= (-e) * whole /\ (-e) * 0 <= (-e) * way
    BY <2>1, TimesMonotonic
  <2>3. /\ part \in Int /\ 0 <= part /\ part <= all /\ all \in Int
        /\ way * e = -part
    BY <2>1, <2>2
  <2>4. all <= p - l
    BY <1>1, <1>4
  <2> HIDE DEF l, h, p, part, all
  <2>5. l <= p - part /\ p - part <= h
    BY <1>2, <2>3, <2>4
  <2>6. b * den + way * e = p - part
    <3>1. p + way * e = p - part
      BY <1>2, <2>3
    <3>2. QED
      BY <3>1 DEF p
  <2>7. QED
    BY <2>5, <2>6 DEF l, h, p
<1>5. QED
  BY <1>3, <1>4

\* The least of some numbers.
LEMMA Least ==
  ASSUME NEW S \in SUBSET Nat, NEW n \in S
  PROVE  \E m \in S : \A k \in S : m <= k
<1> DEFINE R == OpToRel(<, Nat)
<1>1. IsWellFoundedOn(R, Nat)
  BY NatLessThanWellFounded
<1>2. \A a, b \in Nat : a < b => <<a, b>> \in R
  BY DEF OpToRel
<1> HIDE DEF R
<1>3. PICK m \in S : \A k \in S : ~(<<k, m>> \in R)
  BY <1>1, WFMin
<1>4. \A k \in S : ~(k < m)
  BY <1>2, <1>3
<1>5. QED
  BY <1>4

\* The number of the line in front of the outer wall, as a ray along d from c
\* counts them, and the way to it.
LastLine(c, d, length) == IF Forward(d) THEN length - 2 - TileOf(c) ELSE TileOf(c) - 1

WayTo(c, d, k) == Abs(GridLine(c, d, k) - c)

WholeWay(c, d, length) ==
  IF Forward(d) THEN TILE_SIZE * (length - 1) - c ELSE c - TILE_SIZE

\* The lines until then are inside the walls.
LEMMA GridLines ==
  ASSUME NEW length \in Nat, 4 <= length, NEW c, Clear(c, length), NEW d \in Int
  PROVE  /\ LastLine(c, d, length) \in 0 .. length
         /\ WholeWay(c, d, length) \in Nat
         /\ \A k \in 0 .. LastLine(c, d, length) :
              /\ GridLine(c, d, k) \in Int
              /\ \E n \in 1 .. length - 1 : GridLine(c, d, k) = TILE_SIZE * n
              /\ TILE_SIZE <= GridLine(c, d, k)
              /\ GridLine(c, d, k) <= TILE_SIZE * (length - 1)
              /\ WayTo(c, d, k) \in 0 .. WholeWay(c, d, length)
              /\ Forward(d) => WayTo(c, d, k) > 0
              /\ WayTo(c, d, k) = 0 => GridLine(c, d, k) = c
         /\ GridLine(c, d, LastLine(c, d, length))
              = IF Forward(d) THEN TILE_SIZE * (length - 1) ELSE TILE_SIZE
<1> DEFINE t == TileOf(c)
           wall == TILE_SIZE * (length - 1)
<1>1. /\ t \in 1 .. length - 2 /\ length \in Nat
      /\ c \in Int /\ TILE_SIZE <= c /\ c < wall /\ wall \in Int
      /\ TILE_SIZE * t <= c /\ c < TILE_SIZE * (t + 1)
  <2>1. t \in 1 .. length - 2 /\ c \in Int
    BY ClearIsInside DEF Clear
  <2>2. TILE_SIZE * t <= c /\ c < TILE_SIZE * t + TILE_SIZE
    BY <2>1, Sizes DEF TileOf
  <2>3. TILE_SIZE * (t + 1) = TILE_SIZE * t + TILE_SIZE
    BY <2>1, Sizes
  <2>4. wall \in Int /\ TILE_SIZE <= c /\ c < wall
    BY Sizes DEF Clear
  <2>5. QED
    BY <2>1, <2>2, <2>3, <2>4
<1> HIDE DEF t
<1>2. CASE Forward(d)
  <2>1. /\ LastLine(c, d, length) = length - 2 - t
        /\ WholeWay(c, d, length) = wall - c
    BY <1>2 DEF LastLine, WholeWay, t
  <2>2. ASSUME NEW k \in 0 .. length - 2 - t
        PROVE  /\ GridLine(c, d, k) = TILE_SIZE * (t + 1 + k)
               /\ t + 1 + k \in 1 .. length - 1
               /\ GridLine(c, d, k) \in Int
               /\ TILE_SIZE <= GridLine(c, d, k) /\ GridLine(c, d, k) <= wall
               /\ c < GridLine(c, d, k)
    <3> DEFINE n == t + 1 + k
    <3>1. n \in 1 .. length - 1 /\ t + 1 <= n
      BY <1>1
    <3>2. GridLine(c, d, k) = n * TILE_SIZE
      BY <1>1, <1>2 DEF GridLine, StepOf, t
    <3> HIDE DEF n
    <3>3. n * TILE_SIZE = TILE_SIZE * n /\ n \in Int
      BY <3>1, Sizes
    <3>4. TILE_SIZE * (t + 1) <= TILE_SIZE * n /\ TILE_SIZE * n <= wall
      BY <1>1, <3>1, <3>3, Sizes, TimesMonotonic
    <3> DEFINE line == TILE_SIZE * n
               next == TILE_SIZE * (t + 1)
    <3>5. line \in Int /\ next \in Int
      BY <1>1, <3>3, Sizes
    <3>6. GridLine(c, d, k) = line
      BY <3>2, <3>3
    <3> HIDE DEF line, next
    <3>7. next <= line /\ line <= wall /\ c < next
      BY <1>1, <3>4 DEF line, next
    <3> HIDE DEF wall
    <3>8. TILE_SIZE <= line /\ line <= wall /\ c < line
      BY <1>1, <3>5, <3>7, Sizes
    <3>9. QED
      BY <3>1, <3>5, <3>6, <3>8 DEF line, n
  <2>3. ASSUME NEW k \in 0 .. length - 2 - t
        PROVE  WayTo(c, d, k) \in 1 .. wall - c
    <3> DEFINE line == GridLine(c, d, k)
    <3>1. line \in Int /\ line <= wall /\ c < line
      BY <2>2
    <3>2. WayTo(c, d, k) = IF line - c < 0 THEN -(line - c) ELSE line - c
      BY DEF WayTo, Abs
    <3> HIDE DEF line, wall
    <3>3. QED
      BY <1>1, <3>1, <3>2
  <2>4. GridLine(c, d, length - 2 - t) = wall
    <3>1. /\ length - 2 - t \in 0 .. length - 2 - t
          /\ t + 1 + (length - 2 - t) = length - 1
      BY <1>1
    <3>2. GridLine(c, d, length - 2 - t) = TILE_SIZE * (t + 1 + (length - 2 - t))
      BY <2>2, <3>1
    <3>3. QED
      BY <3>1, <3>2
  <2>5. length - 2 - t \in 0 .. length /\ wall - c \in Nat
    BY <1>1
  <2>6. ASSUME NEW k \in 0 .. LastLine(c, d, length)
        PROVE  /\ GridLine(c, d, k) \in Int
               /\ \E n \in 1 .. length - 1 : GridLine(c, d, k) = TILE_SIZE * n
               /\ TILE_SIZE <= GridLine(c, d, k) /\ GridLine(c, d, k) <= wall
               /\ WayTo(c, d, k) \in 0 .. WholeWay(c, d, length)
               /\ WayTo(c, d, k) > 0
    <3>1. k \in 0 .. length - 2 - t
      BY <2>1
    <3> HIDE DEF wall
    <3>2. WayTo(c, d, k) \in 1 .. wall - c
      BY <2>3, <3>1
    <3>3. /\ GridLine(c, d, k) \in Int
          /\ \E n \in 1 .. length - 1 : GridLine(c, d, k) = TILE_SIZE * n
          /\ TILE_SIZE <= GridLine(c, d, k) /\ GridLine(c, d, k) <= wall
      BY <2>2, <3>1
    <3>4. QED
      BY <1>1, <2>1, <3>2, <3>3
  <2>7. QED
    BY <1>2, <2>1, <2>4, <2>5, <2>6
<1>3. CASE ~Forward(d)
  <2>1. /\ LastLine(c, d, length) = t - 1
        /\ WholeWay(c, d, length) = c - TILE_SIZE
    BY <1>3 DEF LastLine, WholeWay, t
  <2>2. ASSUME NEW k \in 0 .. t - 1
        PROVE  /\ GridLine(c, d, k) = TILE_SIZE * (t - k)
               /\ t - k \in 1 .. length - 1
               /\ GridLine(c, d, k) \in Int
               /\ TILE_SIZE <= GridLine(c, d, k) /\ GridLine(c, d, k) <= c
    <3> DEFINE n == t - k
    <3>1. n \in 1 .. length - 1 /\ n <= t /\ 1 <= n
      BY <1>1
    <3>2. GridLine(c, d, k) = n * TILE_SIZE
      BY <1>1, <1>3 DEF GridLine, StepOf, t
    <3> HIDE DEF n
    <3>3. n * TILE_SIZE = TILE_SIZE * n /\ n \in Int /\ TILE_SIZE * 1 = TILE_SIZE
      BY <3>1, Sizes
    <3>4. TILE_SIZE * 1 <= TILE_SIZE * n /\ TILE_SIZE * n <= TILE_SIZE * t
      BY <1>1, <3>1, <3>3, Sizes, TimesMonotonic
    <3> DEFINE line == TILE_SIZE * n
               own == TILE_SIZE * t
    <3>5. line \in Int /\ own \in Int
      BY <1>1, <3>3, Sizes
    <3>6. GridLine(c, d, k) = line
      BY <3>2, <3>3
    <3> HIDE DEF line, own
    <3>7. TILE_SIZE <= line /\ line <= own /\ own <= c
      BY <1>1, <3>3, <3>4 DEF line, own
    <3>8. TILE_SIZE <= line /\ line <= c
      BY <1>1, <3>5, <3>7, Sizes
    <3>9. QED
      BY <3>1, <3>5, <3>6, <3>8 DEF line, n
  <2>3. ASSUME NEW k \in 0 .. t - 1
        PROVE  /\ WayTo(c, d, k) \in 0 .. c - TILE_SIZE
               /\ WayTo(c, d, k) = 0 => GridLine(c, d, k) = c
    <3> DEFINE line == GridLine(c, d, k)
    <3>1. line \in Int /\ line <= c /\ TILE_SIZE <= line
      BY <2>2
    <3>2. WayTo(c, d, k) = IF line - c < 0 THEN -(line - c) ELSE line - c
      BY DEF WayTo, Abs
    <3> HIDE DEF line
    <3>3. /\ WayTo(c, d, k) \in 0 .. c - TILE_SIZE
          /\ WayTo(c, d, k) = 0 => line = c
      BY <1>1, <3>1, <3>2, Sizes
    <3>4. QED
      BY <3>3 DEF line
  <2>4. GridLine(c, d, t - 1) = TILE_SIZE
    <3>1. t - 1 \in 0 .. t - 1 /\ t - (t - 1) = 1
      BY <1>1
    <3>2. GridLine(c, d, t - 1) = TILE_SIZE * (t - (t - 1))
      BY <2>2, <3>1
    <3>3. QED
      BY <3>1, <3>2, Sizes
  <2>5. t - 1 \in 0 .. length /\ c - TILE_SIZE \in Nat
    BY <1>1, Sizes
  <2>6. ASSUME NEW k \in 0 .. LastLine(c, d, length)
        PROVE  /\ GridLine(c, d, k) \in Int
               /\ \E n \in 1 .. length - 1 : GridLine(c, d, k) = TILE_SIZE * n
               /\ TILE_SIZE <= GridLine(c, d, k) /\ GridLine(c, d, k) <= wall
               /\ WayTo(c, d, k) \in 0 .. WholeWay(c, d, length)
               /\ WayTo(c, d, k) = 0 => GridLine(c, d, k) = c
    <3>1. k \in 0 .. t - 1
      BY <2>1
    <3> HIDE DEF wall
    <3>2. /\ GridLine(c, d, k) \in Int
          /\ \E n \in 1 .. length - 1 : GridLine(c, d, k) = TILE_SIZE * n
          /\ TILE_SIZE <= GridLine(c, d, k) /\ GridLine(c, d, k) <= c
      BY <2>2, <3>1
    <3>3. GridLine(c, d, k) <= wall
      BY <1>1, <3>2
    <3>4. QED
      BY <2>1, <2>3, <3>1, <3>2, <3>3
  <2>7. QED
    BY <1>3, <2>1, <2>4, <2>5, <2>6
<1>4. QED
  BY <1>2, <1>3

\* How fast a ray that is not parallel to the lines crosses them.
LEMMA Speed ==
  ASSUME NEW d \in Int
  PROVE  /\ Abs(d) \in Nat /\ (d # 0 => Abs(d) > 0)
         /\ d > 0 => Abs(d) = d
         /\ d <= 0 => Abs(d) = -d
BY DEF Abs

\* A ray that reaches the outer wall a on one axis before the one on the other
\* axis crosses each line on the way to it inside the walls, and the last of them
\* leads into that wall.
LEMMA CrossingsInside ==
  ASSUME NEW length \in Nat, 4 <= length, NEW a, Clear(a, length),
         NEW width \in Nat, 4 <= width, NEW b, Clear(b, width),
         NEW da \in Int, da # 0, NEW db \in Int,
         WholeWay(a, da, length) * Abs(db) <= WholeWay(b, db, width) * Abs(da),
         NEW k \in 0 .. LastLine(a, da, length),
         NEW den, den = Abs(da),
         NEW along, along = GridLine(a, da, k) * den,
         NEW across, across = b * den + WayTo(a, da, k) * db
  PROVE  /\ along \in Int /\ 0 < along /\ along < length * TILE_SIZE * den
         /\ across \in Int /\ 0 < across /\ across < width * TILE_SIZE * den
         /\ across \div (TILE_SIZE * den) \in 1 .. width - 1
         /\ k = LastLine(a, da, length) =>
              (along - (IF Forward(da) THEN 0 ELSE 1) * den) \div (TILE_SIZE * den)
                = IF Forward(da) THEN length - 1 ELSE 0
<1> DEFINE line == GridLine(a, da, k)
           way == WayTo(a, da, k)
           whole == WholeWay(a, da, length)
           m == TILE_SIZE * den
<1>1. den \in Nat /\ den > 0 /\ m \in Nat /\ m > 0 /\ den <= m
  <2>1. den \in Nat /\ den > 0
    BY Speed
  <2>2. den * 1 <= den * TILE_SIZE /\ den * TILE_SIZE = m
    BY <2>1, Sizes, TimesMonotonic
  <2>3. QED
    BY <2>1, <2>2, Sizes
<1>2. /\ line \in Int /\ TILE_SIZE <= line /\ line <= TILE_SIZE * (length - 1)
      /\ way \in 0 .. whole /\ whole \in Nat
      /\ k = LastLine(a, da, length) =>
           line = IF Forward(da) THEN TILE_SIZE * (length - 1) ELSE TILE_SIZE
  <2>1. /\ \A n \in 0 .. LastLine(a, da, length) :
             /\ GridLine(a, da, n) \in Int
             /\ TILE_SIZE <= GridLine(a, da, n)
             /\ GridLine(a, da, n) <= TILE_SIZE * (length - 1)
             /\ WayTo(a, da, n) \in 0 .. WholeWay(a, da, length)
        /\ WholeWay(a, da, length) \in Nat
        /\ GridLine(a, da, LastLine(a, da, length))
             = IF Forward(da) THEN TILE_SIZE * (length - 1) ELSE TILE_SIZE
    BY GridLines
  <2>2. QED
    BY <2>1
<1>3. /\ b \in Int /\ TILE_SIZE <= b /\ b <= TILE_SIZE * (width - 1)
      /\ TILE_SIZE * (width - 1) \in Int /\ TILE_SIZE * (length - 1) \in Int
  BY Sizes DEF Clear
<1>4. /\ TILE_SIZE * den <= across /\ across <= TILE_SIZE * (width - 1) * den
  <2> DEFINE high == TILE_SIZE * (width - 1)
  <2>1. db > 0 => whole * db <= (high - b) * den
    <3>1. ASSUME db > 0 PROVE Abs(db) = db /\ WholeWay(b, db, width) = high - b
      BY <3>1, Speed DEF WholeWay, Forward
    <3>2. QED
      BY <3>1
  <2>2. db <= 0 => whole * (-db) <= (b - TILE_SIZE) * den
    <3>1. ASSUME db <= 0 PROVE Abs(db) = -db /\ WholeWay(b, db, width) = b - TILE_SIZE
      BY <3>1, Speed DEF WholeWay, Forward
    <3>2. QED
      BY <3>1
  <2>3. high \in Int /\ TILE_SIZE \in Int /\ TILE_SIZE <= b /\ b <= high
    BY <1>3, Sizes
  <2> HIDE DEF whole, high, way
  <2>4. TILE_SIZE * den <= b * den + way * db /\ b * den + way * db <= high * den
    BY <1>1, <1>2, <1>3, <2>1, <2>2, <2>3, BetweenWalls
  <2>5. QED
    BY <2>4 DEF high, way
<1>5. /\ TILE_SIZE * (width - 1) * den = m * (width - 1)
      /\ m * (width - 1) + m = m * width /\ width * TILE_SIZE * den = m * width
      /\ TILE_SIZE * (length - 1) * den = m * (length - 1)
      /\ m * (length - 1) + m = m * length /\ length * TILE_SIZE * den = m * length
      /\ m * (width - 1) \in Int /\ m * (length - 1) \in Int
      /\ m * width \in Int /\ m * length \in Int /\ m * 1 = m
      /\ (width - 1) + 1 = width /\ width - 1 \in Int
  BY <1>1, Sizes
<1>6. along \in Int /\ across \in Int
  <2>1. line * den \in Int
    BY <1>1, <1>2
  <2>2. way \in Int /\ b * den \in Int
    BY <1>1, <1>2, <1>3
  <2>3. way * db \in Int
    BY <2>2
  <2>4. QED
    BY <2>1, <2>2, <2>3
<1>7. m <= along /\ along <= m * (length - 1)
  <2>1. /\ den * TILE_SIZE <= den * line
        /\ den * line <= den * (TILE_SIZE * (length - 1))
    BY <1>1, <1>2, <1>3, Sizes, TimesMonotonic
  <2>2. den * line = along /\ den * TILE_SIZE = m
    BY <1>1, <1>2, Sizes
  <2>3. den * (TILE_SIZE * (length - 1)) = m * (length - 1)
    BY <1>1, Sizes
  <2>4. QED
    BY <2>1, <2>2, <2>3
<1>8. across \div m \in 1 .. width - 1
  <2>1. m * 1 <= across /\ across < m * ((width - 1) + 1)
    <3> HIDE DEF m
    <3>1. m <= across /\ across <= m * (width - 1)
      BY <1>4, <1>5 DEF m
    <3>2. QED
      BY <1>1, <1>5, <1>6, <3>1
  <2>2. QED
    BY <1>1, <1>5, <1>6, <2>1, Quotient
<1>9. ASSUME k = LastLine(a, da, length), Forward(da)
      PROVE  (along - 0 * den) \div m = length - 1
  <2>1. along = m * (length - 1)
    BY <1>2, <1>5, <1>9
  <2>2. along - 0 * den = along
    BY <1>1, <1>6
  <2>3. m * (length - 1) <= along /\ along < m * ((length - 1) + 1) /\ length - 1 \in Int
    BY <1>1, <1>5, <1>6, <2>1
  <2>4. along \div m \in length - 1 .. length - 1
    BY <1>1, <1>6, <2>3, Quotient
  <2>5. QED
    BY <2>2, <2>4
<1>10. ASSUME k = LastLine(a, da, length), ~Forward(da)
       PROVE  (along - 1 * den) \div m = 0
  <2>1. along = m
    BY <1>2, <1>10
  <2> DEFINE c == along - 1 * den
  <2>2. c \in Int /\ m * 0 <= c /\ c < m * (0 + 1)
    BY <1>1, <2>1
  <2>3. c \div m \in 0 .. 0
    BY <1>1, <2>2, Quotient
  <2>4. QED
    BY <2>3
<1>11. k = LastLine(a, da, length) =>
         (along - (IF Forward(da) THEN 0 ELSE 1) * den) \div m
           = IF Forward(da) THEN length - 1 ELSE 0
  BY <1>9, <1>10
<1>12. /\ 0 < along /\ along < length * TILE_SIZE * den
       /\ 0 < across /\ across < width * TILE_SIZE * den
  <2> HIDE DEF m
  <2>1. m <= across /\ across <= m * (width - 1)
    BY <1>4, <1>5 DEF m
  <2>2. QED
    BY <1>1, <1>5, <1>6, <1>7, <2>1
<1>13. QED
  BY <1>6, <1>8, <1>11, <1>12

\* The loop along the vertical lines meets a wall, at the outer one at the latest,
\* if the ray reaches the outer wall on this axis first.
LEMMA VerticalReaches ==
  ASSUME PlayerInv, NEW d \in [x : Int, y : Int], d.x # 0,
         WholeWay(px, d.x, MAP_NUM_COLS) * Abs(d.y)
           <= WholeWay(py, d.y, MAP_NUM_ROWS) * Abs(d.x)
  PROVE  \E k \in VerticalHits(d) : k <= LastLine(px, d.x, MAP_NUM_COLS)
<1> DEFINE final == LastLine(px, d.x, MAP_NUM_COLS)
<1>1. /\ final \in 0 .. MAP_NUM_COLS /\ d.x \in Int /\ d.y \in Int
      /\ Clear(px, MAP_NUM_COLS) /\ Clear(py, MAP_NUM_ROWS)
  BY GridLines, Sizes DEF PlayerInv
<1>2. ASSUME NEW k \in 0 .. final
      PROVE  /\ InFrame(VerticalCrossing(d, k))
             /\ k = final => HasWall(VerticalTile(d, k))
  <2> DEFINE den == Abs(d.x)
             along == GridLine(px, d.x, k) * den
             across == py * den + WayTo(px, d.x, k) * d.y
             back == IF Forward(d.x) THEN 0 ELSE 1
             p == VerticalCrossing(d, k)
  <2>1. p.x = along /\ p.y = across /\ p.den = den
    BY DEF VerticalCrossing, WayTo
  <2>2. /\ along \in Int /\ 0 < along /\ along < MAP_NUM_COLS * TILE_SIZE * den
        /\ across \in Int /\ 0 < across /\ across < MAP_NUM_ROWS * TILE_SIZE * den
        /\ across \div (TILE_SIZE * den) \in 1 .. MAP_NUM_ROWS - 1
        /\ k = final =>
             (along - back * den) \div (TILE_SIZE * den)
               = IF Forward(d.x) THEN MAP_NUM_COLS - 1 ELSE 0
    BY <1>1, CrossingsInside, Sizes
  <2>3. den \in Nat
    BY <1>1, Speed
  <2> HIDE DEF den, along, across, p, back
  <2>4. InFrame(p)
    <3>1. /\ MAP_NUM_COLS * TILE_SIZE * den \in Int
          /\ MAP_NUM_ROWS * TILE_SIZE * den \in Int
      BY <2>3, Sizes
    <3>2. QED
      BY <2>1, <2>2, <3>1 DEF InFrame
  <2>5. ASSUME k = final PROVE HasWall(VerticalTile(d, k))
    <3>1. across - 0 * den = across
      BY <2>2, <2>3
    <3>2. VerticalTile(d, k)
            = <<(along - back * den) \div (TILE_SIZE * den),
                across \div (TILE_SIZE * den)>>
      BY <2>1, <3>1 DEF VerticalTile, TileBehind, p, back
    <3> DEFINE s == (along - back * den) \div (TILE_SIZE * den)
               r == across \div (TILE_SIZE * den)
    <3>3. s = 0 \/ s = MAP_NUM_COLS - 1
      BY <2>2, <2>5
    <3>4. r \in 1 .. MAP_NUM_ROWS - 1
      BY <2>2
    <3> HIDE DEF s, r
    <3>5. /\ s \in Columns /\ r \in Rows
          /\ s \notin 1 .. MAP_NUM_COLS - 2
      BY <3>3, <3>4, Sizes DEF Columns, Rows
    <3>6. tiles[r][s] # -1
      BY <3>5, TileValues
    <3>7. VerticalTile(d, k) = <<s, r>>
      BY <3>2 DEF s, r
    <3>8. QED
      BY <3>5, <3>6, <3>7 DEF HasWall, ContainsTile
  <2>6. QED
    BY <2>4, <2>5 DEF p
<1> DEFINE S == {k \in Nat : HasWall(VerticalTile(d, k))}
<1> HIDE DEF final
<1>3. final \in S
  BY <1>1, <1>2
<1>4. PICK k \in S : \A n \in S : k <= n
  BY <1>3, Least
<1>5. k \in 0 .. final /\ k \in 0 .. MAP_NUM_COLS
  <2>1. k \in Nat /\ k <= final
    BY <1>3, <1>4
  <2> HIDE DEF S
  <2>2. QED
    BY <1>1, <2>1, Sizes
<1>6. \A j \in 0 .. k : InFrame(VerticalCrossing(d, j))
  BY <1>1, <1>2, <1>5
<1>7. \A j \in 0 .. k - 1 : ~HasWall(VerticalTile(d, j))
  <2> SUFFICES ASSUME NEW j \in 0 .. k - 1, HasWall(VerticalTile(d, j)) PROVE FALSE
    OBVIOUS
  <2>1. j \in S /\ j < k
    BY <1>5
  <2>2. QED
    BY <1>4, <1>5, <2>1
<1>8. HasWall(VerticalTile(d, k))
  BY <1>4
<1>9. k \in VerticalHits(d) /\ k <= final
  BY <1>1, <1>5, <1>6, <1>7, <1>8 DEF VerticalHits
<1>10. QED
  BY <1>9 DEF final

\* The loop along the horizontal lines meets a wall, at the outer one at the
\* latest, if the ray reaches the outer wall on this axis first.
LEMMA HorizontalReaches ==
  ASSUME PlayerInv, NEW d \in [x : Int, y : Int], d.y # 0,
         WholeWay(py, d.y, MAP_NUM_ROWS) * Abs(d.x)
           <= WholeWay(px, d.x, MAP_NUM_COLS) * Abs(d.y)
  PROVE  \E k \in HorizontalHits(d) : k <= LastLine(py, d.y, MAP_NUM_ROWS)
<1> DEFINE final == LastLine(py, d.y, MAP_NUM_ROWS)
<1>1. /\ final \in 0 .. MAP_NUM_ROWS /\ d.x \in Int /\ d.y \in Int
      /\ Clear(py, MAP_NUM_ROWS) /\ Clear(px, MAP_NUM_COLS)
  BY GridLines, Sizes DEF PlayerInv
<1>2. ASSUME NEW k \in 0 .. final
      PROVE  /\ InFrame(HorizontalCrossing(d, k))
             /\ k = final => HasWall(HorizontalTile(d, k))
  <2> DEFINE den == Abs(d.y)
             along == GridLine(py, d.y, k) * den
             across == px * den + WayTo(py, d.y, k) * d.x
             back == IF Forward(d.y) THEN 0 ELSE 1
             p == HorizontalCrossing(d, k)
  <2>1. p.y = along /\ p.x = across /\ p.den = den
    BY DEF HorizontalCrossing, WayTo
  <2>2. /\ along \in Int /\ 0 < along /\ along < MAP_NUM_ROWS * TILE_SIZE * den
        /\ across \in Int /\ 0 < across /\ across < MAP_NUM_COLS * TILE_SIZE * den
        /\ across \div (TILE_SIZE * den) \in 1 .. MAP_NUM_COLS - 1
        /\ k = final =>
             (along - back * den) \div (TILE_SIZE * den)
               = IF Forward(d.y) THEN MAP_NUM_ROWS - 1 ELSE 0
    BY <1>1, CrossingsInside, Sizes
  <2>3. den \in Nat
    BY <1>1, Speed
  <2> HIDE DEF den, along, across, p, back
  <2>4. InFrame(p)
    <3>1. /\ MAP_NUM_ROWS * TILE_SIZE * den \in Int
          /\ MAP_NUM_COLS * TILE_SIZE * den \in Int
      BY <2>3, Sizes
    <3>2. QED
      BY <2>1, <2>2, <3>1 DEF InFrame
  <2>5. ASSUME k = final PROVE HasWall(HorizontalTile(d, k))
    <3>1. across - 0 * den = across
      BY <2>2, <2>3
    <3>2. HorizontalTile(d, k)
            = <<across \div (TILE_SIZE * den),
                (along - back * den) \div (TILE_SIZE * den)>>
      BY <2>1, <3>1 DEF HorizontalTile, TileBehind, p, back
    <3> DEFINE s == (along - back * den) \div (TILE_SIZE * den)
               r == across \div (TILE_SIZE * den)
    <3>3. s = 0 \/ s = MAP_NUM_ROWS - 1
      BY <2>2, <2>5
    <3>4. r \in 1 .. MAP_NUM_COLS - 1
      BY <2>2
    <3> HIDE DEF s, r
    <3>5. /\ s \in Rows /\ r \in Columns
          /\ s \notin 1 .. MAP_NUM_ROWS - 2
      BY <3>3, <3>4, Sizes DEF Columns, Rows
    <3>6. tiles[s][r] # -1
      BY <3>5, TileValues
    <3>7. HorizontalTile(d, k) = <<r, s>>
      BY <3>2 DEF s, r
    <3>8. QED
      BY <3>5, <3>6, <3>7 DEF HasWall, ContainsTile
  <2>6. QED
    BY <2>4, <2>5 DEF p
<1> DEFINE S == {k \in Nat : HasWall(HorizontalTile(d, k))}
<1> HIDE DEF final
<1>3. final \in S
  BY <1>1, <1>2
<1>4. PICK k \in S : \A n \in S : k <= n
  BY <1>3, Least
<1>5. k \in 0 .. final /\ k \in 0 .. MAP_NUM_ROWS
  <2>1. k \in Nat /\ k <= final
    BY <1>3, <1>4
  <2> HIDE DEF S
  <2>2. QED
    BY <1>1, <2>1, Sizes
<1>6. \A j \in 0 .. k : InFrame(HorizontalCrossing(d, j))
  BY <1>1, <1>2, <1>5
<1>7. \A j \in 0 .. k - 1 : ~HasWall(HorizontalTile(d, j))
  <2> SUFFICES ASSUME NEW j \in 0 .. k - 1, HasWall(HorizontalTile(d, j)) PROVE FALSE
    OBVIOUS
  <2>1. j \in S /\ j < k
    BY <1>5
  <2>2. QED
    BY <1>4, <1>5, <2>1
<1>8. HasWall(HorizontalTile(d, k))
  BY <1>4
<1>9. k \in HorizontalHits(d) /\ k <= final
  BY <1>1, <1>5, <1>6, <1>7, <1>8 DEF HorizontalHits
<1>10. QED
  BY <1>9 DEF final

\* One of the two loops at least meets a wall.
LEMMA OneLoopReaches ==
  ASSUME PlayerInv, NEW d \in [x : Int, y : Int], d.x # 0 \/ d.y # 0
  PROVE  VerticalHits(d) # {} \/ HorizontalHits(d) # {}
<1> DEFINE wx == WholeWay(px, d.x, MAP_NUM_COLS)
           wy == WholeWay(py, d.y, MAP_NUM_ROWS)
           sx == Abs(d.x)
           sy == Abs(d.y)
<1>1. wx \in Nat /\ wy \in Nat
  BY GridLines, Sizes DEF PlayerInv
<1>2. /\ sx \in Nat /\ (d.x # 0 => sx > 0) /\ (d.x = 0 => sx = 0)
      /\ sy \in Nat /\ (d.y # 0 => sy > 0) /\ (d.y = 0 => sy = 0)
  BY Speed
<1> HIDE DEF wx, wy, sx, sy
<1>3. wx * sy \in Nat /\ wy * sx \in Nat
  BY <1>1, <1>2
<1>4. CASE d.x = 0
  <2>1. wy * sx = 0
    BY <1>1, <1>2, <1>4
  <2>2. wy * sx <= wx * sy
    BY <1>3, <2>1
  <2>3. QED
    BY <1>4, <2>2, HorizontalReaches DEF wx, wy, sx, sy
<1>5. CASE d.y = 0
  <2>1. wx * sy = 0
    BY <1>1, <1>2, <1>5
  <2>2. wx * sy <= wy * sx
    BY <1>3, <2>1
  <2>3. QED
    BY <1>5, <2>2, VerticalReaches DEF wx, wy, sx, sy
<1>6. CASE d.x # 0 /\ d.y # 0 /\ wx * sy <= wy * sx
  BY <1>6, VerticalReaches DEF wx, wy, sx, sy
<1>7. CASE d.x # 0 /\ d.y # 0 /\ wy * sx <= wx * sy
  BY <1>7, HorizontalReaches DEF wx, wy, sx, sy
<1>8. QED
  BY <1>3, <1>4, <1>5, <1>6, <1>7

\* A grid line is a multiple of the size of a tile, and ahead of the ray.
LEMMA LineType ==
  ASSUME NEW c \in Int, NEW d \in Int, NEW k \in Nat
  PROVE  /\ \E n \in Int : GridLine(c, d, k) = TILE_SIZE * n
         /\ GridLine(c, d, k) \in Int /\ WayTo(c, d, k) \in Nat
         /\ d > 0 => WayTo(c, d, k) = GridLine(c, d, k) - c
         /\ d <= 0 => WayTo(c, d, k) = c - GridLine(c, d, k)
<1> DEFINE t == TileOf(c)
           n == IF d > 0 THEN t + 1 + k ELSE t - k
           line == TILE_SIZE * n
<1>1. t \in Int /\ TILE_SIZE * t <= c /\ c < TILE_SIZE * (t + 1)
  <2>1. t \in Int /\ TILE_SIZE * t <= c /\ c < TILE_SIZE * t + TILE_SIZE
    BY Sizes DEF TileOf
  <2>2. TILE_SIZE * (t + 1) = TILE_SIZE * t + TILE_SIZE
    BY <2>1, Sizes
  <2>3. QED
    BY <2>1, <2>2
<1>2. GridLine(c, d, k) = line
  <2>1. CASE d > 0
    BY <1>1, <2>1, Sizes DEF GridLine, Forward, StepOf
  <2>2. CASE ~(d > 0)
    BY <1>1, <2>2, Sizes DEF GridLine, Forward, StepOf
  <2>3. QED
    BY <2>1, <2>2
<1> HIDE DEF t
<1>3. n \in Int /\ (d > 0 => t + 1 <= n) /\ (d <= 0 => n <= t)
  BY <1>1
<1> HIDE DEF n
<1>4. line \in Int
  BY <1>3, Sizes
<1>5. /\ d > 0 => c < line
      /\ d <= 0 => line <= c
  <2>1. d > 0 => TILE_SIZE * (t + 1) <= line
    BY <1>1, <1>3, Sizes, TimesMonotonic
  <2>2. d <= 0 => line <= TILE_SIZE * t
    BY <1>1, <1>3, Sizes, TimesMonotonic
  <2>3. TILE_SIZE * (t + 1) \in Int /\ TILE_SIZE * t \in Int
    BY <1>1, Sizes
  <2> DEFINE next == TILE_SIZE * (t + 1)
             own == TILE_SIZE * t
  <2> HIDE DEF line, next, own
  <2>4. /\ d > 0 => next <= line
        /\ d <= 0 => line <= own
        /\ next \in Int /\ own \in Int /\ own <= c /\ c < next
    BY <1>1, <2>1, <2>2, <2>3 DEF next, own
  <2>5. QED
    BY <1>4, <2>4
<1> HIDE DEF line
<1>6. WayTo(c, d, k) = IF line - c < 0 THEN -(line - c) ELSE line - c
  BY <1>2 DEF WayTo, Abs
<1>7. /\ WayTo(c, d, k) \in Nat
      /\ d > 0 => WayTo(c, d, k) = line - c
      /\ d <= 0 => WayTo(c, d, k) = c - line
  BY <1>4, <1>5, <1>6
<1>8. QED
  BY <1>2, <1>3, <1>4, <1>7 DEF line

\* The tile of a point that is given in parts of a pixel.
LEMMA ScaledTile ==
  ASSUME NEW length \in Nat, 4 <= length, NEW c, Clear(c, length),
         NEW den \in Nat, den > 0, NEW back \in {0, 1}
  PROVE  (c * den - back * den) \div (TILE_SIZE * den) \in 1 .. length - 2
<1> DEFINE m == TILE_SIZE * den
           b == c - back
<1>1. /\ c \in Int /\ TILE_SIZE <= b /\ b + 1 <= TILE_SIZE * (length - 1)
      /\ b \in Int /\ TILE_SIZE * (length - 1) \in Int
  BY Sizes, RadiusIsPositive DEF Clear
<1>2. m \in Nat /\ m > 0 /\ den * TILE_SIZE = m
  BY Sizes
<1>3. c * den - back * den = den * b
  BY <1>1
<1>4. /\ den * TILE_SIZE <= den * b
      /\ den * (b + 1) <= den * (TILE_SIZE * (length - 1))
  <2> HIDE DEF b
  <2>1. b + 1 \in Int /\ TILE_SIZE \in Int
    BY <1>1, Sizes
  <2>2. QED
    BY <1>1, <2>1, TimesMonotonic
<1>5. /\ den * (TILE_SIZE * (length - 1)) = m * ((length - 2) + 1)
      /\ den * (b + 1) = den * b + den /\ den * b \in Int
      /\ m * ((length - 2) + 1) \in Int /\ m * 1 = m
  <2> HIDE DEF b
  <2>1. QED
    BY <1>1, Sizes
<1>6. m * 1 <= den * b /\ den * b < m * ((length - 2) + 1)
  <2> DEFINE at == den * b
             wall == m * ((length - 2) + 1)
  <2>1. at \in Int /\ wall \in Int /\ m <= at /\ at + den <= wall
    BY <1>2, <1>4, <1>5
  <2> HIDE DEF at, wall, m
  <2>2. m <= at /\ at < wall
    BY <2>1
  <2>3. QED
    BY <1>5, <2>2 DEF at, wall, m
<1>7. (den * b) \div m \in 1 .. length - 2
  BY <1>2, <1>5, <1>6, Quotient, length - 2 \in Int
<1>8. QED
  BY <1>3, <1>7

\* A hit of the loop along the vertical lines is the only one, and not where the
\* player is.
LEMMA VerticalHit ==
  ASSUME PlayerInv, NEW d \in [x : Int, y : Int], NEW k \in VerticalHits(d),
         NEW p, p = VerticalCrossing(d, k)
  PROVE  /\ d.x # 0 /\ k \in Nat /\ \A n \in VerticalHits(d) : n = k
         /\ p.x \in Int /\ p.y \in Int
         /\ p.den = Abs(d.x) /\ p.den \in Nat /\ p.den > 0
         /\ p.way = WayTo(px, d.x, k) /\ p.way \in Nat /\ p.way > 0
         /\ p.x % (TILE_SIZE * p.den) = 0
         /\ WallTextureId(VerticalTile(d, k)) \in {1, 2, 4, 9}
<1> DEFINE line == GridLine(px, d.x, k)
           way == WayTo(px, d.x, k)
           den == Abs(d.x)
           m == TILE_SIZE * den
           back == IF Forward(d.x) THEN 0 ELSE 1
<1>1. /\ k \in 0 .. MAP_NUM_COLS /\ d.x # 0
      /\ HasWall(VerticalTile(d, k))
      /\ \A j \in 0 .. k - 1 : ~HasWall(VerticalTile(d, j))
  BY DEF VerticalHits
<1>2. /\ d.x \in Int /\ d.y \in Int /\ px \in Int /\ py \in Int /\ k \in Nat
      /\ Clear(px, MAP_NUM_COLS) /\ Clear(py, MAP_NUM_ROWS)
  BY <1>1, Sizes DEF PlayerInv, Clear
<1>3. /\ p.x = line * den /\ p.y = py * den + way * d.y
      /\ p.den = den /\ p.way = way
  BY DEF VerticalCrossing, WayTo
<1>4. /\ line \in Int /\ way \in Nat /\ (way = 0 => line = px)
      /\ \E n \in Int : line = TILE_SIZE * n
  <2>1. /\ \E n \in Int : line = TILE_SIZE * n
        /\ line \in Int /\ way \in Nat
        /\ d.x > 0 => way = line - px
        /\ d.x <= 0 => way = px - line
    BY <1>2, LineType
  <2> HIDE DEF line, way
  <2>2. QED
    BY <1>2, <2>1
<1>5. den \in Nat /\ den > 0 /\ m \in Nat /\ m > 0
  <2>1. den \in Nat /\ den > 0
    BY <1>1, <1>2, Speed
  <2> HIDE DEF den
  <2>2. QED
    BY <2>1, Sizes
<1>6. line * den \in Int /\ py * den + way * d.y \in Int
  <2> HIDE DEF line, den, way
  <2>1. way \in Int
    BY <1>4
  <2>2. QED
    BY <1>2, <1>4, <1>5, <2>1
<1>7. (line * den) % m = 0
  <2>1. PICK n \in Int : line = TILE_SIZE * n
    BY <1>4
  <2> HIDE DEF line, den
  <2>2. line * den = m * n
    BY <1>5, <2>1, Sizes
  <2> HIDE DEF m
  <2>3. QED
    BY <1>5, <2>2, MultipleModulo
<1>8. \A n \in VerticalHits(d) : n = k
  <2> SUFFICES ASSUME NEW n \in VerticalHits(d) PROVE n = k
    OBVIOUS
  <2>1. /\ n \in 0 .. MAP_NUM_COLS
        /\ HasWall(VerticalTile(d, n))
        /\ \A j \in 0 .. n - 1 : ~HasWall(VerticalTile(d, j))
    BY DEF VerticalHits
  <2>2. ~(n < k)
    <3> SUFFICES ASSUME n < k PROVE FALSE
      OBVIOUS
    <3>1. n \in 0 .. k - 1
      BY <1>1, <2>1, Sizes
    <3>2. QED
      BY <1>1, <2>1, <3>1
  <2>3. ~(k < n)
    <3> SUFFICES ASSUME k < n PROVE FALSE
      OBVIOUS
    <3>1. k \in 0 .. n - 1
      BY <1>1, <2>1, Sizes
    <3>2. QED
      BY <1>1, <2>1, <3>1
  <2>4. n \in Int /\ k \in Int
    BY <1>1, <2>1
  <2>5. QED
    BY <2>2, <2>3, <2>4
<1>9. way # 0
  <2> SUFFICES ASSUME way = 0 PROVE FALSE
    OBVIOUS
  <2>1. /\ p.x = px * den /\ p.y = py * den - 0 * den /\ p.den = den
    <3>1. way * d.y = 0
      BY <1>2
    <3>2. line = px
      BY <1>4
    <3> HIDE DEF line, way, den
    <3>3. py * den + way * d.y = py * den - 0 * den
      BY <1>2, <1>5, <3>1
    <3>4. QED
      BY <1>3, <3>2, <3>3
  <2>2. py * den - 0 * den - 0 * den = py * den - 0 * den
    <3> HIDE DEF den
    <3>1. QED
      BY <1>2, <1>5
  <2> DEFINE s == (px * den - back * den) \div m
             r == (py * den - 0 * den) \div m
  <2>3. s \in 1 .. MAP_NUM_COLS - 2 /\ r \in 1 .. MAP_NUM_ROWS - 2
    <3>1. back \in {0, 1} /\ 0 \in {0, 1}
      OBVIOUS
    <3> HIDE DEF back, den
    <3>2. QED
      BY <1>2, <1>5, <3>1, ScaledTile, Sizes
  <2>4. VerticalTile(d, k) = <<s, r>>
    BY <2>1, <2>2 DEF VerticalTile, TileBehind
  <2> HIDE DEF s, r
  <2>5. s \in Columns /\ r \in Rows
    BY <2>3, Sizes DEF Columns, Rows
  <2>6. tiles[r][s] = -1
    BY <2>3, <2>5, TileValues
  <2>7. QED
    BY <1>1, <2>4, <2>6 DEF HasWall
<1>10. WallTextureId(VerticalTile(d, k)) \in {1, 2, 4, 9}
  BY <1>1, TileValues DEF HasWall, ContainsTile, WallTextureId
<1> HIDE DEF line, den, way, m
<1>11. /\ p.x \in Int /\ p.y \in Int
       /\ p.den \in Nat /\ p.den > 0 /\ p.way \in Nat /\ p.way > 0
  BY <1>3, <1>4, <1>5, <1>6, <1>9
<1>12. p.x % (TILE_SIZE * p.den) = 0
  BY <1>3, <1>7 DEF m
<1>13. QED
  BY <1>1, <1>2, <1>3, <1>8, <1>10, <1>11, <1>12 DEF den, way

\* A hit of the loop along the horizontal lines is the only one, and not where the
\* player is.
LEMMA HorizontalHit ==
  ASSUME PlayerInv, NEW d \in [x : Int, y : Int], NEW k \in HorizontalHits(d),
         NEW p, p = HorizontalCrossing(d, k)
  PROVE  /\ d.y # 0 /\ k \in Nat /\ \A n \in HorizontalHits(d) : n = k
         /\ p.x \in Int /\ p.y \in Int
         /\ p.den = Abs(d.y) /\ p.den \in Nat /\ p.den > 0
         /\ p.way = WayTo(py, d.y, k) /\ p.way \in Nat /\ p.way > 0
         /\ p.y % (TILE_SIZE * p.den) = 0
         /\ WallTextureId(HorizontalTile(d, k)) \in {1, 2, 4, 9}
<1> DEFINE line == GridLine(py, d.y, k)
           way == WayTo(py, d.y, k)
           den == Abs(d.y)
           m == TILE_SIZE * den
           back == IF Forward(d.y) THEN 0 ELSE 1
<1>1. /\ k \in 0 .. MAP_NUM_ROWS /\ d.y # 0
      /\ HasWall(HorizontalTile(d, k))
      /\ \A j \in 0 .. k - 1 : ~HasWall(HorizontalTile(d, j))
  BY DEF HorizontalHits
<1>2. /\ d.x \in Int /\ d.y \in Int /\ px \in Int /\ py \in Int /\ k \in Nat
      /\ Clear(py, MAP_NUM_ROWS) /\ Clear(px, MAP_NUM_COLS)
  BY <1>1, Sizes DEF PlayerInv, Clear
<1>3. /\ p.y = line * den /\ p.x = px * den + way * d.x
      /\ p.den = den /\ p.way = way
  BY DEF HorizontalCrossing, WayTo
<1>4. /\ line \in Int /\ way \in Nat /\ (way = 0 => line = py)
      /\ \E n \in Int : line = TILE_SIZE * n
  <2>1. /\ \E n \in Int : line = TILE_SIZE * n
        /\ line \in Int /\ way \in Nat
        /\ d.y > 0 => way = line - py
        /\ d.y <= 0 => way = py - line
    BY <1>2, LineType
  <2> HIDE DEF line, way
  <2>2. QED
    BY <1>2, <2>1
<1>5. den \in Nat /\ den > 0 /\ m \in Nat /\ m > 0
  <2>1. den \in Nat /\ den > 0
    BY <1>1, <1>2, Speed
  <2> HIDE DEF den
  <2>2. QED
    BY <2>1, Sizes
<1>6. line * den \in Int /\ px * den + way * d.x \in Int
  <2> HIDE DEF line, den, way
  <2>1. way \in Int
    BY <1>4
  <2>2. QED
    BY <1>2, <1>4, <1>5, <2>1
<1>7. (line * den) % m = 0
  <2>1. PICK n \in Int : line = TILE_SIZE * n
    BY <1>4
  <2> HIDE DEF line, den
  <2>2. line * den = m * n
    BY <1>5, <2>1, Sizes
  <2> HIDE DEF m
  <2>3. QED
    BY <1>5, <2>2, MultipleModulo
<1>8. \A n \in HorizontalHits(d) : n = k
  <2> SUFFICES ASSUME NEW n \in HorizontalHits(d) PROVE n = k
    OBVIOUS
  <2>1. /\ n \in 0 .. MAP_NUM_ROWS
        /\ HasWall(HorizontalTile(d, n))
        /\ \A j \in 0 .. n - 1 : ~HasWall(HorizontalTile(d, j))
    BY DEF HorizontalHits
  <2>2. ~(n < k)
    <3> SUFFICES ASSUME n < k PROVE FALSE
      OBVIOUS
    <3>1. n \in 0 .. k - 1
      BY <1>1, <2>1, Sizes
    <3>2. QED
      BY <1>1, <2>1, <3>1
  <2>3. ~(k < n)
    <3> SUFFICES ASSUME k < n PROVE FALSE
      OBVIOUS
    <3>1. k \in 0 .. n - 1
      BY <1>1, <2>1, Sizes
    <3>2. QED
      BY <1>1, <2>1, <3>1
  <2>4. n \in Int /\ k \in Int
    BY <1>1, <2>1
  <2>5. QED
    BY <2>2, <2>3, <2>4
<1>9. way # 0
  <2> SUFFICES ASSUME way = 0 PROVE FALSE
    OBVIOUS
  <2>1. /\ p.y = py * den /\ p.x = px * den - 0 * den /\ p.den = den
    <3>1. way * d.x = 0
      BY <1>2
    <3>2. line = py
      BY <1>4
    <3> HIDE DEF line, way, den
    <3>3. px * den + way * d.x = px * den - 0 * den
      BY <1>2, <1>5, <3>1
    <3>4. QED
      BY <1>3, <3>2, <3>3
  <2>2. px * den - 0 * den - 0 * den = px * den - 0 * den
    <3> HIDE DEF den
    <3>1. QED
      BY <1>2, <1>5
  <2> DEFINE s == (py * den - back * den) \div m
             r == (px * den - 0 * den) \div m
  <2>3. s \in 1 .. MAP_NUM_ROWS - 2 /\ r \in 1 .. MAP_NUM_COLS - 2
    <3>1. back \in {0, 1} /\ 0 \in {0, 1}
      OBVIOUS
    <3> HIDE DEF back, den
    <3>2. QED
      BY <1>2, <1>5, <3>1, ScaledTile, Sizes
  <2>4. HorizontalTile(d, k) = <<r, s>>
    BY <2>1, <2>2 DEF HorizontalTile, TileBehind
  <2> HIDE DEF s, r
  <2>5. s \in Rows /\ r \in Columns
    BY <2>3, Sizes DEF Columns, Rows
  <2>6. tiles[s][r] = -1
    BY <2>3, <2>5, TileValues
  <2>7. QED
    BY <1>1, <2>4, <2>6 DEF HasWall
<1>10. WallTextureId(HorizontalTile(d, k)) \in {1, 2, 4, 9}
  BY <1>1, TileValues DEF HasWall, ContainsTile, WallTextureId
<1> HIDE DEF line, den, way, m
<1>11. /\ p.x \in Int /\ p.y \in Int
       /\ p.den \in Nat /\ p.den > 0 /\ p.way \in Nat /\ p.way > 0
  BY <1>3, <1>4, <1>5, <1>6, <1>9
<1>12. p.y % (TILE_SIZE * p.den) = 0
  BY <1>3, <1>7 DEF m
<1>13. QED
  BY <1>1, <1>2, <1>3, <1>8, <1>10, <1>11, <1>12 DEF den, way

\* Neither of two hits is nearer.
Tie(p, q) == p.way * q.den = q.way * p.den

\* A horizontal line that a ray crosses, for a player in the world.
LEMMA RowLineType ==
  ASSUME PlayerInv, NEW d \in [x : Int, y : Int], NEW k \in Nat
  PROVE  /\ \E m \in Int : GridLine(py, d.y, k) = TILE_SIZE * m
         /\ d.y > 0 => WayTo(py, d.y, k) = GridLine(py, d.y, k) - py
         /\ d.y <= 0 => WayTo(py, d.y, k) = py - GridLine(py, d.y, k)
<1>1. d.y \in Int /\ py \in Int
  BY DEF PlayerInv, Clear
<1>2. QED
  BY <1>1, LineType

\* Two hits that are equally near are at one point, a corner of the grid.
LEMMA EquallyNear ==
  ASSUME PlayerInv, NEW d \in [x : Int, y : Int],
         NEW k \in HorizontalHits(d), NEW p, p = HorizontalCrossing(d, k),
         NEW n \in VerticalHits(d), NEW q, q = VerticalCrossing(d, n),
         Tie(p, q)
  PROVE  q.y % (TILE_SIZE * q.den) = 0
<1> DEFINE line == GridLine(py, d.y, k)
           along == WayTo(py, d.y, k)
           sx == Abs(d.x)
           sy == Abs(d.y)
           way == q.way
<1>1. /\ d.y # 0 /\ k \in Nat /\ p.den = sy /\ p.way = along
      /\ sy \in Nat /\ along \in Nat
  BY HorizontalHit
<1>2. /\ q.den = sx /\ q.den > 0 /\ way = WayTo(px, d.x, n) /\ sx \in Nat /\ way \in Nat
  BY VerticalHit
<1>3. q.y = py * sx + way * d.y
  BY <1>2 DEF VerticalCrossing, WayTo
<1>4. d.y \in Int /\ py \in Int
  BY DEF PlayerInv, Clear
<1>5. PICK m \in Int : line = TILE_SIZE * m
  BY <1>1, RowLineType, Zenon
<1>6. /\ d.y > 0 => sy = d.y /\ along = line - py
      /\ d.y <= 0 => sy = -d.y /\ along = py - line
  <2>1. /\ d.y > 0 => along = line - py
        /\ d.y <= 0 => along = py - line
    <3>1. /\ d.y > 0 => WayTo(py, d.y, k) = GridLine(py, d.y, k) - py
          /\ d.y <= 0 => WayTo(py, d.y, k) = py - GridLine(py, d.y, k)
      BY <1>1, RowLineType, Zenon
    <3>2. QED
      BY <3>1
  <2>2. /\ d.y > 0 => sy = d.y
        /\ d.y <= 0 => sy = -d.y
    BY <1>4, Speed
  <2> HIDE DEF line, along, sx, sy
  <2>3. QED
    BY <2>1, <2>2
<1>7. line \in Int
  BY <1>5, Sizes
<1>8. along * sx = way * sy
  BY <1>1, <1>2 DEF Tie
<1> HIDE DEF line, along, sx, sy, way
<1>9. py * sx + way * d.y = line * sx
  <2>1. CASE d.y > 0
    <3>1. way * d.y = (line - py) * sx
      BY <1>6, <1>8, <2>1
    <3>2. (line - py) * sx = line * sx - py * sx /\ line * sx \in Int /\ py * sx \in Int
      BY <1>2, <1>4, <1>7
    <3>3. QED
      BY <3>1, <3>2
  <2>2. CASE d.y <= 0
    <3>1. way * (-d.y) = (py - line) * sx
      BY <1>6, <1>8, <2>2
    <3>2. /\ (py - line) * sx = py * sx - line * sx
          /\ line * sx \in Int /\ py * sx \in Int /\ way * d.y \in Int
          /\ way * (-d.y) = -(way * d.y)
      BY <1>2, <1>4, <1>7
    <3>3. QED
      BY <3>1, <3>2
  <2>3. QED
    BY <1>4, <2>1, <2>2
<1>10. line * sx = (TILE_SIZE * sx) * m
  BY <1>2, <1>5, Sizes
<1>11. TILE_SIZE * sx \in Nat /\ TILE_SIZE * sx > 0
  BY <1>2, Sizes
<1>12. ((TILE_SIZE * sx) * m) % (TILE_SIZE * sx) = 0
  BY <1>5, <1>11, MultipleModulo
<1>13. QED
  BY <1>2, <1>3, <1>9, <1>10, <1>12

\* What cast_single_ray returns, as CastSingleRay has it, for a ray along d.
HorizontalEnds(d) == {HorizontalCrossing(d, k) : k \in HorizontalHits(d)}
VerticalEnds(d)   == {VerticalCrossing(d, k) : k \in VerticalHits(d)}

\* The wall of either loop, if it has found one.
LEMMA HorizontalEnd ==
  ASSUME PlayerInv, NEW d \in [x : Int, y : Int], HorizontalHits(d) # {}
  PROVE  \E p : /\ HorizontalEnds(d) = {p}
                /\ p.way \in Nat /\ p.way > 0 /\ p.den \in Nat /\ p.den > 0
                /\ p.x \in Int /\ p.y \in Int /\ p.y % (TILE_SIZE * p.den) = 0
                /\ \E k \in HorizontalHits(d) : p = HorizontalCrossing(d, k)
                /\ \E id \in {1, 2, 4, 9} :
                     {WallTextureId(HorizontalTile(d, k)) : k \in HorizontalHits(d)} = {id}
<1>1. PICK k : k \in HorizontalHits(d)
  OBVIOUS
<1> DEFINE p == HorizontalCrossing(d, k)
<1>2. /\ \A n \in HorizontalHits(d) : n = k
      /\ p.way \in Nat /\ p.way > 0 /\ p.den \in Nat /\ p.den > 0
      /\ p.x \in Int /\ p.y \in Int /\ p.y % (TILE_SIZE * p.den) = 0
      /\ WallTextureId(HorizontalTile(d, k)) \in {1, 2, 4, 9}
  BY <1>1, HorizontalHit
<1> HIDE DEF p
<1>3. HorizontalHits(d) = {k}
  BY <1>1, <1>2
<1>4. HorizontalEnds(d) = {p}
  BY <1>3 DEF HorizontalEnds, p
<1>5. {WallTextureId(HorizontalTile(d, n)) : n \in HorizontalHits(d)}
        = {WallTextureId(HorizontalTile(d, k))}
  BY <1>3
<1>6. QED
  BY <1>1, <1>2, <1>4, <1>5 DEF p

LEMMA VerticalEnd ==
  ASSUME PlayerInv, NEW d \in [x : Int, y : Int], VerticalHits(d) # {}
  PROVE  \E p : /\ VerticalEnds(d) = {p}
                /\ p.way \in Nat /\ p.way > 0 /\ p.den \in Nat /\ p.den > 0
                /\ p.x \in Int /\ p.y \in Int /\ p.x % (TILE_SIZE * p.den) = 0
                /\ \E k \in VerticalHits(d) : p = VerticalCrossing(d, k)
                /\ \E id \in {1, 2, 4, 9} :
                     {WallTextureId(VerticalTile(d, k)) : k \in VerticalHits(d)} = {id}
<1>1. PICK k : k \in VerticalHits(d)
  OBVIOUS
<1> DEFINE p == VerticalCrossing(d, k)
<1>2. /\ \A n \in VerticalHits(d) : n = k
      /\ p.way \in Nat /\ p.way > 0 /\ p.den \in Nat /\ p.den > 0
      /\ p.x \in Int /\ p.y \in Int /\ p.x % (TILE_SIZE * p.den) = 0
      /\ WallTextureId(VerticalTile(d, k)) \in {1, 2, 4, 9}
  BY <1>1, VerticalHit
<1> HIDE DEF p
<1>3. VerticalHits(d) = {k}
  BY <1>1, <1>2
<1>4. VerticalEnds(d) = {p}
  BY <1>3 DEF VerticalEnds, p
<1>5. {WallTextureId(VerticalTile(d, n)) : n \in VerticalHits(d)}
        = {WallTextureId(VerticalTile(d, k))}
  BY <1>3
<1>6. QED
  BY <1>1, <1>2, <1>4, <1>5 DEF p

\* What draw_walls and draw_entities need of the ray cast_single_ray returns.
Drawable(r) ==
  /\ Cardinality(r.ends) = 1 /\ \A p \in r.ends : p.way > 0
  /\ r.texture_id # {} /\ r.texture_id \subseteq 0 .. NUM_TEXTURES - 1
  /\ \A p \in r.ends, s \in r.texture_strip_index :
       /\ s \in 0 .. TILE_SIZE
       /\ s = TILE_SIZE => /\ p.x % (TILE_SIZE * p.den) = 0
                           /\ p.y % (TILE_SIZE * p.den) = 0

\* One loop's hit alone, with the strip across it, is drawable.
LEMMA OneEnd ==
  ASSUME NEW r, NEW p, r.ends = {p}, p.way \in Nat, p.way > 0,
         NEW id \in {1, 2, 4, 9}, r.texture_id = {id},
         \A s \in r.texture_strip_index :
           /\ s \in 0 .. TILE_SIZE
           /\ s = TILE_SIZE => /\ p.x % (TILE_SIZE * p.den) = 0
                               /\ p.y % (TILE_SIZE * p.den) = 0
  PROVE  Drawable(r)
<1>1. Cardinality(r.ends) = 1
  BY FS_Singleton
<1>2. id \in 0 .. NUM_TEXTURES - 1
  BY RaysAssumption
<1>3. QED
  BY <1>1, <1>2 DEF Drawable

\* Whichever of the two hits is nearer.
LEMMA CastIsDrawable ==
  ASSUME PlayerInv, dir \in Directions, CastSingleRay
  PROVE  hit' # NoRay => Drawable(hit')
<1> DEFINE h == HorizontalEnds(dir)
           v == VerticalEnds(dir)
           hids == {WallTextureId(HorizontalTile(dir, k)) : k \in HorizontalHits(dir)}
           vids == {WallTextureId(VerticalTile(dir, k)) : k \in VerticalHits(dir)}
           vertical == v # {} /\ \A p \in h, q \in v : Nearer(q, p)
           ends == IF h # {} /\ \A p \in h, q \in v : Nearer(p, q) THEN h ELSE v
           ids  == IF vertical THEN vids ELSE hids
           strips == IF vertical
                       THEN {Strip(p.y, p.den, ~Forward(dir.x)) : p \in v}
                       ELSE {Strip(p.x, p.den, Forward(dir.y)) : p \in h}
<1>1. hit' = [ends |-> ends, vertical |-> vertical,
              texture_id |-> ids, texture_strip_index |-> strips]
  BY DEF CastSingleRay, HorizontalEnds, VerticalEnds
<1>2. dir \in [x : Int, y : Int] /\ (dir.x # 0 \/ dir.y # 0)
  <2>1. dir \in [x : Int, y : Int] /\ dir # [x |-> 0, y |-> 0]
    BY RaysAssumption
  <2>2. QED
    BY <2>1
<1>3. VerticalHits(dir) # {} \/ HorizontalHits(dir) # {}
  BY <1>2, OneLoopReaches
<1>4. /\ HorizontalHits(dir) = {} => h = {}
      /\ VerticalHits(dir) = {} => v = {}
  BY DEF HorizontalEnds, VerticalEnds
<1>5. ASSUME HorizontalHits(dir) # {}
      PROVE  \E p : /\ h = {p}
                    /\ p.way \in Nat /\ p.way > 0 /\ p.den \in Nat /\ p.den > 0
                    /\ p.x \in Int /\ p.y \in Int /\ p.y % (TILE_SIZE * p.den) = 0
                    /\ \E k \in HorizontalHits(dir) : p = HorizontalCrossing(dir, k)
                    /\ \E id \in {1, 2, 4, 9} : hids = {id}
  BY <1>2, <1>5, HorizontalEnd
<1>6. ASSUME VerticalHits(dir) # {}
      PROVE  \E p : /\ v = {p}
                    /\ p.way \in Nat /\ p.way > 0 /\ p.den \in Nat /\ p.den > 0
                    /\ p.x \in Int /\ p.y \in Int /\ p.x % (TILE_SIZE * p.den) = 0
                    /\ \E k \in VerticalHits(dir) : p = VerticalCrossing(dir, k)
                    /\ \E id \in {1, 2, 4, 9} : vids = {id}
  BY <1>2, <1>6, VerticalEnd
<1>7. Forward(dir.x) \in BOOLEAN /\ Forward(dir.y) \in BOOLEAN
      /\ (~Forward(dir.x)) \in BOOLEAN
  BY DEF Forward
<1> HIDE DEF h, v, hids, vids
<1>8. CASE VerticalHits(dir) # {} /\ vertical
  <2>1. PICK q : /\ v = {q}
                 /\ q.way \in Nat /\ q.way > 0 /\ q.den \in Nat /\ q.den > 0
                 /\ q.x \in Int /\ q.y \in Int /\ q.x % (TILE_SIZE * q.den) = 0
                 /\ \E id \in {1, 2, 4, 9} : vids = {id}
    BY <1>6, <1>8
  <2>2. PICK id \in {1, 2, 4, 9} : vids = {id}
    BY <2>1
  <2>3. ends = {q}
    <3>1. ASSUME NEW p \in h, Nearer(p, q) PROVE FALSE
      <4>1. Nearer(q, p)
        BY <1>8, <2>1, <3>1
      <4>2. HorizontalHits(dir) # {}
        BY <1>4, <3>1
      <4>3. p.way \in Nat /\ p.den \in Nat
        BY <1>5, <3>1, <4>2
      <4>4. p.way * q.den \in Int /\ q.way * p.den \in Int
        BY <2>1, <4>3
      <4>5. QED
        BY <3>1, <4>1, <4>4 DEF Nearer
    <3>2. ~(h # {} /\ \A p \in h, r \in v : Nearer(p, r))
      BY <2>1, <3>1
    <3>3. QED
      BY <2>1, <3>2
  <2>4. ids = {id} /\ strips = {Strip(p.y, p.den, ~Forward(dir.x)) : p \in v}
    BY <1>8, <2>2
  <2>5. \A s \in strips :
          /\ s \in 0 .. TILE_SIZE
          /\ s = TILE_SIZE => q.y % (TILE_SIZE * q.den) = 0
    <3> DEFINE mirrored == ~Forward(dir.x)
    <3>1. mirrored \in BOOLEAN /\ strips = {Strip(q.y, q.den, mirrored)}
      BY <1>7, <2>1, <2>4
    <3> HIDE DEF mirrored, strips
    <3>2. /\ Strip(q.y, q.den, mirrored) \in 0 .. TILE_SIZE
          /\ Strip(q.y, q.den, mirrored) = TILE_SIZE
               => q.y % (TILE_SIZE * q.den) = 0
      BY <2>1, <3>1, StripRange
    <3>3. QED
      BY <3>1, <3>2
  <2>6. /\ hit'.ends = {q} /\ hit'.texture_id = {id}
        /\ hit'.texture_strip_index = strips
    BY <1>1, <2>3, <2>4
  <2> HIDE DEF strips
  <2>7. QED
    BY <2>1, <2>2, <2>5, <2>6, OneEnd
<1>9. CASE ~vertical
  <2>1. HorizontalHits(dir) # {}
    <3> SUFFICES ASSUME HorizontalHits(dir) = {} PROVE FALSE
      OBVIOUS
    <3>1. h = {} /\ v # {}
      BY <1>3, <1>4, <1>6
    <3>2. QED
      BY <1>9, <3>1
  <2>2. PICK p : /\ h = {p}
                 /\ p.way \in Nat /\ p.way > 0 /\ p.den \in Nat /\ p.den > 0
                 /\ p.x \in Int /\ p.y \in Int /\ p.y % (TILE_SIZE * p.den) = 0
                 /\ \E k \in HorizontalHits(dir) : p = HorizontalCrossing(dir, k)
                 /\ \E id \in {1, 2, 4, 9} : hids = {id}
    BY <1>5, <2>1
  <2>3. PICK id \in {1, 2, 4, 9} : hids = {id}
    BY <2>2
  <2>4. ids = {id} /\ strips = {Strip(r.x, r.den, Forward(dir.y)) : r \in h}
    BY <1>9, <2>3
  <2>5. \A s \in strips :
          /\ s \in 0 .. TILE_SIZE
          /\ s = TILE_SIZE => p.x % (TILE_SIZE * p.den) = 0
    <3> DEFINE mirrored == Forward(dir.y)
    <3>1. mirrored \in BOOLEAN /\ strips = {Strip(p.x, p.den, mirrored)}
      BY <1>7, <2>2, <2>4
    <3> HIDE DEF mirrored, strips
    <3>2. /\ Strip(p.x, p.den, mirrored) \in 0 .. TILE_SIZE
          /\ Strip(p.x, p.den, mirrored) = TILE_SIZE
               => p.x % (TILE_SIZE * p.den) = 0
      BY <2>2, <3>1, StripRange
    <3>3. QED
      BY <3>1, <3>2
  <2>6. /\ hit'.ends = ends /\ hit'.texture_id = {id}
        /\ hit'.texture_strip_index = strips
    BY <1>1, <2>4
  <2>7. CASE ends = h
    <3> HIDE DEF strips, ends
    <3>1. QED
      BY <2>2, <2>3, <2>5, <2>6, <2>7, OneEnd
  <2>8. CASE ends # h
    <3>1. ends = v /\ v # {} /\ VerticalHits(dir) # {}
      BY <1>4, <2>2, <2>8
    <3>2. PICK q : /\ v = {q}
                   /\ q.way \in Nat /\ q.way > 0 /\ q.den \in Nat /\ q.den > 0
                   /\ q.x \in Int /\ q.y \in Int /\ q.x % (TILE_SIZE * q.den) = 0
                   /\ \E k \in VerticalHits(dir) : q = VerticalCrossing(dir, k)
      BY <1>6, <3>1
    <3>3. ~Nearer(p, q) /\ ~Nearer(q, p)
      BY <1>9, <2>2, <2>8, <3>2
    <3>4. p.way * q.den = q.way * p.den
      <4>1. p.way * q.den \in Int /\ q.way * p.den \in Int
        BY <2>2, <3>2
      <4>2. QED
        BY <3>3, <4>1 DEF Nearer
    <3>5. q.y % (TILE_SIZE * q.den) = 0
      BY <1>2, <2>2, <3>2, <3>4, EquallyNear DEF Tie
    <3>6. \A s \in strips : s \in 0 .. TILE_SIZE
      BY <2>5
    <3>7. hit'.ends = {q}
      BY <2>6, <3>1, <3>2
    <3> HIDE DEF strips, ends
    <3>8. QED
      BY <2>3, <2>6, <3>2, <3>5, <3>6, <3>7, OneEnd
  <2>9. QED
    BY <2>7, <2>8
<1>10. CASE vertical
  <2>1. VerticalHits(dir) # {}
    BY <1>4, <1>10
  <2>2. QED
    BY <1>8, <1>10, <2>1
<1>11. QED
  BY <1>9, <1>10

\* What is known of the ray that has been cast.
HitInv ==
  /\ dir \in Directions \cup {NoRay}
  /\ hit # NoRay => Drawable(hit)

\* In every frame, and whichever way the rays point, draw_walls is given a wall
\* that is not where the player is, with a texture and a column of it.
THEOREM RaysAreDrawable == RaySpec => []HitIsDrawable
<1>1. RayInit => HitInv
  BY DEF RayInit, HitInv
<1>2. PlayerInv /\ HitInv /\ [RayNext]_rayVars => HitInv'
  <2> SUFFICES ASSUME PlayerInv, HitInv, [RayNext]_rayVars PROVE HitInv'
    OBVIOUS
  <2>1. ASSUME UNCHANGED dir, hit' = NoRay \/ UNCHANGED hit PROVE HitInv'
    BY <2>1 DEF HitInv, Drawable
  <2>2. CASE WalkBegins
    <3>1. dir' \in Directions /\ hit' = hit
      BY <2>2 DEF WalkBegins
    <3>2. QED
      BY <3>1 DEF HitInv, Drawable
  <2>3. CASE CastSingleRay
    <3>1. dir \in Directions /\ dir' = NoRay
      BY <2>3 DEF HitInv, CastSingleRay
    <3>2. QED
      BY <2>3, <3>1, CastIsDrawable DEF HitInv
  <2>4. CASE WalkSteps
    BY <2>1, <2>4, Zenon DEF WalkSteps
  <2>5. CASE PlayerMovement /\ UNCHANGED <<dir, ahead, last, hit>>
    BY <2>1, <2>5
  <2>6. CASE hit' = NoRay /\ UNCHANGED <<dir, ahead>>
    BY <2>1, <2>6
  <2>7. CASE UNCHANGED <<dir, ahead, last, hit>>
    BY <2>1, <2>7
  <2>8. CASE UNCHANGED rayVars
    BY <2>1, <2>8 DEF rayVars
  <2>9. QED
    BY <2>2, <2>3, <2>4, <2>5, <2>6, <2>7, <2>8, Zenon DEF RayNext
<1>3. HitInv => HitIsDrawable
  BY DEF HitInv, Drawable, HitIsDrawable
<1>4. SightInv => PlayerInv
  BY DEF SightInv
<1>5. QED
  BY <1>1, <1>2, <1>3, <1>4, RaysImplementSight, SightInvariant, PTL DEF RaySpec

-----------------------------------------------------------------------------
\* The walk of a ray and the wall it hits.

\* The tile a ray along d from c is in, on one axis, when it has crossed k lines.
TileAfter(c, d, k) == TileOf(c) + k * StepOf(d)

\* It is in that tile, or at its border, when it has gone way / den.
Passes(c, d, k, way, den) ==
  /\ d = 0 => k = 0
  /\ k > 0 => WayTo(c, d, k - 1) * den <= way * Abs(d)
  /\ d # 0 => way * Abs(d) <= WayTo(c, d, k) * den

\* A positive factor can be dropped.
LEMMA Cancel ==
  ASSUME NEW n \in Nat, n > 0, NEW a \in Int, NEW b \in Int
  PROVE  /\ n * a <= n * b => a <= b
         /\ n * a < n * b => a < b
         /\ a < b => n * a < n * b
<1>1. n * a \in Int /\ n * b \in Int
  OBVIOUS
<1>2. a < b => n * a < n * b
  <2>1. ASSUME a < b PROVE n * a < n * b
    <3>1. n * (a + 1) <= n * b
      BY <2>1, TimesMonotonic
    <3>2. n * (a + 1) = n * a + n
      OBVIOUS
    <3>3. QED
      BY <1>1, <3>1, <3>2
  <2>2. QED
    BY <2>1
<1>3. b <= a => n * b <= n * a
  BY TimesMonotonic
<1>4. b < a => n * b < n * a
  <2>1. ASSUME b < a PROVE n * b < n * a
    <3>1. n * (b + 1) <= n * a
      BY <2>1, TimesMonotonic
    <3>2. n * (b + 1) = n * b + n
      OBVIOUS
    <3>3. QED
      BY <1>1, <3>1, <3>2
  <2>2. QED
    BY <2>1
<1>5. QED
  BY <1>1, <1>2, <1>3, <1>4

\* The tiles between the lines.
LEMMA LineNumber ==
  ASSUME NEW c \in Int, NEW d \in Int, NEW k \in Nat
  PROVE  /\ TileOf(c) \in Int /\ TileAfter(c, d, k) \in Int
         /\ TILE_SIZE * TileOf(c) <= c /\ c < TILE_SIZE * (TileOf(c) + 1)
         /\ d > 0 => /\ TileAfter(c, d, k) = TileOf(c) + k
                     /\ GridLine(c, d, k) = TILE_SIZE * (TileAfter(c, d, k) + 1)
         /\ d <= 0 => /\ TileAfter(c, d, k) = TileOf(c) - k
                      /\ GridLine(c, d, k) = TILE_SIZE * TileAfter(c, d, k)
<1> DEFINE t == TileOf(c)
<1>1. t \in Int /\ TILE_SIZE * t <= c /\ c < TILE_SIZE * (t + 1)
  <2>1. t \in Int /\ TILE_SIZE * t <= c /\ c < TILE_SIZE * t + TILE_SIZE
    BY Sizes DEF TileOf
  <2>2. TILE_SIZE * (t + 1) = TILE_SIZE * t + TILE_SIZE
    BY <2>1, Sizes
  <2>3. QED
    BY <2>1, <2>2
<1>2. ASSUME d > 0
      PROVE  /\ TileAfter(c, d, k) = t + k
             /\ GridLine(c, d, k) = TILE_SIZE * ((t + k) + 1)
  BY <1>1, <1>2, Sizes DEF TileAfter, GridLine, Forward, StepOf
<1>3. ASSUME d <= 0
      PROVE  /\ TileAfter(c, d, k) = t - k
             /\ GridLine(c, d, k) = TILE_SIZE * (t - k)
  BY <1>1, <1>3, Sizes DEF TileAfter, GridLine, Forward, StepOf
<1> HIDE DEF t
<1>4. t + k \in Int /\ t - k \in Int
  BY <1>1
<1>5. QED
  BY <1>1, <1>2, <1>3, <1>4 DEF t

\* Lines are a tile apart.
LEMMA WayStep ==
  ASSUME NEW c \in Int, NEW d \in Int, NEW k \in Nat
  PROVE  /\ WayTo(c, d, k) \in Nat
         /\ WayTo(c, d, k + 1) = WayTo(c, d, k) + TILE_SIZE
<1>1. /\ WayTo(c, d, k) \in Nat /\ k + 1 \in Nat
      /\ GridLine(c, d, k) \in Int /\ GridLine(c, d, k + 1) \in Int
      /\ d > 0 => /\ WayTo(c, d, k) = GridLine(c, d, k) - c
                  /\ WayTo(c, d, k + 1) = GridLine(c, d, k + 1) - c
      /\ d <= 0 => /\ WayTo(c, d, k) = c - GridLine(c, d, k)
                   /\ WayTo(c, d, k + 1) = c - GridLine(c, d, k + 1)
  BY LineType
<1>2. CASE d > 0
  <2>1. PICK t \in Int : /\ GridLine(c, d, k) = TILE_SIZE * (t + 1)
                         /\ GridLine(c, d, k + 1) = TILE_SIZE * ((t + 1) + 1)
    <3>1. /\ TileAfter(c, d, k) \in Int /\ TileOf(c) \in Int
          /\ TileAfter(c, d, k) = TileOf(c) + k
          /\ TileAfter(c, d, k + 1) = TileOf(c) + (k + 1)
          /\ GridLine(c, d, k) = TILE_SIZE * (TileAfter(c, d, k) + 1)
          /\ GridLine(c, d, k + 1) = TILE_SIZE * (TileAfter(c, d, k + 1) + 1)
      BY <1>1, <1>2, LineNumber
    <3>2. TileAfter(c, d, k + 1) = TileAfter(c, d, k) + 1
      BY <3>1
    <3>3. QED
      BY <3>1, <3>2
  <2>2. TILE_SIZE * ((t + 1) + 1) = TILE_SIZE * (t + 1) + TILE_SIZE
    BY Sizes
  <2>3. QED
    BY <1>1, <1>2, <2>1, <2>2, Sizes
<1>3. CASE d <= 0
  <2>1. PICK t \in Int : /\ GridLine(c, d, k) = TILE_SIZE * t
                         /\ GridLine(c, d, k + 1) = TILE_SIZE * (t - 1)
    <3>1. /\ TileAfter(c, d, k) \in Int /\ TileOf(c) \in Int
          /\ TileAfter(c, d, k) = TileOf(c) - k
          /\ TileAfter(c, d, k + 1) = TileOf(c) - (k + 1)
          /\ GridLine(c, d, k) = TILE_SIZE * TileAfter(c, d, k)
          /\ GridLine(c, d, k + 1) = TILE_SIZE * TileAfter(c, d, k + 1)
      BY <1>1, <1>3, LineNumber
    <3>2. TileAfter(c, d, k + 1) = TileAfter(c, d, k) - 1
      BY <3>1
    <3>3. QED
      BY <3>1, <3>2
  <2>2. TILE_SIZE * (t - 1) = TILE_SIZE * t - TILE_SIZE
    BY Sizes
  <2>3. QED
    BY <1>1, <1>3, <2>1, <2>2, Sizes
<1>4. QED
  BY <1>1, <1>2, <1>3

\* The farther line is the later one.
LEMMA WayGrows ==
  ASSUME NEW c \in Int, NEW d \in Int, NEW j \in Nat, NEW k \in Nat, j < k
  PROVE  WayTo(c, d, j) < WayTo(c, d, k)
<1>1. /\ WayTo(c, d, j) \in Nat /\ WayTo(c, d, k) \in Nat
      /\ GridLine(c, d, j) \in Int /\ GridLine(c, d, k) \in Int
      /\ d > 0 => /\ WayTo(c, d, j) = GridLine(c, d, j) - c
                  /\ WayTo(c, d, k) = GridLine(c, d, k) - c
      /\ d <= 0 => /\ WayTo(c, d, j) = c - GridLine(c, d, j)
                   /\ WayTo(c, d, k) = c - GridLine(c, d, k)
  BY LineType
<1>2. CASE d > 0
  <2>1. PICK m \in Int, n \in Int :
          m < n /\ GridLine(c, d, j) = TILE_SIZE * m /\ GridLine(c, d, k) = TILE_SIZE * n
    <3>1. /\ TileOf(c) \in Int
          /\ TileAfter(c, d, j) = TileOf(c) + j
          /\ TileAfter(c, d, k) = TileOf(c) + k
          /\ GridLine(c, d, j) = TILE_SIZE * (TileAfter(c, d, j) + 1)
          /\ GridLine(c, d, k) = TILE_SIZE * (TileAfter(c, d, k) + 1)
      BY <1>2, LineNumber
    <3>2. /\ TileAfter(c, d, j) + 1 \in Int /\ TileAfter(c, d, k) + 1 \in Int
          /\ TileAfter(c, d, j) + 1 < TileAfter(c, d, k) + 1
      BY <3>1
    <3>3. QED
      BY <3>1, <3>2
  <2>2. GridLine(c, d, j) < GridLine(c, d, k)
    BY <2>1, Cancel, Sizes
  <2>3. QED
    BY <1>1, <1>2, <2>2
<1>3. CASE d <= 0
  <2>1. PICK m \in Int, n \in Int :
          n < m /\ GridLine(c, d, j) = TILE_SIZE * m /\ GridLine(c, d, k) = TILE_SIZE * n
    <3>1. /\ TileOf(c) \in Int
          /\ TileAfter(c, d, j) = TileOf(c) - j
          /\ TileAfter(c, d, k) = TileOf(c) - k
          /\ GridLine(c, d, j) = TILE_SIZE * TileAfter(c, d, j)
          /\ GridLine(c, d, k) = TILE_SIZE * TileAfter(c, d, k)
      BY <1>3, LineNumber
    <3>2. /\ TileAfter(c, d, j) \in Int /\ TileAfter(c, d, k) \in Int
          /\ TileAfter(c, d, k) < TileAfter(c, d, j)
      BY <3>1
    <3>3. QED
      BY <3>1, <3>2
  <2>2. GridLine(c, d, k) < GridLine(c, d, j)
    BY <2>1, Cancel, Sizes
  <2>3. QED
    BY <1>1, <1>3, <2>2
<1>4. QED
  BY <1>2, <1>3

\* Where it is, in parts of a pixel: in that tile, or at its border.
LEMMA InTile ==
  ASSUME NEW c \in Int, NEW d \in Int, NEW k \in Nat,
         NEW way \in Nat, NEW den \in Nat, den > 0, Passes(c, d, k, way, den),
         NEW v, v = c * den + way * d, NEW t, t = TileAfter(c, d, k)
  PROVE  /\ v \in Int /\ t \in Int
         /\ t * TILE_SIZE * den <= v /\ v <= (t + 1) * TILE_SIZE * den
         /\ v % (TILE_SIZE * den) # 0 => v \div (TILE_SIZE * den) = t
<1> DEFINE low == TILE_SIZE * t
           high == TILE_SIZE * (t + 1)
           m == TILE_SIZE * den
           tc == TileOf(c)
<1>1. /\ tc \in Int /\ t \in Int /\ t + 1 \in Int
      /\ TILE_SIZE * tc <= c /\ c < TILE_SIZE * (tc + 1)
      /\ d > 0 => t = tc + k
      /\ d <= 0 => t = tc - k
  <2>1. /\ TileOf(c) \in Int /\ TileAfter(c, d, k) \in Int
        /\ TILE_SIZE * TileOf(c) <= c /\ c < TILE_SIZE * (TileOf(c) + 1)
        /\ d > 0 => TileAfter(c, d, k) = TileOf(c) + k
        /\ d <= 0 => TileAfter(c, d, k) = TileOf(c) - k
    BY LineNumber
  <2>2. QED
    BY <2>1
<1>2. low \in Int /\ high \in Int /\ m \in Nat /\ m > 0
  BY <1>1, Sizes
<1>3. /\ c * den \in Int /\ way * d \in Int /\ v \in Int
      /\ low * den \in Int /\ high * den \in Int
  <2> HIDE DEF low, high
  <2>1. c * den \in Int /\ way * d \in Int /\ low * den \in Int /\ high * den \in Int
    BY <1>2
  <2>2. QED
    BY <2>1
<1>4. low * den <= v /\ v <= high * den
  <2>1. CASE d > 0
    <3>1. Abs(d) = d /\ way * Abs(d) <= WayTo(c, d, k) * den
      BY <2>1, Speed DEF Passes
    <3>2. WayTo(c, d, k) = high - c
      <4>1. GridLine(c, d, k) = high /\ WayTo(c, d, k) = GridLine(c, d, k) - c
        BY <2>1, LineNumber, LineType
      <4>2. QED
        BY <4>1
    <3>3. low * den <= c * den + way * d
      <4>1. CASE k = 0
        <5>1. low <= c
          BY <1>1, <2>1, <4>1
        <5>2. den * low <= den * c
          <6> HIDE DEF low
          <6>1. QED
            BY <1>2, <5>1, TimesMonotonic
        <5>3. d * 0 <= d * way
          BY <2>1, TimesMonotonic
        <5> HIDE DEF low
        <5>4. den * low = low * den /\ den * c = c * den /\ d * way = way * d /\ d * 0 = 0
          BY <1>2
        <5> DEFINE e == c * den
                   f == way * d
                   g == low * den
        <5>5. e \in Int /\ f \in Int /\ g \in Int /\ g <= e /\ 0 <= f
          BY <1>3, <5>2, <5>3, <5>4
        <5> HIDE DEF e, f, g
        <5>6. g <= e + f
          BY <5>5
        <5>7. QED
          BY <5>6 DEF e, f, g
      <4>2. CASE k > 0
        <5>1. k - 1 \in Nat /\ WayTo(c, d, k - 1) * den <= way * d
          BY <3>1, <4>2 DEF Passes
        <5>2. WayTo(c, d, k - 1) = low - c
          <6>1. /\ GridLine(c, d, k - 1) = TILE_SIZE * (TileAfter(c, d, k - 1) + 1)
                /\ TileAfter(c, d, k - 1) = tc + (k - 1)
                /\ WayTo(c, d, k - 1) = GridLine(c, d, k - 1) - c
            BY <2>1, <5>1, LineNumber, LineType
          <6>2. TileAfter(c, d, k - 1) + 1 = t
            BY <1>1, <2>1, <6>1
          <6>3. QED
            BY <6>1, <6>2
        <5> HIDE DEF low
        <5>3. (low - c) * den = low * den - c * den
          BY <1>2
        <5>4. low * den - c * den <= way * d
          BY <5>1, <5>2, <5>3
        <5> DEFINE e == c * den
                   f == way * d
                   g == low * den
        <5>5. e \in Int /\ f \in Int /\ g \in Int /\ g - e <= f
          BY <1>3, <5>4
        <5> HIDE DEF e, f, g
        <5>6. g <= e + f
          BY <5>5
        <5>7. QED
          BY <5>6 DEF e, f, g
      <4>3. QED
        BY <4>1, <4>2
    <3>4. c * den + way * d <= high * den
      <4> HIDE DEF high
      <4>1. (high - c) * den = high * den - c * den
        BY <1>2
      <4>2. way * d <= high * den - c * den
        BY <3>1, <3>2, <4>1
      <4> DEFINE e == c * den
                 f == way * d
                 g == high * den
      <4>3. e \in Int /\ f \in Int /\ g \in Int /\ f <= g - e
        BY <1>3, <4>2
      <4> HIDE DEF e, f, g
      <4>4. e + f <= g
        BY <4>3
      <4>5. QED
        BY <4>4 DEF e, f, g
    <3>5. QED
      BY <3>3, <3>4
  <2>2. CASE d = 0
    <3>1. t = tc
      BY <1>1, <2>2 DEF Passes
    <3>2. low <= c /\ c <= high
      BY <1>1, <1>2, <3>1
    <3> HIDE DEF low, high
    <3>3. den * low <= den * c /\ den * c <= den * high
      BY <1>2, <3>2, TimesMonotonic
    <3>4. den * low = low * den /\ den * c = c * den /\ den * high = high * den
      BY <1>2
    <3>5. v = c * den
      <4>1. way * d = 0
        BY <2>2
      <4>2. QED
        BY <1>3, <4>1
    <3>6. QED
      BY <3>3, <3>4, <3>5
  <2>3. CASE d < 0
    <3>1. Abs(d) = -d /\ way * (-d) = -(way * d) /\ way * Abs(d) <= WayTo(c, d, k) * den
      <4>1. Abs(d) = -d /\ way * Abs(d) <= WayTo(c, d, k) * den
        BY <2>3, Speed DEF Passes
      <4>2. QED
        BY <4>1
    <3>2. WayTo(c, d, k) = c - low
      <4>1. GridLine(c, d, k) = low /\ WayTo(c, d, k) = c - GridLine(c, d, k)
        BY <2>3, LineNumber, LineType
      <4>2. QED
        BY <4>1
    <3>3. c * den + way * d <= high * den
      <4>1. CASE k = 0
        <5>1. c <= high
          BY <1>1, <1>2, <2>3, <4>1
        <5> HIDE DEF high
        <5>2. den * c <= den * high
          BY <1>2, <5>1, TimesMonotonic
        <5>3. -d \in Nat /\ (-d) * 0 <= (-d) * way
          BY <2>3, TimesMonotonic
        <5>4. den * high = high * den /\ den * c = c * den
              /\ (-d) * way = -(way * d) /\ (-d) * 0 = 0
          BY <1>2
        <5> DEFINE e == c * den
                   f == way * d
                   g == high * den
        <5>5. e \in Int /\ f \in Int /\ g \in Int /\ e <= g /\ 0 <= -f
          BY <1>3, <5>2, <5>3, <5>4
        <5> HIDE DEF e, f, g
        <5>6. e + f <= g
          BY <5>5
        <5>7. QED
          BY <5>6 DEF e, f, g
      <4>2. CASE k > 0
        <5>1. k - 1 \in Nat /\ WayTo(c, d, k - 1) * den <= -(way * d)
          BY <3>1, <4>2 DEF Passes
        <5>2. WayTo(c, d, k - 1) = c - high
          <6>1. /\ GridLine(c, d, k - 1) = TILE_SIZE * TileAfter(c, d, k - 1)
                /\ TileAfter(c, d, k - 1) = tc - (k - 1)
                /\ WayTo(c, d, k - 1) = c - GridLine(c, d, k - 1)
            BY <2>3, <5>1, LineNumber, LineType
          <6>2. TileAfter(c, d, k - 1) = t + 1
            BY <1>1, <2>3, <6>1
          <6>3. QED
            BY <6>1, <6>2
        <5> HIDE DEF high
        <5>3. (c - high) * den = c * den - high * den
          BY <1>2
        <5>4. c * den - high * den <= -(way * d)
          BY <5>1, <5>2, <5>3
        <5> DEFINE e == c * den
                   f == way * d
                   g == high * den
        <5>5. e \in Int /\ f \in Int /\ g \in Int /\ e - g <= -f
          BY <1>3, <5>4
        <5> HIDE DEF e, f, g
        <5>6. e + f <= g
          BY <5>5
        <5>7. QED
          BY <5>6 DEF e, f, g
      <4>3. QED
        BY <4>1, <4>2
    <3>4. low * den <= c * den + way * d
      <4> HIDE DEF low
      <4>1. (c - low) * den = c * den - low * den
        BY <1>2
      <4>2. -(way * d) <= c * den - low * den
        BY <3>1, <3>2, <4>1
      <4> DEFINE e == c * den
                 f == way * d
                 g == low * den
      <4>3. e \in Int /\ f \in Int /\ g \in Int /\ -f <= e - g
        BY <1>3, <4>2
      <4> HIDE DEF e, f, g
      <4>4. g <= e + f
        BY <4>3
      <4>5. QED
        BY <4>4 DEF e, f, g
    <3>5. QED
      BY <3>3, <3>4
  <2>4. QED
    BY <2>1, <2>2, <2>3
<1>5. /\ low * den = m * t /\ high * den = m * (t + 1)
      /\ t * TILE_SIZE * den = m * t /\ (t + 1) * TILE_SIZE * den = m * (t + 1)
  BY <1>1, Sizes
<1>6. v % m # 0 => v \div m = t
  <2> SUFFICES ASSUME v % m # 0 PROVE v \div m = t
    OBVIOUS
  <2>1. v # m * (t + 1)
    BY <1>1, <1>2, MultipleModulo
  <2>2. m * t <= v /\ v < m * (t + 1)
    <3> HIDE DEF low, high, m
    <3>1. m * t <= v /\ v <= m * (t + 1) /\ m * (t + 1) \in Int
      BY <1>1, <1>2, <1>4, <1>5
    <3>2. QED
      BY <1>3, <2>1, <3>1
  <2>3. v \div m \in t .. t
    <3> HIDE DEF m
    <3>1. QED
      BY <1>1, <1>2, <1>3, <2>2, Quotient
  <2>4. QED
    BY <1>1, <2>3
<1> HIDE DEF low, high, m
<1>7. QED
  BY <1>1, <1>3, <1>4, <1>5, <1>6 DEF m

\* Behind the k-th line comes the tile after it.
LEMMA BehindLine ==
  ASSUME NEW c \in Int, NEW d \in Int, NEW k \in Nat, NEW den \in Nat, den > 0
  PROVE  (GridLine(c, d, k) * den - (IF Forward(d) THEN 0 ELSE 1) * den)
             \div (TILE_SIZE * den)
           = TileAfter(c, d, k + 1)
<1> DEFINE m == TILE_SIZE * den
           t == TileAfter(c, d, k + 1)
<1>1. /\ TileOf(c) \in Int /\ t \in Int /\ TileAfter(c, d, k) \in Int
      /\ d > 0 => /\ TileAfter(c, d, k) = TileOf(c) + k /\ t = TileOf(c) + (k + 1)
                  /\ GridLine(c, d, k) = TILE_SIZE * (TileAfter(c, d, k) + 1)
      /\ d <= 0 => /\ TileAfter(c, d, k) = TileOf(c) - k /\ t = TileOf(c) - (k + 1)
                   /\ GridLine(c, d, k) = TILE_SIZE * TileAfter(c, d, k)
  <2>1. k + 1 \in Nat
    OBVIOUS
  <2>2. /\ TileOf(c) \in Int
        /\ TileAfter(c, d, k) \in Int
        /\ d > 0 => TileAfter(c, d, k) = TileOf(c) + k
        /\ d <= 0 => TileAfter(c, d, k) = TileOf(c) - k
        /\ d > 0 => GridLine(c, d, k) = TILE_SIZE * (TileAfter(c, d, k) + 1)
        /\ d <= 0 => GridLine(c, d, k) = TILE_SIZE * TileAfter(c, d, k)
    BY LineNumber
  <2>3. /\ TileAfter(c, d, k + 1) \in Int
        /\ d > 0 => TileAfter(c, d, k + 1) = TileOf(c) + (k + 1)
        /\ d <= 0 => TileAfter(c, d, k + 1) = TileOf(c) - (k + 1)
    BY <2>1, LineNumber
  <2>4. QED
    BY <2>2, <2>3
<1> HIDE DEF t
<1>2. m \in Nat /\ m > 0 /\ den <= m
  <2>1. den * 1 <= den * TILE_SIZE
    BY Sizes, TimesMonotonic
  <2>2. QED
    BY <2>1, Sizes
<1>3. CASE d > 0
  <2>1. GridLine(c, d, k) = TILE_SIZE * t /\ Forward(d)
    BY <1>1, <1>3 DEF Forward
  <2>2. (TILE_SIZE * t) * den - 0 * den = m * t
    BY <1>1, Sizes
  <2>3. m * t \in Int /\ m * t <= m * t /\ m * t < m * (t + 1)
    <3> HIDE DEF m
    <3>1. m * t \in Int /\ m * (t + 1) = m * t + m
      BY <1>1, <1>2
    <3>2. QED
      BY <1>2, <3>1
  <2>4. (m * t) \div m \in t .. t
    <3> HIDE DEF m
    <3>1. QED
      BY <1>1, <1>2, <2>3, Quotient
  <2>5. (m * t) \div m = t
    BY <1>1, <2>4
  <2>6. QED
    BY <2>1, <2>2, <2>5 DEF m, t
<1>4. CASE d <= 0
  <2>1. GridLine(c, d, k) = TILE_SIZE * (t + 1) /\ ~Forward(d)
    <3>1. TileAfter(c, d, k) = t + 1
      BY <1>1, <1>4
    <3>2. QED
      BY <1>1, <1>4, <3>1 DEF Forward
  <2>2. (TILE_SIZE * (t + 1)) * den - 1 * den = m * (t + 1) - den
    BY <1>1, Sizes
  <2> DEFINE b == m * (t + 1) - den
  <2>3. b \in Int /\ m * t <= b /\ b < m * (t + 1)
    <3> HIDE DEF m
    <3>1. m * t \in Int /\ m * (t + 1) = m * t + m
      BY <1>1, <1>2
    <3>2. QED
      BY <1>2, <3>1
  <2> HIDE DEF b
  <2>4. b \div m \in t .. t
    <3> HIDE DEF m
    <3>1. QED
      BY <1>1, <1>2, <2>3, Quotient
  <2>5. b \div m = t
    BY <1>1, <2>4
  <2>6. QED
    BY <2>1, <2>2, <2>5 DEF b, m, t
<1>5. QED
  BY <1>3, <1>4

\* The tiles until the last line are inside the walls, the one after it is a wall.
LEMMA RoomTiles ==
  ASSUME NEW length \in Nat, 4 <= length, NEW c, Clear(c, length), NEW d \in Int
  PROVE  /\ LastLine(c, d, length) \in Nat
         /\ \A k \in 0 .. LastLine(c, d, length) : TileAfter(c, d, k) \in 1 .. length - 2
         /\ TileAfter(c, d, LastLine(c, d, length) + 1) \in {0, length - 1}
<1> DEFINE t == TileOf(c)
<1>1. c \in Int /\ t \in 1 .. length - 2
  BY ClearIsInside DEF Clear
<1>2. LastLine(c, d, length) = IF d > 0 THEN length - 2 - t ELSE t - 1
  BY DEF LastLine, Forward
<1>3. \A k \in Nat : TileAfter(c, d, k) = IF d > 0 THEN t + k ELSE t - k
  <2>1. \A k \in Nat : /\ d > 0 => TileAfter(c, d, k) = t + k
                       /\ d <= 0 => TileAfter(c, d, k) = t - k
    BY <1>1, LineNumber
  <2>2. QED
    BY <2>1
<1> HIDE DEF t
<1>4. QED
  BY <1>1, <1>2, <1>3

\* The whole way is the way to the last line.
LEMMA WholeIsLast ==
  ASSUME NEW length \in Nat, 4 <= length, NEW c, Clear(c, length), NEW d \in Int
  PROVE  WholeWay(c, d, length) = WayTo(c, d, LastLine(c, d, length))
<1> DEFINE k == LastLine(c, d, length)
<1>1. GridLine(c, d, k) = IF Forward(d) THEN TILE_SIZE * (length - 1) ELSE TILE_SIZE
  BY GridLines
<1>2. k \in Nat /\ c \in Int
  BY RoomTiles DEF Clear
<1> HIDE DEF k
<1>3. /\ d > 0 => WayTo(c, d, k) = GridLine(c, d, k) - c
      /\ d <= 0 => WayTo(c, d, k) = c - GridLine(c, d, k)
  BY <1>2, LineType
<1>4. WholeWay(c, d, length) = WayTo(c, d, k)
  BY <1>1, <1>3 DEF WholeWay, Forward
<1>5. QED
  BY <1>4 DEF k

\* Until it has gone the whole way along an axis the ray is inside the walls of it.
LEMMA StaysInside ==
  ASSUME NEW length \in Nat, 4 <= length, NEW c, Clear(c, length), NEW d \in Int,
         NEW way \in Nat, NEW den \in Nat, den > 0,
         d # 0 => way * Abs(d) < WholeWay(c, d, length) * den
  PROVE  (c * den + way * d) \div (TILE_SIZE * den) \in 1 .. length - 2
<1> DEFINE m == TILE_SIZE * den
           v == c * den + way * d
           wall == TILE_SIZE * (length - 1)
<1>1. /\ c \in Int /\ wall \in Int /\ TILE_SIZE <= c /\ c + 1 <= wall
  BY Sizes, RadiusIsPositive DEF Clear
<1>2. /\ m \in Nat /\ m > 0 /\ den * TILE_SIZE = m
      /\ den * wall = m * ((length - 2) + 1) /\ m * 1 = m
      /\ m * ((length - 2) + 1) \in Int
  BY Sizes
<1> HIDE DEF m, wall
<1>3. /\ c * den \in Int /\ way * d \in Int /\ v \in Int
      /\ m <= c * den /\ c * den < den * wall /\ den * wall \in Int
  <2>1. c * den \in Int /\ way * d \in Int /\ den * wall \in Int
    BY <1>1
  <2>2. den * TILE_SIZE <= den * c /\ den * (c + 1) <= den * wall
    BY <1>1, Sizes, TimesMonotonic
  <2>3. den * c = c * den /\ den * (c + 1) = den * c + den
    BY <1>1
  <2>4. QED
    BY <1>2, <2>1, <2>2, <2>3
<1>4. m <= v /\ v < den * wall
  <2>1. CASE d > 0
    <3>1. Abs(d) = d /\ WholeWay(c, d, length) = wall - c
      BY <2>1, Speed DEF WholeWay, Forward, wall
    <3>2. way * d < (wall - c) * den
      BY <2>1, <3>1
    <3>3. (wall - c) * den = den * wall - c * den
      BY <1>1
    <3>4. d * 0 <= d * way /\ d * 0 = 0 /\ d * way = way * d
      BY <2>1, TimesMonotonic
    <3> DEFINE e == c * den
               f == way * d
               g == den * wall
    <3>5. e \in Int /\ f \in Int /\ g \in Int /\ m <= e /\ 0 <= f /\ f < g - e
      BY <1>3, <3>2, <3>3, <3>4
    <3> HIDE DEF e, f, g
    <3>6. m <= e + f /\ e + f < g
      BY <1>2, <3>5
    <3>7. QED
      BY <3>6 DEF e, f, g
  <2>2. CASE d = 0
    <3>1. way * d = 0
      BY <2>2
    <3>2. v = c * den
      BY <1>3, <3>1
    <3>3. QED
      BY <1>3, <3>2
  <2>3. CASE d < 0
    <3>1. Abs(d) = -d /\ WholeWay(c, d, length) = c - TILE_SIZE
      BY <2>3, Speed DEF WholeWay, Forward
    <3>2. way * (-d) < (c - TILE_SIZE) * den
      BY <2>3, <3>1
    <3>3. (c - TILE_SIZE) * den = c * den - m /\ way * (-d) = -(way * d)
      BY <1>1, <1>2, Sizes
    <3>4. -d \in Nat /\ (-d) * 0 <= (-d) * way /\ (-d) * 0 = 0 /\ (-d) * way = -(way * d)
      BY <2>3, TimesMonotonic
    <3> DEFINE e == c * den
               f == way * d
               g == den * wall
    <3>5. e \in Int /\ f \in Int /\ g \in Int /\ e < g /\ 0 <= -f /\ -f < e - m
      BY <1>3, <3>2, <3>3, <3>4
    <3> HIDE DEF e, f, g
    <3>6. m <= e + f /\ e + f < g
      BY <1>2, <3>5
    <3>7. QED
      BY <3>6 DEF e, f, g
  <2>4. QED
    BY <2>1, <2>2, <2>3
<1> HIDE DEF v
<1>5. v \div m \in 1 .. length - 2
  <2>1. m * 1 <= v /\ v < m * ((length - 2) + 1) /\ length - 2 \in Int
    BY <1>2, <1>4
  <2>2. QED
    BY <1>2, <1>3, <2>1, Quotient
<1>6. QED
  BY <1>5 DEF v, m

LastColumn(d) == LastLine(px, d.x, MAP_NUM_COLS)
LastRow(d)    == LastLine(py, d.y, MAP_NUM_ROWS)

\* A loop meets no wall before the last line of its axis, unless the ray has
\* reached the outer wall on the other axis.
LEMMA NoEarlyVertical ==
  ASSUME PlayerInv, NEW d \in [x : Int, y : Int],
         NEW k \in VerticalHits(d), k < LastColumn(d)
  PROVE  d.y # 0 /\ WayTo(py, d.y, LastRow(d)) * Abs(d.x) <= WayTo(px, d.x, k) * Abs(d.y)
<1> DEFINE den == Abs(d.x)
           way == WayTo(px, d.x, k)
           whole == WholeWay(py, d.y, MAP_NUM_ROWS)
           p == VerticalCrossing(d, k)
           back == IF Forward(d.x) THEN 0 ELSE 1
           col == (GridLine(px, d.x, k) * den - back * den)
                    \div (TILE_SIZE * den)
           across == py * den + way * d.y
           row == across \div (TILE_SIZE * den)
<1>1. /\ d.x # 0 /\ k \in Nat /\ den \in Nat /\ den > 0 /\ way \in Nat
      /\ HasWall(VerticalTile(d, k))
  BY VerticalHit DEF VerticalHits
<1>2. /\ d.x \in Int /\ d.y \in Int /\ px \in Int /\ py \in Int
      /\ Clear(px, MAP_NUM_COLS) /\ Clear(py, MAP_NUM_ROWS)
  BY DEF PlayerInv, Clear
<1>3. whole \in Nat /\ whole = WayTo(py, d.y, LastRow(d))
  BY <1>2, GridLines, WholeIsLast, Sizes DEF LastRow
<1>4. SUFFICES ASSUME ~(d.y # 0 /\ whole * den <= way * Abs(d.y)) PROVE FALSE
  BY <1>3
<1>5. col \in 1 .. MAP_NUM_COLS - 2
  <2>1. col = TileAfter(px, d.x, k + 1)
    <3> HIDE DEF den
    <3>1. QED
      BY <1>1, <1>2, BehindLine
  <2>2. k + 1 \in 0 .. LastLine(px, d.x, MAP_NUM_COLS)
    <3>1. LastLine(px, d.x, MAP_NUM_COLS) \in Nat
      BY <1>2, RoomTiles, Sizes
    <3>2. QED
      BY <1>1, <3>1 DEF LastColumn
  <2>3. TileAfter(px, d.x, k + 1) \in 1 .. MAP_NUM_COLS - 2
    BY <1>2, <2>2, RoomTiles, Sizes
  <2>4. QED
    BY <2>1, <2>3
<1>6. row \in 1 .. MAP_NUM_ROWS - 2
  <2>1. d.y # 0 => way * Abs(d.y) < whole * den
    <3>1. Abs(d.y) \in Nat
      BY <1>2, Speed
    <3> HIDE DEF den, way, whole
    <3>2. whole * den \in Int /\ way * Abs(d.y) \in Int
      BY <1>1, <1>3, <3>1
    <3>3. QED
      BY <1>4, <3>2
  <2> HIDE DEF den, way
  <2>2. QED
    BY <1>1, <1>2, <2>1, StaysInside, Sizes DEF whole
<1>7. VerticalTile(d, k) = <<col, row>>
  <2>1. /\ p.x = GridLine(px, d.x, k) * den /\ p.y = across
        /\ p.den = den
    BY DEF VerticalCrossing, WayTo
  <2>2. across - 0 * den = across
    <3> HIDE DEF den, way
    <3>1. py * den \in Int /\ way * d.y \in Int
      BY <1>1, <1>2
    <3>2. across \in Int
      BY <3>1
    <3> HIDE DEF across
    <3>3. QED
      BY <1>1, <3>2
  <2>3. VerticalTile(d, k) = TileBehind(p, back, 0)
    BY DEF VerticalTile
  <2> HIDE DEF p, den, way, back, across
  <2>4. QED
    BY <2>1, <2>2, <2>3 DEF TileBehind
<1> HIDE DEF col, row
<1>8. col \in Columns /\ row \in Rows
  BY <1>5, <1>6, Sizes DEF Columns, Rows
<1>9. tiles[row][col] = -1
  BY <1>5, <1>6, <1>8, TileValues
<1>10. QED
  BY <1>1, <1>7, <1>9 DEF HasWall

LEMMA NoEarlyHorizontal ==
  ASSUME PlayerInv, NEW d \in [x : Int, y : Int],
         NEW k \in HorizontalHits(d), k < LastRow(d)
  PROVE  d.x # 0 /\ WayTo(px, d.x, LastColumn(d)) * Abs(d.y) <= WayTo(py, d.y, k) * Abs(d.x)
<1> DEFINE den == Abs(d.y)
           way == WayTo(py, d.y, k)
           whole == WholeWay(px, d.x, MAP_NUM_COLS)
           p == HorizontalCrossing(d, k)
           back == IF Forward(d.y) THEN 0 ELSE 1
           row == (GridLine(py, d.y, k) * den - back * den)
                    \div (TILE_SIZE * den)
           across == px * den + way * d.x
           col == across \div (TILE_SIZE * den)
<1>1. /\ d.y # 0 /\ k \in Nat /\ den \in Nat /\ den > 0 /\ way \in Nat
      /\ HasWall(HorizontalTile(d, k))
  BY HorizontalHit DEF HorizontalHits
<1>2. /\ d.x \in Int /\ d.y \in Int /\ px \in Int /\ py \in Int
      /\ Clear(px, MAP_NUM_COLS) /\ Clear(py, MAP_NUM_ROWS)
  BY DEF PlayerInv, Clear
<1>3. whole \in Nat /\ whole = WayTo(px, d.x, LastColumn(d))
  BY <1>2, GridLines, WholeIsLast, Sizes DEF LastColumn
<1>4. SUFFICES ASSUME ~(d.x # 0 /\ whole * den <= way * Abs(d.x)) PROVE FALSE
  BY <1>3
<1>5. row \in 1 .. MAP_NUM_ROWS - 2
  <2>1. row = TileAfter(py, d.y, k + 1)
    <3> HIDE DEF den
    <3>1. QED
      BY <1>1, <1>2, BehindLine
  <2>2. k + 1 \in 0 .. LastLine(py, d.y, MAP_NUM_ROWS)
    <3>1. LastLine(py, d.y, MAP_NUM_ROWS) \in Nat
      BY <1>2, RoomTiles, Sizes
    <3>2. QED
      BY <1>1, <3>1 DEF LastRow
  <2>3. TileAfter(py, d.y, k + 1) \in 1 .. MAP_NUM_ROWS - 2
    BY <1>2, <2>2, RoomTiles, Sizes
  <2>4. QED
    BY <2>1, <2>3
<1>6. col \in 1 .. MAP_NUM_COLS - 2
  <2>1. d.x # 0 => way * Abs(d.x) < whole * den
    <3>1. Abs(d.x) \in Nat
      BY <1>2, Speed
    <3> HIDE DEF den, way, whole
    <3>2. whole * den \in Int /\ way * Abs(d.x) \in Int
      BY <1>1, <1>3, <3>1
    <3>3. QED
      BY <1>4, <3>2
  <2> HIDE DEF den, way
  <2>2. QED
    BY <1>1, <1>2, <2>1, StaysInside, Sizes DEF whole
<1>7. HorizontalTile(d, k) = <<col, row>>
  <2>1. /\ p.y = GridLine(py, d.y, k) * den /\ p.x = across
        /\ p.den = den
    BY DEF HorizontalCrossing, WayTo
  <2>2. across - 0 * den = across
    <3> HIDE DEF den, way
    <3>1. px * den \in Int /\ way * d.x \in Int
      BY <1>1, <1>2
    <3>2. across \in Int
      BY <3>1
    <3> HIDE DEF across
    <3>3. QED
      BY <1>1, <3>2
  <2>3. HorizontalTile(d, k) = TileBehind(p, 0, back)
    BY DEF HorizontalTile
  <2> HIDE DEF p, den, way, back, across
  <2>4. QED
    BY <2>1, <2>2, <2>3 DEF TileBehind
<1> HIDE DEF col, row
<1>8. col \in Columns /\ row \in Rows
  BY <1>5, <1>6, Sizes DEF Columns, Rows
<1>9. tiles[row][col] = -1
  BY <1>5, <1>6, <1>8, TileValues
<1>10. QED
  BY <1>1, <1>7, <1>9 DEF HasWall

\* A ray along d that has crossed a vertical and b horizontal lines and is between
\* the walls; or that has come to the outer column, or row, of tiles.
InRoom(d, a, b) ==
  /\ a \in 0 .. LastColumn(d) /\ b \in 0 .. LastRow(d)
  /\ d.x = 0 => a = 0
  /\ d.y = 0 => b = 0
  /\ a > 0 /\ d.y # 0 =>
       WayTo(px, d.x, a - 1) * Abs(d.y) < WayTo(py, d.y, b) * Abs(d.x)
  /\ b > 0 /\ d.x # 0 =>
       WayTo(py, d.y, b - 1) * Abs(d.x) <= WayTo(px, d.x, a) * Abs(d.y)

AtColumn(d, a, b) ==
  /\ d.x # 0 /\ a = LastColumn(d) + 1 /\ b \in 0 .. LastRow(d)
  /\ Passes(py, d.y, b, WayTo(px, d.x, a - 1), Abs(d.x))
  /\ d.y # 0 => WayTo(px, d.x, a - 1) * Abs(d.y) < WayTo(py, d.y, b) * Abs(d.x)

AtRow(d, a, b) ==
  /\ d.y # 0 /\ b = LastRow(d) + 1 /\ a \in 0 .. LastColumn(d)
  /\ Passes(px, d.x, a, WayTo(py, d.y, b - 1), Abs(d.y))
  /\ a > 0 => WayTo(px, d.x, a - 1) * Abs(d.y) < WayTo(py, d.y, b - 1) * Abs(d.x)

\* mark_visible_tiles is there: its tile, and its running distances.
WalkAt(d, a, b) ==
  /\ walk = [x |-> TileAfter(px, d.x, a), y |-> TileAfter(py, d.y, b),
             step_x |-> StepOf(d.x), step_y |-> StepOf(d.y)]
  /\ ahead = [x |-> WayTo(px, d.x, a), y |-> WayTo(py, d.y, b)]

\* The walk counts the lines the ray crosses, in the order in which it crosses
\* them, and has marked a tile of the outer wall last when it has ended.
WalkInv ==
  /\ dir \in Directions \cup {NoRay}
  /\ dir # NoRay =>
       /\ phase = "casting"
       /\ walk # NoWalk => \E a, b \in Nat :
            /\ WalkAt(dir, a, b)
            /\ InRoom(dir, a, b) \/ AtColumn(dir, a, b) \/ AtRow(dir, a, b)
       /\ walk = NoWalk => \E a, b \in Nat :
            /\ last = <<TileAfter(px, dir.x, a), TileAfter(py, dir.y, b)>>
            /\ AtColumn(dir, a, b) \/ AtRow(dir, a, b)

\* What a walk needs of the player, and of where the lines are.
LEMMA RoomOfRay ==
  ASSUME PlayerInv, NEW d \in [x : Int, y : Int]
  PROVE  /\ d.x \in Int /\ d.y \in Int /\ px \in Int /\ py \in Int
         /\ Abs(d.x) \in Nat /\ (d.x # 0 => Abs(d.x) > 0)
         /\ Abs(d.y) \in Nat /\ (d.y # 0 => Abs(d.y) > 0)
         /\ LastColumn(d) \in Nat /\ LastRow(d) \in Nat
         /\ \A k \in Nat : WayTo(px, d.x, k) \in Nat /\ WayTo(py, d.y, k) \in Nat
<1>1. /\ d.x \in Int /\ d.y \in Int /\ px \in Int /\ py \in Int
      /\ Clear(px, MAP_NUM_COLS) /\ Clear(py, MAP_NUM_ROWS)
  BY DEF PlayerInv, Clear
<1>2. /\ Abs(d.x) \in Nat /\ (d.x # 0 => Abs(d.x) > 0)
      /\ Abs(d.y) \in Nat /\ (d.y # 0 => Abs(d.y) > 0)
  BY <1>1, Speed
<1>3. LastColumn(d) \in Nat /\ LastRow(d) \in Nat
  BY <1>1, RoomTiles, Sizes DEF LastColumn, LastRow
<1>4. \A k \in Nat : WayTo(px, d.x, k) \in Nat /\ WayTo(py, d.y, k) \in Nat
  BY <1>1, WayStep
<1>5. QED
  BY <1>1, <1>2, <1>3, <1>4

\* Farther lines are not nearer, whatever the speed.
LEMMA FartherLine ==
  ASSUME NEW c \in Int, NEW d \in Int, NEW n \in Nat,
         NEW j \in Nat, NEW k \in Nat, j <= k
  PROVE  /\ WayTo(c, d, j) * n \in Nat /\ WayTo(c, d, k) * n \in Nat
         /\ WayTo(c, d, j) * n <= WayTo(c, d, k) * n
         /\ n > 0 /\ j < k => WayTo(c, d, j) * n < WayTo(c, d, k) * n
<1> DEFINE wj == WayTo(c, d, j)
           wk == WayTo(c, d, k)
<1>1. wj \in Nat /\ wk \in Nat
  BY WayStep
<1>2. j < k => wj < wk
  BY WayGrows
<1>3. j = k => wj = wk
  OBVIOUS
<1> HIDE DEF wj, wk
<1>4. wj <= wk
  BY <1>1, <1>2, <1>3
<1>5. wj * n \in Nat /\ wk * n \in Nat /\ n * wj = wj * n /\ n * wk = wk * n
  BY <1>1
<1>6. n * wj <= n * wk
  BY <1>1, <1>4, TimesMonotonic
<1>7. n > 0 /\ j < k => n * wj < n * wk
  BY <1>1, <1>2, Cancel
<1>8. QED
  BY <1>5, <1>6, <1>7 DEF wj, wk

\* The next line the ray crosses is a vertical one.
LEMMA CrossColumn ==
  ASSUME PlayerInv, NEW d \in [x : Int, y : Int], NEW a \in Nat, NEW b \in Nat,
         InRoom(d, a, b), d.x # 0,
         d.y = 0 \/ WayTo(px, d.x, a) * Abs(d.y) < WayTo(py, d.y, b) * Abs(d.x)
  PROVE  InRoom(d, a + 1, b) \/ AtColumn(d, a + 1, b)
<1>1. /\ d.x \in Int /\ d.y \in Int /\ px \in Int /\ py \in Int
      /\ Abs(d.x) \in Nat /\ Abs(d.y) \in Nat
      /\ LastColumn(d) \in Nat /\ LastRow(d) \in Nat
  BY RoomOfRay
<1>2. /\ a \in 0 .. LastColumn(d) /\ b \in 0 .. LastRow(d)
      /\ d.y = 0 => b = 0
      /\ b > 0 => WayTo(py, d.y, b - 1) * Abs(d.x) <= WayTo(px, d.x, a) * Abs(d.y)
  BY DEF InRoom
<1>3. /\ WayTo(px, d.x, a) * Abs(d.y) \in Nat
      /\ WayTo(px, d.x, a + 1) * Abs(d.y) \in Nat
      /\ WayTo(px, d.x, a) * Abs(d.y) <= WayTo(px, d.x, a + 1) * Abs(d.y)
  <2>1. a + 1 \in Nat /\ a <= a + 1
    OBVIOUS
  <2>2. QED
    BY <1>1, <2>1, FartherLine
<1>4. /\ WayTo(py, d.y, b) * Abs(d.x) \in Nat
      /\ b > 0 => WayTo(py, d.y, b - 1) * Abs(d.x) \in Nat
  <2>1. b > 0 => b - 1 \in Nat
    OBVIOUS
  <2>2. b <= b /\ b - 1 <= b - 1
    OBVIOUS
  <2>3. QED
    BY <1>1, <2>1, <2>2, FartherLine
<1>5. (a + 1) - 1 = a /\ a + 1 > 0
  OBVIOUS
<1> DEFINE own == WayTo(px, d.x, a) * Abs(d.y)
           beyond == WayTo(px, d.x, a + 1) * Abs(d.y)
           next == WayTo(py, d.y, b) * Abs(d.x)
           before == WayTo(py, d.y, b - 1) * Abs(d.x)
<1>6. /\ own \in Nat /\ beyond \in Nat /\ next \in Nat /\ own <= beyond
      /\ b > 0 => before \in Nat /\ before <= own
      /\ d.y # 0 => own < next
  BY <1>2, <1>3, <1>4
<1>7. CASE a < LastColumn(d)
  <2>1. a + 1 \in 0 .. LastColumn(d)
    BY <1>1, <1>7
  <2>2. WayTo(px, d.x, (a + 1) - 1) * Abs(d.y) = own
    BY <1>5
  <2> HIDE DEF own, beyond, next, before
  <2>3. /\ d.y # 0 => own < next
        /\ b > 0 => before <= beyond
    BY <1>6
  <2>4. /\ d.y # 0 => WayTo(px, d.x, (a + 1) - 1) * Abs(d.y) < WayTo(py, d.y, b) * Abs(d.x)
        /\ b > 0 => WayTo(py, d.y, b - 1) * Abs(d.x) <= WayTo(px, d.x, a + 1) * Abs(d.y)
    BY <2>2, <2>3 DEF next, before, beyond
  <2>5. InRoom(d, a + 1, b)
    BY <1>2, <2>1, <2>4, Zenon DEF InRoom
  <2>6. QED
    BY <2>5
<1>8. CASE a = LastColumn(d)
  <2> HIDE DEF own, beyond, next, before
  <2>1. /\ d.y # 0 => own < next /\ own <= next
        /\ b > 0 => before <= own
    BY <1>6
  <2>2. /\ d.y # 0 => /\ WayTo(px, d.x, a) * Abs(d.y) < WayTo(py, d.y, b) * Abs(d.x)
                      /\ WayTo(px, d.x, a) * Abs(d.y) <= WayTo(py, d.y, b) * Abs(d.x)
        /\ b > 0 => WayTo(py, d.y, b - 1) * Abs(d.x) <= WayTo(px, d.x, a) * Abs(d.y)
    BY <2>1 DEF next, before, own
  <2>3. Passes(py, d.y, b, WayTo(px, d.x, a), Abs(d.x))
    BY <1>2, <2>2, Zenon DEF Passes
  <2>4. AtColumn(d, a + 1, b)
    BY <1>2, <1>5, <1>8, <2>2, <2>3, Zenon DEF AtColumn
  <2>5. QED
    BY <2>4
<1>9. QED
  BY <1>1, <1>2, <1>7, <1>8

\* The next line the ray crosses is a horizontal one.
LEMMA CrossRow ==
  ASSUME PlayerInv, NEW d \in [x : Int, y : Int], NEW a \in Nat, NEW b \in Nat,
         InRoom(d, a, b), d.y # 0,
         d.x = 0 \/ WayTo(py, d.y, b) * Abs(d.x) <= WayTo(px, d.x, a) * Abs(d.y)
  PROVE  InRoom(d, a, b + 1) \/ AtRow(d, a, b + 1)
<1>1. /\ d.x \in Int /\ d.y \in Int /\ px \in Int /\ py \in Int
      /\ Abs(d.x) \in Nat /\ Abs(d.y) \in Nat
      /\ LastColumn(d) \in Nat /\ LastRow(d) \in Nat
  BY RoomOfRay
<1>2. /\ a \in 0 .. LastColumn(d) /\ b \in 0 .. LastRow(d)
      /\ d.x = 0 => a = 0
      /\ a > 0 => WayTo(px, d.x, a - 1) * Abs(d.y) < WayTo(py, d.y, b) * Abs(d.x)
  BY DEF InRoom
<1>3. /\ WayTo(py, d.y, b) * Abs(d.x) \in Nat
      /\ WayTo(py, d.y, b + 1) * Abs(d.x) \in Nat
      /\ WayTo(py, d.y, b) * Abs(d.x) <= WayTo(py, d.y, b + 1) * Abs(d.x)
  <2>1. b + 1 \in Nat /\ b <= b + 1
    OBVIOUS
  <2>2. QED
    BY <1>1, <2>1, FartherLine
<1>4. /\ WayTo(px, d.x, a) * Abs(d.y) \in Nat
      /\ a > 0 => WayTo(px, d.x, a - 1) * Abs(d.y) \in Nat
  <2>1. a > 0 => a - 1 \in Nat
    OBVIOUS
  <2>2. a <= a /\ a - 1 <= a - 1
    OBVIOUS
  <2>3. QED
    BY <1>1, <2>1, <2>2, FartherLine
<1>5. (b + 1) - 1 = b /\ b + 1 > 0
  OBVIOUS
<1> DEFINE own == WayTo(py, d.y, b) * Abs(d.x)
           beyond == WayTo(py, d.y, b + 1) * Abs(d.x)
           next == WayTo(px, d.x, a) * Abs(d.y)
           before == WayTo(px, d.x, a - 1) * Abs(d.y)
<1>6. /\ own \in Nat /\ beyond \in Nat /\ next \in Nat /\ own <= beyond
      /\ a > 0 => before \in Nat /\ before < own
      /\ d.x # 0 => own <= next
  BY <1>2, <1>3, <1>4
<1>7. CASE b < LastRow(d)
  <2>1. b + 1 \in 0 .. LastRow(d)
    BY <1>1, <1>7
  <2>2. WayTo(py, d.y, (b + 1) - 1) * Abs(d.x) = own
    BY <1>5
  <2> HIDE DEF own, beyond, next, before
  <2>3. /\ d.x # 0 => own <= next
        /\ a > 0 => before < beyond
    BY <1>6
  <2>4. /\ d.x # 0 => WayTo(py, d.y, (b + 1) - 1) * Abs(d.x) <= WayTo(px, d.x, a) * Abs(d.y)
        /\ a > 0 => WayTo(px, d.x, a - 1) * Abs(d.y) < WayTo(py, d.y, b + 1) * Abs(d.x)
    BY <2>2, <2>3 DEF next, before, beyond
  <2>5. InRoom(d, a, b + 1)
    BY <1>2, <2>1, <2>4, Zenon DEF InRoom
  <2>6. QED
    BY <2>5
<1>8. CASE b = LastRow(d)
  <2> HIDE DEF own, beyond, next, before
  <2>1. /\ d.x # 0 => own <= next
        /\ a > 0 => before < own /\ before <= own
    BY <1>6
  <2>2. /\ d.x # 0 => WayTo(py, d.y, b) * Abs(d.x) <= WayTo(px, d.x, a) * Abs(d.y)
        /\ a > 0 => /\ WayTo(px, d.x, a - 1) * Abs(d.y) < WayTo(py, d.y, b) * Abs(d.x)
                    /\ WayTo(px, d.x, a - 1) * Abs(d.y) <= WayTo(py, d.y, b) * Abs(d.x)
    BY <2>1 DEF next, before, own
  <2>3. Passes(px, d.x, a, WayTo(py, d.y, b), Abs(d.y))
    BY <1>2, <2>2, Zenon DEF Passes
  <2>4. AtRow(d, a, b + 1)
    BY <1>2, <1>5, <1>8, <2>2, <2>3, Zenon DEF AtRow
  <2>5. QED
    BY <2>4
<1>9. QED
  BY <1>1, <1>2, <1>7, <1>8

\* What the walk finds at its tile.
LEMMA TilesOfWalk ==
  ASSUME PlayerInv, NEW d \in [x : Int, y : Int], NEW a \in Nat, NEW b \in Nat
  PROVE  LET col == TileAfter(px, d.x, a)
             row == TileAfter(py, d.y, b)
         IN  /\ InRoom(d, a, b) =>
                  col \in Columns /\ row \in Rows /\ tiles[row][col] = -1
             /\ AtColumn(d, a, b) \/ AtRow(d, a, b) =>
                  col \in Columns /\ row \in Rows /\ tiles[row][col] # -1
<1> DEFINE col == TileAfter(px, d.x, a)
           row == TileAfter(py, d.y, b)
<1>1. /\ Clear(px, MAP_NUM_COLS) /\ Clear(py, MAP_NUM_ROWS)
      /\ d.x \in Int /\ d.y \in Int
  BY DEF PlayerInv
<1>2. /\ a \in 0 .. LastColumn(d) => col \in 1 .. MAP_NUM_COLS - 2
      /\ a = LastColumn(d) + 1 => col \in {0, MAP_NUM_COLS - 1}
      /\ b \in 0 .. LastRow(d) => row \in 1 .. MAP_NUM_ROWS - 2
      /\ b = LastRow(d) + 1 => row \in {0, MAP_NUM_ROWS - 1}
  <2>1. /\ \A k \in 0 .. LastColumn(d) : TileAfter(px, d.x, k) \in 1 .. MAP_NUM_COLS - 2
        /\ TileAfter(px, d.x, LastColumn(d) + 1) \in {0, MAP_NUM_COLS - 1}
    BY <1>1, RoomTiles, Sizes DEF LastColumn
  <2>2. /\ \A k \in 0 .. LastRow(d) : TileAfter(py, d.y, k) \in 1 .. MAP_NUM_ROWS - 2
        /\ TileAfter(py, d.y, LastRow(d) + 1) \in {0, MAP_NUM_ROWS - 1}
    BY <1>1, RoomTiles, Sizes DEF LastRow
  <2>3. QED
    BY <2>1, <2>2
<1> HIDE DEF col, row
<1>3. /\ col \in 1 .. MAP_NUM_COLS - 2 =>
           col \in Columns /\ col \notin {0, MAP_NUM_COLS - 1}
      /\ col \in {0, MAP_NUM_COLS - 1} =>
           col \in Columns /\ col \notin 1 .. MAP_NUM_COLS - 2
      /\ row \in 1 .. MAP_NUM_ROWS - 2 =>
           row \in Rows /\ row \notin {0, MAP_NUM_ROWS - 1}
      /\ row \in {0, MAP_NUM_ROWS - 1} =>
           row \in Rows /\ row \notin 1 .. MAP_NUM_ROWS - 2
  BY Sizes DEF Columns, Rows
<1>4. col \in Columns /\ row \in Rows =>
        (tiles[row][col] = -1
           <=> col \in 1 .. MAP_NUM_COLS - 2 /\ row \in 1 .. MAP_NUM_ROWS - 2)
  BY TileValues
<1>5. ASSUME InRoom(d, a, b)
      PROVE  col \in Columns /\ row \in Rows /\ tiles[row][col] = -1
  <2>1. a \in 0 .. LastColumn(d) /\ b \in 0 .. LastRow(d)
    BY <1>5 DEF InRoom
  <2>2. QED
    BY <1>2, <1>3, <1>4, <2>1, Zenon
<1>6. ASSUME AtColumn(d, a, b)
      PROVE  col \in Columns /\ row \in Rows /\ tiles[row][col] # -1
  <2>1. a = LastColumn(d) + 1 /\ b \in 0 .. LastRow(d)
    BY <1>6 DEF AtColumn
  <2>2. QED
    BY <1>2, <1>3, <1>4, <2>1, Zenon
<1>7. ASSUME AtRow(d, a, b)
      PROVE  col \in Columns /\ row \in Rows /\ tiles[row][col] # -1
  <2>1. b = LastRow(d) + 1 /\ a \in 0 .. LastColumn(d)
    BY <1>7 DEF AtRow
  <2>2. QED
    BY <1>2, <1>3, <1>4, <2>1, Zenon
<1>8. QED
  BY <1>5, <1>6, <1>7 DEF col, row

\* The walk starts on the player's own tile, before the ray has crossed a line.
LEMMA WalkBeginsAt ==
  ASSUME PlayerInv, WalkBegins
  PROVE  WalkInv'
<1>1. PICK d \in Directions :
        /\ dir' = d
        /\ walk' = IF ContainsTile(TileOf(px), TileOf(py))
                     THEN [x |-> TileOf(px), y |-> TileOf(py),
                           step_x |-> StepOf(d.x), step_y |-> StepOf(d.y)]
                     ELSE NoWalk
        /\ ahead' = [x |-> FirstWay(px, d.x), y |-> FirstWay(py, d.y)]
  BY DEF WalkBegins
<1>2. phase' = "casting" /\ px' = px /\ py' = py
  BY DEF WalkBegins
<1>3. d \in [x : Int, y : Int] /\ d # NoRay
  BY RaysAssumption
<1>4. TileOf(px) \in Columns /\ TileOf(py) \in Rows
      /\ TileOf(px) \in Int /\ TileOf(py) \in Int
  BY OwnOnMap
<1>5. walk' = [x |-> TileOf(px), y |-> TileOf(py),
               step_x |-> StepOf(d.x), step_y |-> StepOf(d.y)]
  BY <1>1, <1>4, Zenon DEF ContainsTile
<1>6. walk' # NoWalk
  <2>1. StepOf(d.x) \in Int /\ StepOf(d.y) \in Int
    BY DEF StepOf
  <2>2. walk' \in [x : Int, y : Int, step_x : Int, step_y : Int]
    BY <1>4, <1>5, <2>1
  <2>3. QED
    BY <2>2, SightAssumption
<1>7. WalkAt(d, 0, 0)'
  <2>1. TileAfter(px, d.x, 0) = TileOf(px) /\ TileAfter(py, d.y, 0) = TileOf(py)
    <3>1. StepOf(d.x) \in Int /\ StepOf(d.y) \in Int
      BY DEF StepOf
    <3> HIDE DEF StepOf
    <3>2. 0 * StepOf(d.x) = 0 /\ 0 * StepOf(d.y) = 0
      BY <3>1
    <3>3. QED
      BY <1>4, <3>2 DEF TileAfter
  <2>2. WayTo(px, d.x, 0) = FirstWay(px, d.x) /\ WayTo(py, d.y, 0) = FirstWay(py, d.y)
    BY DEF WayTo, FirstWay
  <2>3. /\ walk' = [x |-> TileAfter(px, d.x, 0), y |-> TileAfter(py, d.y, 0),
                    step_x |-> StepOf(d.x), step_y |-> StepOf(d.y)]
        /\ ahead' = [x |-> WayTo(px, d.x, 0), y |-> WayTo(py, d.y, 0)]
    BY <1>1, <1>5, <2>1, <2>2
  <2>4. QED
    BY <1>2, <2>3 DEF WalkAt
<1>8. InRoom(d, 0, 0)'
  <2>1. LastColumn(d) \in Nat /\ LastRow(d) \in Nat
    BY <1>3, RoomOfRay
  <2>2. InRoom(d, 0, 0)
    BY <2>1 DEF InRoom
  <2>3. InRoom(d, 0, 0)' = InRoom(d, 0, 0)
    BY <1>2 DEF InRoom, LastColumn, LastRow
  <2>4. QED
    BY <2>2, <2>3
<1>9. QED
  BY <1>1, <1>2, <1>3, <1>6, <1>7, <1>8, Zenon DEF WalkInv

\* While the player stays, the lines stay.
LEMMA LinesStay ==
  ASSUME px' = px, py' = py, NEW CONSTANT d, NEW CONSTANT a, NEW CONSTANT b
  PROVE  /\ InRoom(d, a, b)' = InRoom(d, a, b)
         /\ AtColumn(d, a, b)' = AtColumn(d, a, b)
         /\ AtRow(d, a, b)' = AtRow(d, a, b)
<1>1. InRoom(d, a, b)' = InRoom(d, a, b)
  BY DEF InRoom, LastColumn, LastRow
<1>2. AtColumn(d, a, b)' = AtColumn(d, a, b)
  BY DEF AtColumn, LastColumn, LastRow
<1>3. AtRow(d, a, b)' = AtRow(d, a, b)
  BY DEF AtRow, LastColumn, LastRow
<1>4. QED
  BY <1>1, <1>2, <1>3

\* A round of the walk takes it across the line the ray crosses next, or, in a
\* wall, ends it.
LEMMA WalkStepsOn ==
  ASSUME PlayerInv, WalkInv, WalkOfRay, WalkSteps
  PROVE  WalkInv'
<1> PICK d : d = dir
  OBVIOUS
<1>1. /\ walk # NoWalk /\ dir # NoRay /\ dir' = dir /\ dir \in Directions
      /\ phase = "casting" /\ phase' = phase /\ px' = px /\ py' = py
  BY DEF WalkSteps, WalkInv, WalkOfRay
<1>2. d \in [x : Int, y : Int] /\ (d.x # 0 \/ d.y # 0)
  <2>1. dir \in [x : Int, y : Int] /\ dir # [x |-> 0, y |-> 0]
    BY <1>1, RaysAssumption
  <2>2. QED
    BY <2>1
<1>3. PICK a \in Nat, b \in Nat :
        /\ WalkAt(d, a, b)
        /\ InRoom(d, a, b) \/ AtColumn(d, a, b) \/ AtRow(d, a, b)
  BY <1>1 DEF WalkInv
<1> DEFINE col == TileAfter(px, d.x, a)
           row == TileAfter(py, d.y, b)
<1>4. /\ walk.x = col /\ walk.y = row
      /\ walk = [x |-> col, y |-> row, step_x |-> StepOf(d.x), step_y |-> StepOf(d.y)]
      /\ ahead = [x |-> WayTo(px, d.x, a), y |-> WayTo(py, d.y, b)]
  BY <1>3 DEF WalkAt
<1>5. /\ InRoom(d, a, b) =>
           col \in Columns /\ row \in Rows /\ tiles[row][col] = -1
      /\ AtColumn(d, a, b) \/ AtRow(d, a, b) =>
           col \in Columns /\ row \in Rows /\ tiles[row][col] # -1
  BY <1>2, TilesOfWalk, Zenon
<1>6. col \in Columns /\ row \in Rows /\ tiles[row][col] \in {-1, 1, 2, 4, 9}
  BY <1>3, <1>5, TileValues
<1>7. /\ d.x \in Int /\ d.y \in Int /\ px \in Int /\ py \in Int
      /\ col \in Int /\ row \in Int
      /\ a + 1 \in Nat /\ b + 1 \in Nat
      /\ TileAfter(px, d.x, a + 1) = col + StepOf(d.x)
      /\ TileAfter(py, d.y, b + 1) = row + StepOf(d.y)
      /\ TileAfter(px, d.x, a + 1) \in Int /\ TileAfter(py, d.y, b + 1) \in Int
      /\ WayTo(px, d.x, a + 1) = WayTo(px, d.x, a) + TILE_SIZE
      /\ WayTo(py, d.y, b + 1) = WayTo(py, d.y, b) + TILE_SIZE
  <2>1. d.x \in Int /\ d.y \in Int /\ px \in Int /\ py \in Int
    BY <1>2, RoomOfRay
  <2>2. a + 1 \in Nat /\ b + 1 \in Nat
    OBVIOUS
  <2>3. /\ WayTo(px, d.x, a + 1) = WayTo(px, d.x, a) + TILE_SIZE
        /\ WayTo(py, d.y, b + 1) = WayTo(py, d.y, b) + TILE_SIZE
    BY <2>1, WayStep
  <2>4. /\ TileAfter(px, d.x, a) \in Int /\ TileAfter(px, d.x, a + 1) \in Int
        /\ TileAfter(py, d.y, b) \in Int /\ TileAfter(py, d.y, b + 1) \in Int
    BY <2>1, <2>2, LineNumber
  <2>5. ASSUME NEW c \in Int, NEW e \in Int, NEW k \in Nat
        PROVE  TileAfter(c, e, k + 1) = TileAfter(c, e, k) + StepOf(e)
    <3>1. TileOf(c) \in Int
      BY LineNumber
    <3>2. CASE StepOf(e) = 1
      BY <3>1, <3>2 DEF TileAfter
    <3>3. CASE StepOf(e) = -1
      BY <3>1, <3>3 DEF TileAfter
    <3>4. QED
      BY <3>2, <3>3 DEF StepOf
  <2>6. QED
    BY <2>1, <2>2, <2>3, <2>4, <2>5
<1>9. dir' = d /\ d \in Directions /\ d # NoRay /\ phase' = "casting"
  BY <1>1
<1> HIDE DEF col, row
<1>8. CASE InRoom(d, a, b) /\ XComesFirst
  <2>1. /\ walk' = [walk EXCEPT !.x = @ + walk.step_x]
        /\ ahead' = [ahead EXCEPT !.x = @ + TILE_SIZE]
    <3>1. ContainsTile(walk.x, walk.y) /\ tiles[walk.y][walk.x] < 0
      <4>1. tiles[row][col] = -1
        BY <1>5, <1>8
      <4>2. tiles[row][col] < 0
        BY <4>1
      <4>3. QED
        BY <1>4, <1>6, <4>2 DEF ContainsTile
    <3>2. QED
      BY <1>8, <3>1 DEF WalkSteps
  <2>2. /\ walk' = [x |-> TileAfter(px, d.x, a + 1), y |-> TileAfter(py, d.y, b),
                    step_x |-> StepOf(d.x), step_y |-> StepOf(d.y)]
        /\ ahead' = [x |-> WayTo(px, d.x, a + 1), y |-> WayTo(py, d.y, b)]
    BY <1>4, <1>7, <2>1 DEF row
  <2>3. WalkAt(d, a + 1, b)'
    BY <1>1, <2>2 DEF WalkAt
  <2>4. InRoom(d, a + 1, b) \/ AtColumn(d, a + 1, b)
    <3>1. d.x # 0 /\ (d.y = 0 \/ WayTo(px, d.x, a) * Abs(d.y) < WayTo(py, d.y, b) * Abs(d.x))
      BY <1>4, <1>8 DEF XComesFirst
    <3>2. QED
      BY <1>2, <1>8, <3>1, CrossColumn
  <2>5. walk' # NoWalk
    <3>1. StepOf(d.x) \in Int /\ StepOf(d.y) \in Int
      BY DEF StepOf
    <3>2. walk' \in [x : Int, y : Int, step_x : Int, step_y : Int]
      BY <1>7, <2>2, <3>1 DEF row
    <3>3. QED
      BY <3>2, SightAssumption
  <2>6. InRoom(d, a + 1, b)' \/ AtColumn(d, a + 1, b)'
    BY <1>1, <2>4, LinesStay
  <2>7. QED
    BY <1>7, <1>9, <2>3, <2>5, <2>6, Zenon DEF WalkInv
<1>10. CASE InRoom(d, a, b) /\ ~XComesFirst
  <2>1. /\ walk' = [walk EXCEPT !.y = @ + walk.step_y]
        /\ ahead' = [ahead EXCEPT !.y = @ + TILE_SIZE]
    <3>1. ContainsTile(walk.x, walk.y) /\ tiles[walk.y][walk.x] < 0
      <4>1. tiles[row][col] = -1
        BY <1>5, <1>10
      <4>2. tiles[row][col] < 0
        BY <4>1
      <4>3. QED
        BY <1>4, <1>6, <4>2 DEF ContainsTile
    <3>2. QED
      BY <1>10, <3>1 DEF WalkSteps
  <2>2. /\ walk' = [x |-> TileAfter(px, d.x, a), y |-> TileAfter(py, d.y, b + 1),
                    step_x |-> StepOf(d.x), step_y |-> StepOf(d.y)]
        /\ ahead' = [x |-> WayTo(px, d.x, a), y |-> WayTo(py, d.y, b + 1)]
    BY <1>4, <1>7, <2>1 DEF col
  <2>3. WalkAt(d, a, b + 1)'
    BY <1>1, <2>2 DEF WalkAt
  <2>4. InRoom(d, a, b + 1) \/ AtRow(d, a, b + 1)
    <3>1. \/ d.x = 0
          \/ /\ d.y # 0
             /\ ~(WayTo(px, d.x, a) * Abs(d.y) < WayTo(py, d.y, b) * Abs(d.x))
      BY <1>4, <1>10 DEF XComesFirst
    <3>2. /\ WayTo(px, d.x, a) * Abs(d.y) \in Int
          /\ WayTo(py, d.y, b) * Abs(d.x) \in Int
      <4>1. /\ WayTo(px, d.x, a) \in Nat /\ WayTo(py, d.y, b) \in Nat
            /\ Abs(d.x) \in Nat /\ Abs(d.y) \in Nat
        BY <1>2, RoomOfRay
      <4>2. QED
        BY <4>1
    <3>3. d.y # 0 /\ (d.x = 0 \/ WayTo(py, d.y, b) * Abs(d.x) <= WayTo(px, d.x, a) * Abs(d.y))
      BY <1>2, <3>1, <3>2
    <3>4. QED
      BY <1>2, <1>10, <3>3, CrossRow
  <2>5. walk' # NoWalk
    <3>1. StepOf(d.x) \in Int /\ StepOf(d.y) \in Int
      BY DEF StepOf
    <3>2. walk' \in [x : Int, y : Int, step_x : Int, step_y : Int]
      BY <1>7, <2>2, <3>1 DEF col
    <3>3. QED
      BY <3>2, SightAssumption
  <2>6. InRoom(d, a, b + 1)' \/ AtRow(d, a, b + 1)'
    BY <1>1, <2>4, LinesStay
  <2>7. QED
    BY <1>7, <1>9, <2>3, <2>5, <2>6, Zenon DEF WalkInv
<1>11. CASE AtColumn(d, a, b) \/ AtRow(d, a, b)
  <2>1. ContainsTile(walk.x, walk.y) /\ ~(tiles[walk.y][walk.x] < 0)
    <3>1. tiles[row][col] # -1
      BY <1>5, <1>11
    <3>2. ~(tiles[row][col] < 0)
      BY <1>6, <3>1
    <3>3. QED
      BY <1>4, <1>6, <3>2 DEF ContainsTile
  <2>2. walk' = NoWalk /\ last' = <<col, row>>
    BY <1>4, <2>1 DEF WalkSteps
  <2>3. last' = <<TileAfter(px, d.x, a), TileAfter(py, d.y, b)>>'
    BY <1>1, <2>2 DEF TileAfter, TileOf, col, row
  <2>4. AtColumn(d, a, b)' \/ AtRow(d, a, b)'
    BY <1>1, <1>11, LinesStay
  <2>5. QED
    BY <1>9, <2>2, <2>3, <2>4, Zenon DEF WalkInv
<1>12. QED
  BY <1>3, <1>8, <1>10, <1>11

\* A coordinate is on a tile, or at its border; it is on a grid line; and unless it
\* is, the tile is where one looks it up.
Touches(c, den, t) == t * TILE_SIZE * den <= c /\ c <= (t + 1) * TILE_SIZE * den
OnLine(c, den)     == c % (TILE_SIZE * den) = 0
FoundIn(c, den, t) == ~OnLine(c, den) => c \div (TILE_SIZE * den) = t

\* What InTile says, in these words.
LEMMA TouchesTile ==
  ASSUME NEW c \in Int, NEW d \in Int, NEW k \in Nat,
         NEW way \in Nat, NEW den \in Nat, den > 0, Passes(c, d, k, way, den),
         NEW v, v = c * den + way * d
  PROVE  /\ v \in Int /\ Touches(v, den, TileAfter(c, d, k))
         /\ FoundIn(v, den, TileAfter(c, d, k))
<1> DEFINE t == TileAfter(c, d, k)
<1>1. t = TileAfter(c, d, k)
  OBVIOUS
<1> HIDE DEF t
<1>2. /\ v \in Int
      /\ t * TILE_SIZE * den <= v /\ v <= (t + 1) * TILE_SIZE * den
      /\ v % (TILE_SIZE * den) # 0 => v \div (TILE_SIZE * den) = t
  BY <1>1, InTile
<1>3. QED
  BY <1>1, <1>2, Zenon DEF Touches, OnLine, FoundIn

\* Where a ray crosses a line it leaves one tile and enters the next.
LEMMA PassesLine ==
  ASSUME NEW c \in Int, NEW d \in Int, d # 0, NEW k \in Nat
  PROVE  /\ Passes(c, d, k, WayTo(c, d, k), Abs(d))
         /\ Passes(c, d, k + 1, WayTo(c, d, k), Abs(d))
         /\ c * Abs(d) + WayTo(c, d, k) * d = GridLine(c, d, k) * Abs(d)
<1>1. Abs(d) \in Nat /\ (k + 1) - 1 = k /\ k + 1 \in Nat /\ k <= k + 1 /\ k <= k
  BY Speed
<1>2. /\ WayTo(c, d, k) * Abs(d) \in Nat
      /\ WayTo(c, d, k) * Abs(d) <= WayTo(c, d, k + 1) * Abs(d)
      /\ WayTo(c, d, k) * Abs(d) <= WayTo(c, d, k) * Abs(d)
  BY <1>1, FartherLine
<1>3. k > 0 => WayTo(c, d, k - 1) * Abs(d) <= WayTo(c, d, k) * Abs(d)
  <2>1. k > 0 => k - 1 \in Nat /\ k - 1 <= k
    OBVIOUS
  <2>2. QED
    BY <1>1, <2>1, FartherLine
<1>4. Passes(c, d, k, WayTo(c, d, k), Abs(d))
  BY <1>2, <1>3, Zenon DEF Passes
<1>5. Passes(c, d, k + 1, WayTo(c, d, k), Abs(d))
  BY <1>1, <1>2, Zenon DEF Passes
<1>6. c * Abs(d) + WayTo(c, d, k) * d = GridLine(c, d, k) * Abs(d)
  <2> DEFINE line == GridLine(c, d, k)
             way == WayTo(c, d, k)
  <2>1. /\ line \in Int /\ way \in Nat
        /\ d > 0 => way = line - c
        /\ d <= 0 => way = c - line
    <3>1. /\ GridLine(c, d, k) \in Int /\ WayTo(c, d, k) \in Nat
          /\ d > 0 => WayTo(c, d, k) = GridLine(c, d, k) - c
          /\ d <= 0 => WayTo(c, d, k) = c - GridLine(c, d, k)
      BY LineType
    <3>2. QED
      BY <3>1
  <2> HIDE DEF line, way
  <2>2. CASE d > 0
    <3>1. Abs(d) = d /\ way = line - c
      BY <2>1, <2>2, Speed
    <3>2. c * d + (line - c) * d = line * d
      BY <2>1
    <3>3. QED
      BY <3>1, <3>2 DEF line, way
  <2>3. CASE d < 0
    <3>1. Abs(d) = -d /\ way = c - line
      BY <2>1, <2>3, Speed
    <3>2. c * (-d) + (c - line) * d = line * (-d)
      BY <2>1
    <3>3. QED
      BY <3>1, <3>2 DEF line, way
  <2>4. QED
    BY <2>2, <2>3
<1>7. QED
  BY <1>4, <1>5, <1>6

\* The point where a ray crosses a vertical line is on the tiles it leaves and
\* enters there, and unless it is a corner of the grid the wall is looked up in the
\* one it enters.
LEMMA VerticalPoint ==
  ASSUME PlayerInv, NEW d \in [x : Int, y : Int], d.x # 0, NEW k \in Nat,
         NEW q, q = VerticalCrossing(d, k),
         NEW b \in Nat, Passes(py, d.y, b, WayTo(px, d.x, k), Abs(d.x)),
         NEW row, row = TileAfter(py, d.y, b)
  PROVE  /\ Touches(q.x, q.den, TileAfter(px, d.x, k))
         /\ Touches(q.x, q.den, TileAfter(px, d.x, k + 1))
         /\ Touches(q.y, q.den, row)
         /\ ~OnLine(q.y, q.den) => VerticalTile(d, k) = <<TileAfter(px, d.x, k + 1), row>>
<1> DEFINE den == Abs(d.x)
           way == WayTo(px, d.x, k)
           across == py * den + way * d.y
           along == GridLine(px, d.x, k) * den
           back == IF Forward(d.x) THEN 0 ELSE 1
           m == TILE_SIZE * den
<1>1. /\ d.x \in Int /\ d.y \in Int /\ px \in Int /\ py \in Int
      /\ den \in Nat /\ den > 0 /\ way \in Nat /\ k + 1 \in Nat
  BY RoomOfRay
<1>2. q.x = along /\ q.y = across /\ q.den = den
  BY DEF VerticalCrossing, WayTo
<1>3. /\ Passes(px, d.x, k, way, den) /\ Passes(px, d.x, k + 1, way, den)
      /\ px * den + way * d.x = along
  BY <1>1, PassesLine
<1>4. Passes(py, d.y, b, way, den)
  OBVIOUS
<1> HIDE DEF den, way, along, across
<1>5. /\ Touches(along, den, TileAfter(px, d.x, k))
      /\ Touches(along, den, TileAfter(px, d.x, k + 1))
  BY <1>1, <1>3, TouchesTile, Zenon
<1>6. /\ across \in Int /\ Touches(across, den, row)
      /\ FoundIn(across, den, row)
  <2>1. py * den + way * d.y = across
    BY DEF across
  <2>2. /\ across \in Int /\ Touches(across, den, TileAfter(py, d.y, b))
        /\ FoundIn(across, den, TileAfter(py, d.y, b))
    BY <1>1, <1>4, <2>1, TouchesTile, Zenon
  <2>3. row = TileAfter(py, d.y, b)
    OBVIOUS
  <2>4. QED
    BY <2>2, <2>3, Zenon
<1>7. ASSUME ~OnLine(q.y, q.den)
      PROVE  VerticalTile(d, k) = <<TileAfter(px, d.x, k + 1), row>>
  <2>1. across \div m = row
    BY <1>2, <1>6, <1>7 DEF FoundIn
  <2>2. (along - back * den) \div m = TileAfter(px, d.x, k + 1)
    BY <1>1, BehindLine DEF along
  <2>3. VerticalTile(d, k) = TileBehind(q, back, 0)
    BY DEF VerticalTile
  <2> HIDE DEF back
  <2>4. across - 0 * den = across
    BY <1>1, <1>6
  <2>5. QED
    BY <1>2, <2>1, <2>2, <2>3, <2>4 DEF TileBehind
<1>8. QED
  BY <1>2, <1>5, <1>6, <1>7

\* The same of a horizontal line.
LEMMA HorizontalPoint ==
  ASSUME PlayerInv, NEW d \in [x : Int, y : Int], d.y # 0, NEW k \in Nat,
         NEW p, p = HorizontalCrossing(d, k),
         NEW a \in Nat, Passes(px, d.x, a, WayTo(py, d.y, k), Abs(d.y)),
         NEW col, col = TileAfter(px, d.x, a)
  PROVE  /\ Touches(p.y, p.den, TileAfter(py, d.y, k))
         /\ Touches(p.y, p.den, TileAfter(py, d.y, k + 1))
         /\ Touches(p.x, p.den, col)
         /\ ~OnLine(p.x, p.den) => HorizontalTile(d, k) = <<col, TileAfter(py, d.y, k + 1)>>
<1> DEFINE den == Abs(d.y)
           way == WayTo(py, d.y, k)
           across == px * den + way * d.x
           along == GridLine(py, d.y, k) * den
           back == IF Forward(d.y) THEN 0 ELSE 1
           m == TILE_SIZE * den
<1>1. /\ d.x \in Int /\ d.y \in Int /\ px \in Int /\ py \in Int
      /\ den \in Nat /\ den > 0 /\ way \in Nat /\ k + 1 \in Nat
  BY RoomOfRay
<1>2. p.y = along /\ p.x = across /\ p.den = den
  BY DEF HorizontalCrossing, WayTo
<1>3. /\ Passes(py, d.y, k, way, den) /\ Passes(py, d.y, k + 1, way, den)
      /\ py * den + way * d.y = along
  BY <1>1, PassesLine
<1>4. Passes(px, d.x, a, way, den)
  OBVIOUS
<1> HIDE DEF den, way, along, across
<1>5. /\ Touches(along, den, TileAfter(py, d.y, k))
      /\ Touches(along, den, TileAfter(py, d.y, k + 1))
  BY <1>1, <1>3, TouchesTile, Zenon
<1>6. /\ across \in Int /\ Touches(across, den, col)
      /\ FoundIn(across, den, col)
  <2>1. px * den + way * d.x = across
    BY DEF across
  <2>2. /\ across \in Int /\ Touches(across, den, TileAfter(px, d.x, a))
        /\ FoundIn(across, den, TileAfter(px, d.x, a))
    BY <1>1, <1>4, <2>1, TouchesTile, Zenon
  <2>3. col = TileAfter(px, d.x, a)
    OBVIOUS
  <2>4. QED
    BY <2>2, <2>3, Zenon
<1>7. ASSUME ~OnLine(p.x, p.den)
      PROVE  HorizontalTile(d, k) = <<col, TileAfter(py, d.y, k + 1)>>
  <2>1. across \div m = col
    BY <1>2, <1>6, <1>7 DEF FoundIn
  <2>2. (along - back * den) \div m = TileAfter(py, d.y, k + 1)
    BY <1>1, BehindLine DEF along
  <2>3. HorizontalTile(d, k) = TileBehind(p, 0, back)
    BY DEF HorizontalTile
  <2> HIDE DEF back
  <2>4. across - 0 * den = across
    BY <1>1, <1>6
  <2>5. QED
    BY <1>2, <2>1, <2>2, <2>3, <2>4 DEF TileBehind
<1>8. QED
  BY <1>2, <1>5, <1>6, <1>7

\* Where the walk has come to the outer column, the loop along the vertical lines
\* meets that wall, and the other loop none that is nearer.
LEMMA ColumnHit ==
  ASSUME PlayerInv, NEW d \in [x : Int, y : Int], NEW a \in Nat, NEW b \in Nat,
         AtColumn(d, a, b)
  PROVE  /\ VerticalHits(d) = {LastColumn(d)}
         /\ \A k \in HorizontalHits(d) :
              WayTo(px, d.x, LastColumn(d)) * Abs(d.y) <= WayTo(py, d.y, k) * Abs(d.x)
<1> DEFINE final == LastColumn(d)
           sx == Abs(d.x)
           sy == Abs(d.y)
           X(k) == WayTo(px, d.x, k)
           Y(k) == WayTo(py, d.y, k)
<1>1. /\ d.x \in Int /\ d.y \in Int /\ px \in Int /\ py \in Int
      /\ sx \in Nat /\ sy \in Nat /\ (d.x # 0 => sx > 0) /\ (d.y # 0 => sy > 0)
      /\ final \in Nat /\ LastRow(d) \in Nat
  BY RoomOfRay
<1>2. /\ d.x # 0 /\ b \in 0 .. LastRow(d)
      /\ d.y = 0 => b = 0
      /\ d.y # 0 => X(final) * sy < Y(b) * sx
  <2>1. /\ d.x # 0 /\ a = final + 1 /\ b \in 0 .. LastRow(d)
        /\ d.y # 0 => X(a - 1) * sy < Y(b) * sx
        /\ d.y = 0 => b = 0
    BY DEF AtColumn, Passes
  <2> HIDE DEF final, sx, sy
  <2>2. a - 1 = final
    BY <1>1, <2>1
  <2>3. QED
    BY <2>1, <2>2
<1>3. \A j, k \in Nat : j <= k =>
        /\ X(j) * sy \in Nat /\ X(k) * sy \in Nat /\ X(j) * sy <= X(k) * sy
        /\ Y(j) * sx \in Nat /\ Y(k) * sx \in Nat /\ Y(j) * sx <= Y(k) * sx
        /\ d.y # 0 /\ j < k => X(j) * sy < X(k) * sy
  BY <1>1, FartherLine
<1>4. X(final) * sy \in Nat /\ Y(b) * sx \in Nat /\ Y(LastRow(d)) * sx \in Nat
      /\ Y(b) * sx <= Y(LastRow(d)) * sx
  <2> HIDE DEF final, sx, sy, X, Y
  <2>1. final <= final /\ b <= LastRow(d)
    BY <1>1, <1>2
  <2>2. QED
    BY <1>1, <1>3, <2>1
<1>5. X(final) * sy <= Y(LastRow(d)) * sx
  <2> HIDE DEF final, sx, sy, X, Y
  <2>1. CASE d.y # 0
    BY <1>2, <1>4, <2>1
  <2>2. CASE d.y = 0
    <3>1. sy = 0
      BY <2>2 DEF sy, Abs
    <3>2. X(final) \in Nat
      BY <1>1, RoomOfRay DEF X
    <3>3. X(final) * sy = 0
      BY <3>1, <3>2
    <3>4. QED
      BY <1>4, <3>3
  <2>3. QED
    BY <2>1, <2>2
<1>6. PICK k \in VerticalHits(d) : k <= final
  <2>1. /\ WholeWay(px, d.x, MAP_NUM_COLS) = X(final)
        /\ WholeWay(py, d.y, MAP_NUM_ROWS) = Y(LastRow(d))
    BY <1>1, WholeIsLast, Sizes DEF PlayerInv, LastColumn, LastRow
  <2>2. QED
    BY <1>2, <1>5, <2>1, VerticalReaches DEF LastColumn
<1>7. k \in Nat /\ \A n \in VerticalHits(d) : n = k
  BY VerticalHit
<1>8. k = final
  <2> SUFFICES ASSUME k < final PROVE FALSE
    BY <1>1, <1>6, <1>7
  <2>1. d.y # 0 /\ Y(LastRow(d)) * sx <= X(k) * sy
    BY NoEarlyVertical
  <2> HIDE DEF final, sx, sy, X, Y
  <2>2. X(k) * sy < X(final) * sy /\ X(k) * sy \in Nat
    BY <1>1, <1>3, <1>6, <1>7, <2>1
  <2>3. QED
    BY <1>4, <1>5, <2>1, <2>2
<1>9. VerticalHits(d) = {final}
  BY <1>6, <1>7, <1>8
<1>10. ASSUME NEW n \in HorizontalHits(d)
       PROVE  X(final) * sy <= Y(n) * sx
  <2>1. d.y # 0 /\ n \in Nat
    BY HorizontalHit
  <2>2. CASE n < b
    <3>1. n < LastRow(d)
      BY <1>1, <1>2, <2>1, <2>2
    <3>2. QED
      BY <3>1, NoEarlyHorizontal
  <2>3. CASE b <= n
    <3> HIDE DEF final, sx, sy, X, Y
    <3>1. Y(b) * sx <= Y(n) * sx /\ Y(n) * sx \in Nat
      BY <1>3, <2>1, <2>3
    <3>2. QED
      BY <1>2, <1>4, <2>1, <3>1
  <2>4. QED
    BY <2>1, <2>2, <2>3
<1>11. QED
  BY <1>9, <1>10

\* Where it has come to the outer row, the loop along the horizontal lines meets
\* that wall; the other loop may meet one that is equally near, on the line after
\* the column the walk is in.
LEMMA RowHit ==
  ASSUME PlayerInv, NEW d \in [x : Int, y : Int], NEW a \in Nat, NEW b \in Nat,
         AtRow(d, a, b)
  PROVE  /\ HorizontalHits(d) = {LastRow(d)}
         /\ \A k \in VerticalHits(d) :
              /\ WayTo(py, d.y, LastRow(d)) * Abs(d.x) <= WayTo(px, d.x, k) * Abs(d.y)
              /\ WayTo(py, d.y, LastRow(d)) * Abs(d.x) = WayTo(px, d.x, k) * Abs(d.y)
                   => k = a
<1> DEFINE final == LastRow(d)
           sx == Abs(d.x)
           sy == Abs(d.y)
           X(k) == WayTo(px, d.x, k)
           Y(k) == WayTo(py, d.y, k)
<1>1. /\ d.x \in Int /\ d.y \in Int /\ px \in Int /\ py \in Int
      /\ sx \in Nat /\ sy \in Nat /\ (d.x # 0 => sx > 0) /\ (d.y # 0 => sy > 0)
      /\ final \in Nat /\ LastColumn(d) \in Nat
  BY RoomOfRay
<1>2. /\ d.y # 0 /\ a \in 0 .. LastColumn(d)
      /\ d.x = 0 => a = 0
      /\ d.x # 0 => Y(final) * sx <= X(a) * sy
      /\ a > 0 => X(a - 1) * sy < Y(final) * sx
  <2>1. /\ d.y # 0 /\ b = final + 1 /\ a \in 0 .. LastColumn(d)
        /\ d.x # 0 => Y(b - 1) * sx <= X(a) * sy
        /\ a > 0 => X(a - 1) * sy < Y(b - 1) * sx
        /\ d.x = 0 => a = 0
    BY DEF AtRow, Passes
  <2> HIDE DEF final, sx, sy
  <2>2. b - 1 = final
    BY <1>1, <2>1
  <2>3. QED
    BY <2>1, <2>2
<1>3. \A j, k \in Nat : j <= k =>
        /\ X(j) * sy \in Nat /\ X(k) * sy \in Nat /\ X(j) * sy <= X(k) * sy
        /\ Y(j) * sx \in Nat /\ Y(k) * sx \in Nat /\ Y(j) * sx <= Y(k) * sx
        /\ d.x # 0 /\ j < k => Y(j) * sx < Y(k) * sx
        /\ d.y # 0 /\ j < k => X(j) * sy < X(k) * sy
  BY <1>1, FartherLine
<1>4. /\ Y(final) * sx \in Nat /\ X(a) * sy \in Nat /\ X(LastColumn(d)) * sy \in Nat
      /\ X(a) * sy <= X(LastColumn(d)) * sy
  <2> HIDE DEF final, sx, sy, X, Y
  <2>1. final <= final /\ a <= LastColumn(d)
    BY <1>1, <1>2
  <2>2. QED
    BY <1>1, <1>3, <2>1
<1>5. Y(final) * sx <= X(LastColumn(d)) * sy
  <2> HIDE DEF final, sx, sy, X, Y
  <2>1. CASE d.x # 0
    BY <1>2, <1>4, <2>1
  <2>2. CASE d.x = 0
    <3>1. sx = 0
      BY <2>2 DEF sx, Abs
    <3>2. Y(final) \in Nat
      BY <1>1, RoomOfRay DEF Y
    <3>3. Y(final) * sx = 0
      BY <3>1, <3>2
    <3>4. QED
      BY <1>4, <3>3
  <2>3. QED
    BY <2>1, <2>2
<1>6. PICK k \in HorizontalHits(d) : k <= final
  <2>1. /\ WholeWay(py, d.y, MAP_NUM_ROWS) = Y(final)
        /\ WholeWay(px, d.x, MAP_NUM_COLS) = X(LastColumn(d))
    BY <1>1, WholeIsLast, Sizes DEF PlayerInv, LastColumn, LastRow
  <2>2. QED
    BY <1>2, <1>5, <2>1, HorizontalReaches DEF LastRow
<1>7. k \in Nat /\ \A n \in HorizontalHits(d) : n = k
  BY HorizontalHit
<1>8. k = final
  <2> SUFFICES ASSUME k < final PROVE FALSE
    BY <1>1, <1>6, <1>7
  <2>1. d.x # 0 /\ X(LastColumn(d)) * sy <= Y(k) * sx
    BY NoEarlyHorizontal
  <2> HIDE DEF final, sx, sy, X, Y
  <2>2. Y(k) * sx < Y(final) * sx /\ Y(k) * sx \in Nat
    BY <1>1, <1>3, <1>6, <1>7, <2>1
  <2>3. QED
    BY <1>4, <1>5, <2>1, <2>2
<1>9. HorizontalHits(d) = {final}
  BY <1>6, <1>7, <1>8
<1>10. ASSUME NEW n \in VerticalHits(d)
       PROVE  /\ Y(final) * sx <= X(n) * sy
              /\ Y(final) * sx = X(n) * sy => n = a
  <2>1. d.x # 0 /\ n \in Nat
    BY VerticalHit
  <2>2. a <= n
    <3> SUFFICES ASSUME n < a PROVE FALSE
      BY <2>1
    <3>1. n < LastColumn(d)
      BY <1>1, <1>2, <2>1
    <3>2. Y(final) * sx <= X(n) * sy
      BY <3>1, NoEarlyVertical
    <3> HIDE DEF final, sx, sy, X, Y
    <3>3. a > 0 /\ a - 1 \in Nat /\ n <= a - 1
      BY <2>1
    <3>4. X(n) * sy <= X(a - 1) * sy /\ X(n) * sy \in Nat /\ X(a - 1) * sy \in Nat
      BY <1>3, <2>1, <3>3
    <3>5. QED
      BY <1>2, <1>4, <3>2, <3>3, <3>4
  <2> HIDE DEF final, sx, sy, X, Y
  <2>3. X(a) * sy <= X(n) * sy /\ X(n) * sy \in Nat
    BY <1>3, <2>1, <2>2
  <2>4. a < n => X(a) * sy < X(n) * sy
    BY <1>2, <1>3, <2>1
  <2>5. QED
    BY <1>2, <1>4, <2>1, <2>2, <2>3, <2>4
<1>11. QED
  BY <1>9, <1>10

\* What the property says of a ray, and the tile the walk marked last.
MeetsWall(t, r) ==
  /\ tiles[t[2]][t[1]] # -1
  /\ \A p \in r.ends :
       /\ Touches(p.x, p.den, t[1]) /\ Touches(p.y, p.den, t[2])
       /\ \E row \in Rows, col \in Columns :
            tiles[row][col] = -1 /\ Touches(p.x, p.den, col) /\ Touches(p.y, p.den, row)
       /\ ~(OnLine(p.x, p.den) /\ OnLine(p.y, p.den))
            => r.texture_id = {tiles[t[2]][t[1]]}

\* The tile inside the walls after so many lines.
LEMMA OpenTile ==
  ASSUME PlayerInv, NEW d \in [x : Int, y : Int],
         NEW a \in 0 .. LastColumn(d), NEW b \in 0 .. LastRow(d)
  PROVE  /\ TileAfter(px, d.x, a) \in Columns /\ TileAfter(py, d.y, b) \in Rows
         /\ tiles[TileAfter(py, d.y, b)][TileAfter(px, d.x, a)] = -1
<1>1. /\ TileAfter(px, d.x, a) \in 1 .. MAP_NUM_COLS - 2
      /\ TileAfter(py, d.y, b) \in 1 .. MAP_NUM_ROWS - 2
  BY RoomTiles, Sizes DEF PlayerInv, LastColumn, LastRow
<1>2. TileAfter(px, d.x, a) \in Columns /\ TileAfter(py, d.y, b) \in Rows
  BY <1>1, Sizes DEF Columns, Rows
<1>3. QED
  BY <1>1, <1>2, TileValues

\* The nearer hit of a ray whose walk has come to the outer column.
LEMMA ColumnEnd ==
  ASSUME PlayerInv, NEW d \in [x : Int, y : Int], NEW a \in Nat, NEW b \in Nat,
         AtColumn(d, a, b),
         NEW q, q = VerticalCrossing(d, LastColumn(d)),
         NEW col, col = TileAfter(px, d.x, a), NEW row, row = TileAfter(py, d.y, b)
  PROVE  /\ VerticalEnds(d) = {q}
         /\ \A p \in HorizontalEnds(d) : ~Nearer(p, q)
         /\ tiles[row][col] # -1
         /\ Touches(q.x, q.den, col) /\ Touches(q.y, q.den, row)
         /\ \E r \in Rows, c \in Columns :
              tiles[r][c] = -1 /\ Touches(q.x, q.den, c) /\ Touches(q.y, q.den, r)
         /\ ~(OnLine(q.x, q.den) /\ OnLine(q.y, q.den)) =>
              /\ \A p \in HorizontalEnds(d) : Nearer(q, p)
              /\ {WallTextureId(VerticalTile(d, k)) : k \in VerticalHits(d)}
                   = {tiles[row][col]}
<1> DEFINE final == LastColumn(d)
<1>1. /\ VerticalHits(d) = {final}
      /\ \A k \in HorizontalHits(d) :
           WayTo(px, d.x, final) * Abs(d.y) <= WayTo(py, d.y, k) * Abs(d.x)
  BY ColumnHit
<1>2. VerticalEnds(d) = {q}
  BY <1>1 DEF VerticalEnds
<1>3. /\ d.x # 0 /\ final \in Nat /\ OnLine(q.x, q.den)
      /\ q.den = Abs(d.x) /\ q.way = WayTo(px, d.x, final)
  <2>1. final \in VerticalHits(d)
    BY <1>1
  <2> HIDE DEF final
  <2>2. /\ d.x # 0 /\ final \in Nat /\ q.x % (TILE_SIZE * q.den) = 0
        /\ q.den = Abs(d.x) /\ q.way = WayTo(px, d.x, final)
    BY <2>1, VerticalHit DEF final
  <2>3. QED
    BY <2>2 DEF OnLine
<1>4. a = final + 1 /\ b \in 0 .. LastRow(d)
  BY DEF AtColumn
<1>5. Passes(py, d.y, b, WayTo(px, d.x, final), Abs(d.x))
  <2>1. Passes(py, d.y, b, WayTo(px, d.x, a - 1), Abs(d.x))
    BY DEF AtColumn
  <2>2. a - 1 = final
    BY <1>3, <1>4
  <2>3. QED
    BY <2>1, <2>2
<1>6. /\ Touches(q.x, q.den, TileAfter(px, d.x, final))
      /\ Touches(q.x, q.den, TileAfter(px, d.x, final + 1))
      /\ Touches(q.y, q.den, row)
      /\ ~OnLine(q.y, q.den) => VerticalTile(d, final) = <<TileAfter(px, d.x, final + 1), row>>
  BY <1>3, <1>5, VerticalPoint
<1>7. /\ TileAfter(px, d.x, final) \in Columns /\ row \in Rows
      /\ tiles[row][TileAfter(px, d.x, final)] = -1
  <2>1. final \in 0 .. LastColumn(d)
    BY <1>3
  <2>2. QED
    BY <1>4, <2>1, OpenTile
<1>8. tiles[row][col] # -1
  BY TilesOfWalk
<1>9. ASSUME NEW p \in HorizontalEnds(d)
      PROVE  ~Nearer(p, q) /\ (~OnLine(q.y, q.den) => Nearer(q, p))
  <2>1. PICK k \in HorizontalHits(d) : p = HorizontalCrossing(d, k)
    BY DEF HorizontalEnds
  <2>2. /\ k \in Nat /\ p.den = Abs(d.y) /\ p.way = WayTo(py, d.y, k)
    BY <2>1, HorizontalHit
  <2>3. q.way * p.den <= p.way * q.den
    BY <1>1, <1>3, <2>2
  <2>4. q.way * p.den \in Int /\ p.way * q.den \in Int
    <3>1. /\ WayTo(px, d.x, final) \in Nat /\ WayTo(py, d.y, k) \in Nat
          /\ Abs(d.x) \in Nat /\ Abs(d.y) \in Nat
      BY <1>3, <2>2, RoomOfRay
    <3>2. QED
      BY <1>3, <2>2, <3>1
  <2>5. p.way * q.den = q.way * p.den => OnLine(q.y, q.den)
    <3>1. final \in VerticalHits(d)
      BY <1>1
    <3>2. p.way * q.den = q.way * p.den => q.y % (TILE_SIZE * q.den) = 0
      BY <2>1, <3>1, EquallyNear DEF Tie
    <3>3. QED
      BY <3>2 DEF OnLine
  <2>6. QED
    BY <2>3, <2>4, <2>5 DEF Nearer
<1>10. ASSUME ~OnLine(q.y, q.den)
       PROVE  {WallTextureId(VerticalTile(d, k)) : k \in VerticalHits(d)}
                = {tiles[row][col]}
  <2>1. VerticalTile(d, final) = <<col, row>>
    BY <1>4, <1>6, <1>10
  <2> HIDE DEF final
  <2>2. {WallTextureId(VerticalTile(d, k)) : k \in VerticalHits(d)}
          = {WallTextureId(VerticalTile(d, final))}
    BY <1>1
  <2>3. QED
    BY <2>1, <2>2 DEF WallTextureId
<1> HIDE DEF final
<1>11. \E r \in Rows, c \in Columns :
         tiles[r][c] = -1 /\ Touches(q.x, q.den, c) /\ Touches(q.y, q.den, r)
  BY <1>6, <1>7, Zenon
<1>12. Touches(q.x, q.den, col) /\ Touches(q.y, q.den, row)
  BY <1>4, <1>6
<1>13. QED
  BY <1>2, <1>3, <1>8, <1>9, <1>10, <1>11, <1>12, Zenon

\* The nearer hit of a ray whose walk has come to the outer row; or, where both
\* loops meet a wall in the same corner of the grid, the other one.
LEMMA RowEnd ==
  ASSUME PlayerInv, NEW d \in [x : Int, y : Int], NEW a \in Nat, NEW b \in Nat,
         AtRow(d, a, b),
         NEW p, p = HorizontalCrossing(d, LastRow(d)),
         NEW col, col = TileAfter(px, d.x, a), NEW row, row = TileAfter(py, d.y, b)
  PROVE  /\ HorizontalEnds(d) = {p}
         /\ \A q \in VerticalEnds(d) : ~Nearer(q, p)
         /\ tiles[row][col] # -1
         /\ Touches(p.x, p.den, col) /\ Touches(p.y, p.den, row)
         /\ \E r \in Rows, c \in Columns :
              tiles[r][c] = -1 /\ Touches(p.x, p.den, c) /\ Touches(p.y, p.den, r)
         /\ ~(OnLine(p.x, p.den) /\ OnLine(p.y, p.den)) =>
              {WallTextureId(HorizontalTile(d, k)) : k \in HorizontalHits(d)}
                = {tiles[row][col]}
         /\ \A q \in VerticalEnds(d) : ~Nearer(p, q) =>
              /\ OnLine(q.x, q.den) /\ OnLine(q.y, q.den)
              /\ Touches(q.x, q.den, col) /\ Touches(q.y, q.den, row)
              /\ \E r \in Rows, c \in Columns :
                   tiles[r][c] = -1 /\ Touches(q.x, q.den, c) /\ Touches(q.y, q.den, r)
<1> DEFINE final == LastRow(d)
           open == TileAfter(py, d.y, final)
<1>1. /\ HorizontalHits(d) = {final}
      /\ \A k \in VerticalHits(d) :
           /\ WayTo(py, d.y, final) * Abs(d.x) <= WayTo(px, d.x, k) * Abs(d.y)
           /\ WayTo(py, d.y, final) * Abs(d.x) = WayTo(px, d.x, k) * Abs(d.y)
                => k = a
  BY RowHit
<1>2. HorizontalEnds(d) = {p}
  BY <1>1 DEF HorizontalEnds
<1>3. /\ d.y # 0 /\ final \in Nat /\ OnLine(p.y, p.den)
      /\ p.den = Abs(d.y) /\ p.way = WayTo(py, d.y, final)
  <2>1. final \in HorizontalHits(d)
    BY <1>1
  <2> HIDE DEF final
  <2>2. /\ d.y # 0 /\ final \in Nat /\ p.y % (TILE_SIZE * p.den) = 0
        /\ p.den = Abs(d.y) /\ p.way = WayTo(py, d.y, final)
    BY <2>1, HorizontalHit DEF final
  <2>3. QED
    BY <2>2 DEF OnLine
<1>4. b = final + 1 /\ a \in 0 .. LastColumn(d)
  BY DEF AtRow
<1>5. Passes(px, d.x, a, WayTo(py, d.y, final), Abs(d.y))
  <2>1. Passes(px, d.x, a, WayTo(py, d.y, b - 1), Abs(d.y))
    BY DEF AtRow
  <2>2. b - 1 = final
    BY <1>3, <1>4
  <2>3. QED
    BY <2>1, <2>2
<1>6. /\ Touches(p.y, p.den, TileAfter(py, d.y, final))
      /\ Touches(p.y, p.den, TileAfter(py, d.y, final + 1))
      /\ Touches(p.x, p.den, col)
      /\ ~OnLine(p.x, p.den) => HorizontalTile(d, final) = <<col, TileAfter(py, d.y, final + 1)>>
  BY <1>3, <1>5, HorizontalPoint
<1>7. col \in Columns /\ open \in Rows /\ tiles[open][col] = -1
  <2>1. final \in 0 .. LastRow(d)
    BY <1>3
  <2>2. QED
    BY <1>4, <2>1, OpenTile
<1>8. tiles[row][col] # -1
  BY TilesOfWalk
<1>9. ASSUME ~OnLine(p.x, p.den)
      PROVE  {WallTextureId(HorizontalTile(d, k)) : k \in HorizontalHits(d)}
               = {tiles[row][col]}
  <2>1. HorizontalTile(d, final) = <<col, row>>
    BY <1>4, <1>6, <1>9
  <2> HIDE DEF final
  <2>2. {WallTextureId(HorizontalTile(d, k)) : k \in HorizontalHits(d)}
          = {WallTextureId(HorizontalTile(d, final))}
    BY <1>1
  <2>3. QED
    BY <2>1, <2>2 DEF WallTextureId
<1>10. ASSUME NEW q \in VerticalEnds(d)
       PROVE  /\ ~Nearer(q, p)
              /\ ~Nearer(p, q) =>
                   /\ OnLine(q.x, q.den) /\ OnLine(q.y, q.den)
                   /\ Touches(q.x, q.den, col) /\ Touches(q.y, q.den, row)
                   /\ Touches(q.y, q.den, open)
  <2>1. PICK k \in VerticalHits(d) : q = VerticalCrossing(d, k)
    BY DEF VerticalEnds
  <2>2. /\ d.x # 0 /\ k \in Nat /\ q.den = Abs(d.x) /\ q.way = WayTo(px, d.x, k)
        /\ q.x % (TILE_SIZE * q.den) = 0
    BY <2>1, VerticalHit
  <2>3. p.way * q.den <= q.way * p.den
    BY <1>1, <1>3, <2>2
  <2>4. q.way * p.den \in Int /\ p.way * q.den \in Int
    <3>1. /\ WayTo(px, d.x, k) \in Nat /\ WayTo(py, d.y, final) \in Nat
          /\ Abs(d.x) \in Nat /\ Abs(d.y) \in Nat
      BY <1>3, <2>2, RoomOfRay
    <3>2. QED
      BY <1>3, <2>2, <3>1
  <2>5. ASSUME ~Nearer(p, q)
        PROVE  /\ OnLine(q.x, q.den) /\ OnLine(q.y, q.den)
               /\ Touches(q.x, q.den, col) /\ Touches(q.y, q.den, row)
               /\ Touches(q.y, q.den, open)
    <3>1. p.way * q.den = q.way * p.den
      BY <2>3, <2>4, <2>5 DEF Nearer
    <3>2. OnLine(q.x, q.den) /\ OnLine(q.y, q.den)
      <4>1. final \in HorizontalHits(d)
        BY <1>1
      <4>2. q.y % (TILE_SIZE * q.den) = 0
        BY <2>1, <3>1, <4>1, EquallyNear DEF Tie
      <4>3. QED
        BY <2>2, <4>2 DEF OnLine
    <3>3. /\ WayTo(py, d.y, final) * Abs(d.x) = WayTo(px, d.x, k) * Abs(d.y)
          /\ k = a
      BY <1>1, <1>3, <2>2, <3>1
    <3>4. /\ Passes(py, d.y, final, WayTo(px, d.x, k), Abs(d.x))
          /\ Passes(py, d.y, b, WayTo(px, d.x, k), Abs(d.x))
      <4>1. /\ py \in Int /\ d.y \in Int /\ Abs(d.x) \in Nat
        BY RoomOfRay
      <4>2. /\ WayTo(py, d.y, final) * Abs(d.x) <= WayTo(py, d.y, final) * Abs(d.x)
            /\ WayTo(py, d.y, final) * Abs(d.x) <= WayTo(py, d.y, b) * Abs(d.x)
            /\ final > 0 => WayTo(py, d.y, final - 1) * Abs(d.x)
                              <= WayTo(py, d.y, final) * Abs(d.x)
        <5>1. /\ final <= final /\ final <= b /\ b \in Nat
              /\ final > 0 => final - 1 \in Nat /\ final - 1 <= final
          BY <1>3, <1>4
        <5> HIDE DEF final
        <5>2. QED
          BY <1>3, <4>1, <5>1, FartherLine
      <4>3. b - 1 = final
        BY <1>3, <1>4
      <4> HIDE DEF final
      <4>4. Passes(py, d.y, final, WayTo(px, d.x, k), Abs(d.x))
        BY <1>3, <3>3, <4>2, Zenon DEF Passes
      <4>5. Passes(py, d.y, b, WayTo(px, d.x, k), Abs(d.x))
        BY <1>3, <3>3, <4>2, <4>3, Zenon DEF Passes
      <4>6. QED
        BY <4>4, <4>5
    <3>5. Touches(q.x, q.den, col) /\ Touches(q.y, q.den, row)
      BY <2>1, <2>2, <3>3, <3>4, VerticalPoint
    <3>6. Touches(q.y, q.den, open)
      BY <1>3, <2>1, <2>2, <3>4, VerticalPoint
    <3>7. QED
      BY <3>2, <3>5, <3>6
  <2>6. ~Nearer(q, p)
    BY <2>3, <2>4 DEF Nearer
  <2>7. QED
    BY <2>5, <2>6
<1>11. /\ Touches(p.x, p.den, col) /\ Touches(p.y, p.den, row)
       /\ Touches(p.y, p.den, open)
  BY <1>4, <1>6
<1> HIDE DEF final, open
<1>12. \E r \in Rows, c \in Columns :
         tiles[r][c] = -1 /\ Touches(p.x, p.den, c) /\ Touches(p.y, p.den, r)
  BY <1>7, <1>11, Zenon
<1>13. ASSUME NEW q \in VerticalEnds(d), ~Nearer(p, q)
       PROVE  \E r \in Rows, c \in Columns :
                tiles[r][c] = -1 /\ Touches(q.x, q.den, c) /\ Touches(q.y, q.den, r)
  BY <1>7, <1>10, <1>13, Zenon
<1>14. QED
  BY <1>2, <1>3, <1>8, <1>9, <1>10, <1>11, <1>12, <1>13, Zenon

\* Whichever of the two hits cast_single_ray takes, the walk has ended at it.
LEMMA CastMeets ==
  ASSUME PlayerInv, WalkInv, CastSingleRay
  PROVE  MeetsWall(last, hit')
<1>1. dir \in Directions /\ dir # NoRay /\ walk = NoWalk
  BY DEF CastSingleRay, WalkInv
<1> PICK d : d = dir
  OBVIOUS
<1>2. d \in [x : Int, y : Int]
  BY <1>1, RaysAssumption
<1>3. PICK a \in Nat, b \in Nat :
        /\ last = <<TileAfter(px, d.x, a), TileAfter(py, d.y, b)>>
        /\ AtColumn(d, a, b) \/ AtRow(d, a, b)
  BY <1>1 DEF WalkInv
<1> DEFINE h == HorizontalEnds(d)
           v == VerticalEnds(d)
           hids == {WallTextureId(HorizontalTile(d, k)) : k \in HorizontalHits(d)}
           vids == {WallTextureId(VerticalTile(d, k)) : k \in VerticalHits(d)}
           vertical == v # {} /\ \A p \in h, q \in v : Nearer(q, p)
           ends == IF h # {} /\ \A p \in h, q \in v : Nearer(p, q) THEN h ELSE v
           ids  == IF vertical THEN vids ELSE hids
           col  == TileAfter(px, d.x, a)
           row  == TileAfter(py, d.y, b)
<1>4. hit'.ends = ends /\ hit'.texture_id = ids
  BY DEF CastSingleRay, HorizontalEnds, VerticalEnds
<1>5. last[1] = col /\ last[2] = row
  BY <1>3
<1> HIDE DEF h, v, hids, vids, col, row
<1>6. CASE AtColumn(d, a, b)
  <2> DEFINE q == VerticalCrossing(d, LastColumn(d))
  <2>1. /\ v = {q} /\ \A p \in h : ~Nearer(p, q)
        /\ tiles[row][col] # -1
        /\ Touches(q.x, q.den, col) /\ Touches(q.y, q.den, row)
        /\ \E r \in Rows, c \in Columns :
             tiles[r][c] = -1 /\ Touches(q.x, q.den, c) /\ Touches(q.y, q.den, r)
        /\ ~(OnLine(q.x, q.den) /\ OnLine(q.y, q.den)) =>
             /\ \A p \in h : Nearer(q, p)
             /\ vids = {tiles[row][col]}
    BY <1>2, <1>6, ColumnEnd DEF h, v, vids, col, row
  <2> HIDE DEF q
  <2>2. ends = {q}
    BY <2>1
  <2>3. ~(OnLine(q.x, q.den) /\ OnLine(q.y, q.den)) => ids = {tiles[row][col]}
    BY <2>1
  <2> HIDE DEF ends, ids
  <2>4. \A p \in hit'.ends : p = q
    BY <1>4, <2>2
  <2>5. QED
    BY <1>4, <1>5, <2>1, <2>3, <2>4, Zenon DEF MeetsWall
<1>7. CASE AtRow(d, a, b)
  <2> DEFINE p == HorizontalCrossing(d, LastRow(d))
  <2>1. /\ h = {p} /\ \A q \in v : ~Nearer(q, p)
        /\ tiles[row][col] # -1
        /\ Touches(p.x, p.den, col) /\ Touches(p.y, p.den, row)
        /\ \E r \in Rows, c \in Columns :
             tiles[r][c] = -1 /\ Touches(p.x, p.den, c) /\ Touches(p.y, p.den, r)
        /\ ~(OnLine(p.x, p.den) /\ OnLine(p.y, p.den)) => hids = {tiles[row][col]}
        /\ \A q \in v : ~Nearer(p, q) =>
             /\ OnLine(q.x, q.den) /\ OnLine(q.y, q.den)
             /\ Touches(q.x, q.den, col) /\ Touches(q.y, q.den, row)
             /\ \E r \in Rows, c \in Columns :
                  tiles[r][c] = -1 /\ Touches(q.x, q.den, c) /\ Touches(q.y, q.den, r)
    BY <1>2, <1>7, RowEnd DEF h, v, hids, col, row
  <2> HIDE DEF p
  <2>2. ids = hids
    <3>1. ~vertical
      BY <2>1
    <3> HIDE DEF vertical
    <3>2. QED
      BY <3>1
  <2>3. CASE \A q \in v : Nearer(p, q)
    <3>1. ends = {p}
      BY <2>1, <2>3
    <3> HIDE DEF ends, ids
    <3>2. \A r \in hit'.ends : r = p
      BY <1>4, <3>1
    <3>3. QED
      BY <1>4, <1>5, <2>1, <2>2, <3>2, Zenon DEF MeetsWall
  <2>4. CASE ~\A q \in v : Nearer(p, q)
    <3>1. ends = v
      BY <2>1, <2>4
    <3>2. \A q \in v : ~Nearer(p, q)
      <4>1. \A q, r \in v : q = r
        <5>1. VerticalEnds(d) = {} \/ \E q : VerticalEnds(d) = {q}
          <6>1. CASE VerticalHits(d) = {}
            BY <6>1 DEF VerticalEnds
          <6>2. CASE VerticalHits(d) # {}
            BY <1>2, <6>2, VerticalEnd
          <6>3. QED
            BY <6>1, <6>2
        <5>2. QED
          BY <5>1 DEF v
      <4>2. QED
        BY <2>4, <4>1
    <3> HIDE DEF ends, ids
    <3>3. \A q \in hit'.ends :
            /\ OnLine(q.x, q.den) /\ OnLine(q.y, q.den)
            /\ Touches(q.x, q.den, col) /\ Touches(q.y, q.den, row)
            /\ \E r \in Rows, c \in Columns :
                 tiles[r][c] = -1 /\ Touches(q.x, q.den, c) /\ Touches(q.y, q.den, r)
      BY <1>4, <2>1, <3>1, <3>2, Zenon
    <3>4. QED
      BY <1>5, <2>1, <3>3, Zenon DEF MeetsWall
  <2>5. QED
    BY <2>3, <2>4
<1>8. QED
  BY <1>3, <1>6, <1>7

\* What is known of the walk of a ray and of the wall it has found.
MeetInv ==
  /\ WalkInv
  /\ hit # NoRay /\ dir = NoRay => MeetsWall(last, hit)

\* The two algorithms that follow a ray agree, whatever the ray, the map and the
\* place of the player: the walk of mark_visible_tiles ends at the wall
\* cast_single_ray hits.
THEOREM RaysEndAtHit == RaySpec => []ViewEndsAtHit
<1>1. RayInit => MeetInv
  BY DEF RayInit, MeetInv, WalkInv
<1>2. PlayerInv /\ WalkOfRay /\ MeetInv /\ [RayNext]_rayVars => MeetInv'
  <2> SUFFICES ASSUME PlayerInv, WalkOfRay, MeetInv, [RayNext]_rayVars PROVE MeetInv'
    OBVIOUS
  <2>1. CASE WalkBegins
    <3>1. WalkInv' /\ dir' # NoRay
      <4>1. dir' \in Directions
        BY <2>1 DEF WalkBegins
      <4>2. QED
        BY <2>1, <4>1, WalkBeginsAt, RaysAssumption
    <3>2. QED
      BY <3>1 DEF MeetInv
  <2>2. CASE WalkSteps
    <3>1. dir' # NoRay
      BY <2>2, Zenon DEF WalkSteps, WalkOfRay
    <3>2. QED
      BY <2>2, <3>1, WalkStepsOn DEF MeetInv
  <2>3. CASE CastSingleRay
    <3>1. dir' = NoRay /\ last' = last /\ MeetsWall(last, hit')
      BY <2>3, CastMeets DEF CastSingleRay, MeetInv
    <3>2. QED
      BY <3>1 DEF MeetInv, WalkInv, MeetsWall
  <2>4. ASSUME dir = NoRay, UNCHANGED dir, hit' = NoRay \/ UNCHANGED <<last, hit>>
        PROVE  MeetInv'
    BY <2>4 DEF MeetInv, WalkInv, MeetsWall
  <2>5. phase # "casting" => dir = NoRay
    BY DEF MeetInv, WalkInv
  <2>6. CASE PlayerMovement /\ UNCHANGED <<dir, ahead, last, hit>>
    <3>1. phase # "casting"
      BY <2>6 DEF PlayerMovement
    <3>2. QED
      BY <2>4, <2>5, <2>6, <3>1
  <2>7. CASE /\ ClearVisibleTiles
             /\ hit' = NoRay /\ last' = <<TileOf(px), TileOf(py)>>
             /\ UNCHANGED <<dir, ahead>>
    <3>1. phase # "casting"
      BY <2>7 DEF ClearVisibleTiles
    <3>2. QED
      BY <2>4, <2>5, <2>7, <3>1
  <2>8. CASE /\ AllRaysCast /\ dir = NoRay
             /\ UNCHANGED <<dir, ahead, last, hit>>
    BY <2>4, <2>8
  <2>9. CASE UNCHANGED rayVars
    <3>1. /\ px' = px /\ py' = py /\ phase' = phase /\ walk' = walk
          /\ dir' = dir /\ ahead' = ahead /\ last' = last /\ hit' = hit
      BY <2>9 DEF rayVars, vars
    <3>2. CASE dir = NoRay
      BY <2>4, <3>1, <3>2
    <3>3. CASE dir # NoRay
      <4>1. WalkInv'
        BY <3>1 DEF MeetInv, WalkInv, WalkAt, InRoom, AtColumn, AtRow, LastColumn, LastRow
      <4>2. QED
        BY <3>1, <3>3, <4>1 DEF MeetInv
    <3>4. QED
      BY <3>2, <3>3
  <2>10. QED
    BY <2>1, <2>2, <2>3, <2>6, <2>7, <2>8, <2>9, Zenon DEF RayNext
<1>3. MeetInv => ViewEndsAtHit
  BY DEF MeetInv, MeetsWall, Touches, OnLine, ViewEndsAtHit
<1>4. RayInit => WalkOfRay
  BY DEF RayInit, Init, WalkOfRay
<1>5. SightInv => PlayerInv
  BY DEF SightInv
<1>6. QED
  BY <1>1, <1>2, <1>3, <1>4, <1>5, WalkIsAllowed, RaysImplementSight, SightInvariant,
     PTL DEF RaySpec

=============================================================================
