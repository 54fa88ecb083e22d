SPECIFICATION SceneSpec
CONSTANTS
  Count = 3
  Depths = {0, 1, 2}
  NaN = NaN
  RENDER_TEXTURE_WIDTH = 4
  TILE_SIZE = 1
  DIST_PROJ_PLANE = 2
  SideOffsets <- MCSideOffsets
  Walls <- MCWalls
  Wall = Wall
INVARIANTS
  EachEntityDrawnOnce
  NearestOnTop
  StackStaysShallow
PROPERTIES
  SortEnds
