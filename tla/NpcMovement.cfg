SPECIFICATION NpcFairSpec
CONSTANTS
  Entity = {0}
  TILE_SIZE = 64
  MAP_NUM_ROWS = 11
  MAP_NUM_COLS = 15
  Step = 8
  Rolls = {0, 1, 127, 128, 130, 576, 577, 703, 704, 831, 832, 959, 960, 32767}
INVARIANTS
  InsideWalls
PROPERTIES
  MarchesBackAndForth
