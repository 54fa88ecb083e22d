SPECIFICATION RaySpec
CONSTANTS
  TILE_SIZE = 4
  MAP_NUM_ROWS = 5
  MAP_NUM_COLS = 5
  Radius = 1
  MaxMove = 2
  RAY_COUNT = 1
  NUM_TEXTURES = 12
  Directions <- MCDirections
  RENDER_TEXTURE_WIDTH = 3
  RENDER_TEXTURE_HEIGHT = 8
  PROJ_PLANE_SCALE = 577
  CAMERA_AND_PLANE = 7
  floor_texture_width = 4
  floor_texture_height = 3
  ceiling_width = 4
  ceiling_height = 3
  NoWalk = NoWalk
  NoRay = NoRay
INVARIANTS KeepsDistance LinesOfSight ViewEndsAtHit HitIsDrawable FloorIsSampled
PROPERTY ImplementsSight
