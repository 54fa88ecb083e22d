SPECIFICATION ProgramSpec
CONSTANTS
  Worker = {w1, w2}
  Task = {0, 1, 2, Server, Client}
  Server = Server
  Client = Client
  Zero = Zero
  QueueCapacity = 5
  MaxWaitObjects = 2
  MAX_PARALLELISM = 3
  RENDER_TEXTURE_WIDTH = 1
  RENDER_TEXTURE_HEIGHT = 8
  PROJ_PLANE_SCALE = 577
  CAMERA_AND_PLANE = 1
  MayStop = FALSE
  NUM_TEXTURES = 2
  NUM_SPRITES = 1
  FLOOR_TEXTURE_INDEX = 1
  CEILING_TEXTURE_INDEX = 0
  TickRate = 2
  FrameTimes = {1, 3}
  Calls <- MCCalls
PROPERTIES
  FrameFinishes
