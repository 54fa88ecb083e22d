SPECIFICATION FairSpec
CONSTANTS
  Entity = {0, 1}
  TILE_SIZE = 2
  MAP_NUM_ROWS = 6
  MAP_NUM_COLS = 7
  Step = 2
  Rolls = {8}
  Ticks = 2
  User = {"server", "client"}
  Wanted <- MCWanted
  PortOf <- MCPortOf
  NoPort = NoPort
  MaxStartups = 2
  QueueCapacity = 2
  SocketCapacity = 2
  Indeterminate = Indeterminate
  MaxFailures = 1
INVARIANTS
  MoveAccounting
PROPERTIES
  EveryMoveSettles
