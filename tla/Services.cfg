SPECIFICATION ServicesSpec
CONSTANTS
  Thread = {"server", "client"}
  Caller = {"server", "client"}
  User = {"server", "client"}
  Wanted <- MCWanted
  PortOf <- MCPortOf
  NoPort = NoPort
  MaxStartups = 3
  Ephemeral <- MCEphemeral
  MaxWire = 2
  NoAddress = NoAddress
  Nobody = Nobody
INVARIANTS
  ArgsAreFreedOnce
  FrequencyIsKnown
  SocketsAreSound
CHECK_DEADLOCK FALSE
