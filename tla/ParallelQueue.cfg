SPECIFICATION FairSpec
CONSTANTS
  Item = {m1, m2}
  Words = {w1, w2}
  Blank = Blank
  Capacity = 4
  Modulus = 8
INVARIANTS
  NoSlotRace
PROPERTIES
  ImplementsQueue
  AcceptedIsDelivered
