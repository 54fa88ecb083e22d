SPECIFICATION CachedFairSpec
CONSTANTS
  Item = {m1, m2}
  Words = {w1, w2}
  Blank = Blank
  Capacity = 2
  Modulus = 4
INVARIANTS
  CachesAreSafe
PROPERTIES
  CachedImplementsQueue
  CachedIsDelivered
