--------------------------- MODULE GameServerProofs ---------------------------
(***************************************************************************)
(* Proofs about the entities, their moves, and the services that carry     *)
(* them.                                                                   *)
(*                                                                         *)
(* The positions: for every map that is wider than high and has room       *)
(* inside its walls, every tile size, every step of at most a tile and     *)
(* every outcome of rand().  The moves: for any number of entities, ticks  *)
(* and failures, and buffers of any size.  The services: for any number of *)
(* threads, starts of Winsock and datagrams; these theorems use none of    *)
(* the assumptions about the game.                                         *)
(***************************************************************************)
EXTENDS GameServer, Services, FiniteSetTheorems, SequenceTheorems, TLAPS

-----------------------------------------------------------------------------
\* Multiples.

\* Multiplication by a positive number is monotonic.
LEMMA TimesMonotonic ==
  ASSUME NEW n \in Nat, NEW a \in Int, NEW b \in Int, a <= b
  PROVE  n * a <= n * b
<1>1. n * b - n * a = n * (b - a)
  OBVIOUS
<1>2. n * (b - a) >= 0
  OBVIOUS
<1>3. QED
  BY <1>1, <1>2

\* The quotient of a number between two multiples of n.
LEMMA Quotient ==
  ASSUME NEW n \in Nat, n > 0, NEW c \in Int, NEW low \in Int, NEW high \in Int,
         n * low <= c, c < n * (high + 1)
  PROVE  (c \div n) \in low .. high
<1> DEFINE q == c \div n
<1>1. /\ q \in Int /\ n * q <= c /\ c < n * q + n
  OBVIOUS
<1> HIDE DEF q
<1>2. n * q + n = n * (q + 1)
  BY <1>1
<1>3. low <= q
  <2> SUFFICES ASSUME q + 1 <= low PROVE FALSE
    BY <1>1
  <2>1. n * (q + 1) <= n * low
    BY <1>1, TimesMonotonic
  <2>2. n * (q + 1) \in Int /\ n * low \in Int
    BY <1>1
  <2>3. QED
    BY <1>1, <1>2, <2>1, <2>2
<1>4. q <= high
  <2> SUFFICES ASSUME high + 1 <= q PROVE FALSE
    BY <1>1
  <2>1. n * (high + 1) <= n * q
    BY <1>1, TimesMonotonic
  <2>2. n * (high + 1) \in Int /\ n * q \in Int
    BY <1>1
  <2>3. QED
    BY <1>1, <2>1, <2>2
<1>5. QED
  BY <1>1, <1>3, <1>4 DEF q

-----------------------------------------------------------------------------
\* The positions.

\* The constants, as the assumption gives them.
LEMMA MapSizes ==
  /\ TILE_SIZE \in Nat /\ TILE_SIZE > 0
  /\ MAP_NUM_ROWS \in Nat /\ MAP_NUM_COLS \in Nat
  /\ 6 <= MAP_NUM_ROWS /\ MAP_NUM_ROWS + 1 <= MAP_NUM_COLS
  /\ Step \in Nat /\ 1 <= Step /\ Step <= TILE_SIZE
BY MapAssumption, WorldAssumption

-----------------------------------------------------------------------------
\* The distances between the limits, in tiles.
LEMMA Limits ==
  /\ Left \in Nat /\ Right \in Int
  /\ Left = TILE_SIZE + TILE_SIZE
  /\ TILE_SIZE * (MAP_NUM_ROWS - 2) \in Int
  /\ Left + Left <= TILE_SIZE * (MAP_NUM_ROWS - 2)
  /\ TILE_SIZE * (MAP_NUM_ROWS - 2) + TILE_SIZE <= Right
  /\ TILE_SIZE * MAP_NUM_COLS = Right + Left
  /\ TILE_SIZE * MAP_NUM_ROWS = TILE_SIZE * (MAP_NUM_ROWS - 2) + Left
<1>1. /\ Left = TILE_SIZE + TILE_SIZE /\ Left + Left = TILE_SIZE * 4
      /\ TILE_SIZE * (MAP_NUM_ROWS - 2) + TILE_SIZE
           = TILE_SIZE * (MAP_NUM_ROWS - 1)
      /\ TILE_SIZE * MAP_NUM_COLS = TILE_SIZE * (MAP_NUM_COLS - 2) + Left
      /\ TILE_SIZE * MAP_NUM_ROWS = TILE_SIZE * (MAP_NUM_ROWS - 2) + Left
  BY MapSizes DEF Left
<1>2. /\ TILE_SIZE * 4 <= TILE_SIZE * (MAP_NUM_ROWS - 2)
      /\ TILE_SIZE * (MAP_NUM_ROWS - 1) <= TILE_SIZE * (MAP_NUM_COLS - 2)
  BY MapSizes, TimesMonotonic
<1>3. /\ TILE_SIZE * (MAP_NUM_ROWS - 2) \in Int
      /\ TILE_SIZE * (MAP_NUM_COLS - 2) \in Int
  BY MapSizes
<1>4. QED
  BY <1>1, <1>2, <1>3, MapSizes DEF Right

\* A spawn is between the limits of its axis, although the horizontal one is
\* pulled in by the number of rows.
LEMMA SpawnInside ==
  ASSUME NEW r \in Nat
  PROVE  /\ Spawn(r, MAP_NUM_COLS) \in Int
         /\ Left <= Spawn(r, MAP_NUM_COLS) /\ Spawn(r, MAP_NUM_COLS) < Right
         /\ Spawn(r, MAP_NUM_ROWS) \in Int
         /\ Left <= Spawn(r, MAP_NUM_ROWS)
         /\ Spawn(r, MAP_NUM_ROWS) <= TILE_SIZE * (MAP_NUM_ROWS - 2)
<1>1. /\ TILE_SIZE * MAP_NUM_COLS \in Nat /\ TILE_SIZE * MAP_NUM_COLS > 0
      /\ TILE_SIZE * MAP_NUM_ROWS \in Nat /\ TILE_SIZE * MAP_NUM_ROWS > 0
  BY Limits, MapSizes
<1> DEFINE wide == TILE_SIZE * MAP_NUM_COLS
           high == TILE_SIZE * MAP_NUM_ROWS
           room == TILE_SIZE * (MAP_NUM_ROWS - 2)
<1>2. (r % wide) \in 0 .. wide - 1 /\ (r % high) \in 0 .. high - 1
  <2> HIDE DEF wide, high
  <2>1. wide \in Nat /\ wide > 0 /\ high \in Nat /\ high > 0
    BY <1>1 DEF wide, high
  <2>2. QED
    BY <2>1
<1>3. /\ Spawn(r, MAP_NUM_COLS)
           = LET pulled == IF r % wide < Left THEN (r % wide) + Left ELSE r % wide
             IN  IF pulled > room THEN pulled - Left ELSE pulled
      /\ Spawn(r, MAP_NUM_ROWS)
           = LET pulled == IF r % high < Left THEN (r % high) + Left ELSE r % high
             IN  IF pulled > room THEN pulled - Left ELSE pulled
  BY DEF Spawn
<1>4. /\ Left \in Nat /\ Right \in Int /\ room \in Int
      /\ Left = TILE_SIZE + TILE_SIZE
      /\ Left + Left <= room /\ room + TILE_SIZE <= Right
      /\ wide = Right + Left /\ high = room + Left
  BY Limits
<1> HIDE DEF wide, high, room
<1>5. QED
  BY <1>2, <1>3, <1>4, MapSizes DEF room

-----------------------------------------------------------------------------
\* One move keeps an entity within a step of its limits.
LEMMA MoveKeeps ==
  ASSUME NpcInv, NEW e \in Entity, MoveNpc(e)
  PROVE  NpcInv'
<1>1. /\ x[e] \in Int /\ forward[e] \in BOOLEAN
      /\ Left - Step <= x[e] /\ x[e] < Right + Step
  BY DEF NpcInv, NpcTypeOK
<1> DEFINE moved == IF Faces(e) THEN x[e] + Step ELSE x[e] - Step
<1>2. Faces(e) \in BOOLEAN
  BY <1>1 DEF Faces
<1>3. /\ moved \in Int
      /\ Left - Step <= moved /\ moved < Right + Step
  <2>1. Left + Step <= Right
    BY Limits, MapSizes
  <2>2. CASE x[e] >= Right
    BY <1>1, <2>1, <2>2, Limits, MapSizes DEF Faces
  <2>3. CASE x[e] < Left
    BY <1>1, <2>1, <2>3, Limits, MapSizes DEF Faces
  <2>4. CASE Left <= x[e] /\ x[e] < Right
    BY <1>1, <1>2, <2>4, Limits, MapSizes
  <2>5. QED
    BY <1>1, <2>2, <2>3, <2>4, Limits
<1>4. /\ x' = [x EXCEPT ![e] = moved]
      /\ forward' = [forward EXCEPT ![e] = Faces(e)]
      /\ y' = y
  BY DEF MoveNpc
<1> HIDE DEF moved
<1>5. QED
  BY <1>2, <1>3, <1>4 DEF NpcInv, NpcTypeOK

\* An entity overshoots a limit by less than a step.
THEOREM NpcInvariant == NpcSpec => []NpcInv
<1>1. NpcInit => NpcInv
  <2> SUFFICES ASSUME NpcInit, NEW e \in Entity
               PROVE  /\ x[e] \in Int /\ y[e] \in Int
                      /\ Left - Step <= x[e] /\ x[e] < Right + Step
                      /\ Left <= y[e]
                      /\ y[e] <= TILE_SIZE * (MAP_NUM_ROWS - 2)
    <3>1. \A r \in Rolls : /\ Spawn(r, MAP_NUM_COLS) \in Int
                           /\ Spawn(r, MAP_NUM_ROWS) \in Int
      BY MapAssumption, SpawnInside
    <3>2. QED
      BY <3>1 DEF NpcInit, NpcInv, NpcTypeOK
  <2>1. PICK r \in Rolls : x[e] = Spawn(r, MAP_NUM_COLS)
    BY DEF NpcInit
  <2>2. PICK s \in Rolls : y[e] = Spawn(s, MAP_NUM_ROWS)
    BY DEF NpcInit
  <2>3. r \in Nat /\ s \in Nat
    BY MapAssumption
  <2>4. QED
    BY <2>1, <2>2, <2>3, SpawnInside, Limits, MapSizes
<1>2. NpcInv /\ [NpcNext]_npcVars => NpcInv'
  <2> SUFFICES ASSUME NpcInv, [NpcNext]_npcVars PROVE NpcInv'
    OBVIOUS
  <2>1. CASE NpcNext
    BY <2>1, MoveKeeps DEF NpcNext
  <2>2. CASE UNCHANGED npcVars
    BY <2>2 DEF npcVars, NpcInv, NpcTypeOK
  <2>3. QED
    BY <2>1, <2>2
<1>3. QED
  BY <1>1, <1>2, PTL DEF NpcSpec

\* The tile of an entity is inside the outer walls of the map, and so an index
\* of visible_tiles.
THEOREM EntitiesInsideWalls == NpcSpec => []InsideWalls
<1>1. NpcInv => InsideWalls
  <2> SUFFICES ASSUME NpcInv, NEW e \in Entity
               PROVE  /\ TileOf(x[e]) \in 1 .. MAP_NUM_COLS - 2
                      /\ TileOf(y[e]) \in 1 .. MAP_NUM_ROWS - 2
    BY DEF InsideWalls
  <2>1. /\ x[e] \in Int /\ y[e] \in Int
        /\ Left - Step <= x[e] /\ x[e] < Right + Step
        /\ Left <= y[e] /\ y[e] <= TILE_SIZE * (MAP_NUM_ROWS - 2)
    BY DEF NpcInv, NpcTypeOK
  <2>2. /\ Right + TILE_SIZE = TILE_SIZE * ((MAP_NUM_COLS - 2) + 1)
        /\ TILE_SIZE * (MAP_NUM_ROWS - 2) + TILE_SIZE
             = TILE_SIZE * ((MAP_NUM_ROWS - 2) + 1)
        /\ TILE_SIZE * 1 = TILE_SIZE
    BY MapSizes DEF Right
  <2>3. /\ TILE_SIZE * 1 <= x[e]
        /\ x[e] < TILE_SIZE * ((MAP_NUM_COLS - 2) + 1)
    BY <2>1, <2>2, Limits, MapSizes
  <2>4. /\ TILE_SIZE * 1 <= y[e]
        /\ y[e] < TILE_SIZE * ((MAP_NUM_ROWS - 2) + 1)
    BY <2>1, <2>2, Limits, MapSizes
  <2>5. QED
    BY <2>1, <2>3, <2>4, Quotient, MapSizes DEF TileOf
<1>2. QED
  BY <1>1, NpcInvariant, PTL

-----------------------------------------------------------------------------
\* What a sequence holds, when something is put behind it or taken from it.

LEMMA AppendedElements ==
  ASSUME NEW S, NEW s \in Seq(S), NEW m \in S
  PROVE  /\ Append(s, m) \in Seq(S)
         /\ ToSet(Append(s, m)) = ToSet(s) \cup {m}
         /\ IsInjective(s) /\ m \notin ToSet(s) => IsInjective(Append(s, m))
<1> DEFINE t == Append(s, m)
<1>1. /\ t \in Seq(S) /\ DOMAIN t = 1 .. Len(s) + 1 /\ DOMAIN s = 1 .. Len(s)
      /\ Len(s) \in Nat
      /\ \A k \in 1 .. Len(s) : t[k] = s[k]
      /\ t[Len(s) + 1] = m
  OBVIOUS
<1> HIDE DEF t
<1>2. \A k \in DOMAIN t : k \in DOMAIN s \/ k = Len(s) + 1
  BY <1>1
<1>3. DOMAIN s \subseteq DOMAIN t /\ Len(s) + 1 \in DOMAIN t
  BY <1>1
<1>4. ToSet(t) = ToSet(s) \cup {m}
  BY <1>1, <1>2, <1>3 DEF ToSet
<1>5. IsInjective(s) /\ m \notin ToSet(s) => IsInjective(t)
  BY <1>1, <1>2 DEF ToSet, IsInjective
<1>6. QED
  BY <1>1, <1>4, <1>5 DEF t

LEMMA TakenElements ==
  ASSUME NEW S, NEW s \in Seq(S), s # <<>>
  PROVE  /\ Head(s) \in S /\ Tail(s) \in Seq(S)
         /\ ToSet(s) = {Head(s)} \cup ToSet(Tail(s))
         /\ IsInjective(s) => Head(s) \notin ToSet(Tail(s)) /\ IsInjective(Tail(s))
<1> DEFINE t == Tail(s)
           len == Len(s)
<1>1. /\ Head(s) = s[1] /\ s[1] \in S /\ t \in Seq(S)
      /\ len \in Nat /\ len >= 1
      /\ DOMAIN t = 1 .. len - 1 /\ DOMAIN s = 1 .. len
      /\ \A k \in 1 .. len - 1 : t[k] = s[k + 1]
  OBVIOUS
<1> HIDE DEF t, len
<1>2. 1 \in DOMAIN s /\ \A k \in DOMAIN t : k + 1 \in DOMAIN s /\ t[k] = s[k + 1]
  BY <1>1
<1>3. \A k \in DOMAIN s : k = 1 \/ (k - 1 \in DOMAIN t /\ t[k - 1] = s[k])
  BY <1>1
<1>4. ToSet(s) = {s[1]} \cup ToSet(t)
  BY <1>2, <1>3 DEF ToSet
<1>5. IsInjective(s) => s[1] \notin ToSet(t) /\ IsInjective(t)
  <2> SUFFICES ASSUME IsInjective(s)
               PROVE  s[1] \notin ToSet(t) /\ IsInjective(t)
    OBVIOUS
  <2>1. \A k \in DOMAIN t : k + 1 # 1
    BY <1>1
  <2>2. s[1] \notin ToSet(t)
    BY <1>2, <2>1 DEF ToSet, IsInjective
  <2>3. \A k, n \in DOMAIN t : t[k] = t[n] => k + 1 = n + 1
    BY <1>2 DEF IsInjective
  <2>4. IsInjective(t)
    BY <1>1, <2>3 DEF IsInjective
  <2>5. QED
    BY <2>2, <2>4
<1>6. QED
  BY <1>1, <1>4, <1>5 DEF t

-----------------------------------------------------------------------------
\* Where the moves are.

Queued   == ToSet(players_queue)
Applied  == ToSet(applied)
Anywhere == net \cup Held \cup Queued \cup lost \cup dropped \cup Applied

\* A client that has not begun a tick has no entity to send for.  What the server
\* holds, and with it everything behind the server, may be indeterminate.
MovesTypeOK ==
  /\ tick \in 0 .. Ticks /\ i \in 0 .. Cardinality(Entity)
  /\ tick = 0 => i = Cardinality(Entity)
  /\ failures \in Nat
  /\ net \subseteq Move /\ lost \subseteq Move
  /\ buf \in Move \cup {Indeterminate}
  /\ players_queue \in Seq(Move \cup {Indeterminate})
  /\ applied \in Seq(Move \cup {Indeterminate})

\* No move is in two places.
Apart ==
  /\ net \cap (Held \cup Queued \cup lost \cup dropped \cup Applied) = {}
  /\ Held \cap (Queued \cup lost \cup dropped \cup Applied) = {}
  /\ Queued \cap (lost \cup dropped \cup Applied) = {}
  /\ lost \cap (dropped \cup Applied) = {}
  /\ dropped \cap Applied = {}

\* As long as no receive has failed.
OnePlaceEach ==
  /\ Anywhere = Sent /\ Apart
  /\ IsInjective(players_queue) /\ IsInjective(applied)

MovesInv ==
  /\ MovesTypeOK
  /\ Sent \subseteq Anywhere
  /\ failures = 0 => OnePlaceEach

\* Entities can be counted.
LEMMA EntityCount ==
  /\ Cardinality(Entity) \in Nat
  /\ Entity = 0 .. Cardinality(Entity) - 1
BY GameServerAssumption, FS_CardinalityType

\* Six places: what is in any of them, and that no two have a move in common.
LEMMA SixPlaces ==
  /\ UNION ToSet(Places) = Anywhere
  /\ Apart => \A a, b \in DOMAIN Places : a # b => Places[a] \cap Places[b] = {}
<1> DEFINE p == Places
<1>1. /\ DOMAIN p = 1 .. 6
      /\ p[1] = net /\ p[2] = Held /\ p[3] = Queued
      /\ p[4] = lost /\ p[5] = dropped /\ p[6] = Applied
  BY DEF Places, Queued, Applied
<1> HIDE DEF p
<1>2. \A k \in DOMAIN p : k = 1 \/ k = 2 \/ k = 3 \/ k = 4 \/ k = 5 \/ k = 6
  BY <1>1
<1>3. 1 \in DOMAIN p /\ 2 \in DOMAIN p /\ 3 \in DOMAIN p
      /\ 4 \in DOMAIN p /\ 5 \in DOMAIN p /\ 6 \in DOMAIN p
  BY <1>1
<1>4. ToSet(p) = {net, Held, Queued, lost, dropped, Applied}
  BY <1>1, <1>2, <1>3 DEF ToSet
<1>5. UNION ToSet(p) = Anywhere
  BY <1>4 DEF Anywhere
<1>6. Apart => \A a, b \in DOMAIN p : a # b => p[a] \cap p[b] = {}
  <2> SUFFICES ASSUME Apart, NEW a \in DOMAIN p, NEW b \in DOMAIN p, a # b,
                      NEW m, m \in p[a], m \in p[b]
               PROVE  FALSE
    OBVIOUS
  <2>1. /\ ~(m \in p[1] /\ (m \in p[2] \/ m \in p[3] \/ m \in p[4] \/ m \in p[5] \/ m \in p[6]))
        /\ ~(m \in p[2] /\ (m \in p[3] \/ m \in p[4] \/ m \in p[5] \/ m \in p[6]))
        /\ ~(m \in p[3] /\ (m \in p[4] \/ m \in p[5] \/ m \in p[6]))
        /\ ~(m \in p[4] /\ (m \in p[5] \/ m \in p[6]))
        /\ ~(m \in p[5] /\ m \in p[6])
    BY <1>1 DEF Apart
  <2>2. QED
    BY <1>2, <2>1
<1>7. QED
  BY <1>5, <1>6 DEF p

\* What has been sent depends on the client only, and the places on their variables.
LEMMA MovesStay ==
  ASSUME MovesInv, UNCHANGED <<clientVars, serverVars, queueVars, ghostVars, net>>
  PROVE  MovesInv'
BY DEF MovesInv, MovesTypeOK, OnePlaceEach, Apart, Anywhere, Queued, Applied, Held,
       Sent, clientVars, serverVars, queueVars, ghostVars

\* A new tick: nothing has been sent in it.
LEMMA TickAccounts ==
  ASSUME MovesInv, ClientTicks
  PROVE  MovesInv'
<1> USE DEF MovesInv
<1>1. /\ tick \in Nat /\ i = Cardinality(Entity) /\ tick < Ticks
      /\ tick' = tick + 1 /\ i' = 0
      /\ UNCHANGED <<serverVars, queueVars, ghostVars, net>>
  BY GameServerAssumption DEF ClientTicks, MovesTypeOK
<1>2. MovesTypeOK'
  BY <1>1, EntityCount, GameServerAssumption
     DEF MovesTypeOK, serverVars, queueVars, ghostVars
<1>3. Sent' = Sent
  <2>1. ASSUME NEW m \in Move
        PROVE  (m.serial < tick + 1 \/ (m.serial = tick + 1 /\ m.player_id < 0))
                 <=> (m.serial < tick \/ (m.serial = tick /\ m.player_id < i))
    <3>1. /\ m.serial \in Nat /\ m.player_id \in Nat
          /\ m.player_id < Cardinality(Entity)
      BY EntityCount, GameServerAssumption DEF Move
    <3>2. QED
      BY <1>1, <3>1
  <2>2. QED
    BY <1>1, <2>1 DEF Sent
<1>4. /\ Anywhere' = Anywhere /\ (Apart' <=> Apart)
      /\ players_queue' = players_queue /\ applied' = applied /\ failures' = failures
  BY <1>1 DEF Anywhere, Apart, Held, Queued, Applied, serverVars, queueVars, ghostVars
<1>5. QED
  BY <1>2, <1>3, <1>4 DEF OnePlaceEach

\* The move of the next entity is a new one.
LEMMA SendAccounts ==
  ASSUME MovesInv, ClientSends
  PROVE  MovesInv'
<1> DEFINE m == [player_id |-> i, serial |-> tick]
<1>1. /\ tick \in 1 .. Ticks /\ i \in Entity /\ i < Cardinality(Entity)
      /\ tick' = tick /\ i' = i + 1
      /\ UNCHANGED <<serverVars, queueVars, dropped, applied, failures>>
  BY EntityCount, GameServerAssumption DEF ClientSends, MovesInv, MovesTypeOK
<1>2. \/ net' = net \cup {m} /\ lost' = lost
      \/ net' = net /\ lost' = lost \cup {m}
  BY DEF ClientSends, SendTo
<1>3. m \in Move /\ m.player_id = i /\ m.serial = tick
  BY <1>1 DEF Move
<1>4. Sent' = Sent \cup {m} /\ m \notin Sent
  <2>1. ASSUME NEW n \in Move
        PROVE  (n.serial < tick \/ (n.serial = tick /\ n.player_id < i + 1))
                 <=> (n.serial < tick \/ (n.serial = tick /\ n.player_id < i))
                     \/ n = m
    <3>1. /\ n.serial \in Nat /\ n.player_id \in Nat /\ i \in Nat /\ tick \in Nat
      BY <1>1, EntityCount, GameServerAssumption DEF Move
    <3>2. n = m <=> n.serial = tick /\ n.player_id = i
      BY DEF Move
    <3>3. QED
      BY <3>1, <3>2
  <2>2. m \notin Sent
    BY <1>1, <1>3, EntityCount DEF Sent
  <2>3. QED
    BY <1>1, <1>3, <2>1, <2>2 DEF Sent
<1> HIDE DEF m
<1>5. MovesTypeOK'
  BY <1>1, <1>2, <1>3, EntityCount
     DEF MovesInv, MovesTypeOK, serverVars, queueVars
<1>6. /\ Held' = Held /\ Queued' = Queued /\ Applied' = Applied
      /\ dropped' = dropped /\ players_queue' = players_queue
      /\ applied' = applied /\ failures' = failures
  BY <1>1 DEF Held, Queued, Applied, serverVars, queueVars
<1>7. Anywhere' = Anywhere \cup {m}
  BY <1>2, <1>6 DEF Anywhere
<1>8. failures = 0 => Apart'
  BY <1>2, <1>4, <1>6 DEF MovesInv, OnePlaceEach, Apart, Anywhere
<1>9. QED
  BY <1>4, <1>5, <1>6, <1>7, <1>8 DEF MovesInv, OnePlaceEach

\* From the socket into the buffer.
LEMMA ReceiveAccounts ==
  ASSUME MovesInv, ServerReceives
  PROVE  MovesInv'
<1>1. PICK m \in net : buf' = m /\ net' = net \ {m}
  BY DEF ServerReceives
<1>2. /\ server = "receiving" /\ server' = "holding"
      /\ UNCHANGED <<clientVars, queueVars, ghostVars>>
  BY DEF ServerReceives
<1>3. /\ Held = {} /\ Held' = {m} /\ Queued' = Queued /\ Applied' = Applied
      /\ Sent' = Sent
  BY <1>1, <1>2 DEF Held, Queued, Applied, Sent, clientVars, queueVars, ghostVars
<1>4. MovesTypeOK'
  BY <1>1, <1>2 DEF MovesInv, MovesTypeOK, clientVars, queueVars, ghostVars
<1>5. Anywhere' = Anywhere
  BY <1>1, <1>2, <1>3 DEF Anywhere, ghostVars
<1>6. failures = 0 => Apart'
  BY <1>1, <1>2, <1>3 DEF MovesInv, OnePlaceEach, Apart, ghostVars
<1>7. QED
  BY <1>2, <1>3, <1>4, <1>5, <1>6 DEF MovesInv, OnePlaceEach, queueVars, ghostVars

\* Once it has failed, a move may be produced a second time; none is lost by it.
LEMMA FailureAccounts ==
  ASSUME MovesInv, ReceiveFails
  PROVE  MovesInv'
<1>1. /\ server = "receiving" /\ server' = "holding"
      /\ failures' = failures + 1 /\ buf' \in {buf, Indeterminate}
      /\ UNCHANGED <<clientVars, queueVars, lost, dropped, applied, net>>
  BY DEF ReceiveFails
<1>2. /\ failures' \in Nat /\ failures' # 0
  BY <1>1 DEF MovesInv, MovesTypeOK
<1>3. MovesTypeOK'
  BY <1>1, <1>2 DEF MovesInv, MovesTypeOK, clientVars, queueVars
<1>4. Sent' = Sent /\ Anywhere \subseteq Anywhere'
  BY <1>1 DEF Anywhere, Sent, Held, Queued, Applied, clientVars, queueVars
<1>5. QED
  BY <1>2, <1>3, <1>4 DEF MovesInv

\* From the buffer into the queue.
LEMMA ProduceAccounts ==
  ASSUME MovesInv, ServerProduces
  PROVE  MovesInv'
<1>1. /\ server = "holding" /\ server' = "receiving"
      /\ players_queue' = Append(players_queue, buf)
      /\ UNCHANGED <<clientVars, buf, ghostVars, net, player_move>>
  BY DEF ServerProduces, Queue!Put
<1>2. /\ players_queue \in Seq(Move \cup {Indeterminate})
      /\ buf \in Move \cup {Indeterminate}
  BY DEF MovesInv, MovesTypeOK
<1>3. /\ Held = {buf} /\ Held' = {} /\ Queued' = Queued \cup {buf}
      /\ Applied' = Applied /\ Sent' = Sent
  BY <1>1, <1>2, AppendedElements
     DEF Held, Queued, Applied, Sent, clientVars, ghostVars
<1>4. players_queue' \in Seq(Move \cup {Indeterminate})
  BY <1>1, <1>2, AppendedElements
<1>5. MovesTypeOK'
  BY <1>1, <1>4 DEF MovesInv, MovesTypeOK, clientVars, ghostVars
<1>6. Anywhere' = Anywhere
  BY <1>1, <1>3 DEF Anywhere, ghostVars
<1>7. failures = 0 => Apart' /\ IsInjective(players_queue)'
  <2> SUFFICES ASSUME failures = 0 PROVE Apart' /\ IsInjective(players_queue)'
    OBVIOUS
  <2>1. Apart /\ IsInjective(players_queue)
    BY DEF MovesInv, OnePlaceEach
  <2>2. buf \notin ToSet(players_queue)
    BY <1>3, <2>1 DEF Apart, Queued
  <2>3. IsInjective(Append(players_queue, buf))
    BY <1>2, <2>1, <2>2, AppendedElements
  <2>4. IsInjective(players_queue)'
    BY <1>1, <2>3 DEF IsInjective
  <2>5. Apart'
    BY <1>1, <1>3, <2>1 DEF Apart, ghostVars
  <2>6. QED
    BY <2>4, <2>5
<1>8. QED
  BY <1>1, <1>3, <1>5, <1>6, <1>7 DEF MovesInv, OnePlaceEach, ghostVars

\* The queue is full.
LEMMA DropAccounts ==
  ASSUME MovesInv, ServerDrops
  PROVE  MovesInv'
<1>1. /\ server = "holding" /\ server' = "receiving"
      /\ dropped' = dropped \cup {buf}
      /\ UNCHANGED <<clientVars, buf, queueVars, lost, applied, net, failures>>
  BY DEF ServerDrops
<1>2. /\ Held = {buf} /\ Held' = {} /\ Queued' = Queued
      /\ Applied' = Applied /\ Sent' = Sent
  BY <1>1 DEF Held, Queued, Applied, Sent, clientVars, queueVars
<1>3. MovesTypeOK'
  BY <1>1 DEF MovesInv, MovesTypeOK, clientVars, queueVars
<1>4. Anywhere' = Anywhere
  BY <1>1, <1>2 DEF Anywhere
<1>5. failures = 0 => Apart'
  BY <1>1, <1>2 DEF MovesInv, OnePlaceEach, Apart
<1>6. QED
  BY <1>1, <1>2, <1>3, <1>4, <1>5 DEF MovesInv, OnePlaceEach, queueVars

\* From the queue to the entity.
LEMMA MoveAccounts ==
  ASSUME MovesInv, SimulateMoves
  PROVE  MovesInv'
<1> DEFINE m == Head(players_queue)
<1>1. /\ players_queue # <<>> /\ players_queue' = Tail(players_queue)
      /\ player_move' = m /\ applied' = Append(applied, m)
      /\ UNCHANGED <<clientVars, serverVars, lost, dropped, failures, net>>
  BY DEF SimulateMoves, Queue!Take
<1>2. /\ players_queue \in Seq(Move \cup {Indeterminate})
      /\ applied \in Seq(Move \cup {Indeterminate})
  BY DEF MovesInv, MovesTypeOK
<1>3. /\ m \in Move \cup {Indeterminate}
      /\ players_queue' \in Seq(Move \cup {Indeterminate})
      /\ Queued = {m} \cup Queued'
      /\ IsInjective(players_queue) => m \notin Queued' /\ IsInjective(players_queue)'
  <2>1. /\ m \in Move \cup {Indeterminate}
        /\ Tail(players_queue) \in Seq(Move \cup {Indeterminate})
        /\ ToSet(players_queue) = {m} \cup ToSet(Tail(players_queue))
        /\ IsInjective(players_queue) =>
             m \notin ToSet(Tail(players_queue)) /\ IsInjective(Tail(players_queue))
    BY <1>1, <1>2, TakenElements
  <2> HIDE DEF m
  <2>2. /\ ToSet(players_queue)' = ToSet(Tail(players_queue))
        /\ IsInjective(players_queue)' <=> IsInjective(Tail(players_queue))
    BY <1>1 DEF ToSet, IsInjective
  <2>3. QED
    BY <1>1, <2>1, <2>2 DEF Queued
<1> HIDE DEF m
<1>4. /\ applied' \in Seq(Move \cup {Indeterminate})
      /\ Applied' = Applied \cup {m}
      /\ IsInjective(applied) /\ m \notin Applied => IsInjective(applied)'
  <2>1. /\ Append(applied, m) \in Seq(Move \cup {Indeterminate})
        /\ ToSet(Append(applied, m)) = ToSet(applied) \cup {m}
        /\ IsInjective(applied) /\ m \notin ToSet(applied)
             => IsInjective(Append(applied, m))
    BY <1>2, <1>3, AppendedElements
  <2>2. /\ ToSet(applied)' = ToSet(Append(applied, m))
        /\ IsInjective(applied)' <=> IsInjective(Append(applied, m))
    BY <1>1 DEF ToSet, IsInjective
  <2>3. QED
    BY <1>1, <2>1, <2>2 DEF Applied
<1>5. Held' = Held /\ Sent' = Sent
  BY <1>1 DEF Held, Sent, clientVars, serverVars
<1>6. MovesTypeOK'
  BY <1>1, <1>3, <1>4 DEF MovesInv, MovesTypeOK, clientVars, serverVars
<1>7. Anywhere' = Anywhere
  BY <1>1, <1>3, <1>4, <1>5 DEF Anywhere
<1>8. failures = 0 => OnePlaceEach'
  <2> SUFFICES ASSUME failures = 0 PROVE OnePlaceEach'
    OBVIOUS
  <2>1. /\ Anywhere = Sent /\ Apart
        /\ IsInjective(players_queue) /\ IsInjective(applied)
    BY DEF MovesInv, OnePlaceEach
  <2>2. m \notin Applied
    BY <1>3, <2>1 DEF Apart
  <2>3. Apart'
    BY <1>1, <1>3, <1>4, <1>5, <2>1 DEF Apart
  <2>4. QED
    BY <1>3, <1>4, <1>5, <1>7, <2>1, <2>2, <2>3 DEF OnePlaceEach
<1>9. QED
  BY <1>1, <1>5, <1>6, <1>7, <1>8 DEF MovesInv

\* Nothing has been sent, and there is nothing anywhere.
LEMMA NothingSent ==
  ASSUME Init
  PROVE  MovesInv
<1>1. /\ tick = 0 /\ i = Cardinality(Entity) /\ failures = 0
      /\ server = "receiving" /\ buf = Indeterminate
      /\ net = {} /\ lost = {} /\ dropped = {}
      /\ players_queue = <<>> /\ applied = <<>>
  BY DEF Init, Queue!Init
<1>2. MovesTypeOK
  BY <1>1, EntityCount, GameServerAssumption DEF MovesTypeOK
<1>3. Sent = {}
  <2>1. ASSUME NEW m \in Move
        PROVE  ~(m.serial < tick \/ (m.serial = tick /\ m.player_id < i))
    <3>1. m.serial \in Nat /\ m.serial >= 1
      BY GameServerAssumption DEF Move
    <3>2. QED
      BY <1>1, <3>1
  <2>2. QED
    BY <2>1 DEF Sent
<1>4. /\ DOMAIN players_queue = {} /\ DOMAIN applied = {}
  BY <1>1
<1>5. Held = {} /\ Queued = {} /\ Applied = {}
  BY <1>1, <1>4 DEF Held, Queued, Applied, ToSet
<1>6. Anywhere = {} /\ Apart
  BY <1>1, <1>5 DEF Anywhere, Apart
<1>7. IsInjective(players_queue) /\ IsInjective(applied)
  BY <1>4 DEF IsInjective
<1>8. QED
  BY <1>2, <1>3, <1>6, <1>7 DEF MovesInv, OnePlaceEach

\* Every step of the client, the server and main keeps the account.
THEOREM MovesInvariant == Spec => []MovesInv
<1>1. Init => MovesInv
  BY NothingSent
<1>2. MovesInv /\ [Next]_vars => MovesInv'
  <2> SUFFICES ASSUME MovesInv, [Next]_vars PROVE MovesInv'
    OBVIOUS
  <2>1. CASE ServicesStart
    BY <2>1, MovesStay DEF ServicesStart
  <2>2. CASE ClientTicks
    BY <2>2, TickAccounts
  <2>3. CASE ClientSends
    BY <2>3, SendAccounts
  <2>4. CASE ServerReceives
    BY <2>4, ReceiveAccounts
  <2>5. CASE ReceiveFails
    BY <2>5, FailureAccounts
  <2>6. CASE ServerProduces
    BY <2>6, ProduceAccounts
  <2>7. CASE ServerDrops
    BY <2>7, DropAccounts
  <2>8. CASE SimulateBegins
    BY <2>8, MovesStay DEF SimulateBegins
  <2>9. CASE SimulateMoves
    BY <2>9, MoveAccounts
  <2>10. CASE SimulateEnds
    BY <2>10, MovesStay DEF SimulateEnds
  <2>11. CASE UNCHANGED vars
    BY <2>11, MovesStay DEF vars
  <2>12. QED
    BY <2>1, <2>2, <2>3, <2>4, <2>5, <2>6, <2>7, <2>8, <2>9, <2>10, <2>11
       DEF Next, Client, Server, Main
<1>3. QED
  BY <1>1, <1>2, PTL DEF Spec

\* Every move that has been sent is somewhere between the client and its entity,
\* and, as long as no receive has failed, in one place and moves its entity once
\* at most.
THEOREM NoMoveIsForgotten == Spec => []MoveAccounting
<1>1. MovesInv => MoveAccounting
  <2> SUFFICES ASSUME MovesInv PROVE MoveAccounting
    OBVIOUS
  <2>1. Sent \subseteq UNION ToSet(Places)
    BY SixPlaces DEF MovesInv
  <2>2. ASSUME failures = 0
        PROVE  /\ UNION ToSet(Places) = Sent
               /\ \A a, b \in DOMAIN Places :
                    a # b => Places[a] \cap Places[b] = {}
    BY <2>2, SixPlaces DEF MovesInv, OnePlaceEach
  <2>3. ASSUME failures = 0
        PROVE  /\ \A a, b \in DOMAIN players_queue :
                    players_queue[a] = players_queue[b] => a = b
               /\ \A a, b \in DOMAIN applied : applied[a] = applied[b] => a = b
    BY <2>3 DEF MovesInv, OnePlaceEach, IsInjective
  <2>4. QED
    BY <2>1, <2>2, <2>3 DEF MoveAccounting
<1>2. QED
  BY <1>1, MovesInvariant, PTL

\* The server and main use the lock-free queue as its two users may: each step
\* of theirs is an operation of the queue or leaves it alone.
THEOREM QueueIsUsedAsPromised == Spec => Queue!Spec
<1>1. Init => Queue!Init
  BY DEF Init
<1>2. MovesInv /\ [Next]_vars => [Queue!Next]_queueVars
  <2> SUFFICES ASSUME MovesInv, Next PROVE Queue!Next \/ UNCHANGED queueVars
    BY DEF vars
  <2>1. CASE ServerProduces
    <3>1. Queue!Put(buf) /\ buf \in Move \cup {Indeterminate}
      BY <2>1 DEF ServerProduces, MovesInv, MovesTypeOK
    <3>2. QED
      BY <3>1 DEF Queue!Next
  <2>2. CASE SimulateMoves
    BY <2>2 DEF SimulateMoves, Queue!Next
  <2>3. CASE ServicesStart \/ ClientTicks \/ ClientSends \/ ServerReceives
             \/ ReceiveFails \/ ServerDrops \/ SimulateBegins \/ SimulateEnds
    BY <2>3 DEF ServicesStart, ClientTicks, ClientSends, ServerReceives,
                ReceiveFails, ServerDrops, SimulateBegins, SimulateEnds
  <2>4. QED
    BY <2>1, <2>2, <2>3 DEF Next, Client, Server, Main
<1>3. QED
  BY <1>1, <1>2, MovesInvariant, PTL
     DEF Spec, Queue!Spec, queueVars, Queue!vars

\* Whatever is sent, lost, dropped or received wrongly: no entity gets out of the
\* walls, because a move only says whom to move.
THEOREM MovesKeepEntitiesInside == Spec => []InsideWalls
<1>1. Spec => NpcSpec
  <2>1. Init => NpcInit
    BY DEF Init
  <2>2. [Next]_vars => [NpcNext]_npcVars
    <3> SUFFICES ASSUME Next PROVE NpcNext \/ UNCHANGED npcVars
      BY DEF vars
    <3>1. CASE SimulateMoves
      <4>1. CASE player_move' \in Move
        <5>1. player_move'.player_id \in Entity
          BY <4>1 DEF Move
        <5>2. QED
          BY <3>1, <4>1, <5>1 DEF SimulateMoves, NpcNext
      <4>2. CASE player_move' \notin Move
        BY <3>1, <4>2 DEF SimulateMoves, NpcNext
      <4>3. QED
        BY <4>1, <4>2
    <3>2. CASE ServicesStart \/ Client \/ Server \/ SimulateBegins \/ SimulateEnds
      BY <3>2 DEF ServicesStart, Client, ClientTicks, ClientSends, Server,
                  ServerReceives, ReceiveFails, ServerProduces, ServerDrops,
                  SimulateBegins, SimulateEnds
    <3>3. QED
      BY <3>1, <3>2 DEF Next, Main
  <2>3. QED
    BY <2>1, <2>2, PTL DEF Spec, NpcSpec
<1>2. QED
  BY <1>1, EntitiesInsideWalls, PTL

-----------------------------------------------------------------------------
\* The blocks of memory that threads are handed.

Creation == {"wanted", "creating", "starting", "copied", "running", "missing"}

\* The state of a thread says what has become of its block.
BlockFollows(t) ==
  /\ thread[t] = "wanted" => arg[t] = "none"
  /\ thread[t] \in {"creating", "starting", "copied"} => arg[t] = "owned"
  /\ thread[t] \in {"running", "missing"} => arg[t] = "freed"

ThreadsInv ==
  /\ thread \in [Thread -> Creation]
  /\ arg \in [Thread -> {"none", "owned", "freed"}]
  /\ \A t \in Thread : BlockFollows(t)

\* One step of one thread, or of its creator.
LEMMA BlockKeeps ==
  ASSUME ThreadsInv, NEW t \in Thread, ThreadStarts(t)
  PROVE  ThreadsInv'
<1>1. PICK to \in Creation, block \in {"owned", "freed"} :
        /\ thread' = [thread EXCEPT ![t] = to]
        /\ arg' = [arg EXCEPT ![t] = block]
        /\ to # "wanted"
        /\ to \in {"creating", "starting", "copied"} => block = "owned"
        /\ to \in {"running", "missing"} => block = "freed"
  <2>0. arg = [arg EXCEPT ![t] = arg[t]]
    BY DEF ThreadsInv
  <2>1. CASE FillsArg(t)
    BY <2>1 DEF FillsArg, Becomes, Creation
  <2>2. CASE ThreadIsCreated(t)
    <3>1. arg[t] = "owned"
      BY <2>2 DEF ThreadIsCreated, Becomes, ThreadsInv, BlockFollows
    <3>2. QED
      BY <2>0, <2>2, <3>1 DEF ThreadIsCreated, Becomes, Creation
  <2>3. CASE CreationFails(t)
    BY <2>3 DEF CreationFails, Becomes, Uses, Creation, ThreadsInv, BlockFollows
  <2>4. CASE CopiesArg(t)
    BY <2>4 DEF CopiesArg, Becomes, Uses, Creation, ThreadsInv, BlockFollows
  <2>5. CASE FreesArg(t)
    BY <2>5 DEF FreesArg, Becomes, Uses, Creation, ThreadsInv, BlockFollows
  <2>6. QED
    BY <2>1, <2>2, <2>3, <2>4, <2>5 DEF ThreadStarts
<1>2. /\ thread' \in [Thread -> Creation]
      /\ arg' \in [Thread -> {"none", "owned", "freed"}]
      /\ thread'[t] = to /\ arg'[t] = block
      /\ \A u \in Thread \ {t} : thread'[u] = thread[u] /\ arg'[u] = arg[u]
  BY <1>1 DEF ThreadsInv
<1>3. BlockFollows(t)'
  BY <1>1, <1>2 DEF BlockFollows
<1>4. \A u \in Thread \ {t} : BlockFollows(u)'
  BY <1>2 DEF BlockFollows, ThreadsInv
<1>5. QED
  BY <1>2, <1>3, <1>4 DEF ThreadsInv

\* However creator and threads take turns, the block of each follows its thread.
THEOREM BlocksFollowThreads == ServicesSpec => []ThreadsInv
<1>1. ServicesInit => ThreadsInv
  BY DEF ServicesInit, ThreadsInit, ThreadsInv, Creation, BlockFollows
<1>2. ThreadsInv /\ [ServicesNext]_serviceVars => ThreadsInv'
  <2> SUFFICES ASSUME ThreadsInv, [ServicesNext]_serviceVars PROVE ThreadsInv'
    OBVIOUS
  <2>1. CASE ThreadStep
    BY <2>1, BlockKeeps DEF ThreadStep
  <2>2. CASE UNCHANGED threadVars
    BY <2>2 DEF threadVars, ThreadsInv, BlockFollows
  <2>3. QED
    BY <2>1, <2>2
       DEF ServicesNext, SocketStep, ClockStep, ShutdownStep, serviceVars
<1>3. QED
  BY <1>1, <1>2, PTL DEF ServicesSpec

\* A block is never read or freed when it is not there, and none is left behind.
THEOREM BlocksAreFreedOnce == ServicesSpec => []ArgsAreFreedOnce
<1>1. ThreadsInv => ArgsAreFreedOnce
  BY DEF ThreadsInv, BlockFollows, Creation, ArgsAreFreedOnce
<1>2. QED
  BY <1>1, BlocksFollowThreads, PTL

-----------------------------------------------------------------------------
\* The time.

\* The flag says that the frequency is known, and so does having queried it.
ClockInv ==
  /\ clock \in [Caller -> {"outside", "querying", "marking", "dividing"}]
  /\ init \in BOOLEAN
  /\ init => freq # 0
  /\ \A t \in Caller : clock[t] \in {"marking", "dividing"} => freq # 0

\* One step of one thread in get_current_time.
LEMMA ClockKeeps ==
  ASSUME ClockInv, NEW t \in Caller, TimeStep(t)
  PROVE  ClockInv'
<1>1. PICK to \in {"outside", "querying", "marking", "dividing"} :
        /\ clock' = [clock EXCEPT ![t] = to]
        /\ to \in {"marking", "dividing"} => freq' # 0
        /\ init' \in BOOLEAN /\ (init' => freq' # 0)
        /\ freq # 0 => freq' # 0
  <2>1. CASE AsksForTime(t)
    <3>1. CASE init
      BY <2>1, <3>1 DEF AsksForTime, InClock, ClockInv
    <3>2. CASE ~init
      BY <2>1, <3>2 DEF AsksForTime, InClock, ClockInv
    <3>3. QED
      BY <3>1, <3>2
  <2>2. CASE LearnsFrequency(t)
    <3>1. CASE InClock(t, "querying", "marking") /\ freq' = Frequency /\ init' = init
      <4>1. freq' # 0 /\ clock' = [clock EXCEPT ![t] = "marking"]
        BY <3>1 DEF InClock, Frequency
      <4>2. init' \in BOOLEAN
        BY <3>1 DEF ClockInv
      <4>3. QED
        BY <4>1, <4>2
    <3>2. CASE InClock(t, "marking", "dividing") /\ init' = TRUE /\ freq' = freq
      <4>1. freq' # 0 /\ clock' = [clock EXCEPT ![t] = "dividing"]
        BY <3>2 DEF InClock, ClockInv
      <4>2. QED
        BY <3>2, <4>1
    <3>3. QED
      BY <2>2, <3>1, <3>2 DEF LearnsFrequency
  <2>3. CASE TellsTime(t)
    BY <2>3 DEF TellsTime, InClock, ClockInv
  <2>4. QED
    BY <2>1, <2>2, <2>3 DEF TimeStep
<1>2. /\ clock' \in [Caller -> {"outside", "querying", "marking", "dividing"}]
      /\ clock'[t] = to
      /\ \A u \in Caller \ {t} : clock'[u] = clock[u]
  BY <1>1 DEF ClockInv
<1>3. \A u \in Caller : clock'[u] \in {"marking", "dividing"} => freq' # 0
  BY <1>1, <1>2 DEF ClockInv
<1>4. QED
  BY <1>1, <1>2, <1>3 DEF ClockInv

\* However many threads ask at the same time: none divides by zero.
THEOREM NobodyDividesByZero == ServicesSpec => []FrequencyIsKnown
<1>1. ServicesInit => ClockInv
  BY DEF ServicesInit, ClockInit, ClockInv
<1>2. ClockInv /\ [ServicesNext]_serviceVars => ClockInv'
  <2> SUFFICES ASSUME ClockInv, [ServicesNext]_serviceVars PROVE ClockInv'
    OBVIOUS
  <2>1. CASE ClockStep
    BY <2>1, ClockKeeps DEF ClockStep
  <2>2. CASE UNCHANGED clockVars
    BY <2>2 DEF clockVars, ClockInv
  <2>3. QED
    BY <2>1, <2>2
       DEF ServicesNext, ThreadStep, SocketStep, ShutdownStep, serviceVars
<1>3. ClockInv => FrequencyIsKnown
  BY DEF ClockInv, FrequencyIsKnown
<1>4. QED
  BY <1>1, <1>2, <1>3, PTL DEF ServicesSpec

-----------------------------------------------------------------------------
\* Sockets and what goes through them.

Byte == 0 .. 255
Port == Seq(Byte)
Goal == {"none", "udp_server", "tcp_server", "udp_client", "tcp_client", "tcp_socket"}

Socket  == [kind : {"none", "udp", "tcp"}, sin_port : Port \cup {NoPort}]
Name    == [sin_port : Port, sin_addr : Port]
Address == [ip : Port, port : Port]

NetworkTypeOK ==
  /\ socket_initialized \in BOOLEAN /\ winsock \in Nat
  /\ sockets \in [User -> Socket]
  /\ service \in [User -> Phase]
  /\ goal \in [User -> Goal]
  /\ wire \subseteq [by : User \cup {Nobody}, from : Name, to : Name]
  /\ out_address \in [User -> Address \cup {NoAddress}]
  /\ sender \in [User -> User \cup {Nobody}]

\* What a thread that has come to a phase has, when it has asked for g: no socket
\* unless one has been made, Winsock when it is about to make one, the right kind
\* from then on, and the port from when it has been bound.
HasWhatItNeeds(socket, phase, g, port, startups) ==
  /\ phase \in {"idle", "starting", "initialising", "marking", "creating", "failed"}
       => socket = NoSocket
  /\ phase \in {"marking", "creating"} => startups > 0
  /\ phase \in {"binding", "listening", "ready"} => socket.kind = KindOf(g)
  /\ phase = "listening" \/ (phase = "ready" /\ Binds(g)) => socket.sin_port = port

Equipped(s) ==
  HasWhatItNeeds(sockets[s], service[s], goal[s], BoundPort(s), winsock)

\* A name stays the name of a socket for as long as its owner keeps it.
Named(s, name) ==
  At(s, "ready") /\ sockets[s].sin_port # NoPort /\ name = NameOf(s)

\* Who a datagram is from, and who is to be answered, has its socket still.
OriginsSound ==
  /\ \A d \in wire : d.by # Nobody => Named(d.by, d.from)
  /\ \A s \in User : sender[s] # Nobody => Named(sender[s], ToWin32(out_address[s]))

NetworkInv ==
  /\ NetworkTypeOK
  /\ socket_initialized => winsock > 0
  /\ \A s \in User : Equipped(s)
  /\ OriginsSound

\* Reversing twice the bytes of a number or an address.
LEMMA SwapTwice ==
  ASSUME NEW bytes \in Port
  PROVE  Swap(bytes) \in Port /\ Swap(Swap(bytes)) = bytes
<1> DEFINE len == Len(bytes)
<1>1. /\ len \in Nat /\ DOMAIN bytes = 1 .. len
      /\ \A k \in 1 .. len : bytes[k] \in Byte
      /\ bytes = [k \in 1 .. len |-> bytes[k]]
  BY DEF Port
<1> DEFINE swapped == [k \in 1 .. len |-> bytes[len - k + 1]]
<1>2. Swap(bytes) = swapped
  BY DEF Swap, Reverse
<1> HIDE DEF len
<1>3. \A k \in 1 .. len : len - k + 1 \in 1 .. len /\ len - (len - k + 1) + 1 = k
  BY <1>1
<1>4. /\ swapped \in [1 .. len -> Byte]
      /\ \A k \in 1 .. len : swapped[len - k + 1] = bytes[k]
  BY <1>1, <1>3
<1> HIDE DEF swapped
<1>5. swapped \in Port /\ Len(swapped) = len
  <2>1. swapped \in Seq(Byte)
    BY <1>1, <1>4, SeqDef
  <2>2. Len(swapped) \in Nat /\ 1 .. Len(swapped) = 1 .. len
    BY <1>4, <2>1, LenProperties
  <2>3. QED
    BY <1>1, <2>1, <2>2 DEF Port
<1>6. Swap(swapped) = [k \in 1 .. len |-> swapped[len - k + 1]]
  BY <1>5 DEF Swap, Reverse
<1>7. Swap(swapped) = [k \in 1 .. len |-> bytes[k]]
  BY <1>4, <1>6
<1>8. QED
  BY <1>1, <1>2, <1>5, <1>7

\* What an address becomes, and a name.
LEMMA Conversions ==
  /\ Loopback \in Port
  /\ \A s \in User : PortOf[s] \in Port /\ BoundPort(s) \in Port
  /\ \A s \in User : AddressOf(s) \in Address
  /\ \A a \in Address : ToWin32(a) \in Name
  /\ \A n \in Name : FromWin32(n) \in Address /\ ToWin32(FromWin32(n)) = n
  /\ \A s \in User : ToWin32(AddressOf(s)) = [sin_port |-> BoundPort(s), sin_addr |-> Loopback]
<1>1. Loopback \in Port
  BY DEF Loopback, Port, Byte
<1>2. \A s \in User : PortOf[s] \in Port /\ BoundPort(s) \in Port
  BY SocketsAssumption, SwapTwice DEF BoundPort, Port, Byte
<1>3. \A s \in User : AddressOf(s) \in Address
  BY <1>1, <1>2, SwapTwice DEF AddressOf, ParsedAddress, Address
<1>4. \A a \in Address : ToWin32(a) \in Name
  BY SwapTwice DEF ToWin32, Address, Name
<1>5. \A n \in Name : FromWin32(n) \in Address /\ ToWin32(FromWin32(n)) = n
  BY SwapTwice DEF FromWin32, ToWin32, Address, Name
<1>6. \A s \in User :
        ToWin32(AddressOf(s)) = [sin_port |-> BoundPort(s), sin_addr |-> Loopback]
  BY <1>1, SwapTwice DEF ToWin32, AddressOf, ParsedAddress, BoundPort
<1>7. QED
  BY <1>1, <1>2, <1>3, <1>4, <1>5, <1>6

\* What a step towards a socket does to the thread that makes it.
StartsAt(s, socket, phase, g) ==
  /\ socket \in Socket /\ phase \in Phase /\ g \in Goal
  /\ sockets' = [sockets EXCEPT ![s] = socket]
  /\ service' = [service EXCEPT ![s] = phase]
  /\ goal' = [goal EXCEPT ![s] = g]
  /\ HasWhatItNeeds(socket, phase, g, BoundPort(s), winsock')
  /\ winsock' \in Nat /\ winsock' >= winsock
  /\ socket_initialized' \in BOOLEAN
  /\ socket_initialized' => winsock' > 0

\* What does not change is what it was.
LEMMA Unmoved ==
  ASSUME NetworkTypeOK, NEW s \in User
  PROVE  /\ sockets[s] \in Socket /\ goal[s] \in Goal /\ service[s] \in Phase
         /\ sockets = [sockets EXCEPT ![s] = sockets[s]]
         /\ goal = [goal EXCEPT ![s] = goal[s]]
         /\ NoSocket \in Socket
         /\ socket_initialized \in BOOLEAN /\ winsock \in Nat
BY DEF NetworkTypeOK, Socket, NoSocket

\* Until a thread has its socket, and Winsock when that is not started yet.
LEMMA StartingSteps ==
  ASSUME NetworkInv, NEW s \in User,
         AsksForSocket(s) \/ ReadsFlag(s) \/ StartsWinsock(s) \/ SetsFlag(s)
  PROVE  \E phase \in Phase, g \in Goal : StartsAt(s, sockets[s], phase, g)
<1> USE DEF StartsAt, HasWhatItNeeds, At, Goes
<1>1. /\ sockets[s] \in Socket /\ goal[s] \in Goal /\ service[s] \in Phase
      /\ sockets = [sockets EXCEPT ![s] = sockets[s]]
      /\ goal = [goal EXCEPT ![s] = goal[s]]
      /\ socket_initialized \in BOOLEAN /\ winsock \in Nat
      /\ socket_initialized => winsock > 0
      /\ Equipped(s)
  BY Unmoved DEF NetworkInv
<1>2. CASE AsksForSocket(s)
  <2>1. PICK g \in Wanted[s] :
          /\ goal' = [goal EXCEPT ![s] = g]
          /\ service' = [service EXCEPT
                           ![s] = IF g = "tcp_client" THEN "failed" ELSE "starting"]
    BY <1>2 DEF AsksForSocket
  <2>2. g \in Goal
    BY <2>1, SocketsAssumption DEF Goal
  <2>3. sockets[s] = NoSocket /\ UNCHANGED <<socket_initialized, winsock, sockets>>
    BY <1>1, <1>2 DEF AsksForSocket, Equipped
  <2>4. CASE g = "tcp_client"
    <3>1. StartsAt(s, sockets[s], "failed", g)
      BY <1>1, <2>1, <2>2, <2>3, <2>4 DEF Phase
    <3>2. QED
      BY <2>2, <3>1
  <2>5. CASE g # "tcp_client"
    <3>1. StartsAt(s, sockets[s], "starting", g)
      BY <1>1, <2>1, <2>2, <2>3, <2>5 DEF Phase
    <3>2. QED
      BY <2>2, <3>1
  <2>6. QED
    BY <2>4, <2>5
<1>3. CASE ReadsFlag(s)
  <2>1. /\ sockets[s] = NoSocket
        /\ UNCHANGED <<socket_initialized, winsock, sockets, goal>>
    BY <1>1, <1>3 DEF ReadsFlag, Equipped
  <2>2. CASE socket_initialized
    <3>1. StartsAt(s, sockets[s], "creating", goal[s])
      BY <1>1, <1>3, <2>1, <2>2 DEF ReadsFlag, Phase
    <3>2. QED
      BY <1>1, <3>1
  <2>3. CASE ~socket_initialized
    <3>1. StartsAt(s, sockets[s], "initialising", goal[s])
      BY <1>1, <1>3, <2>1, <2>3 DEF ReadsFlag, Phase
    <3>2. QED
      BY <1>1, <3>1
  <2>4. QED
    BY <2>2, <2>3
<1>4. CASE StartsWinsock(s)
  <2>1. sockets[s] = NoSocket /\ UNCHANGED <<socket_initialized, sockets, goal>>
    BY <1>1, <1>4 DEF StartsWinsock, Equipped
  <2>2. CASE winsock' = winsock + 1 /\ Goes(s, "marking")
    <3>1. StartsAt(s, sockets[s], "marking", goal[s])
      BY <1>1, <2>1, <2>2 DEF Phase
    <3>2. QED
      BY <1>1, <3>1
  <2>3. CASE Goes(s, "failed") /\ UNCHANGED winsock
    <3>1. StartsAt(s, sockets[s], "failed", goal[s])
      BY <1>1, <2>1, <2>3 DEF Phase
    <3>2. QED
      BY <1>1, <3>1
  <2>4. QED
    BY <1>4, <2>2, <2>3 DEF StartsWinsock
<1>5. CASE SetsFlag(s)
  <2>1. /\ sockets[s] = NoSocket /\ winsock > 0
        /\ socket_initialized' = TRUE /\ UNCHANGED <<winsock, sockets, goal>>
    BY <1>1, <1>5 DEF SetsFlag, Equipped
  <2>2. StartsAt(s, sockets[s], "creating", goal[s])
    BY <1>1, <1>5, <2>1 DEF SetsFlag, Phase
  <2>3. QED
    BY <1>1, <2>2
<1>6. QED
  BY <1>2, <1>3, <1>4, <1>5

\* From then on, until the wrapper returns.
LEMMA MakingSteps ==
  ASSUME NetworkInv, NEW s \in User,
         CreatesSocket(s) \/ BindsSocket(s) \/ Listens(s) \/ ClosesSocket(s)
  PROVE  \E socket \in Socket, phase \in Phase : StartsAt(s, socket, phase, goal[s])
<1> USE DEF StartsAt, HasWhatItNeeds, At, Goes
<1>1. /\ sockets[s] \in Socket /\ goal[s] \in Goal
      /\ sockets = [sockets EXCEPT ![s] = sockets[s]]
      /\ goal = [goal EXCEPT ![s] = goal[s]]
      /\ NoSocket \in Socket
      /\ socket_initialized \in BOOLEAN /\ winsock \in Nat
      /\ socket_initialized => winsock > 0
      /\ Equipped(s)
  BY Unmoved DEF NetworkInv
<1>2. /\ UNCHANGED <<socket_initialized, winsock, goal>>
  BY DEF CreatesSocket, BindsSocket, Listens, ClosesSocket
<1>3. CASE CreatesSocket(s)
  <2>1. sockets[s] = NoSocket
    BY <1>1, <1>3 DEF CreatesSocket, Equipped
  <2> DEFINE made == [sockets[s] EXCEPT !.kind = KindOf(goal[s])]
  <2>2. made \in Socket /\ made.kind = KindOf(goal[s])
    BY <1>1 DEF Socket, KindOf
  <2>3. CASE /\ sockets' = [sockets EXCEPT ![s] = made]
             /\ Goes(s, IF Binds(goal[s]) THEN "binding" ELSE "ready")
    <3> HIDE DEF made
    <3>1. CASE Binds(goal[s])
      <4>1. StartsAt(s, made, "binding", goal[s])
        BY <1>1, <1>2, <2>2, <2>3, <3>1 DEF Phase
      <4>2. QED
        BY <2>2, <4>1 DEF Phase
    <3>2. CASE ~Binds(goal[s])
      <4>1. StartsAt(s, made, "ready", goal[s])
        BY <1>1, <1>2, <2>2, <2>3, <3>2 DEF Phase
      <4>2. QED
        BY <2>2, <4>1 DEF Phase
    <3>3. QED
      BY <3>1, <3>2
  <2>4. CASE Goes(s, "failed") /\ UNCHANGED sockets
    <3>1. StartsAt(s, sockets[s], "failed", goal[s])
      BY <1>1, <1>2, <2>1, <2>4 DEF Phase
    <3>2. QED
      BY <1>1, <3>1 DEF Phase
  <2>5. QED
    BY <1>3, <2>3, <2>4 DEF CreatesSocket
<1>4. CASE BindsSocket(s)
  <2> DEFINE bound == [sockets[s] EXCEPT !.sin_port = BoundPort(s)]
  <2>1. bound \in Socket /\ bound.kind = sockets[s].kind /\ bound.sin_port = BoundPort(s)
    BY <1>1, Conversions DEF Socket
  <2>2. sockets[s].kind = KindOf(goal[s])
    BY <1>1, <1>4 DEF BindsSocket, Equipped
  <2>3. CASE /\ sockets' = [sockets EXCEPT ![s] = bound]
             /\ Goes(s, IF goal[s] = "tcp_server" THEN "listening" ELSE "ready")
    <3> HIDE DEF bound
    <3>1. CASE goal[s] = "tcp_server"
      <4>1. StartsAt(s, bound, "listening", goal[s])
        BY <1>1, <1>2, <2>1, <2>2, <2>3, <3>1 DEF Phase
      <4>2. QED
        BY <2>1, <4>1 DEF Phase
    <3>2. CASE goal[s] # "tcp_server"
      <4>1. StartsAt(s, bound, "ready", goal[s])
        BY <1>1, <1>2, <2>1, <2>2, <2>3, <3>2 DEF Phase
      <4>2. QED
        BY <2>1, <4>1 DEF Phase
    <3>3. QED
      BY <3>1, <3>2
  <2>4. CASE Goes(s, "closing") /\ UNCHANGED sockets
    <3>1. StartsAt(s, sockets[s], "closing", goal[s])
      BY <1>1, <1>2, <2>4 DEF Phase
    <3>2. QED
      BY <1>1, <3>1 DEF Phase
  <2>5. QED
    BY <1>4, <2>3, <2>4 DEF BindsSocket
<1>5. CASE Listens(s)
  <2>1. /\ sockets[s].kind = KindOf(goal[s]) /\ sockets[s].sin_port = BoundPort(s)
        /\ UNCHANGED sockets
    BY <1>1, <1>5 DEF Listens, Equipped
  <2>2. CASE Goes(s, "ready")
    <3>1. StartsAt(s, sockets[s], "ready", goal[s])
      BY <1>1, <1>2, <2>1, <2>2 DEF Phase
    <3>2. QED
      BY <1>1, <3>1 DEF Phase
  <2>3. CASE Goes(s, "closing")
    <3>1. StartsAt(s, sockets[s], "closing", goal[s])
      BY <1>1, <1>2, <2>1, <2>3 DEF Phase
    <3>2. QED
      BY <1>1, <3>1 DEF Phase
  <2>4. QED
    BY <1>5, <2>2, <2>3 DEF Listens
<1>6. CASE ClosesSocket(s)
  <2>1. StartsAt(s, NoSocket, "failed", goal[s])
    BY <1>1, <1>2, <1>6 DEF ClosesSocket, Phase
  <2>2. QED
    BY <1>1, <2>1 DEF Phase
<1>7. QED
  BY <1>3, <1>4, <1>5, <1>6

\* The others keep what they have, and nobody knows a socket that is not ready.
LEMMA StartKeeps ==
  ASSUME NetworkInv, NEW s \in User, ServiceStarts(s), UNCHANGED trafficVars
  PROVE  NetworkInv'
<1>1. PICK socket \in Socket, phase \in Phase, g \in Goal : StartsAt(s, socket, phase, g)
  <2>1. CASE AsksForSocket(s) \/ ReadsFlag(s) \/ StartsWinsock(s) \/ SetsFlag(s)
    BY <2>1, StartingSteps, Unmoved DEF NetworkInv
  <2>2. CASE CreatesSocket(s) \/ BindsSocket(s) \/ Listens(s) \/ ClosesSocket(s)
    BY <2>2, MakingSteps, Unmoved DEF NetworkInv
  <2>3. QED
    BY <2>1, <2>2 DEF ServiceStarts
<1>2. NetworkTypeOK /\ \A r \in User : Equipped(r)
  BY DEF NetworkInv
<1>3. /\ sockets'[s] = socket /\ service'[s] = phase /\ goal'[s] = g
      /\ \A r \in User \ {s} : /\ sockets'[r] = sockets[r]
                               /\ service'[r] = service[r] /\ goal'[r] = goal[r]
  BY <1>1, <1>2 DEF StartsAt, NetworkTypeOK
<1>4. NetworkTypeOK'
  BY <1>1, <1>2 DEF StartsAt, NetworkTypeOK, trafficVars
<1>5. Equipped(s)'
  BY <1>1, <1>3 DEF StartsAt, Equipped, HasWhatItNeeds, BoundPort
<1>6. ASSUME NEW r \in User \ {s} PROVE Equipped(r)'
  <2>1. Equipped(r) /\ winsock' \in Nat /\ winsock \in Nat /\ winsock' >= winsock
    BY <1>1, <1>2 DEF StartsAt, NetworkTypeOK
  <2>2. QED
    BY <1>3, <2>1 DEF Equipped, HasWhatItNeeds, BoundPort
<1>7. service[s] # "ready"
  BY DEF ServiceStarts, AsksForSocket, ReadsFlag, StartsWinsock, SetsFlag,
         CreatesSocket, BindsSocket, Listens, ClosesSocket, At
<1>8. \A r \in User : \A name : Named(r, name) => Named(r, name)'
  BY <1>3, <1>7 DEF Named, NameOf, At
<1>9. OriginsSound'
  <2>1. wire' = wire /\ sender' = sender /\ out_address' = out_address
    BY DEF trafficVars
  <2>2. ASSUME NEW d \in wire, d.by # Nobody PROVE Named(d.by, d.from)'
    BY <1>2, <1>8, <2>2 DEF NetworkInv, OriginsSound, NetworkTypeOK
  <2>3. ASSUME NEW r \in User, sender[r] # Nobody
        PROVE  Named(sender[r], ToWin32(out_address[r]))'
    <3>1. sender[r] \in User /\ Named(sender[r], ToWin32(out_address[r]))
      BY <1>2, <2>3 DEF NetworkInv, OriginsSound, NetworkTypeOK
    <3>2. QED
      BY <1>3, <1>7, <2>1, <3>1 DEF Named, NameOf, At
  <2>4. QED
    BY <2>1, <2>2, <2>3 DEF OriginsSound
<1>10. socket_initialized' => winsock' > 0
  BY <1>1 DEF StartsAt
<1>11. QED
  BY <1>4, <1>5, <1>6, <1>9, <1>10 DEF NetworkInv

\* Who sends has a name from then on, and kept the one it had.
LEMMA SendKeeps ==
  ASSUME NetworkInv, NEW s \in User, SendsTo(s)
  PROVE  NetworkInv'
<1>1. /\ NetworkTypeOK /\ OriginsSound /\ Equipped(s)
      /\ At(s, "ready") /\ sockets[s] \in Socket
      /\ UNCHANGED <<socket_initialized, winsock, service, goal, out_address, sender>>
  BY DEF NetworkInv, SendsTo, NetworkTypeOK
<1>2. Ephemeral[s] \in Port
  BY NetworkAssumption DEF Port, Byte
<1>3. PICK socket \in Socket :
        /\ sockets' = [sockets EXCEPT ![s] = socket]
        /\ socket.kind = sockets[s].kind /\ socket.sin_port \in Port
        /\ sockets[s].sin_port # NoPort => socket = sockets[s]
  <2>1. CASE sockets[s].sin_port = NoPort
    <3> DEFINE socket == [sockets[s] EXCEPT !.sin_port = Ephemeral[s]]
    <3>1. sockets' = [sockets EXCEPT ![s] = socket]
      BY <2>1 DEF SendsTo
    <3>2. /\ socket \in Socket
          /\ socket.kind = sockets[s].kind /\ socket.sin_port = Ephemeral[s]
      BY <1>1, <1>2 DEF Socket
    <3>3. QED
      BY <1>2, <2>1, <3>1, <3>2
  <2>2. CASE sockets[s].sin_port # NoPort
    <3>1. sockets' = sockets /\ sockets[s].sin_port \in Port
      BY <1>1, <2>2 DEF SendsTo, Socket
    <3>2. sockets' = [sockets EXCEPT ![s] = sockets[s]]
      BY <1>1, <3>1 DEF NetworkTypeOK
    <3>3. QED
      BY <1>1, <3>1, <3>2
  <2>3. QED
    BY <2>1, <2>2
<1>4. socket.sin_port # NoPort
  BY <1>3, SocketsAssumption DEF Port, Byte
<1>5. /\ sockets' \in [User -> Socket] /\ sockets'[s] = socket
      /\ \A r \in User \ {s} : sockets'[r] = sockets[r]
  BY <1>1, <1>3 DEF NetworkTypeOK
<1>6. \A r \in User : Equipped(r)'
  <2>1. Equipped(s)'
    <3>1. /\ BoundPort(s) # NoPort
      BY Conversions, SocketsAssumption DEF Port, Byte
    <3>2. QED
      BY <1>1, <1>3, <1>5, <3>1
         DEF Equipped, HasWhatItNeeds, At, BoundPort
  <2>2. ASSUME NEW r \in User \ {s} PROVE Equipped(r)'
    BY <1>1, <1>5 DEF Equipped, HasWhatItNeeds, BoundPort, NetworkInv
  <2>3. QED
    BY <2>1, <2>2
<1>7. \A r \in User : \A name : Named(r, name) => Named(r, name)'
  BY <1>1, <1>3, <1>5 DEF Named, NameOf, At
<1>8. /\ Named(s, NameOf(s))' /\ NameOf(s)' \in Name
  BY <1>1, <1>3, <1>4, <1>5, Conversions DEF Named, NameOf, At, Name
<1>9. PICK address \in Address :
        wire' \subseteq wire \cup
                  {[by |-> s, from |-> NameOf(s)', to |-> ToWin32(address)]}
  <2>1. Known(s) \subseteq Address
    BY <1>1, Conversions DEF Known, NetworkTypeOK
  <2>2. QED
    BY <2>1 DEF SendsTo
<1> DEFINE datagram == [by |-> s, from |-> NameOf(s)', to |-> ToWin32(address)]
<1>10. datagram \in [by : User \cup {Nobody}, from : Name, to : Name]
  BY <1>8, Conversions
<1>11. NetworkTypeOK'
  BY <1>1, <1>5, <1>9, <1>10 DEF NetworkTypeOK
<1>12. ASSUME NEW d \in wire', d.by # Nobody PROVE Named(d.by, d.from)'
  <2>1. CASE d \in wire
    <3>1. d.by \in User /\ Named(d.by, d.from)
      BY <1>1, <1>12, <2>1 DEF NetworkTypeOK, OriginsSound
    <3>2. QED
      BY <1>7, <3>1
  <2>2. CASE d = datagram
    <3>1. d.by = s /\ d.from = NameOf(s)'
      BY <2>2
    <3>2. QED
      BY <1>8, <3>1
  <2>3. QED
    BY <1>9, <2>1, <2>2
<1>13. ASSUME NEW r \in User, sender'[r] # Nobody
       PROVE  Named(sender[r], ToWin32(out_address[r]))'
  <2>1. sender[r] \in User /\ Named(sender[r], ToWin32(out_address[r]))
    BY <1>1, <1>13 DEF NetworkTypeOK, OriginsSound
  <2>2. sender'[r] = sender[r] /\ out_address'[r] = out_address[r]
    BY <1>1
  <2>3. QED
    BY <1>7, <2>1, <2>2
<1>14. QED
  BY <1>1, <1>6, <1>11, <1>12, <1>13 DEF NetworkInv, OriginsSound

\* What is stored is the name of whom the datagram is from.
LEMMA ReceiveKeeps ==
  ASSUME NetworkInv, NEW s \in User, ReceivesFrom(s)
  PROVE  NetworkInv'
<1>1. PICK datagram \in wire :
        /\ wire' = wire \ {datagram}
        /\ \/ /\ out_address' = [out_address EXCEPT ![s] = FromWin32(datagram.from)]
              /\ sender' = [sender EXCEPT ![s] = datagram.by]
           \/ UNCHANGED <<out_address, sender>>
  BY DEF ReceivesFrom
<1>2. /\ NetworkTypeOK /\ OriginsSound
      /\ UNCHANGED <<socket_initialized, winsock, sockets, service, goal>>
  BY DEF NetworkInv, ReceivesFrom, socketVars
<1>3. /\ datagram.by \in User \cup {Nobody} /\ datagram.from \in Name
      /\ FromWin32(datagram.from) \in Address
      /\ ToWin32(FromWin32(datagram.from)) = datagram.from
  BY <1>1, <1>2, Conversions DEF NetworkTypeOK
<1>4. NetworkTypeOK'
  BY <1>1, <1>2, <1>3 DEF NetworkTypeOK
<1>5. \A r \in User : Equipped(r)'
  BY <1>2 DEF NetworkInv, Equipped, HasWhatItNeeds, BoundPort
<1>6. \A r, name : Named(r, name) <=> Named(r, name)'
  BY <1>2 DEF Named, NameOf, At
<1>7. \A d \in wire' : d.by # Nobody => Named(d.by, d.from)'
  BY <1>1, <1>2, <1>6 DEF OriginsSound
<1>8. ASSUME NEW r \in User, sender'[r] # Nobody
      PROVE  Named(sender'[r], ToWin32(out_address'[r]))
  <2>1. CASE sender'[r] = sender[r] /\ out_address'[r] = out_address[r]
    BY <1>2, <1>8, <2>1 DEF OriginsSound
  <2>2. CASE sender'[r] = datagram.by /\ out_address'[r] = FromWin32(datagram.from)
    BY <1>1, <1>2, <1>3, <1>8, <2>2 DEF OriginsSound
  <2>3. QED
    BY <1>1, <1>2, <2>1, <2>2 DEF NetworkTypeOK
<1>9. OriginsSound'
  BY <1>6, <1>7, <1>8 DEF OriginsSound
<1>10. QED
  BY <1>2, <1>4, <1>5, <1>9 DEF NetworkInv

\* What comes from a socket that is closed is from nobody any more.
LEMMA CloseKeeps ==
  ASSUME NetworkInv, NEW s \in User, Closes(s)
  PROVE  NetworkInv'
<1>1. /\ NetworkTypeOK /\ OriginsSound
      /\ sockets' = [sockets EXCEPT ![s] = NoSocket]
      /\ goal' = [goal EXCEPT ![s] = "none"]
      /\ service' = [service EXCEPT ![s] = "idle"]
      /\ UNCHANGED <<socket_initialized, winsock>>
      /\ wire' = {[d EXCEPT !.by = IF d.by = s THEN Nobody ELSE d.by] :
                    d \in {e \in wire : e.to # NameOf(s)}}
      /\ out_address' = [out_address EXCEPT ![s] = NoAddress]
      /\ sender' = [t \in User |-> IF s \in {t, sender[t]} THEN Nobody ELSE sender[t]]
  BY DEF NetworkInv, Closes, SocketClosed, Goes
<1>2. NoSocket \in Socket /\ "none" \in Goal /\ "idle" \in Phase
  BY DEF NoSocket, Socket, Goal, Phase
<1>3. /\ sockets'[s] = NoSocket /\ service'[s] = "idle" /\ goal'[s] = "none"
      /\ \A r \in User \ {s} : /\ sockets'[r] = sockets[r]
                               /\ service'[r] = service[r] /\ goal'[r] = goal[r]
  BY <1>1 DEF NetworkTypeOK
<1>4. ASSUME NEW d \in wire'
      PROVE  /\ d \in [by : User \cup {Nobody}, from : Name, to : Name]
             /\ d.by # Nobody => d.by # s /\ Named(d.by, d.from)
  <2>1. PICK e \in wire : d = [e EXCEPT !.by = IF e.by = s THEN Nobody ELSE e.by]
    BY <1>1
  <2>2. e \in [by : User \cup {Nobody}, from : Name, to : Name]
    BY <1>1 DEF NetworkTypeOK
  <2>3. /\ d.from = e.from /\ d.to = e.to
        /\ d.by = IF e.by = s THEN Nobody ELSE e.by
        /\ d \in [by : User \cup {Nobody}, from : Name, to : Name]
    BY <2>1, <2>2
  <2>4. QED
    BY <1>1, <2>3 DEF OriginsSound
<1>5. NetworkTypeOK'
  <2>1. /\ sockets' \in [User -> Socket] /\ service' \in [User -> Phase]
        /\ goal' \in [User -> Goal]
        /\ out_address' \in [User -> Address \cup {NoAddress}]
    BY <1>1, <1>2 DEF NetworkTypeOK
  <2>2. sender' \in [User -> User \cup {Nobody}]
    BY <1>1 DEF NetworkTypeOK
  <2>3. QED
    BY <1>1, <1>4, <2>1, <2>2 DEF NetworkTypeOK
<1>6. ASSUME NEW r \in User PROVE Equipped(r)'
  <2>1. CASE r = s
    BY <1>3, <2>1 DEF Equipped, HasWhatItNeeds
  <2>2. CASE r # s
    BY <1>1, <1>3, <2>2 DEF NetworkInv, Equipped, HasWhatItNeeds, BoundPort
  <2>3. QED
    BY <2>1, <2>2
<1>7. ASSUME NEW r \in User \ {s}, NEW name, Named(r, name)
      PROVE  Named(r, name)'
  BY <1>3, <1>7 DEF Named, NameOf, At
<1>8. ASSUME NEW r \in User, sender'[r] # Nobody
      PROVE  Named(sender[r], ToWin32(out_address[r]))'
  <2>1. /\ r # s /\ sender[r] # s /\ sender'[r] = sender[r]
        /\ sender[r] \in User
        /\ out_address'[r] = out_address[r]
        /\ Named(sender[r], ToWin32(out_address[r]))
    BY <1>1, <1>8 DEF OriginsSound, NetworkTypeOK
  <2>2. QED
    BY <1>7, <2>1
<1>9. ASSUME NEW d \in wire', d.by # Nobody PROVE Named(d.by, d.from)'
  <2>1. d.by \in User \ {s} /\ Named(d.by, d.from)
    BY <1>4, <1>9
  <2>2. QED
    BY <1>7, <2>1
<1>10. OriginsSound'
  BY <1>8, <1>9 DEF OriginsSound
<1>11. QED
  BY <1>1, <1>5, <1>6, <1>10 DEF NetworkInv

\* Threads that use neither Winsock nor a socket; connections; and Winsock's end.
LEMMA QuietKeeps ==
  ASSUME NetworkInv, UNCHANGED <<socketVars, wire, out_address, sender>>
  PROVE  NetworkInv'
<1>1. /\ NetworkTypeOK'
  BY DEF NetworkInv, NetworkTypeOK, socketVars
<1>2. \A r \in User : Equipped(r)'
  BY DEF NetworkInv, Equipped, HasWhatItNeeds, BoundPort, socketVars
<1>3. OriginsSound'
  BY DEF NetworkInv, OriginsSound, Named, NameOf, At, socketVars
<1>4. QED
  BY <1>1, <1>2, <1>3 DEF NetworkInv, socketVars

LEMMA ShutdownKeeps ==
  ASSUME NetworkInv, Shutdown, UNCHANGED trafficVars
  PROVE  NetworkInv'
<1>1. /\ winsock' = winsock - 1 /\ socket_initialized' = FALSE /\ socket_initialized
      /\ \A s \in User : service[s] = "idle"
      /\ UNCHANGED <<sockets, service, goal, wire, out_address, sender>>
  BY DEF Shutdown, At, trafficVars
<1>2. NetworkTypeOK'
  <2>1. winsock' \in Nat
    BY <1>1 DEF NetworkInv, NetworkTypeOK
  <2>2. socket_initialized' \in BOOLEAN
    BY <1>1
  <2>3. QED
    BY <1>1, <2>1, <2>2 DEF NetworkInv, NetworkTypeOK
<1>3. \A r \in User : Equipped(r)'
  BY <1>1 DEF NetworkInv, Equipped, HasWhatItNeeds, BoundPort
<1>4. OriginsSound'
  BY <1>1 DEF NetworkInv, OriginsSound, Named, NameOf, At
<1>5. QED
  BY <1>1, <1>2, <1>3, <1>4 DEF NetworkInv

\* Threads that ask for sockets, use and close them, all at the same time.
THEOREM NetworkInvariant == ServicesSpec => []NetworkInv
<1>1. ServicesInit => NetworkInv
  <2> SUFFICES ASSUME ServicesInit PROVE NetworkInv
    OBVIOUS
  <2>1. /\ socket_initialized = FALSE /\ winsock = 0
        /\ sockets = [s \in User |-> NoSocket]
        /\ service = [s \in User |-> "idle"] /\ goal = [s \in User |-> "none"]
        /\ wire = {} /\ out_address = [s \in User |-> NoAddress]
        /\ sender = [s \in User |-> Nobody]
    BY DEF ServicesInit, NetworkInit, SocketsInit
  <2>2. NetworkTypeOK
    BY <2>1 DEF NetworkTypeOK, NoSocket, Socket, Phase, Goal
  <2>3. \A s \in User : Equipped(s)
    BY <2>1 DEF Equipped, HasWhatItNeeds
  <2>4. OriginsSound
    BY <2>1 DEF OriginsSound
  <2>5. QED
    BY <2>1, <2>2, <2>3, <2>4 DEF NetworkInv
<1>2. NetworkInv /\ [ServicesNext]_serviceVars => NetworkInv'
  <2> SUFFICES ASSUME NetworkInv, [ServicesNext]_serviceVars PROVE NetworkInv'
    OBVIOUS
  <2>1. CASE SocketStep
    <3>1. PICK s \in User :
            (ServiceStarts(s) /\ UNCHANGED trafficVars) \/ Traffic(s) \/ Closes(s)
      BY <2>1 DEF SocketStep
    <3>2. CASE ServiceStarts(s) /\ UNCHANGED trafficVars
      BY <3>2, StartKeeps
    <3>3. CASE SendsTo(s)
      BY <3>3, SendKeeps
    <3>4. CASE ReceivesFrom(s)
      BY <3>4, ReceiveKeeps
    <3>5. CASE Connects(s) \/ Accepts(s)
      BY <3>5, QuietKeeps DEF Connects, Accepts
    <3>6. CASE Closes(s)
      BY <3>6, CloseKeeps
    <3>7. QED
      BY <3>1, <3>2, <3>3, <3>4, <3>5, <3>6 DEF Traffic
  <2>2. CASE ShutdownStep
    BY <2>2, ShutdownKeeps DEF ShutdownStep
  <2>3. CASE ThreadStep \/ ClockStep \/ UNCHANGED serviceVars
    BY <2>3, QuietKeeps DEF ThreadStep, ClockStep, serviceVars, trafficVars
  <2>4. QED
    BY <2>1, <2>2, <2>3 DEF ServicesNext
<1>3. QED
  BY <1>1, <1>2, PTL DEF ServicesSpec

\* No thread makes a socket before Winsock has been started.  What a wrapper
\* returns is of the kind its name says and, a server's, bound where clients send
\* to, or it is nothing and nothing is left behind; and who answers to a stored
\* address reaches the socket the datagram came from.
THEOREM SocketsStaySound == ServicesSpec => []SocketsAreSound
<1>1. NetworkInv => SocketsAreSound
  <2> SUFFICES ASSUME NetworkInv, NEW s \in User
               PROVE  /\ socket_initialized => winsock > 0
                      /\ At(s, "creating") => winsock > 0
                      /\ At(s, "ready") =>
                           /\ sockets[s].kind = KindOf(goal[s])
                           /\ Binds(goal[s]) => ToWin32(AddressOf(s)) = NameOf(s)
                      /\ At(s, "failed") => sockets[s] = NoSocket
                      /\ sender[s] # Nobody =>
                           ToWin32(out_address[s]) = NameOf(sender[s])
    BY DEF NetworkInv, SocketsAreSound
  <2>1. Equipped(s)
    BY DEF NetworkInv
  <2>2. /\ socket_initialized => winsock > 0
        /\ sender[s] # Nobody => ToWin32(out_address[s]) = NameOf(sender[s])
    BY DEF NetworkInv, OriginsSound, Named
  <2>3. At(s, "ready") /\ Binds(goal[s]) => ToWin32(AddressOf(s)) = NameOf(s)
    BY <2>1, Conversions DEF Equipped, HasWhatItNeeds, NameOf, At
  <2>4. QED
    BY <2>1, <2>2, <2>3 DEF Equipped, HasWhatItNeeds, At
<1>2. QED
  BY <1>1, NetworkInvariant, PTL
=============================================================================
