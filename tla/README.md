# Networked Raycast in TLA+

A verification development kept beside the C program in `src/`: a raycaster
whose entities are moved by a client over a UDP socket. One process holds
everything. A pool of worker threads runs a game server and a game client,
which never return, and also paints the floor and the ceiling of every frame.
The main thread simulates, moves the player, casts rays and draws.

The modules model the parts of the program in which order, sharing, staleness
or arithmetic at a boundary can go wrong. TLC checks them on small instances,
and TLAPS proves for all instances what lends itself to proof. `PROJECT.json`
maps each definition to the lines it stands for and lists the hazards of the
code, each with the properties that would catch it.

## Inventory

| Component (under `src/src`) | State | Operations | What makes it correct |
|---|---|---|---|
| `parallel/parallel_queue` | buffer, two wrapping offsets | produce, consume | it is an atomic bounded FIFO for one producer and one consumer; no slot is read and written at once |
| `parallel/cached_parallel_queue` | the same, and each side's cache of the other's offset | reserve, commit, produce, consume | the same, with caches of any age and reservations that are dropped |
| `base/fixed_queue` | circular buffer, head, tail, size | push, pop, full, empty | it is a FIFO, whatever the position of head and tail |
| `parallel/thread_pool` | the queue, `stop`, the workers, mutex and condition variable | enqueue, worker loop, stop, destroy | an accepted task runs once, wakeups are not lost, stop returns, nothing is freed in use |
| `parallel/job_counter` | count, a sleeping waiter | begin, finish_one, wait | the waiter goes on when, and only when, all jobs are counted off |
| `parallel/parallel_for` | jobs and counter on the caller's stack | cut, enqueue, run inline, wait | each index once, in equal shares, and no pointer to the stack outlives the call |
| `setup.c`, `main.c`, `render/render.c` | the program's objects, the accumulated time, what a frame has computed | load, start the services, the phases of a frame, release | every frame is painted from the present state, and the services and the frames do not starve each other |
| `render/assets` | images and textures | load, unload | what threads paint through is there; what was loaded is released |
| `game/game_server`, `game/simulate` | sockets, a receive buffer, the lock-free queue | send, receive, produce, consume | a move is lost only where it may be, and never applied twice |
| `os/socket`, `networking/*` | a flag without a lock, handles, addresses | start Winsock, create, bind, listen, connect, accept, close, send, receive, shut down | no socket before Winsock is started; no handle left behind; an answer goes back to the sender |
| `game/npc_movement`, `game/entity` | positions; depths; the order of drawing | spawn, move, prepare, sort | entities stay on the map; far ones are drawn first |
| `base/sort` | an array, the recursion | partition, recurse | it ends and keeps every element, for any comparison |
| `game/player`, `game/ray`, `game/world` | position, visible tiles, hits, the map | move, clear, mark, cast | the player stays clear of the walls; what is visible can be seen from where it is; both algorithms of a ray end at the same wall |
| `render/draw` | pixels, the columns of the screen | paint floor and ceiling, walls, entities, minimap | concurrent jobs write different pixels; each pixel has a texel; what is in front is not hidden |
| `os/thread`, `os/time` | a block of arguments; the frequency of a counter | create a thread, ask for the time | the block is freed once; nobody divides by zero |

How they interact:

- `setup` starts the pool with one worker per processor and enqueues the
  server and the client, which keep a worker each for good.
- The client sends a datagram for each entity every 33 ms. The server receives
  it and produces it to the lock-free queue. The main thread consumes the
  queue in `simulate` and moves the entities.
- Each frame the main thread moves the player, casts rays to find the visible
  tiles, sorts the entities by depth, and calls `parallel_for` on the *same*
  pool to paint rows of one shared pixel buffer, which it then uploads.

What is hard here: stale loads of an offset another thread stores; signals
sent after an unlock; a stop that races calls; pointers to a stack frame in a
queue; workers that are busy for good; results of calls that nobody looks at;
depths that were never written; look-ups in the map without a bounds check.

## Modules

The lower modules are composed into the upper ones with EXTENDS; the abstract
specification and the sort are instantiated.

| Module | Models | Uses |
|---|---|---|
| `BoundedQueue` | the abstract promise: an atomic bounded FIFO | |
| `ParallelQueue` | the lock-free ring | implements `BoundedQueue` |
| `CachedParallelQueue` | the variant with caches and reservations | `ParallelQueue`; implements `BoundedQueue` |
| `FixedQueue` | the circular buffer, as operators on its value | |
| `ThreadPool` | workers, enqueue, stop | `FixedQueue` |
| `PoolLifecycle` | callers and an owner of a pool | `ThreadPool`; its queue implements `BoundedQueue` |
| `JobCounter` | the countdown | |
| `ParallelFor`, `MCParallelFor` | cutting up a range, on a pool | `ThreadPool`, `JobCounter` |
| `CInt` | C's conversion to `int` and its remainder | |
| `FloorCeiling` | pixels, points and texels of floor and ceiling | `CInt` |
| `App` | the pool with the services, and painting on it | `ParallelFor`, `FloorCeiling` |
| `Assets` | which images and textures there are | |
| `Program`, `MCProgram` | the main thread from start to end | `App`, `Assets` |
| `World` | the map | |
| `NpcMovement` | spawn and march of the entities | `World` |
| `Threads`, `Clock` | how a thread gets its arguments; the time | |
| `Sockets` | how threads get a socket | |
| `Network` | datagrams and connections | `Sockets` |
| `Services`, `MCServices` | threads that use sockets and the time | `Threads`, `Clock`, `Network` |
| `GameServer`, `MCGameServer` | the way of a move from the client to its entity | `NpcMovement`, `Sockets`, `BoundedQueue` |
| `Sight` | the player's movement and the visible tiles: any ray that keeps its two directions | `World` |
| `Rays` | the two algorithms of `ray.c` on the same ray | `Sight`, which it implements |
| `View`, `MCView` | what a frame computes from the position | `Rays`, `FloorCeiling` |
| `QuickSort`, `EntityDraws` | the order of drawing | |
| `Scene`, `MCScene` | walls and entities on the screen | `EntityDraws`, which it implements; `CInt` |
| `ParallelQueueProofs` | theorems about both rings | `CachedParallelQueue` |
| `PoolLemmas`, `PoolProofs` | theorems about the pool | `PoolLifecycle` |
| `ParallelForProofs` | theorems about `parallel_for` and its counter | `ParallelFor`, `PoolLemmas` |
| `ProgramProofs` | theorems about the whole program | `Program`, `ParallelForProofs` |
| `ViewProofs` | theorems about the player, the rays and the floor | `View` |
| `EntityDrawsProofs` | theorems about the sort and the screen | `Scene` |
| `GameServerProofs` | theorems about entities, moves, threads, time and sockets | `GameServer`, `Services` |

How state and actions correspond to the code:

- **ParallelQueue.** An action is one access to shared memory. `ProduceBegin`
  is everything up to the check of a `produce` that goes on, `ProduceWord` one
  word of its `memcpy` in any order, `ProducePublish` the release store. A
  load returns any value stored since the one the thread saw last
  (`Visible`), which is what coherence allows. The acquire/release pairs are
  what lets the buffer be a single memory. Offsets are taken modulo
  `Modulus`, which stands for 2^64.
- **CachedParallelQueue** reuses these actions. It differs in what a check
  works with (`ConsumerLoads`, `ProducerLoads`), and a reservation may be
  abandoned.
- **ThreadPool.** A step is a critical section. Signals sent after the unlock
  are steps of their own, and a sleeping worker may wake for no reason.
- **JobCounter.** `finish_one` signals inside its critical section, so it is
  one step.
- **Program.** A step of the main thread is a phase of `setup`, `main` or
  `render_frame`; inside `parallel_for` its steps are those of `ParallelFor`.
  What the phases compute is in other modules. Here `fresh` is the set of
  results that were computed from the present player, entities and view:
  `Computed` adds a result if all it is made from is up to date, and takes it
  out otherwise. Images are the ones the workers' pointers lead to.
- **FloorCeiling.** A row is counted from the horizon; `PixelRows` are the two
  rows a round of the loop writes. The single-threaded `draw_floor_and_ceiling`,
  which `render_frame` used before, serves as the reference: `FrameIsWhole` says
  that the jobs paint what it painted. Directions are whole numbers of a
  thousandth, and a point of the floor is a fraction, so `(int)` and `%` are
  the only places where something is rounded, as in the code, and they round
  as C does (`CInt`).
- **Rays.** A direction is a vector, and all arithmetic is exact. `WalkSteps`
  is a round of the loop of `mark_visible_tiles`, with the two running
  distances `ahead` it decides by. `CastSingleRay` is the whole of
  `cast_single_ray`: a loop along the grid lines meets its wall at the first
  crossing that leads into one, if no crossing before left the frame
  (`HorizontalHits`, `VerticalHits`). When the two hits are equally near the
  code takes the point of one and the texture of the other, and so does the
  model.
- **Sight** leaves out angles. A move is any vector no longer than the
  longest step, and a ray may cross grid lines in any order, always in the
  same two directions. Both allow more than the code can do. Coordinates are
  whole numbers of a unit that may be any part of a pixel.
- **EntityDraws** makes the recursion an explicit stack and has one step per
  comparison. A depth nobody wrote is any number or NaN, with which no
  comparison is true. **Scene** draws its array: `ScreenColumns` are the
  values of `screen_x` in the loop over the columns of a sprite. The distance
  of a wall is the length of its ray, the depth of an entity is measured along
  the direction of view. `Hidden` compares the two as they are, which is what
  `draw_entities` does; `WallIsNearer` multiplies the length by the cosine of
  the column first, as `draw_walls` does. The cosine is that of the angle
  `cast_all_rays` gives a column, so its square is a quotient of two whole
  numbers (`Slant`), and both sides are squared and multiplied out.
- **World.** The left edge of the map has other textures than the rest of the
  walls. `LeftEdge` counts its rows from the lowest one, so that a map of
  fewer rows has them as well; with 11 rows and 15 columns `tiles` is
  `default_tilemap`.
- **GameServer** uses the atomic queue, since `ParallelQueue` implements it.
  A stale offset in the code can only turn a `produce` into a refusal or end
  the loop of `simulate` early; the model has both, at most a step of the
  other side later. Serial numbers are added so that moves can be told apart.
- **Sockets** and **Network.** A number that goes over the wire is the
  sequence of its bytes, so that turning it around twice, or not at all,
  shows. `socket_init` is three steps: reading the flag, starting Winsock,
  setting the flag. Each thread has one socket at a time and may ask again.
  A name is bound by one socket only. `sender` is a ghost: who sent what a
  thread received last.
- **Services** lets threads do all of this at once. That threads ask for
  sockets again and again, and for every kind, is more than the game does
  today; it is what the wrappers offer. `socket_shutdown` happens only when
  nobody has a socket.

## Runs

| Run | Shows | Bounds, and why they are enough |
|---|---|---|
| `ring` | the ring is an atomic queue without a race on a slot, and delivers | 4 slots, offsets modulo 8, so that they wrap; 2 items, 2 words, so that a copy can be torn |
| `cached_ring` | so is the ring with caches | 2 slots, offsets modulo 4: full, empty and wrapped after a few calls |
| `pool` | no accepted task is lost, copied, reordered or left asleep over; stop returns; no use after free | 2 callers, 2 workers, 3 tasks, 2 slots: the queue fills, and stop meets every step |
| `parallel_for` | each index once, no dangling job, no false assertion, the call returns | 3 workers; an empty, a short, an even and an uneven range; stop at any step |
| `app` | every frame is whole, coherent and finished, without a race on a row; both services start; images are there while they are used and released in the end | 3 workers, of which the services keep 2; 4 rows above and below the horizon, cut into 3 jobs; 2 textures and a sprite, each of which may fail to load; frames with no tick and with more than one (`TickRate` 2, `FrameTimes` 1 and 3); any number of frames |
| `app_two_cpus` | **violated**: with 2 processors the first frame never ends | 2 workers |
| `npc` | entities stay inside the walls and march from limit to limit | the real map and step, every boundary value of `rand()` |
| `sight` | the player stays clear of the walls; what is visible is in sight; walk and hit of a ray end at the same wall; every wall and every floor pixel can be drawn; the walk implements `Sight` | 5 by 5 tiles of 4 units, with all four textures of the map on the left edge, a player of radius 1 and steps of up to 2, so that it gets to every place of the room; one ray a frame, of 16 directions along the axes, along the diagonals (which meet corners) and between; a frame of 3 by 8 pixels, whose rows near the horizon show points beyond the map; one texture size that is a power of two and one that is not |
| `draws` | no entity is lost or drawn twice; no wall hides an entity in front of it, what a column shows is not far behind its wall, and is the nearest of the entities there; the sort ends and stays shallow | 3 entities, 3 depths and NaN, any number of frames; 3 is where the stack bound first bites; 4 columns, entities that cover some of them and are partly off the screen; one column with a wall that hides an entity, and outer columns whose wall is in front of an entity by the cosine only |
| `moves` | a move is lost only in the network or at a full queue, is applied once, and settles | 2 entities, 2 ticks, queue and socket of 2, one failing receive |
| `moves_receive_fails` | **violated**: a failing receive puts a move into the queue that names no entity | the same |
| `services` | arguments are freed once; no division by an unknown frequency; no socket before Winsock, none left behind, each of the kind and at the port it was asked for; an answer reaches the sender | 2 threads with all five ways to ask for a socket, so that each kind meets each; at most 3 startups of Winsock that are not undone (`MaxStartups`) and 2 datagrams on the way (`MaxWire`); ports whose two bytes differ |

Deadlock is checked in every run but `services`, where both threads may fail
to be created and nothing is left to do. Where another part may really be at
its end the next-state relation says so (`Terminated` in `PoolLifecycle`,
`Over` in `Program`).

Each property has a mutant in `PROJECT.json`: a plausible bug of one
definition under which the same run finds that property violated.

### What the violated runs say

- `app_two_cpus`: the README of the program promises a pool in which
  `cpu_count` workers share the load, and services on dedicated threads.
  The services take two workers of that pool, `parallel_for` cuts a frame into
  jobs for the rest and waits without taking one itself. With two processors
  there is no rest. With one processor the client is not started either.
- `moves_receive_fails`: `create_game_server` stores the result of
  `socket_receive` and does not look at it. After a failure it produces a
  buffer that holds an old move, or nothing at all. `simulate` uses the
  `player_id` in it as an index.

### What the passing runs say with a reservation

- `HitIsDrawable`: at a corner of the grid the column of the texture is the
  tile's size, one past the last column. The property allows it there, and
  only there; what is drawn of such a column is up to raylib.
- `ViewEndsAtHit` says nothing of the texture at a corner, where point and
  texture come from different hits.
- `FloorIsSampled`: beyond the upper and the left edge of the map the texel
  may be the next one of the pattern, since `(int)` rounds towards zero.
  It takes the two textures to be of one size (`TextureAssumption`): that the
  ceiling is indexed with the size of the floor (`draw.c:353`) cannot show.
- `NearestOnTop`: `draw_entities` compares the length of a ray with a depth
  (`draw.c:180`) without the cosine `draw_walls` corrects it by (`draw.c:234`).
  The length is never the smaller of the two, so nothing in front of a wall is
  hidden, but an entity behind it by less than the cosine makes of a depth, up
  to 15 % at the edges of a view of 60 degrees, is drawn over it. The
  property allows that much (`WallIsFarNearer`), and no more; demanding the
  exact order, `~WallIsNearer` of what is shown, makes the run fail. No text of
  the repository promises the exact order, so there is no violated run for it.
  Which of the entities is on top is said for frames in which all depths are
  numbers only: with a NaN in the array the sort promises nothing, not even
  of the others. The clauses about the walls hold in those frames too.
- `FrequencyIsKnown`: `freq` and `init` are plain static variables, on which
  threads race. See the last section but one.
- `AssetsAreSound`: the texture of the minimap is never unloaded; it is left
  to `CloseWindow`.
- `SocketsAreSound` allows Winsock to be started twice by two threads and
  undone once. Nobody calls `socket_shutdown`, and `os/socket.h` declares it
  by another name (`socket_cleanup`), which no file defines.

## Fairness

- A thread that can go on goes on, and a mutex that is free again and again is
  obtained: weak fairness of each step of each thread. The code runs on the
  threads of a preemptive system and holds every mutex for a bounded time.
- The consumer of the ring polls: `simulate` runs in every frame, for as long
  as the program does. A store becomes visible after a finite time.
- The main thread takes its next step, in `Program` and in the frames of
  `Rays`, `Scene` and `GameServer`: nothing in them waits but `parallel_for`
  and the mutexes, and each loop of theirs is bounded, or is shown to end
  (`SortEnds`, `ImplementsSight`).
- A function handed to `parallel_for` returns. The services do not, and no
  fairness is assumed of their end.
- Nobody is obliged to call, to stop the pool, to send a move, to lose one, to
  fail, to wake spuriously, to close the window. `services` checks invariants
  only and assumes no fairness.
- In `CachedParallelQueue` a consumer does not reserve without committing for
  ever; otherwise nothing could be delivered.

## Proofs

All theorems are checked by TLAPS down to the last leaf, for every value of
the constants that satisfies the named assumptions. Every safety invariant the
passing runs check is proved, and so are the refinements.

| Theorem | States |
|---|---|
| `ParallelQueueProofs!RingInvariant`, `TypeCorrect`, `RaceFree`, `Refinement` | `IInv`, `TypeOK`, `NoSlotRace`, and that the ring implements the atomic queue |
| `ParallelQueueProofs!CachedSafe`, `CachedRefinement` | the same of the ring with caches |
| `PoolProofs!PoolInvariant`, `TasksAreKept`, `WakeupsAreKept`, `NobodyIsLeftAsleep`, `FreedUnused`, `PoolRefinement` | the pool keeps every task, wakes for every task, frees nothing in use, and implements the atomic queue |
| `ParallelForProofs!ParallelForInvariant`, `IndexesOnce`, `CounterCounts`, `NoJobDangles`, `AssertionsNeverFail` | each index is handed over once, the counter counts the jobs, none is left when the call returns, and no assertion fails |
| `ProgramProofs!ProgramInvariant`, `PixelsAreApart`, `FramesAreWhole`, `FramesAreCoherent`, `ImagesAreThere`, `NoAssertionEndsTheProgram` | the whole program, with the services on the pool of `parallel_for`: rows, frames, data and images are as they should be |
| `ViewProofs!PlayerKeepsDistance`, `SightInvariant`, `SightIsInLine` | the player never touches a wall and every look-up is on the map; what is visible can be seen |
| `ViewProofs!RaysImplementSight`, `PlayerOfRaysKeepsDistance`, `RaysAreInLine`, `RaysAreDrawable`, `RaysEndAtHit` | the program's rays are rays of `Sight`, and each finds a wall that can be drawn, the one its walk ends at |
| `ViewProofs!FloorIsAlwaysSampled`, `AnythingIsWrapped` | every pixel of floor and ceiling has a texel of both images, and the right one |
| `ViewProofs!SegmentsApart`, `SegmentsInBuffer`, `GradientFades` | jobs with disjoint ranges write disjoint pixels, inside the buffer; the depth view gets darker |
| `EntityDrawsProofs!NoEntityLost`, `VisibleDepthIsKnown`, `SortInvariant`, `CallsStayShallow`, `DrawnInPaintersOrder` | the sort keeps every entity, stays inside the array and shallow, and puts numbers in order; what is drawn has a depth that is a number |
| `EntityDrawsProofs!SceneRefinement`, `SceneLosesNoEntity`, `SceneStaysShallow`, `NearestIsOnTop` | so it is in the frame that is drawn; the wall of a column hides nothing in front of it and shows through only as far as the cosine goes, and the nearest entity is on top |
| `GameServerProofs!NpcInvariant`, `EntitiesInsideWalls`, `MovesKeepEntitiesInside` | entities overshoot a limit by less than a step; their tile is inside the walls, however the moves arrive |
| `GameServerProofs!MovesInvariant`, `NoMoveIsForgotten`, `QueueIsUsedAsPromised` | a move is somewhere, in one place, applied at most once; the queue between server and simulation is the atomic one |
| `GameServerProofs!BlocksFollowThreads`, `BlocksAreFreedOnce`, `NobodyDividesByZero` | the block of arguments of a thread is freed once; the frequency is known when it is used |
| `GameServerProofs!NetworkInvariant`, `SocketsStaySound` | sockets are what was asked for, are not left behind, and answers go back to the sender |

- **The ring.** `NoSlotRace` is not inductive: it needs to know how far the
  two offsets and the two stale views may be apart. `IInv` says that the four
  of them are in order on the circle of offsets and span at most `Capacity`
  (`CursorsOK`), that a thread past its check still has what it saw, and that
  every published slot, and every half-done copy, holds what it should
  (`DataOK`). The lemmas about `Plus` and `Ahead` turn arithmetic modulo
  `Modulus` into distances once; the assumption that `Capacity` divides
  `Modulus` makes slots of different offsets different. For the refinement
  each publication maps to a `Put` or a `Take` of the abstract queue and every
  other step to a stutter. `CachedParallelQueue` adds that a check with a
  cached offset is a check with one of the `Visible` ones, so its steps are
  steps of the ring, or abandonments, which `IInv` survives.
- **The pool.** `IInv` of `PoolLifecycle` is the conjunction of its safety
  properties with what they lean on: types, that the size of the circular
  buffer agrees with head and tail (`RingSound`), and that stop, signal and
  join come in this order (`StopOrder`). That wakeups cover the queue needs
  the workers, the sleepers and the signals on their way to be counted, so
  the lemmas before it say how a cardinality changes when a thread changes
  its state. The refinement maps the buffer to the sequence of its elements
  from the front. `PoolLemmas` holds what this proof and the next need to know
  of the circular buffer and of counting.
- **`parallel_for`.** The counter and the call are not inductive without the
  jobs: `IInv` says which jobs have been cut, that a job is in the queue, with
  one worker, or done, and in one of these only (`JobsSound`); that the counter
  counts them (`CountSound`); that the ranges that have been cut follow each
  other and cover what has been cut of the call's (`RangesSound`); and
  that exactly the indexes of the jobs that are no longer pending have been
  handed over (`ProcessedSound`). That the queue has room needs the number of
  jobs of one call to be bounded (`ParallelForAssumption`: a call makes at most
  as many jobs as there are workers, and the queue has room for them and for
  all tasks that are none).
- **The program.** `ProgramInv` is the invariant of `parallel_for` with what
  each stage of the main thread implies: which services are still to be
  enqueued (they are not in the queue yet, `TodoSound`), which files have been
  loaded (`ImagesSound`), and which data has been computed in this frame
  (`FrameSound`). A service is a task that is no job, so the steps of the
  services are steps `parallel_for`'s invariant survives. That two jobs paint
  different rows is `RangesSound` with the arithmetic of `SegmentsApart`.
- **Entities and moves.** The inductive invariant of the positions gives the
  overshoot on each side; the tile follows from a lemma on quotients. That the
  spawn's x is pulled in by the number of *rows* is safe because the map is
  wider than high, which the assumption states. `MovesInv` says that every move
  that was sent is in one of six places and, while no receive has failed, in
  one only; the failing receive produces what the buffer holds, which is a
  second place. Every step of `GameServer` puts into the atomic queue, takes
  from it or leaves it alone, so it may be replaced by the ring.
- **Threads, time and sockets.** `ThreadsInv` ties the block of a thread to its
  state; `ClockInv` says that the flag, and a thread that has queried, imply
  a known frequency. `SocketsAreSound` needs to know what each thread has asked
  for and how far it has got (`Equipped`), and that every name on the wire, and
  every one `socket_receive_from` has stored, is its owner's in the byte order
  of that place (`OriginsSound`), which rests on the lemma that turning bytes
  around twice leaves them as they were.
- **The player.** `Clear` says of one axis that the whole player is between
  the walls, in units instead of tiles. `AxisStaysClear` shows of a move of at
  most a tile that the probe ahead is on the map, and that it is enough: the
  edge behind only moves away from its wall. The row used for the x test and
  the new column used for the y test are on the map because the player's
  middle is `Clear`.
- **What is visible.** Not the whole way of a walk is kept in the invariant but
  what it means for the tiles: each marked one is next to a marked one that is
  open and nearer to the player (`Reached`), and a walk is at such a place and
  goes away from the player (`WalkSound`), so the tile after it is farther.
- **The rays.** A ray that `Rays` begins has the step signs of its direction,
  and whichever way the two distances decide, the round of the walk is one
  `Sight` has; `WalkOfRay`, the invariant this needs, says that there is no walk
  without a ray. What holds of the player and of the visible tiles then carries
  over by refinement instead of a second proof. That a ray finds a wall
  (`OneLoopReaches`): it reaches the outer wall of one of the two axes first,
  all crossings on that axis until then are in the frame (`CrossingsInside`),
  so there is a crossing with a wall behind it, and hence a first one (`Least`).
  That its distance is not 0: behind a crossing where the player is lies the
  player's tile, or the next one inside the walls (`ScaledTile`), since the
  radius is at least 1. That the strip is past the last column only at a
  corner: where both hits are equally near they are the same point
  (`EquallyNear`).
- **The walk and the hit.** `WalkInv` counts the lines the walk has crossed on
  each axis and says of the next two that they come in the order in which the
  ray crosses them: between the walls (`InRoom`), or in the outer column or row
  (`AtColumn`, `AtRow`), where the walk ends. The ways it compares are
  multiplied crosswise, as in the model, so no division enters. `ColumnHit` and
  `RowHit` then say which walls the two loops find: neither finds one before
  the last line of its axis unless the ray has reached the outer wall on the
  other axis (`NoEarlyVertical`, `NoEarlyHorizontal`), so the hit is the wall
  at the end of the walk. `InTile` turns the order of the lines into the tiles
  the point lies on; where the two hits are equally near the point is a corner,
  and is on the walk's last tile all the same.
- **The floor.** What `Wrap` returns is inside the texture by the lemmas on C's
  remainder. That the texel is the one under the point needs the quotient and
  the fraction on both sides of zero (`TexelOnMap`, `TexelOffMap`). Where the
  player is, is a number by `PlayerOfRaysKeepsDistance`.
- **The order of drawing.** The first invariant says that the loop variables of
  every call on the stack are inside its part and the array. Exchanges then
  keep the set of ids. Nothing is assumed of the comparison. `SortInv` adds that
  the parts of the calls do not overlap; that two elements which are within no
  part are in order, and those of the innermost part on their side of the
  pivot, as long as all depths are numbers; and that every call deeper has at
  most half as much to do, which bounds the depth by the logarithm. So the order is
  proved without induction over the recursion: the stack is the induction.
  `ScreenInv` says of a column, while entities are drawn, that it shows the
  last entry so far that covers it and that the test of `draw_entities` lets
  through (`InSight`); with the array in order (`PaintersOrder`) the last one
  is the nearest. What that test has to do with the wall as it is drawn is
  `WallsOfColumn`: the middle of a column is less aside than the edge of the
  screen (`SlantOfColumn`), so a length that is not below a depth, times any
  cosine on the screen, is not below the depth times the smallest of them. This
  needs the depths of what is drawn to be numbers (`VisibleKnown`: the sort
  only moves elements about, `SortMoves`), and no order.

The inductive invariants `ProgramInv`, `MovesInv`, `ThreadsInv`, `ClockInv`,
`NetworkInv`, `SightInv`, `HitInv` and `WalkInv` were model-checked on the runs' instances
before they were proved.

The assumptions are the named `ASSUME`s of the modules; TLC evaluates them in
the runs. Those worth knowing: `CapacityAssumption` (a power of two, so it
divides 2^64), `ParallelForAssumption` (room in the pool's queue; the program
has 1024 slots), `MapAssumption` (wider than high, a step of at most a tile),
`TextureAssumption` (floor and ceiling of one size), `RaysAssumption` (a ray
points somewhere; there are the textures the map names, 1, 2, 4 and 9) and `SightAssumption`
(the player has a radius below a tile, and a frame takes it no farther than a
tile; at 240 pixels a second that is a frame of at most 266 ms, which the code
does not enforce).

## Only model-checked

- Everything that must eventually happen (`AcceptedIsDelivered`,
  `CachedIsDelivered`, `AcceptedIsDone`, `StopReturns`, `CallReturns`,
  `FrameFinishes`, `ServicesStart`, `SortEnds`, `EveryMoveSettles`, the fairness in
  `ImplementsSight`, `MarchesBackAndForth`): liveness under fairness is out of
  the prover's reach.

## Not modelled, and why

- The rounding of floating point, and trigonometry: a direction is any vector
  of a set, and sums are exact.
- Accesses to memory out of order in `get_current_time`. `Clock` is
  sequentially consistent. In C the threads race on `freq` and `init`, and
  nothing is promised; the Makefile builds with gcc and no optimization for
  Windows on x86, where both stores and both loads keep the order of the text.
  Another build, or another processor, could let a thread see `init` before
  `freq`, which is what the mutant `FlagsFirst` does.
  The flag `socket_initialized` of `Sockets` is set after a call of Winsock and
  is read likewise.
- What raylib does: `include/raylib.h` and `include/raymath.h`, more than half
  of the lines of the repository, are copies of that library's headers. The
  window, the keyboard, the mouse, colours, and the rows of walls and sprites
  are handed to it.
- More than 64 handles in `WaitForMultipleObjects`, and threads of the pool
  that could not be created: the program does not look at either result.
  `ThreadPool` has the limit as `MaxWaitObjects`, and the runs stay below it.
- What `LeaveCriticalSection` still does after it has handed over the mutex
  of a counter that is about to be destroyed: it is inside Windows.
- Overflow of `int` in `parallel_for`: the only call has 352 rows.
- `socket_send`, `empty_parallel_queue`, the destroy functions of the
  lock-free queues, `world_get_tile`, `world_set_tile`, `counted_job_run`,
  `join_thread`, `detach_thread`: nobody calls them.
- Callers that are inside `enqueue_thread_pool` while the pool is destroyed:
  the pool is theirs to keep alive, and `OwnerDestroys` waits for them.
- Whether the loop of `simulate` ends while the server keeps producing:
  nothing in the code makes it end.
- Frames so long that the player moves farther than a tile: see
  `SightAssumption`.

Five hazards in `PROJECT.json` have no property; each says why, and each is one
of the points above or a reservation of `FloorIsSampled`.

## What could come next

1. `GameServer` over `ParallelQueue` itself instead of its abstraction; that
   each uses the abstract queue as the other implements it is proved.
