------------------------------- MODULE Program --------------------------------
(***************************************************************************)
(* The main thread from start to end (src/src/main.c, src/src/setup.c,     *)
(* src/src/render/render.c), on top of the threads of App and the images   *)
(* of Assets.  It opens the window, loads the images, starts the pool and  *)
(* the services, makes frame after frame, and at last releases the images  *)
(* and closes the window; the pool and the services end with the process.  *)
(*                                                                         *)
(* A frame is a chain of data, each computed from others.  The model keeps *)
(* which of them are up to date with the player, the entities and the view *)
(* that was chosen.                                                        *)
(***************************************************************************)
EXTENDS App, Assets

CONSTANTS
  TickRate,    \* sim_tick_rate, in some unit of time
  FrameTimes   \* what GetFrameTime may return, in the same unit

ASSUME TimeAssumption == TickRate \in Nat \ {0} /\ FrameTimes \subseteq Nat

VARIABLES
  stage,            \* what the main thread does next
  sim_accumulator,  \* the time not yet simulated
  fresh             \* the data that are up to date

mainVars    == <<stage, sim_accumulator, fresh>>
programVars == <<appVars, assetVars, mainVars>>

ProgramInit ==
  /\ AppInit /\ AssetsInit
  /\ stage = "opening" /\ sim_accumulator = 0 /\ fresh = {}

\* What a frame computes: the rays, the order of the entities, the minimap, the
\* pixels of floor and ceiling and their texture, and what is drawn on the
\* screen: walls and sprites.
Data == {"rays", "draws", "minimap", "pixels", "texture", "walls", "sprites"}

\* d is computed from other data.
Computed(d, from) ==
  fresh' = IF from \subseteq fresh THEN fresh \cup {d} ELSE fresh \ {d}

\* A step of the main thread that leaves the threads and the images alone.
Alone(from, to) ==
  /\ stage = from /\ stage' = to
  /\ UNCHANGED <<appVars, assetVars>>

-----------------------------------------------------------------------------
\* setup opens the window and makes the texture of the minimap,
OpenWindow ==
  /\ stage = "opening" /\ stage' = "loading"
  /\ textures' = textures \cup {<<"minimap", 0>>}
  /\ UNCHANGED <<appVars, images, loading, sim_accumulator, fresh>>

\* loads the images,
LoadAssets ==
  /\ stage = "loading"
  /\ LoadTexture \/ LoadSprite \/ MakeBuffer
  /\ UNCHANGED <<appVars, mainVars>>

\* and ends the program if one of them cannot be read;
Abort ==
  /\ stage = "loading" /\ LoadFails
  /\ stage' = "aborted"
  /\ UNCHANGED <<appVars, sim_accumulator, fresh>>

\* it draws a first minimap, without any rays, and makes the pool
FirstMinimap ==
  /\ Loaded /\ Alone("loading", "serving")
  /\ Computed("minimap", {"rays"})
  /\ UNCHANGED sim_accumulator

\* and the services.
StartServices ==
  /\ stage = "serving"
  /\ SetupEnqueues \/ SetupSignals
  /\ UNCHANGED <<assetVars, mainVars>>

SetupDone ==
  /\ todo = <<>> /\ ~signalling
  /\ Alone("serving", "testing")
  /\ UNCHANGED <<sim_accumulator, fresh>>

-----------------------------------------------------------------------------
\* The window is open: one more frame.  The time since the last one is added.
FrameBegins ==
  /\ Alone("testing", "simulating")
  /\ \E delta_time \in FrameTimes : sim_accumulator' = sim_accumulator + delta_time
  /\ UNCHANGED fresh

\* Entities move tick by tick, up to the time of this frame.
Simulate ==
  /\ sim_accumulator >= TickRate
  /\ Alone("simulating", "simulating")
  /\ sim_accumulator' = sim_accumulator - TickRate
  /\ fresh' = fresh \ {"draws", "minimap", "sprites"}

SimulationDone ==
  /\ sim_accumulator < TickRate
  /\ Alone("simulating", "input")
  /\ UNCHANGED <<sim_accumulator, fresh>>

\* player_input, and the key that chooses the view of the depth.
Input ==
  /\ Alone("input", "moving")
  /\ fresh' \in {fresh, fresh \ {"pixels", "texture", "walls", "sprites"}}
  /\ UNCHANGED sim_accumulator

\* Mutant: the entities are prepared before the rays are cast.
AfterMove(s) ==
  CASE s = "moving"    -> "preparing"
    [] s = "preparing" -> "casting"
    [] s = "casting"   -> "minimap"

\* The order of main and render_frame from the movement to the minimap.
After(s) ==
  CASE s = "moving"    -> "casting"
    [] s = "casting"   -> "preparing"
    [] s = "preparing" -> "minimap"

\* player_movement: nothing is up to date any more.
Move ==
  /\ Alone("moving", After("moving"))
  /\ fresh' = {}
  /\ UNCHANGED sim_accumulator

\* cast_all_rays.
CastRays ==
  /\ Alone("casting", After("casting"))
  /\ Computed("rays", {})
  /\ UNCHANGED sim_accumulator

\* entity_draws_prepare looks up which tiles are visible.
PrepareDraws ==
  /\ Alone("preparing", After("preparing"))
  /\ Computed("draws", {"rays"})
  /\ UNCHANGED sim_accumulator

\* draw_minimap_to_texture shows the rays and what tiles they see.
DrawMinimap ==
  /\ Alone("minimap", "floor")
  /\ Computed("minimap", {"rays"})
  /\ UNCHANGED sim_accumulator

-----------------------------------------------------------------------------
\* parallel_for over draw_floor_and_ceiling_segment is called,
PaintBegins ==
  /\ stage = "floor" /\ stage' = "painting"
  /\ \E c \in Calls : CallHere(c) \/ CallParallel(c)
  /\ UNCHANGED <<setupVars, assetVars, sim_accumulator, fresh>>

\* takes its steps,
Paint ==
  /\ stage = "painting" /\ pc # "out"
  /\ CallerStep
  /\ UNCHANGED <<setupVars, assetVars, mainVars>>

\* and has returned: its pixels go into the texture that is drawn.
Upload ==
  /\ pc = "out" /\ Alone("painting", "walls")
  /\ fresh' = (fresh \ {"texture"}) \cup {"pixels", "texture"}
  /\ UNCHANGED sim_accumulator

DrawWalls ==
  /\ Alone("walls", "sprites")
  /\ Computed("walls", {"rays"})
  /\ UNCHANGED sim_accumulator

\* draw_entities asks the rays for what a wall hides.
DrawEntities ==
  /\ Alone("sprites", "showing")
  /\ Computed("sprites", {"rays", "draws"})
  /\ UNCHANGED sim_accumulator

\* The minimap goes on top, and the frame is shown.
ShowFrame == Alone("showing", "testing") /\ UNCHANGED <<sim_accumulator, fresh>>

-----------------------------------------------------------------------------
\* The window has been closed.
LeaveLoop ==
  /\ stage = "testing" /\ stage' = "closing"
  /\ Unload
  /\ UNCHANGED <<appVars, sim_accumulator, fresh>>

\* CloseWindow gives up the graphics card, with whatever is still there, and
\* main returns.
CloseWindow ==
  /\ stage = "closing" /\ stage' = "exited"
  /\ textures' = {}
  /\ UNCHANGED <<appVars, images, loading, sim_accumulator, fresh>>

\* The process is over, its threads with it.
Over == stage \in {"exited", "aborted"} /\ UNCHANGED programVars

\* The threads of the pool, which setup starts last.
PoolRuns ==
  /\ stage \notin {"opening", "loading", "exited", "aborted"}
  /\ \/ WorkerStep /\ UNCHANGED setupVars
     \/ \E w \in Worker : ServiceFails(w)
  /\ UNCHANGED <<assetVars, mainVars>>

MainStep ==
  \/ OpenWindow \/ LoadAssets \/ Abort \/ FirstMinimap \/ StartServices
  \/ SetupDone \/ FrameBegins \/ Simulate \/ SimulationDone \/ Input \/ Move
  \/ CastRays \/ PrepareDraws \/ DrawMinimap \/ PaintBegins \/ Upload
  \/ DrawWalls \/ DrawEntities \/ ShowFrame \/ LeaveLoop \/ CloseWindow

ProgramNext == MainStep \/ Paint \/ PoolRuns \/ Over

\* A step of the pool's threads alone.
ByPool(A) ==
  /\ stage \notin {"opening", "loading", "exited", "aborted"}
  /\ A /\ UNCHANGED <<setupVars, assetVars, mainVars>>

\* The main thread goes on, and so do the workers; threads get a mutex in the
\* end.  A socket need not fail, and nobody is owed a spurious wakeup.
ProgramFairness ==
  /\ WF_programVars(MainStep)
  /\ WF_programVars(Paint /\ (EnqueueJob \/ SignalJob))
  /\ WF_programVars(Paint /\ (WaitForJobs \/ CallReturn))
  /\ \A w \in Worker :
       /\ WF_programVars(ByPool(WorkerTakes(w)))
       /\ WF_programVars(ByPool(WorkerWaits(w)))
       /\ WF_programVars(ByPool(WorkerRuns(w) \/ WorkerFinishes(w)))

ProgramSpec == ProgramInit /\ [][ProgramNext]_programVars /\ ProgramFairness

-----------------------------------------------------------------------------
\* Whatever the time of the frame, the ticks and the keys: what is shown has
\* been computed in full from the player, the entities and the view as they are
\* now.  Nothing on the screen is left from the frame before, and no part was
\* made from something that was, by main.c or render.c.
FrameIsCoherent == stage = "showing" => fresh = Data

\* No thread paints into or from an image that is not there, although each of
\* them works through pointers that assets.c set; when main.c has left its loop
\* every image and texture it loaded has been released, and only the texture of
\* the minimap, which nobody unloads, is left to CloseWindow.
AssetsAreSound ==
  /\ Painting # {} => {"floor", "ceiling", "floor_ceiling_buffer"} \subseteq images
  /\ stage = "closing" => images = {} /\ textures = {<<"minimap", 0>>}

\* Every frame that main.c begins is shown in the end, although the server and
\* the client keep two of the threads that render.c counts on.
FrameFinishes == stage = "simulating" ~> stage = "testing"

\* The server and the client that setup.c enqueues get a thread each, unless
\* the program ends.
ServicesStart ==
  \A s \in Service :
    <>((\E w \in Worker : job[w] = s) \/ stage \in {"exited", "aborted"})
=============================================================================
