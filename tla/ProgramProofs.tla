---------------------------- MODULE ProgramProofs -----------------------------
(***************************************************************************)
(* Proofs about the whole program: what its threads do to the pixels of a  *)
(* frame, to the images, and what the frame that is shown is made of; for  *)
(* any number of CPUs, any size of the picture and any times of frames.    *)
(*                                                                         *)
(* The invariant is the one of parallel_for, which the services of the     *)
(* same pool leave alone, with what each stage of the main thread implies  *)
(* about the services, the images and the data of the frame.               *)
(***************************************************************************)
EXTENDS Program, ParallelForProofs

-----------------------------------------------------------------------------
\* The invariant.

Starting == {"opening", "loading"}
Stage ==
  Starting \cup {"aborted", "serving", "testing", "simulating", "input",
    "moving", "casting", "preparing", "minimap", "floor", "painting", "walls",
    "sprites", "showing", "closing", "exited"}

\* parallel_for is only ever called to paint.
StageSound == stage \in Stage /\ (pc # "out" => stage = "painting")

\* A service that is still to be enqueued is not in the queue.
TodoSound ==
  /\ todo \in {<<Server, Client>>, <<Client>>, <<>>}
  /\ todo = <<Server, Client>> => Server \notin Held(Elements(ring))
  /\ todo # <<>> => Client \notin Held(Elements(ring))
  /\ stage \notin Starting \cup {"aborted", "serving"} => todo = <<>>

\* What assets_load keeps in memory, and all that assets_unload releases.
Kept == {"floor", "ceiling", "floor_ceiling_buffer"}
Released ==
  {<<"floor_ceiling_buffer", 0>>}
    \cup {<<"texture", n>> : n \in 0 .. NUM_TEXTURES - 1}
    \cup UNION {SpriteTextures(n) : n \in 0 .. NUM_SPRITES - 1}

\* The images that are there when loading has come to a given place.
LoadingSound ==
  /\ loading[1] = "texture" =>
       \E n \in 0 .. NUM_TEXTURES - 1 :
         /\ loading = <<"texture", n>>
         /\ \A k \in 0 .. n - 1 : KeptImage(k) \subseteq images
  /\ loading[1] = "sprite" => {"floor", "ceiling"} \subseteq images
  /\ loading[1] = "loaded" => Kept \subseteq images

ImagesSound ==
  /\ images \subseteq Kept /\ textures \subseteq Released \cup {<<"minimap", 0>>}
  /\ stage \in Starting => LoadingSound
  /\ stage \notin {"opening", "exited"} => <<"minimap", 0>> \in textures
  /\ stage \notin Starting \cup {"aborted", "closing", "exited"} =>
       Kept \subseteq images
  /\ stage = "closing" => images = {} /\ textures = {<<"minimap", 0>>}

\* What has been computed in this frame when the main thread is at a stage.
DoneBy(s) ==
  CASE s = "preparing"             -> {"rays"}
    [] s = "minimap"               -> {"rays", "draws"}
    [] s \in {"floor", "painting"} -> {"rays", "draws", "minimap"}
    [] s = "walls"   -> {"rays", "draws", "minimap", "pixels", "texture"}
    [] s = "sprites" -> {"rays", "draws", "minimap", "pixels", "texture", "walls"}
    [] s = "showing" -> Data
    [] OTHER         -> {}

FrameSound == fresh \subseteq Data /\ DoneBy(stage) \subseteq fresh

ProgramInv ==
  IInv /\ StageSound /\ TodoSound /\ ImagesSound /\ FrameSound

-----------------------------------------------------------------------------
\* The threads: parallel_for, the pool and the services.

LEMMA ProgramConstants ==
  /\ Server \in Task /\ Client \in Task /\ Server # Client
  /\ Server \notin JobId /\ Client \notin JobId /\ Zero \notin JobId
BY ServiceAssumption, ForConstants DEF Service

\* A step of the main thread that leaves the threads alone.
LEMMA AloneKeeps ==
  ASSUME ProgramInv, UNCHANGED appVars, pc = "out", stage' \in Stage,
         \/ todo = <<>>
         \/ stage' \in Starting \cup {"aborted", "serving"}
  PROVE  IInv' /\ StageSound' /\ TodoSound'
<1>1. UNCHANGED vars /\ todo' = todo /\ ring' = ring /\ pc' = pc
  BY DEF appVars, setupVars, vars, poolVars, forVars, callerVars
<1>2. IInv'
  BY <1>1, InvStutter DEF ProgramInv
<1>3. StageSound'
  BY <1>1 DEF StageSound
<1>4. TodoSound'
  BY <1>1 DEF TodoSound, ProgramInv, Held, Elements
<1>5. QED
  BY <1>2, <1>3, <1>4

\* setup enqueues a service, which is no job.
LEMMA ServeStep ==
  ASSUME ProgramInv, SetupEnqueues, stage' = stage
  PROVE  IInv' /\ StageSound' /\ TodoSound'
<1>1. /\ todo # <<>> /\ Enqueue(Head(todo)) /\ todo' = Tail(todo)
      /\ UNCHANGED <<counterVars, forVars>>
  BY DEF SetupEnqueues
<1>2. PICK t \in Service : t = Head(todo)
  BY <1>1 DEF ProgramInv, TodoSound, Service
<1>3. t \in Task /\ t \notin JobId /\ t \notin Held(Elements(ring))
  BY <1>1, <1>2, ProgramConstants DEF ProgramInv, TodoSound, Service
<1>4. /\ PoolSound' /\ UNCHANGED job
      /\ Held(Elements(ring))' = Held(Elements(ring)) \cup {t}
  <2>1. Enqueue(t)
    BY <1>1, <1>2
  <2>2. QED
    BY <1>3, <2>1, EnqueueAdds DEF ProgramInv, IInv
<1>5. IInv'
  <2>1. QueuedJobs' = QueuedJobs
    BY <1>3, <1>4, QueuedAre, QueuedAreNext DEF ProgramInv, IInv
  <2>2. /\ JobsAtWork' = JobsAtWork
        /\ \A v, w \in Worker : job'[v] \in JobId /\ job'[v] = job'[w] => v = w
    BY <1>4 DEF JobsAtWork, ProgramInv, IInv, JobsSound
  <2>3. /\ sleeping' \in BOOLEAN /\ stopper' \in {"away", "signalling", "gone"}
        /\ UNCHANGED <<count, callerVars, ran, processed>>
    BY <1>1 DEF counterVars, forVars, ProgramInv, IInv, TypeOK, CounterTypeOK
  <2>4. QED
    BY <1>4, <2>1, <2>2, <2>3, JobsStay DEF ProgramInv
<1>6. StageSound'
  BY <1>1 DEF forVars, callerVars, StageSound, ProgramInv
<1>7. TodoSound'
  <2>1. CASE todo = <<Server, Client>>
    <3>1. t = Server /\ todo' = <<Client>>
      BY <1>1, <1>2, <2>1
    <3>2. Client \notin Held(Elements(ring))'
      BY <1>4, <2>1, <3>1, ProgramConstants DEF ProgramInv, TodoSound
    <3>3. stage \in Starting \cup {"aborted", "serving"}
      BY <2>1 DEF ProgramInv, TodoSound
    <3>4. QED
      BY <3>1, <3>2, <3>3 DEF TodoSound
  <2>2. CASE todo = <<Client>>
    <3>1. todo' = <<>>
      BY <1>1, <2>2
    <3>2. QED
      BY <3>1 DEF TodoSound
  <2>3. QED
    BY <1>1, <2>1, <2>2 DEF ProgramInv, TodoSound
<1>8. QED
  BY <1>5, <1>6, <1>7

\* setup signals, or a service ends because it could not create its socket.
LEMMA ServiceStep ==
  ASSUME ProgramInv, SetupSignals \/ (\E w \in Worker : ServiceFails(w)),
         stage' = stage
  PROVE  IInv' /\ StageSound' /\ TodoSound'
<1>1. UNCHANGED <<counterVars, forVars, todo>>
  BY DEF SetupSignals, ServiceFails, setupVars
<1>2. PoolSound' /\ ring' = ring
  <2>1. CASE SetupSignals
    BY <2>1, RestKeeps DEF SetupSignals, ProgramInv, IInv
  <2>2. CASE \E w \in Worker : ServiceFails(w)
    BY <2>2, ReturnFrees DEF ServiceFails, ProgramInv, IInv
  <2>3. QED
    BY <2>1, <2>2
<1>3. \A k \in JobId, w \in Worker : job'[w] = k <=> job[w] = k
  <2>1. CASE SetupSignals
    BY <2>1 DEF SetupSignals, SignalOne
  <2>2. CASE \E w \in Worker : ServiceFails(w)
    <3>1. PICK u \in Worker : ServiceFails(u)
      BY <2>2
    <3>2. job[u] \in Service /\ job' = [job EXCEPT ![u] = Zero]
      BY <3>1 DEF ServiceFails, Return
    <3>3. job \in [Worker -> Task \cup {Zero}]
      BY DEF ProgramInv, IInv, TypeOK, PoolTypeOK
    <3>4. QED
      BY <3>2, <3>3, ProgramConstants DEF Service
  <2>3. QED
    BY <2>1, <2>2
<1>4. IInv'
  <2>1. QueuedJobs' = QueuedJobs /\ JobsAtWork' = JobsAtWork
    BY <1>2, <1>3 DEF QueuedJobs, JobsAtWork, Elements
  <2>2. \A v, w \in Worker : job'[v] \in JobId /\ job'[v] = job'[w] => v = w
    BY <1>3 DEF ProgramInv, IInv, JobsSound
  <2>3. /\ sleeping' \in BOOLEAN /\ stopper' \in {"away", "signalling", "gone"}
        /\ UNCHANGED <<count, callerVars, ran, processed>>
    BY <1>1 DEF counterVars, forVars, ProgramInv, IInv, TypeOK, CounterTypeOK
  <2>4. QED
    BY <1>2, <2>1, <2>2, <2>3, JobsStay DEF ProgramInv
<1>5. StageSound'
  BY <1>1 DEF forVars, callerVars, StageSound, ProgramInv
<1>6. TodoSound'
  BY <1>1, <1>2 DEF TodoSound, ProgramInv, Held, Elements
<1>7. QED
  BY <1>4, <1>5, <1>6

\* The workers put nothing into the queue, and do not move the caller.
LEMMA WorkersKeep ==
  ASSUME ProgramInv, WorkerStep, UNCHANGED <<setupVars, stage>>
  PROVE  IInv' /\ StageSound' /\ TodoSound'
<1>1. IInv'
  BY WorkerInv DEF ProgramInv
<1>2. PICK w \in Worker :
        \/ WorkerTakes(w) \/ WorkerWaits(w) \/ WorkerWakes(w)
        \/ WorkerRuns(w) \/ WorkerFinishes(w)
  BY DEF WorkerStep
<1>3. Held(Elements(ring))' \subseteq Held(Elements(ring))
  <2>1. CASE WorkerTakes(w)
    BY <2>1, TakeMoves, ForConstants DEF WorkerTakes, ProgramInv, IInv
  <2>2. CASE ~WorkerTakes(w)
    <3>1. ring' = ring
      BY <1>2, <2>2 DEF WorkerWaits, WorkerWakes, WorkerRuns, WorkerFinishes,
                        Sleep, Exit, WakeSpuriously, Return, poolVars
    <3>2. QED
      BY <3>1 DEF Held, Elements
  <2>3. QED
    BY <2>1, <2>2
<1>4. pc' = pc
  BY <1>2 DEF WorkerTakes, WorkerWaits, WorkerWakes, WorkerRuns, WorkerFinishes,
              forVars, callerVars
<1>5. StageSound'
  BY <1>4 DEF StageSound, ProgramInv
<1>6. TodoSound'
  BY <1>3 DEF TodoSound, setupVars, ProgramInv
<1>7. QED
  BY <1>1, <1>5, <1>6

\* The main thread in parallel_for.
LEMMA PaintKeeps ==
  ASSUME ProgramInv, CallerStep, stage' = "painting", UNCHANGED setupVars,
         stage \in {"floor", "painting"}
  PROVE  IInv' /\ StageSound' /\ TodoSound'
<1>1. IInv'
  BY CallerInv DEF ProgramInv
<1>2. StageSound'
  BY DEF StageSound, Stage
<1>3. TodoSound'
  BY DEF TodoSound, setupVars, ProgramInv, Starting
<1>4. QED
  BY <1>1, <1>2, <1>3

LEMMA ThreadsInv ==
  ASSUME ProgramInv, ProgramNext
  PROVE  IInv' /\ StageSound' /\ TodoSound'
<1> USE DEF Alone
<1>1. CASE OpenWindow \/ LoadAssets \/ Abort \/ FirstMinimap
  <2>1. /\ UNCHANGED appVars /\ stage \in Starting
        /\ stage' \in Starting \cup {"aborted", "serving"}
    BY <1>1 DEF OpenWindow, LoadAssets, Abort, FirstMinimap, Starting, mainVars
  <2>2. pc = "out" /\ stage' \in Stage
    BY <2>1 DEF ProgramInv, StageSound, Starting, Stage
  <2>3. QED
    BY <2>1, <2>2, AloneKeeps
<1>2. CASE StartServices
  BY <1>2, ServeStep, ServiceStep DEF StartServices, mainVars
<1>3. CASE \/ SetupDone \/ FrameBegins \/ Simulate \/ SimulationDone \/ Input \/ Move
           \/ CastRays \/ PrepareDraws \/ DrawMinimap \/ Upload \/ DrawWalls
           \/ DrawEntities \/ ShowFrame \/ LeaveLoop \/ CloseWindow
  <2>1. UNCHANGED appVars
    BY <1>3 DEF SetupDone, FrameBegins, Simulate, SimulationDone, Input, Move,
         CastRays, PrepareDraws, DrawMinimap, Upload, DrawWalls, DrawEntities,
         ShowFrame, LeaveLoop, CloseWindow
  <2>2. stage' \in Stage
    BY <1>3 DEF SetupDone, FrameBegins, Simulate, SimulationDone, Input, Move,
         CastRays, PrepareDraws, DrawMinimap, Upload, DrawWalls, DrawEntities,
         ShowFrame, LeaveLoop, CloseWindow, After, Stage
  <2>3. stage # "painting" \/ pc = "out"
    BY <1>3 DEF SetupDone, FrameBegins, Simulate, SimulationDone, Input, Move,
         CastRays, PrepareDraws, DrawMinimap, Upload, DrawWalls, DrawEntities,
         ShowFrame, LeaveLoop, CloseWindow
  <2>4. todo = <<>> \/ stage \notin Starting \cup {"aborted", "serving"}
    BY <1>3 DEF SetupDone, FrameBegins, Simulate, SimulationDone, Input, Move,
         CastRays, PrepareDraws, DrawMinimap, Upload, DrawWalls, DrawEntities,
         ShowFrame, LeaveLoop, CloseWindow, Starting
  <2>5. pc = "out" /\ todo = <<>>
    BY <2>3, <2>4 DEF ProgramInv, StageSound, TodoSound
  <2>6. QED
    BY <2>1, <2>2, <2>5, AloneKeeps
<1>4. CASE PaintBegins \/ Paint
  <2>1. /\ CallerStep /\ stage' = "painting" /\ UNCHANGED setupVars
        /\ stage \in {"floor", "painting"}
    BY <1>4 DEF PaintBegins, Paint, CallerStep, mainVars
  <2>2. QED
    BY <2>1, PaintKeeps
<1>5. CASE PoolRuns
  BY <1>5, WorkersKeep, ServiceStep DEF PoolRuns, mainVars
<1>6. CASE Over
  <2>1. /\ UNCHANGED appVars /\ stage' = stage /\ stage \in {"exited", "aborted"}
        /\ todo = <<>> \/ stage = "aborted"
    BY <1>6 DEF Over, programVars, mainVars, ProgramInv, TodoSound, Starting
  <2>2. pc = "out" /\ stage' \in Stage
    BY <2>1 DEF ProgramInv, StageSound
  <2>3. QED
    BY <2>1, <2>2, AloneKeeps
<1>7. QED
  BY <1>1, <1>2, <1>3, <1>4, <1>5, <1>6 DEF ProgramNext, MainStep

-----------------------------------------------------------------------------
\* The images.

\* One image more has been loaded, or could not be.
LEMMA LoadingKeeps ==
  ASSUME ProgramInv, stage = "loading", LoadTexture \/ LoadSprite \/ MakeBuffer
  PROVE  /\ LoadingSound' /\ images' \subseteq Kept
         /\ textures' \subseteq Released \cup {<<"minimap", 0>>}
         /\ textures \subseteq textures'
<1>0. /\ LoadingSound /\ images \subseteq Kept
      /\ textures \subseteq Released \cup {<<"minimap", 0>>}
  BY DEF ProgramInv, ImagesSound, Starting
<1>1. CASE LoadTexture
  <2>1. PICK n \in 0 .. NUM_TEXTURES - 1 :
          /\ loading = <<"texture", n>>
          /\ \/ /\ images' = images \cup KeptImage(n)
                /\ textures' = textures \cup {<<"texture", n>>}
                /\ loading' = IF n + 1 < NUM_TEXTURES THEN <<"texture", n + 1>>
                                                      ELSE <<"sprite", 0>>
             \/ loading' = <<"failed", n>> /\ UNCHANGED <<images, textures>>
    BY <1>1 DEF LoadTexture
  <2>2. CASE loading' = <<"failed", n>> /\ UNCHANGED <<images, textures>>
    BY <1>0, <2>2 DEF LoadingSound
  <2>3. CASE /\ images' = images \cup KeptImage(n)
             /\ textures' = textures \cup {<<"texture", n>>}
             /\ loading' = IF n + 1 < NUM_TEXTURES THEN <<"texture", n + 1>>
                                                   ELSE <<"sprite", 0>>
    <3>1. \A k \in 0 .. n : KeptImage(k) \subseteq images'
      <4>1. PICK m \in 0 .. NUM_TEXTURES - 1 :
              /\ loading = <<"texture", m>>
              /\ \A k \in 0 .. m - 1 : KeptImage(k) \subseteq images
        BY <1>0, <2>1 DEF LoadingSound
      <4>2. m = n
        BY <2>1, <4>1
      <4>3. \A k \in 0 .. n - 1 : KeptImage(k) \subseteq images
        BY <4>1, <4>2
      <4>4. \A k \in 0 .. n : k \in 0 .. n - 1 \/ k = n
        OBVIOUS
      <4>5. QED
        BY <2>3, <4>3, <4>4
    <3>2. images' \subseteq Kept
      BY <1>0, <2>3 DEF KeptImage, Kept
    <3>3. textures' \subseteq Released \cup {<<"minimap", 0>>}
      BY <1>0, <2>3 DEF Released
    <3>4. LoadingSound'
      <4>1. CASE n + 1 < NUM_TEXTURES
        <5>1. n + 1 \in 0 .. NUM_TEXTURES - 1 /\ (n + 1) - 1 = n
          BY <4>1, AssetsAssumption
        <5>2. loading' = <<"texture", n + 1>>
          BY <2>3, <4>1
        <5>3. \A k \in 0 .. (n + 1) - 1 : KeptImage(k) \subseteq images'
          BY <3>1, <5>1
        <5>4. QED
          BY <5>1, <5>2, <5>3 DEF LoadingSound
      <4>2. CASE ~(n + 1 < NUM_TEXTURES)
        <5>1. FLOOR_TEXTURE_INDEX \in 0 .. n /\ CEILING_TEXTURE_INDEX \in 0 .. n
          BY <4>2, AssetsAssumption
        <5>2. {"floor", "ceiling"} \subseteq images'
          BY <3>1, <5>1, AssetsAssumption DEF KeptImage
        <5>3. QED
          BY <2>3, <4>2, <5>2 DEF LoadingSound
      <4>3. QED
        BY <4>1, <4>2
    <3>5. QED
      BY <2>3, <3>2, <3>3, <3>4
  <2>4. QED
    BY <2>1, <2>2, <2>3
<1>2. CASE LoadSprite
  <2>1. PICK n \in 0 .. NUM_SPRITES - 1 :
          /\ loading = <<"sprite", n>>
          /\ \/ /\ textures' = textures \cup SpriteTextures(n)
                /\ loading' = <<"sprite", n + 1>>
             \/ loading' = <<"failed", NUM_TEXTURES + n>> /\ UNCHANGED textures
          /\ UNCHANGED images
    BY <1>2 DEF LoadSprite
  <2>2. textures' \subseteq Released \cup {<<"minimap", 0>>} /\ textures \subseteq textures'
    BY <1>0, <2>1 DEF Released
  <2>3. LoadingSound'
    BY <1>0, <2>1 DEF LoadingSound
  <2>4. QED
    BY <1>0, <2>1, <2>2, <2>3
<1>3. CASE MakeBuffer
  BY <1>0, <1>3 DEF MakeBuffer, LoadingSound, Kept, Released
<1>4. QED
  BY <1>1, <1>2, <1>3

\* assets_unload releases everything but the texture of the minimap.
LEMMA UnloadLeaves ==
  ASSUME images \subseteq Kept, textures \subseteq Released \cup {<<"minimap", 0>>},
         <<"minimap", 0>> \in textures, Unload
  PROVE  images' = {} /\ textures' = {<<"minimap", 0>>}
<1>1. images' = images \ Kept
  BY DEF Unload, Kept
<1>2. textures' = textures \ Released
  BY DEF Unload, Released
<1>3. <<"minimap", 0>> \notin Released
  BY DEF Released, SpriteTextures
<1>4. QED
  BY <1>1, <1>2, <1>3

\* A step that leaves the images alone.
LEMMA ImagesStay ==
  ASSUME ProgramInv, UNCHANGED assetVars,
         stage' = stage \/ stage \notin Starting \cup {"aborted", "closing", "exited"},
         stage' = stage \/ stage' \notin Starting \cup {"closing", "exited"}
  PROVE  ImagesSound'
<1>1. UNCHANGED <<images, textures, loading>>
  BY DEF assetVars
<1>2. LoadingSound' <=> LoadingSound
  BY <1>1 DEF LoadingSound
<1>3. QED
  BY <1>1, <1>2 DEF ImagesSound, ProgramInv, Starting

LEMMA ImagesInv ==
  ASSUME ProgramInv, ProgramNext
  PROVE  ImagesSound'
<1> USE DEF Alone
<1>1. CASE OpenWindow
  <2>1. /\ stage = "opening" /\ stage' = "loading"
        /\ textures' = textures \cup {<<"minimap", 0>>}
        /\ UNCHANGED <<images, loading>>
    BY <1>1 DEF OpenWindow
  <2>2. LoadingSound'
    BY <2>1 DEF LoadingSound, ImagesSound, ProgramInv, Starting
  <2>3. QED
    BY <2>1, <2>2 DEF ImagesSound, ProgramInv, Starting
<1>2. CASE LoadAssets
  <2>1. /\ stage = "loading" /\ stage' = "loading"
        /\ LoadTexture \/ LoadSprite \/ MakeBuffer
    BY <1>2 DEF LoadAssets, mainVars
  <2>2. QED
    BY <2>1, LoadingKeeps DEF ImagesSound, ProgramInv, Starting
<1>3. CASE Abort
  BY <1>3 DEF Abort, LoadFails, assetVars, ImagesSound, ProgramInv, Starting
<1>4. CASE FirstMinimap
  <2>1. /\ stage = "loading" /\ stage' = "serving" /\ loading[1] = "loaded"
        /\ UNCHANGED <<images, textures, loading>>
    BY <1>4 DEF FirstMinimap, Loaded, assetVars
  <2>2. Kept \subseteq images
    BY <2>1 DEF LoadingSound, ImagesSound, ProgramInv, Starting
  <2>3. QED
    BY <2>1, <2>2 DEF ImagesSound, ProgramInv, Starting
<1>5. CASE \/ SetupDone \/ FrameBegins \/ Simulate \/ SimulationDone \/ Input \/ Move
           \/ CastRays \/ PrepareDraws \/ DrawMinimap \/ Upload \/ DrawWalls
           \/ DrawEntities \/ ShowFrame
  <2>1. UNCHANGED assetVars
    BY <1>5 DEF SetupDone, FrameBegins, Simulate, SimulationDone, Input, Move,
         CastRays, PrepareDraws, DrawMinimap, Upload, DrawWalls, DrawEntities,
         ShowFrame
  <2>2. /\ stage \notin Starting \cup {"aborted", "closing", "exited"}
        /\ stage' \notin Starting \cup {"closing", "exited"}
    BY <1>5 DEF SetupDone, FrameBegins, Simulate, SimulationDone, Input, Move,
         CastRays, PrepareDraws, DrawMinimap, Upload, DrawWalls, DrawEntities,
         ShowFrame, After, Starting
  <2>3. QED
    BY <2>1, <2>2, ImagesStay
<1>6. CASE PaintBegins
  BY <1>6, ImagesStay DEF PaintBegins, Starting
<1>7. CASE StartServices \/ Paint \/ PoolRuns \/ Over
  BY <1>7, ImagesStay DEF StartServices, Paint, PoolRuns, Over, mainVars, programVars
<1>8. CASE LeaveLoop
  <2>1. stage = "testing" /\ stage' = "closing" /\ Unload
    BY <1>8 DEF LeaveLoop
  <2>2. images' = {} /\ textures' = {<<"minimap", 0>>}
    BY <2>1, UnloadLeaves DEF ImagesSound, ProgramInv
  <2>3. QED
    BY <2>1, <2>2 DEF ImagesSound, Starting
<1>9. CASE CloseWindow
  <2>1. stage' = "exited" /\ textures' = {} /\ images' = images
    BY <1>9 DEF CloseWindow
  <2>2. QED
    BY <2>1 DEF ImagesSound, ProgramInv, Starting
<1>10. QED
  BY <1>1, <1>2, <1>3, <1>4, <1>5, <1>6, <1>7, <1>8, <1>9 DEF ProgramNext, MainStep

-----------------------------------------------------------------------------
\* The data of a frame.

LEMMA FrameInv ==
  ASSUME ProgramInv, ProgramNext
  PROVE  FrameSound'
<1> USE DEF Alone, FrameSound, ProgramInv, DoneBy, Data
<1>1. CASE OpenWindow \/ LoadAssets \/ Abort \/ StartServices
  BY <1>1 DEF OpenWindow, LoadAssets, Abort, StartServices, mainVars
<1>2. CASE FirstMinimap
  BY <1>2 DEF FirstMinimap, Computed
<1>3. CASE SetupDone \/ FrameBegins \/ SimulationDone \/ ShowFrame \/ LeaveLoop \/ CloseWindow
  BY <1>3 DEF SetupDone, FrameBegins, SimulationDone, ShowFrame, LeaveLoop, CloseWindow
<1>4. CASE Simulate
  BY <1>4 DEF Simulate
<1>5. CASE Input
  BY <1>5 DEF Input
<1>6. CASE Move
  BY <1>6 DEF Move, After
<1>7. CASE CastRays
  BY <1>7 DEF CastRays, After, Computed
<1>8. CASE PrepareDraws
  BY <1>8 DEF PrepareDraws, After, Computed
<1>9. CASE DrawMinimap
  BY <1>9 DEF DrawMinimap, Computed
<1>10. CASE PaintBegins
  BY <1>10 DEF PaintBegins
<1>11. CASE Paint \/ PoolRuns \/ Over
  BY <1>11 DEF Paint, PoolRuns, Over, mainVars, programVars
<1>12. CASE Upload
  BY <1>12 DEF Upload
<1>13. CASE DrawWalls
  BY <1>13 DEF DrawWalls, Computed
<1>14. CASE DrawEntities
  BY <1>14 DEF DrawEntities, Computed
<1>15. QED
  BY <1>1, <1>2, <1>3, <1>4, <1>5, <1>6, <1>7, <1>8, <1>9, <1>10, <1>11, <1>12,
     <1>13, <1>14 DEF ProgramNext, MainStep

-----------------------------------------------------------------------------
\* The invariant of the program.

LEMMA ProgramInvInit == ProgramInit => ProgramInv
<1> SUFFICES ASSUME ProgramInit PROVE ProgramInv
  OBVIOUS
<1> USE DEF ProgramInit, AppInit, AssetsInit
<1>1. IInv
  BY InvInit
<1>2. StageSound
  BY DEF StageSound, Stage, Starting, Init
<1>3. TodoSound
  BY InitSound DEF TodoSound, Starting, Init
<1>4. ImagesSound
  <2>1. LoadingSound
    <3>1. 0 \in 0 .. NUM_TEXTURES - 1
      BY AssetsAssumption
    <3>2. \A k \in 0 .. 0 - 1 : KeptImage(k) \subseteq images
      OBVIOUS
    <3>3. QED
      BY <3>1, <3>2 DEF LoadingSound
  <2>2. QED
    BY <2>1 DEF ImagesSound, Starting
<1>5. FrameSound
  BY DEF FrameSound, DoneBy
<1>6. QED
  BY <1>1, <1>2, <1>3, <1>4, <1>5 DEF ProgramInv

LEMMA ProgramInvStutter == ProgramInv /\ UNCHANGED programVars => ProgramInv'
<1> SUFFICES ASSUME ProgramInv, UNCHANGED programVars PROVE ProgramInv'
  OBVIOUS
<1>1. UNCHANGED <<appVars, assetVars, mainVars>> /\ UNCHANGED <<stage, fresh>>
  BY DEF programVars, mainVars
<1>2. UNCHANGED vars /\ UNCHANGED <<todo, ring, pc>>
  BY <1>1 DEF appVars, setupVars, vars, poolVars, forVars, callerVars
<1>3. IInv' /\ StageSound' /\ TodoSound'
  BY <1>1, <1>2, InvStutter DEF ProgramInv, StageSound, TodoSound, Held, Elements
<1>4. ImagesSound' /\ FrameSound'
  BY <1>1, ImagesStay DEF ProgramInv, FrameSound, DoneBy
<1>5. QED
  BY <1>3, <1>4 DEF ProgramInv

\* The inductive invariant of the program: that of parallel_for, with what each
\* stage of main.c, setup.c and render.c implies about services, images and data.
THEOREM ProgramInvariant == ProgramSpec => []ProgramInv
<1>1. ProgramInv /\ [ProgramNext]_programVars => ProgramInv'
  BY ThreadsInv, ImagesInv, FrameInv, ProgramInvStutter DEF ProgramInv
<1>2. QED
  BY <1>1, ProgramInvInit, PTL DEF ProgramSpec

-----------------------------------------------------------------------------
\* What follows from it.

LEMMA HorizonIs ==
  /\ Horizon \in Nat /\ Horizon > 0 /\ RENDER_TEXTURE_HEIGHT = 2 * Horizon
BY FrameAssumption DEF Horizon

\* Different rows of the floor have different pixels.
LEMMA RowsApart ==
  ASSUME NEW r \in Nat, NEW s \in Nat, r # s
  PROVE  PixelRows(r) \cap PixelRows(s) = {}
BY HorizonIs DEF PixelRows

LEMMA JobRowsApart ==
  ASSUME IInv, NEW j \in Cut, NEW k \in Cut, j # k
  PROVE  JobRows(j) \cap JobRows(k) = {}
<1>1. j \in JobId /\ k \in JobId
  BY DEF Cut
<1>2. \A r \in Items(j) : r \in Nat
  BY <1>1, CallerFacts DEF Items
<1>3. \A r \in Items(k) : r \in Nat
  BY <1>1, CallerFacts DEF Items
<1>4. \A r \in Items(j), s \in Items(k) : PixelRows(r) \cap PixelRows(s) = {}
  BY <1>2, <1>3, ItemsApart, RowsApart
<1>5. /\ JobRows(j) = UNION {PixelRows(r) : r \in Items(j)}
      /\ JobRows(k) = UNION {PixelRows(r) : r \in Items(k)}
  BY DEF JobRows, Items
<1>6. QED
  BY <1>4, <1>5

\* No two threads paint the same row of the pixels at the same time, and while
\* the main thread uploads them nobody paints (render.c, draw.c).
THEOREM PixelsAreApart == ProgramSpec => []NoPixelRace
<1>1. ProgramInv => NoPixelRace
  <2> SUFFICES ASSUME ProgramInv PROVE NoPixelRace
    OBVIOUS
  <2>1. IInv
    BY DEF ProgramInv
  <2>2. \A w \in Painting : job[w] \in JobsAtWork
    BY DEF Painting, JobsAtWork
  <2>3. ASSUME NEW v \in Painting, NEW w \in Painting, v # w
        PROVE  JobRows(job[v]) \cap JobRows(job[w]) = {}
    <3>1. job[v] \in Cut /\ job[w] \in Cut
      BY <2>1, <2>2 DEF IInv, JobsSound
    <3>2. job[v] # job[w]
      BY <2>1, <2>3 DEF IInv, JobsSound, Painting
    <3>3. PICK j \in Cut, k \in Cut : j = job[v] /\ k = job[w]
      BY <3>1
    <3>4. JobRows(j) \cap JobRows(k) = {}
      BY <2>1, <3>2, <3>3, JobRowsApart
    <3>5. QED
      BY <3>3, <3>4
  <2>4. pc = "out" => Painting = {}
    BY <2>1, <2>2, NoJobsOutside
  <2>5. QED
    BY <2>3, <2>4 DEF NoPixelRace
<1>2. QED
  BY <1>1, ProgramInvariant, PTL

\* The rows of all indexes of a call are those of the picture but the topmost.
LEMMA RowsOfAll ==
  /\ UNION {PixelRows(r) : r \in 0 .. Horizon - 1} = 1 .. RENDER_TEXTURE_HEIGHT - 1
  /\ UNION {PixelRows(r) : r \in 0 .. Horizon - 1} = RowsOfOneThread \cup {Horizon}
<1> DEFINE all == UNION {PixelRows(r) : r \in 0 .. Horizon - 1}
<1>1. \A x : x \in all <=> \E r \in 0 .. Horizon - 1 : x = Horizon + r \/ x = Horizon - r
  BY DEF PixelRows
<1>2. \A x : x \in RowsOfOneThread <=>
             \E r \in 1 .. Horizon - 1 : x = Horizon + r \/ x = Horizon - r
  BY DEF PixelRows, RowsOfOneThread
<1> HIDE DEF all
<1>3. ASSUME NEW x \in 1 .. RENDER_TEXTURE_HEIGHT - 1 PROVE x \in all
  <2>1. CASE x >= Horizon
    <3>1. x - Horizon \in 0 .. Horizon - 1 /\ x = Horizon + (x - Horizon)
      BY <2>1, HorizonIs
    <3>2. QED
      BY <1>1, <3>1
  <2>2. CASE x < Horizon
    <3>1. Horizon - x \in 0 .. Horizon - 1 /\ x = Horizon - (Horizon - x)
      BY <2>2, HorizonIs
    <3>2. QED
      BY <1>1, <3>1
  <2>3. QED
    BY <2>1, <2>2, HorizonIs
<1>4. ASSUME NEW x \in all PROVE x \in 1 .. RENDER_TEXTURE_HEIGHT - 1
  <2>1. PICK r \in 0 .. Horizon - 1 : x = Horizon + r \/ x = Horizon - r
    BY <1>1
  <2>2. QED
    BY <2>1, HorizonIs
<1>5. all = RowsOfOneThread \cup {Horizon}
  <2>1. \A r : r \in 0 .. Horizon - 1 <=> r \in 1 .. Horizon - 1 \/ r = 0
    BY HorizonIs
  <2>2. Horizon + 0 = Horizon /\ Horizon - 0 = Horizon
    BY HorizonIs
  <2>3. QED
    BY <1>1, <1>2, <2>1, <2>2
<1>6. QED
  BY <1>3, <1>4, <1>5 DEF all

\* When parallel_for returns every row of the picture but the topmost, which
\* nobody ever paints, has been painted, and each of them once (render.c, draw.c).
THEOREM FramesAreWhole == ProgramSpec => []FrameIsWhole
<1>1. ProgramInv => FrameIsWhole
  <2> SUFFICES ASSUME ProgramInv, pc = "out", call.end = Horizon
               PROVE  /\ Painted = RowsOfOneThread \cup {Horizon}
                      /\ Painted = 1 .. RENDER_TEXTURE_HEIGHT - 1
                      /\ \A r \in Index : processed[r] = 1
    BY DEF FrameIsWhole
  <2>1. IInv
    BY DEF ProgramInv
  <2>2. call \in Calls /\ call.start = 0
    BY <2>1, HorizonIs, RenderAssumption DEF IInv, CallSound
  <2>3. Index = 0 .. Horizon - 1
    BY <2>2, RenderAssumption DEF Index
  <2>4. \A r \in Index : processed[r] = 1
    BY <2>1, <2>2, <2>3 DEF IInv, ProcessedSound, Handed
  <2>5. Painted = UNION {PixelRows(r) : r \in 0 .. Horizon - 1}
    BY <2>3, <2>4 DEF Painted
  <2>6. QED
    BY <2>4, <2>5, RowsOfAll
<1>2. QED
  BY <1>1, ProgramInvariant, PTL

\* What is shown has been computed in full from the player, the entities and the
\* view as they are now (main.c, render.c).
THEOREM FramesAreCoherent == ProgramSpec => []FrameIsCoherent
<1>1. ProgramInv => FrameIsCoherent
  BY DEF ProgramInv, FrameSound, DoneBy, FrameIsCoherent
<1>2. QED
  BY <1>1, ProgramInvariant, PTL

\* No thread paints into or from an image that is not there, and when the loop
\* has been left nothing that assets.c loaded remains.
THEOREM ImagesAreThere == ProgramSpec => []AssetsAreSound
<1>1. ProgramInv => AssetsAreSound
  <2> SUFFICES ASSUME ProgramInv PROVE AssetsAreSound
    OBVIOUS
  <2>1. ASSUME Painting # {} PROVE Kept \subseteq images
    <3>1. JobsAtWork # {}
      BY <2>1 DEF Painting, JobsAtWork
    <3>2. pc # "out"
      BY <3>1, NoJobsOutside DEF ProgramInv
    <3>3. QED
      BY <3>2 DEF ProgramInv, StageSound, ImagesSound, Starting
  <2>2. QED
    BY <2>1 DEF AssetsAreSound, ProgramInv, ImagesSound, Kept
<1>2. QED
  BY <1>1, ProgramInvariant, PTL

\* There is room in the queue for a service that setup still has to enqueue.
LEMMA RoomForService ==
  ASSUME ProgramInv, todo # <<>>
  PROVE  ~FullRing(ring)
<1> DEFINE held   == Held(Elements(ring))
           others == Task \ JobId
           most   == Lower(Cardinality(Worker), MAX_PARALLELISM)
<1>1. /\ IInv /\ pc = "out" /\ Client \notin held
  BY DEF ProgramInv, StageSound, TodoSound, Starting
<1>2. /\ ring \in RingOf(Task) /\ Elements(ring) \in Seq(Task)
      /\ Distinct(Elements(ring))
  BY <1>1 DEF IInv, PoolSound, PoolTypeOK
<1>3. Cardinality(held) = ring.size /\ held \subseteq Task
  <2>1. Cardinality(held) = Len(Elements(ring)) /\ Len(Elements(ring)) = ring.size
    BY <1>2, HeldCount, ElementsLen
  <2>2. held \subseteq Task
    BY <1>2, ElementOfSeq, LenProperties DEF Held
  <2>3. QED
    BY <2>1, <2>2
<1>4. held \subseteq others \ {Client}
  <2>1. held \cap JobId = {}
    BY <1>1, QueuedAre, NoJobsOutside DEF IInv
  <2>2. QED
    BY <1>1, <1>3, <2>1
<1>5. /\ IsFiniteSet(others) /\ Cardinality(others) \in Nat
      /\ most + Cardinality(others) <= QueueCapacity
  BY ParallelForAssumption, FS_CardinalityType
<1>6. /\ IsFiniteSet(others \ {Client})
      /\ Cardinality(others \ {Client}) = Cardinality(others) - 1
  <2>1. Client \in others
    BY ProgramConstants
  <2>2. QED
    BY <1>5, <2>1, FS_RemoveElement
<1>7. /\ Cardinality(held) <= Cardinality(others \ {Client})
      /\ Cardinality(others \ {Client}) \in Nat
  BY <1>4, <1>6, FS_Subset, FS_CardinalityType
<1>8. ring.size \in Nat /\ most \in Nat /\ QueueCapacity \in Nat
  BY <1>2, RingFields, ForConstants, CapacityIs
<1> HIDE DEF held, others, most
<1>9. QED
  BY <1>3, <1>5, <1>6, <1>7, <1>8 DEF FullRing

\* None of the assertions of push_fixed_queue and job_counter_finish_one ends the
\* program: not in the frames, and not when setup enqueues the services.
THEOREM NoAssertionEndsTheProgram ==
  ProgramSpec => [](AssertionsHold /\ (todo # <<>> => ~FullRing(ring)))
<1>1. ProgramInv => AssertionsHold /\ (todo # <<>> => ~FullRing(ring))
  BY RoomForService, AssertionsFollow DEF ProgramInv
<1>2. QED
  BY <1>1, ProgramInvariant, PTL
===============================================================================
