-------------------------------- MODULE App ---------------------------------
(***************************************************************************)
(* The program's threads, as src/src/setup.c and src/src/main.c put them   *)
(* together: one pool with a worker per CPU; setup enqueues the game       *)
(* server and the game client, which keep their worker for as long as the  *)
(* program runs; then the main thread renders frame after frame, and each  *)
(* frame is a parallel_for on the same pool.                               *)
(***************************************************************************)
EXTENDS ParallelFor, FloorCeiling

CONSTANTS
  Server, Client  \* create_game_server, create_game_client

Service == {Server, Client}

\* Every call of render_frame is for the rows from the horizon to the edge.
ASSUME RenderAssumption == \A c \in Calls : c.start = 0 /\ c.end = Horizon

\* They are two tasks, and no jobs.
ASSUME ServiceAssumption ==
  Service \subseteq Task /\ Service \cap JobId = {} /\ Server # Client

VARIABLES
  todo,       \* the services setup has not enqueued yet
  signalling  \* setup has pushed one and not signalled yet

setupVars == <<todo, signalling>>
appVars   == <<vars, setupVars>>

AppInit == Init /\ todo = <<Server, Client>> /\ signalling = FALSE

\* The two calls of enqueue_thread_pool in setup, whose results it ignores.
SetupEnqueues ==
  /\ todo # <<>> /\ ~signalling
  /\ Enqueue(Head(todo))
  /\ todo' = Tail(todo) /\ signalling' = TRUE
  /\ UNCHANGED <<counterVars, forVars>>

SetupSignals ==
  /\ signalling
  /\ SignalOne
  /\ signalling' = FALSE
  /\ UNCHANGED <<counterVars, forVars, todo>>

\* A service returns only when it could not create its socket.
ServiceFails(w) ==
  /\ job[w] \in Service
  /\ Return(w)
  /\ UNCHANGED <<counterVars, forVars, setupVars>>

-----------------------------------------------------------------------------
\* The pixel rows of job k, and those painted since the call began.
JobRows(k) == UNION {PixelRows(r) : r \in jobs[k].start .. jobs[k].end - 1}
Painted    == UNION {PixelRows(r) : r \in {x \in Index : processed[x] > 0}}

\* The workers that are painting, as far as anybody can tell.
Painting == {w \in Worker : job[w] \in JobId \ ran}

\* No two threads write the same row of the shared pixel buffer at the same
\* time, and while the main thread uploads it nobody writes it at all.
NoPixelRace ==
  /\ \A v, w \in Painting : v # w => JobRows(job[v]) \cap JobRows(job[w]) = {}
  /\ pc = "out" => Painting = {}

\* When parallel_for returns and render_frame uploads the buffer, every row of
\* this frame has been painted once, although two of the threads it counts on
\* are busy for good: the rows one thread used to paint, and the horizon.  (The
\* topmost row, 0, nobody has ever painted.)
FrameIsWhole ==
  pc = "out" /\ call.end = Horizon =>
    /\ Painted = RowsOfOneThread \cup {Horizon}
    /\ Painted = 1 .. RENDER_TEXTURE_HEIGHT - 1
    /\ \A r \in Index : processed[r] = 1
=============================================================================
