------------------------------- MODULE Services -------------------------------
(***************************************************************************)
(* Threads that want sockets and the time, as the services of the game do: *)
(* main creates them one after the other (create_thread), and each of them *)
(* asks for a socket, uses it and asks for the time, and is done with it   *)
(* (create_game_server, create_game_client).  Nothing is locked.           *)
(***************************************************************************)
EXTENDS Threads, Clock, Network

ASSUME ServicesAssumption == Thread = User /\ Caller = User

serviceVars == <<threadVars, clockVars, socketVars, trafficVars>>

ServicesInit == ThreadsInit /\ ClockInit /\ NetworkInit

\* create_thread and the beginning of the new thread.  The creator is main, who
\* creates one thread at a time.
ThreadStep ==
  /\ \E t \in Thread :
       /\ ThreadStarts(t)
       /\ \A u \in Thread \ {t} :
            thread[t] = "wanted" => thread[u] # "creating"
  /\ UNCHANGED <<clockVars, socketVars, trafficVars>>

\* A thread asks for its socket, uses it, or is done with it.
SocketStep ==
  /\ \E s \in User :
       /\ thread[s] = "running" /\ clock[s] = "outside"
       /\ \/ ServiceStarts(s) /\ UNCHANGED trafficVars
          \/ Traffic(s) \/ Closes(s)
  /\ UNCHANGED <<threadVars, clockVars>>

\* A thread that has a socket asks for the time.
ClockStep ==
  /\ \E t \in Caller : At(t, "ready") /\ TimeStep(t)
  /\ UNCHANGED <<threadVars, socketVars, trafficVars>>

\* Sockets are shut down when nobody uses them.
ShutdownStep == Shutdown /\ UNCHANGED <<threadVars, clockVars, trafficVars>>

ServicesNext == ThreadStep \/ SocketStep \/ ClockStep \/ ShutdownStep

ServicesSpec == ServicesInit /\ [][ServicesNext]_serviceVars
===============================================================================
