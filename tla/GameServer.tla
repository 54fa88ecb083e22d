----------------------------- MODULE GameServer -----------------------------
(***************************************************************************)
(* The way of a move: the client thread sends one for every entity, tick   *)
(* after tick (create_game_client); the loopback network may lose it; the  *)
(* server thread receives it and produces it to the lock-free queue        *)
(* (create_game_server); the main thread consumes it and moves the entity  *)
(* (simulate).                                                             *)
(*                                                                         *)
(* The queue is the atomic one of BoundedQueue: ParallelQueue implements   *)
(* it.  A move carries a serial number the code does not have (its         *)
(* sequence is always 0), so that the model can follow it.                 *)
(***************************************************************************)
EXTENDS NpcMovement, Sockets, SequencesExt

CONSTANTS
  Ticks,           \* bound: the number of ticks of the client
  QueueCapacity,   \* slots of the lock-free queue: 1024
  SocketCapacity,  \* datagrams the server's socket buffers
  Indeterminate,   \* a move nobody wrote: the server's uninitialised buffer
  MaxFailures      \* bound: how often recv may fail on the bound socket

ASSUME GameServerAssumption ==
  /\ Wanted["server"] = {"udp_server"} /\ Wanted["client"] = {"udp_client"}
  /\ Ticks \in Nat /\ QueueCapacity \in Nat \ {0} /\ SocketCapacity \in Nat
  /\ MaxFailures \in Nat
  /\ IsFiniteSet(Entity) /\ Entity = 0 .. Cardinality(Entity) - 1

VARIABLES
  tick,           \* ticks the client has begun
  i,              \* the next entity of this tick
  net,            \* datagrams in the server's socket
  server,         \* the server's loop: "receiving" or "holding"
  buf,            \* the server's receive buffer
  players_queue,  \* the lock-free queue
  player_move,    \* the move main consumed last
  failures,       \* how often recv has failed
  simulating,     \* main is in the loop of simulate
  lost,           \* moves the network did not deliver
  dropped,        \* moves refused by the full queue
  applied         \* moves that have moved their entity, oldest first

clientVars == <<tick, i>>
serverVars == <<server, buf>>
queueVars  == <<players_queue, player_move>>
ghostVars  == <<lost, dropped, applied, failures>>
vars == <<npcVars, socketVars, clientVars, serverVars, queueVars, ghostVars, net,
          simulating>>

\* What the client sends for entity e in tick t.
Move == [player_id : Entity, serial : 1 .. Ticks]

Queue == INSTANCE BoundedQueue
           WITH Item <- Move \cup {Indeterminate}, Nothing <- Indeterminate,
                Capacity <- QueueCapacity,
                queue <- players_queue, delivered <- player_move

Init ==
  /\ NpcInit /\ SocketsInit
  /\ tick = 0 /\ i = Cardinality(Entity)
  /\ server = "receiving" /\ buf = Indeterminate
  /\ Queue!Init
  /\ net = {} /\ lost = {} /\ dropped = {} /\ applied = <<>>
  /\ failures = 0
  /\ simulating = FALSE

-----------------------------------------------------------------------------
\* The services run until they have their sockets, or give up.
ServicesStart ==
  /\ \E s \in User : ServiceStarts(s)
  /\ UNCHANGED <<npcVars, clientVars, serverVars, queueVars, ghostVars, net,
                 simulating>>

\* The next 33 ms have passed.
ClientTicks ==
  /\ At("client", "ready") /\ i = Cardinality(Entity)
  /\ tick < Ticks
  /\ tick' = tick + 1 /\ i' = 0
  /\ UNCHANGED <<npcVars, socketVars, serverVars, queueVars, ghostVars, net,
                 simulating>>

\* socket_send_to: the datagram reaches the socket, unless nobody has bound the
\* port or its buffer is full, or it is lost on the way.
SendTo(move) ==
  \/ /\ At("server", "ready") /\ Cardinality(net) < SocketCapacity
     /\ net' = net \cup {move} /\ UNCHANGED lost
  \/ lost' = lost \cup {move} /\ UNCHANGED net

\* For one entity; the result is not looked at.
ClientSends ==
  /\ At("client", "ready") /\ i < Cardinality(Entity)
  /\ i' = i + 1
  /\ SendTo([player_id |-> i, serial |-> tick])
  /\ UNCHANGED <<npcVars, socketVars, tick, serverVars, queueVars,
                 dropped, applied, failures, simulating>>

-----------------------------------------------------------------------------
\* socket_receive blocks until there is a datagram and fills the buffer.
ServerReceives ==
  /\ At("server", "ready") /\ server = "receiving"
  /\ \E move \in net : buf' = move /\ net' = net \ {move}
  /\ server' = "holding"
  /\ UNCHANGED <<npcVars, socketVars, clientVars, queueVars, ghostVars,
                 simulating>>

\* It fails, which the server does not notice: the buffer holds what it held,
\* or, when a new round of the loop has begun, whatever was in its place.
ReceiveFails ==
  /\ At("server", "ready") /\ server = "receiving"
  /\ failures < MaxFailures /\ failures' = failures + 1
  /\ buf' \in {buf, Indeterminate}
  /\ server' = "holding"
  /\ UNCHANGED <<npcVars, socketVars, clientVars, queueVars, lost, dropped,
                 applied, net, simulating>>

\* Mutant: the server produces again what it has just produced.
ServerProducesTwice ==
  /\ server = "holding"
  /\ Queue!Put(buf)
  /\ server' \in {"receiving", "holding"}
  /\ UNCHANGED <<npcVars, socketVars, clientVars, buf, ghostVars, net,
                 simulating>>

ServerProduces ==
  /\ server = "holding"
  /\ Queue!Put(buf)
  /\ server' = "receiving"
  /\ UNCHANGED <<npcVars, socketVars, clientVars, buf, ghostVars, net,
                 simulating>>

\* Mutant: the server gives up when the queue is full.
ServerQuits ==
  /\ server = "holding"
  /\ Len(players_queue) = QueueCapacity
  /\ server' = "receiving" /\ Goes("server", "failed")
  /\ dropped' = dropped \cup {buf}
  /\ UNCHANGED <<npcVars, socket_initialized, winsock, sockets, goal, clientVars,
                 buf, queueVars, lost, applied, net, failures, simulating>>

\* produce_parallel_queue returns false and the server goes on.
ServerDrops ==
  /\ server = "holding"
  /\ Len(players_queue) = QueueCapacity
  /\ server' = "receiving"
  /\ dropped' = dropped \cup {buf}
  /\ UNCHANGED <<npcVars, socketVars, clientVars, buf, queueVars, lost,
                 applied, net, failures, simulating>>

-----------------------------------------------------------------------------
\* The main loop calls simulate when a 60th of a second has accumulated; it
\* consumes until the queue is empty.
SimulateBegins ==
  /\ ~simulating
  /\ simulating' = TRUE
  /\ UNCHANGED <<npcVars, socketVars, clientVars, serverVars, queueVars,
                 ghostVars, net>>

\* With an indeterminate move the index is whatever the buffer held: that of
\* some entity, or none, and memory outside the array is written.
SimulateMoves ==
  /\ simulating
  /\ Queue!Take
  /\ IF player_move' \in Move
       THEN MoveNpc(player_move'.player_id)
       ELSE UNCHANGED npcVars \/ \E e \in Entity : MoveNpc(e)
  /\ applied' = Append(applied, player_move')
  /\ UNCHANGED <<socketVars, clientVars, serverVars, lost, dropped, failures,
                 net, simulating>>

SimulateEnds ==
  /\ simulating /\ players_queue = <<>>
  /\ simulating' = FALSE
  /\ UNCHANGED <<npcVars, socketVars, clientVars, serverVars, queueVars,
                 ghostVars, net>>

-----------------------------------------------------------------------------
Client == ClientTicks \/ ClientSends
Server == ServerReceives \/ ReceiveFails \/ ServerProduces \/ ServerDrops
Main   == SimulateBegins \/ SimulateMoves \/ SimulateEnds

Next == ServicesStart \/ Client \/ Server \/ Main

Spec == Init /\ [][Next]_vars

\* Threads are scheduled, the main loop calls simulate for as long as it runs,
\* and a datagram in the socket is received.  Nobody has to send.
Fairness ==
  /\ WF_vars(ServerReceives) /\ WF_vars(ServerProduces \/ ServerDrops)
  /\ WF_vars(SimulateBegins) /\ WF_vars(SimulateMoves)

FairSpec == Spec /\ Fairness

-----------------------------------------------------------------------------
Sent ==
  {m \in Move : m.serial < tick \/ (m.serial = tick /\ m.player_id < i)}

Held       == IF server = "holding" THEN {buf} ELSE {}
Places     == <<net, Held, ToSet(players_queue), lost, dropped, ToSet(applied)>>

\* Every move the client has sent is somewhere between its socket and its
\* entity.  As long as no receive has failed it is in exactly one place and
\* moves its entity at most once.
MoveAccounting ==
  /\ Sent \subseteq UNION ToSet(Places)
  /\ failures = 0 =>
       /\ UNION ToSet(Places) = Sent
       /\ \A a, b \in DOMAIN Places : a # b => Places[a] \cap Places[b] = {}
       /\ \A a, b \in DOMAIN players_queue :
            players_queue[a] = players_queue[b] => a = b
       /\ \A a, b \in DOMAIN applied : applied[a] = applied[b] => a = b

\* A move in the queue names an entity, for simulate to index the array with.
QueuedMoveNamesEntity == \A n \in DOMAIN players_queue : players_queue[n] \in Move

\* A move that is sent moves its entity in the end, unless the network loses
\* it or the queue is full when it is produced.
EveryMoveSettles ==
  \A m \in Move : m \in Sent ~> m \in lost \cup dropped \cup ToSet(applied)
=============================================================================
