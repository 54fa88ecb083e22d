------------------------------- MODULE Sockets --------------------------------
(***************************************************************************)
(* How threads get a socket: src/src/os/socket.c and the wrappers of       *)
(* src/src/networking, run by several threads at the same time and without *)
(* a lock.  Every call of Winsock may fail.                                *)
(*                                                                         *)
(* A number that goes over the wire is the sequence of its bytes, the most *)
(* significant one first.                                                  *)
(***************************************************************************)
EXTENDS Naturals, Sequences, SequencesExt

CONSTANTS
  User,    \* the threads that use sockets
  Wanted,  \* what each of them may ask for
  PortOf,  \* and the port it names, as two bytes
  NoPort,  \* a socket that is not bound
  MaxStartups  \* bound: startups of Winsock that no cleanup has undone

ASSUME SocketsAssumption ==
  /\ Wanted \in [User -> SUBSET {"udp_server", "tcp_server",
                                 "udp_client", "tcp_client", "tcp_socket"}]
  /\ PortOf \in [User -> Seq(0 .. 255)]
  /\ NoPort \notin Seq(0 .. 255)
  /\ MaxStartups \in Nat

VARIABLES
  socket_initialized,  \* the flag of the file
  winsock,             \* how often WSAStartup has succeeded
  sockets,             \* the socket of each thread: its kind and its port
  service,             \* where each thread is
  goal                 \* what it has asked for

socketVars == <<socket_initialized, winsock, sockets, service, goal>>

NoSocket == [kind |-> "none", sin_port |-> NoPort]

Phase == {"idle", "starting", "initialising", "marking", "creating", "binding",
          "listening", "closing", "failed", "ready"}

SocketsInit ==
  /\ socket_initialized = FALSE
  /\ winsock = 0
  /\ sockets = [s \in User |-> NoSocket]
  /\ service = [s \in User |-> "idle"]
  /\ goal = [s \in User |-> "none"]

At(s, phase) == service[s] = phase
Goes(s, phase) == service' = [service EXCEPT ![s] = phase]

-----------------------------------------------------------------------------
\* htons, htonl, ntohs and ntohl on a machine whose order is not the wire's.
Swap(bytes) == Reverse(bytes)

\* socket_address_parse of a dotted address, whose bytes Windows returns in the
\* order of the wire.
ParsedAddress(dotted, port) == [ip |-> Swap(dotted), port |-> port]

\* socket_address_to_win32.
ToWin32(address) ==
  [sin_port |-> Swap(address.port), sin_addr |-> Swap(address.ip)]

-----------------------------------------------------------------------------
\* One of the four wrappers is called; the one for a TCP client does nothing,
\* and who wants to be one calls socket_create_tcp.
AsksForSocket(s) ==
  /\ At(s, "idle")
  /\ \E g \in Wanted[s] :
       /\ goal' = [goal EXCEPT ![s] = g]
       /\ Goes(s, IF g = "tcp_client" THEN "failed" ELSE "starting")
  /\ UNCHANGED <<socket_initialized, winsock, sockets>>

\* Mutant: the flag is set before WSAStartup has been called.
MarksFirst(s) ==
  /\ At(s, "starting")
  /\ socket_initialized' = TRUE
  /\ IF socket_initialized THEN Goes(s, "creating") ELSE Goes(s, "initialising")
  /\ UNCHANGED <<winsock, sockets, goal>>

\* socket_init: the flag is read ...
ReadsFlag(s) ==
  /\ At(s, "starting")
  /\ IF socket_initialized THEN Goes(s, "creating") ELSE Goes(s, "initialising")
  /\ UNCHANGED <<socket_initialized, winsock, sockets, goal>>

\* ... Winsock is started ...
StartsWinsock(s) ==
  /\ At(s, "initialising")
  /\ \/ /\ winsock < MaxStartups
        /\ winsock' = winsock + 1 /\ Goes(s, "marking")
     \/ Goes(s, "failed") /\ UNCHANGED winsock
  /\ UNCHANGED <<socket_initialized, sockets, goal>>

\* ... and the flag is set.
SetsFlag(s) ==
  /\ At(s, "marking")
  /\ socket_initialized' = TRUE
  /\ Goes(s, "creating")
  /\ UNCHANGED <<winsock, sockets, goal>>

KindOf(g) == IF g \in {"tcp_server", "tcp_socket"} THEN "tcp" ELSE "udp"
Binds(g)  == g \in {"udp_server", "tcp_server"}

\* socket_create_udp or socket_create_tcp; a client needs no more.
CreatesSocket(s) ==
  /\ At(s, "creating")
  /\ \/ /\ sockets' = [sockets EXCEPT ![s].kind = KindOf(goal[s])]
        /\ Goes(s, IF Binds(goal[s]) THEN "binding" ELSE "ready")
     \/ Goes(s, "failed") /\ UNCHANGED sockets
  /\ UNCHANGED <<socket_initialized, winsock, goal>>

\* Mutant: the port is bound in the order of the machine.
BoundPortAsIs(s) == PortOf[s]

BoundPort(s) == Swap(PortOf[s])

\* socket_bind: only one socket of a kind can have a port.
BindsSocket(s) ==
  LET bound == [sockets[s] EXCEPT !.sin_port = BoundPort(s)]
  IN  /\ At(s, "binding")
      /\ \/ /\ \A r \in User : sockets[r] # bound
            /\ sockets' = [sockets EXCEPT ![s] = bound]
            /\ Goes(s, IF goal[s] = "tcp_server" THEN "listening" ELSE "ready")
         \/ Goes(s, "closing") /\ UNCHANGED sockets
      /\ UNCHANGED <<socket_initialized, winsock, goal>>

\* socket_listen, for a TCP server only.
Listens(s) ==
  /\ At(s, "listening")
  /\ Goes(s, "ready") \/ Goes(s, "closing")
  /\ UNCHANGED <<socket_initialized, winsock, sockets, goal>>

\* Mutant: the wrapper returns without closing.
ForgetsSocket(s) ==
  /\ At(s, "closing")
  /\ Goes(s, "failed")
  /\ UNCHANGED <<socket_initialized, winsock, sockets, goal>>

\* A wrapper that cannot bind or listen closes the socket it has made.
ClosesSocket(s) ==
  /\ At(s, "closing")
  /\ sockets' = [sockets EXCEPT ![s] = NoSocket]
  /\ Goes(s, "failed")
  /\ UNCHANGED <<socket_initialized, winsock, goal>>

ServiceStarts(s) ==
  \/ AsksForSocket(s) \/ ReadsFlag(s) \/ StartsWinsock(s) \/ SetsFlag(s)
  \/ CreatesSocket(s) \/ BindsSocket(s) \/ Listens(s) \/ ClosesSocket(s)

-----------------------------------------------------------------------------
\* Its owner is done with a socket, or with having none, and may ask again.
SocketClosed(s) ==
  /\ At(s, "ready") \/ At(s, "failed")
  /\ sockets' = [sockets EXCEPT ![s] = NoSocket]
  /\ goal' = [goal EXCEPT ![s] = "none"]
  /\ Goes(s, "idle")
  /\ UNCHANGED <<socket_initialized, winsock>>

\* socket_shutdown, when nobody uses sockets any more.
Shutdown ==
  /\ socket_initialized
  /\ \A s \in User : At(s, "idle")
  /\ winsock' = winsock - 1 /\ socket_initialized' = FALSE
  /\ UNCHANGED <<sockets, service, goal>>

===============================================================================
