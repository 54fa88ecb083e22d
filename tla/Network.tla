------------------------------- MODULE Network --------------------------------
(***************************************************************************)
(* What goes through the sockets of src/src/os/socket.c: datagrams, with   *)
(* the address they came from, and connections.  Calls that fail change    *)
(* nothing and have no step.  All threads are on one machine.              *)
(***************************************************************************)
EXTENDS Sockets, FiniteSets

CONSTANTS
  Ephemeral,  \* the port of a socket that sends without having been bound
  MaxWire,    \* bound: datagrams that have not been received
  NoAddress,  \* nothing has been received yet
  Nobody      \* nor is there somebody it came from

ASSUME NetworkAssumption ==
  /\ Ephemeral \in [User -> Seq(0 .. 255)] /\ MaxWire \in Nat
  /\ Nobody \notin User /\ NoAddress \notin [ip : Seq(0 .. 255), port : Seq(0 .. 255)]

VARIABLES
  wire,         \* the datagrams: who sent them, from and to which name
  out_address,  \* what socket_receive_from has stored for each thread
  sender,       \* who that is, as long as it keeps its socket
  links         \* the connections: who asked for it, of whom, and if accepted

trafficVars == <<wire, out_address, sender, links>>

NetworkInit ==
  /\ SocketsInit
  /\ wire = {} /\ links = {}
  /\ out_address = [s \in User |-> NoAddress] /\ sender = [s \in User |-> Nobody]

Loopback == <<127, 0, 0, 1>>

\* The address of a thread's port, from text and number.
AddressOf(s) == ParsedAddress(Loopback, PortOf[s])

\* socket_address_from_win32.
FromWin32(name) == [ip |-> Swap(name.sin_addr), port |-> Swap(name.sin_port)]

\* The name of a thread's socket.
NameOf(s) == [sin_port |-> sockets[s].sin_port, sin_addr |-> Loopback]

Known(s) == {AddressOf(t) : t \in User} \cup ({out_address[s]} \ {NoAddress})

\* socket_send_to, to the address of a thread or to where something came from.
\* A socket that is not bound is bound now; the datagram may be lost.
SendsTo(s) ==
  /\ At(s, "ready") /\ sockets[s].kind = "udp"
  /\ sockets' = IF sockets[s].sin_port = NoPort
                  THEN [sockets EXCEPT ![s].sin_port = Ephemeral[s]] ELSE sockets
  /\ \E address \in Known(s) :
       LET datagram == [by |-> s, from |-> NameOf(s)', to |-> ToWin32(address)]
           arrives  == {t \in User : sockets'[t].kind = "udp" /\ NameOf(t)' = datagram.to}
       IN  \/ /\ arrives # {} /\ Cardinality(wire) < MaxWire
              /\ wire' = wire \cup {datagram}
           \/ UNCHANGED wire
  /\ UNCHANGED <<socket_initialized, winsock, service, goal, out_address, sender,
                 links>>

\* socket_receive_from; without an out_address it is socket_receive.
ReceivesFrom(s) ==
  /\ At(s, "ready") /\ sockets[s].kind = "udp"
  /\ \E datagram \in wire :
       /\ datagram.to = NameOf(s)
       /\ wire' = wire \ {datagram}
       /\ \/ /\ out_address' = [out_address EXCEPT ![s] = FromWin32(datagram.from)]
             /\ sender' = [sender EXCEPT ![s] = datagram.by]
          \/ UNCHANGED <<out_address, sender>>
  /\ UNCHANGED <<socketVars, links>>

\* socket_connect: the server listens there, and nobody waits for it yet.
Connects(s) ==
  /\ At(s, "ready") /\ goal[s] = "tcp_socket"
  /\ \A l \in links : l.from # s
  /\ \E r, t \in User :
       /\ At(t, "ready") /\ goal[t] = "tcp_server"
       /\ NameOf(t) = ToWin32(AddressOf(r))
       /\ \A l \in links : l.to = t => l.accepted
       /\ links' = links \cup {[from |-> s, to |-> t, accepted |-> FALSE]}
  /\ UNCHANGED <<socketVars, wire, out_address, sender>>

\* socket_accept.
Accepts(t) ==
  /\ \E l \in links :
       /\ l.to = t /\ ~l.accepted
       /\ links' = (links \ {l}) \cup {[l EXCEPT !.accepted = TRUE]}
  /\ UNCHANGED <<socketVars, wire, out_address, sender>>

\* socket_close: what waits for the socket is gone with it, and with it the
\* connections, except those a server has accepted.
Closes(s) ==
  /\ SocketClosed(s)
  /\ wire' = {[d EXCEPT !.by = IF @ = s THEN Nobody ELSE @] :
                d \in {e \in wire : e.to # NameOf(s)}}
  /\ links' = {l \in links : l.from # s /\ (l.to = s => l.accepted)}
  /\ out_address' = [out_address EXCEPT ![s] = NoAddress]
  /\ sender' = [t \in User |-> IF s \in {t, sender[t]} THEN Nobody ELSE sender[t]]

Traffic(s) == SendsTo(s) \/ ReceivesFrom(s) \/ Connects(s) \/ Accepts(s)

-----------------------------------------------------------------------------
\* Although several threads may find the flag unset, none makes a socket before
\* Winsock has been started.  What a wrapper returns is what its name says, a
\* socket of that kind, and a server's is bound where clients send to, whatever
\* the byte order of machine and wire; or nothing, and then no socket is left
\* behind.  Who answers to the address socket_receive_from has stored reaches the
\* socket the datagram came from.
SocketsAreSound ==
  /\ socket_initialized => winsock > 0
  /\ \A s \in User :
       /\ At(s, "creating") => winsock > 0
       /\ At(s, "ready") =>
            /\ sockets[s].kind = KindOf(goal[s])
            /\ Binds(goal[s]) => ToWin32(AddressOf(s)) = NameOf(s)
       /\ At(s, "failed") => sockets[s] = NoSocket
       /\ sender[s] # Nobody => ToWin32(out_address[s]) = NameOf(sender[s])
===============================================================================
