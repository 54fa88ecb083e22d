----------------------------- MODULE MCGameServer -----------------------------
(* The two services of the game, at the port of setup.c. *)
EXTENDS GameServer

MCWanted == [s \in User |-> {IF s = "server" THEN "udp_server" ELSE "udp_client"}]

\* 55555
MCPortOf == [s \in User |-> <<217, 3>>]
===============================================================================
