------------------------------ MODULE MCServices ------------------------------
(* Two threads that may each want any socket, one after the other. *)
EXTENDS Services

MCKinds == {"udp_server", "tcp_server", "udp_client", "tcp_client",
            "tcp_socket"}
MCWanted == [t \in {"server", "client"} |-> MCKinds]

\* The ports of setup.c, 55555 and 55551, and two that Windows has chosen.
MCPortOf    == [t \in User |-> IF t = "server" THEN <<217, 3>> ELSE <<216, 255>>]
MCEphemeral == [t \in User |-> IF t = "server" THEN <<1, 192>> ELSE <<2, 192>>]
===============================================================================
