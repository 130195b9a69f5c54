-------------------------------- MODULE MCHyper --------------------------------
(***************************************************************************)
(* One accepted connection, of either of the two acceptors that are built  *)
(* on hyper: of HttpAcceptor or of SimplexServer.                          *)
(***************************************************************************)
EXTENDS HttpAcceptor, SimplexServer

VARIABLE acceptor  \* which of them it is

simplex == <<signal, remote, switched>>

Init == HttpInit /\ SimplexInit /\ acceptor \in {"http", "simplex"}

Next ==
    \/ acceptor = "http" /\ HttpNext /\ UNCHANGED <<simplex, acceptor>>
    \/ acceptor = "simplex" /\ SimplexNext /\ UNCHANGED <<proxy, acceptor>>

Spec == Init /\ [][Next]_<<http_vars, simplex, acceptor>>

Handshake ==
    INSTANCE Acceptor
    WITH NoEndpoint <- <<NoEndpoint, "none">>,
         endpoint <- <<target, SimplexEndpoint>>,
         phase <- IF acceptor = "http" THEN HttpPhase ELSE SimplexPhase

(***************************************************************************)
(* The acceptors are what the engine takes them for.  HTTP, with tunnels   *)
(* and proxy connections alike: the first request names the endpoint, for  *)
(* good, and is answered only after the engine has connected to it.        *)
(* simplex: one endpoint, and a switch of protocols only after the engine  *)
(* has connected to it.                                                    *)
(***************************************************************************)
HyperImplementsAcceptor == Handshake!Spec

=============================================================================
