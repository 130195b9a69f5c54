-------------------------------- MODULE Stream --------------------------------
(***************************************************************************)
(* The connection between a connector and the proxy it talks to: the       *)
(* state both ends share, and what read_exact, write_all and dropping the  *)
(* connection do to it.  Socks5 and HttpConnector are the handshakes over  *)
(* it; ProxyChain puts one such connection behind another.                 *)
(*                                                                         *)
(* An end is the program's own code, or "other": any client or proxy.      *)
(***************************************************************************)
EXTENDS Endpoint

VARIABLES
    origin,    \* history: the endpoint that the first client of the chain asks for
    hop,       \* which connection of the chain this is
    protocol,  \* of the connection
    request,   \* the endpoint the connector is called with
    asked,     \* the endpoint as printed in a CONNECT request or a header
    accepted,  \* the endpoint that the proxy has made of what it was sent
    atyp,      \* the address type of a SOCKS5 request
    pc,        \* where each end is
    need,      \* the bytes that the read_exact of an end waits for
    wire,      \* the bytes on their way to an end
    closed,    \* the ends that have dropped the connection
    buf,       \* of the HTTP connector
    granted,   \* history: the proxy has answered that it is connected
    data       \* history: the bytes each end has sent through the tunnel

vars == <<origin, hop, protocol, request, asked, accepted, atyp, pc, need, wire, closed,
          buf, granted, data>>
chain == <<origin, hop, protocol, request>>

NoText == [host |-> <<>>, port |-> 0]
End == {"client", "server"}
Peer(e) == IF e = "client" THEN "server" ELSE "client"

\* An end that is in its handshake, and waits for the other.
Waiting(e) ==
    pc[e] \notin {"dialing", "start", "connecting", "tunnel", "failed", "other"}

-----------------------------------------------------------------------------
\* The bytes read by the read_exact that end e waits in.
Read(e) == SubSeq(wire[e], 1, need[e])

\* End e is at the read_exact named at, which has its bytes.
Reads(e, at) == pc[e] = at /\ Len(wire[e]) >= need[e]

\* After that, e writes out and goes to the read_exact named to, for n bytes.
Goes(e, to, n, out) ==
    /\ pc' = [pc EXCEPT ![e] = to]
    /\ need' = [need EXCEPT ![e] = n]
    /\ wire' = [wire EXCEPT ![e] = SubSeq(@, need[e] + 1, Len(@)), ![Peer(e)] = @ \o out]
    /\ UNCHANGED closed

\* An error: the future ends and drops the connection.
Fails(e) ==
    /\ pc' = [pc EXCEPT ![e] = "failed"]
    /\ need' = [need EXCEPT ![e] = 0]
    /\ closed' = closed \cup {e}
    /\ UNCHANGED wire

\* ensure!, or a bail! in the other case.
Ensure(condition, e, to, n, out) == IF condition THEN Goes(e, to, n, out) ELSE Fails(e)

\* A read ends early, or a read or a write fails, as the other end is gone.
PeerGone(e) ==
    /\ Waiting(e)
    /\ Peer(e) \in closed
    /\ Fails(e)
    /\ UNCHANGED <<chain, asked, accepted, atyp, buf, granted, data>>

\* The task is dropped, with all others, when the engine stops.
Dropped(e) ==
    /\ Waiting(e)
    /\ Fails(e)
    /\ UNCHANGED <<chain, asked, accepted, atyp, buf, granted, data>>

=============================================================================
