-------------------------------- MODULE Hyper ---------------------------------
(***************************************************************************)
(* What handshake() of core/src/core/acceptor/http.rs and handshake() of   *)
(* core/src/core/simplex/server.rs share.  hyper serves HTTP on an         *)
(* accepted connection: conn, in one step with the select! that polls it.  *)
(* When the handler of a request has sent an endpoint, handshake() returns *)
(* it, and nobody polls conn until the engine has connected to it; then    *)
(* the future that was returned with it sends done, and polls conn again.  *)
(*                                                                         *)
(* hyper is external: it serves one request at a time, reads ahead while   *)
(* it is polled, and gives back what it has read too far.  The client      *)
(* sends items, which are requests or bytes for the tunnel.                *)
(***************************************************************************)
EXTENDS Integers, Sequences

CONSTANT MaxItems  \* how many requests and bytes the client sends at most

ASSUME MaxItemsAssumption == MaxItems \in Nat

VARIABLES
    sent,           \* history: all that the client sent
    client_closed,
    socket,         \* what the server has not read
    read_buf,       \* what hyper has read and not served
    served,         \* history: the requests taken by hyper, the current one included
    dropped,        \* history: what hyper has read too far and nobody will read
    tunnelled,      \* history: what the tunnel has read
    in_handler,     \* what the handler of the last request of served waits for
    stage

connection == <<sent, client_closed, socket, read_buf, served, dropped, tunnelled>>

Stage == {"handshaking",  \* conn and endpoint_rx are polled by select!
          "connecting",   \* handshake() has returned the endpoint
          "serving",      \* conn is polled by the future or a task of its own
          "tunnel", "failed", "panicked"}

ConnectionInit ==
    /\ sent = <<>>
    /\ client_closed = FALSE
    /\ socket = <<>>
    /\ read_buf = <<>>
    /\ served = <<>>
    /\ dropped = <<>>
    /\ tunnelled = <<>>
    /\ in_handler = "nothing"
    /\ stage = "handshaking"

-----------------------------------------------------------------------------
(* The client. *)

Sends(item) ==
    /\ ~client_closed
    /\ stage \notin {"failed", "panicked"}
    /\ Len(sent) < MaxItems
    /\ sent' = Append(sent, item)
    /\ socket' = Append(socket, item)
    /\ UNCHANGED <<client_closed, read_buf, served, dropped, tunnelled, in_handler, stage>>

ClientCloses ==
    /\ ~client_closed
    /\ client_closed' = TRUE
    /\ UNCHANGED <<sent, socket, read_buf, served, dropped, tunnelled, in_handler, stage>>

-----------------------------------------------------------------------------
(* hyper, while conn is polled. *)

Serving == stage \in {"handshaking", "serving"}

ReadAhead ==
    /\ Serving
    /\ socket # <<>>
    /\ read_buf' = Append(read_buf, Head(socket))
    /\ socket' = Tail(socket)
    /\ UNCHANGED <<sent, client_closed, served, dropped, tunnelled, in_handler, stage>>

\* The next request of the buffer is served; the rest is up to its handler.
NextRequest(r) ==
    /\ Serving
    /\ in_handler = "nothing"
    /\ read_buf # <<>>
    /\ r = Head(read_buf)
    /\ read_buf' = Tail(read_buf)
    /\ served' = Append(served, r)
    /\ UNCHANGED <<sent, client_closed, socket, dropped, tunnelled>>

\* conn ends: the client has closed and every request was answered.
ServiceEnds ==
    /\ Serving
    /\ client_closed
    /\ in_handler = "nothing"
    /\ socket = <<>>
    /\ read_buf = <<>>
    /\ UNCHANGED <<connection, in_handler>>

Fails ==
    /\ stage' = "failed"
    /\ UNCHANGED <<connection, in_handler>>

\* The answer cannot be written, since the client is gone.
ClientGone ==
    /\ stage = "serving"
    /\ in_handler # "nothing"
    /\ client_closed
    /\ Fails

-----------------------------------------------------------------------------
(* The engine. *)

\* The target is connected: the future sends done and has conn polled again.
RemoteConnects ==
    /\ stage = "connecting"
    /\ stage' = "serving"
    /\ UNCHANGED <<connection, in_handler>>

\* The handler of the configuration fails: everything is dropped.
RemoteFails ==
    /\ stage = "connecting"
    /\ Fails

-----------------------------------------------------------------------------
(***************************************************************************)
(* Everything the client sends is accounted for, once and in order, on its *)
(* way from the socket through hyper's buffer to the handler and to the    *)
(* tunnel: the tunnel reads what follows the request that asked for it.    *)
(* server.rs gives the tunnel all that hyper has read too far; http.rs     *)
(* drops it, and so the tunnel begins behind what was dropped.             *)
(***************************************************************************)
NothingLost == sent = served \o (dropped \o tunnelled) \o read_buf \o socket

=============================================================================
