----------------------------- MODULE HttpAcceptor -----------------------------
(***************************************************************************)
(* handshake() of core/src/core/acceptor/http.rs: hyper serves an accepted *)
(* connection of an HTTP proxy.  The first request decides: after CONNECT  *)
(* the connection is a tunnel to the endpoint it names; after any other    *)
(* method it is a proxy connection, whose requests are forwarded to the    *)
(* host of the first one.  The endpoint goes to the engine, which connects *)
(* to it before the first request is answered or forwarded.                *)
(*                                                                         *)
(* conn ends with an error when handler returns one.  A client sends       *)
(* requests and, behind CONNECT, bytes for the tunnel; it may send both    *)
(* before its CONNECT is answered.                                         *)
(***************************************************************************)
EXTENDS Hyper

CONSTANTS
    Host, NoHost,  \* NoHost: the URI names no host (or, for CONNECT, no endpoint)
    Port

ASSUME HostAssumption == NoHost \notin Host /\ 80 \in Port

\* The URI of a request.  Without a path it cannot be forwarded.
Uri == [host : Host \cup {NoHost}, port : Port, path : BOOLEAN]

\* early: sent behind a CONNECT that had not been answered.
HttpItem ==
    [method : {"CONNECT", "GET", "bytes"}, uri : Uri, n : 1 .. MaxItems, early : BOOLEAN]

NoEndpoint == [host |-> NoHost, port |-> 0]

VARIABLES
    state,       \* State; "taken" is NotConnected(None)
    target,      \* the endpoint given to the engine and kept in State
    forwarded    \* history: the requests sent on

proxy == <<state, target, forwarded>>
http_vars == <<connection, in_handler, stage, proxy>>

HttpTypeOK ==
    /\ {sent, socket, read_buf, served, forwarded, dropped, tunnelled} \subseteq Seq(HttpItem)
    /\ client_closed \in BOOLEAN
    /\ in_handler \in {"nothing", "done", "response"}
    /\ state \in {"not_connected", "taken", "connected"}
    /\ target \in [host : Host, port : Port] \cup {NoEndpoint}
    /\ stage \in Stage \ {"panicked"}

HttpInit ==
    /\ ConnectionInit
    /\ state = "not_connected"
    /\ target = NoEndpoint
    /\ forwarded = <<>>

-----------------------------------------------------------------------------
(* The client. *)

ConnectSent == \E i \in DOMAIN sent : sent[i].method = "CONNECT"

ClientSends(method, uri) ==
    /\ stage = "tunnel" => method = "bytes"
    /\ method = "bytes" => ConnectSent
    /\ Sends([method |-> method, uri |-> uri, n |-> Len(sent) + 1,
              early |-> ConnectSent /\ stage # "tunnel"])
    /\ UNCHANGED proxy

-----------------------------------------------------------------------------
(* handler. *)

\* The request handler is called with.
request == Head(read_buf)

HandleRequest == NextRequest(request)

\* The endpoint of a request.  host() has no port, so from_str of the host
\* alone fails and the port is 80.
EndpointOf(r) ==
    [host |-> r.uri.host, port |-> IF r.method = "CONNECT" THEN r.uri.port ELSE 80]

\* transform_proxy_request returns None without a path.
Forwardable(r) == r.uri.path

\* The first request: take the signal, send the endpoint, wait for done_rx.
SendEndpoint ==
    /\ HandleRequest
    /\ state = "not_connected"
    /\ request.uri.host # NoHost
    /\ state' = "taken"
    /\ target' = EndpointOf(request)
    /\ in_handler' = "done"
    /\ stage' = "connecting"
    /\ UNCHANGED forwarded

\* Mutant of NoEndpointGiven: the error is answered, and conn goes on.
NoEndpointForgiven ==
    /\ HandleRequest
    /\ state = "not_connected"
    /\ request.uri.host = NoHost
    /\ state' = "taken"
    /\ UNCHANGED <<stage, in_handler, target, forwarded>>

\* The first request names no endpoint: the signal is gone and so is conn.
NoEndpointGiven ==
    /\ HandleRequest
    /\ state = "not_connected"
    /\ request.uri.host = NoHost
    /\ state' = "taken"
    /\ stage' = "failed"
    /\ UNCHANGED <<in_handler, target, forwarded>>

\* Mutant of MayFollow: the host is not compared.
MayFollowAnywhere(r) == r.method = "GET" /\ Forwardable(r)

\* Mutant of MayFollow: CONNECT is not told apart.
MayFollowByAnyMethod(r) == EndpointOf(r) = target /\ Forwardable(r)

\* A later request that may be forwarded: it is not CONNECT, and it has the
\* host of the first one.
MayFollow(r) == r.method = "GET" /\ EndpointOf(r) = target /\ Forwardable(r)

ForwardNext ==
    /\ HandleRequest
    /\ state = "connected"
    /\ MayFollow(request)
    /\ forwarded' = Append(forwarded, request)
    /\ in_handler' = "response"
    /\ UNCHANGED <<state, target, stage>>

\* The target has closed: send_request.ready() fails.
NotReady ==
    /\ HandleRequest
    /\ state = "connected"
    /\ MayFollow(request)
    /\ stage' = "failed"
    /\ UNCHANGED <<in_handler, proxy>>

\* The other errors of handler in state Connected.
RefuseNext ==
    /\ HandleRequest
    /\ state = "connected"
    /\ ~MayFollow(request)
    /\ stage' = "failed"
    /\ UNCHANGED <<in_handler, proxy>>

-----------------------------------------------------------------------------
(* handler after done_rx, and the target. *)

first == served[Len(served)]

\* Mutant of AnswerConnect: the connection is a tunnel after any first request.
AnswerAny ==
    /\ stage = "serving"
    /\ in_handler = "done"
    /\ in_handler' = "nothing"
    /\ stage' = "tunnel"
    /\ read_buf' = <<>>
    /\ dropped' = read_buf
    /\ UNCHANGED <<sent, socket, client_closed, served, tunnelled, proxy>>

\* CONNECT is answered and conn ends: the tunnel is its io, without its
\* read_buf.
AnswerConnect ==
    /\ stage = "serving"
    /\ in_handler = "done"
    /\ first.method = "CONNECT"
    /\ in_handler' = "nothing"
    /\ stage' = "tunnel"
    /\ read_buf' = <<>>
    /\ dropped' = read_buf
    /\ UNCHANGED <<sent, socket, client_closed, served, tunnelled, proxy>>

ForwardFirst ==
    /\ stage = "serving"
    /\ in_handler = "done"
    /\ first.method # "CONNECT"
    /\ IF Forwardable(first)
       THEN /\ forwarded' = Append(forwarded, first)
            /\ state' = "connected"
            /\ in_handler' = "response"
            /\ UNCHANGED stage
       ELSE /\ stage' = "failed"
            /\ UNCHANGED <<forwarded, state, in_handler>>
    /\ UNCHANGED <<connection, target>>

RemoteResponds ==
    /\ stage = "serving"
    /\ in_handler = "response"
    /\ in_handler' = "nothing"
    /\ UNCHANGED <<connection, stage>>

\* The target closes before it responds: response_fut fails.
RemoteCloses ==
    /\ stage = "serving"
    /\ in_handler = "response"
    /\ Fails

\* The client has closed: a proxy connection is over, and without a request
\* handshake() fails.
ConnectionEnds == ServiceEnds /\ stage' = "failed"

TunnelReads ==
    /\ stage = "tunnel"
    /\ socket # <<>>
    /\ tunnelled' = Append(tunnelled, Head(socket))
    /\ socket' = Tail(socket)
    /\ UNCHANGED <<sent, client_closed, read_buf, served, dropped, in_handler, stage>>

-----------------------------------------------------------------------------
\* The body of handler up to its first await that waits for another task.
handler == SendEndpoint \/ NoEndpointGiven \/ ForwardNext \/ NotReady \/ RefuseNext

\* What leaves the state of handler alone.
Around ==
    \/ ClientCloses \/ ReadAhead
    \/ RemoteConnects \/ RemoteFails \/ RemoteResponds \/ RemoteCloses
    \/ ClientGone \/ ConnectionEnds
    \/ TunnelReads

HttpNext ==
    \/ \E method \in {"CONNECT", "GET", "bytes"}, uri \in Uri : ClientSends(method, uri)
    \/ handler \/ AnswerConnect \/ ForwardFirst
    \/ Around /\ UNCHANGED proxy

HttpSpec == HttpInit /\ [][HttpNext]_http_vars

-----------------------------------------------------------------------------
(***************************************************************************)
(* The unreachable!() of handler is: no request is handled in state        *)
(* NotConnected(None), although errors after signal.take() leave that      *)
(* state behind, because every such error ends the connection.             *)
(***************************************************************************)
SignalNeverMissing ==
    Serving /\ in_handler = "nothing" => state # "taken"

(***************************************************************************)
(* Every request that is forwarded goes to its own host, and in the order  *)
(* it came: one connection to a target never carries requests for another. *)
(***************************************************************************)
ForwardedToItsHost ==
    /\ \A i \in DOMAIN forwarded : EndpointOf(forwarded[i]) = target
    /\ \A i, j \in DOMAIN forwarded : i < j => forwarded[i].n < forwarded[j].n

(***************************************************************************)
(* A connection is a tunnel or a proxy connection, never both: CONNECT     *)
(* after a forwarded request is refused.                                   *)
(***************************************************************************)
TunnelOrProxy ==
    /\ stage = "tunnel" => forwarded = <<>>
    /\ forwarded # <<>> => \A i \in DOMAIN forwarded : forwarded[i].method = "GET"
    /\ target # NoEndpoint /\ served[1].method = "CONNECT" => Len(served) = 1

(***************************************************************************)
(* conn is taken apart without its read_buf once CONNECT is answered.  All *)
(* that is lost with it was sent behind a CONNECT that had no answer yet:  *)
(* a client that waits for the answer, and one that never sends CONNECT    *)
(* but has several requests under way, lose nothing.                       *)
(***************************************************************************)
DropsOnlyEarly == \A i \in DOMAIN dropped : dropped[i].early

\* The client has the answer to its first request.
FirstAnswered == stage = "tunnel" \/ in_handler = "nothing" \/ Len(forwarded) > 1

\* What the engine sees of the connection.
HttpPhase ==
    CASE stage = "handshaking" -> "handshaking"
      [] stage = "connecting" -> "connecting"
      [] stage = "failed" -> "ended"
      [] OTHER -> IF FirstAnswered THEN "answered" ELSE "connected"

HttpHandshake == INSTANCE Acceptor WITH endpoint <- target, phase <- HttpPhase

(***************************************************************************)
(* The acceptor is what the engine takes it for, with tunnels and proxy    *)
(* connections alike: the first request names the endpoint, for good, and  *)
(* is answered only after the engine has connected to it.                  *)
(***************************************************************************)
HttpImplementsAcceptor == HttpHandshake!Spec

=============================================================================
