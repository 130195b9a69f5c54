---------------------------- MODULE SimplexServer ----------------------------
(***************************************************************************)
(* handshake() of core/src/core/simplex/server.rs: hyper serves HTTP on an *)
(* accepted connection until one request asks, with the right path, secret *)
(* and endpoint, for an upgrade to a websocket.  The endpoint is given to  *)
(* the engine, which connects to it; only then is the upgrade answered,    *)
(* and what is left of the connection, with the bytes hyper has read too   *)
(* far, becomes the websocket's transport.                                 *)
(*                                                                         *)
(* The future of hyper ends with the unread bytes both after an upgrade    *)
(* and when the client closes.  A client sends requests and, for the       *)
(* websocket, bytes.  A request is one of three kinds:                     *)
(*   rejected  fails one of handler's checks,                              *)
(*   keyless   passes them, but upgrade_response has no key or version,    *)
(*   valid     is answered with 101.                                       *)
(***************************************************************************)
EXTENDS Hyper

Kind == {"rejected", "keyless", "valid", "byte"}
SimplexItem == [kind : Kind, n : 1 .. MaxItems]
IsUpgrade(item) == item.kind \in {"keyless", "valid"}

VARIABLES
    signal,         \* the UpgradeSignal has not been taken
    remote,         \* the engine has connected to the endpoint
    switched        \* the answer was 101

simplex_vars == <<connection, in_handler, stage, signal, remote, switched>>

SimplexTypeOK ==
    /\ {sent, socket, read_buf, served, tunnelled} \subseteq Seq(SimplexItem)
    /\ dropped = <<>>
    /\ {client_closed, signal, remote, switched} \subseteq BOOLEAN
    /\ in_handler \in {"nothing", "done"}
    /\ stage \in Stage
    /\ stage # "failed" => \A i \in DOMAIN served : served[i].kind # "byte"

SimplexInit ==
    /\ ConnectionInit
    /\ signal = TRUE
    /\ remote = FALSE
    /\ switched = FALSE

ClientSendsKind(kind) ==
    /\ Sends([kind |-> kind, n |-> Len(sent) + 1])
    /\ UNCHANGED <<signal, remote, switched>>

-----------------------------------------------------------------------------
(* handler, called by hyper. *)

\* A check fails; hide_error_handler answers as if this were a web server.
Reject ==
    \E r \in SimplexItem :
      /\ NextRequest(r)
      /\ r.kind = "rejected"
      /\ UNCHANGED <<in_handler, stage, signal, remote, switched>>

\* Mutant of TakeSignal: the done signal is there before the engine connects.
TakeSignalHasty ==
    \E r \in SimplexItem :
      /\ NextRequest(r)
      /\ IsUpgrade(r)
      /\ signal
      /\ signal' = FALSE
      /\ in_handler' = "done"
      /\ stage' = "serving"
      /\ UNCHANGED <<remote, switched>>

\* Take the signal, send the endpoint, wait for done_rx.  select! sees the
\* endpoint and handshake() returns.
TakeSignal ==
    \E r \in SimplexItem :
      /\ NextRequest(r)
      /\ IsUpgrade(r)
      /\ signal
      /\ signal' = FALSE
      /\ in_handler' = "done"
      /\ stage' = "connecting"
      /\ UNCHANGED <<remote, switched>>

\* The signal was taken before: expect() panics, and the task with it.
SignalTaken ==
    \E r \in SimplexItem :
      /\ NextRequest(r)
      /\ IsUpgrade(r)
      /\ ~signal
      /\ stage' = "panicked"
      /\ UNCHANGED <<in_handler, signal, remote, switched>>

\* What is not a request ends the connection with an error.
NotARequest ==
    \E item \in SimplexItem :
      /\ NextRequest(item)
      /\ item.kind = "byte"
      /\ stage' = "failed"
      /\ UNCHANGED <<in_handler, signal, remote, switched>>

-----------------------------------------------------------------------------
(* The future that handshake() returns. *)

\* done_tx.send(())
Done ==
    /\ RemoteConnects
    /\ remote' = TRUE
    /\ UNCHANGED <<signal, switched>>

\* Mutant of Upgrade: the websocket gets the io alone, without the read_buf.
UpgradeDropping ==
    /\ stage = "serving"
    /\ in_handler = "done"
    /\ in_handler' = "nothing"
    /\ read_buf' = <<>>
    /\ IF served[Len(served)].kind = "valid"
       THEN switched' = TRUE /\ stage' = "tunnel"
       ELSE UNCHANGED <<switched, stage>>
    /\ UNCHANGED <<sent, client_closed, socket, served, dropped, tunnelled, signal, remote>>

\* handler goes on after done_rx: upgrade_response.
Upgrade ==
    /\ stage = "serving"
    /\ in_handler = "done"
    /\ in_handler' = "nothing"
    /\ IF served[Len(served)].kind = "valid"
       THEN switched' = TRUE /\ stage' = "tunnel"
       ELSE UNCHANGED <<switched, stage>>
    /\ UNCHANGED <<connection, signal, remote>>

\* The client has closed and hyper is done: without an upgrade handshake()
\* fails, but the future it has returned takes this for the upgrade.
ConnFutEnds ==
    /\ ServiceEnds
    /\ stage' = IF stage = "handshaking" THEN "failed" ELSE "tunnel"

\* poll_read of ChainReadBufAndIo, into a buffer that has room for n.
ChainRead(n) ==
    /\ stage = "tunnel"
    /\ IF read_buf # <<>>
       THEN /\ n <= Len(read_buf)
            /\ tunnelled' = tunnelled \o SubSeq(read_buf, 1, n)
            /\ read_buf' = SubSeq(read_buf, n + 1, Len(read_buf))
            /\ UNCHANGED socket
       ELSE /\ n <= Len(socket)
            /\ tunnelled' = tunnelled \o SubSeq(socket, 1, n)
            /\ socket' = SubSeq(socket, n + 1, Len(socket))
            /\ UNCHANGED read_buf
    /\ UNCHANGED <<sent, client_closed, served, dropped, in_handler, stage>>

-----------------------------------------------------------------------------
\* What leaves the signal and the answer alone.
AroundHandler ==
    \/ ClientCloses \/ ReadAhead
    \/ RemoteFails \/ ClientGone \/ ConnFutEnds
    \/ \E n \in 1 .. MaxItems : ChainRead(n)

SimplexNext ==
    \/ \E kind \in Kind : ClientSendsKind(kind)
    \/ Reject \/ TakeSignal \/ SignalTaken \/ NotARequest
    \/ Done \/ Upgrade
    \/ AroundHandler /\ UNCHANGED <<signal, remote, switched>>

SimplexSpec == SimplexInit /\ [][SimplexNext]_simplex_vars

-----------------------------------------------------------------------------
(***************************************************************************)
(* The client is told to switch only when the engine has a connection to   *)
(* its target and the request is a valid one: whoever fails a check sees   *)
(* nothing but a web server, and a target that cannot be reached is never  *)
(* announced as a tunnel.                                                  *)
(***************************************************************************)
SwitchedOnlyWhenConnected ==
    switched => remote /\ served[Len(served)].kind = "valid"

(***************************************************************************)
(* What the expect() on the signal says: "there should be only one upgrade *)
(* request for one connection".                                            *)
(***************************************************************************)
OneUpgradeRequest == stage # "panicked"

(***************************************************************************)
(* When that expect() fails, the first upgrade request had no key: it was  *)
(* answered, after the engine had connected, and hyper went on serving.    *)
(***************************************************************************)
PanicsOnlyAfterKeyless ==
    stage = "panicked" =>
      remote /\ ~switched /\ \E i \in DOMAIN served : i < Len(served) /\ served[i].kind = "keyless"

\* What the engine sees of the connection.
SimplexEndpoint == IF signal THEN "none" ELSE "some"
SimplexPhase ==
    CASE stage = "handshaking" -> "handshaking"
      [] stage = "connecting" -> "connecting"
      [] stage = "serving" -> "connected"
      [] stage = "tunnel" /\ switched -> "answered"
      [] OTHER -> "ended"

SimplexHandshake ==
    INSTANCE Acceptor
    WITH NoEndpoint <- "none", endpoint <- SimplexEndpoint, phase <- SimplexPhase

(***************************************************************************)
(* The acceptor is what the engine takes it for: one endpoint, and a       *)
(* switch of protocols only after the engine has connected to it.          *)
(***************************************************************************)
SimplexImplementsAcceptor == SimplexHandshake!Spec

=============================================================================
