------------------------------ MODULE ProxyChain ------------------------------
(***************************************************************************)
(* A chain of proxies.  Each connection of the chain is opened by a race   *)
(* or by TCP, then its two ends shake hands by SOCKS5, HTTP CONNECT or     *)
(* simplex; the engine of the proxy hands the endpoint it has accepted to  *)
(* its script, and the script to the connector of the next connection.     *)
(* One connection is looked at at a time: the one before it waits for this *)
(* one in its state "connecting".                                          *)
(*                                                                         *)
(* Either end of the first connection may be another program, which sends  *)
(* one of the scripts below and may close at any time.                     *)
(***************************************************************************)
EXTENDS Socks5, HttpConnector, Race

CONSTANTS
    Requests,  \* the endpoints asked for
    MaxHops,
    MaxData    \* bytes that an end sends through the tunnel

\* A domain or an IP address, and a port (of any size: nothing depends on it).
Endpoints == [kind : {"Domain", "Addr"}, host : Seq(TextByte), port : Nat]

\* An IP address as it is printed.
IsPrinted(text) == \E n \in 0 .. 9 : text \in {<<Digit(n), Dot>>, <<Colon, Colon, Digit(n)>>}

ASSUME RequestsAssumption ==
    \A r \in Requests : r \in Endpoints /\ (r.kind = "Addr" => IsPrinted(r.host))

allVars == <<vars, raceVars>>

-----------------------------------------------------------------------------
(* What other programs send. *)

\* Bytes of the tunnel, which a client or a proxy may send at once.
Tails == {<<>>, <<201>>}

\* A SOCKS5 client, in the form the address has.
Socks5Client(endpoint) ==
    LET host == endpoint.host
        address == IF endpoint.kind = "Domain" THEN <<3, Len(host)>> \o host
                   ELSE IF IsIpv4Text(host) THEN <<1, 127, 0, 0, host[1] - 48>>
                   ELSE <<4>> \o [i \in 1 .. 15 |-> 0] \o <<host[3] - 48>>
    IN  <<5, 2, 1, 0, 5, 1, 0>> \o address \o PortBytes(endpoint.port)

\* Clients that speak another version, or want what there is not.
Socks5BadClients ==
    { <<4, 1, 0>>, <<5, 0>>, <<5, 1, 2>>, <<5, 1, 0, 4, 1, 0, 1>>, <<5, 1, 0, 5, 2, 0, 1>>,
      <<5, 1, 0, 5, 1, 0, 2>>, <<5, 1, 0, 5, 1, 0, 3, 1, 255, 0, 80>>, <<5, 1, 0, 5, 1, 0, 1, 127>> }

Socks5Servers ==
    { <<5, 0, 5, 0, 0, 1, 0, 0, 0, 0, 0, 0>>, <<5, 0, 5, 0, 0, 3, 2, 100, 100, 0, 0>>,
      <<5, 0, 5, 0, 0, 4>> \o [i \in 1 .. 18 |-> 0] }

Socks5BadServers ==
    { <<4, 0>>, <<5, 255>>, <<5, 0, 4, 0, 0, 1>>, <<5, 0, 5, 5, 0, 1, 0, 0, 0, 0, 0, 0>>,
      <<5, 0, 5, 0, 1, 1>>, <<5, 0, 5, 0, 0, 2>>, <<5, 0, 5, 0, 0, 1, 0>> }

Servers(by) ==
    CASE by = "socks5" -> Socks5Servers [] by = "http" -> {Status(OK)} [] OTHER -> {Status(101)}

BadServers(by) ==
    IF by = "socks5" THEN Socks5BadServers ELSE {<<0>>, <<72>>, Status(BadRequest)}

-----------------------------------------------------------------------------
FirstRead(by) == IF by = "socks5" THEN "hello" ELSE "text"
FirstNeed(by) == [client |-> 0, server |-> IF by = "socks5" THEN 2 ELSE 0]

InitCommon ==
    /\ hop = 1
    /\ atyp = 0
    /\ accepted = NoEndpoint
    /\ closed = {}
    /\ buf = <<>>
    /\ protocol \in {"socks5", "http", "simplex"}
    /\ RaceInit

\* Both ends are the program's.
InitOurs ==
    /\ request \in Requests
    /\ origin = request
    /\ asked = NoText
    /\ pc = [client |-> "dialing", server |-> FirstRead(protocol)]
    /\ need = FirstNeed(protocol)
    /\ wire = [e \in End |-> <<>>]
    /\ granted = FALSE
    /\ data = [e \in End |-> <<>>]

\* Another client, which asks for origin, or for nothing that can be served.
InitOtherClient ==
    /\ request = NoEndpoint
    /\ pc = [client |-> "other", server |-> FirstRead(protocol)]
    /\ need = FirstNeed(protocol)
    /\ granted = FALSE
    /\ \E tail \in Tails :
         /\ data = [client |-> tail, server |-> <<>>]
         /\ \/ /\ origin \in {r \in Requests : Len(r.host) <= MaxLength}
               /\ protocol = "socks5"
               /\ asked = NoText
               /\ wire = [client |-> <<>>, server |-> Socks5Client(origin) \o tail]
            \/ /\ protocol = "socks5"
               /\ tail = <<>>
               /\ origin = NoEndpoint
               /\ asked = NoText
               /\ \E bad \in Socks5BadClients : wire = [client |-> <<>>, server |-> bad]
            \/ /\ origin \in Requests
               /\ protocol # "socks5"
               /\ tail = <<>>
               /\ asked = to_string(origin)
               /\ protocol = "simplex" => IsHeaderValue(asked)
               /\ wire = [e \in End |-> <<>>]

\* Another proxy.
InitOtherServer ==
    /\ request \in Requests
    /\ origin = request
    /\ asked = NoText
    /\ pc = [client |-> "start", server |-> "other"]
    /\ need = [e \in End |-> 0]
    /\ \E tail \in Tails :
         \/ /\ granted = TRUE
            /\ data = [client |-> <<>>, server |-> tail]
            /\ \E good \in Servers(protocol) : wire = [client |-> good \o tail, server |-> <<>>]
         \/ /\ granted = FALSE
            /\ tail = <<>>
            /\ data = [e \in End |-> <<>>]
            /\ \E bad \in BadServers(protocol) : wire = [client |-> bad, server |-> <<>>]

Init == InitCommon /\ (InitOurs \/ InitOtherClient \/ InitOtherServer)

-----------------------------------------------------------------------------
\* The transport of the connection: TCP (HappyEyeballs), or a race.
DialTcp ==
    /\ pc["client"] = "dialing"
    /\ race = "idle"
    /\ pc' = [pc EXCEPT !["client"] = "start"]
    /\ UNCHANGED <<chain, asked, accepted, atyp, need, wire, closed, buf, granted, data, raceVars>>

DialRacing ==
    /\ pc["client"] = "dialing"
    /\ \/ BeginSpeed
       \/ \E server \in Requests, with \in {"system", "hickory"} : BeginQuic(server, with)
       \/ Racing
    /\ UNCHANGED vars

\* The race is over, and the connector goes on with its connection or fails;
\* on a QUIC connection, open_bi may fail too.
Dialed ==
    /\ pc["client"] = "dialing"
    /\ race \in {"won", "lost", "panicked"}
    /\ \/ /\ race = "won"
          /\ pc' = [pc EXCEPT !["client"] = "start"] /\ UNCHANGED <<need, wire, closed>>
       \/ /\ race = "won" => resolver # "none"
          /\ Fails("client")
    /\ UNCHANGED <<chain, asked, accepted, atyp, buf, granted, data, raceVars>>

\* The script has the endpoint: it connects to the next proxy, by any protocol.
NextHop(by) ==
    /\ pc["server"] = "connecting"
    /\ hop < MaxHops
    /\ hop' = hop + 1
    /\ protocol' = by
    /\ request' = ThroughScript(accepted)
    /\ asked' = NoText
    /\ accepted' = NoEndpoint
    /\ atyp' = 0
    /\ pc' = [client |-> "start", server |-> FirstRead(by)]
    /\ need' = FirstNeed(by)
    /\ wire' = [e \in End |-> <<>>]
    /\ closed' = {}
    /\ buf' = <<>>
    /\ granted' = FALSE
    /\ data' = [e \in End |-> <<>>]
    /\ UNCHANGED <<origin, raceVars>>

\* The script fails, or connects to no one (block::connect): the engine drops
\* the connection, and no reply is sent.
Refuse ==
    /\ pc["server"] = "connecting"
    /\ Fails("server")
    /\ UNCHANGED <<chain, asked, accepted, atyp, buf, granted, data, raceVars>>

\* An end has something to say to the other, through the tunnel.
TunnelSend(e) ==
    /\ pc[e] = "tunnel"
    /\ Len(data[e]) < MaxData
    /\ LET byte == 201 + Len(data[e])
       IN  /\ data' = [data EXCEPT ![e] = Append(@, byte)]
           /\ wire' = [wire EXCEPT ![Peer(e)] = Append(@, byte)]
    /\ UNCHANGED <<chain, asked, accepted, atyp, pc, need, closed, buf, granted, raceVars>>

OtherCloses(e) ==
    /\ pc[e] = "other"
    /\ closed' = closed \cup {e}
    /\ UNCHANGED <<chain, asked, accepted, atyp, pc, need, wire, buf, granted, data, raceVars>>

Handshake == Socks5Acceptor \/ Socks5Connector \/ TextAcceptor \/ TextConnector
Gone == \E e \in End : PeerGone(e)

Next ==
    \/ Handshake /\ UNCHANGED raceVars
    \/ Gone /\ UNCHANGED raceVars
    \/ (\E e \in End : Dropped(e)) /\ UNCHANGED raceVars
    \/ DialTcp \/ DialRacing \/ Dialed
    \/ Refuse
    \/ \E by \in {"socks5", "http", "simplex"} : NextHop(by)
    \/ \E e \in End : TunnelSend(e) \/ OtherCloses(e)

(***************************************************************************)
(* Fairness: the tasks of the program go on when they can, and see when    *)
(* the other end is gone.  Nothing is assumed of other programs, of the    *)
(* attempts of a race, or of the engine's connection to the target.        *)
(***************************************************************************)
Fairness ==
    /\ WF_allVars(Socks5Connector /\ UNCHANGED raceVars)
    /\ WF_allVars(TextConnector /\ UNCHANGED raceVars)
    /\ WF_allVars((AcceptHello \/ AcceptMethods \/ AcceptRequest \/ AcceptLength \/ AcceptAddress
                    \/ AcceptPort \/ AcceptText \/ RefuseText \/ MisreadText) /\ UNCHANGED raceVars)
    /\ WF_allVars(Gone /\ UNCHANGED raceVars)
    /\ WF_allVars(pc["client"] = "dialing" /\ PollSelect /\ UNCHANGED vars)

Spec == Init /\ [][Next]_allVars /\ Fairness

-----------------------------------------------------------------------------
(***************************************************************************)
(* However many proxies the request goes through, and whatever form its    *)
(* address takes on the way (SOCKS5 sends addresses as names, a simplex    *)
(* header and CONNECT send text, the script parses text), each proxy is    *)
(* asked for the host and the port that the first client has named, and    *)
(* its script sees an IP address where there was one (hostname_is_ip) and  *)
(* a name where there was a name; only a name in brackets turns into the   *)
(* address within.  That is so for a name that is one word: nothing checks *)
(* that it is, and a line of text may be read as something else.  A        *)
(* request that names no endpoint is not accepted.                         *)
(***************************************************************************)
SameTarget ==
    pc["server"] \in {"connecting", "tunnel"} =>
      /\ accepted.kind # "none"
      /\ IsWord(origin.host) =>
           /\ Target(accepted) = Target(origin)
           /\ hostname_is_ip(accepted) = hostname_is_ip(origin) \/ IsBracketed(origin.host)

(***************************************************************************)
(* connect() of a connector returns a connection only when the proxy has   *)
(* said that it is connected.  The exception is the HTTP connector, whose  *)
(* loop also ends, and ends well, when the proxy closes the connection in  *)
(* the middle of its answer or before it.                                  *)
(***************************************************************************)
ConnectedOnlyWhenGranted ==
    pc["client"] = "tunnel" =>
      granted \/ (protocol = "http" /\ "server" \in closed /\ ~IsComplete(buf))

(***************************************************************************)
(* The handshake takes from the stream what belongs to it and no more: the *)
(* tunnel begins with the first byte that the other end has sent into it,  *)
(* though it may have come together with the handshake.  The exception is  *)
(* the HTTP connector, which drops what it has read behind the answer.     *)
(***************************************************************************)
TunnelIntact ==
    \A e \in End :
      pc[e] = "tunnel" =>
        LET surplus == IF e = "client" THEN SubSeq(buf, 3, Len(buf)) ELSE <<>>
        IN  surplus \o wire[e] = data[Peer(e)]

(***************************************************************************)
(* The program's connectors and its acceptors understand each other: none  *)
(* gives up on the other because of what it has sent, except that SOCKS5   *)
(* has no room for a long name, and that not every name is a URI for an    *)
(* HTTP proxy: one of other than ASCII characters is not, nor is an IPv6   *)
(* address which has become a name (by SOCKS5).                            *)
(***************************************************************************)
OursUnderstandOurs ==
    [][ ( /\ pc["client"] \notin {"other", "start"} /\ pc["server"] # "other"
          /\ Handshake
          /\ closed = {} /\ closed' # {} )
        => \/ protocol = "socks5" /\ Len(request.host) > MaxLength
           \/ protocol = "http" /\ ~IsUri(to_string(request)) ]_allVars

(***************************************************************************)
(* A handshake between the program's own ends never stops with each of     *)
(* them waiting for bytes of the other: the acceptor gets its endpoint,    *)
(* and the connector gets the answer, unless an end is dropped.            *)
(***************************************************************************)
HandshakeEnds ==
    /\ (Waiting("client") /\ pc["server"] # "other") ~>
         (pc["server"] = "connecting" \/ ~Waiting("client"))
    /\ (Waiting("client") /\ pc["server"] = "tunnel") ~> ~Waiting("client")

=============================================================================
