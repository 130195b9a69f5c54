--------------------------- MODULE HandshakeProofs ---------------------------
(***************************************************************************)
(* The tunnel through a chain of proxies, the steps of the SOCKS5          *)
(* connector and those of the handshakes that carry text.  Each of them    *)
(* keeps the invariant of ChainInvariant.                                  *)
(***************************************************************************)
EXTENDS ChainInvariant

-----------------------------------------------------------------------------
(* The tunnel. *)

\* The parts of the answers.
LEMMA StatusParts ==
    ASSUME NEW code \in Nat
    PROVE  /\ Status(code) \in Bytes /\ Len(Status(code)) = 2
           /\ Status(code)[1] = 72 /\ Status(code)[2] = code
BY DEF Status, Bytes

\* The acceptor sends through the tunnel what the connector may not have come to yet.
LEMMA ServerSends ==
    ASSUME Inv, pc["server"] = "tunnel", granted, OursClient, NEW p \in Bytes,
           UNCHANGED <<protocol, pc, need, closed, buf, granted>>,
           data'["server"] = Cat(data["server"], p), wire'["client"] = Cat(wire["client"], p)
    PROVE  /\ protocol = "socks5" => ConnectorReads'
           /\ protocol = "http" /\ pc["client"] # "failed" => ConnectReads'
           /\ protocol = "simplex" => UpgradeReads'
<1> USE BothEnds
<1> DEFINE w == wire["client"]
           d == data["server"]
           c == pc["client"]
           n == need["client"]
<1>1. w \in Bytes /\ d \in Bytes /\ n \in Nat /\ buf \in Bytes
  BY DEF Inv, Types
<1>2. Len(w) \in Nat /\ Len(p) \in Nat /\ Len(Cat(w, p)) = Len(w) + Len(p)
  BY <1>1, BytesParts, Zenon
<1>3. OursServer
  BY DEF OursServer
<1>4. ASSUME NEW k \in Nat, k <= Len(w)
      PROVE  Behind(Cat(w, p), k) = Cat(Behind(w, k), p)
  BY <1>1, <1>2, <1>4, BehindCat DEF Bytes
<1>5. wire'["client"] = Cat(w, p) /\ data'["server"] = Cat(d, p)
      /\ UNCHANGED <<protocol, pc, need, closed, buf, granted>>
  OBVIOUS
<1>6. ASSUME protocol = "socks5" PROVE ConnectorReads'
  <2>1. ConnectorReads /\ InStep
    BY <1>3, <1>6 DEF Inv, Handshakes
  <2>2. c \notin {"dialing", "start", "method"}
    BY <2>1 DEF InStep
  <2>3. /\ c = "reply" => n = 4 /\ IsReply(w, d)
        /\ c = "reply_length" => n = 1 /\ Len(w) >= 1 /\ Len(w) >= w[1] + 3
                                 /\ Behind(w, w[1] + 3) = d
        /\ c = "reply_rest" => Len(w) >= n /\ Behind(w, n) = d
        /\ c = "tunnel" => w = d
    BY <2>1 DEF ConnectorReads
  <2> HIDE DEF w, d, c, n
  <2>4. c = "reply" => IsReply(Cat(w, p), Cat(d, p))
    BY <1>1, <2>3, ReplyCat
  <2>5. ASSUME c = "reply_length"
        PROVE  /\ Len(Cat(w, p)) >= 1 /\ Len(Cat(w, p)) >= Cat(w, p)[1] + 3
               /\ Behind(Cat(w, p), Cat(w, p)[1] + 3) = Cat(d, p)
    <3>1. Len(w) >= 1 /\ Len(w) >= w[1] + 3 /\ Behind(w, w[1] + 3) = d
      BY <2>3, <2>5
    <3>2. 1 \in 1 .. Len(w)
      BY <1>2, <3>1
    <3>3. Cat(w, p)[1] = w[1]
      BY <1>1, <3>2, BytesFirst
    <3>4. w[1] \in Nat
      BY <1>1, <3>2 DEF Bytes
    <3>5. w[1] + 3 \in Nat /\ w[1] + 3 <= Len(w)
      BY <1>2, <3>1, <3>4
    <3>6. Behind(Cat(w, p), w[1] + 3) = Cat(d, p)
      BY <1>4, <3>1, <3>5
    <3>7. Len(Cat(w, p)) >= 1 /\ Len(Cat(w, p)) >= w[1] + 3
      BY <1>2, <3>1, <3>4
    <3> QED BY <3>3, <3>6, <3>7, Zenon
  <2>6. ASSUME c = "reply_rest"
        PROVE  Len(Cat(w, p)) >= n /\ Behind(Cat(w, p), n) = Cat(d, p)
    <3>1. Len(w) >= n /\ Behind(w, n) = d
      BY <2>3, <2>6
    <3>2. Behind(Cat(w, p), n) = Cat(d, p)
      BY <1>1, <1>2, <1>4, <3>1
    <3> QED BY <1>1, <1>2, <3>1, <3>2
  <2>7. pc'["client"] = c /\ need'["client"] = n /\ granted'
    BY <1>5 DEF c, n
  <2> QED BY <1>5, <2>2, <2>3, <2>4, <2>5, <2>6, <2>7 DEF ConnectorReads
<1>7. ASSUME NEW b \in Bytes, NEW code \in Nat, Cat(b, w) = Cat(Status(code), d)
      PROVE  Cat(b, Cat(w, p)) = Cat(Status(code), Cat(d, p))
  <2>1. Status(code) \in Bytes
    BY StatusParts
  <2> HIDE DEF w, d
  <2>2. /\ Cat(Cat(b, w), p) = Cat(b, Cat(w, p))
        /\ Cat(Cat(Status(code), d), p) = Cat(Status(code), Cat(d, p))
    BY <1>1, <2>1, CatAssociative DEF Bytes
  <2> QED BY <1>7, <2>2, Zenon
<1>8. ASSUME protocol = "http", pc["client"] # "failed" PROVE ConnectReads'
  <2>1. ConnectReads /\ OK \in Nat
    BY <1>8 DEF Inv, Handshakes, OK
  <2>2. Cat(buf, w) = Cat(Status(OK), d)
    BY <2>1 DEF ConnectReads, Answered
  <2> HIDE DEF w, d
  <2>3. Cat(buf, Cat(w, p)) = Cat(Status(OK), Cat(d, p))
    BY <1>1, <1>7, <2>1, <2>2
  <2>4. Cat(buf, wire["client"])' = Cat(Status(OK), Cat(d, p))
    BY <1>5, <2>3, Zenon
  <2>5. Answered(Cat(buf, wire["client"]), OK)'
    BY <1>5, <2>4 DEF Answered
  <2> QED BY <1>5, <2>1, <2>5 DEF ConnectReads
<1>9. ASSUME protocol = "simplex" PROVE UpgradeReads'
  <2>1. UpgradeReads
    BY <1>9 DEF Inv, Handshakes
  <2>2. c \in {"dialing", "start", "upgrade"} => w = Cat(Status(101), d)
    BY <2>1 DEF UpgradeReads, Answered
  <2>3. c = "tunnel" => w = d
    BY <2>1 DEF UpgradeReads
  <2>4. Status(101) \in Bytes
    BY StatusParts
  <2> HIDE DEF w, d
  <2>5. Cat(Cat(Status(101), d), p) = Cat(Status(101), Cat(d, p))
    BY <1>1, <2>4, CatAssociative DEF Bytes
  <2>6. c \in {"dialing", "start", "upgrade"} => Answered(wire["client"], 101)'
    BY <1>5, <2>2, <2>5 DEF Answered
  <2> QED BY <1>5, <2>1, <2>3, <2>6 DEF UpgradeReads
<1> QED BY <1>6, <1>8, <1>9

\* An end sends through the tunnel.
LEMMA TunnelSendKeeps == ASSUME Inv, NEW e \in End, TunnelSend(e) PROVE Inv'
<1> USE BothEnds
<1>1. /\ pc[e] = "tunnel"
      /\ UNCHANGED <<chain, asked, accepted, atyp, pc, need, closed, buf, granted>>
  BY DEF TunnelSend
<1>2. UNCHANGED <<origin, hop, protocol, request>>
  BY <1>1 DEF chain
<1>3. (OursClient' <=> OursClient) /\ (OursServer' <=> OursServer)
  BY <1>1 DEF OursClient, OursServer
<1>4. PICK p \in Bytes :
        /\ data' \in [End -> Bytes] /\ wire' \in [End -> Bytes]
        /\ data'[e] = Cat(data[e], p) /\ data'[Peer(e)] = data[Peer(e)]
        /\ wire'[Peer(e)] = Cat(wire[Peer(e)], p) /\ wire'[e] = wire[e]
  BY SendsByte
<1>5. Types'
  BY <1>1, <1>2, <1>3, <1>4 DEF Inv, Types
<1>6. Ends'
  BY <1>1, <1>2, <1>3, <1>4 DEF Inv, Ends
<1>7. Chain'
  BY <1>2, <1>3, SameChain DEF Inv
<1>8. Wanted' = Wanted /\ (BadClient' <=> BadClient)
  BY <1>2, <1>3 DEF Wanted, BadClient
<1>9. CASE e = "client"
  <2>1. /\ pc["client"] = "tunnel" /\ OursClient
        /\ data'["server"] = data["server"] /\ wire'["client"] = wire["client"]
        /\ data'["client"] = Cat(data["client"], p) /\ wire'["server"] = Cat(wire["server"], p)
    BY <1>1, <1>4, <1>9 DEF OursClient
  <2>2. (ConnectorReads => ConnectorReads') /\ (ConnectorReadsBad => ConnectorReadsBad')
    BY <1>1, <2>1, SameConnector
  <2>3. (ConnectReads => ConnectReads') /\ (UpgradeReads => UpgradeReads')
    BY ZenonT(30), <1>1, <1>3, <2>1, SameTextConnector
  <2>4. TextAccepted => TextAccepted'
    BY ZenonT(30), <1>1, <1>2, <1>8, <2>1 DEF TextAccepted, ReadAs
  <2>5. InStep'
    BY <1>1, <2>1 DEF InStep
  <2>6. protocol = "socks5" /\ OursServer => AcceptorReads'
    <3> SUFFICES ASSUME protocol = "socks5", OursServer PROVE AcceptorReads'
      OBVIOUS
    <3>1. ~BadClient /\ AcceptorReads /\ ConnectorReads
      BY <2>1 DEF BadClient, Inv, Handshakes
    <3>2. pc["server"] = "tunnel"
      BY <2>1, <3>1 DEF ConnectorReads, Inv, Ends
    <3>3. Understood' = Understood
      <4>1. Type' = Type
        BY <1>2, <1>3 DEF Type
      <4> QED BY <1>8, <4>1 DEF Understood
    <3> QED BY <1>1, <1>8, <2>1, <3>1, <3>2, <3>3 DEF AcceptorReads
  <2>7. ~BadClient
    BY <2>1 DEF BadClient
  <2>8. Handshakes'
    BY <1>1, <1>2, <1>3, <1>8, <2>1, <2>2, <2>3, <2>4, <2>5, <2>6, <2>7 DEF Inv, Handshakes
  <2> QED BY <1>5, <1>6, <1>7, <2>8 DEF Inv
<1>10. CASE e = "server"
  <2>1. /\ pc["server"] = "tunnel" /\ OursServer
        /\ data'["client"] = data["client"] /\ wire'["server"] = wire["server"]
        /\ data'["server"] = Cat(data["server"], p) /\ wire'["client"] = Cat(wire["client"], p)
    BY <1>1, <1>4, <1>10 DEF OursServer
  <2>2. granted
    BY <2>1 DEF Inv, Ends
  <2>3. (AcceptorReads => AcceptorReads') /\ (AcceptorReadsBad => AcceptorReadsBad')
    BY ZenonT(30), <1>1, <1>2, <1>3, <2>1, SameAcceptor
  <2>4. TextAccepted => TextAccepted'
    BY ZenonT(30), <1>1, <1>2, <1>8, <2>1 DEF TextAccepted, ReadAs
  <2>5. InStep => InStep'
    BY ZenonT(30), <1>1, <2>1 DEF InStep
  <2>6. OursClient =>
          /\ protocol = "socks5" => ConnectorReads'
          /\ protocol = "http" /\ pc["client"] # "failed" => ConnectReads'
          /\ protocol = "simplex" => UpgradeReads'
    BY ZenonT(30), <1>1, <1>2, <2>1, <2>2, ServerSends
  <2>7. Handshakes'
    BY <1>1, <1>2, <1>3, <1>8, <2>1, <2>3, <2>4, <2>5, <2>6 DEF Inv, Handshakes
  <2> QED BY <1>5, <1>6, <1>7, <2>7 DEF Inv
<1> QED BY <1>9, <1>10

-----------------------------------------------------------------------------
(* The steps of the SOCKS5 connector. *)

\* A connector of the program knows which proxy it has.
LEMMA ConnectorOf ==
    ASSUME Inv, protocol = "socks5", OursClient
    PROVE  /\ OursServer \/ granted => ConnectorReads
           /\ ~(OursServer \/ granted) => ConnectorReadsBad
           /\ OursServer => InStep /\ AcceptorReads
           /\ ~BadClient
           /\ wire["server"] \in Bytes /\ need["server"] \in Nat
           /\ wire["client"] \in Bytes /\ need["client"] \in Nat
BY BothEnds DEF Inv, Handshakes, BadClient, Types

\* What is known when the connector has the bytes it waits for.
LEMMA ConnectorAt ==
    ASSUME Inv, NEW at \in {"method", "reply", "reply_length", "reply_rest"},
           Reads("client", at)
    PROVE  /\ pc["client"] = at /\ need["client"] <= Len(wire["client"])
           /\ protocol = "socks5" /\ OursClient
           /\ OursServer \/ granted => ConnectorReads
           /\ ~(OursServer \/ granted) => ConnectorReadsBad
           /\ OursServer => InStep /\ AcceptorReads
           /\ ~BadClient
           /\ wire["client"] \in Bytes /\ need["client"] \in Nat
           /\ wire["server"] \in Bytes
           /\ Read("client") = SubSeq(wire["client"], 1, need["client"])
           /\ Read("client") \in Bytes /\ Len(Read("client")) = need["client"]
           /\ \A i \in 1 .. need["client"] :
                Read("client")[i] = wire["client"][i] /\ wire["client"][i] \in Nat
<1> USE BothEnds
<1>1. pc["client"] = at /\ need["client"] <= Len(wire["client"])
  <2>1. wire["client"] \in Bytes /\ need["client"] \in Nat
    BY DEF Inv, Types
  <2> QED BY <2>1, BytesParts DEF Reads
<1>2. protocol = "socks5" /\ OursClient
  BY <1>1 DEF Inv, Types, OursClient
<1>3. Read("client") = SubSeq(wire["client"], 1, need["client"])
  BY DEF Read
<1>4. /\ OursServer \/ granted => ConnectorReads
      /\ ~(OursServer \/ granted) => ConnectorReadsBad
      /\ OursServer => InStep /\ AcceptorReads
      /\ ~BadClient
      /\ wire["client"] \in Bytes /\ need["client"] \in Nat
      /\ wire["server"] \in Bytes
  BY <1>2, ConnectorOf
<1>5. /\ Read("client") \in Bytes /\ Len(Read("client")) = need["client"]
      /\ \A i \in 1 .. need["client"] :
           Read("client")[i] = wire["client"][i] /\ wire["client"][i] \in Nat
  <2>1. PICK w \in Bytes, n \in Nat : w = wire["client"] /\ n = need["client"] /\ n <= Len(w)
    BY <1>1, <1>4, Zenon
  <2>2. /\ SubSeq(w, 1, n) \in Bytes /\ Len(SubSeq(w, 1, n)) = n
        /\ \A i \in 1 .. n : SubSeq(w, 1, n)[i] = w[i] /\ w[i] \in Nat
    BY <2>1, BytesRead
  <2> QED BY <1>3, <2>1, <2>2, Zenon
<1> QED BY <1>1, <1>2, <1>3, <1>4, <1>5, Zenon

\* A step that only reads.
LEMMA ConnectorStep ==
    ASSUME Inv, protocol = "socks5", pc["client"] \in {"reply", "reply_length", "reply_rest"},
           UNCHANGED <<chain, accepted, atyp, buf, granted, data>>,
           need["client"] <= Len(wire["client"]),
           NEW to \in {"reply_length", "reply_rest", "tunnel"}, NEW n \in Nat,
           Goes("client", to, n, <<>>),
           OursServer \/ granted => ConnectorReads',
           ~(OursServer \/ granted) => ConnectorReadsBad'
    PROVE  Inv'
<1> USE BothEnds
<1>1. to \in Place
  BY DEF Place
<1>2. /\ pc' \in [End -> Place] /\ need' \in [End -> Nat] /\ wire' \in [End -> Bytes]
      /\ closed' = closed
      /\ pc'["client"] = to /\ pc'["server"] = pc["server"]
      /\ need'["client"] = n /\ need'["server"] = need["server"]
      /\ wire'["server"] = wire["server"]
  BY <1>1, ReadsOn DEF Inv
<1>3. UNCHANGED <<origin, hop, protocol, request>>
  BY DEF chain
<1>4. (OursServer' <=> OursServer) /\ OursClient /\ OursClient'
  BY <1>2 DEF OursClient, OursServer
<1>5. Types'
  BY <1>2, <1>3, <1>4 DEF Inv, Types
<1>6. Ends'
  BY <1>2, <1>3, <1>4 DEF Inv, Ends
<1>7. Chain'
  BY <1>3, <1>4, SameChain DEF Inv
<1>8. BadClient' <=> BadClient
  BY <1>3, <1>4 DEF BadClient
<1>9. /\ AcceptorReads => AcceptorReads'
      /\ AcceptorReadsBad => AcceptorReadsBad'
  BY <1>2, <1>3, <1>4, SameAcceptor
<1>10. InStep'
  BY <1>2 DEF InStep
<1>11. Handshakes'
  BY <1>3, <1>4, <1>8, <1>9, <1>10 DEF Inv, Handshakes
<1> QED BY <1>5, <1>6, <1>7, <1>11 DEF Inv

\* The proxies that grant nothing.
LEMMA BadServerParts ==
    ASSUME NEW bad \in Socks5BadServers
    PROVE  /\ bad \in Bytes /\ Len(bad) \in 2 .. 12
           /\ bad[1] = 5 /\ bad[2] = 0 /\ Len(bad) >= 6
                /\ bad[3] = 5 /\ bad[4] = 0 /\ bad[5] = 0 /\ bad[6] \in {1, 3, 4} =>
                bad = <<5, 0, 5, 0, 0, 1, 0>>
<1>1. CASE bad = <<4, 0>>
  BY <1>1 DEF Bytes
<1>2. CASE bad = <<5, 255>>
  BY <1>2 DEF Bytes
<1>3. CASE bad = <<5, 0, 4, 0, 0, 1>>
  BY <1>3 DEF Bytes
<1>4. CASE bad = <<5, 0, 5, 5, 0, 1, 0, 0, 0, 0, 0, 0>>
  BY <1>4 DEF Bytes
<1>5. CASE bad = <<5, 0, 5, 0, 1, 1>>
  BY <1>5 DEF Bytes
<1>6. CASE bad = <<5, 0, 5, 0, 0, 2>>
  BY <1>6 DEF Bytes
<1>7. CASE bad = <<5, 0, 5, 0, 0, 1, 0>>
  BY <1>7 DEF Bytes
<1> QED BY <1>1, <1>2, <1>3, <1>4, <1>5, <1>6, <1>7, Zenon DEF Socks5BadServers

\* The one of them that gets as far as an address.
LEMMA BadReply ==
    LET bad == <<5, 0, 5, 0, 0, 1, 0>> IN bad \in Bytes /\ Len(bad) = 7 /\ bad[6] = 1
BY DEF Bytes

\* What the connector sends, while the proxy is not past its request.
LEMMA ConnectorSends ==
    ASSUME Inv, protocol = "socks5", pc["client"] \in {"start", "method"},
           UNCHANGED <<chain, accepted, atyp, buf, granted, data>>,
           need["client"] <= Len(wire["client"]),
           NEW to \in {"method", "reply"}, NEW n \in Nat, NEW out \in Bytes,
           Goes("client", to, n, out),
           OursServer => AcceptorReads' /\ InStep',
           OursServer \/ granted => ConnectorReads',
           ~(OursServer \/ granted) => ConnectorReadsBad'
    PROVE  Inv'
<1> USE BothEnds
<1>1. to \in Place
  BY DEF Place
<1>2. /\ pc' \in [End -> Place] /\ need' \in [End -> Nat] /\ wire' \in [End -> Bytes]
      /\ closed' = closed
      /\ pc'["client"] = to /\ pc'["server"] = pc["server"]
      /\ need'["client"] = n /\ need'["server"] = need["server"]
  BY <1>1, GoesOn DEF Inv
<1>3. UNCHANGED <<origin, hop, protocol, request>>
  BY DEF chain
<1>4. (OursServer' <=> OursServer) /\ OursClient /\ OursClient'
  BY <1>2 DEF OursClient, OursServer
<1>5. Types'
  BY <1>2, <1>3, <1>4 DEF Inv, Types
<1>6. Ends'
  BY <1>2, <1>3, <1>4 DEF Inv, Ends
<1>7. Chain'
  BY <1>3, <1>4, SameChain DEF Inv
<1>8. ~BadClient'
  BY <1>3, <1>4 DEF BadClient
<1>9. Handshakes'
  BY <1>3, <1>4, <1>8 DEF Handshakes
<1> QED BY <1>5, <1>6, <1>7, <1>9 DEF Inv

\* The connector begins.
LEMMA SendHelloKeeps == ASSUME Inv, SendHello PROVE Inv'
<1> USE BothEnds
<1>1. /\ pc["client"] = "start" /\ protocol = "socks5"
      /\ Goes("client", "method", 2, <<5, 1, 0>>)
      /\ UNCHANGED <<chain, asked, accepted, atyp, buf, granted, data>>
  BY DEF SendHello
<1>2. OursClient
  BY <1>1 DEF OursClient
<1>3. /\ OursServer \/ granted => ConnectorReads
      /\ ~(OursServer \/ granted) => ConnectorReadsBad
      /\ OursServer => InStep /\ AcceptorReads
      /\ wire["server"] \in Bytes /\ wire["client"] \in Bytes
  BY <1>1, <1>2, ConnectorOf
<1>4. need["client"] = 0
  BY <1>1, <1>3 DEF ConnectorReads, ConnectorReadsBad
<1>5. /\ <<5, 1, 0>> \in Bytes /\ "method" \in Place /\ need["client"] <= Len(wire["client"])
      /\ Behind(wire["client"], 0) = wire["client"]
  <2>1. <<5, 1, 0>> \in Bytes /\ "method" \in Place
    BY DEF Bytes, Place
  <2>2. Len(wire["client"]) \in Nat /\ Behind(wire["client"], 0) = wire["client"]
    BY <1>3, BytesParts
  <2> QED BY <1>4, <2>1, <2>2
<1>6. /\ pc'["client"] = "method" /\ pc'["server"] = pc["server"]
      /\ need'["client"] = 2 /\ need'["server"] = need["server"]
      /\ wire'["client"] = wire["client"]
      /\ wire'["server"] = Cat(wire["server"], <<5, 1, 0>>)
  BY <1>1, <1>4, <1>5, GoesOn DEF Inv
<1>7. ASSUME OursServer PROVE AcceptorReads' /\ InStep'
  <2>1. pc["server"] \in {"hello", "failed"} /\ (pc["server"] = "hello" => wire["server"] = <<>>)
    BY <1>1, <1>3, <1>7 DEF InStep
  <2>2. wire["client"] = <<>>
    BY <1>1, <1>3, <1>7, <2>1 DEF ConnectorReads, Inv, Ends
  <2>3. CASE pc["server"] = "failed"
    BY <1>6, <2>2, <2>3 DEF AcceptorReads, InStep
  <2>4. CASE pc["server"] = "hello"
    <3>1. wire'["server"] = <<5, 1, 0>>
      BY <1>5, <1>6, <2>1, <2>4, BytesParts, Zenon
    <3>2. <<5, 1, 0>> = Cat(<<5, 1>>, <<0>>)
      BY DEF Cat
    <3>3. Methods' = <<0>> /\ Len(<<0>>) = 1 /\ <<0>> \in Bytes
      BY <1>6 DEF Methods, OursClient, Bytes
    <3>4. Cat(<<0>>, <<>>) = <<0>>
      BY <3>3, BytesParts
    <3>5. need["server"] = 2
      BY <1>3, <1>7, <2>4 DEF AcceptorReads
    <3>6. wire'["server"] = Cat(<<5, Len(Methods')>>, Cat(Methods', <<>>))
      BY <3>1, <3>2, <3>3, <3>4
    <3> QED BY <1>6, <2>2, <2>4, <3>1, <3>2, <3>5, <3>6 DEF AcceptorReads, InStep
  <2> QED BY <2>1, <2>3, <2>4
<1>8. ASSUME OursServer \/ granted PROVE ConnectorReads'
  <2>1. ConnectorReads
    BY <1>3, <1>8
  <2>2. granted' = granted /\ data'["server"] = data["server"]
    BY <1>1
  <2> QED BY <1>1, <1>6, <2>1, <2>2 DEF ConnectorReads, IsReply, ReplyLen
<1>9. ASSUME ~(OursServer \/ granted) PROVE ConnectorReadsBad'
  <2>1. ConnectorReadsBad
    BY <1>3, <1>9
  <2> QED BY <1>1, <1>6, <2>1 DEF ConnectorReadsBad
<1> QED BY <1>1, <1>5, <1>7, <1>8, <1>9, ConnectorSends

\* The request, as it is sent, is what the acceptor reads.
LEMMA RequestSent ==
    ASSUME Inv, protocol = "socks5", pc["client"] = "method"
    PROVE  /\ Asking \in Bytes
           /\ <<5, 1, 0, 3, Len(request.host)>> \o request.host \o PortBytes(request.port) = Asking
<1> USE BothEnds
<1>1. OursClient /\ ~BadClient /\ Wanted = request /\ Type = 3 /\ Address = request.host
      /\ data["client"] = <<>>
  BY DEF OursClient, BadClient, Wanted, Type, Address, Inv, Ends
<1>2. /\ Wanted.host \in Bytes /\ Len(Wanted.host) \in Nat /\ Asking \in Bytes
      /\ PortBytes(Wanted.port) \in Bytes /\ BehindAddress \in Bytes
  BY <1>1, QueryTypes DEF Inv
<1>3. PICK h, p \in Bytes : h = request.host /\ p = PortBytes(request.port)
  BY <1>1, <1>2, Zenon
<1>4. PICK x, y, z \in Bytes :
        x = <<5, 1, 0, 3>> /\ y = <<Len(h)>> /\ z = <<5, 1, 0, 3, Len(h)>> /\ z = Cat(x, y)
  <2>1. /\ <<5, 1, 0, 3>> \in Bytes /\ <<Len(h)>> \in Bytes /\ <<5, 1, 0, 3, Len(h)>> \in Bytes
        /\ <<5, 1, 0, 3, Len(h)>> = Cat(<<5, 1, 0, 3>>, <<Len(h)>>)
    BY <1>1, <1>2, <1>3 DEF Bytes, Cat
  <2> QED BY <2>1, Zenon
<1>5. Asking = Cat(x, Cat(y, Cat(h, p)))
  <2>1. Cat(p, <<>>) = p
    BY BytesParts
  <2>2. BehindAddress = p
    BY <1>1, <1>3, <2>1 DEF BehindAddress
  <2>3. BehindType = Cat(y, Cat(h, p))
    BY <1>1, <1>3, <1>4, <2>2 DEF BehindType
  <2> QED BY <1>1, <1>4, <2>3 DEF Asking
<1>6. Cat(Cat(z, h), p) = Cat(x, Cat(y, Cat(h, p)))
  <2>1. Cat(y, h) \in Bytes
    BY BytesParts
  <2>2. Cat(Cat(x, y), h) = Cat(x, Cat(y, h))
    BY CatAssociative DEF Bytes
  <2>3. Cat(Cat(x, Cat(y, h)), p) = Cat(x, Cat(Cat(y, h), p))
    BY <2>1, CatAssociative DEF Bytes
  <2>4. Cat(Cat(y, h), p) = Cat(y, Cat(h, p))
    BY CatAssociative DEF Bytes
  <2> QED BY <1>4, <2>2, <2>3, <2>4
<1>7. <<5, 1, 0, 3, Len(request.host)>> \o request.host \o PortBytes(request.port)
        = Cat(Cat(z, h), p)
  BY <1>3, <1>4, Zenon DEF Cat
<1> QED BY <1>2, <1>5, <1>6, <1>7, Zenon

\* The request.
LEMMA SendRequestKeeps == ASSUME Inv, SendRequest PROVE Inv'
<1> USE BothEnds
<1> DEFINE b == Read("client")
           good == b = <<5, 0>> /\ LengthByte(hostname(request)) <= MaxLength
           out == <<5, 1, 0, 3, LengthByte(hostname(request))>> \o hostname(request)
                    \o PortBytes(request.port)
<1>1. /\ Reads("client", "method") /\ Ensure(good, "client", "reply", 4, out)
      /\ UNCHANGED <<chain, asked, accepted, atyp, buf, granted, data>>
  BY DEF SendRequest
<1>2. /\ pc["client"] = "method" /\ need["client"] <= Len(wire["client"])
      /\ protocol = "socks5" /\ OursClient
      /\ OursServer \/ granted => ConnectorReads
      /\ ~(OursServer \/ granted) => ConnectorReadsBad
      /\ OursServer => InStep /\ AcceptorReads
      /\ wire["client"] \in Bytes /\ wire["server"] \in Bytes
      /\ b = SubSeq(wire["client"], 1, need["client"])
      /\ \A i \in 1 .. need["client"] : b[i] = wire["client"][i] /\ wire["client"][i] \in Nat
  BY <1>1, ConnectorAt
<1>3. out = Asking /\ Asking \in Bytes
  BY <1>2, RequestSent, Zenon DEF hostname, LengthByte
<1> HIDE DEF out
<1>4. CASE ~good
  BY <1>1, <1>2, <1>4, ClientFails DEF Ensure, Inv, Types
<1>5. CASE good
  <2>1. Goes("client", "reply", 4, Asking)
    BY <1>1, <1>3, <1>5 DEF Ensure
  <2>2. need["client"] = 2
    BY <1>2 DEF ConnectorReads, ConnectorReadsBad
  <2>3. "reply" \in Place
    BY DEF Place
  <2>4. /\ pc'["client"] = "reply" /\ pc'["server"] = pc["server"]
        /\ need'["client"] = 4 /\ need'["server"] = need["server"]
        /\ wire'["client"] = Behind(wire["client"], 2)
        /\ wire'["server"] = Cat(wire["server"], Asking)
    BY <1>2, <1>3, <2>1, <2>2, <2>3, GoesOn DEF Inv
  <2>5. (OursClient' <=> OursClient) /\ UNCHANGED <<origin, request>> /\ data' = data
        /\ granted' = granted
    <3>1. OursClient' <=> OursClient
      BY <1>2, <2>4 DEF OursClient
    <3>2. UNCHANGED <<chain, data, granted>>
      BY <1>1, Zenon
    <3> QED BY <3>1, <3>2 DEF chain
  <2>6. Asking' = Asking /\ Methods' = Methods
    BY <2>5, SameQuery
  <2>7. ASSUME OursServer PROVE AcceptorReads' /\ InStep' /\ ConnectorReads'
    <3>1. InStep /\ AcceptorReads /\ ConnectorReads
      BY <1>2, <2>7
    <3>2. ~granted
      BY <1>2, <2>7, <3>1 DEF InStep, Inv, Ends
    <3>3. wire["client"] = <<5, 0>>
      <4>1. wire["client"] \in {<<>>, <<5, 0>>}
        BY <1>2, <3>1, <3>2 DEF ConnectorReads
      <4> QED BY <1>2, <2>2, <4>1
    <3>4. pc["server"] \in {"request", "failed"}
      BY <1>2, <3>1, <3>3 DEF InStep
    <3>5. wire'["client"] = <<>>
      <4>1. PICK x \in Bytes : x = <<5, 0>> /\ Len(x) = 2
        <5>1. <<5, 0>> \in Bytes /\ Len(<<5, 0>>) = 2
          BY DEF Bytes
        <5> QED BY <5>1, Zenon
      <4>2. Behind(x, 2) = <<>>
        BY <4>1, BytesParts, Zenon
      <4> QED BY <2>4, <3>3, <4>1, <4>2
    <3>6. pc["server"] = "request" => wire'["server"] = Asking
      <4>1. Cat(<<>>, Asking) = Asking
        BY <1>3, BytesParts
      <4> QED BY <1>2, <2>4, <3>1, <4>1 DEF InStep
    <3>7. AcceptorReads'
      BY <2>4, <2>6, <3>1, <3>4, <3>6 DEF AcceptorReads
    <3>8. InStep'
      BY <2>4, <2>6, <3>4, <3>6 DEF InStep
    <3>9. ConnectorReads'
      BY <2>4, <2>5, <3>2, <3>5 DEF ConnectorReads
    <3> QED BY <3>7, <3>8, <3>9
  <2>8. ASSUME granted PROVE ConnectorReads'
    <3>1. IsReply(Behind(wire["client"], 2), data["server"])
      BY <1>2, <2>8 DEF ConnectorReads
    <3>2. IsReply(wire["client"], data["server"])'
      BY <2>4, <2>5, <3>1 DEF IsReply, ReplyLen
    <3> QED BY <2>4, <2>5, <2>8, <3>2 DEF ConnectorReads
  <2>9. ASSUME ~(OursServer \/ granted) PROVE ConnectorReadsBad'
    <3>1. PICK bad \in Socks5BadServers : wire["client"] = bad
      BY <1>2, <2>9 DEF ConnectorReadsBad
    <3>2. b[1] = 5 /\ b[2] = 0
      BY <1>5
    <3>3. bad[1] = 5 /\ bad[2] = 0
      BY <1>2, <2>2, <3>1, <3>2
    <3> QED BY <2>4, <3>1, <3>3 DEF ConnectorReadsBad
  <2> QED BY <1>1, <1>2, <1>3, <2>1, <2>7, <2>8, <2>9, ConnectorSends
<1> QED BY <1>4, <1>5

\* The reply, up to the type of its address.
LEMMA ReplyKeeps == ASSUME Inv, ReadReply PROVE Inv'
<1> USE BothEnds
<1> DEFINE b == Read("client")
           good == b[1] = 5 /\ b[2] = 0 /\ b[3] = 0 /\ b[4] \in ReplyTypes
           to == IF b[4] = 3 THEN "reply_length" ELSE "reply_rest"
           n == ReplyRest(b[4])
<1>1. /\ Reads("client", "reply") /\ Ensure(good, "client", to, n, <<>>)
      /\ UNCHANGED <<chain, asked, accepted, atyp, buf, granted, data>>
  BY DEF ReadReply
<1>2. /\ pc["client"] = "reply" /\ need["client"] <= Len(wire["client"])
      /\ protocol = "socks5" /\ OursClient
      /\ OursServer \/ granted => ConnectorReads
      /\ ~(OursServer \/ granted) => ConnectorReadsBad
      /\ wire["client"] \in Bytes
      /\ \A i \in 1 .. need["client"] : b[i] = wire["client"][i] /\ wire["client"][i] \in Nat
  BY <1>1, ConnectorAt
<1> HIDE DEF b
<1>3. CASE ~good
  BY <1>1, <1>2, <1>3, ClientFails DEF Ensure, Inv, Types
<1>4. CASE good
  <2>1. Goes("client", to, n, <<>>)
    BY <1>1, <1>4 DEF Ensure
  <2>2. need["client"] = 4
    BY <1>2 DEF ConnectorReads, ConnectorReadsBad
  <2>3. to \in {"reply_length", "reply_rest"} /\ n \in Nat /\ to \in Place
    BY DEF Place, ReplyRest
  <2>4. /\ pc'["client"] = to /\ need'["client"] = n
        /\ wire'["client"] = Behind(wire["client"], 4)
    BY <1>2, <2>1, <2>2, <2>3, ReadsOn DEF Inv
  <2>5. data' = data /\ granted' = granted
    BY <1>1
  <2>6. PICK w \in Bytes : w = wire["client"] /\ Len(w) >= 4 /\ Len(w) \in Nat
    BY <1>2, <2>2, BytesParts, Zenon
  <2>7. b[1] = w[1] /\ b[2] = w[2] /\ b[3] = w[3] /\ b[4] = w[4]
    <3>1. \A i \in 1 .. 4 : b[i] = w[i]
      BY <1>2, <2>2, <2>6, ZenonT(30)
    <3>2. 1 \in 1 .. 4 /\ 2 \in 1 .. 4 /\ 3 \in 1 .. 4 /\ 4 \in 1 .. 4
      OBVIOUS
    <3> QED BY <3>1, <3>2, ZenonT(30)
  <2>8. ASSUME OursServer \/ granted PROVE ConnectorReads'
    <3>1. granted
      <4>1. ~granted => wire["client"] = <<>>
        BY <1>2, <2>8 DEF ConnectorReads
      <4> QED BY <2>6, <4>1
    <3>2. IsReply(w, data["server"])
      BY <1>2, <2>6, <2>8, <3>1 DEF ConnectorReads
    <3>3. /\ Len(w) >= 5 /\ w[4] \in {1, 3, 4} /\ Len(w) >= ReplyLen(w)
          /\ Behind(w, ReplyLen(w)) = data["server"]
      BY <3>2 DEF IsReply
    <3>4. PICK v \in Bytes :
            /\ v = Behind(w, 4) /\ Len(v) = Len(w) - 4
            /\ \A k \in Nat : k + 4 <= Len(w) => Behind(v, k) = Behind(w, k + 4)
      <4>1. Behind(w, 4) \in Bytes /\ Len(Behind(w, 4)) = Len(w) - 4
        BY <2>6, BytesRead, Zenon
      <4>2. \A k \in Nat : k + 4 <= Len(w) => Behind(Behind(w, 4), k) = Behind(w, k + 4)
        <5> SUFFICES ASSUME NEW k \in Nat, k + 4 <= Len(w)
                     PROVE  Behind(Behind(w, 4), k) = Behind(w, k + 4)
          OBVIOUS
        <5>1. Behind(Behind(w, 4), k) = Behind(w, 4 + k) /\ 4 + k = k + 4
          BY <2>6, BehindBehind DEF Bytes
        <5> QED BY <5>1
      <4> QED BY <4>1, <4>2, Zenon
    <3>5. CASE w[4] = 3
      <4>1. to = "reply_length" /\ n = 1
        BY <2>7, <3>5 DEF ReplyRest
      <4>2. v[1] = w[5] /\ w[5] \in Nat
        <5>1. Behind(w, 4)[1] = w[4 + 1]
          BY <2>6, <3>3, BytesAt
        <5> QED BY <2>6, <3>3, <3>4, <5>1 DEF Bytes
      <4>3. Len(w) >= w[5] + 7 /\ Behind(w, w[5] + 7) = data["server"]
        BY <3>3, <3>5 DEF ReplyLen
      <4>4. Len(v) >= v[1] + 3 /\ Len(v) >= 1 /\ Behind(v, v[1] + 3) = data["server"]
        BY <2>6, <3>3, <3>4, <4>2, <4>3
      <4> QED BY <2>4, <2>5, <2>6, <3>1, <3>4, <4>1, <4>4 DEF ConnectorReads
    <3>6. CASE w[4] # 3
      <4>1. to = "reply_rest" /\ n + 4 = ReplyLen(w)
        BY <2>7, <3>3, <3>6 DEF ReplyRest, ReplyLen
      <4>2. Len(v) >= n /\ Behind(v, n) = data["server"]
        BY <2>3, <2>6, <3>3, <3>4, <4>1
      <4> QED BY <2>4, <2>5, <2>6, <3>1, <3>4, <4>1, <4>2 DEF ConnectorReads
    <3> QED BY <3>5, <3>6
  <2>9. ASSUME ~(OursServer \/ granted) PROVE ConnectorReadsBad'
    <3>1. PICK bad \in Socks5BadServers : w = Behind(bad, 2) /\ bad[1] = 5 /\ bad[2] = 0
      BY <1>2, <2>6, <2>9 DEF ConnectorReadsBad
    <3>2. bad \in Bytes /\ Len(bad) \in Nat /\ Len(bad) >= 2
      BY <3>1, BadServerParts
    <3>3. /\ Len(Behind(bad, 2)) = Len(bad) - 2
          /\ \A i \in 1 .. Len(bad) - 2 : Behind(bad, 2)[i] = bad[2 + i]
      BY <3>2, BytesRead
    <3>4. Len(bad) >= 6
      BY <2>6, <3>1, <3>2, <3>3
    <3>5. b[1] = bad[3] /\ b[2] = bad[4] /\ b[3] = bad[5] /\ b[4] = bad[6]
      BY <2>7, <3>1, <3>3, <3>4
    <3>6. bad = <<5, 0, 5, 0, 0, 1, 0>>
      BY <1>4, <3>1, <3>4, <3>5, BadServerParts DEF ReplyTypes
    <3>7. Behind(Behind(bad, 2), 4) = Behind(bad, 6)
      <4>1. Behind(Behind(bad, 2), 4) = Behind(bad, 2 + 4)
        BY <3>2, <3>4, BehindBehind DEF Bytes
      <4> QED BY <4>1
    <3>8. b[4] = 1
      BY <3>5, <3>6, BadReply
    <3>9. to = "reply_rest" /\ n = 6
      BY <3>8 DEF ReplyRest
    <3> QED BY ZenonT(30), <2>4, <2>6, <3>1, <3>6, <3>7, <3>9 DEF ConnectorReadsBad
  <2> HIDE DEF to, n
  <2> QED BY <1>1, <1>2, <2>1, <2>3, <2>8, <2>9, ConnectorStep, ZenonT(30)
<1> QED BY <1>3, <1>4

\* The length of a name in the reply.
LEMMA ReplyLengthKeeps == ASSUME Inv, ReadReplyLength PROVE Inv'
<1> USE BothEnds
<1> DEFINE b == Read("client")
           n == b[1] + 2
<1>1. /\ Reads("client", "reply_length") /\ Goes("client", "reply_rest", n, <<>>)
      /\ UNCHANGED <<chain, asked, accepted, atyp, buf, granted, data>>
  BY DEF ReadReplyLength
<1>2. /\ pc["client"] = "reply_length" /\ need["client"] <= Len(wire["client"])
      /\ protocol = "socks5" /\ OursClient
      /\ OursServer \/ granted => ConnectorReads
      /\ ~(OursServer \/ granted) => ConnectorReadsBad
      /\ wire["client"] \in Bytes
      /\ \A i \in 1 .. need["client"] : b[i] = wire["client"][i] /\ wire["client"][i] \in Nat
  BY <1>1, ConnectorAt
<1> HIDE DEF b
<1>3. OursServer \/ granted
  BY <1>2 DEF ConnectorReadsBad
<1>4. ConnectorReads
  BY <1>2, <1>3
<1>5. PICK w \in Bytes :
        /\ w = wire["client"] /\ Len(w) >= w[1] + 3 /\ Len(w) >= 1
        /\ Behind(w, w[1] + 3) = data["server"]
  BY <1>2, <1>4 DEF ConnectorReads
<1>6. granted /\ need["client"] = 1
  BY <1>2, <1>4 DEF ConnectorReads
<1>7. b[1] = w[1] /\ w[1] \in Nat /\ n \in Nat /\ Len(w) \in Nat
  <2>1. b[1] = w[1] /\ w[1] \in Nat
    BY <1>2, <1>5, <1>6
  <2> QED BY <2>1 DEF Bytes
<1>8. "reply_rest" \in Place
  BY DEF Place
<1> HIDE DEF n
<1>9. /\ pc'["client"] = "reply_rest" /\ need'["client"] = n /\ wire'["client"] = Behind(w, 1)
  BY ZenonT(30), <1>1, <1>2, <1>5, <1>6, <1>7, <1>8, ReadsOn DEF Inv
<1>10. ConnectorReads'
  <2>1. Len(Behind(w, 1)) = Len(w) - 1
    BY ZenonT(30), <1>5, <1>7, BytesRead
  <2>2. Behind(Behind(w, 1), n) = data["server"]
    <3>1. 1 + n = w[1] + 3 /\ 1 + n <= Len(w)
      BY <1>5, <1>7 DEF n
    <3>2. Behind(Behind(w, 1), n) = Behind(w, 1 + n)
      BY <1>7, <3>1, BehindBehind DEF Bytes
    <3> QED BY <1>5, <3>1, <3>2
  <2>3. Len(w) - 1 >= n
    BY <1>5, <1>7 DEF n
  <2>4. granted' /\ data'["server"] = data["server"]
    BY <1>1, <1>6
  <2> QED BY <1>9, <2>1, <2>2, <2>3, <2>4 DEF ConnectorReads
<1> QED BY <1>1, <1>2, <1>3, <1>7, <1>10, ConnectorStep

\* The rest of the reply: the tunnel begins behind it.
LEMMA ReplyRestKeeps == ASSUME Inv, ReadReplyRest PROVE Inv'
<1> USE BothEnds
<1>1. /\ Reads("client", "reply_rest") /\ Goes("client", "tunnel", 0, <<>>)
      /\ UNCHANGED <<chain, asked, accepted, atyp, buf, granted, data>>
  BY DEF ReadReplyRest
<1>2. /\ pc["client"] = "reply_rest" /\ need["client"] <= Len(wire["client"])
      /\ protocol = "socks5" /\ OursClient
      /\ OursServer \/ granted => ConnectorReads
      /\ ~(OursServer \/ granted) => ConnectorReadsBad
  BY <1>1, ConnectorAt
<1>3. OursServer \/ granted
  <2> SUFFICES ASSUME ~(OursServer \/ granted) PROVE FALSE
    OBVIOUS
  <2>1. need["client"] = 6 /\ wire["client"] = Behind(<<5, 0, 5, 0, 0, 1, 0>>, 6)
    BY <1>2 DEF ConnectorReadsBad
  <2>2. PICK bad \in Bytes : bad = <<5, 0, 5, 0, 0, 1, 0>> /\ Len(bad) = 7
    BY BadReply
  <2>3. Len(Behind(bad, 6)) = Len(bad) - 6
    <3>1. Len(bad) \in Nat /\ Len(bad) >= 6
      BY <2>2
    <3> QED BY <3>1, BytesRead
  <2> QED BY <1>2, <2>1, <2>2, <2>3
<1>4. ConnectorReads
  BY <1>2, <1>3
<1>5. "tunnel" \in Place
  BY DEF Place
<1>6. /\ pc'["client"] = "tunnel" /\ wire'["client"] = Behind(wire["client"], need["client"])
  BY ZenonT(30), <1>1, <1>2, <1>5, ReadsOn DEF Inv
<1>7. ConnectorReads'
  <2>1. granted' /\ data'["server"] = data["server"]
    BY <1>1, <1>2, <1>4 DEF ConnectorReads
  <2> QED BY <1>2, <1>4, <1>6, <2>1 DEF ConnectorReads
<1> QED BY <1>1, <1>2, <1>3, <1>7, ConnectorStep

-----------------------------------------------------------------------------
(* The steps of the handshakes that carry text. *)

\* A step of a connector, which sends nothing but its text.
LEMMA TextConnectorStep ==
    ASSUME Inv, protocol # "socks5", OursClient, pc["client"] \notin {"tunnel", "failed"},
           UNCHANGED <<chain, accepted, granted, data, closed>>,
           asked' = asked \/ asked' = to_string(Wanted),
           pc' \in [End -> Place], need' \in [End -> Nat], wire' \in [End -> Bytes],
           pc'["client"] \in {"tunnel"} \cup (IF protocol = "http" THEN {"answer"} ELSE {"upgrade"}),
           pc'["server"] = pc["server"], need'["server"] = need["server"],
           wire'["server"] = wire["server"],
           buf' \in Bytes, protocol # "http" => buf' = buf,
           protocol = "http" => ConnectReads', protocol = "simplex" => UpgradeReads'
    PROVE  Inv'
<1> USE BothEnds
<1>1. UNCHANGED <<origin, hop, protocol, request>>
  BY DEF chain
<1>2. (OursServer' <=> OursServer) /\ OursClient'
  BY DEF OursClient, OursServer
<1>3. Types'
  BY <1>1, <1>2 DEF Inv, Types
<1>4. Ends'
  <2>1. pc["client"] # "other" /\ pc'["client"] \in {"tunnel", "answer", "upgrade"}
    BY DEF OursClient
  <2>2. UNCHANGED <<closed, granted, data>> /\ pc'["server"] = pc["server"]
    OBVIOUS
  <2> QED BY <1>1, <1>2, <2>1, <2>2 DEF Inv, Ends
<1>5. Chain'
  BY <1>1, <1>2, SameChain DEF Inv
<1>6. TextAccepted'
  BY <1>1, <1>2, SameTextAcceptor DEF Inv, Handshakes
<1>7. Handshakes'
  BY <1>1, <1>2, <1>6 DEF Handshakes
<1> QED BY <1>3, <1>4, <1>5, <1>7 DEF Inv

\* What is known of a connector that has not got its answer.
LEMMA TextConnectorOf ==
    ASSUME Inv, protocol # "socks5", OursClient, pc["client"] # "failed"
    PROVE  /\ protocol = "http" => ConnectReads
           /\ protocol # "http" => protocol = "simplex" /\ UpgradeReads
           /\ wire["client"] \in Bytes /\ need["client"] \in Nat /\ Len(wire["client"]) \in Nat
           /\ wire["server"] \in Bytes /\ need["server"] \in Nat
           /\ buf \in Bytes
           /\ Wanted = request
<1>1. /\ protocol = "http" => ConnectReads
      /\ protocol # "http" => protocol = "simplex" /\ UpgradeReads
      /\ wire["client"] \in Bytes /\ need["client"] \in Nat
      /\ wire["server"] \in Bytes /\ need["server"] \in Nat
      /\ buf \in Bytes
  BY BothEnds DEF Inv, Handshakes, Types
<1>2. Len(wire["client"]) \in Nat
  BY <1>1 DEF Bytes
<1> QED BY <1>1, <1>2 DEF Wanted

\* The connector sends its request and waits for the answer.
LEMMA TextRequestKeeps == ASSUME Inv, SendConnect \/ SendUpgrade PROVE Inv'
<1> USE BothEnds
<1> DEFINE to == IF protocol = "http" THEN "answer" ELSE "upgrade"
           n == IF protocol = "http" THEN 1 ELSE 2
<1>1. /\ pc["client"] = "start" /\ protocol # "socks5"
      /\ Goes("client", to, n, <<>>)
      /\ asked' = to_string(request)
      /\ UNCHANGED <<chain, accepted, atyp, buf, granted, data>>
  BY DEF SendConnect, SendUpgrade
<1>2. OursClient
  BY <1>1 DEF OursClient
<1>3. /\ protocol = "http" => ConnectReads
      /\ protocol # "http" => protocol = "simplex" /\ UpgradeReads
      /\ wire["client"] \in Bytes /\ Len(wire["client"]) \in Nat
      /\ buf \in Bytes /\ Wanted = request
  BY <1>1, <1>2, TextConnectorOf
<1>4. need["client"] = 0
  BY <1>1, <1>3 DEF ConnectReads, UpgradeReads
<1>5. to \in Place /\ n \in Nat /\ need["client"] <= Len(wire["client"])
  BY <1>3, <1>4 DEF Place
<1>6. /\ pc' \in [End -> Place] /\ need' \in [End -> Nat] /\ wire' \in [End -> Bytes]
      /\ closed' = closed
      /\ pc'["client"] = to /\ pc'["server"] = pc["server"]
      /\ need'["client"] = n /\ need'["server"] = need["server"]
      /\ wire'["client"] = wire["client"] /\ wire'["server"] = wire["server"]
  <2>1. Behind(wire["client"], 0) = wire["client"]
    BY <1>3, BytesParts
  <2> HIDE DEF to, n
  <2> QED BY <1>1, <1>4, <1>5, <2>1, ReadsOn DEF Inv
<1>7. OursServer' <=> OursServer
  BY <1>6 DEF OursServer
<1>8. ASSUME NEW answer, NEW code
      PROVE  Answered(answer, code) => Answered(answer, code)'
  BY <1>1, <1>6, <1>7 DEF Answered
<1>9. ASSUME protocol = "http" PROVE ConnectReads'
  <2>1. Cat(buf, wire["client"])' = Cat(buf, wire["client"])
    BY <1>1, <1>6 DEF Cat
  <2>2. buf' = buf
    BY <1>1
  <2> QED BY <1>1, <1>3, <1>6, <1>8, <1>9, <2>1, <2>2 DEF ConnectReads
<1>10. ASSUME protocol = "simplex" PROVE UpgradeReads'
  BY <1>1, <1>3, <1>6, <1>8, <1>10 DEF UpgradeReads
<1>11. UNCHANGED <<chain, accepted, granted, data, closed>> /\ buf' = buf
  BY <1>1, <1>6
<1> QED BY <1>1, <1>2, <1>3, <1>6, <1>9, <1>10, <1>11, TextConnectorStep

\* Or it has none to send.
LEMMA NoUpgradeKeeps == ASSUME Inv, NoUpgrade PROVE Inv'
<1>1. buf' \in Bytes
  BY DEF NoUpgrade, Inv, Types
<1> QED BY <1>1, ClientFails DEF NoUpgrade

\* An answer of which two bytes are there is the whole, or says that it is none.
LEMMA RefusalParts ==
    ASSUME NEW answer \in Refusals, Len(answer) >= 2
    PROVE  answer[2] = BadRequest /\ Len(answer) = 2
<1>1. CASE answer = <<>>
  BY <1>1
<1>2. CASE answer = <<0>>
  BY <1>2
<1>3. CASE answer = <<72>>
  BY <1>3
<1>4. CASE answer = Status(BadRequest)
  BY <1>4 DEF Status
<1> QED BY <1>1, <1>2, <1>3, <1>4 DEF Refusals

\* The connector reads a part of the answer.
LEMMA ReadAnswerKeeps ==
    ASSUME Inv, NEW n \in 1 .. Len(wire["client"]), ReadAnswer(n)
    PROVE  Inv'
<1> USE BothEnds
<1> DEFINE part == SubSeq(wire["client"], 1, n)
           rest == Behind(wire["client"], n)
           bytes == Cat(buf, part)
<1>1. /\ pc["client"] = "answer"
      /\ buf' = bytes
      /\ UNCHANGED <<chain, asked, accepted, atyp, granted, data>>
  BY DEF ReadAnswer, Cat
<1>2. /\ ~(Malformed(bytes) \/ (IsComplete(bytes) /\ ~Success(bytes))) =>
           /\ pc' = [pc EXCEPT !["client"] = IF Success(bytes) THEN "tunnel" ELSE "answer"]
           /\ wire' = [wire EXCEPT !["client"] = rest]
           /\ UNCHANGED <<need, closed>>
      /\ Malformed(bytes) \/ (IsComplete(bytes) /\ ~Success(bytes)) => Fails("client")
  BY DEF ReadAnswer, Cat, Behind, Inv, Types
<1>3. protocol = "http" /\ OursClient
  BY <1>1 DEF Inv, Types, OursClient
<1>4. ConnectReads /\ wire["client"] \in Bytes /\ buf \in Bytes
  BY <1>1, <1>3, TextConnectorOf
<1>5. part \in Bytes /\ rest \in Bytes /\ wire["client"] = Cat(part, rest) /\ Len(part) = n
  BY SMT, SMTT(30), <1>4, PrefixAndRest, FirstOf, BehindOf DEF Bytes, Behind
<1>6. bytes \in Bytes /\ Len(bytes) = Len(buf) + Len(part)
  BY <1>4, <1>5, BytesParts, Zenon
<1>7. Cat(bytes, rest) = Cat(buf, wire["client"])
  <2> HIDE DEF part, rest
  <2>1. Cat(Cat(buf, part), rest) = Cat(buf, Cat(part, rest))
    BY <1>4, <1>5, CatAssociative DEF Bytes
  <2> QED BY <1>5, <2>1, Zenon
<1>8. Len(bytes) \in Nat /\ Len(bytes) >= 1
  <2>1. Len(buf) \in Nat
    BY <1>4 DEF Bytes
  <2> QED BY <1>5, <1>6, <2>1
<1>9. (buf' = Cat(buf, part)) /\ buf' \in Bytes
  BY <1>1, <1>6
<1> HIDE DEF part, rest, bytes
<1>10. CASE Malformed(bytes) \/ (IsComplete(bytes) /\ ~Success(bytes))
  BY <1>1, <1>2, <1>3, <1>9, <1>10, ClientFails
<1>11. CASE ~(Malformed(bytes) \/ (IsComplete(bytes) /\ ~Success(bytes)))
  <2> DEFINE to == IF Success(bytes) THEN "tunnel" ELSE "answer"
  <2>1. /\ pc' = [pc EXCEPT !["client"] = to]
        /\ wire' = [wire EXCEPT !["client"] = rest]
        /\ UNCHANGED <<need, closed>>
    BY <1>2, <1>11
  <2>2. to \in Place /\ to \in {"tunnel", "answer"}
    BY DEF Place
  <2>3. to = "tunnel" => Len(bytes) >= 2 /\ bytes[2] = OK
    BY DEF Success, IsComplete
  <2>4. to = "answer" => bytes = <<72>>
    <3>1. to = "answer" => ~Success(bytes)
      OBVIOUS
    <3>2. ASSUME to = "answer" PROVE ~IsComplete(bytes) /\ ~Malformed(bytes)
      BY <1>11, <3>1, <3>2, Zenon
    <3> HIDE DEF to
    <3>3. ASSUME to = "answer" PROVE Len(bytes) = 1 /\ bytes[1] = 72
      <4>1. bytes[1] = 72
        BY <3>2, <3>3 DEF Malformed
      <4>2. ~(Len(bytes) >= 2)
        BY <3>2, <3>3, <4>1 DEF IsComplete
      <4> QED BY <1>8, <4>1, <4>2
    <3> QED BY <1>6, <3>3 DEF Bytes
  <2> HIDE DEF to
  <2>5. /\ pc' \in [End -> Place] /\ pc'["client"] = to /\ pc'["server"] = pc["server"]
        /\ need' = need /\ need' \in [End -> Nat]
    BY <2>1, <2>2 DEF Inv, Types
  <2>6. /\ wire' \in [End -> Bytes] /\ wire'["client"] = rest /\ wire'["server"] = wire["server"]
    BY <1>5, <2>1 DEF Inv, Types
  <2>7. OursServer' <=> OursServer
    BY <2>5 DEF OursServer
  <2>8. Answered(Cat(buf, wire["client"]), OK)'
    <3>1. Cat(buf, wire["client"])' = Cat(buf, wire["client"])
      BY <1>1, <1>7, <2>6
    <3>2. Answered(Cat(buf, wire["client"]), OK)
      BY <1>4 DEF ConnectReads
    <3> QED BY <1>1, <2>1, <2>7, <3>1, <3>2 DEF Answered
  <2>9. to = "tunnel" => granted
    <3> SUFFICES ASSUME to = "tunnel", ~granted PROVE FALSE
      OBVIOUS
    <3>1. Cat(bytes, rest) \in Refusals
      BY <1>4, <1>7 DEF ConnectReads, Answered
    <3>2. Len(bytes) >= 2 /\ bytes[2] = OK
      BY <2>3
    <3>3. Len(Cat(bytes, rest)) = Len(bytes) + Len(rest) /\ Len(rest) \in Nat
      BY <1>5, <1>6, BytesParts, Zenon
    <3>4. 2 \in 1 .. Len(bytes) /\ Len(Cat(bytes, rest)) >= 2
      BY <1>8, <3>2, <3>3
    <3>5. Cat(bytes, rest)[2] = bytes[2]
      BY <1>5, <1>6, <3>4, BytesFirst
    <3> QED BY <3>1, <3>2, <3>4, <3>5, RefusalParts DEF OK, BadRequest
  <2>10. need["client"] = 1
    BY <1>1, <1>4 DEF ConnectReads
  <2>11. ConnectReads'
    <3>1. buf' = bytes /\ granted' = granted
      BY <1>1
    <3> QED BY <2>2, <2>3, <2>4, <2>5, <2>8, <2>9, <2>10, <3>1 DEF ConnectReads
  <2>12. UNCHANGED <<chain, accepted, granted, data, closed, asked>>
    BY <1>1, <2>1
  <2> QED BY <1>1, <1>3, <1>9, <2>2, <2>5, <2>6, <2>11, <2>12, TextConnectorStep
<1> QED BY <1>10, <1>11

\* The proxy is gone, and the connector takes the connection for its own.
LEMMA ReadEofKeeps == ASSUME Inv, ReadEof PROVE Inv'
<1> USE BothEnds
<1>1. /\ pc["client"] = "answer" /\ "server" \in closed /\ wire["client"] = <<>>
      /\ pc' = [pc EXCEPT !["client"] = "tunnel"]
      /\ need' = [need EXCEPT !["client"] = 0]
      /\ closed' = closed
      /\ UNCHANGED <<chain, asked, accepted, atyp, buf, granted, data>>
  BY DEF ReadEof, Goes
<1>2. protocol = "http" /\ OursClient
  BY <1>1 DEF Inv, Types, OursClient
<1>3. /\ ConnectReads /\ need["client"] \in Nat /\ buf \in Bytes
      /\ wire["server"] \in Bytes /\ wire["client"] \in Bytes
  BY <1>1, <1>2, TextConnectorOf
<1>4. need["client"] = 1 /\ buf \in {<<>>, <<72>>} /\ Answered(Cat(buf, wire["client"]), OK)
  BY <1>1, <1>3 DEF ConnectReads
<1>5. wire' = wire
  <2>1. wire' = [wire EXCEPT !["client"] = SubSeq(<<>>, 2, 0), !["server"] = Cat(@, <<>>)]
    <3>1. need["client"] + 1 = 2 /\ Len(wire["client"]) = 0
      BY <1>1, <1>4
    <3>2. wire' = [wire EXCEPT !["client"] = SubSeq(@, need["client"] + 1, Len(@)),
                               !["server"] = @ \o <<>>]
      BY Zenon DEF ReadEof, Goes
    <3> QED BY <1>1, <3>1, <3>2, Zenon DEF Inv, Types, Cat
  <2>2. SubSeq(<<>>, 2, 0) = wire["client"] /\ Cat(wire["server"], <<>>) = wire["server"]
    <3>1. SubSeq(<<>>, 2, 0) = <<>>
      OBVIOUS
    <3> QED BY <1>1, <1>3, <3>1, BytesParts, Zenon
  <2> QED BY <2>1, <2>2 DEF Inv, Types
<1>6. /\ pc' \in [End -> Place] /\ pc'["client"] = "tunnel" /\ pc'["server"] = pc["server"]
      /\ need' \in [End -> Nat] /\ need'["server"] = need["server"]
      /\ wire' \in [End -> Bytes]
  BY <1>1, <1>5 DEF Inv, Types, Place
<1>7. OursServer' <=> OursServer
  BY <1>6 DEF OursServer
<1>8. ~granted
  <2> SUFFICES ASSUME granted PROVE FALSE
    OBVIOUS
  <2>1. buf = Cat(Status(OK), data["server"])
    BY <1>1, <1>3, <1>4, BytesParts DEF Answered
  <2>2. Status(OK) \in Bytes /\ Len(Status(OK)) = 2 /\ data["server"] \in Bytes
    BY StatusParts DEF OK, Inv, Types
  <2>3. Len(buf) = Len(Status(OK)) + Len(data["server"]) /\ Len(data["server"]) \in Nat
    BY <2>1, <2>2, BytesParts, Zenon
  <2>4. Len(buf) >= 2
    BY <2>2, <2>3
  <2> QED BY <1>4, <2>4
<1>9. ConnectReads'
  <2>1. Cat(buf, wire["client"])' = Cat(buf, wire["client"])
    BY <1>1, <1>5
  <2>2. Answered(Cat(buf, wire["client"]), OK)'
    BY <1>1, <1>4, <1>7, <2>1 DEF Answered
  <2> QED BY <1>1, <1>4, <1>5, <1>6, <1>8, <2>2 DEF ConnectReads
<1> QED BY <1>1, <1>2, <1>3, <1>5, <1>6, <1>9, TextConnectorStep

\* The answer to an upgrade.
LEMMA ReadUpgradeKeeps == ASSUME Inv, ReadUpgrade PROVE Inv'
<1> USE BothEnds
<1>1. /\ pc["client"] = "upgrade" /\ Len(wire["client"]) >= need["client"]
      /\ UNCHANGED <<chain, asked, accepted, atyp, buf, granted, data>>
      /\ Ensure(Read("client") = Status(101), "client", "tunnel", 0, <<>>)
  BY DEF ReadUpgrade, Reads
<1>2. protocol = "simplex" /\ protocol # "http" /\ OursClient
  BY <1>1 DEF Inv, Types, OursClient
<1>3. /\ UpgradeReads /\ buf \in Bytes
      /\ wire["client"] \in Bytes /\ Len(wire["client"]) \in Nat
  BY <1>1, <1>2, TextConnectorOf
<1>4. need["client"] = 2 /\ Answered(wire["client"], 101)
  BY <1>1, <1>3 DEF UpgradeReads
<1>5. CASE Read("client") # Status(101)
  BY <1>1, <1>2, <1>3, <1>5, ClientFails DEF Ensure
<1>6. CASE Read("client") = Status(101)
  <2> DEFINE w == wire["client"]
  <2>1. Len(w) >= 2 /\ SubSeq(w, 1, 2) = Status(101)
    BY <1>1, <1>4, <1>6 DEF Read
  <2>2. w[2] = 101
    <3>1. SubSeq(w, 1, 2)[2] = w[2]
      BY <1>3, <2>1, BytesRead
    <3> QED BY <2>1, <3>1, StatusParts
  <2>3. granted
    BY <1>4, <2>1, <2>2, RefusalParts DEF Answered, BadRequest
  <2>4. Behind(w, 2) = data["server"]
    <3>1. Status(101) \in Bytes /\ Len(Status(101)) = 2 /\ data["server"] \in Bytes
      BY StatusParts DEF Inv, Types
    <3>2. w = Cat(Status(101), data["server"])
      BY <1>4, <2>3 DEF Answered
    <3>3. Behind(Cat(Status(101), data["server"]), 2) = data["server"]
      BY <3>1, BytesHead, Zenon
    <3> QED BY <3>2, <3>3, Zenon
  <2>5. Goes("client", "tunnel", 0, <<>>)
    BY <1>1, <1>6 DEF Ensure
  <2>6. need["client"] <= Len(wire["client"]) /\ 0 \in Nat /\ "tunnel" \in Place
    BY <1>1, <1>3, <1>4 DEF Place
  <2>7. /\ pc' \in [End -> Place] /\ need' \in [End -> Nat] /\ wire' \in [End -> Bytes]
        /\ closed' = closed
        /\ pc'["client"] = "tunnel" /\ pc'["server"] = pc["server"]
        /\ need'["server"] = need["server"]
        /\ wire'["client"] = Behind(w, 2) /\ wire'["server"] = wire["server"]
    BY <1>4, <2>5, <2>6, ReadsOn DEF Inv
  <2> HIDE DEF w
  <2>8. UpgradeReads'
    BY <1>1, <2>3, <2>4, <2>7 DEF UpgradeReads
  <2> QED BY <1>1, <1>2, <1>3, <2>7, <2>8, TextConnectorStep
<1> QED BY <1>5, <1>6

\* A step of an acceptor.
LEMMA TextAcceptorStep ==
    ASSUME Inv, protocol # "socks5", UNCHANGED <<chain, asked, buf, data>>,
           pc["server"] \in {"text", "connecting"},
           pc' \in [End -> Place], need' \in [End -> Nat], wire' \in [End -> Bytes],
           pc'["server"] \in {"connecting", "tunnel", "failed"}, pc'["client"] = pc["client"],
           granted' \in BOOLEAN, granted' <=> pc'["server"] = "tunnel",
           closed' = closed \cup {e \in {"server"} : pc'["server"] = "failed"},
           need'["server"] = need["server"], need'["client"] = need["client"],
           wire'["server"] = wire["server"],
           pc'["server"] \in {"connecting", "tunnel"} => ReadAs(accepted'),
           protocol = "http" /\ OursClient /\ pc["client"] # "failed" => ConnectReads',
           protocol = "simplex" /\ OursClient => UpgradeReads'
    PROVE  Inv'
<1> USE BothEnds
<1>1. UNCHANGED <<origin, hop, protocol, request>>
  BY DEF chain
<1>2. (OursClient' <=> OursClient) /\ OursServer /\ OursServer'
  BY DEF OursClient, OursServer
<1>3. Types'
  <2>1. closed' \subseteq End
    BY ZenonT(30) DEF Inv, Types
  <2> QED BY <1>1, <1>2, <2>1 DEF Inv, Types
<1>4. Ends'
  <2>1. pc["server"] \notin {"other", "failed"} /\ pc'["server"] # "other"
    OBVIOUS
  <2>2. "server" \in closed' <=> pc'["server"] = "failed"
    BY <2>1 DEF Inv, Ends
  <2>3. "client" \in closed' <=> "client" \in closed
    OBVIOUS
  <2> QED BY <1>1, <1>2, <2>1, <2>2, <2>3, ZenonT(30) DEF Inv, Ends
<1>5. Chain'
  BY ZenonT(30), <1>1, <1>2, SameChain DEF Inv
<1>6. TextAccepted'
  <2>1. Wanted' = Wanted
    BY <1>1, <1>2 DEF Wanted
  <2> QED BY <2>1, ZenonT(30) DEF Inv, Handshakes, TextAccepted, ReadAs
<1>7. Handshakes'
  BY <1>1, <1>2, <1>6 DEF Handshakes
<1> QED BY <1>3, <1>4, <1>5, <1>7 DEF Inv

\* Before the acceptor has answered, there is no answer.
LEMMA Unanswered ==
    ASSUME Inv, protocol # "socks5", pc["server"] \in {"text", "connecting"}
    PROVE  /\ ~granted /\ "server" \notin closed /\ OursServer /\ data["server"] = <<>>
           /\ wire["client"] \in Bytes /\ buf \in Bytes
           /\ protocol = "http" /\ OursClient /\ pc["client"] # "failed" =>
                /\ ConnectReads /\ pc["client"] # "tunnel"
                /\ Cat(buf, wire["client"]) = <<>>
           /\ protocol # "http" /\ OursClient =>
                /\ UpgradeReads /\ pc["client"] # "tunnel"
                /\ pc["client"] \in {"dialing", "start", "upgrade"} => wire["client"] = <<>>
<1> USE BothEnds
<1>1. OursServer /\ ~granted /\ "server" \notin closed /\ data["server"] = <<>>
  BY DEF OursServer, Inv, Ends
<1>2. wire["client"] \in Bytes /\ buf \in Bytes
  BY DEF Inv, Types
<1>3. ASSUME protocol = "http", OursClient, pc["client"] # "failed"
      PROVE  ConnectReads /\ pc["client"] # "tunnel" /\ Cat(buf, wire["client"]) = <<>>
  <2>1. ConnectReads
    BY <1>3 DEF Inv, Handshakes
  <2> QED BY <1>1, <2>1 DEF ConnectReads, Answered
<1>4. ASSUME protocol # "http", OursClient
      PROVE  /\ UpgradeReads /\ pc["client"] # "tunnel"
             /\ pc["client"] \in {"dialing", "start", "upgrade"} => wire["client"] = <<>>
  <2>1. UpgradeReads
    BY <1>4 DEF Inv, Handshakes, Types
  <2> QED BY <1>1, <2>1 DEF UpgradeReads, Answered
<1> QED BY <1>1, <1>2, <1>3, <1>4

\* What a client of the text protocols is sent.
LEMMA TextSent ==
    ASSUME Inv, protocol # "socks5", pc["server"] \in {"text", "connecting"},
           NEW code \in Nat, pc'["client"] = pc["client"], need'["client"] = need["client"],
           wire'["client"] = Cat(wire["client"], Status(code)),
           UNCHANGED <<buf, data>>,
           \/ /\ granted'
              /\ code = IF protocol = "http" THEN OK ELSE 101
           \/ /\ ~granted' /\ code = BadRequest
              /\ "server" \in closed'
    PROVE  /\ protocol = "http" /\ OursClient /\ pc["client"] # "failed" => ConnectReads'
           /\ protocol # "http" /\ OursClient => UpgradeReads'
<1> USE BothEnds
<1>1. /\ ~granted /\ data["server"] = <<>>
      /\ wire["client"] \in Bytes /\ buf \in Bytes
  BY Unanswered
<1>2. Status(code) \in Bytes
  BY StatusParts
<1>3. ASSUME NEW c, c = IF protocol = "http" THEN OK ELSE 101
      PROVE  Answered(Status(code), c)'
  <2>1. Cat(Status(code), <<>>) = Status(code)
    BY <1>2, BytesParts, Zenon
  <2>2. data'["server"] = <<>>
    BY <1>1
  <2> QED BY <1>3, <2>1, <2>2 DEF Answered, Refusals
<1>4. ASSUME protocol = "http", OursClient, pc["client"] # "failed" PROVE ConnectReads'
  <2>1. ConnectReads /\ pc["client"] # "tunnel" /\ Cat(buf, wire["client"]) = <<>>
    BY <1>4, Unanswered
  <2>2. Cat(buf, wire["client"])' = Status(code)
    <3>1. Cat(buf, Cat(wire["client"], Status(code))) = Cat(Cat(buf, wire["client"]), Status(code))
      BY <1>1, <1>2, CatAssociative DEF Bytes
    <3>2. Cat(<<>>, Status(code)) = Status(code)
      BY <1>2, BytesParts
    <3> QED BY <2>1, <3>1, <3>2, Zenon
  <2>3. Answered(Cat(buf, wire["client"]), OK)'
    BY <1>3, <1>4, <2>2
  <2> QED BY <2>1, <2>3 DEF ConnectReads
<1>5. ASSUME protocol # "http", OursClient PROVE UpgradeReads'
  <2>1. /\ UpgradeReads /\ pc["client"] # "tunnel"
        /\ pc["client"] \in {"dialing", "start", "upgrade"} => wire["client"] = <<>>
    BY ZenonT(30), <1>5, Unanswered
  <2>2. Cat(<<>>, Status(code)) = Status(code)
    BY <1>2, BytesParts
  <2>3. pc["client"] \in {"dialing", "start", "upgrade"} => Answered(wire["client"], 101)'
    BY <1>3, <1>5, <2>1, <2>2
  <2> QED BY <2>1, <2>3 DEF UpgradeReads
<1> QED BY <1>4, <1>5

\* hyper gives up a request that it cannot parse.
LEMMA RefuseTextKeeps == ASSUME Inv, RefuseText PROVE Inv'
<1> USE BothEnds
<1>1. /\ pc["server"] = "text" /\ asked # NoText /\ UNCHANGED <<chain, asked, buf, granted, data>>
      /\ protocol = "http"
  BY DEF RefuseText
<1>2. protocol # "socks5" /\ pc["server"] \in {"text", "connecting"}
  BY <1>1 DEF Inv, Types
<1>3. /\ ~granted /\ "server" \notin closed /\ OursServer
      /\ wire["client"] \in Bytes /\ buf \in Bytes
  BY <1>2, Unanswered
<1> DEFINE out == Cat(wire["client"], Status(BadRequest))
<1>4. /\ pc' = [pc EXCEPT !["server"] = "failed"]
      /\ wire' = [wire EXCEPT !["client"] = out]
      /\ closed' = closed \cup {"server"}
      /\ need' = need
  BY DEF RefuseText, Cat, Inv, Types
<1>5. BadRequest \in Nat /\ "failed" \in Place
  BY DEF BadRequest, Place
<1>6. out \in Bytes
  BY <1>3, <1>5, StatusParts, BytesParts, Zenon
<1> HIDE DEF out
<1>7. /\ pc' \in [End -> Place] /\ pc'["server"] = "failed" /\ pc'["client"] = pc["client"]
      /\ need' \in [End -> Nat]
      /\ wire' \in [End -> Bytes] /\ wire'["client"] = out /\ wire'["server"] = wire["server"]
  BY <1>4, <1>5, <1>6 DEF Inv, Types
<1>8. wire'["client"] = Cat(wire["client"], Status(BadRequest))
  BY <1>7 DEF out
<1>9. /\ protocol = "http" /\ OursClient /\ pc["client"] # "failed" => ConnectReads'
      /\ protocol # "http" /\ OursClient => UpgradeReads'
  BY <1>1, <1>2, <1>3, <1>4, <1>5, <1>7, <1>8, TextSent
<1>10. closed' = closed \cup {e \in {"server"} : pc'["server"] = "failed"}
  BY <1>4, <1>7
<1>11. granted' \in BOOLEAN /\ (granted' <=> pc'["server"] = "tunnel")
  BY <1>1, <1>3, <1>7 DEF Inv, Types
<1> QED BY ZenonT(30), <1>1, <1>2, <1>4, <1>7, <1>9, <1>10, <1>11, TextAcceptorStep

\* The handler has the endpoint.
LEMMA AcceptTextKeeps == ASSUME Inv, AcceptText \/ MisreadText PROVE Inv'
<1> USE BothEnds
<1>1. /\ pc["server"] = "text" /\ asked # NoText /\ UNCHANGED <<chain, asked, buf, granted, data>>
      /\ Goes("server", "connecting", 0, <<>>)
  BY DEF AcceptText, MisreadText
<1>2. protocol # "socks5" /\ pc["server"] \in {"text", "connecting"}
  BY <1>1 DEF Inv, Types
<1>3. /\ ~granted /\ "server" \notin closed /\ OursServer
      /\ wire["client"] \in Bytes /\ buf \in Bytes
  BY <1>2, Unanswered
<1>4. TextAccepted /\ wire["server"] \in Bytes
  BY <1>2 DEF Inv, Handshakes, Types
<1>5. asked = to_string(Wanted) /\ need["server"] = 0
  BY <1>1, <1>4, ZenonT(30) DEF TextAccepted
<1>6. ReadAs(accepted')
  <2>1. CASE AcceptText
    BY <1>5, <2>1, ZenonT(30) DEF AcceptText, ReadAs, ThroughScript
  <2>2. CASE MisreadText
    <3>1. PICK i \in DOMAIN asked.host, j \in DOMAIN asked.host :
            accepted' = from_str([asked EXCEPT !.host = SubSeq(asked.host, i, j)])
      BY <2>2 DEF MisreadText
    <3>2. asked \in [host : Seq(TextByte), port : Nat]
      <4>1. Wanted \in Endpoints
        BY <1>2 DEF Inv, Chain
      <4> QED BY <1>5, <4>1, PrintedType
    <3>3. SubSeq(asked.host, i, j) \in Seq(TextByte)
      <4>1. i \in 1 .. Len(asked.host) /\ j \in 1 .. Len(asked.host) /\ asked.host \in Seq(TextByte)
        BY <3>2
      <4> QED BY <4>1
    <3>4. [asked EXCEPT !.host = SubSeq(asked.host, i, j)] \in [host : Seq(TextByte), port : Nat]
      BY <3>2, <3>3
    <3>5. accepted' \in Endpoints
      BY <3>1, <3>4, ParsedType
    <3>6. ~IsWord(to_string(Wanted).host)
      BY <1>5, <2>2 DEF MisreadText
    <3> QED BY <3>5, <3>6 DEF ReadAs
  <2> QED BY <2>1, <2>2
<1>7. Behind(wire["server"], 0) = wire["server"] /\ Len(wire["server"]) \in Nat
  BY <1>4, BytesParts
<1>8. need["server"] <= Len(wire["server"]) /\ 0 \in Nat /\ "connecting" \in Place
  BY <1>5, <1>7 DEF Place
<1>9. /\ pc' \in [End -> Place] /\ need' \in [End -> Nat] /\ wire' \in [End -> Bytes]
      /\ closed' = closed
      /\ pc'["server"] = "connecting" /\ pc'["client"] = pc["client"]
      /\ need'["server"] = 0 /\ need'["client"] = need["client"]
      /\ wire'["server"] = wire["server"] /\ wire'["client"] = wire["client"]
  BY <1>1, <1>5, <1>7, <1>8, ReadsOn DEF Inv
<1>10. OursServer' <=> OursServer
  BY <1>3, <1>9 DEF OursServer
<1>11. (ConnectReads => ConnectReads') /\ (UpgradeReads => UpgradeReads')
  BY <1>1, <1>9, <1>10, SameTextConnector
<1>12. /\ protocol = "http" /\ OursClient /\ pc["client"] # "failed" => ConnectReads'
       /\ protocol = "simplex" /\ OursClient => UpgradeReads'
  BY <1>11 DEF Inv, Handshakes
<1>13. closed' = closed \cup {e \in {"server"} : pc'["server"] = "failed"}
  BY <1>9
<1>14. granted' \in BOOLEAN /\ (granted' <=> pc'["server"] = "tunnel")
  BY <1>1, <1>3, <1>9 DEF Inv, Types
<1> QED BY <1>1, <1>2, <1>5, <1>6, <1>9, <1>12, <1>13, <1>14, TextAcceptorStep

\* The answer.
LEMMA AnswerTextKeeps == ASSUME Inv, AnswerText PROVE Inv'
<1> USE BothEnds
<1> DEFINE code == IF protocol = "http" THEN OK ELSE 101
<1>1. /\ pc["server"] = "connecting" /\ protocol # "socks5"
      /\ granted' = TRUE
      /\ Goes("server", "tunnel", 0, Status(code))
      /\ UNCHANGED <<chain, asked, accepted, atyp, buf, data>>
  BY DEF AnswerText
<1>2. wire["client"] \in Bytes /\ wire["server"] \in Bytes /\ TextAccepted
  BY <1>1 DEF Inv, Types, Handshakes
<1>3. ReadAs(accepted') /\ need["server"] = 0
  BY <1>1, <1>2 DEF TextAccepted
<1>4. Behind(wire["server"], 0) = wire["server"] /\ Len(wire["server"]) \in Nat
  BY <1>2, BytesParts
<1>5. /\ code \in Nat /\ code = IF protocol = "http" THEN OK ELSE 101
      /\ need["server"] <= Len(wire["server"]) /\ 0 \in Nat /\ "tunnel" \in Place
  BY <1>3, <1>4 DEF Place, OK
<1> HIDE DEF code
<1>6. Status(code) \in Bytes
  BY <1>5, StatusParts
<1>7. /\ pc' \in [End -> Place] /\ need' \in [End -> Nat] /\ wire' \in [End -> Bytes]
      /\ closed' = closed
      /\ pc'["server"] = "tunnel" /\ pc'["client"] = pc["client"]
      /\ need'["server"] = 0 /\ need'["client"] = need["client"]
      /\ wire'["server"] = wire["server"]
      /\ wire'["client"] = Cat(wire["client"], Status(code))
  BY SMT, SMTT(30), <1>1, <1>3, <1>4, <1>5, <1>6, GoesOn DEF Inv
<1>8. /\ protocol = "http" /\ OursClient /\ pc["client"] # "failed" => ConnectReads'
      /\ protocol # "http" /\ OursClient => UpgradeReads'
  <2>1. granted'
    BY <1>1
  <2> QED BY <1>1, <1>5, <1>7, <2>1, TextSent
<1>9. closed' = closed \cup {e \in {"server"} : pc'["server"] = "failed"}
  BY <1>7
<1> QED BY <1>1, <1>3, <1>7, <1>8, <1>9, TextAcceptorStep

=============================================================================
