--------------------------- MODULE ProxyChainProofs ---------------------------
(***************************************************************************)
(* The chain of proxies, for every set of requests, every limit of a name, *)
(* every number of hops and bytes, and whoever the ends of the first       *)
(* connection are: each proxy is asked for the target of the first client  *)
(* (if its name is one word), a connector succeeds only when the proxy has *)
(* granted the connection, the tunnel begins where the handshake ends, and *)
(* the program's own ends understand each other.                           *)
(***************************************************************************)
EXTENDS HandshakeProofs

-----------------------------------------------------------------------------
(* The first connection. *)

\* A request stands for itself.
LEMMA RequestFollows ==
    ASSUME NEW r \in Requests
    PROVE  r \in Endpoints /\ Follows(r, r) /\ (r.kind = "Addr" => IsPrinted(r.host))
<1>1. r \in Endpoints /\ (r.kind = "Addr" => IsPrinted(r.host))
  BY RequestsAssumption
<1>2. ASSUME r.kind = "Addr" PROVE IsIpText(r.host)
  <2>1. PICK n \in 0 .. 9 : r.host \in {<<Digit(n), Dot>>, <<Colon, Colon, Digit(n)>>}
    BY <1>1, <1>2 DEF IsPrinted
  <2>2. CASE r.host = <<Digit(n), Dot>>
    BY <2>2 DEF IsIpText, IsIpv4Text
  <2>3. CASE r.host = <<Colon, Colon, Digit(n)>>
    BY <2>3 DEF IsIpText, IsIpv6Text
  <2> QED BY <2>1, <2>2, <2>3, Zenon
<1>3. Follows(r, r)
  BY <1>1, <1>2 DEF Follows
<1> QED BY <1>1, <1>3

\* The bytes that another program may send at once.
LEMMA TailsAreBytes == ASSUME NEW tail \in Tails PROVE tail \in Bytes
<1>1. CASE tail = <<>>
  BY <1>1 DEF Bytes
<1>2. CASE tail = <<201>>
  BY <1>2 DEF Bytes
<1> QED BY <1>1, <1>2, Zenon DEF Tails

\* The program at both ends.
LEMMA InitOursKeeps == ASSUME InitCommon, InitOurs PROVE Inv
<1>1. request \in Endpoints /\ Follows(request, origin) /\ Follows(origin, origin)
  BY RequestFollows DEF InitOurs
<1>2. pc["client"] = "dialing"
  BY DEF InitOurs
<1>3. Opened
  BY <1>1, <1>2 DEF InitCommon, InitOurs, Opened
<1> QED BY <1>3, OpenedInv

\* The state of the first connection, but for what the ends have sent.
LEMMA InitParts ==
    ASSUME InitCommon, InitOtherClient \/ InitOtherServer, Chain,
           wire["client"] \in Bytes, wire["server"] \in Bytes,
           Handshakes
    PROVE  Inv
<1> USE BothEnds
<1>1. /\ protocol \in {"socks5", "http", "simplex"} /\ closed = {} /\ buf = <<>>
      /\ granted \in BOOLEAN
  BY Zenon DEF InitCommon, InitOtherClient, InitOtherServer
<1>2. PICK tail \in Tails :
        \/ data = [client |-> tail, server |-> <<>>] /\ InitOtherClient
        \/ data = [client |-> <<>>, server |-> tail] /\ InitOtherServer
        \/ data = [e \in End |-> <<>>] /\ InitOtherServer
  BY Zenon DEF InitOtherClient, InitOtherServer
<1>3. tail \in Bytes /\ <<>> \in Bytes
  BY TailsAreBytes DEF Bytes
<1>4. /\ DOMAIN pc = End /\ pc = [e \in End |-> pc[e]]
      /\ DOMAIN need = End /\ need = [e \in End |-> need[e]]
      /\ need["client"] = 0 /\ need["server"] \in Nat
  BY DEF InitOtherClient, InitOtherServer, FirstNeed
<1>5. \/ /\ pc["client"] = "other"
         /\ pc["server"] = IF protocol = "socks5" THEN "hello" ELSE "text"
         /\ ~granted /\ data["server"] = <<>>
      \/ pc["client"] = "start" /\ pc["server"] = "other" /\ data["client"] = <<>>
  BY DEF InitOtherClient, InitOtherServer, FirstRead
<1>6. DOMAIN wire = End /\ wire = [e \in End |-> wire[e]]
  BY DEF InitOtherClient, InitOtherServer
<1>7. data \in [End -> Bytes]
  BY <1>2, <1>3
<1>8. OursClient \/ OursServer
  BY <1>5 DEF OursClient, OursServer
<1>9. pc \in [End -> Place] /\ need \in [End -> Nat] /\ wire \in [End -> Bytes] /\ buf \in Bytes
  BY <1>1, <1>3, <1>4, <1>5, <1>6 DEF Place
<1>10. Types
  BY <1>1, <1>5, <1>7, <1>8, <1>9 DEF Types
<1>11. Ends
  BY <1>1, <1>5 DEF Ends, OursServer
<1> QED BY <1>10, <1>11 DEF Inv

\* The reply of another proxy, behind its choice of a method.
Grants(good, k) ==
    /\ Len(good) >= 7 /\ Len(good) = 2 + k
    /\ good[1] = 5 /\ good[2] = 0
    /\ good[3] = 5 /\ good[4] = 0 /\ good[5] = 0 /\ good[6] \in {1, 3, 4}
    /\ k = CASE good[6] = 1 -> 10 [] good[6] = 4 -> 22 [] OTHER -> good[7] + 7

LEMMA ReplyOf ==
    ASSUME NEW good \in Bytes, NEW k \in Nat, Grants(good, k)
    PROVE  /\ Len(good) >= 7 /\ good[1] = 5 /\ good[2] = 0
           /\ IsReply(Behind(good, 2), <<>>)
<1>1. Len(good) \in Nat /\ Len(good) >= 7
  BY BytesParts, Zenon DEF Grants
<1>2. Behind(good, 2) \in Bytes /\ Len(Behind(good, 2)) = Len(good) - 2
  <2>1. 2 \in Nat /\ 2 <= Len(good)
    BY <1>1
  <2> QED BY <2>1, BytesRead
<1>3. /\ Behind(good, 2)[1] = good[3] /\ Behind(good, 2)[2] = good[4]
      /\ Behind(good, 2)[3] = good[5] /\ Behind(good, 2)[4] = good[6]
      /\ Behind(good, 2)[5] = good[7]
  <2>1. \A i \in 1 .. 5 : Behind(good, 2)[i] = good[2 + i]
    BY <1>1, BytesAt
  <2> QED BY <2>1
<1>4. ReplyLen(Behind(good, 2)) = k
  BY <1>3 DEF ReplyLen, Grants
<1>5. Len(good) = 2 + k
  BY DEF Grants
<1>6. Behind(Behind(good, 2), k) = <<>>
  <2>1. 2 + k <= Len(good)
    BY <1>1, <1>5
  <2>2. Behind(Behind(good, 2), k) = Behind(good, 2 + k)
    BY <2>1, BehindBehind DEF Bytes
  <2>3. Behind(good, Len(good)) = <<>>
    BY BytesParts
  <2> QED BY <1>5, <2>2, <2>3, Zenon
<1>7. Len(Behind(good, 2)) >= 5 /\ Len(Behind(good, 2)) >= k
  BY <1>1, <1>2, <1>5
<1>8. good[1] = 5 /\ good[2] = 0 /\ good[3] = 5 /\ good[4] = 0 /\ good[5] = 0
      /\ good[6] \in {1, 3, 4}
  BY DEF Grants
<1> QED BY <1>1, <1>3, <1>4, <1>6, <1>7, <1>8 DEF IsReply

\* Other proxies that grant the connection.
LEMMA ServersGrant ==
    ASSUME NEW good \in Socks5Servers
    PROVE  /\ good \in Bytes /\ Len(good) >= 7 /\ good[1] = 5 /\ good[2] = 0
           /\ IsReply(Behind(good, 2), <<>>)
<1>1. CASE good = <<5, 0, 5, 0, 0, 1, 0, 0, 0, 0, 0, 0>>
  <2>1. good \in Bytes /\ Len(good) = 12 /\ good[1] = 5 /\ good[2] = 0
        /\ good[3] = 5 /\ good[4] = 0 /\ good[5] = 0 /\ good[6] = 1
    BY <1>1 DEF Bytes
  <2>2. Grants(good, 10)
    BY <2>1 DEF Grants
  <2> QED BY <2>1, <2>2, ReplyOf
<1>2. CASE good = <<5, 0, 5, 0, 0, 3, 2, 100, 100, 0, 0>>
  <2>1. good \in Bytes /\ Len(good) = 11 /\ good[1] = 5 /\ good[2] = 0
        /\ good[3] = 5 /\ good[4] = 0 /\ good[5] = 0 /\ good[6] = 3 /\ good[7] = 2
    BY <1>2 DEF Bytes
  <2>2. Grants(good, 9)
    BY <2>1 DEF Grants
  <2> QED BY <2>1, <2>2, ReplyOf
<1>3. CASE good = <<5, 0, 5, 0, 0, 4>> \o [i \in 1 .. 18 |-> 0]
  <2>1. PICK head \in Bytes :
          /\ head = <<5, 0, 5, 0, 0, 4>> /\ Len(head) = 6
          /\ head[1] = 5 /\ head[2] = 0 /\ head[3] = 5 /\ head[4] = 0 /\ head[5] = 0 /\ head[6] = 4
    <3>1. LET h == <<5, 0, 5, 0, 0, 4>>
          IN  /\ h \in Bytes /\ Len(h) = 6
              /\ h[1] = 5 /\ h[2] = 0 /\ h[3] = 5 /\ h[4] = 0 /\ h[5] = 0 /\ h[6] = 4
      BY DEF Bytes
    <3> QED BY <3>1, Zenon
  <2>2. PICK zeros \in Bytes : zeros = [i \in 1 .. 18 |-> 0] /\ Len(zeros) = 18
    <3>1. [i \in 1 .. 18 |-> 0] \in Bytes /\ Len([i \in 1 .. 18 |-> 0]) = 18
      BY DEF Bytes
    <3> QED BY <3>1, Zenon
  <2>3. good = Cat(head, zeros)
    BY <1>3, <2>1, <2>2, Zenon DEF Cat
  <2>4. Cat(head, zeros) \in Bytes /\ Len(Cat(head, zeros)) = Len(head) + Len(zeros)
    BY BytesParts
  <2>5. \A i \in 1 .. 6 : Cat(head, zeros)[i] = head[i]
    <3>1. \A i \in 1 .. 6 : i \in 1 .. Len(head)
      BY <2>1
    <3> QED BY <3>1, BytesFirst
  <2>6. good \in Bytes /\ Len(good) = 24 /\ \A i \in 1 .. 6 : good[i] = head[i]
    BY <2>1, <2>2, <2>3, <2>4, <2>5
  <2>7. /\ good[1] = 5 /\ good[2] = 0 /\ good[3] = 5 /\ good[4] = 0 /\ good[5] = 0
        /\ good[6] = 4
    BY <2>1, <2>6
  <2>8. Grants(good, 22)
    BY <2>6, <2>7 DEF Grants
  <2> QED BY <2>6, <2>8, ReplyOf
<1> QED BY <1>1, <1>2, <1>3 DEF Socks5Servers

\* Another proxy.
LEMMA InitOtherServerKeeps == ASSUME InitCommon, InitOtherServer PROVE Inv
<1> USE BothEnds
<1>1. /\ pc["client"] = "start" /\ pc["server"] = "other"
      /\ need["client"] = 0 /\ need["server"] = 0
      /\ request \in Requests /\ origin = request /\ asked = NoText
      /\ data["client"] = <<>> /\ wire["server"] = <<>> /\ buf = <<>>
  BY DEF InitCommon, InitOtherServer
<1>2. protocol \in {"socks5", "http", "simplex"}
  BY DEF InitCommon
<1>3. OursClient /\ ~OursServer /\ ~BadClient /\ Wanted = request
  BY <1>1 DEF OursClient, OursServer, BadClient, Wanted
<1>4. Chain
  BY <1>1, <1>3, RequestFollows DEF Chain
<1>5. TextAccepted
  BY <1>1 DEF TextAccepted
<1>6. wire["server"] \in Bytes
  BY <1>1 DEF Bytes
<1>7. PICK tail \in Tails :
        \/ /\ granted = TRUE
           /\ data["server"] = tail
           /\ \E good \in Servers(protocol) : wire["client"] = Cat(good, tail)
        \/ /\ granted = FALSE
           /\ data["server"] = <<>>
           /\ wire["client"] \in BadServers(protocol)
  <2>1. PICK tail \in Tails :
          \/ /\ granted = TRUE
             /\ data = [client |-> <<>>, server |-> tail]
             /\ \E good \in Servers(protocol) : wire = [client |-> good \o tail, server |-> <<>>]
          \/ /\ granted = FALSE
             /\ data = [e \in End |-> <<>>]
             /\ \E bad \in BadServers(protocol) : wire = [client |-> bad, server |-> <<>>]
    BY Zenon DEF InitOtherServer
  <2>2. CASE granted = TRUE
    <3>1. PICK good \in Servers(protocol) : wire = [client |-> Cat(good, tail), server |-> <<>>]
      BY <2>1, <2>2 DEF Cat
    <3>2. wire["client"] = Cat(good, tail)
      BY <3>1
    <3>3. data["server"] = tail
      BY <2>1, <2>2
    <3> QED BY <2>2, <3>2, <3>3
  <2>3. CASE granted = FALSE
    <3>1. wire["client"] \in BadServers(protocol) /\ data["server"] = <<>>
      BY <2>1, <2>3
    <3> QED BY <2>3, <3>1
  <2> QED BY <2>1, <2>2, <2>3, Zenon
<1>8. tail \in Bytes
  BY TailsAreBytes
<1>9. CASE granted = TRUE
  <2>1. PICK good \in Servers(protocol) : wire["client"] = Cat(good, tail) /\ data["server"] = tail
    BY <1>7, <1>9
  <2>2. CASE protocol = "socks5"
    <3>1. good \in Socks5Servers
      BY <2>2 DEF Servers
    <3>2. /\ good \in Bytes /\ Len(good) >= 7 /\ good[1] = 5 /\ good[2] = 0
          /\ IsReply(Behind(good, 2), <<>>)
      BY <3>1, ServersGrant
    <3>3. Len(good) \in Nat /\ Len(tail) \in Nat /\ Len(Cat(good, tail)) = Len(good) + Len(tail)
          /\ Cat(good, tail) \in Bytes /\ Cat(<<>>, tail) = tail /\ <<>> \in Bytes
      BY <1>8, <3>2, BytesParts
    <3>4. 1 \in 1 .. Len(good) /\ 2 \in 1 .. Len(good) /\ 2 \in 0 .. Len(good) /\ 2 <= Len(good)
      BY <3>2, <3>3
    <3>5. Cat(good, tail)[1] = good[1] /\ Cat(good, tail)[2] = good[2]
      BY <1>8, <3>2, <3>4, BytesFirst
    <3>6. Behind(Cat(good, tail), 2) = Cat(Behind(good, 2), tail)
      BY <1>8, <3>2, <3>4, BehindCat DEF Bytes
    <3>7. Behind(good, 2) \in Bytes
      BY <3>2, <3>4, BytesRead
    <3>8. IsReply(Cat(Behind(good, 2), tail), Cat(<<>>, tail))
      BY <1>8, <3>2, <3>3, <3>7, ReplyCat
    <3>9. IsReply(Behind(Cat(good, tail), 2), tail)
      BY <3>3, <3>6, <3>8, Zenon
    <3>10. Len(Cat(good, tail)) >= 2
      BY <3>2, <3>3
    <3>11. ConnectorReads
      BY ZenonT(30), <1>1, <1>9, <2>1, <3>2, <3>5, <3>9, <3>10 DEF ConnectorReads
    <3>12. Handshakes
      BY <1>3, <1>9, <2>2, <3>11 DEF Handshakes
    <3> QED BY <1>4, <1>6, <2>1, <3>3, <3>12, InitParts
  <2>3. CASE protocol # "socks5"
    <3> DEFINE code == IF protocol = "http" THEN OK ELSE 101
    <3>1. good = Status(code) /\ code \in Nat
      BY <2>3 DEF Servers, OK
    <3>2. protocol = "http" => code = OK
      OBVIOUS
    <3>3. protocol # "http" => code = 101
      OBVIOUS
    <3> HIDE DEF code
    <3>4. Status(code) \in Bytes
      BY <3>1, StatusParts
    <3>5. wire["client"] = Cat(Status(code), tail) /\ wire["client"] \in Bytes
      BY <1>8, <2>1, <3>1, <3>4, BytesParts
    <3>6. Cat(buf, wire["client"]) = wire["client"]
      <4>1. Cat(<<>>, wire["client"]) = wire["client"]
        BY <3>5, BytesParts
      <4> QED BY <1>1, <4>1, Zenon
    <3>7. Answered(wire["client"], code)
      BY <1>9, <2>1, <3>5 DEF Answered
    <3>8. protocol = "http" => ConnectReads
      BY <1>1, <3>2, <3>6, <3>7 DEF ConnectReads
    <3>9. protocol # "http" => UpgradeReads
      BY <1>1, <3>3, <3>7 DEF UpgradeReads
    <3>10. Handshakes
      BY <1>3, <1>5, <2>3, <3>8, <3>9 DEF Handshakes
    <3> QED BY <1>4, <1>6, <3>5, <3>10, InitParts
  <2> QED BY <2>2, <2>3
<1>10. CASE granted = FALSE
  <2>1. wire["client"] \in BadServers(protocol) /\ data["server"] = <<>>
    BY <1>7, <1>10
  <2>2. CASE protocol = "socks5"
    <3>1. wire["client"] \in Socks5BadServers
      BY <2>1, <2>2 DEF BadServers
    <3>2. wire["client"] \in Bytes
      BY <3>1, BadServerParts
    <3>3. ConnectorReadsBad
      BY <1>1, <3>1 DEF ConnectorReadsBad
    <3>4. Handshakes
      BY <1>3, <1>10, <2>2, <3>3 DEF Handshakes
    <3> QED BY <1>4, <1>6, <3>2, <3>4, InitParts
  <2>3. CASE protocol # "socks5"
    <3>1. wire["client"] \in Refusals /\ wire["client"] \in {<<0>>, <<72>>, Status(BadRequest)}
      BY <2>1, <2>3, Zenon DEF BadServers, Refusals
    <3>2. wire["client"] \in Bytes
      <4>1. <<0>> \in Bytes /\ <<72>> \in Bytes /\ Status(BadRequest) \in Bytes
        BY DEF Bytes, Status, BadRequest
      <4> QED BY <3>1, <4>1, Zenon
    <3>3. Cat(buf, wire["client"]) = wire["client"]
      <4>1. Cat(<<>>, wire["client"]) = wire["client"]
        BY <3>2, BytesParts
      <4> QED BY <1>1, <4>1, Zenon
    <3>4. Answered(wire["client"], OK) /\ Answered(wire["client"], 101)
      BY <1>3, <1>10, <2>1, <3>1 DEF Answered
    <3>5. ConnectReads
      BY <1>1, <3>3, <3>4 DEF ConnectReads
    <3>6. UpgradeReads
      BY <1>1, <3>4 DEF UpgradeReads
    <3>7. Handshakes
      BY <1>3, <1>5, <2>3, <3>5, <3>6 DEF Handshakes
    <3> QED BY <1>4, <1>6, <3>2, <3>7, InitParts
  <2> QED BY <2>2, <2>3
<1> QED BY <1>7, <1>9, <1>10, Zenon

\* The literal parts of what another client sends.
LEMMA ClientLiterals ==
    ASSUME NEW t \in Nat
    PROVE  /\ <<5, 2>> \in Bytes /\ <<1, 0>> \in Bytes /\ <<5, 1, 0>> \in Bytes /\ <<t>> \in Bytes
           /\ <<5, 2, 1, 0, 5, 1, 0>> = Cat(Cat(<<5, 2>>, <<1, 0>>), <<5, 1, 0>>)
           /\ <<5, 1, 0, t>> = Cat(<<5, 1, 0>>, <<t>>)
<1>1. /\ <<5, 2>> \in Bytes /\ <<1, 0>> \in Bytes /\ <<5, 1, 0>> \in Bytes /\ <<t>> \in Bytes
  BY DEF Bytes
<1>2. <<5, 2, 1, 0, 5, 1, 0>> = Cat(Cat(<<5, 2>>, <<1, 0>>), <<5, 1, 0>>)
  <2>1. PICK a \in Bytes, b \in Bytes, x \in Bytes, y \in Bytes, z \in Bytes :
          /\ a = <<5, 2>> /\ b = <<5, 2, 1, 0>> /\ x = <<5>> /\ y = <<1>> /\ z = <<0>>
    <3>1. /\ <<5, 2, 1, 0>> \in Bytes /\ <<5>> \in Bytes /\ <<1>> \in Bytes /\ <<0>> \in Bytes
      BY DEF Bytes
    <3> QED BY <1>1, <3>1, Zenon
  <2>2. <<1, 0>> = Cat(y, z) /\ <<5, 1>> = Cat(x, y)
    BY <2>1 DEF Cat
  <2>3. <<5, 1, 0>> = Cat(Cat(x, y), z)
    <3>1. <<5, 1, 0>> = Cat(<<5, 1>>, <<0>>)
      BY DEF Cat
    <3> QED BY <2>1, <2>2, <3>1, Zenon
  <2>4. <<5, 2, 1, 0>> = Cat(Cat(a, y), z)
    <3>1. <<5, 2, 1>> = Cat(<<5, 2>>, <<1>>)
      BY DEF Cat
    <3>2. <<5, 2, 1, 0>> = Cat(<<5, 2, 1>>, <<0>>)
      BY DEF Cat
    <3> QED BY <2>1, <3>1, <3>2, Zenon
  <2>5. <<5, 2, 1, 0, 5, 1, 0>> = Cat(Cat(Cat(b, x), y), z)
    <3>1. <<5, 2, 1, 0, 5>> = Cat(<<5, 2, 1, 0>>, <<5>>)
      BY DEF Cat
    <3>2. <<5, 2, 1, 0, 5, 1>> = Cat(<<5, 2, 1, 0, 5>>, <<1>>)
      BY DEF Cat
    <3>3. <<5, 2, 1, 0, 5, 1, 0>> = Cat(<<5, 2, 1, 0, 5, 1>>, <<0>>)
      BY DEF Cat
    <3> QED BY <2>1, <3>1, <3>2, <3>3, Zenon
  <2> DEFINE all == Cat(Cat(<<5, 2>>, <<1, 0>>), <<5, 1, 0>>)
  <2>6. all = Cat(Cat(a, Cat(y, z)), Cat(Cat(x, y), z))
    BY <2>1, <2>2, <2>3, Zenon
  <2> HIDE <2>1 DEF all
  <2>7. Cat(a, Cat(y, z)) = Cat(Cat(a, y), z)
    BY CatAssociative DEF Bytes
  <2>8. Cat(x, y) \in Bytes /\ Cat(b, x) \in Bytes
    BY CatType DEF Bytes
  <2>9. Cat(b, Cat(Cat(x, y), z)) = Cat(Cat(b, Cat(x, y)), z)
    BY <2>8, CatAssociative DEF Bytes
  <2>10. Cat(b, Cat(x, y)) = Cat(Cat(b, x), y)
    BY CatAssociative DEF Bytes
  <2> QED BY <2>1, <2>4, <2>5, <2>6, <2>7, <2>9, <2>10, Zenon DEF all
<1>3. <<5, 1, 0, t>> = Cat(<<5, 1, 0>>, <<t>>)
  BY DEF Cat
<1> QED BY <1>1, <1>2, <1>3

\* Another client's request, in the parts that the acceptor reads: first all of
\* it in one row, then with the method apart from the rest.
LEMMA Regrouped ==
    ASSUME NEW t \in Nat, NEW a \in Bytes, NEW port \in Bytes, NEW tail \in Bytes
    PROVE  Cat(Cat(Cat(<<5, 2, 1, 0, 5, 1, 0>>, Cat(<<t>>, a)), port), tail) =
             Cat(<<5, 2>>, Cat(<<1, 0>>, Cat(<<5, 1, 0, t>>, Cat(a, Cat(port, tail)))))
<1>1. PICK h1 \in Bytes, h2 \in Bytes, h3 \in Bytes, ty \in Bytes :
        /\ h1 = <<5, 2>> /\ h2 = <<1, 0>> /\ h3 = <<5, 1, 0>> /\ ty = <<t>>
        /\ <<5, 2, 1, 0, 5, 1, 0>> = Cat(Cat(h1, h2), h3) /\ <<5, 1, 0, t>> = Cat(h3, ty)
  BY ClientLiterals, Zenon
<1> DEFINE rest == Cat(a, Cat(port, tail))
<1>2. /\ Cat(h1, h2) \in Bytes /\ Cat(ty, a) \in Bytes /\ Cat(port, tail) \in Bytes
      /\ rest \in Bytes
  BY CatType DEF Bytes
<1>3. Cat(Cat(h1, h2), h3) \in Bytes /\ Cat(ty, rest) \in Bytes
  BY <1>2, CatType DEF Bytes
<1>4. Cat(h3, Cat(ty, rest)) \in Bytes
  BY <1>3, CatType DEF Bytes
<1> DEFINE head == Cat(Cat(h1, h2), h3)
<1>5. Cat(Cat(Cat(head, Cat(ty, a)), port), tail) = Cat(head, Cat(ty, rest))
  <2> HIDE DEF head
  <2>1. head \in Bytes
    BY <1>3 DEF head
  <2>2. Cat(head, Cat(ty, a)) \in Bytes
    BY <1>2, <2>1, CatType DEF Bytes
  <2>3. Cat(Cat(Cat(head, Cat(ty, a)), port), tail) = Cat(Cat(head, Cat(ty, a)), Cat(port, tail))
    BY <2>2, CatAssociative DEF Bytes
  <2>4. Cat(Cat(head, Cat(ty, a)), Cat(port, tail)) = Cat(head, Cat(Cat(ty, a), Cat(port, tail)))
    BY <1>2, <2>1, CatAssociative DEF Bytes
  <2>5. Cat(Cat(ty, a), Cat(port, tail)) = Cat(ty, Cat(a, Cat(port, tail)))
    BY <1>2, CatAssociative DEF Bytes
  <2> QED BY <2>3, <2>4, <2>5, Zenon
<1> HIDE DEF rest
<1>6. Cat(Cat(Cat(h1, h2), h3), Cat(ty, rest)) = Cat(h1, Cat(h2, Cat(h3, Cat(ty, rest))))
  <2>1. Cat(Cat(Cat(h1, h2), h3), Cat(ty, rest)) = Cat(Cat(h1, h2), Cat(h3, Cat(ty, rest)))
    BY <1>2, <1>3, CatAssociative DEF Bytes
  <2>2. Cat(Cat(h1, h2), Cat(h3, Cat(ty, rest))) = Cat(h1, Cat(h2, Cat(h3, Cat(ty, rest))))
    BY <1>4, CatAssociative DEF Bytes
  <2> QED BY <2>1, <2>2, Zenon
<1>7. Cat(Cat(h3, ty), rest) = Cat(h3, Cat(ty, rest))
  BY <1>2, CatAssociative DEF Bytes
<1>8. Cat(Cat(Cat(<<5, 2, 1, 0, 5, 1, 0>>, Cat(<<t>>, a)), port), tail) =
        Cat(<<5, 2>>, Cat(<<1, 0>>, Cat(<<5, 1, 0, t>>, rest)))
  BY <1>1, <1>5, <1>6, <1>7, Zenon
<1> QED BY <1>8, Zenon DEF rest

\* The address of another client's request, behind its type.
LEMMA ClientAddress ==
    ASSUME ~OursClient, origin \in Endpoints, Type \in {1, 3, 4}, NEW tail \in Bytes,
           PortBytes(origin.port) \in Bytes, Address \in Bytes, origin.host \in Bytes,
           Type = 1 => origin.host[1] - 48 \in Nat, Type = 4 => origin.host[3] - 48 \in Nat
    PROVE  \E a \in Bytes :
             /\ Socks5Client(origin) \o tail =
                  Cat(Cat(Cat(<<5, 2, 1, 0, 5, 1, 0>>, Cat(<<Type>>, a)),
                          PortBytes(origin.port)), tail)
             /\ a = IF Type = 3 THEN Cat(<<Len(origin.host)>>, Address) ELSE Address
<1>1. Wanted = origin
  BY DEF Wanted
<1> DEFINE host == origin.host
           port == PortBytes(origin.port)
           address == IF origin.kind = "Domain" THEN <<3, Len(host)>> \o host
                      ELSE IF IsIpv4Text(host) THEN <<1, 127, 0, 0, host[1] - 48>>
                      ELSE <<4>> \o [i \in 1 .. 15 |-> 0] \o <<host[3] - 48>>
<1>2. Socks5Client(origin) \o tail =
        Cat(Cat(Cat(<<5, 2, 1, 0, 5, 1, 0>>, address), port), tail)
  BY Zenon DEF Socks5Client, Cat
<1>3. ASSUME NEW a \in Bytes, address = Cat(<<Type>>, a),
             a = IF Type = 3 THEN Cat(<<Len(origin.host)>>, Address) ELSE Address
      PROVE  \E b \in Bytes :
               /\ Socks5Client(origin) \o tail =
                    Cat(Cat(Cat(<<5, 2, 1, 0, 5, 1, 0>>, Cat(<<Type>>, b)),
                            PortBytes(origin.port)), tail)
               /\ b = IF Type = 3 THEN Cat(<<Len(origin.host)>>, Address) ELSE Address
  BY <1>2, <1>3, Zenon
<1> HIDE DEF port
<1>4. CASE origin.kind = "Domain"
  <2>1. Type = 3 /\ Address = host
    BY <1>1, <1>4 DEF Type, Address
  <2>2. Len(host) \in Nat
    BY DEF Bytes
  <2>3. PICK three \in Bytes, l \in Bytes, h \in Bytes :
          three = <<3>> /\ l = <<Len(host)>> /\ h = host
    <3>1. <<3>> \in Bytes /\ <<Len(host)>> \in Bytes
      BY <2>2 DEF Bytes
    <3> QED BY <3>1, Zenon
  <2>4. <<3, Len(host)>> = Cat(<<3>>, <<Len(host)>>)
    BY <2>2 DEF Cat
  <2>5. address = Cat(<<3, Len(host)>>, host)
    BY <1>4 DEF Cat
  <2> HIDE DEF address, host
  <2>6. Cat(l, h) \in Bytes /\ Cat(Cat(three, l), h) = Cat(three, Cat(l, h))
    BY CatType, CatAssociative DEF Bytes
  <2>7. <<Type>> = three
    BY <2>1, <2>3
  <2>8. address = Cat(<<Type>>, Cat(l, h))
    BY <2>3, <2>4, <2>5, <2>6, <2>7, Zenon
  <2>9. Cat(l, h) = IF Type = 3 THEN Cat(<<Len(origin.host)>>, Address) ELSE Address
    BY <2>1, <2>3, Zenon DEF host
  <2> QED BY ZenonT(30), <1>3, <2>6, <2>8, <2>9
<1>5. CASE origin.kind # "Domain" /\ IsIpv4Text(host)
  <2>1. Type = 1 /\ Address = <<127, 0, 0, host[1] - 48>>
    BY <1>1, <1>5 DEF Type, Address
  <2>2. host[1] - 48 \in Nat
    BY <2>1
  <2>3. <<1, 127, 0, 0, host[1] - 48>> = Cat(<<1>>, <<127, 0, 0, host[1] - 48>>)
    BY <2>2 DEF Cat
  <2>4. address = Cat(<<Type>>, Address)
    BY <1>5, <2>1, <2>3
  <2>5. Type # 3
    BY <2>1
  <2> QED BY <1>3, <2>4, <2>5, Zenon
<1>6. CASE origin.kind # "Domain" /\ ~IsIpv4Text(host)
  <2>1. Type = 4 /\ Type # 3
    BY <1>6 DEF Type
  <2>2. Address = Cat([i \in 1 .. 15 |-> 0], <<host[3] - 48>>)
    BY <1>1, <2>1 DEF Address
  <2>3. address = Cat(Cat(<<4>>, [i \in 1 .. 15 |-> 0]), <<host[3] - 48>>)
    BY <1>6 DEF Cat
  <2>4. host[3] - 48 \in Nat
    BY <2>1
  <2>5. PICK four \in Bytes, zeros \in Bytes, last \in Bytes :
          four = <<4>> /\ zeros = [i \in 1 .. 15 |-> 0] /\ last = <<host[3] - 48>>
    <3>1. <<4>> \in Bytes /\ [i \in 1 .. 15 |-> 0] \in Bytes /\ <<host[3] - 48>> \in Bytes
      BY <2>4 DEF Bytes
    <3> QED BY <3>1, Zenon
  <2> HIDE DEF address, host
  <2>6. Cat(Cat(four, zeros), last) = Cat(four, Cat(zeros, last))
    BY CatAssociative DEF Bytes
  <2>7. <<Type>> = four
    BY <2>1, <2>5
  <2>8. address = Cat(<<Type>>, Address)
    BY <2>2, <2>3, <2>5, <2>6, <2>7, Zenon
  <2> QED BY <1>3, <2>1, <2>8
<1> QED BY <1>4, <1>5, <1>6, Zenon

\* Another client.
LEMMA InitOtherClientKeeps == ASSUME InitCommon, InitOtherClient PROVE Inv
<1> USE BothEnds
<1>1. /\ pc["client"] = "other"
      /\ pc["server"] = IF protocol = "socks5" THEN "hello" ELSE "text"
      /\ need["client"] = 0 /\ need["server"] = IF protocol = "socks5" THEN 2 ELSE 0
      /\ ~granted /\ data["server"] = <<>> /\ wire["client"] = <<>>
  BY DEF InitOtherClient, FirstRead, FirstNeed
<1>2. ~OursClient /\ OursServer /\ Wanted = origin
  BY <1>1 DEF OursClient, OursServer, Wanted
<1>3. wire["client"] \in Bytes
  BY <1>1 DEF Bytes
<1>4. PICK tail \in Tails :
        /\ data["client"] = tail
        /\ \/ /\ origin \in Requests /\ protocol = "socks5"
              /\ wire["server"] = Socks5Client(origin) \o tail
           \/ /\ protocol = "socks5" /\ tail = <<>> /\ origin = NoEndpoint
              /\ wire["server"] \in Socks5BadClients
           \/ /\ origin \in Requests /\ protocol # "socks5" /\ tail = <<>>
              /\ asked = to_string(origin)
              /\ wire["server"] = <<>>
  <2>1. PICK tail \in Tails :
         /\ data = [client |-> tail, server |-> <<>>]
         /\ \/ /\ origin \in {r \in Requests : Len(r.host) <= MaxLength}
               /\ protocol = "socks5"
               /\ asked = NoText
               /\ wire = [client |-> <<>>, server |-> Socks5Client(origin) \o tail]
            \/ /\ protocol = "socks5"
               /\ tail = <<>>
               /\ origin = NoEndpoint
               /\ asked = NoText
               /\ \E bad \in Socks5BadClients : wire = [client |-> <<>>, server |-> bad]
            \/ /\ origin \in Requests
               /\ protocol # "socks5"
               /\ tail = <<>>
               /\ asked = to_string(origin)
               /\ wire = [e \in End |-> <<>>]
    BY Zenon DEF InitOtherClient
  <2>2. data["client"] = tail
    BY <2>1
  <2>3. ASSUME NEW all, wire = [client |-> <<>>, server |-> all] PROVE wire["server"] = all
    BY <2>3
  <2>4. wire = [e \in End |-> <<>>] => wire["server"] = <<>>
    OBVIOUS
  <2> QED BY <2>1, <2>2, <2>3, <2>4, Zenon
<1>5. tail \in Bytes /\ data["client"] \in Bytes
  BY <1>4, TailsAreBytes
<1>6. CASE origin \in Requests
  <2>1. origin \in Endpoints /\ Follows(origin, origin)
        /\ (origin.kind = "Addr" => IsPrinted(origin.host))
    BY <1>6, RequestFollows
  <2>2. ~BadClient
    BY <2>1 DEF BadClient, Endpoints
  <2>3. Chain
    BY <1>2, <2>1, <2>2 DEF Chain
  <2>4. CASE protocol = "socks5"
    <3>1. wire["server"] = Socks5Client(origin) \o tail
      BY <1>4, <2>1, <2>4 DEF NoEndpoint, Endpoints
    <3>2. /\ Type \in {1, 3, 4} /\ Address \in Bytes /\ BehindAddress \in Bytes
          /\ origin.host \in Bytes /\ Len(origin.host) \in Nat /\ PortBytes(origin.port) \in Bytes
          /\ BehindType \in Bytes /\ Asking \in Bytes
      BY <1>2, <1>5, <2>2, <2>3, QueryParts
    <3>3. /\ Type = 1 => origin.host[1] - 48 \in Nat
          /\ Type = 4 => origin.host[3] - 48 \in Nat
      <4> SUFFICES ASSUME Type # 3 PROVE /\ Type = 1 => origin.host[1] - 48 \in Nat
                                         /\ Type = 4 => origin.host[3] - 48 \in Nat
        OBVIOUS
      <4>1. origin.kind = "Addr"
        BY <1>2, <2>1 DEF Type, Endpoints
      <4>2. PICK n \in 0 .. 9 : origin.host \in {<<Digit(n), Dot>>, <<Colon, Colon, Digit(n)>>}
        BY <2>1, <4>1 DEF IsPrinted
      <4>3. CASE origin.host = <<Digit(n), Dot>>
        BY <1>2, <4>1, <4>3 DEF Type, IsIpv4Text, Digit
      <4>4. CASE origin.host = <<Colon, Colon, Digit(n)>>
        BY <1>2, <4>1, <4>4 DEF Type, IsIpv4Text, Digit, Colon
      <4> QED BY <4>2, <4>3, <4>4, Zenon
    <3>4. PICK a \in Bytes :
             /\ Socks5Client(origin) \o tail =
                  Cat(Cat(Cat(<<5, 2, 1, 0, 5, 1, 0>>, Cat(<<Type>>, a)),
                          PortBytes(origin.port)), tail)
             /\ a = IF Type = 3 THEN Cat(<<Len(origin.host)>>, Address) ELSE Address
      BY <1>2, <1>5, <2>1, <3>2, <3>3, ClientAddress, Zenon
    <3>5. Type \in Nat
      BY <3>2
    <3>6. Cat(Cat(Cat(<<5, 2, 1, 0, 5, 1, 0>>, Cat(<<Type>>, a)), PortBytes(origin.port)), tail) =
            Cat(<<5, 2>>, Cat(<<1, 0>>, Cat(<<5, 1, 0, Type>>, Cat(a, Cat(PortBytes(origin.port), tail)))))
      BY <1>5, <3>2, <3>5, Regrouped
    <3>7. Cat(PortBytes(origin.port), tail) = BehindAddress
      BY <1>2, <1>4 DEF BehindAddress
    <3>8. Cat(a, BehindAddress) = BehindType
      <4>1. CASE Type = 3
        <5>1. PICK l \in Bytes : l = <<Len(origin.host)>>
          <6>1. <<Len(origin.host)>> \in Bytes
            BY <3>2 DEF Bytes
          <6> QED BY <6>1, Zenon
        <5>2. Cat(Cat(l, Address), BehindAddress) = Cat(l, Cat(Address, BehindAddress))
          BY <3>2, CatAssociative DEF Bytes
        <5>3. BehindType = Cat(l, Cat(Address, BehindAddress))
          BY <1>2, <4>1, <5>1, Zenon DEF BehindType
        <5> QED BY <3>4, <4>1, <5>1, <5>2, <5>3, Zenon
      <4>2. CASE Type # 3
        BY <3>4, <4>2, Zenon DEF BehindType
      <4> QED BY <4>1, <4>2
    <3>9. wire["server"] = Cat(<<5, 2>>, Cat(Methods, Asking)) /\ Methods = <<1, 0>>
      <4>1. Methods = <<1, 0>>
        BY <1>2 DEF Methods
      <4> QED BY <3>1, <3>4, <3>6, <3>7, <3>8, <4>1, Zenon DEF Asking
    <3>10. Methods \in Bytes /\ Len(Methods) = 2 /\ <<5, 2>> \in Bytes
      <4>1. <<1, 0>> \in Bytes /\ Len(<<1, 0>>) = 2 /\ <<5, 2>> \in Bytes
        BY DEF Bytes
      <4> QED BY <3>9, <4>1, Zenon
    <3>11. wire["server"] \in Bytes
      <4>1. Cat(Methods, Asking) \in Bytes
        BY <3>2, <3>10, BytesParts
      <4>2. Cat(<<5, 2>>, Cat(Methods, Asking)) \in Bytes
        BY <3>10, <4>1, BytesParts
      <4> QED BY <3>9, <4>2, Zenon
    <3>12. AcceptorReads
      <4>1. wire["server"] = Cat(<<5, Len(Methods)>>, Cat(Methods, Asking))
        BY <3>9, <3>10, Zenon
      <4>2. \E later \in {<<>>, Asking} : wire["server"] = Cat(<<5, Len(Methods)>>, Cat(Methods, later))
        BY <4>1, Zenon
      <4>3. pc["server"] = "hello" /\ need["server"] = 2
        BY <1>1, <2>4
      <4> QED BY <4>2, <4>3 DEF AcceptorReads
    <3>13. Handshakes
      BY <1>2, <2>2, <2>4, <3>12 DEF Handshakes
    <3> QED BY <1>3, <2>3, <3>11, <3>13, InitParts
  <2>5. CASE protocol # "socks5"
    <3>1. data["client"] = <<>> /\ wire["server"] = <<>> /\ asked = to_string(origin)
      BY <1>4, <2>5
    <3>2. TextAccepted
      BY <1>1, <1>2, <2>5, <3>1 DEF TextAccepted
    <3>3. Handshakes
      BY <1>2, <2>5, <3>2 DEF Handshakes
    <3>4. wire["server"] \in Bytes
      BY <3>1 DEF Bytes
    <3> QED BY <1>3, <2>3, <3>3, <3>4, InitParts
  <2> QED BY <2>4, <2>5
<1>7. CASE origin \notin Requests
  <2>1. protocol = "socks5" /\ origin = NoEndpoint /\ wire["server"] \in Socks5BadClients
    BY <1>4, <1>7
  <2>2. BadClient
    BY <1>2, <2>1 DEF BadClient, NoEndpoint
  <2>3. Chain
    BY <1>2, <2>1, <2>2 DEF Chain, NoEndpoint
  <2>4. wire["server"] \in Bytes
    BY <2>1, BadClientParts
  <2>5. AcceptorReadsBad
    BY <1>1, <2>1 DEF AcceptorReadsBad
  <2>6. Handshakes
    BY <1>2, <2>1, <2>2, <2>5 DEF Handshakes
  <2> QED BY <1>3, <2>3, <2>4, <2>6, InitParts
<1> QED BY <1>6, <1>7

-----------------------------------------------------------------------------
(* The theorems. *)

\* Whoever is at the ends of the first connection.
LEMMA InitInv == ASSUME Init PROVE Inv
BY InitOursKeeps, InitOtherClientKeeps, InitOtherServerKeeps DEF Init

\* A step of a handshake.
LEMMA HandshakeKeeps == ASSUME Inv, Handshake PROVE Inv'
<1>1. CASE Socks5Acceptor
  BY ZenonT(30), <1>1, HelloKeeps, MethodsKeep, RequestKeeps, LengthKeeps, AddressKeeps, PortKeeps,
     RespondKeeps DEF Socks5Acceptor
<1>2. CASE Socks5Connector
  BY <1>2, SendHelloKeeps, SendRequestKeeps, ReplyKeeps, ReplyLengthKeeps, ReplyRestKeeps
     DEF Socks5Connector
<1>3. CASE TextAcceptor
  BY <1>3, AcceptTextKeeps, RefuseTextKeeps, AnswerTextKeeps DEF TextAcceptor
<1>4. CASE TextConnector
  BY <1>4, TextRequestKeeps, NoUpgradeKeeps, ReadUpgradeKeeps, ReadEofKeeps, ReadAnswerKeeps DEF TextConnector
<1> QED BY <1>1, <1>2, <1>3, <1>4 DEF Handshake

\* The race is over.
LEMMA DialedKeeps == ASSUME Inv, DialTcp \/ Dialed PROVE Inv'
<1>1. /\ pc["client"] = "dialing"
      /\ UNCHANGED <<chain, asked, accepted, atyp, buf, granted, data>>
  BY DEF DialTcp, Dialed
<1>2. CASE Fails("client")
  <2>1. buf' \in Bytes
    BY <1>1 DEF Inv, Types
  <2> QED BY <1>1, <1>2, <2>1, ClientFails
<1>3. CASE ~Fails("client")
  BY <1>1, <1>3, ConnectedKeeps DEF DialTcp, Dialed
<1> QED BY <1>2, <1>3

\* Nothing of the connection changes.
LEMMA StutterKeeps == ASSUME Inv, UNCHANGED vars PROVE Inv'
<1>1. UNCHANGED <<origin, hop, protocol, request, asked, accepted, atyp, pc, need, wire, closed,
                  buf, granted, data>>
  BY DEF vars
<1>2. (OursClient' <=> OursClient) /\ (OursServer' <=> OursServer)
  BY <1>1 DEF OursClient, OursServer
<1>3. Types'
  BY ZenonT(30), <1>1, <1>2 DEF Inv, Types
<1>4. Ends'
  BY <1>1, <1>2 DEF Inv, Ends
<1>5. Chain'
  BY <1>1, <1>2, SameChain DEF Inv
<1>6. BadClient' <=> BadClient
  BY <1>1, <1>2 DEF BadClient
<1>7. (AcceptorReads => AcceptorReads') /\ (AcceptorReadsBad => AcceptorReadsBad')
  BY <1>1, <1>2, SameAcceptor
<1>8. TextAccepted => TextAccepted'
  BY <1>1, <1>2, SameTextAcceptor
<1>9. (ConnectorReads => ConnectorReads') /\ (ConnectorReadsBad => ConnectorReadsBad')
  BY ZenonT(30), <1>1, SameConnector
<1>10. InStep => InStep'
  <2>1. Asking' = Asking
    BY <1>1, <1>2, SameQuery
  <2> QED BY <1>1, <2>1 DEF InStep
<1>11. (ConnectReads => ConnectReads') /\ (UpgradeReads => UpgradeReads')
  BY ZenonT(30), <1>1, <1>2, SameTextConnector
<1>12. Handshakes'
  BY <1>1, <1>2, <1>6, <1>7, <1>8, <1>9, <1>10, <1>11 DEF Inv, Handshakes
<1> QED BY <1>3, <1>4, <1>5, <1>12 DEF Inv

\* Every step.
LEMMA NextKeeps == ASSUME Inv, [Next]_allVars PROVE Inv'
<1>1. CASE UNCHANGED allVars
  BY <1>1, StutterKeeps DEF allVars
<1>2. CASE Handshake
  BY <1>2, HandshakeKeeps
<1>3. CASE \E e \in End : PeerGone(e) \/ Dropped(e)
  BY <1>3, GoneKeeps
<1>4. CASE DialTcp \/ Dialed
  BY <1>4, DialedKeeps
<1>5. CASE DialRacing
  BY <1>5, StutterKeeps DEF DialRacing
<1>6. CASE Refuse
  BY <1>6, RefuseKeeps
<1>7. CASE \E by \in {"socks5", "http", "simplex"} : NextHop(by)
  BY <1>7, NextHopKeeps
<1>8. CASE \E e \in End : TunnelSend(e) \/ OtherCloses(e)
  BY <1>8, TunnelSendKeeps, OtherClosesKeeps
<1> QED BY <1>1, <1>2, <1>3, <1>4, <1>5, <1>6, <1>7, <1>8, Zenon DEF Next, Gone

(***************************************************************************)
(* The bytes on their way, and where each end is in reading them, agree in *)
(* every state with what the ends have to say to each other.               *)
(***************************************************************************)
THEOREM StreamsInStep == Spec => []Inv
<1>1. Init => Inv
  BY InitInv
<1>2. Inv /\ [Next]_allVars => Inv'
  BY NextKeeps
<1> QED BY <1>1, <1>2, PTL DEF Spec

\* The invariant gives the target of every hop.
LEMMA InvTarget == Inv => SameTarget
<1> SUFFICES ASSUME Inv, pc["server"] \in {"connecting", "tunnel"}
             PROVE  /\ accepted.kind # "none"
                    /\ IsWord(origin.host) =>
                         /\ Target(accepted) = Target(origin)
                         /\ hostname_is_ip(accepted) = hostname_is_ip(origin) \/ IsBracketed(origin.host)
  BY DEF SameTarget
<1>1. /\ accepted \in Endpoints /\ origin \in Endpoints
      /\ IsWord(origin.host) => Follows(accepted, origin)
      /\ origin.kind = "Addr" => IsIpText(origin.host)
  BY AcceptedFollows
<1>2. accepted.kind # "none"
  BY <1>1 DEF Endpoints
<1> QED BY <1>1, <1>2, FollowsTarget

(***************************************************************************)
(* However many proxies the request goes through, and whatever form its    *)
(* address takes on the way (socks5.rs, http.rs, simplex, Endpoint::       *)
(* from_str), each proxy is asked for the host and the port that the first *)
(* client has named, if the name is one word.                              *)
(***************************************************************************)
THEOREM TargetKept == Spec => []SameTarget
<1>1. Spec => []Inv
  BY StreamsInStep
<1> QED BY <1>1, InvTarget, PTL

\* It says which connections are granted.
LEMMA InvGranted == Inv => ConnectedOnlyWhenGranted
<1> USE BothEnds
<1> SUFFICES ASSUME Inv, pc["client"] = "tunnel"
             PROVE  granted \/ (protocol = "http" /\ "server" \in closed /\ ~IsComplete(buf))
  BY DEF ConnectedOnlyWhenGranted
<1>1. OursClient
  BY DEF OursClient
<1>2. protocol \in {"socks5", "http", "simplex"}
  BY DEF Inv, Types
<1>3. CASE protocol = "socks5"
  BY <1>1, <1>3, ConnectorOf DEF ConnectorReads, ConnectorReadsBad
<1>4. CASE protocol = "http"
  <2>1. ConnectReads
    BY <1>1, <1>4 DEF Inv, Handshakes
  <2>2. granted \/ ("server" \in closed /\ buf \in {<<>>, <<72>>})
    BY <2>1 DEF ConnectReads
  <2>3. buf \in {<<>>, <<72>>} => ~(Len(buf) >= 2)
    <3>1. Len(<<>>) = 0 /\ Len(<<72>>) = 1
      OBVIOUS
    <3>2. buf \in {<<>>, <<72>>} => Len(buf) \in {0, 1}
      BY <3>1, Zenon
    <3>3. \A k \in {0, 1} : ~(k >= 2)
      OBVIOUS
    <3> QED BY <3>2, <3>3, Zenon
  <2> QED BY <1>4, <2>2, <2>3 DEF IsComplete
<1>5. CASE protocol = "simplex"
  BY <1>1, <1>5 DEF Inv, Handshakes, UpgradeReads
<1> QED BY <1>2, <1>3, <1>4, <1>5

(***************************************************************************)
(* connect() of socks5.rs and of the simplex client returns a connection   *)
(* only when the proxy has granted it, and that of http.rs in one case     *)
(* more, when the proxy is gone in the middle of its answer.               *)
(***************************************************************************)
THEOREM ConnectionsGranted == Spec => []ConnectedOnlyWhenGranted
<1>1. Spec => []Inv
  BY StreamsInStep
<1> QED BY <1>1, InvGranted, PTL

\* It says where the tunnel begins: at the server,
LEMMA InvServerTunnel ==
    ASSUME Inv, pc["server"] = "tunnel"
    PROVE  wire["server"] = data["client"]
<1> USE BothEnds
<1>1. OursServer
  BY DEF OursServer
<1>2. CASE protocol = "socks5"
  <2>1. ~BadClient
    BY <1>1, <1>2, AcceptorOf DEF AcceptorReadsBad
  <2> QED BY ZenonT(30), <1>1, <1>2, <2>1, AcceptorOf DEF AcceptorReads
<1>3. CASE protocol # "socks5"
  BY <1>3 DEF Inv, Handshakes, TextAccepted
<1> QED BY <1>2, <1>3

\* and at the client.
LEMMA InvClientTunnel ==
    ASSUME Inv, pc["client"] = "tunnel"
    PROVE  SubSeq(buf, 3, Len(buf)) \o wire["client"] = data["server"]
<1> USE BothEnds
<1>1. OursClient
  BY DEF OursClient
<1>2. /\ wire["client"] \in Bytes /\ buf \in Bytes /\ data["server"] \in Bytes
      /\ protocol \in {"socks5", "http", "simplex"}
  BY DEF Inv, Types
<1>3. CASE protocol # "http"
  <2>1. wire["client"] = data["server"]
    BY ZenonT(30), <1>1, <1>2, <1>3, ConnectorOf
       DEF Inv, Handshakes, UpgradeReads, ConnectorReads, ConnectorReadsBad
  <2>2. buf = <<>>
    BY <1>3 DEF Inv, Ends
  <2>3. SubSeq(<<>>, 3, Len(<<>>)) = <<>>
    OBVIOUS
  <2>4. <<>> \o wire["client"] = wire["client"]
    BY <1>2, BytesParts DEF Cat
  <2> QED BY <2>1, <2>2, <2>3, <2>4, ZenonT(30)
<1>4. CASE protocol = "http"
  <2>1. ConnectReads
    BY <1>1, <1>4 DEF Inv, Handshakes
  <2>2. CASE granted
    <3>1. Len(buf) >= 2 /\ Len(buf) \in Nat
      BY ZenonT(30), <1>2, <2>1, <2>2, BytesParts DEF ConnectReads
    <3>2. Cat(buf, wire["client"]) = Cat(Status(OK), data["server"])
      BY <2>1, <2>2 DEF ConnectReads, Answered
    <3>3. Behind(Cat(buf, wire["client"]), 2) = Cat(Behind(buf, 2), wire["client"])
      BY <1>2, <3>1, BehindCat DEF Bytes
    <3>4. Status(OK) \in Bytes /\ Len(Status(OK)) = 2
      BY StatusParts DEF OK
    <3>5. Behind(Cat(Status(OK), data["server"]), 2) = data["server"]
      BY <1>2, <3>4, BytesHead, Zenon
    <3>6. Cat(Behind(buf, 2), wire["client"]) = data["server"]
      BY <3>2, <3>3, <3>5, Zenon
    <3>7. 2 + 1 = 3
      OBVIOUS
    <3> QED BY <3>6, <3>7, Zenon DEF Cat, Behind
  <2>3. CASE ~granted
    <3>1. wire["client"] = <<>> /\ buf \in {<<>>, <<72>>} /\ data["server"] = <<>>
      BY <2>1, <2>3 DEF ConnectReads, Answered
    <3>2. SubSeq(<<>>, 3, Len(<<>>)) = <<>> /\ SubSeq(<<72>>, 3, Len(<<72>>)) = <<>>
      OBVIOUS
    <3>3. <<>> \o <<>> = <<>>
      OBVIOUS
    <3> QED BY <3>1, <3>2, <3>3, Zenon
  <2> QED BY <2>2, <2>3, Zenon
<1> QED BY <1>3, <1>4, Zenon

\* So for both.
LEMMA InvTunnel == Inv => TunnelIntact
<1> USE BothEnds
<1> SUFFICES ASSUME Inv, NEW e \in End, pc[e] = "tunnel"
             PROVE  (IF e = "client" THEN SubSeq(buf, 3, Len(buf)) ELSE <<>>) \o wire[e]
                      = data[Peer(e)]
  BY Zenon DEF TunnelIntact
<1>1. CASE e = "client"
  BY <1>1, InvClientTunnel, Zenon
<1>2. CASE e = "server"
  <2>1. wire["server"] = data["client"] /\ wire["server"] \in Bytes
    BY <1>2, InvServerTunnel DEF Inv, Types
  <2>2. <<>> \o wire["server"] = wire["server"]
    BY ZenonT(30), <2>1, BytesParts DEF Cat
  <2> QED BY <1>2, <2>1, <2>2
<1> QED BY <1>1, <1>2, Zenon

(***************************************************************************)
(* read_exact() of socks5.rs, and the buffers of hyper and tungstenite,    *)
(* leave to the tunnel every byte that is sent behind a handshake, in both *)
(* directions, however much comes with the handshake; connector/http.rs    *)
(* drops what it has read behind the answer, and no more.                  *)
(***************************************************************************)
THEOREM TunnelsIntact == Spec => []TunnelIntact
<1>1. Spec => []Inv
  BY StreamsInStep
<1> QED BY <1>1, InvTunnel, PTL

-----------------------------------------------------------------------------
(* The program's own ends. *)

\* Both ends are the program's, and neither has given up.
Both == OursClient /\ OursServer /\ closed = {}

\* A step that does not fail closes nothing.
LEMMA EnsureCloses ==
    ASSUME NEW condition, NEW e, NEW to, NEW n, NEW out, condition, Ensure(condition, e, to, n, out)
    PROVE  closed' = closed
BY DEF Ensure, Goes

\* The hello that the connector sends is one that the acceptor takes.
LEMMA HelloUnderstood == ASSUME Inv, Both, AcceptHello PROVE closed' = closed
<1> USE BothEnds
<1> DEFINE b == Read("server")
<1>1. /\ Reads("server", "hello")
      /\ Ensure(b[1] = 5 /\ b[2] # 0, "server", "methods", b[2], <<>>)
  BY ZenonT(30) DEF AcceptHello
<1>2. /\ pc["server"] = "hello" /\ need["server"] <= Len(wire["server"])
      /\ AcceptorReads /\ ~BadClient
      /\ wire["server"] \in Bytes
      /\ \A i \in 1 .. need["server"] : b[i] = wire["server"][i]
  BY <1>1, AcceptorAt DEF Both
<1>3. need["server"] = 2
  BY <1>2 DEF AcceptorReads
<1>4. b[1] = wire["server"][1] /\ b[2] = wire["server"][2]
  BY <1>2, <1>3
<1>5. wire["server"] # <<>>
  BY <1>2, <1>3
<1>6. PICK later \in {<<>>, Asking} :
        wire["server"] = Cat(<<5, Len(Methods)>>, Cat(Methods, later))
  BY <1>2, <1>5 DEF AcceptorReads
<1>7. Methods \in Bytes /\ Asking \in Bytes /\ Len(Methods) = 1
  <2>1. Methods \in Bytes /\ Asking \in Bytes
    BY <1>2, QueryTypes DEF Inv
  <2>2. Len(Methods) = 1
    BY DEF Both, Methods
  <2> QED BY <2>1, <2>2
<1>8. PICK head \in Bytes :
        /\ head = <<5, Len(Methods)>> /\ 1 \in 1 .. Len(head) /\ 2 \in 1 .. Len(head)
        /\ head[1] = 5 /\ head[2] = 1
  <2>1. /\ <<5, Len(Methods)>> \in Bytes
        /\ 1 \in 1 .. Len(<<5, Len(Methods)>>) /\ 2 \in 1 .. Len(<<5, Len(Methods)>>)
        /\ <<5, Len(Methods)>>[1] = 5 /\ <<5, Len(Methods)>>[2] = 1
    BY <1>7 DEF Bytes
  <2> QED BY <2>1, Zenon
<1>9. later \in Bytes /\ Cat(Methods, later) \in Bytes
  BY <1>7, BytesParts, Zenon
<1>10. wire["server"] = Cat(head, Cat(Methods, later))
  BY <1>6, <1>8, Zenon
<1>11. /\ Cat(head, Cat(Methods, later))[1] = head[1]
       /\ Cat(head, Cat(Methods, later))[2] = head[2]
  BY <1>8, <1>9, BytesFirst, Zenon
<1>12. wire["server"][1] = 5 /\ wire["server"][2] = 1
  BY <1>8, <1>10, <1>11, Zenon
<1>13. b[1] = 5 /\ b[2] # 0
  BY <1>4, <1>12
<1> QED BY <1>1, <1>13, EnsureCloses, Zenon

\* It offers the method that the acceptor looks for.
LEMMA MethodsUnderstood == ASSUME Inv, Both, AcceptMethods PROVE closed' = closed
<1> USE BothEnds
<1> DEFINE b == Read("server")
           found == \E i \in DOMAIN b : b[i] = 0
<1>1. Reads("server", "methods") /\ Ensure(found, "server", "request", 4, <<5, 0>>)
  BY Zenon DEF AcceptMethods
<1>2. /\ pc["server"] = "methods"
      /\ AcceptorReads /\ ~BadClient
      /\ b = SubSeq(wire["server"], 1, need["server"])
  BY <1>1, AcceptorAt DEF Both
<1>3. PICK later \in {<<>>, Asking} :
        need["server"] = Len(Methods) /\ wire["server"] = Cat(Methods, later)
  BY <1>2 DEF AcceptorReads
<1>4. Methods \in Bytes /\ Asking \in Bytes
  BY <1>2, QueryTypes DEF Inv
<1>5. later \in Bytes
  BY <1>4, BytesParts, Zenon
<1>6. SubSeq(Cat(Methods, later), 1, Len(Methods)) = Methods
  BY <1>4, <1>5, BytesHead, Zenon
<1>7. b = Methods
  BY <1>2, <1>3, <1>6, Zenon
<1>8. Methods = <<0>>
  BY DEF Methods, Both
<1>9. 1 \in DOMAIN <<0>> /\ <<0>>[1] = 0
  OBVIOUS
<1>10. found
  BY <1>7, <1>8, <1>9, Zenon
<1> QED BY <1>1, <1>10, EnsureCloses, Zenon

\* Its request is one for a connection, to a domain.
LEMMA RequestUnderstood == ASSUME Inv, Both, AcceptRequest PROVE closed' = closed
<1> USE BothEnds
<1> DEFINE b == Read("server")
           good == b[1] = 5 /\ b[2] = 1 /\ b[4] \in {1, 3, 4}
           to == IF b[4] = 3 THEN "length" ELSE "address"
           n == CASE b[4] = 1 -> 4 [] b[4] = 4 -> 16 [] OTHER -> 1
<1>1. Reads("server", "request") /\ Ensure(good, "server", to, n, <<>>)
  BY DEF AcceptRequest
<1>2. /\ pc["server"] = "request" /\ need["server"] <= Len(wire["server"])
      /\ AcceptorReads /\ ~BadClient
      /\ b = SubSeq(wire["server"], 1, need["server"])
      /\ wire["server"] \in Bytes
  BY <1>1, AcceptorAt DEF Both
<1>3. need["server"] = 4 /\ wire["server"] \in {<<>>, Asking}
  BY <1>2 DEF AcceptorReads
<1>4. wire["server"] # <<>>
  BY <1>2, <1>3
<1>5. wire["server"] = Asking
  BY <1>3, <1>4
<1>6. Type \in {1, 3, 4} /\ BehindType \in Bytes
  BY <1>2, QueryTypes DEF Inv
<1>7. PICK head \in Bytes :
        /\ head = <<5, 1, 0, Type>> /\ Len(head) = 4
        /\ head[1] = 5 /\ head[2] = 1 /\ head[4] = Type
  <2>1. /\ <<5, 1, 0, Type>> \in Bytes /\ Len(<<5, 1, 0, Type>>) = 4
        /\ <<5, 1, 0, Type>>[1] = 5 /\ <<5, 1, 0, Type>>[2] = 1 /\ <<5, 1, 0, Type>>[4] = Type
    BY <1>6 DEF Bytes
  <2> QED BY <2>1, Zenon
<1>8. SubSeq(Cat(head, BehindType), 1, 4) = head
  BY <1>6, <1>7, BytesHead, Zenon
<1>9. wire["server"] = Cat(head, BehindType)
  BY <1>5, <1>7, Zenon DEF Asking
<1>10. b = head
  BY <1>2, <1>3, <1>8, <1>9, Zenon
<1>11. good
  BY <1>6, <1>7, <1>10, Zenon
<1> HIDE DEF good, to, n
<1> QED BY <1>1, <1>11, EnsureCloses, Zenon

\* The name in it is text.
LEMMA AddressUnderstood == ASSUME Inv, Both, AcceptAddress PROVE closed' = closed
<1> USE BothEnds
<1> DEFINE b == Read("server")
<1>1. Reads("server", "address") /\ Ensure(atyp # 3 \/ IsUtf8(b), "server", "port", 2, <<>>)
  BY DEF AcceptAddress
<1>2. /\ pc["server"] = "address"
      /\ AcceptorReads /\ ~BadClient
      /\ b = SubSeq(wire["server"], 1, need["server"])
  BY <1>1, AcceptorAt DEF Both
<1>3. need["server"] = Len(Address) /\ wire["server"] = Cat(Address, BehindAddress) /\ atyp = Type
  BY <1>2 DEF AcceptorReads
<1>4. Address \in Bytes /\ BehindAddress \in Bytes
  BY <1>2, QueryTypes DEF Inv
<1>5. SubSeq(Cat(Address, BehindAddress), 1, Len(Address)) = Address
  BY <1>4, BytesHead, Zenon
<1>6. b = Address
  BY <1>2, <1>3, <1>5, Zenon
<1>7. Type = 3 => IsUtf8(Address)
  BY <1>2, AddressMeans DEF Inv
<1>8. atyp # 3 \/ IsUtf8(b)
  BY <1>3, <1>6, <1>7, Zenon
<1> QED BY <1>1, <1>8, EnsureCloses, Zenon

\* The method is the one the connector has offered, and the request is sent,
\* if the name is not too long.
LEMMA MethodUnderstood ==
    ASSUME Inv, Both, SendRequest
    PROVE  closed' = closed \/ (protocol = "socks5" /\ Len(request.host) > MaxLength)
<1> USE BothEnds
<1> DEFINE b == Read("client")
           text == hostname(request)
           out == <<5, 1, 0, 3, LengthByte(text)>> \o text \o PortBytes(request.port)
           good == b = <<5, 0>> /\ LengthByte(text) <= MaxLength
<1>1. Reads("client", "method") /\ Ensure(good, "client", "reply", 4, out)
  BY DEF SendRequest
<1> HIDE DEF out
<1>2. /\ pc["client"] = "method" /\ need["client"] <= Len(wire["client"])
      /\ protocol = "socks5"
      /\ ConnectorReads /\ InStep /\ ~BadClient
      /\ b = SubSeq(wire["client"], 1, need["client"])
      /\ wire["client"] \in Bytes
  BY <1>1, ConnectorAt DEF Both
<1>3. ~granted
  BY <1>2 DEF InStep, Inv, Ends, Both
<1>4. need["client"] = 2 /\ wire["client"] \in {<<>>, <<5, 0>>}
  BY <1>2, <1>3 DEF ConnectorReads
<1>5. wire["client"] # <<>>
  BY <1>2, <1>4
<1>6. wire["client"] = <<5, 0>>
  BY <1>4, <1>5
<1>7. SubSeq(<<5, 0>>, 1, 2) = <<5, 0>>
  <2>1. PICK x \in Bytes : x = <<5, 0>> /\ Len(x) = 2
    <3>1. <<5, 0>> \in Bytes /\ Len(<<5, 0>>) = 2
      BY DEF Bytes
    <3> QED BY <3>1, Zenon
  <2>2. <<>> \in Bytes /\ Cat(x, <<>>) = x
    BY BytesParts
  <2>3. SubSeq(Cat(x, <<>>), 1, 2) = x
    BY <2>1, <2>2, BytesHead, Zenon
  <2> QED BY <2>1, <2>2, <2>3, Zenon
<1>8. b = <<5, 0>>
  BY <1>2, <1>4, <1>6, <1>7, Zenon
<1>9. Len(request.host) \in Nat
  <2>1. Len(Wanted.host) \in Nat
    BY <1>2, QueryTypes DEF Inv
  <2> QED BY <2>1 DEF Wanted, Both
<1>10. CASE Len(request.host) <= MaxLength
  <2>1. good
    BY <1>8, <1>10 DEF LengthByte, hostname
  <2> HIDE DEF good
  <2> QED BY <1>1, <2>1, EnsureCloses, Zenon
<1>11. CASE ~(Len(request.host) <= MaxLength)
  <2> HIDE DEF b
  <2>1. Len(request.host) > MaxLength
    BY <1>9, <1>11, MaxLengthAssumption
  <2> QED BY <1>2, <2>1
<1> QED BY <1>10, <1>11

\* The reply is one that the connector takes.
LEMMA ReplyUnderstood == ASSUME Inv, Both, ReadReply PROVE closed' = closed
<1> USE BothEnds
<1> DEFINE b == Read("client")
           good == b[1] = 5 /\ b[2] = 0 /\ b[3] = 0 /\ b[4] \in ReplyTypes
           to == IF b[4] = 3 THEN "reply_length" ELSE "reply_rest"
           n == ReplyRest(b[4])
<1>1. Reads("client", "reply") /\ Ensure(good, "client", to, n, <<>>)
  BY ZenonT(30) DEF ReadReply
<1>2. /\ pc["client"] = "reply" /\ need["client"] <= Len(wire["client"])
      /\ ConnectorReads
      /\ wire["client"] \in Bytes
      /\ \A i \in 1 .. need["client"] : b[i] = wire["client"][i]
  BY ZenonT(30), <1>1, ConnectorAt DEF Both
<1>3. need["client"] = 4 /\ IF granted THEN IsReply(wire["client"], data["server"])
                            ELSE wire["client"] = <<>>
  BY ZenonT(30), <1>2 DEF ConnectorReads
<1>4. wire["client"] # <<>>
  BY <1>2, <1>3
<1>5. IsReply(wire["client"], data["server"])
  BY ZenonT(30), <1>3, <1>4
<1>6. /\ b[1] = wire["client"][1] /\ b[2] = wire["client"][2]
      /\ b[3] = wire["client"][3] /\ b[4] = wire["client"][4]
  BY <1>2, <1>3
<1>7. good
  BY <1>5, <1>6 DEF IsReply, ReplyTypes
<1> HIDE DEF good, to, n
<1> QED BY <1>1, <1>7, EnsureCloses, Zenon

\* So is the answer of a simplex server,
LEMMA UpgradeUnderstood == ASSUME Inv, Both, ReadUpgrade PROVE closed' = closed
<1> USE BothEnds
<1>1. /\ pc["client"] = "upgrade" /\ Len(wire["client"]) >= need["client"]
      /\ Ensure(Read("client") = Status(101), "client", "tunnel", 0, <<>>)
  BY DEF ReadUpgrade, Reads
<1>2. protocol = "simplex" /\ protocol # "http" /\ OursClient
  BY <1>1 DEF Inv, Types, OursClient
<1>3. UpgradeReads /\ wire["client"] \in Bytes
  BY ZenonT(30), <1>1, <1>2, TextConnectorOf
<1>4. need["client"] = 2 /\ Answered(wire["client"], 101)
  BY <1>1, <1>3 DEF UpgradeReads
<1>5. wire["client"] # <<>>
  BY <1>1, <1>4
<1>6. wire["client"] = Cat(Status(101), data["server"])
  BY <1>4, <1>5 DEF Answered, Both
<1>7. Status(101) \in Bytes /\ Len(Status(101)) = 2 /\ data["server"] \in Bytes
  BY StatusParts DEF Inv, Types
<1>8. SubSeq(Cat(Status(101), data["server"]), 1, 2) = Status(101)
  BY <1>7, BytesHead, Zenon
<1>9. Read("client") = Status(101)
  BY <1>4, <1>6, <1>8, Zenon DEF Read
<1> QED BY <1>1, <1>9, EnsureCloses, Zenon

\* and every part of the answer of an HTTP proxy.
LEMMA AnswerUnderstood ==
    ASSUME Inv, Both, NEW n \in 1 .. Len(wire["client"]), ReadAnswer(n)
    PROVE  closed' = closed
<1> USE BothEnds
<1> DEFINE part == SubSeq(wire["client"], 1, n)
           rest == Behind(wire["client"], n)
           bytes == Cat(buf, part)
<1>1. pc["client"] = "answer"
  BY DEF ReadAnswer
<1>2. ~(Malformed(bytes) \/ (IsComplete(bytes) /\ ~Success(bytes))) => closed' = closed
  BY DEF ReadAnswer, Cat
<1>3. protocol = "http" /\ OursClient
  BY <1>1 DEF Inv, Types, OursClient
<1>4. ConnectReads /\ wire["client"] \in Bytes /\ buf \in Bytes
  BY <1>1, <1>3, TextConnectorOf
<1>5. part \in Bytes /\ rest \in Bytes /\ wire["client"] = Cat(part, rest) /\ Len(part) = n
  BY SMT, SMTT(30), <1>4, PrefixAndRest, FirstOf, BehindOf DEF Bytes, Behind
<1>6. bytes \in Bytes /\ Len(bytes) = Len(buf) + Len(part)
  BY <1>4, <1>5, BytesParts, Zenon
<1>7. Cat(bytes, rest) = Cat(buf, wire["client"])
  <2> HIDE DEF part, rest
  <2>1. Cat(Cat(buf, part), rest) = Cat(buf, Cat(part, rest))
    BY <1>4, <1>5, CatAssociative DEF Bytes
  <2> QED BY <1>5, <2>1, Zenon
<1>8. Len(bytes) \in Nat /\ Len(bytes) >= 1
  <2>1. Len(buf) \in Nat
    BY <1>4 DEF Bytes
  <2> QED BY <1>5, <1>6, <2>1
<1> HIDE DEF part, rest, bytes
<1>9. Cat(bytes, rest) # <<>>
  <2>1. Len(Cat(bytes, rest)) = Len(bytes) + Len(rest) /\ Len(rest) \in Nat
    BY <1>5, <1>6, BytesParts, Zenon
  <2>2. Len(Cat(bytes, rest)) >= 1
    BY <1>8, <2>1
  <2> QED BY <2>2
<1>10. Cat(bytes, rest) = Cat(Status(OK), data["server"])
  <2>1. Answered(Cat(bytes, rest), OK)
    BY <1>4, <1>7 DEF ConnectReads
  <2> QED BY ZenonT(30), <1>9, <2>1 DEF Answered, Both
<1>11. /\ Status(OK) \in Bytes /\ Len(Status(OK)) = 2
       /\ Status(OK)[1] = 72 /\ Status(OK)[2] = OK
  BY StatusParts DEF OK
<1>12. /\ 1 \in 1 .. Len(Status(OK)) /\ 2 \in 1 .. Len(Status(OK))
       /\ data["server"] \in Bytes
  BY <1>11 DEF Inv, Types
<1>13. Cat(Status(OK), data["server"])[1] = 72 /\ Cat(Status(OK), data["server"])[2] = OK
  <2>1. Cat(Status(OK), data["server"])[1] = Status(OK)[1]
    BY ZenonT(30), <1>11, <1>12, BytesFirst
  <2>2. Cat(Status(OK), data["server"])[2] = Status(OK)[2]
    BY <1>11, <1>12, BytesFirst
  <2> QED BY <1>11, <2>1, <2>2, Zenon
<1>14. bytes[1] = 72
  <2>1. 1 \in 1 .. Len(bytes)
    BY <1>8
  <2>2. Cat(bytes, rest)[1] = bytes[1]
    BY <1>5, <1>6, <2>1, BytesFirst
  <2> QED BY <1>10, <1>13, <2>2, Zenon
<1>15. Len(bytes) >= 2 => bytes[2] = OK
  <2> SUFFICES ASSUME Len(bytes) >= 2 PROVE bytes[2] = OK
    OBVIOUS
  <2>1. 2 \in 1 .. Len(bytes)
    BY <1>8
  <2>2. Cat(bytes, rest)[2] = bytes[2]
    BY <1>5, <1>6, <2>1, BytesFirst
  <2> QED BY <1>10, <1>13, <2>2, Zenon
<1> QED BY ZenonT(30), <1>2, <1>14, <1>15 DEF Malformed, IsComplete, Success

\* The text that a proxy refuses is the endpoint, which is not a URI.
LEMMA TextUnderstood ==
    ASSUME Inv, Both, RefuseText
    PROVE  protocol = "http" /\ ~IsUri(to_string(request))
<1>1. pc["server"] = "text" /\ asked # NoText /\ protocol = "http" /\ ~IsUri(asked)
  BY DEF RefuseText
<1>2. protocol # "socks5"
  BY <1>1 DEF Inv, Types
<1>3. asked = to_string(request)
  BY <1>1, <1>2 DEF Inv, Handshakes, TextAccepted, Wanted, Both
<1> QED BY <1>1, <1>3

\* The steps that read nothing, or whatever comes.
LEMMA OthersUnderstood ==
    ASSUME \/ AcceptLength \/ AcceptPort \/ Respond \/ SendHello \/ ReadReplyLength
           \/ ReadReplyRest \/ AcceptText \/ MisreadText \/ AnswerText \/ SendConnect
           \/ SendUpgrade \/ ReadEof
    PROVE  closed' = closed
BY Zenon DEF AcceptLength, AcceptPort, Respond, SendHello, ReadReplyLength, ReadReplyRest, AcceptText,
       MisreadText, AnswerText, SendConnect, SendUpgrade, ReadEof, Goes

(***************************************************************************)
(* Between connect() and handshake() of socks5.rs, between the connector   *)
(* and the acceptor of http.rs and between the simplex client and server,  *)
(* no check of what the other end has sent ever fails, whatever the bytes  *)
(* come with and however the reads split them, but for a name that is too  *)
(* long for SOCKS5 and one that an HTTP proxy cannot take for a URI.       *)
(***************************************************************************)
THEOREM OwnEndsUnderstand == Spec => OursUnderstandOurs
<1> DEFINE Fine == \/ protocol = "socks5" /\ Len(request.host) > MaxLength
                   \/ protocol = "http" /\ ~IsUri(to_string(request))
           Step == ( /\ pc["client"] \notin {"other", "start"} /\ pc["server"] # "other"
                     /\ Handshake
                     /\ closed = {} /\ closed' # {} ) => Fine
<1>1. Inv => Step
  <2> SUFFICES ASSUME Inv, Both, Handshake, pc["client"] # "start" PROVE closed' = closed \/ Fine
    BY DEF Both, OursClient, OursServer
  <2> HIDE DEF Fine, Step
  <2>1. CASE Socks5Acceptor
    BY <2>1, HelloUnderstood, MethodsUnderstood, RequestUnderstood, AddressUnderstood,
       OthersUnderstood DEF Socks5Acceptor
  <2>2. CASE SendRequest
    BY <2>2, MethodUnderstood DEF Fine
  <2>3. CASE Socks5Connector
    BY <2>2, <2>3, ReplyUnderstood, OthersUnderstood DEF Socks5Connector
  <2>4. CASE TextAcceptor
    BY <2>4, TextUnderstood, OthersUnderstood DEF TextAcceptor, Fine
  <2>5. CASE TextConnector
    BY <2>5, UpgradeUnderstood, AnswerUnderstood, OthersUnderstood DEF TextConnector, NoUpgrade
  <2> QED BY <2>1, <2>3, <2>4, <2>5 DEF Handshake
<1>2. Inv => [Step]_allVars
  BY <1>1
<1>3. Spec => []Inv
  BY StreamsInStep
<1>4. []Inv => [][Step]_allVars
  BY <1>2, PTL
<1> QED BY <1>3, <1>4, PTL DEF OursUnderstandOurs

=============================================================================
