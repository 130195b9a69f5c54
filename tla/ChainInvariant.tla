---------------------------- MODULE ChainInvariant ----------------------------
(***************************************************************************)
(* The inductive invariant of the chain of proxies: whatever the protocol  *)
(* and whoever the ends are, what an end has not read yet is what it will  *)
(* take for the request or for the reply.  Below it are the lemmas on its  *)
(* parts, the steps of the SOCKS5 acceptor and those outside of the        *)
(* handshakes.  HandshakeProofs has the other steps, ProxyChainProofs what *)
(* follows.                                                                *)
(***************************************************************************)
EXTENDS ProxyChain, SequenceTheorems, TLAPS

(***************************************************************************)
(* Concatenation under a name of its own, so that the proofs need no more  *)
(* of it than these facts.                                                 *)
(***************************************************************************)
Cat(x, y) == x \o y

\* A concatenation is a sequence of the same elements.
LEMMA CatType == ASSUME NEW S, NEW x \in Seq(S), NEW y \in Seq(S) PROVE Cat(x, y) \in Seq(S)
BY ConcatProperties DEF Cat

\* The grouping does not matter.
LEMMA CatAssociative ==
    ASSUME NEW S, NEW x \in Seq(S), NEW y \in Seq(S), NEW z \in Seq(S)
    PROVE  Cat(Cat(x, y), z) = Cat(x, Cat(y, z))
BY ConcatAssociative DEF Cat

\* The empty sequence adds nothing.
LEMMA CatEmpty == ASSUME NEW S, NEW x \in Seq(S) PROVE Cat(x, <<>>) = x
BY ConcatEmptySeq DEF Cat

\* The first n elements and the others.
LEMMA PrefixAndRest ==
    ASSUME NEW S, NEW b \in Seq(S), NEW n \in 1 .. Len(b)
    PROVE  /\ SubSeq(b, 1, n) \in Seq(S) /\ SubSeq(b, n + 1, Len(b)) \in Seq(S)
           /\ b = Cat(SubSeq(b, 1, n), SubSeq(b, n + 1, Len(b)))
<1> DEFINE p == SubSeq(b, 1, n)
           q == SubSeq(b, n + 1, Len(b))
<1>1. p \in Seq(S) /\ q \in Seq(S) /\ Len(p) = n /\ Len(q) = Len(b) - n
  BY SubSeqProperties
<1>2. Len(p \o q) = Len(b) /\ p \o q \in Seq(S)
  BY <1>1
<1>3. \A i \in 1 .. Len(b) : (p \o q)[i] = b[i]
  BY <1>1, SubSeqProperties
<1> QED BY <1>1, <1>2, <1>3, SeqEqual DEF Cat

\* One element more.
LEMMA AppendIsCat == ASSUME NEW S, NEW s \in Seq(S), NEW x \in S PROVE Append(s, x) = Cat(s, <<x>>)
BY AppendIsConcat, ZenonT(30) DEF Cat

(***************************************************************************)
(* A stream that is read in parts: what is left of it, behind its first k  *)
(* elements, and what is sent in the meantime.                             *)
(***************************************************************************)
Behind(s, k) == SubSeq(s, k + 1, Len(s))

\* The part that is read.
LEMMA FirstOf ==
    ASSUME NEW S, NEW s \in Seq(S), NEW n \in 0 .. Len(s)
    PROVE  /\ SubSeq(s, 1, n) \in Seq(S)
           /\ Len(SubSeq(s, 1, n)) = n
           /\ \A i \in 1 .. n : SubSeq(s, 1, n)[i] = s[i]
OBVIOUS

\* The part that is left.
LEMMA BehindOf ==
    ASSUME NEW S, NEW s \in Seq(S), NEW k \in 0 .. Len(s)
    PROVE  /\ Behind(s, k) \in Seq(S)
           /\ Len(Behind(s, k)) = Len(s) - k
           /\ \A i \in 1 .. Len(s) - k : Behind(s, k)[i] = s[k + i]
BY DEF Behind

\* Nothing was read.
LEMMA BehindNothing == ASSUME NEW S, NEW s \in Seq(S) PROVE Behind(s, 0) = s
BY DEF Behind

\* Everything was read.
LEMMA BehindEnd == ASSUME NEW S, NEW s \in Seq(S) PROVE Behind(s, Len(s)) = <<>>
BY DEF Behind

\* Two parts were read.
LEMMA BehindBehind ==
    ASSUME NEW S, NEW s \in Seq(S), NEW k \in Nat, NEW n \in Nat, k + n <= Len(s)
    PROVE  Behind(Behind(s, k), n) = Behind(s, k + n)
BY DEF Behind

\* The first of two parts was read.
LEMMA CatParts ==
    ASSUME NEW S, NEW a \in Seq(S), NEW b \in Seq(S)
    PROVE  /\ Cat(a, b) \in Seq(S)
           /\ Len(Cat(a, b)) = Len(a) + Len(b)
           /\ SubSeq(Cat(a, b), 1, Len(a)) = a
           /\ Behind(Cat(a, b), Len(a)) = b
BY DEF Cat, Behind

\* What is sent comes behind what has not been read.
LEMMA BehindCat ==
    ASSUME NEW S, NEW s \in Seq(S), NEW t \in Seq(S), NEW k \in 0 .. Len(s)
    PROVE  Behind(Cat(s, t), k) = Cat(Behind(s, k), t)
<1>1. CASE k = 0
  BY <1>1, CatType, BehindNothing
<1>2. CASE k # 0
  <2>1. PICK p, r \in Seq(S) : r = Behind(s, k) /\ s = Cat(p, r) /\ Len(p) = k
    <3>1. k \in 1 .. Len(s)
      BY <1>2
    <3>2. /\ SubSeq(s, 1, k) \in Seq(S) /\ Behind(s, k) \in Seq(S)
          /\ s = Cat(SubSeq(s, 1, k), Behind(s, k))
      BY <3>1, PrefixAndRest DEF Behind
    <3>3. Len(SubSeq(s, 1, k)) = k
      BY FirstOf
    <3> QED BY <3>2, <3>3, Zenon
  <2>2. Cat(s, t) = Cat(p, Cat(r, t)) /\ Cat(r, t) \in Seq(S)
    BY <2>1, CatAssociative, CatType
  <2>3. Behind(Cat(p, Cat(r, t)), k) = Cat(r, t)
    BY <2>1, <2>2, CatParts
  <2> QED BY <2>1, <2>2, <2>3, ZenonT(30)
<1> QED BY <1>1, <1>2

\* A part of a sequence.
LEMMA PartOf ==
    ASSUME NEW S, NEW s \in Seq(S), NEW m \in 1 .. Len(s), NEW n \in m .. Len(s)
    PROVE  /\ SubSeq(s, m, n) \in Seq(S)
           /\ Len(SubSeq(s, m, n)) = n - m + 1
           /\ \A i \in 1 .. n - m + 1 : SubSeq(s, m, n)[i] = s[i + m - 1]
OBVIOUS

\* Something with an element on either side.
Wrapped(x, s, y) == <<x>> \o s \o <<y>>

LEMMA WrappedParts ==
    ASSUME NEW S, NEW x \in S, NEW s \in Seq(S), NEW y \in S
    PROVE  /\ Wrapped(x, s, y) \in Seq(S)
           /\ Len(Wrapped(x, s, y)) = Len(s) + 2
           /\ Wrapped(x, s, y)[1] = x
           /\ SubSeq(Wrapped(x, s, y), 2, Len(s) + 1) = s
BY DEF Wrapped

\* What is between the first and the last of five.
LEMMA Middle ==
    ASSUME NEW S, NEW s \in Seq(S), Len(s) = 5
    PROVE  SubSeq(s, 2, 4) \in Seq(S) /\ Len(SubSeq(s, 2, 4)) = 3
<1>1. 2 \in 1 .. Len(s) /\ 4 \in 2 .. Len(s) /\ 4 - 2 + 1 = 3
  OBVIOUS
<1> QED BY <1>1, PartOf, Zenon

\* Elements of a set are elements of a larger one.
LEMMA SeqOfMore ==
    ASSUME NEW S, NEW T, S \subseteq T, NEW s \in Seq(S)
    PROVE  s \in Seq(T)
OBVIOUS

-----------------------------------------------------------------------------
Bytes == Seq(Nat)

OursClient == pc["client"] # "other"
OursServer == pc["server"] # "other"

-----------------------------------------------------------------------------
(* The inductive invariant: first the kinds of the values. *)

Place ==
    {"other", "failed", "tunnel", "dialing", "start", "method", "reply", "reply_length",
     "reply_rest", "answer", "upgrade", "connecting", "hello", "methods", "request", "length",
     "address", "port", "text"}

Types ==
    /\ protocol \in {"socks5", "http", "simplex"}
    /\ pc \in [End -> Place]
    /\ pc["client"] \in {"other", "dialing", "start", "failed", "tunnel"} \cup
         CASE protocol = "socks5" -> {"method", "reply", "reply_length", "reply_rest"}
           [] protocol = "http" -> {"answer"}
           [] OTHER -> {"upgrade"}
    /\ pc["server"] \in {"other", "failed", "connecting", "tunnel"} \cup
         IF protocol = "socks5" THEN {"hello", "methods", "request", "length", "address", "port"}
         ELSE {"text"}
    /\ need \in [End -> Nat]
    /\ wire \in [End -> Bytes]
    /\ data \in [End -> Bytes]
    /\ buf \in Bytes
    /\ closed \subseteq End
    /\ granted \in BOOLEAN
    /\ OursClient \/ OursServer

\* An end of the program closes by failing, answers by being granted the
\* tunnel, and sends nothing into the tunnel before.
Ends ==
    /\ \A e \in End : pc[e] # "other" => (e \in closed <=> pc[e] = "failed")
    /\ OursServer => (granted <=> pc["server"] = "tunnel")
    /\ pc["client"] \notin {"tunnel", "other"} => data["client"] = <<>>
    /\ pc["server"] \notin {"tunnel", "other"} => data["server"] = <<>>
    /\ protocol # "http" => buf = <<>>

-----------------------------------------------------------------------------
(* The endpoint, which goes from the first client through the chain. *)

\* The endpoint e stands for o.
Follows(e, o) ==
    /\ e \in Endpoints
    /\ e.port = o.port
    /\ \/ e.host = o.host /\ (e.kind = "Addr" => IsIpText(e.host))
       \/ IsBracketed(o.host) /\ e.host = Unbracketed(o.host)

\* The endpoint that the client of this connection asks for.
Wanted == IF OursClient THEN request ELSE origin

\* The client asks for nothing that can be served.
BadClient == ~OursClient /\ origin.kind = "none"

Chain ==
    /\ ~BadClient =>
         /\ Wanted \in Endpoints /\ Follows(origin, origin)
         /\ IsWord(origin.host) => Follows(Wanted, origin)
    /\ BadClient => protocol = "socks5" /\ origin = NoEndpoint
    /\ ~OursClient /\ origin.kind = "Addr" => IsPrinted(origin.host)

-----------------------------------------------------------------------------
(* The acceptor of SOCKS5 and the bytes it has not read. *)

Methods == IF OursClient THEN <<0>> ELSE <<1, 0>>

Type ==
    IF OursClient \/ origin.kind = "Domain" THEN 3
    ELSE IF IsIpv4Text(origin.host) THEN 1 ELSE 4

Address ==
    CASE Type = 3 -> Wanted.host
      [] Type = 1 -> <<127, 0, 0, Wanted.host[1] - 48>>
      [] OTHER -> Cat([i \in 1 .. 15 |-> 0], <<Wanted.host[3] - 48>>)

BehindAddress == Cat(PortBytes(Wanted.port), data["client"])

BehindType ==
    IF Type = 3 THEN Cat(<<Len(Wanted.host)>>, Cat(Address, BehindAddress))
    ELSE Cat(Address, BehindAddress)

Asking == Cat(<<5, 1, 0, Type>>, BehindType)

\* What the acceptor makes of it, but for the port.
Understood == [kind |-> IF Type = 3 THEN "Domain" ELSE "Addr", host |-> Wanted.host, port |-> 0]

AcceptorReads ==
    LET s == pc["server"]
        n == need["server"]
        w == wire["server"]
    IN  /\ s = "hello" =>
             n = 2 /\ (w = <<>> \/ \E later \in {<<>>, Asking} :
                                     w = Cat(<<5, Len(Methods)>>, Cat(Methods, later)))
        /\ s = "methods" =>
             n = Len(Methods) /\ \E later \in {<<>>, Asking} : w = Cat(Methods, later)
        /\ s = "request" => n = 4 /\ w \in {<<>>, Asking}
        /\ s = "length" => n = 1 /\ w = BehindType /\ Type = 3 /\ atyp = 3
        /\ s = "address" => n = Len(Address) /\ w = Cat(Address, BehindAddress) /\ atyp = Type
        /\ s = "port" => n = 2 /\ w = BehindAddress /\ accepted = Understood
        /\ s \in {"connecting", "tunnel"} =>
             n = 0 /\ w = data["client"] /\ accepted = [Understood EXCEPT !.port = Wanted.port]

\* The same for a client that asks for nothing that can be served.
AcceptorReadsBad ==
    LET s == pc["server"]
        n == need["server"]
        w == wire["server"]
    IN  /\ s \in {"hello", "methods", "request", "length", "address", "failed"}
        /\ s # "failed" =>
             \E bad \in Socks5BadClients :
               /\ s = "hello" => n = 2 /\ w = bad
               /\ s = "methods" => n = 1 /\ w = Behind(bad, 2) /\ bad[1] = 5 /\ bad[2] = 1
               /\ s = "request" => n = 4 /\ w = Behind(bad, 3) /\ bad[1] = 5 /\ bad[2] = 1
               /\ s = "length" =>
                    /\ bad = <<5, 1, 0, 5, 1, 0, 3, 1, 255, 0, 80>>
                    /\ n = 1 /\ w = Behind(bad, 7) /\ atyp = 3
               /\ s = "address" =>
                    \/ /\ bad = <<5, 1, 0, 5, 1, 0, 3, 1, 255, 0, 80>>
                       /\ n = 1 /\ w = Behind(bad, 8) /\ atyp = 3
                    \/ /\ bad = <<5, 1, 0, 5, 1, 0, 1, 127>>
                       /\ n = 4 /\ w = Behind(bad, 7)

-----------------------------------------------------------------------------
(* The connector of SOCKS5 and the bytes it has not read. *)

\* A reply that grants the connection, and behind it d.
ReplyLen(w) == CASE w[4] = 1 -> 10 [] w[4] = 4 -> 22 [] OTHER -> w[5] + 7

IsReply(w, d) ==
    /\ Len(w) >= 5
    /\ w[1] = 5 /\ w[2] = 0 /\ w[3] = 0 /\ w[4] \in {1, 3, 4}
    /\ Len(w) >= ReplyLen(w)
    /\ Behind(w, ReplyLen(w)) = d

ConnectorReads ==
    LET c == pc["client"]
        n == need["client"]
        w == wire["client"]
        d == data["server"]
    IN  /\ c \in {"dialing", "start"} => n = 0 /\ (~granted => w = <<>>)
        /\ c = "method" => n = 2 /\ (~granted => w \in {<<>>, <<5, 0>>})
        /\ c \in {"dialing", "start", "method"} /\ granted =>
             Len(w) >= 2 /\ w[1] = 5 /\ w[2] = 0 /\ IsReply(Behind(w, 2), d)
        /\ c = "reply" => n = 4 /\ IF granted THEN IsReply(w, d) ELSE w = <<>>
        /\ c = "reply_length" =>
             granted /\ n = 1 /\ Len(w) >= 1 /\ Len(w) >= w[1] + 3 /\ Behind(w, w[1] + 3) = d
        /\ c = "reply_rest" => granted /\ Len(w) >= n /\ Behind(w, n) = d
        /\ c = "tunnel" => granted /\ w = d

\* The same for a proxy that grants nothing.
ConnectorReadsBad ==
    LET c == pc["client"]
        n == need["client"]
        w == wire["client"]
    IN  /\ c \in {"start", "method", "reply", "reply_rest", "failed"}
        /\ c # "failed" =>
             \E bad \in Socks5BadServers :
               /\ c = "start" => n = 0 /\ w = bad
               /\ c = "method" => n = 2 /\ w = bad
               /\ c = "reply" => n = 4 /\ w = Behind(bad, 2) /\ bad[1] = 5 /\ bad[2] = 0
               /\ c = "reply_rest" =>
                    bad = <<5, 0, 5, 0, 0, 1, 0>> /\ n = 6 /\ w = Behind(bad, 6)

\* How far the two ends are, when both are the program's.
InStep ==
    LET c == pc["client"]
        s == pc["server"]
        w == wire["server"]
        v == wire["client"]
    IN  /\ c \in {"dialing", "start"} => s \in {"hello", "failed"} /\ (s = "hello" => w = <<>>)
        /\ c = "method" =>
             /\ s \in {"hello", "methods", "request", "failed"}
             /\ s = "hello" => w = Cat(<<5, 1>>, <<0>>) /\ v = <<>>
             /\ s = "methods" => w = <<0>> /\ v = <<>>
             /\ s = "request" => w = <<>> /\ v = <<5, 0>>
        /\ c = "reply" => s \notin {"hello", "methods"} /\ (s = "request" => w = Asking)

-----------------------------------------------------------------------------
(* The handshakes that carry text. *)

\* The endpoint that the text of the request is read as.
ReadAs(e) == e = ThroughScript(Wanted) \/ (e \in Endpoints /\ ~IsWord(to_string(Wanted).host))

TextAccepted ==
    /\ wire["server"] = data["client"]
    /\ need["server"] = 0
    /\ asked \in {NoText, to_string(Wanted)}
    /\ pc["server"] \in {"connecting", "tunnel"} => ReadAs(accepted)

\* An answer that grants nothing, or is none.
Refusals == {<<>>, <<0>>, <<72>>, Status(BadRequest)}

\* The answer as it was sent: what has been read of it, and what has not.
Answered(answer, code) ==
    IF granted THEN answer = Cat(Status(code), data["server"])
    ELSE /\ answer \in Refusals
         /\ OursServer /\ "server" \notin closed => answer = <<>>
         /\ data["server"] = <<>>

ConnectReads ==
    LET c == pc["client"]
    IN  /\ Answered(Cat(buf, wire["client"]), OK)
        /\ c \in {"dialing", "start"} => need["client"] = 0 /\ buf = <<>>
        /\ c = "answer" => need["client"] = 1 /\ buf \in {<<>>, <<72>>}
        /\ c = "tunnel" =>
             IF granted THEN Len(buf) >= 2
             ELSE "server" \in closed /\ wire["client"] = <<>> /\ buf \in {<<>>, <<72>>}

UpgradeReads ==
    LET c == pc["client"]
    IN  /\ c \in {"dialing", "start"} => need["client"] = 0
        /\ c = "upgrade" => need["client"] = 2
        /\ c \in {"dialing", "start", "upgrade"} => Answered(wire["client"], 101)
        /\ c = "tunnel" => granted /\ wire["client"] = data["server"]

-----------------------------------------------------------------------------
(* The whole of it. *)

Handshakes ==
    /\ protocol = "socks5" /\ OursServer => IF BadClient THEN AcceptorReadsBad ELSE AcceptorReads
    /\ protocol = "socks5" /\ OursClient =>
         IF OursServer \/ granted THEN ConnectorReads ELSE ConnectorReadsBad
    /\ protocol = "socks5" /\ OursClient /\ OursServer => InStep
    /\ protocol # "socks5" => TextAccepted
    /\ protocol = "http" /\ OursClient /\ pc["client"] # "failed" => ConnectReads
    /\ protocol = "simplex" /\ OursClient => UpgradeReads

Inv == Types /\ Ends /\ Chain /\ Handshakes

-----------------------------------------------------------------------------
(* Streams of bytes. *)

\* Two parts.
LEMMA BytesParts ==
    ASSUME NEW x \in Bytes, NEW y \in Bytes
    PROVE  /\ Cat(x, y) \in Bytes /\ Len(Cat(x, y)) = Len(x) + Len(y)
           /\ SubSeq(Cat(x, y), 1, Len(x)) = x /\ Behind(Cat(x, y), Len(x)) = y
           /\ Cat(x, <<>>) = x /\ Cat(<<>>, x) = x
           /\ Behind(x, 0) = x /\ Behind(x, Len(x)) = <<>>
           /\ Len(x) \in Nat /\ <<>> \in Bytes
<1>1. <<>> \in Bytes /\ Len(x) \in Nat
  BY DEF Bytes
<1>2. Cat(x, <<>>) = x /\ Cat(<<>>, x) = x
  BY ConcatEmptySeq DEF Bytes, Cat
<1>3. Behind(x, 0) = x /\ Behind(x, Len(x)) = <<>>
  BY BehindNothing, BehindEnd DEF Bytes
<1> QED BY <1>1, <1>2, <1>3, CatParts DEF Bytes

\* The same, when the length of the first is known.
LEMMA BytesHead ==
    ASSUME NEW x \in Bytes, NEW y \in Bytes, NEW n, Len(x) = n
    PROVE  SubSeq(Cat(x, y), 1, n) = x /\ Behind(Cat(x, y), n) = y
BY BytesParts, Zenon

\* The first n bytes, and what is behind them.
LEMMA BytesRead ==
    ASSUME NEW x \in Bytes, NEW n \in Nat, n <= Len(x)
    PROVE  /\ SubSeq(x, 1, n) \in Bytes /\ Len(SubSeq(x, 1, n)) = n
           /\ \A i \in 1 .. n : SubSeq(x, 1, n)[i] = x[i] /\ x[i] \in Nat
           /\ Behind(x, n) \in Bytes /\ Len(Behind(x, n)) = Len(x) - n
           /\ \A i \in 1 .. Len(x) - n : Behind(x, n)[i] = x[n + i]
<1>1. x \in Seq(Nat) /\ n \in 0 .. Len(x)
  BY DEF Bytes
<1>2. \A i \in 1 .. n : x[i] \in Nat
  BY <1>1
<1>3. /\ SubSeq(x, 1, n) \in Seq(Nat) /\ Len(SubSeq(x, 1, n)) = n
      /\ \A i \in 1 .. n : SubSeq(x, 1, n)[i] = x[i]
  BY <1>1, FirstOf, Zenon
<1>4. /\ Behind(x, n) \in Seq(Nat) /\ Len(Behind(x, n)) = Len(x) - n
      /\ \A i \in 1 .. Len(x) - n : Behind(x, n)[i] = x[n + i]
  BY <1>1, BehindOf, Zenon
<1> QED BY <1>2, <1>3, <1>4, Zenon DEF Bytes

\* One of the bytes behind the first n.
LEMMA BytesAt ==
    ASSUME NEW x \in Bytes, NEW n \in Nat, NEW i \in Nat, i >= 1, n + i <= Len(x)
    PROVE  Behind(x, n)[i] = x[n + i]
<1>1. Len(x) \in Nat /\ n <= Len(x) /\ i \in 1 .. Len(x) - n
  BY BytesParts
<1>2. /\ Len(Behind(x, n)) = Len(x) - n
      /\ \A k \in 1 .. Len(x) - n : Behind(x, n)[k] = x[n + k]
  BY <1>1, BytesRead
<1> QED BY <1>1, <1>2

\* The first of two parts comes first.
LEMMA BytesFirst ==
    ASSUME NEW x \in Bytes, NEW y \in Bytes, NEW i \in 1 .. Len(x)
    PROVE  Cat(x, y)[i] = x[i]
BY ConcatProperties DEF Bytes, Cat

-----------------------------------------------------------------------------
(* The connection. *)

\* An end reads what it waits for, sends out and goes on.
LEMMA GoesOn ==
    ASSUME Types, NEW e \in End, NEW to \in Place, NEW n \in Nat, NEW out \in Bytes,
           need[e] <= Len(wire[e]), Goes(e, to, n, out)
    PROVE  /\ pc' \in [End -> Place] /\ need' \in [End -> Nat] /\ wire' \in [End -> Bytes]
           /\ closed' = closed
           /\ pc'[e] = to /\ pc'[Peer(e)] = pc[Peer(e)]
           /\ need'[e] = n /\ need'[Peer(e)] = need[Peer(e)]
           /\ wire'[e] = Behind(wire[e], need[e]) /\ wire'[Peer(e)] = Cat(wire[Peer(e)], out)
<1> DEFINE rest == Behind(wire[e], need[e])
           more == Cat(wire[Peer(e)], out)
<1>1. Peer(e) \in End /\ Peer(e) # e
  BY DEF Peer, End
<1>2. rest \in Bytes /\ more \in Bytes
  <2>1. wire[e] \in Bytes /\ wire[Peer(e)] \in Bytes /\ need[e] \in 0 .. Len(wire[e])
    BY <1>1 DEF Types, Bytes
  <2> QED BY <2>1, BehindOf, CatType DEF Bytes
<1>3. wire' = [wire EXCEPT ![e] = rest, ![Peer(e)] = more]
  BY <1>1 DEF Goes, Types, Behind, Cat
<1> HIDE DEF rest, more
<1>4. wire' \in [End -> Bytes] /\ wire'[e] = rest /\ wire'[Peer(e)] = more
  BY <1>1, <1>2, <1>3 DEF Types
<1> QED BY <1>1, <1>4, Zenon DEF Goes, Types, rest, more

\* The same when nothing is sent.
LEMMA ReadsOn ==
    ASSUME Types, NEW e \in End, NEW to \in Place, NEW n \in Nat,
           need[e] <= Len(wire[e]), Goes(e, to, n, <<>>)
    PROVE  /\ pc' \in [End -> Place] /\ need' \in [End -> Nat] /\ wire' \in [End -> Bytes]
           /\ closed' = closed
           /\ pc'[e] = to /\ pc'[Peer(e)] = pc[Peer(e)]
           /\ need'[e] = n /\ need'[Peer(e)] = need[Peer(e)]
           /\ wire'[e] = Behind(wire[e], need[e]) /\ wire'[Peer(e)] = wire[Peer(e)]
<1>1. Peer(e) \in End /\ wire[Peer(e)] \in Bytes /\ <<>> \in Bytes
  BY DEF Peer, End, Types, Bytes
<1>2. Cat(wire[Peer(e)], <<>>) = wire[Peer(e)]
  BY <1>1, CatEmpty DEF Bytes
<1> QED BY <1>1, <1>2, GoesOn

\* An end fails.
LEMMA FailsOn ==
    ASSUME Types, NEW e \in End, Fails(e)
    PROVE  /\ pc' \in [End -> Place] /\ need' \in [End -> Nat] /\ wire' = wire
           /\ closed' = closed \cup {e}
           /\ pc'[e] = "failed" /\ pc'[Peer(e)] = pc[Peer(e)]
           /\ need'[e] = 0 /\ need'[Peer(e)] = need[Peer(e)]
<1>1. Peer(e) \in End /\ Peer(e) # e
  BY DEF Peer, End
<1>2. "failed" \in Place
  BY DEF Place
<1> QED BY <1>1, <1>2 DEF Fails, Types

\* Which end is the other one.
LEMMA BothEnds ==
    /\ "client" \in End /\ "server" \in End /\ End = {"client", "server"}
    /\ Peer("client") = "server" /\ Peer("server") = "client"
BY DEF End, Peer

-----------------------------------------------------------------------------
(* What the client asks for. *)

\* It stays the same as long as the connection is the same.
LEMMA SameQuery ==
    ASSUME OursClient' <=> OursClient, UNCHANGED <<origin, request>>,
           data'["client"] = data["client"]
    PROVE  /\ Wanted' = Wanted /\ (BadClient' <=> BadClient) /\ Methods' = Methods
           /\ Type' = Type /\ Address' = Address /\ BehindAddress' = BehindAddress
           /\ BehindType' = BehindType /\ Asking' = Asking /\ Understood' = Understood
<1>1. Wanted' = Wanted /\ (BadClient' <=> BadClient) /\ Methods' = Methods
  BY DEF Wanted, BadClient, Methods
<1>2. Type' = Type
  BY DEF Type
<1>3. Address' = Address /\ BehindAddress' = BehindAddress /\ Understood' = Understood
  BY <1>1, <1>2 DEF Address, BehindAddress, Understood
<1>4. BehindType' = BehindType
  BY <1>1, <1>2, <1>3 DEF BehindType
<1> QED BY <1>1, <1>2, <1>3, <1>4 DEF Asking

\* Text is bytes.
LEMMA TextIsBytes == ASSUME NEW text \in Seq(TextByte) PROVE text \in Bytes
<1>1. TextByte \subseteq Nat
  BY DEF TextByte
<1> QED BY <1>1, SeqOfMore, Zenon DEF Bytes

\* The parts of a request are bytes.
LEMMA QueryParts ==
    ASSUME data["client"] \in Bytes, Chain, ~BadClient
    PROVE  /\ Wanted \in Endpoints /\ Wanted.host \in Bytes /\ Len(Wanted.host) \in Nat
           /\ Type \in {1, 3, 4}
           /\ Methods \in Bytes /\ Len(Methods) \in {1, 2}
           /\ Address \in Bytes
           /\ Len(Address) = CASE Type = 1 -> 4 [] Type = 4 -> 16 [] OTHER -> Len(Wanted.host)
           /\ PortBytes(Wanted.port) \in Bytes /\ Len(PortBytes(Wanted.port)) = 2
           /\ BehindAddress \in Bytes
           /\ BehindType \in Bytes
           /\ Asking \in Bytes
<1>1. Wanted \in Endpoints /\ Wanted.host \in Bytes /\ Len(Wanted.host) \in Nat
  BY TextIsBytes DEF Chain, Endpoints
<1>2. Type \in {1, 3, 4}
  BY DEF Type
<1>3. Methods \in Bytes /\ Len(Methods) \in {1, 2}
  BY DEF Methods, Bytes
<1>4. /\ Address \in Bytes
      /\ Len(Address) = CASE Type = 1 -> 4 [] Type = 4 -> 16 [] OTHER -> Len(Wanted.host)
  <2>1. CASE Type = 3
    BY <1>1, <2>1 DEF Address
  <2>2. CASE Type # 3
    <3>1. Wanted = origin /\ ~OursClient /\ origin.kind = "Addr"
      BY <2>2, <1>1 DEF Type, Wanted, Endpoints
    <3>2. PICK n \in 0 .. 9 : origin.host \in {<<Digit(n), Dot>>, <<Colon, Colon, Digit(n)>>}
      BY <3>1 DEF Chain, IsPrinted
    <3>3. CASE Type = 1
      <4>1. Wanted.host[1] - 48 \in Nat
        BY <3>1, <3>2, <3>3 DEF Type, IsIpv4Text, Digit, Dot, Colon
      <4> QED BY <3>3, <4>1 DEF Address, Bytes
    <3>4. CASE Type = 4
      <4>1. origin.host = <<Colon, Colon, Digit(n)>>
        BY <3>1, <3>2, <3>4 DEF Type, IsIpv4Text, Digit, Dot, Colon
      <4>2. Wanted.host[3] - 48 \in Nat
        BY <3>1, <4>1 DEF Digit
      <4>3. PICK zeros \in Bytes : zeros = [i \in 1 .. 15 |-> 0] /\ Len(zeros) = 15
        <5>1. [i \in 1 .. 15 |-> 0] \in Bytes /\ Len([i \in 1 .. 15 |-> 0]) = 15
          BY DEF Bytes
        <5> QED BY <5>1, Zenon
      <4>4. PICK last \in Bytes : last = <<Wanted.host[3] - 48>> /\ Len(last) = 1
        <5>1. <<Wanted.host[3] - 48>> \in Bytes /\ Len(<<Wanted.host[3] - 48>>) = 1
          BY <4>2 DEF Bytes
        <5> QED BY <5>1, Zenon
      <4>5. Address = Cat(zeros, last)
        BY <3>4, <4>3, <4>4 DEF Address
      <4>6. Cat(zeros, last) \in Bytes /\ Len(Cat(zeros, last)) = Len(zeros) + Len(last)
        BY CatParts DEF Bytes
      <4>7. Address \in Bytes /\ Len(Address) = 16
        BY <4>3, <4>4, <4>5, <4>6
      <4> QED BY <3>4, <4>7
    <3> QED BY <1>2, <2>2, <3>3, <3>4
  <2> QED BY <2>1, <2>2
<1>5. PortBytes(Wanted.port) \in Bytes /\ Len(PortBytes(Wanted.port)) = 2
  BY <1>1 DEF PortBytes, Bytes, Endpoints
<1>6. BehindAddress \in Bytes
  BY <1>5, CatType DEF BehindAddress, Bytes
<1>7. BehindType \in Bytes
  <2>1. Cat(Address, BehindAddress) \in Bytes /\ <<Len(Wanted.host)>> \in Bytes
    BY <1>1, <1>4, <1>6, CatType DEF Bytes
  <2> QED BY <2>1, CatType, Zenon DEF BehindType, Bytes
<1>8. Asking \in Bytes
  <2>1. <<5, 1, 0, Type>> \in Bytes
    BY <1>2 DEF Bytes
  <2> QED BY <1>7, <2>1, CatType, Zenon DEF Asking, Bytes
<1> QED BY <1>1, <1>2, <1>3, <1>4, <1>5, <1>6, <1>7, <1>8

\* The same in every state.
LEMMA QueryTypes ==
    ASSUME Types, Chain, ~BadClient
    PROVE  /\ Wanted \in Endpoints /\ Wanted.host \in Bytes /\ Len(Wanted.host) \in Nat
           /\ Type \in {1, 3, 4}
           /\ Methods \in Bytes /\ Len(Methods) \in {1, 2}
           /\ Address \in Bytes
           /\ Len(Address) = CASE Type = 1 -> 4 [] Type = 4 -> 16 [] OTHER -> Len(Wanted.host)
           /\ PortBytes(Wanted.port) \in Bytes /\ Len(PortBytes(Wanted.port)) = 2
           /\ BehindAddress \in Bytes
           /\ BehindType \in Bytes
           /\ Asking \in Bytes
<1>1. data["client"] \in Bytes
  BY BothEnds DEF Types
<1> QED BY <1>1, QueryParts

-----------------------------------------------------------------------------
(* An endpoint on its way. *)

\* A name without its brackets has none.
LEMMA BracketsOnce ==
    ASSUME NEW text \in Seq(TextByte)
    PROVE  /\ Unbracketed(text) \in Seq(TextByte)
           /\ IsBracketed(text) => Len(Unbracketed(text)) = 3
           /\ ~IsBracketed(Unbracketed(text))
           /\ Unbracketed(Unbracketed(text)) = Unbracketed(text)
<1>1. CASE IsBracketed(text)
  <2>1. Unbracketed(text) \in Seq(TextByte) /\ Len(Unbracketed(text)) = 3
    BY <1>1, Middle DEF Unbracketed, IsBracketed
  <2> QED BY <2>1 DEF Unbracketed, IsBracketed
<1>2. CASE ~IsBracketed(text)
  BY <1>2 DEF Unbracketed
<1> QED BY <1>1, <1>2

\* The brackets around a text.
LEMMA BracketsAround ==
    ASSUME NEW text \in Seq(TextByte)
    PROVE  /\ Bracketed(text) \in Seq(TextByte) /\ Len(Bracketed(text)) = Len(text) + 2
           /\ Bracketed(text)[1] = 91 /\ SubSeq(Bracketed(text), 2, Len(text) + 1) = text
<1>1. Bracketed(text) = Wrapped(91, text, 93)
  BY DEF Bracketed, Wrapped
<1>2. 91 \in TextByte /\ 93 \in TextByte
  BY DEF TextByte
<1>3. /\ Wrapped(91, text, 93) \in Seq(TextByte)
      /\ Len(Wrapped(91, text, 93)) = Len(text) + 2
      /\ Wrapped(91, text, 93)[1] = 91
      /\ SubSeq(Wrapped(91, text, 93), 2, Len(text) + 1) = text
  BY <1>2, WrappedParts
<1> QED BY <1>1, <1>3, Zenon

\* The brackets that are printed are taken off again.
LEMMA BracketsPrinted ==
    ASSUME NEW text \in Seq(TextByte), Len(text) = 3
    PROVE  /\ Bracketed(text) \in Seq(TextByte)
           /\ IsBracketed(Bracketed(text))
           /\ Unbracketed(Bracketed(text)) = text
<1>1. /\ Bracketed(text) \in Seq(TextByte) /\ Len(Bracketed(text)) = Len(text) + 2
      /\ Bracketed(text)[1] = 91 /\ SubSeq(Bracketed(text), 2, Len(text) + 1) = text
  BY BracketsAround, Zenon
<1>2. Len(text) + 2 = 5 /\ Len(text) + 1 = 4
  OBVIOUS
<1>3. Len(Bracketed(text)) = 5 /\ SubSeq(Bracketed(text), 2, 4) = text
  BY <1>1, <1>2, Zenon
<1> QED BY <1>1, <1>3 DEF Unbracketed, IsBracketed

\* Two endpoints that stand for the same have the same target.
LEMMA FollowsTarget ==
    ASSUME NEW e, NEW o, Follows(e, o), o \in Endpoints
    PROVE  /\ Target(e) = Target(o)
           /\ (o.kind = "Addr" => IsIpText(o.host)) =>
                hostname_is_ip(e) = hostname_is_ip(o) \/ IsBracketed(o.host)
<1>1. o.host \in Seq(TextByte)
  BY DEF Endpoints
<1>2. Unbracketed(Unbracketed(o.host)) = Unbracketed(o.host)
  BY <1>1, BracketsOnce
<1>3. Target(e) = Target(o)
  BY <1>2 DEF Follows, Target
<1>4. hostname_is_ip(e) \in BOOLEAN /\ hostname_is_ip(o) \in BOOLEAN
  BY DEF hostname_is_ip, IsIpText, IsIpv4Text, IsIpv6Text
<1>5. (o.kind = "Addr" => IsIpText(o.host)) =>
         (hostname_is_ip(e) <=> hostname_is_ip(o)) \/ IsBracketed(o.host)
  BY DEF Follows, hostname_is_ip
<1> QED BY <1>3, <1>4, <1>5

\* The script prints an endpoint and the next connector parses it: it stands
\* for the same.
LEMMA FollowsScript ==
    ASSUME NEW e, NEW o, Follows(e, o), o \in Endpoints
    PROVE  Follows(ThroughScript(e), o)
<1>1. e \in Endpoints /\ e.host \in Seq(TextByte) /\ e.port = o.port
      /\ o.host \in Seq(TextByte) /\ e.port \in Nat
  BY DEF Follows, Endpoints
<1>2. CASE e.kind = "Addr" /\ IsIpv6Text(e.host)
  <2>1. ThroughScript(e) = new_from_addr(e.host, e.port)
    BY <1>1, <1>2, BracketsPrinted DEF ThroughScript, to_string, from_str, IsIpv6Text
  <2> QED BY <1>1, <1>2, <2>1 DEF Follows, new_from_addr, Endpoints, IsIpText
<1>3. CASE ~(e.kind = "Addr" /\ IsIpv6Text(e.host))
  <2>1. to_string(e) = [host |-> e.host, port |-> e.port]
    BY <1>3 DEF to_string
  <2>2. CASE IsIpv4Text(e.host)
    <3>1. ThroughScript(e) = new_from_addr(e.host, e.port)
      BY <2>1, <2>2 DEF ThroughScript, from_str, IsIpv4Text, Unbracketed, IsBracketed
    <3> QED BY <1>1, <2>2, <3>1 DEF Follows, new_from_addr, Endpoints, IsIpText
  <2>3. CASE ~IsIpv4Text(e.host) /\ IsBracketed(e.host)
    <3>1. ThroughScript(e) = new_from_addr(Unbracketed(e.host), e.port)
      BY <2>1, <2>3 DEF ThroughScript, from_str
    <3>2. Unbracketed(e.host) \in Seq(TextByte) /\ e.host = o.host
      BY <1>1, <2>3, BracketsOnce DEF Follows
    <3> QED BY <1>1, <2>3, <3>1, <3>2 DEF Follows, new_from_addr, Endpoints
  <2>4. CASE ~IsIpv4Text(e.host) /\ ~IsBracketed(e.host)
    <3>1. ThroughScript(e) = new_from_domain(e.host, e.port)
      BY <2>1, <2>4 DEF ThroughScript, from_str
    <3> QED BY <1>1, <3>1 DEF Follows, new_from_domain, Endpoints
  <2> QED BY <2>2, <2>3, <2>4
<1> QED BY <1>2, <1>3

\* What is parsed is an endpoint.
LEMMA ParsedType ==
    ASSUME NEW text \in [host : Seq(TextByte), port : Nat]
    PROVE  from_str(text) \in Endpoints
<1>1. Unbracketed(text.host) \in Seq(TextByte)
  BY BracketsOnce
<1> QED BY <1>1 DEF from_str, new_from_addr, new_from_domain, Endpoints

\* What is printed is text.
LEMMA PrintedType ==
    ASSUME NEW e \in Endpoints
    PROVE  to_string(e) \in [host : Seq(TextByte), port : Nat]
<1>1. Bracketed(e.host) \in Seq(TextByte)
  BY BracketsAround DEF Endpoints
<1> QED BY <1>1 DEF to_string, Endpoints

\* The script hands on an endpoint.
LEMMA ScriptType == ASSUME NEW e \in Endpoints PROVE ThroughScript(e) \in Endpoints
BY ParsedType, PrintedType DEF ThroughScript

\* A word stays one, with and without brackets.
LEMMA WordKept ==
    ASSUME NEW e, NEW o, Follows(e, o), o \in Endpoints, IsWord(o.host)
    PROVE  IsWord(to_string(e).host)
<1> DEFINE S == TextByte \ (Blank \cup Control)
<1>1. 91 \in S /\ 93 \in S
  BY DEF TextByte, Blank, Control
<1>2. \A text : IsWord(text) <=> text \in Seq(S)
  BY DEF IsWord
<1> HIDE DEF S
<1>3. o.host \in Seq(S)
  BY <1>2
<1>4. IsBracketed(o.host) => Unbracketed(o.host) \in Seq(S)
  BY <1>3, Middle DEF IsBracketed, Unbracketed
<1>5. e.host \in Seq(S)
  BY <1>3, <1>4 DEF Follows
<1>6. Bracketed(e.host) \in Seq(S)
  <2>1. Wrapped(91, e.host, 93) \in Seq(S)
    BY <1>1, <1>5, WrappedParts
  <2> QED BY <2>1 DEF Bracketed, Wrapped
<1>7. to_string(e).host \in {e.host, Bracketed(e.host)}
  BY DEF to_string
<1> QED BY <1>2, <1>5, <1>6, <1>7

-----------------------------------------------------------------------------
(* What a step does not touch. *)

\* The chain, while the connection is the same.
LEMMA SameChain ==
    ASSUME Chain, OursClient' <=> OursClient, UNCHANGED <<origin, request, protocol>>
    PROVE  Chain'
<1>1. Wanted' = Wanted /\ (BadClient' <=> BadClient)
  BY DEF Wanted, BadClient
<1> QED BY <1>1 DEF Chain

\* What the acceptor reads, when nothing is sent to it.
LEMMA SameAcceptor ==
    ASSUME OursClient' <=> OursClient, UNCHANGED <<origin, request, accepted, atyp>>,
           data'["client"] = data["client"], pc'["server"] = pc["server"],
           need'["server"] = need["server"], wire'["server"] = wire["server"]
    PROVE  /\ AcceptorReads => AcceptorReads'
           /\ AcceptorReadsBad => AcceptorReadsBad'
<1>1. /\ Wanted' = Wanted /\ (BadClient' <=> BadClient) /\ Methods' = Methods
      /\ Type' = Type /\ Address' = Address /\ BehindAddress' = BehindAddress
      /\ BehindType' = BehindType /\ Asking' = Asking /\ Understood' = Understood
  BY SameQuery
<1> QED BY <1>1 DEF AcceptorReads, AcceptorReadsBad

\* What the connector reads, when nothing is sent to it.
LEMMA SameConnector ==
    ASSUME UNCHANGED granted, data'["server"] = data["server"], pc'["client"] = pc["client"],
           need'["client"] = need["client"], wire'["client"] = wire["client"]
    PROVE  /\ ConnectorReads => ConnectorReads'
           /\ ConnectorReadsBad => ConnectorReadsBad'
BY DEF ConnectorReads, ConnectorReadsBad, IsReply, ReplyLen

\* The same for the connectors of the other protocols; the proxy may close.
LEMMA SameTextConnector ==
    ASSUME UNCHANGED <<granted, buf>>, data'["server"] = data["server"],
           pc'["client"] = pc["client"], OursServer' <=> OursServer,
           "server" \in closed => "server" \in closed',
           need'["client"] = need["client"], wire'["client"] = wire["client"]
    PROVE  /\ ConnectReads => ConnectReads'
           /\ UpgradeReads => UpgradeReads'
<1>1. ASSUME NEW answer, NEW code
      PROVE  Answered(answer, code) => Answered(answer, code)'
  BY DEF Answered
<1>2. Cat(buf, wire["client"])' = Cat(buf, wire["client"])
  BY DEF Cat
<1>3. ConnectReads => ConnectReads'
  BY <1>1, <1>2 DEF ConnectReads
<1>4. UpgradeReads => UpgradeReads'
  BY <1>1 DEF UpgradeReads
<1> QED BY <1>3, <1>4

\* And for their acceptors.
LEMMA SameTextAcceptor ==
    ASSUME OursClient' <=> OursClient, UNCHANGED <<origin, request, accepted>>,
           asked' = asked \/ asked' = to_string(Wanted),
           data'["client"] = data["client"], pc'["server"] = pc["server"],
           need'["server"] = need["server"], wire'["server"] = wire["server"]
    PROVE  TextAccepted => TextAccepted'
<1>1. Wanted' = Wanted
  BY DEF Wanted
<1> QED BY <1>1 DEF TextAccepted, ReadAs

-----------------------------------------------------------------------------
(* An end of the program fails. *)

\* The acceptor, before it has answered.
LEMMA ServerFails ==
    ASSUME Inv, Fails("server"), UNCHANGED <<chain, asked, buf, granted, data>>,
           pc["server"] \notin {"tunnel", "other", "failed"}
    PROVE  Inv'
<1> USE BothEnds
<1>1. /\ pc' \in [End -> Place] /\ need' \in [End -> Nat] /\ wire' = wire
      /\ closed' = closed \cup {"server"}
      /\ pc'["server"] = "failed" /\ pc'["client"] = pc["client"]
      /\ need'["server"] = 0 /\ need'["client"] = need["client"]
  BY FailsOn DEF Inv
<1>2. UNCHANGED <<origin, hop, protocol, request>>
  BY DEF chain
<1>3. (OursClient' <=> OursClient) /\ OursServer /\ OursServer'
  BY <1>1 DEF OursClient, OursServer
<1>4. Types'
  BY <1>1, <1>2, <1>3 DEF Inv, Types
<1>5. Ends'
  BY <1>1, <1>2, <1>3 DEF Inv, Ends
<1>6. Chain'
  BY <1>2, <1>3, SameChain DEF Inv
<1>7. Wanted' = Wanted /\ (BadClient' <=> BadClient)
  BY <1>2, <1>3 DEF Wanted, BadClient
<1>8. AcceptorReads' /\ AcceptorReadsBad'
  BY <1>1 DEF AcceptorReads, AcceptorReadsBad
<1>9. TextAccepted => TextAccepted'
  BY <1>1, <1>2, <1>7 DEF TextAccepted
<1>10. /\ ConnectorReads => ConnectorReads'
       /\ ConnectorReadsBad => ConnectorReadsBad'
  BY <1>1, SameConnector
<1>11. /\ ConnectReads => ConnectReads'
       /\ UpgradeReads => UpgradeReads'
  BY <1>1, <1>3, SameTextConnector
<1>12. InStep => InStep'
  BY <1>1 DEF InStep
<1>13. Handshakes'
  BY <1>1, <1>2, <1>3, <1>7, <1>8, <1>9, <1>10, <1>11, <1>12 DEF Inv, Handshakes
<1> QED BY <1>4, <1>5, <1>6, <1>13 DEF Inv

\* The connector, before it has its connection; that of HTTP has read something.
LEMMA ClientFails ==
    ASSUME Inv, Fails("client"), UNCHANGED <<chain, asked, accepted, atyp, granted, data>>,
           buf' \in Bytes, protocol # "http" => UNCHANGED buf,
           pc["client"] \notin {"tunnel", "other", "failed"}
    PROVE  Inv'
<1> USE BothEnds
<1>1. /\ pc' \in [End -> Place] /\ need' \in [End -> Nat] /\ wire' = wire
      /\ closed' = closed \cup {"client"}
      /\ pc'["client"] = "failed" /\ pc'["server"] = pc["server"]
      /\ need'["client"] = 0 /\ need'["server"] = need["server"]
  BY FailsOn DEF Inv
<1>2. UNCHANGED <<origin, hop, protocol, request>>
  BY DEF chain
<1>3. (OursServer' <=> OursServer) /\ OursClient /\ OursClient'
  BY <1>1 DEF OursClient, OursServer
<1>4. Types'
  BY <1>1, <1>2, <1>3 DEF Inv, Types
<1>5. Ends'
  BY <1>1, <1>2, <1>3 DEF Inv, Ends
<1>6. Chain'
  BY <1>2, <1>3, SameChain DEF Inv
<1>7. Wanted' = Wanted /\ (BadClient' <=> BadClient)
  BY <1>2, <1>3 DEF Wanted, BadClient
<1>8. ConnectorReads' /\ ConnectorReadsBad' /\ UpgradeReads'
  BY <1>1 DEF ConnectorReads, ConnectorReadsBad, UpgradeReads
<1>9. TextAccepted => TextAccepted'
  BY <1>1, <1>2, <1>3, SameTextAcceptor
<1>10. /\ AcceptorReads => AcceptorReads'
       /\ AcceptorReadsBad => AcceptorReadsBad'
  BY <1>1, <1>2, <1>3, SameAcceptor
<1>11. InStep'
  BY <1>1 DEF InStep
<1>12. Handshakes'
  BY <1>1, <1>2, <1>3, <1>7, <1>8, <1>9, <1>10, <1>11 DEF Inv, Handshakes
<1> QED BY <1>4, <1>5, <1>6, <1>12 DEF Inv

-----------------------------------------------------------------------------
(* The steps of the SOCKS5 acceptor. *)

\* A step that only reads.
LEMMA AcceptorStep ==
    ASSUME Inv, protocol = "socks5", UNCHANGED <<chain, buf, granted, data>>,
           pc["server"] \notin {"tunnel", "other", "failed"},
           need["server"] <= Len(wire["server"]),
           NEW to \in {"methods", "length", "address", "port", "connecting"}, NEW n \in Nat,
           Goes("server", to, n, <<>>),
           BadClient => AcceptorReadsBad', ~BadClient => AcceptorReads', OursClient => InStep'
    PROVE  Inv'
<1> USE BothEnds
<1>0. to \in Place
  BY DEF Place
<1>1. /\ pc' \in [End -> Place] /\ need' \in [End -> Nat] /\ wire' \in [End -> Bytes]
      /\ closed' = closed
      /\ pc'["server"] = to /\ pc'["client"] = pc["client"]
      /\ need'["server"] = n /\ need'["client"] = need["client"]
      /\ wire'["client"] = wire["client"]
  BY <1>0, ReadsOn DEF Inv
<1>2. UNCHANGED <<origin, hop, protocol, request>>
  BY DEF chain
<1>3. (OursClient' <=> OursClient) /\ OursServer /\ OursServer'
  BY <1>1 DEF OursClient, OursServer
<1>4. Types'
  BY <1>1, <1>2, <1>3 DEF Inv, Types
<1>5. Ends'
  BY <1>1, <1>2, <1>3 DEF Inv, Ends
<1>6. Chain'
  BY <1>2, <1>3, SameChain DEF Inv
<1>7. BadClient' <=> BadClient
  BY <1>2, <1>3 DEF BadClient
<1>8. /\ ConnectorReads => ConnectorReads'
      /\ ConnectorReadsBad => ConnectorReadsBad'
  BY <1>1, SameConnector
<1>9. Handshakes'
  BY <1>2, <1>3, <1>7, <1>8 DEF Inv, Handshakes
<1> QED BY <1>4, <1>5, <1>6, <1>9 DEF Inv

\* The clients that ask for nothing that can be served.
LEMMA BadClientParts ==
    ASSUME NEW bad \in Socks5BadClients
    PROVE  /\ bad \in Bytes /\ Len(bad) \in 2 .. 11
           /\ bad[1] = 5 /\ bad[2] # 0 => bad[2] = 1 /\ Len(bad) >= 3
           /\ bad[1] = 5 /\ bad[2] = 1 /\ Len(bad) >= 7
                /\ bad[4] = 5 /\ bad[5] = 1 /\ bad[7] \in {1, 3, 4} =>
                \/ bad = <<5, 1, 0, 5, 1, 0, 3, 1, 255, 0, 80>>
                \/ bad = <<5, 1, 0, 5, 1, 0, 1, 127>>
<1>1. CASE bad = <<4, 1, 0>>
  BY <1>1 DEF Bytes
<1>2. CASE bad = <<5, 0>>
  BY <1>2 DEF Bytes
<1>3. CASE bad = <<5, 1, 2>>
  BY <1>3 DEF Bytes
<1>4. CASE bad = <<5, 1, 0, 4, 1, 0, 1>>
  BY <1>4 DEF Bytes
<1>5. CASE bad = <<5, 1, 0, 5, 2, 0, 1>>
  BY <1>5 DEF Bytes
<1>6. CASE bad = <<5, 1, 0, 5, 1, 0, 2>>
  BY <1>6 DEF Bytes
<1>7. CASE bad = <<5, 1, 0, 5, 1, 0, 3, 1, 255, 0, 80>>
  BY <1>7 DEF Bytes
<1>8. CASE bad = <<5, 1, 0, 5, 1, 0, 1, 127>>
  BY <1>8 DEF Bytes
<1> QED BY <1>1, <1>2, <1>3, <1>4, <1>5, <1>6, <1>7, <1>8, Zenon DEF Socks5BadClients

\* The two of them that get as far as an address.
LEMMA BadAddresses ==
    /\ LET bad == <<5, 1, 0, 5, 1, 0, 3, 1, 255, 0, 80>>
       IN  bad \in Bytes /\ Len(bad) = 11 /\ bad[7] = 3 /\ bad[8] = 1 /\ bad[9] = 255
    /\ LET bad == <<5, 1, 0, 5, 1, 0, 1, 127>>
       IN  bad \in Bytes /\ Len(bad) = 8 /\ bad[7] = 1
BY DEF Bytes

\* An acceptor of the program knows which client it has.
LEMMA AcceptorOf ==
    ASSUME Inv, protocol = "socks5", OursServer
    PROVE  /\ BadClient => AcceptorReadsBad
           /\ ~BadClient => AcceptorReads
           /\ OursClient => InStep /\ ~BadClient /\ ConnectorReads
           /\ wire["server"] \in Bytes /\ need["server"] \in Nat
           /\ wire["client"] \in Bytes /\ need["client"] \in Nat
BY BothEnds DEF Inv, Handshakes, BadClient, Types

\* The hello.
LEMMA HelloKeeps == ASSUME Inv, AcceptHello PROVE Inv'
<1> USE BothEnds
<1>1. /\ pc["server"] = "hello" /\ Len(wire["server"]) >= need["server"]
      /\ UNCHANGED <<chain, asked, accepted, atyp, buf, granted, data>>
  BY DEF AcceptHello, Reads
<1>2. protocol = "socks5" /\ OursServer
  BY <1>1 DEF Inv, Types, OursServer
<1> DEFINE b == Read("server")
<1>3. Ensure(b[1] = 5 /\ b[2] # 0, "server", "methods", b[2], <<>>)
  BY DEF AcceptHello
<1>4. CASE ~(b[1] = 5 /\ b[2] # 0)
  BY <1>1, <1>3, <1>4, ServerFails DEF Ensure
<1>5. CASE b[1] = 5 /\ b[2] # 0
  <2>1. Goes("server", "methods", b[2], <<>>)
    BY <1>3, <1>5 DEF Ensure
  <2>2. need["server"] = 2
    BY <1>1, <1>2, AcceptorOf DEF AcceptorReads, AcceptorReadsBad
  <2>3. wire["server"] \in Bytes /\ Len(wire["server"]) >= 2
    BY <1>1, <1>2, <2>2, AcceptorOf
  <2>4. b = SubSeq(wire["server"], 1, 2) /\ b[1] = wire["server"][1] /\ b[2] = wire["server"][2]
    BY <2>2, <2>3, FirstOf DEF Read, Bytes
  <2> HIDE DEF b
  <2>5. b[2] \in Nat
    BY <2>3, <2>4 DEF Bytes
  <2>6. /\ pc'["server"] = "methods" /\ pc'["client"] = pc["client"]
        /\ need'["server"] = b[2]
        /\ wire'["server"] = Behind(wire["server"], 2) /\ wire'["client"] = wire["client"]
    <3>1. "methods" \in Place
      BY DEF Place
    <3> QED BY <1>1, <2>1, <2>2, <2>5, <3>1, ReadsOn DEF Inv
  <2>7. (OursClient' <=> OursClient) /\ UNCHANGED <<origin, request>>
    BY <1>1, <2>6 DEF OursClient, chain
  <2>8. ASSUME BadClient PROVE AcceptorReadsBad'
    <3>1. PICK bad \in Socks5BadClients : wire["server"] = bad
      BY <1>1, <1>2, <2>8, AcceptorOf DEF AcceptorReadsBad
    <3>2. bad[1] = 5 /\ bad[2] = 1
      BY <1>5, <2>4, <3>1, BadClientParts
    <3> QED BY <2>4, <2>6, <3>1, <3>2 DEF AcceptorReadsBad
  <2>9. ASSUME ~BadClient PROVE AcceptorReads'
    <3>1. Types /\ Chain
      BY DEF Inv
    <3>2. Methods \in Bytes /\ Len(Methods) \in {1, 2} /\ Asking \in Bytes
      BY <2>9, <3>1, QueryTypes
    <3>3. wire["server"] # <<>>
      BY <2>3
    <3>4. PICK later \in {<<>>, Asking} :
            wire["server"] = Cat(<<5, Len(Methods)>>, Cat(Methods, later))
      BY <1>1, <1>2, <2>9, <3>3, AcceptorOf DEF AcceptorReads
    <3>5. PICK head \in Bytes : head = <<5, Len(Methods)>> /\ Len(head) = 2 /\ head[2] = Len(Methods)
      <4>1. /\ <<5, Len(Methods)>> \in Bytes /\ Len(<<5, Len(Methods)>>) = 2
            /\ <<5, Len(Methods)>>[2] = Len(Methods)
        BY <3>2 DEF Bytes
      <4> QED BY <4>1, Zenon
    <3>6. later \in Bytes /\ Cat(Methods, later) \in Bytes
      BY <3>2, BytesParts, Zenon
    <3>7. SubSeq(wire["server"], 1, 2) = head /\ Behind(wire["server"], 2) = Cat(Methods, later)
      <4>1. wire["server"] = Cat(head, Cat(Methods, later))
        BY <3>4, <3>5, Zenon
      <4>2. /\ SubSeq(Cat(head, Cat(Methods, later)), 1, 2) = head
            /\ Behind(Cat(head, Cat(Methods, later)), 2) = Cat(Methods, later)
        BY <3>5, <3>6, BytesHead, Zenon
      <4> QED BY <4>1, <4>2, Zenon
    <3>8. need'["server"] = Len(Methods) /\ wire'["server"] = Cat(Methods, later)
      BY <2>4, <2>6, <3>5, <3>7, Zenon
    <3>9. Methods' = Methods /\ Asking' = Asking
      BY <1>1, <2>7, SameQuery
    <3> QED BY <2>6, <3>8, <3>9 DEF AcceptorReads
  <2>10. ASSUME OursClient PROVE InStep'
    <3>1. InStep
      BY <1>2, <2>10, AcceptorOf
    <3>2. pc["client"] \notin {"dialing", "start"}
      BY <1>1, <2>3, <3>1 DEF InStep
    <3>3. pc["client"] = "method" => wire'["server"] = <<0>>
      <4>1. PICK x, y \in Bytes : x = <<5, 1>> /\ y = <<0>> /\ Len(x) = 2
        <5>1. <<5, 1>> \in Bytes /\ <<0>> \in Bytes /\ Len(<<5, 1>>) = 2
          BY DEF Bytes
        <5> QED BY <5>1, Zenon
      <4>2. Behind(Cat(x, y), 2) = y
        BY <4>1, CatParts, Zenon DEF Bytes
      <4> QED BY <1>1, <2>6, <3>1, <4>1, <4>2 DEF InStep
    <3> QED BY <1>1, <2>6, <3>1, <3>2, <3>3 DEF InStep
  <2> QED BY <1>1, <1>2, <2>1, <2>5, <2>8, <2>9, <2>10, AcceptorStep, Zenon
<1> QED BY <1>4, <1>5

\* What is known when the acceptor has the bytes it waits for.
LEMMA AcceptorAt ==
    ASSUME Inv, NEW at \in {"hello", "methods", "request", "length", "address", "port"},
           Reads("server", at)
    PROVE  /\ pc["server"] = at /\ need["server"] <= Len(wire["server"])
           /\ protocol = "socks5" /\ OursServer /\ ~granted
           /\ BadClient => AcceptorReadsBad
           /\ ~BadClient => AcceptorReads
           /\ OursClient => InStep /\ ~BadClient /\ ConnectorReads
           /\ wire["server"] \in Bytes /\ need["server"] \in Nat
           /\ wire["client"] \in Bytes
           /\ Read("server") = SubSeq(wire["server"], 1, need["server"])
           /\ Read("server") \in Bytes /\ Len(Read("server")) = need["server"]
           /\ \A i \in 1 .. need["server"] :
                Read("server")[i] = wire["server"][i] /\ wire["server"][i] \in Nat
<1> USE BothEnds
<1>1. pc["server"] = at /\ need["server"] <= Len(wire["server"])
  <2>1. wire["server"] \in Bytes /\ need["server"] \in Nat
    BY DEF Inv, Types
  <2> QED BY <2>1, BytesParts DEF Reads
<1>2. protocol = "socks5" /\ OursServer /\ ~granted
  BY <1>1 DEF Inv, Types, Ends, OursServer
<1>3. Read("server") = SubSeq(wire["server"], 1, need["server"])
  BY DEF Read
<1>4. /\ BadClient => AcceptorReadsBad
      /\ ~BadClient => AcceptorReads
      /\ OursClient => InStep /\ ~BadClient /\ ConnectorReads
      /\ wire["server"] \in Bytes /\ need["server"] \in Nat
      /\ wire["client"] \in Bytes
  BY <1>2, AcceptorOf
<1>5. /\ Read("server") \in Bytes /\ Len(Read("server")) = need["server"]
      /\ \A i \in 1 .. need["server"] :
           Read("server")[i] = wire["server"][i] /\ wire["server"][i] \in Nat
  <2>1. PICK w \in Bytes, n \in Nat : w = wire["server"] /\ n = need["server"] /\ n <= Len(w)
    BY <1>1, <1>4, Zenon
  <2>2. /\ SubSeq(w, 1, n) \in Bytes /\ Len(SubSeq(w, 1, n)) = n
        /\ \A i \in 1 .. n : SubSeq(w, 1, n)[i] = w[i] /\ w[i] \in Nat
    BY <2>1, BytesRead
  <2> QED BY <1>3, <2>1, <2>2, Zenon
<1> QED BY <1>1, <1>2, <1>3, <1>4, <1>5, Zenon

\* And when it has gone on.
LEMMA AcceptorGone ==
    ASSUME Inv, NEW at \in {"hello", "methods", "request", "length", "address", "port"},
           Reads("server", at), UNCHANGED <<chain, data>>,
           NEW to \in Place \ {"other"}, NEW n \in Nat, NEW out \in Bytes,
           Goes("server", to, n, out)
    PROVE  /\ pc' \in [End -> Place] /\ need' \in [End -> Nat] /\ wire' \in [End -> Bytes]
           /\ closed' = closed
           /\ pc'["server"] = to /\ pc'["client"] = pc["client"]
           /\ need'["server"] = n /\ need'["client"] = need["client"]
           /\ wire'["server"] = Behind(wire["server"], need["server"])
           /\ wire'["client"] = Cat(wire["client"], out)
           /\ (OursClient' <=> OursClient) /\ OursServer'
           /\ UNCHANGED <<origin, hop, protocol, request>>
           /\ Wanted' = Wanted /\ (BadClient' <=> BadClient) /\ Methods' = Methods
           /\ Type' = Type /\ Address' = Address /\ BehindAddress' = BehindAddress
           /\ BehindType' = BehindType /\ Asking' = Asking /\ Understood' = Understood
<1> USE BothEnds
<1>1. /\ pc' \in [End -> Place] /\ need' \in [End -> Nat] /\ wire' \in [End -> Bytes]
      /\ closed' = closed
      /\ pc'["server"] = to /\ pc'["client"] = pc["client"]
      /\ need'["server"] = n /\ need'["client"] = need["client"]
      /\ wire'["server"] = Behind(wire["server"], need["server"])
      /\ wire'["client"] = Cat(wire["client"], out)
  BY AcceptorAt, GoesOn DEF Inv
<1>2. (OursClient' <=> OursClient) /\ OursServer'
  BY <1>1 DEF OursClient, OursServer
<1>3. UNCHANGED <<origin, hop, protocol, request>>
  BY DEF chain
<1> QED BY <1>1, <1>2, <1>3, SameQuery

\* The methods, which are answered.
LEMMA MethodsKeep == ASSUME Inv, AcceptMethods PROVE Inv'
<1> USE BothEnds
<1>1. /\ Reads("server", "methods")
      /\ UNCHANGED <<chain, asked, accepted, atyp, buf, granted, data>>
  BY DEF AcceptMethods
<1> DEFINE found == \E i \in DOMAIN Read("server") : Read("server")[i] = 0
<1>2. Ensure(found, "server", "request", 4, <<5, 0>>)
  BY Zenon DEF AcceptMethods
<1>3. /\ pc["server"] = "methods" /\ need["server"] <= Len(wire["server"])
      /\ protocol = "socks5" /\ OursServer /\ ~granted
      /\ BadClient => AcceptorReadsBad
      /\ ~BadClient => AcceptorReads
      /\ OursClient => InStep /\ ~BadClient /\ ConnectorReads
      /\ wire["server"] \in Bytes /\ wire["client"] \in Bytes
  BY <1>1, AcceptorAt
<1>4. CASE ~found
  BY <1>1, <1>2, <1>3, <1>4, ServerFails DEF Ensure
<1>5. CASE found
  <2>1. Goes("server", "request", 4, <<5, 0>>)
    BY <1>2, <1>5 DEF Ensure
  <2>2. <<5, 0>> \in Bytes /\ "request" \in Place \ {"other"}
    BY DEF Bytes, Place
  <2>3. /\ pc' \in [End -> Place] /\ need' \in [End -> Nat] /\ wire' \in [End -> Bytes]
        /\ closed' = closed
        /\ pc'["server"] = "request" /\ pc'["client"] = pc["client"]
        /\ need'["server"] = 4 /\ need'["client"] = need["client"]
        /\ wire'["server"] = Behind(wire["server"], need["server"])
        /\ wire'["client"] = Cat(wire["client"], <<5, 0>>)
        /\ (OursClient' <=> OursClient) /\ OursServer'
        /\ UNCHANGED <<origin, hop, protocol, request>>
        /\ (BadClient' <=> BadClient) /\ Methods' = Methods /\ Asking' = Asking
    BY <1>1, <2>1, <2>2, AcceptorGone
  <2>4. Types'
    BY <1>1, <1>3, <2>3 DEF Inv, Types
  <2>5. Ends'
    BY <1>1, <1>3, <2>3 DEF Inv, Ends
  <2>6. Chain'
    BY ZenonT(30), <2>3, SameChain DEF Inv
  <2>7. ASSUME BadClient PROVE AcceptorReadsBad'
    <3>1. PICK bad \in Socks5BadClients :
            /\ need["server"] = 1 /\ wire["server"] = Behind(bad, 2)
            /\ bad[1] = 5 /\ bad[2] = 1
      BY <1>3, <2>7 DEF AcceptorReadsBad
    <3>2. bad \in Seq(Nat) /\ 2 + 1 <= Len(bad)
      BY <3>1, BadClientParts DEF Bytes
    <3>3. Behind(Behind(bad, 2), 1) = Behind(bad, 2 + 1)
      BY <3>2, BehindBehind
    <3>4. Behind(Behind(bad, 2), 1) = Behind(bad, 3)
      BY <3>3
    <3> QED BY <2>3, <3>1, <3>4 DEF AcceptorReadsBad
  <2>8. ASSUME ~BadClient PROVE AcceptorReads'
    <3>1. Methods \in Bytes /\ Asking \in Bytes
      BY <2>8, QueryTypes DEF Inv
    <3>2. PICK later \in {<<>>, Asking} :
            need["server"] = Len(Methods) /\ wire["server"] = Cat(Methods, later)
      BY <1>3, <2>8 DEF AcceptorReads
    <3>3. later \in Bytes
      BY <3>1, BytesParts, Zenon
    <3>4. Behind(Cat(Methods, later), Len(Methods)) = later
      BY <3>1, <3>3, BytesHead, Zenon
    <3> QED BY <2>3, <3>2, <3>4 DEF AcceptorReads
  <2>9. ASSUME OursClient PROVE InStep' /\ ConnectorReads'
    <3>1. InStep /\ ConnectorReads
      BY <1>3, <2>9
    <3>2. pc["client"] \in {"method", "failed"}
      BY <1>1, <1>3, <3>1, <2>9 DEF InStep, ConnectorReads, Inv, Types, OursClient
    <3>3. ASSUME pc["client"] = "method"
          PROVE  wire'["client"] = <<5, 0>> /\ wire'["server"] = <<>>
      <4>1. wire["client"] = <<>> /\ wire["server"] = <<0>>
        BY <1>3, <3>1, <3>3 DEF InStep
      <4>2. need["server"] = 1
        BY <1>3, <2>9 DEF AcceptorReads, Methods
      <4>3. PICK x \in Bytes : x = <<0>> /\ Len(x) = 1
        <5>1. <<0>> \in Bytes /\ Len(<<0>>) = 1
          BY DEF Bytes
        <5> QED BY <5>1, Zenon
      <4>4. Behind(x, 1) = <<>>
        BY <4>3, BytesParts, Zenon
      <4>5. Cat(<<>>, <<5, 0>>) = <<5, 0>>
        BY <2>2, BytesParts
      <4> QED BY <2>3, <4>1, <4>2, <4>3, <4>4, <4>5
    <3>4. InStep'
      BY <2>3, <3>2, <3>3 DEF InStep
    <3>5. ConnectorReads'
      BY <1>1, <1>3, <2>3, <3>1, <3>2, <3>3, Zenon DEF ConnectorReads
    <3> QED BY <3>4, <3>5
  <2>10. Handshakes'
    BY <1>3, <2>3, <2>7, <2>8, <2>9 DEF Handshakes
  <2> QED BY <2>4, <2>5, <2>6, <2>10 DEF Inv
<1> QED BY <1>4, <1>5

\* How far the connector is, once the acceptor has got a request.
LEMMA InStepLater ==
    ASSUME OursClient, InStep, pc["server"] \in {"request", "length", "address", "port"},
           pc["server"] = "request" => Len(wire["server"]) >= 4,
           pc'["client"] = pc["client"],
           pc'["server"] \in {"length", "address", "port", "connecting"}
    PROVE  InStep'
<1>1. pc["client"] \notin {"dialing", "start", "method"}
  <2>1. Len(<<>>) = 0
    OBVIOUS
  <2> QED BY <2>1 DEF InStep
<1> QED BY <1>1 DEF InStep

\* The request, up to the type of its address.
LEMMA RequestKeeps == ASSUME Inv, AcceptRequest PROVE Inv'
<1> USE BothEnds
<1> DEFINE b == Read("server")
           good == b[1] = 5 /\ b[2] = 1 /\ b[4] \in {1, 3, 4}
           to == IF b[4] = 3 THEN "length" ELSE "address"
           n == CASE b[4] = 1 -> 4 [] b[4] = 4 -> 16 [] OTHER -> 1
<1>1. /\ Reads("server", "request") /\ atyp' = b[4]
      /\ UNCHANGED <<chain, asked, accepted, buf, granted, data>>
      /\ Ensure(good, "server", to, n, <<>>)
  BY DEF AcceptRequest
<1>2. /\ pc["server"] = "request" /\ need["server"] <= Len(wire["server"])
      /\ protocol = "socks5" /\ OursServer /\ ~granted
      /\ BadClient => AcceptorReadsBad
      /\ ~BadClient => AcceptorReads
      /\ OursClient => InStep
      /\ wire["server"] \in Bytes /\ wire["client"] \in Bytes
      /\ b = SubSeq(wire["server"], 1, need["server"])
      /\ \A i \in 1 .. need["server"] : b[i] = wire["server"][i] /\ wire["server"][i] \in Nat
  BY <1>1, AcceptorAt
<1>3. CASE ~good
  BY <1>1, <1>2, <1>3, ServerFails DEF Ensure
<1>4. CASE good
  <2>1. need["server"] = 4
    BY <1>2 DEF AcceptorReads, AcceptorReadsBad
  <2>2. to \in {"length", "address"} /\ to \in Place \ {"other"} /\ n \in Nat
    BY DEF Place
  <2>3. Goes("server", to, n, <<>>)
    BY <1>1, <1>4 DEF Ensure
  <2>4. <<>> \in Bytes
    BY DEF Bytes
  <2>5. /\ pc'["server"] = to /\ pc'["client"] = pc["client"] /\ need'["server"] = n
        /\ wire'["server"] = Behind(wire["server"], 4)
        /\ (OursClient' <=> OursClient)
        /\ Wanted' = Wanted /\ Type' = Type /\ Address' = Address
        /\ BehindAddress' = BehindAddress /\ BehindType' = BehindType
    BY <1>1, <2>1, <2>2, <2>3, <2>4, AcceptorGone, Zenon
  <2>6. ASSUME BadClient PROVE AcceptorReadsBad'
    <3>1. PICK bad \in Socks5BadClients :
            wire["server"] = Behind(bad, 3) /\ bad[1] = 5 /\ bad[2] = 1
      BY <1>2, <2>6 DEF AcceptorReadsBad
    <3>2. bad \in Bytes /\ Len(bad) \in Nat /\ Len(bad) >= 3
      BY <3>1, BadClientParts
    <3>3. /\ Len(Behind(bad, 3)) = Len(bad) - 3
          /\ \A i \in 1 .. Len(bad) - 3 : Behind(bad, 3)[i] = bad[3 + i]
      BY <3>2, BytesRead
    <3>4. Len(bad) >= 7
      BY <1>2, <2>1, <3>1, <3>2, <3>3
    <3>5. b[1] = bad[4] /\ b[2] = bad[5] /\ b[4] = bad[7]
      BY <1>2, <2>1, <3>1, <3>3, <3>4
    <3>6. \/ bad = <<5, 1, 0, 5, 1, 0, 3, 1, 255, 0, 80>>
          \/ bad = <<5, 1, 0, 5, 1, 0, 1, 127>>
      BY <1>4, <3>1, <3>4, <3>5, BadClientParts
    <3>7. Behind(Behind(bad, 3), 4) = Behind(bad, 7)
      <4>1. Behind(Behind(bad, 3), 4) = Behind(bad, 3 + 4)
        BY <3>2, <3>4, BehindBehind DEF Bytes
      <4> QED BY <4>1
    <3>8. CASE bad = <<5, 1, 0, 5, 1, 0, 3, 1, 255, 0, 80>>
      <4>1. b[4] = 3
        BY <3>5, <3>8, BadAddresses
      <4> QED BY <1>1, <2>5, <3>1, <3>7, <3>8, <4>1 DEF AcceptorReadsBad
    <3>9. CASE bad = <<5, 1, 0, 5, 1, 0, 1, 127>>
      <4>1. b[4] = 1
        BY <3>5, <3>9, BadAddresses
      <4> QED BY <1>1, <2>5, <3>1, <3>7, <3>9, <4>1 DEF AcceptorReadsBad
    <3> QED BY <3>6, <3>8, <3>9
  <2>7. ASSUME ~BadClient PROVE AcceptorReads'
    <3>1. /\ Type \in {1, 3, 4} /\ BehindType \in Bytes
          /\ Len(Address) = CASE Type = 1 -> 4 [] Type = 4 -> 16 [] OTHER -> Len(Wanted.host)
      BY <2>7, QueryTypes DEF Inv
    <3>2. wire["server"] = Asking
      <4>1. wire["server"] \in {<<>>, Asking}
        BY <1>2, <2>7 DEF AcceptorReads
      <4>2. wire["server"] # <<>>
        BY <1>2, <2>1
      <4> QED BY <4>1, <4>2
    <3>3. PICK head \in Bytes : head = <<5, 1, 0, Type>> /\ Len(head) = 4 /\ head[4] = Type
      <4>1. /\ <<5, 1, 0, Type>> \in Bytes /\ Len(<<5, 1, 0, Type>>) = 4
            /\ <<5, 1, 0, Type>>[4] = Type
        BY <3>1 DEF Bytes
      <4> QED BY <4>1, Zenon
    <3>4. SubSeq(wire["server"], 1, 4) = head /\ Behind(wire["server"], 4) = BehindType
      <4>1. wire["server"] = Cat(head, BehindType)
        BY <3>2, <3>3, Zenon DEF Asking
      <4>2. /\ SubSeq(Cat(head, BehindType), 1, 4) = head
            /\ Behind(Cat(head, BehindType), 4) = BehindType
        BY <3>1, <3>3, BytesHead, ZenonT(30)
      <4> QED BY <4>1, <4>2, Zenon
    <3>5. b[4] = Type /\ wire'["server"] = BehindType
      BY <1>2, <2>1, <2>5, <3>3, <3>4, Zenon
    <3>6. CASE Type = 3
      <4>1. pc'["server"] = "length" /\ need'["server"] = 1 /\ atyp' = 3
        BY <1>1, <2>5, <3>5, <3>6
      <4> QED BY <2>5, <3>5, <3>6, <4>1 DEF AcceptorReads
    <3>7. CASE Type # 3
      <4>1. /\ pc'["server"] = "address" /\ need'["server"] = Len(Address) /\ atyp' = Type
            /\ wire'["server"] = Cat(Address, BehindAddress)
        BY <1>1, <2>5, <3>1, <3>5, <3>7 DEF BehindType
      <4> QED BY <2>5, <4>1, Zenon DEF AcceptorReads
    <3> QED BY <3>6, <3>7
  <2>8. ASSUME OursClient PROVE InStep'
    BY <1>2, <2>1, <2>2, <2>5, <2>8, InStepLater
  <2> HIDE DEF b, to, n
  <2> QED BY <1>1, <1>2, <2>2, <2>3, <2>6, <2>7, <2>8, AcceptorStep, Zenon
<1> QED BY <1>3, <1>4

\* The length of a domain.
LEMMA LengthKeeps == ASSUME Inv, AcceptLength PROVE Inv'
<1> USE BothEnds
<1> DEFINE b == Read("server")
<1>1. /\ Reads("server", "length") /\ Goes("server", "address", b[1], <<>>)
      /\ UNCHANGED <<chain, asked, accepted, atyp, buf, granted, data>>
  BY DEF AcceptLength
<1>2. /\ pc["server"] = "length" /\ need["server"] <= Len(wire["server"])
      /\ protocol = "socks5" /\ OursServer /\ ~granted
      /\ BadClient => AcceptorReadsBad
      /\ ~BadClient => AcceptorReads
      /\ OursClient => InStep
      /\ wire["server"] \in Bytes
      /\ b = SubSeq(wire["server"], 1, need["server"])
      /\ \A i \in 1 .. need["server"] : b[i] = wire["server"][i] /\ wire["server"][i] \in Nat
  BY <1>1, AcceptorAt
<1>3. need["server"] = 1
  BY <1>2 DEF AcceptorReads, AcceptorReadsBad
<1>4. b[1] \in Nat /\ b[1] = wire["server"][1] /\ b = SubSeq(wire["server"], 1, 1)
  BY <1>2, <1>3
<1> HIDE DEF b
<1>5. <<>> \in Bytes /\ "address" \in Place \ {"other"}
  BY DEF Bytes, Place
<1>6. /\ pc'["server"] = "address" /\ pc'["client"] = pc["client"] /\ need'["server"] = b[1]
      /\ wire'["server"] = Behind(wire["server"], 1)
      /\ (OursClient' <=> OursClient)
      /\ Type' = Type /\ Address' = Address /\ BehindAddress' = BehindAddress
  BY <1>1, <1>3, <1>4, <1>5, AcceptorGone
<1>7. ASSUME BadClient PROVE AcceptorReadsBad'
  <2> DEFINE bad == <<5, 1, 0, 5, 1, 0, 3, 1, 255, 0, 80>>
  <2>1. wire["server"] = Behind(bad, 7) /\ atyp = 3 /\ bad \in Socks5BadClients
    BY <1>2, <1>7, Zenon DEF AcceptorReadsBad
  <2>2. bad \in Bytes /\ Len(bad) = 11 /\ bad[8] = 1
    BY BadAddresses
  <2> HIDE DEF bad
  <2>3. bad \in Bytes /\ Len(bad) \in Nat /\ Len(bad) >= 9
    BY <2>2
  <2>4. Behind(bad, 7)[1] = bad[7 + 1] /\ Behind(Behind(bad, 7), 1) = Behind(bad, 8)
    <3>1. Behind(bad, 7)[1] = bad[7 + 1]
      BY <2>3, BytesAt
    <3>2. Behind(Behind(bad, 7), 1) = Behind(bad, 7 + 1)
      BY <2>3, BehindBehind DEF Bytes
    <3> QED BY <3>1, <3>2
  <2>5. need'["server"] = 1 /\ wire'["server"] = Behind(bad, 8) /\ atyp' = 3
    BY <1>1, <1>4, <1>6, <2>1, <2>2, <2>4
  <2> QED BY <1>6, <2>1, <2>5 DEF AcceptorReadsBad, bad
<1>8. ASSUME ~BadClient PROVE AcceptorReads'
  <2>1. /\ Address \in Bytes /\ BehindAddress \in Bytes /\ Len(Wanted.host) \in Nat
        /\ Len(Address) = CASE Type = 1 -> 4 [] Type = 4 -> 16 [] OTHER -> Len(Wanted.host)
    BY <1>8, QueryTypes DEF Inv
  <2>2. wire["server"] = BehindType /\ Type = 3 /\ atyp = 3
    BY <1>2, <1>8 DEF AcceptorReads
  <2>3. PICK head \in Bytes :
          head = <<Len(Wanted.host)>> /\ Len(head) = 1 /\ head[1] = Len(Wanted.host)
    <3>1. /\ <<Len(Wanted.host)>> \in Bytes /\ Len(<<Len(Wanted.host)>>) = 1
          /\ <<Len(Wanted.host)>>[1] = Len(Wanted.host)
      BY <2>1 DEF Bytes
    <3> QED BY <3>1, Zenon
  <2>4. PICK rest \in Bytes : rest = Cat(Address, BehindAddress)
    BY <2>1, BytesParts, Zenon
  <2>5. wire["server"] = Cat(head, rest)
    BY <2>2, <2>3, <2>4 DEF BehindType
  <2>6. SubSeq(wire["server"], 1, 1) = head /\ Behind(wire["server"], 1) = rest
    <3>1. SubSeq(Cat(head, rest), 1, 1) = head /\ Behind(Cat(head, rest), 1) = rest
      BY <2>3, BytesHead, Zenon
    <3> QED BY <2>5, <3>1, Zenon
  <2>7. need'["server"] = Len(Address) /\ atyp' = Type
    <3>1. Len(Address) = Len(Wanted.host) /\ atyp' = Type
      BY <1>1, <2>1, <2>2
    <3> QED BY <1>4, <1>6, <2>3, <2>6, <3>1, Zenon
  <2> QED BY <1>6, <2>4, <2>6, <2>7 DEF AcceptorReads
<1>9. ASSUME OursClient PROVE InStep'
  BY <1>2, <1>6, <1>9, InStepLater
<1> QED BY <1>1, <1>2, <1>4, <1>7, <1>8, <1>9, AcceptorStep, Zenon

\* What the bytes of an address stand for.
LEMMA AddressMeans ==
    ASSUME Types, Chain, ~BadClient
    PROVE  /\ Type = 3 => Address = Wanted.host /\ IsUtf8(Address)
           /\ Type # 3 => IpText(Address) = Wanted.host
<1>1. Wanted \in Endpoints /\ Type \in {1, 3, 4} /\ Address \in Bytes
  BY QueryTypes
<1>2. ASSUME Type = 3 PROVE Address = Wanted.host /\ IsUtf8(Address)
  <2>1. Address = Wanted.host
    BY <1>2 DEF Address
  <2>2. Wanted.host \in Seq(TextByte)
    BY <1>1 DEF Endpoints
  <2>3. \A i \in DOMAIN Wanted.host : Wanted.host[i] \in TextByte
    BY <2>2
  <2> QED BY <2>1, <2>3 DEF IsUtf8, TextByte
<1>3. ASSUME Type # 3 PROVE IpText(Address) = Wanted.host
  <2>1. Wanted = origin /\ ~OursClient /\ origin.kind = "Addr"
    BY <1>1, <1>3 DEF Type, Wanted, Endpoints
  <2>2. PICK n \in 0 .. 9 : origin.host \in {<<Digit(n), Dot>>, <<Colon, Colon, Digit(n)>>}
    BY <2>1 DEF Chain, IsPrinted
  <2>3. CASE Type = 1
    <3>1. origin.host = <<Digit(n), Dot>>
      BY <2>1, <2>2, <2>3 DEF Type, IsIpv4Text, Digit, Dot, Colon
    <3>2. Address = <<127, 0, 0, n>>
      BY <2>1, <2>3, <3>1 DEF Address, Digit
    <3> QED BY <2>1, <3>1, <3>2 DEF IpText
  <2>4. CASE Type = 4
    <3>1. origin.host = <<Colon, Colon, Digit(n)>>
      BY <2>1, <2>2, <2>4 DEF Type, IsIpv4Text, Digit, Dot, Colon
    <3>2. Address = Cat([i \in 1 .. 15 |-> 0], <<n>>)
      BY <2>1, <2>4, <3>1 DEF Address, Digit
    <3>3. Len(Address) = 16
      BY <2>4, QueryTypes
    <3>4. Address[16] = n
      <4>1. PICK zeros \in Bytes, last \in Bytes :
              /\ zeros = [i \in 1 .. 15 |-> 0] /\ Len(zeros) = 15
              /\ last = <<n>> /\ Len(last) = 1 /\ last[1] = n
        <5>1. /\ [i \in 1 .. 15 |-> 0] \in Bytes /\ Len([i \in 1 .. 15 |-> 0]) = 15
              /\ <<n>> \in Bytes /\ Len(<<n>>) = 1 /\ <<n>>[1] = n
          BY DEF Bytes
        <5> QED BY <5>1, Zenon
      <4>2. Address = Cat(zeros, last)
        BY <3>2, <4>1, Zenon
      <4>3. Behind(Address, 15) = last
        BY <4>1, <4>2, BytesHead, ZenonT(30)
      <4>4. Behind(Address, 15)[1] = Address[15 + 1]
        <5>1. Len(Address) >= 16 /\ Len(Address) \in Nat
          BY <3>3
        <5> QED BY <1>1, <5>1, BytesAt
      <4> QED BY <4>1, <4>3, <4>4
    <3> QED BY <2>1, <3>1, <3>3, <3>4 DEF IpText
  <2> QED BY <1>1, <1>3, <2>3, <2>4
<1> QED BY <1>2, <1>3

\* The address: the endpoint is known, but for its port.
LEMMA AddressKeeps == ASSUME Inv, AcceptAddress PROVE Inv'
<1> USE BothEnds
<1> DEFINE b == Read("server")
<1>1. /\ Reads("server", "address")
      /\ Ensure(atyp # 3 \/ IsUtf8(b), "server", "port", 2, <<>>)
      /\ accepted' = IF atyp = 3 THEN new_from_domain(b, 0) ELSE new_from_addr(IpText(b), 0)
      /\ UNCHANGED <<chain, asked, atyp, buf, granted, data>>
  BY DEF AcceptAddress
<1>2. /\ pc["server"] = "address" /\ need["server"] <= Len(wire["server"])
      /\ protocol = "socks5" /\ OursServer /\ ~granted
      /\ BadClient => AcceptorReadsBad
      /\ ~BadClient => AcceptorReads
      /\ OursClient => InStep
      /\ wire["server"] \in Bytes
      /\ b = SubSeq(wire["server"], 1, need["server"]) /\ Len(b) = need["server"]
      /\ \A i \in 1 .. need["server"] : b[i] = wire["server"][i] /\ wire["server"][i] \in Nat
  BY <1>1, AcceptorAt
<1>3. CASE ~(atyp # 3 \/ IsUtf8(b))
  BY <1>1, <1>2, <1>3, ServerFails DEF Ensure
<1>4. CASE atyp # 3 \/ IsUtf8(b)
  <2>1. Goes("server", "port", 2, <<>>)
    BY <1>1, <1>4 DEF Ensure
  <2>2. <<>> \in Bytes /\ "port" \in Place \ {"other"}
    BY DEF Bytes, Place
  <2>3. /\ pc'["server"] = "port" /\ pc'["client"] = pc["client"] /\ need'["server"] = 2
        /\ wire'["server"] = Behind(wire["server"], need["server"])
        /\ (OursClient' <=> OursClient)
        /\ Type' = Type /\ Address' = Address /\ BehindAddress' = BehindAddress
        /\ Understood' = Understood
    BY <1>1, <2>1, <2>2, AcceptorGone
  <2>4. ~BadClient
    <3> SUFFICES ASSUME BadClient PROVE FALSE
      OBVIOUS
    <3>1. \/ /\ wire["server"] = Behind(<<5, 1, 0, 5, 1, 0, 3, 1, 255, 0, 80>>, 8)
             /\ need["server"] = 1 /\ atyp = 3
          \/ /\ wire["server"] = Behind(<<5, 1, 0, 5, 1, 0, 1, 127>>, 7)
             /\ need["server"] = 4
      BY <1>2, ZenonT(30) DEF AcceptorReadsBad
    <3>2. ASSUME wire["server"] = Behind(<<5, 1, 0, 5, 1, 0, 3, 1, 255, 0, 80>>, 8),
                 need["server"] = 1, atyp = 3
          PROVE  FALSE
      <4>1. PICK bad \in Bytes :
              bad = <<5, 1, 0, 5, 1, 0, 3, 1, 255, 0, 80>> /\ Len(bad) >= 9 /\ bad[9] = 255
        BY BadAddresses
      <4>2. Behind(bad, 8)[1] = bad[8 + 1]
        <5>1. Len(bad) \in Nat /\ Len(bad) >= 9
          BY <4>1, BytesParts, Zenon
        <5> QED BY <5>1, BytesAt
      <4>3. b[1] = 255 /\ 1 \in DOMAIN b
        BY <1>2, <3>2, <4>1, <4>2
      <4>4. 255 \notin TextByte
        BY DEF TextByte
      <4> QED BY <1>4, <3>2, <4>3, <4>4, ZenonT(30) DEF IsUtf8
    <3>3. ASSUME wire["server"] = Behind(<<5, 1, 0, 5, 1, 0, 1, 127>>, 7),
                 need["server"] = 4
          PROVE  FALSE
      <4>1. PICK bad \in Bytes : bad = <<5, 1, 0, 5, 1, 0, 1, 127>> /\ Len(bad) = 8
        BY BadAddresses
      <4>2. Len(Behind(bad, 7)) = Len(bad) - 7
        <5>1. Len(bad) \in Nat /\ Len(bad) >= 7
          BY <4>1
        <5> QED BY <5>1, BytesRead
      <4> QED BY <1>2, <3>3, <4>1, <4>2
    <3> QED BY <3>1, <3>2, <3>3
  <2>5. AcceptorReads'
    <3>1. /\ Address \in Bytes /\ BehindAddress \in Bytes
          /\ Type \in {1, 3, 4}
      BY <2>4, QueryTypes DEF Inv
    <3>2. /\ need["server"] = Len(Address) /\ wire["server"] = Cat(Address, BehindAddress)
          /\ atyp = Type
      BY <1>2, <2>4 DEF AcceptorReads
    <3>3. b = Address /\ wire'["server"] = BehindAddress
      <4>1. /\ SubSeq(Cat(Address, BehindAddress), 1, Len(Address)) = Address
            /\ Behind(Cat(Address, BehindAddress), Len(Address)) = BehindAddress
        BY <3>1, BytesHead, Zenon
      <4> QED BY <1>2, <2>3, <3>2, <4>1, Zenon
    <3>4. accepted' = Understood
      <4> HIDE DEF b
      <4>1. /\ Type = 3 => b = Wanted.host
            /\ Type # 3 => IpText(b) = Wanted.host
        BY <2>4, <3>3, AddressMeans DEF Inv
      <4> QED BY <1>1, <3>2, <4>1 DEF Understood, new_from_domain, new_from_addr
    <3> QED BY <2>3, <3>3, <3>4 DEF AcceptorReads
  <2>6. ASSUME OursClient PROVE InStep'
    BY <1>2, <2>3, <2>6, InStepLater
  <2> QED BY <1>1, <1>2, <2>1, <2>4, <2>5, <2>6, AcceptorStep, Zenon
<1> QED BY <1>3, <1>4

\* The port: the endpoint is complete.
LEMMA PortKeeps == ASSUME Inv, AcceptPort PROVE Inv'
<1> USE BothEnds
<1> DEFINE b == Read("server")
<1>1. /\ Reads("server", "port")
      /\ Goes("server", "connecting", 0, <<>>)
      /\ accepted' = [accepted EXCEPT !.port = PortOf(b)]
      /\ UNCHANGED <<chain, asked, atyp, buf, granted, data>>
  BY DEF AcceptPort
<1>2. /\ pc["server"] = "port" /\ need["server"] <= Len(wire["server"])
      /\ protocol = "socks5" /\ OursServer /\ ~granted
      /\ BadClient => AcceptorReadsBad
      /\ ~BadClient => AcceptorReads
      /\ OursClient => InStep
      /\ wire["server"] \in Bytes
      /\ b = SubSeq(wire["server"], 1, need["server"])
  BY <1>1, AcceptorAt
<1> HIDE DEF b
<1>3. ~BadClient
  BY <1>2 DEF AcceptorReadsBad
<1>4. <<>> \in Bytes /\ "connecting" \in Place \ {"other"}
  BY DEF Bytes, Place
<1>5. /\ pc'["server"] = "connecting" /\ pc'["client"] = pc["client"] /\ need'["server"] = 0
      /\ wire'["server"] = Behind(wire["server"], need["server"])
      /\ (OursClient' <=> OursClient)
      /\ Wanted' = Wanted /\ Understood' = Understood
  BY <1>1, <1>4, AcceptorGone, Zenon
<1>6. AcceptorReads'
  <2>1. /\ PortBytes(Wanted.port) \in Bytes /\ Len(PortBytes(Wanted.port)) = 2
        /\ Wanted.port \in Nat /\ data["client"] \in Bytes
    BY <1>3, QueryTypes DEF Inv, Endpoints, Types
  <2>2. need["server"] = 2 /\ wire["server"] = BehindAddress /\ accepted = Understood
    BY <1>2, <1>3 DEF AcceptorReads
  <2>3. b = PortBytes(Wanted.port) /\ wire'["server"] = data["client"]
    <3>1. /\ SubSeq(Cat(PortBytes(Wanted.port), data["client"]), 1, 2) = PortBytes(Wanted.port)
          /\ Behind(Cat(PortBytes(Wanted.port), data["client"]), 2) = data["client"]
      BY <2>1, BytesHead, Zenon
    <3> QED BY <1>2, <1>5, <2>2, <3>1, Zenon DEF BehindAddress
  <2>4. PortOf(PortBytes(Wanted.port)) = Wanted.port
    BY <2>1 DEF PortOf, PortBytes
  <2>5. accepted' = [Understood EXCEPT !.port = Wanted.port]
    BY <1>1, <2>2, <2>3, <2>4
  <2>6. data'["client"] = data["client"]
    BY <1>1
  <2> QED BY <1>5, <2>3, <2>5, <2>6 DEF AcceptorReads
<1>7. ASSUME OursClient PROVE InStep'
  BY <1>2, <1>5, <1>7, InStepLater
<1> QED BY <1>1, <1>2, <1>3, <1>6, <1>7, AcceptorStep, Zenon

\* What the acceptor answers is a reply that grants the connection.
LEMMA ResponseGrants == Response \in Bytes /\ IsReply(Response, <<>>)
<1>1. CASE atyp = 4
  <2>1. PICK x \in Bytes, z \in Bytes :
          /\ x = <<5, 0, 0, 4>> /\ Len(x) = 4 /\ x[1] = 5 /\ x[2] = 0 /\ x[3] = 0 /\ x[4] = 4
          /\ z = [i \in 1 .. 18 |-> 0] /\ Len(z) = 18
    <3> DEFINE u == <<5, 0, 0, 4>>
               v == [i \in 1 .. 18 |-> 0]
    <3>1. u \in Bytes /\ Len(u) = 4 /\ u[1] = 5 /\ u[2] = 0 /\ u[3] = 0 /\ u[4] = 4
      BY DEF Bytes
    <3>2. v \in Bytes /\ Len(v) = 18
      BY DEF Bytes
    <3> QED BY <3>1, <3>2, Zenon
  <2>2. PICK w \in Bytes : w = Cat(x, z)
    BY BytesParts, Zenon
  <2>3. Response = w
    BY <1>1, <2>1, <2>2, Zenon DEF Response, Cat
  <2>4. Len(w) = Len(x) + Len(z)
    BY <2>2, BytesParts
  <2>5. Len(w) = 22
    BY <2>1, <2>4
  <2>6. w[1] = 5 /\ w[2] = 0 /\ w[3] = 0 /\ w[4] = 4
    <3>1. \A i \in 1 .. Len(x) : w[i] = x[i]
      BY <2>2, BytesFirst
    <3> QED BY <2>1, <3>1
  <2>7. Behind(w, 22) = <<>>
    BY <2>5, BytesParts, Zenon
  <2> QED BY <2>3, <2>5, <2>6, <2>7 DEF IsReply, ReplyLen
<1>2. CASE atyp # 4
  <2>1. PICK w \in Bytes :
          /\ w = <<5, 0, 0, 1, 0, 0, 0, 0, 0, 0>> /\ Len(w) = 10
          /\ w[1] = 5 /\ w[2] = 0 /\ w[3] = 0 /\ w[4] = 1
    <3> DEFINE u == <<5, 0, 0, 1, 0, 0, 0, 0, 0, 0>>
    <3>1. u \in Bytes /\ Len(u) = 10 /\ u[1] = 5 /\ u[2] = 0 /\ u[3] = 0 /\ u[4] = 1
      BY DEF Bytes
    <3> QED BY <3>1, Zenon
  <2>2. Response = w
    BY <1>2, <2>1 DEF Response
  <2>3. Behind(w, 10) = <<>>
    BY <2>1, BytesParts, Zenon
  <2> QED BY <2>1, <2>2, <2>3 DEF IsReply, ReplyLen
<1> QED BY <1>1, <1>2

\* The answer to a request.
LEMMA RespondKeeps == ASSUME Inv, Respond PROVE Inv'
<1> USE BothEnds
<1>1. /\ pc["server"] = "connecting" /\ protocol = "socks5"
      /\ Goes("server", "tunnel", 0, Response) /\ granted' = TRUE
      /\ UNCHANGED <<chain, asked, accepted, atyp, buf, data>>
  BY DEF Respond
<1>2. OursServer /\ ~granted
  BY <1>1 DEF OursServer, Inv, Ends
<1>3. /\ BadClient => AcceptorReadsBad
      /\ ~BadClient => AcceptorReads
      /\ OursClient => InStep /\ ~BadClient /\ ConnectorReads
      /\ wire["server"] \in Bytes /\ need["server"] \in Nat
      /\ wire["client"] \in Bytes
  BY <1>1, <1>2, AcceptorOf
<1>4. ~BadClient
  BY <1>1, <1>3 DEF AcceptorReadsBad
<1>5. need["server"] = 0
  BY <1>1, <1>3, <1>4 DEF AcceptorReads
<1>6. Response \in Bytes /\ "tunnel" \in Place /\ need["server"] <= Len(wire["server"])
  BY <1>3, <1>5, ResponseGrants, BytesParts DEF Place
<1>7. /\ pc' \in [End -> Place] /\ need' \in [End -> Nat] /\ wire' \in [End -> Bytes]
      /\ closed' = closed
      /\ pc'["server"] = "tunnel" /\ pc'["client"] = pc["client"]
      /\ need'["server"] = 0 /\ need'["client"] = need["client"]
      /\ wire'["server"] = wire["server"]
      /\ wire'["client"] = Cat(wire["client"], Response)
  <2>1. Behind(wire["server"], 0) = wire["server"]
    BY <1>3, BytesParts
  <2> QED BY <1>1, <1>5, <1>6, <2>1, GoesOn DEF Inv
<1>8. (OursClient' <=> OursClient) /\ OursServer' /\ UNCHANGED <<origin, hop, protocol, request>>
  BY <1>1, <1>7 DEF OursClient, OursServer, chain
<1>9. Types'
  BY <1>1, <1>7, <1>8 DEF Inv, Types
<1>10. Ends'
  BY <1>1, <1>2, <1>7, <1>8 DEF Inv, Ends
<1>11. Chain'
  BY <1>8, SameChain DEF Inv
<1>12. ~BadClient'
  BY <1>4, <1>8 DEF BadClient
<1>13. AcceptorReads'
  <2>1. Wanted' = Wanted /\ Understood' = Understood
    BY <1>1, <1>8, SameQuery
  <2> QED BY <1>1, <1>3, <1>4, <1>7, <2>1 DEF AcceptorReads
<1>14. ASSUME OursClient PROVE InStep' /\ ConnectorReads'
  <2>1. pc["client"] \in {"reply", "failed"}
    BY <1>1, <1>2, <1>3, <1>14 DEF InStep, ConnectorReads, Inv, Types, OursClient
  <2>2. InStep'
    BY <1>7, <2>1 DEF InStep
  <2>3. ASSUME pc["client"] = "reply" PROVE IsReply(wire["client"], data["server"])'
    <3>1. wire["client"] = <<>> /\ data["server"] = <<>>
      BY <1>1, <1>2, <1>3, <1>14, <2>3, Zenon DEF ConnectorReads, Inv, Ends
    <3>2. Cat(<<>>, Response) = Response
      BY <1>6, BytesParts
    <3>3. wire'["client"] = Response /\ data'["server"] = <<>>
      BY <1>1, <1>7, <3>1, <3>2
    <3>4. IsReply(Response, <<>>)
      BY ResponseGrants
    <3> QED BY <3>3, <3>4 DEF IsReply, ReplyLen
  <2>4. ConnectorReads'
    <3>1. pc["client"] = "reply" => need["client"] = 4
      BY <1>3, <1>14 DEF ConnectorReads
    <3> QED BY <1>1, <1>7, <2>1, <2>3, <3>1, ZenonT(30) DEF ConnectorReads
  <2> QED BY <2>2, <2>4
<1>15. Handshakes'
  BY <1>1, <1>8, <1>12, <1>13, <1>14 DEF Handshakes
<1> QED BY <1>9, <1>10, <1>11, <1>15 DEF Inv

-----------------------------------------------------------------------------
(* The steps outside of the handshakes. *)

\* An end sees that the other is gone, or is dropped.
LEMMA GoneKeeps == ASSUME Inv, NEW e \in End, PeerGone(e) \/ Dropped(e) PROVE Inv'
<1>1. /\ Waiting(e) /\ Fails(e)
      /\ UNCHANGED <<chain, asked, accepted, atyp, buf, granted, data>>
  BY DEF PeerGone, Dropped
<1>2. buf' \in Bytes
  BY <1>1 DEF Inv, Types
<1>3. CASE e = "client"
  BY <1>1, <1>2, <1>3, ClientFails DEF Waiting
<1>4. CASE e = "server"
  BY <1>1, <1>4, ServerFails DEF Waiting
<1> QED BY <1>3, <1>4 DEF End

\* The script refuses.
LEMMA RefuseKeeps == ASSUME Inv, Refuse PROVE Inv'
BY ServerFails DEF Refuse

\* The connector is connected to the proxy.
LEMMA ConnectedKeeps ==
    ASSUME Inv, pc["client"] = "dialing", pc' = [pc EXCEPT !["client"] = "start"],
           UNCHANGED <<chain, asked, accepted, atyp, need, wire, closed, buf, granted, data>>
    PROVE  Inv'
<1> USE BothEnds
<1>1. UNCHANGED <<origin, hop, protocol, request>>
  BY DEF chain
<1>2. pc' \in [End -> Place] /\ pc'["client"] = "start" /\ pc'["server"] = pc["server"]
  BY DEF Inv, Types, Place
<1>3. (OursServer' <=> OursServer) /\ OursClient /\ OursClient'
  BY <1>2 DEF OursClient, OursServer
<1>4. Types'
  BY <1>1, <1>2, <1>3 DEF Inv, Types
<1>5. Ends'
  BY <1>1, <1>2, <1>3 DEF Inv, Ends
<1>6. Chain'
  BY <1>1, <1>3, SameChain DEF Inv
<1>7. BadClient' <=> BadClient
  BY <1>1, <1>3 DEF BadClient
<1>8. (AcceptorReads => AcceptorReads') /\ (AcceptorReadsBad => AcceptorReadsBad')
  BY <1>1, <1>2, <1>3, SameAcceptor
<1>9. TextAccepted => TextAccepted'
  BY <1>1, <1>2, <1>3, SameTextAcceptor
<1>10. (ConnectorReads => ConnectorReads') /\ ~ConnectorReadsBad
  BY <1>2 DEF ConnectorReads, ConnectorReadsBad, IsReply, ReplyLen
<1>11. InStep => InStep'
  BY <1>2 DEF InStep
<1>12. (ConnectReads => ConnectReads') /\ (UpgradeReads => UpgradeReads')
  <2>1. ASSUME NEW answer, NEW code
        PROVE  Answered(answer, code) => Answered(answer, code)'
    BY <1>3 DEF Answered
  <2>2. Cat(buf, wire["client"])' = Cat(buf, wire["client"])
    BY DEF Cat
  <2>3. ConnectReads => ConnectReads'
    BY <1>2, <2>1, <2>2 DEF ConnectReads
  <2>4. UpgradeReads => UpgradeReads'
    BY <1>2, <2>1 DEF UpgradeReads
  <2> QED BY <2>3, <2>4
<1>13. Handshakes'
  BY <1>1, <1>2, <1>3, <1>7, <1>8, <1>9, <1>10, <1>11, <1>12 DEF Inv, Handshakes
<1> QED BY <1>4, <1>5, <1>6, <1>13 DEF Inv

\* Another program closes its end.
LEMMA OtherClosesKeeps == ASSUME Inv, NEW e \in End, OtherCloses(e) PROVE Inv'
<1> USE BothEnds
<1>1. /\ pc[e] = "other" /\ closed' = closed \cup {e}
      /\ UNCHANGED <<chain, asked, accepted, atyp, pc, need, wire, buf, granted, data>>
  BY DEF OtherCloses
<1>2. UNCHANGED <<origin, hop, protocol, request>>
  BY <1>1 DEF chain
<1>3. (OursClient' <=> OursClient) /\ (OursServer' <=> OursServer)
  BY <1>1 DEF OursClient, OursServer
<1>4. Types'
  BY <1>1, <1>2, <1>3 DEF Inv, Types
<1>5. Ends'
  BY <1>1, <1>2, <1>3 DEF Inv, Ends
<1>6. Chain'
  BY <1>2, <1>3, SameChain DEF Inv
<1>7. BadClient' <=> BadClient
  BY <1>2, <1>3 DEF BadClient
<1>8. (AcceptorReads => AcceptorReads') /\ (AcceptorReadsBad => AcceptorReadsBad')
  BY <1>1, <1>2, <1>3, SameAcceptor
<1>9. TextAccepted => TextAccepted'
  BY <1>1, <1>2, <1>3, SameTextAcceptor
<1>10. (ConnectorReads => ConnectorReads') /\ (ConnectorReadsBad => ConnectorReadsBad')
  BY <1>1, SameConnector
<1>11. InStep => InStep'
  <2>1. Asking' = Asking
    BY <1>1, <1>2, <1>3, SameQuery
  <2> QED BY <1>1, <2>1 DEF InStep
<1>12. (ConnectReads => ConnectReads') /\ (UpgradeReads => UpgradeReads')
  BY <1>1, <1>3, SameTextConnector
<1>13. Handshakes'
  BY <1>1, <1>2, <1>3, <1>7, <1>8, <1>9, <1>10, <1>11, <1>12 DEF Inv, Handshakes
<1> QED BY <1>4, <1>5, <1>6, <1>13 DEF Inv

\* What a proxy has accepted stands for what the first client has asked for.
LEMMA AcceptedFollows ==
    ASSUME Inv, pc["server"] \in {"connecting", "tunnel"}
    PROVE  /\ accepted \in Endpoints /\ origin \in Endpoints
           /\ IsWord(origin.host) => Follows(accepted, origin)
           /\ Follows(origin, origin)
           /\ origin.kind = "Addr" => IsIpText(origin.host)
<1>1. OursServer
  BY DEF OursServer
<1>2. ~BadClient
  BY <1>1 DEF Inv, Handshakes, AcceptorReadsBad, Chain
<1>3. /\ Wanted \in Endpoints /\ Follows(origin, origin) /\ origin \in Endpoints
      /\ IsWord(origin.host) => Follows(Wanted, origin)
  BY <1>2 DEF Inv, Chain, Follows
<1>4. origin.kind = "Addr" => IsIpText(origin.host)
  <2>1. ~(IsBracketed(origin.host) /\ origin.host = Unbracketed(origin.host))
    <3>1. origin.host \in Seq(TextByte)
      BY <1>3 DEF Endpoints
    <3>2. ~IsBracketed(Unbracketed(origin.host))
      BY <3>1, BracketsOnce
    <3> QED BY <3>2, Zenon
  <2> QED BY <1>3, <2>1 DEF Follows
<1>5. CASE protocol # "socks5"
  <2>1. ReadAs(accepted)
    BY <1>5 DEF Inv, Handshakes, TextAccepted
  <2>2. accepted \in Endpoints
    BY <1>3, <2>1, ScriptType DEF ReadAs
  <2>3. ASSUME IsWord(origin.host) PROVE Follows(accepted, origin)
    <3>1. Follows(Wanted, origin)
      BY <1>3, <2>3
    <3>2. IsWord(to_string(Wanted).host)
      BY <1>3, <2>3, <3>1, WordKept
    <3>3. accepted = ThroughScript(Wanted)
      BY <2>1, <3>2 DEF ReadAs
    <3> QED BY <1>3, <3>1, <3>3, FollowsScript
  <2> QED BY <1>3, <1>4, <2>2, <2>3
<1>6. CASE protocol = "socks5"
  <2>1. accepted = [Understood EXCEPT !.port = Wanted.port]
    BY <1>1, <1>2, <1>6 DEF Inv, Handshakes, AcceptorReads
  <2>2. accepted = [kind |-> IF Type = 3 THEN "Domain" ELSE "Addr",
                    host |-> Wanted.host, port |-> Wanted.port]
    BY <2>1 DEF Understood
  <2>3. accepted \in Endpoints
    BY <1>3, <2>2 DEF Endpoints
  <2>4. Type # 3 => IsIpText(Wanted.host)
    <3>1. Type # 3 => ~OursClient /\ Wanted = origin /\ origin.kind = "Addr"
      BY <1>3 DEF Type, Wanted, Endpoints
    <3> QED BY <1>4, <3>1
  <2>5. IsWord(origin.host) => Follows(accepted, origin)
    BY <1>3, <2>2, <2>3, <2>4 DEF Follows
  <2> QED BY <1>3, <1>4, <2>3, <2>5
<1> QED BY <1>5, <1>6

\* A new connection of the program with itself.
Opened ==
    /\ protocol \in {"socks5", "http", "simplex"}
    /\ asked = NoText
    /\ pc["client"] \in {"dialing", "start"}
    /\ pc = [client |-> pc["client"], server |-> FirstRead(protocol)]
    /\ need = FirstNeed(protocol)
    /\ wire = [e \in End |-> <<>>]
    /\ closed = {}
    /\ buf = <<>>
    /\ granted = FALSE
    /\ data = [e \in End |-> <<>>]
    /\ request \in Endpoints /\ Follows(origin, origin)
    /\ IsWord(origin.host) => Follows(request, origin)

LEMMA OpenedInv == Opened => Inv
<1> USE BothEnds
<1> SUFFICES ASSUME Opened PROVE Inv
  OBVIOUS
<1>1. /\ pc["client"] \in {"dialing", "start"}
      /\ pc["server"] = IF protocol = "socks5" THEN "hello" ELSE "text"
      /\ need["client"] = 0
      /\ need["server"] = IF protocol = "socks5" THEN 2 ELSE 0
      /\ wire["client"] = <<>> /\ wire["server"] = <<>>
      /\ data["client"] = <<>> /\ data["server"] = <<>>
      /\ closed = {} /\ buf = <<>> /\ ~granted /\ asked = NoText
  BY DEF Opened, FirstRead, FirstNeed
<1>2. OursClient /\ OursServer /\ ~BadClient /\ Wanted = request
  BY <1>1 DEF OursClient, OursServer, BadClient, Wanted
<1>3. Types
  <2>1. pc \in [End -> Place]
    <3>1. DOMAIN pc = End /\ pc = [e \in End |-> pc[e]]
      BY DEF Opened
    <3> QED BY <1>1, <3>1 DEF Place
  <2>2. need \in [End -> Nat]
    <3>1. DOMAIN need = End /\ need = [e \in End |-> need[e]]
      BY DEF Opened, FirstNeed
    <3> QED BY <1>1, <3>1
  <2>3. <<>> \in Bytes
    BY DEF Bytes
  <2>4. wire \in [End -> Bytes] /\ data \in [End -> Bytes] /\ buf \in Bytes
    BY <2>3 DEF Opened
  <2> QED BY <1>1, <1>2, <2>1, <2>2, <2>4, Zenon DEF Opened, Types
<1>4. Ends
  BY <1>1, <1>2 DEF Ends
<1>5. Chain
  BY <1>2 DEF Opened, Chain
<1>6. AcceptorReads /\ ConnectorReads /\ (InStep \/ protocol # "socks5")
  <2>1. AcceptorReads
    <3>1. /\ pc["server"] \in {"hello", "text"} /\ wire["server"] = <<>>
          /\ pc["server"] = "hello" => need["server"] = 2
      BY <1>1
    <3> QED BY <3>1 DEF AcceptorReads
  <2>2. ConnectorReads
    BY <1>1 DEF ConnectorReads
  <2>3. InStep \/ protocol # "socks5"
    BY <1>1 DEF InStep
  <2> QED BY <2>1, <2>2, <2>3
<1>7. TextAccepted \/ protocol = "socks5"
  BY <1>1 DEF TextAccepted
<1>8. Answered(<<>>, OK) /\ Answered(<<>>, 101)
  BY <1>1 DEF Answered, Refusals
<1>9. ConnectReads /\ UpgradeReads
  <2>1. Cat(<<>>, <<>>) = <<>>
    <3>1. <<>> \in Bytes
      BY DEF Bytes
    <3> QED BY <3>1, BytesParts
  <2>2. Cat(buf, wire["client"]) = <<>>
    BY <1>1, <2>1, Zenon
  <2> QED BY <1>1, <1>8, <2>2 DEF ConnectReads, UpgradeReads
<1>10. Handshakes
  BY <1>2, <1>6, <1>7, <1>9 DEF Handshakes
<1> QED BY <1>3, <1>4, <1>5, <1>10 DEF Inv

\* The script connects to the next proxy.
LEMMA NextHopKeeps ==
    ASSUME Inv, NEW by \in {"socks5", "http", "simplex"}, NextHop(by)
    PROVE  Inv'
<1>1. /\ accepted \in Endpoints /\ origin \in Endpoints /\ Follows(origin, origin)
      /\ IsWord(origin.host) => Follows(accepted, origin)
  BY AcceptedFollows DEF NextHop
<1>2. ThroughScript(accepted) \in Endpoints
  BY <1>1, ScriptType
<1>3. IsWord(origin.host) => Follows(ThroughScript(accepted), origin)
  BY <1>1, FollowsScript
<1>4. Opened'
  BY <1>1, <1>2, <1>3 DEF NextHop, Opened
<1>5. (Opened => Inv)'
  BY OpenedInv, PTL
<1> QED BY <1>4, <1>5

\* What is sent behind a reply does not change the reply.
LEMMA ReplyCat ==
    ASSUME NEW w \in Bytes, NEW d \in Bytes, NEW p \in Bytes, IsReply(w, d)
    PROVE  IsReply(Cat(w, p), Cat(d, p))
<1>1. Len(w) >= 5 /\ Len(w) >= ReplyLen(w) /\ Behind(w, ReplyLen(w)) = d
  BY DEF IsReply
<1>2. w[1] = 5 /\ w[2] = 0 /\ w[3] = 0 /\ w[4] \in {1, 3, 4}
  BY DEF IsReply
<1>3. Len(w) \in Nat /\ Len(p) \in Nat /\ Len(Cat(w, p)) = Len(w) + Len(p)
  BY BytesParts
<1>4. \A i \in 1 .. 5 : i \in 1 .. Len(w)
  BY <1>1, <1>3
<1>5. \A i \in 1 .. 5 : Cat(w, p)[i] = w[i]
  BY <1>4, BytesFirst
<1>6. Cat(w, p)[1] = w[1] /\ Cat(w, p)[2] = w[2] /\ Cat(w, p)[3] = w[3]
      /\ Cat(w, p)[4] = w[4] /\ Cat(w, p)[5] = w[5]
  BY <1>5
<1>7. ReplyLen(Cat(w, p)) = ReplyLen(w)
  BY <1>6, Zenon DEF ReplyLen
<1>8. ReplyLen(w) \in Nat
  <2>1. w[5] \in Nat
    BY <1>4 DEF Bytes
  <2> QED BY <1>2, <2>1 DEF ReplyLen
<1>9. Behind(Cat(w, p), ReplyLen(w)) = Cat(d, p)
  <2>1. ReplyLen(w) \in 0 .. Len(w)
    BY <1>1, <1>3, <1>8
  <2>2. Behind(Cat(w, p), ReplyLen(w)) = Cat(Behind(w, ReplyLen(w)), p)
    BY <2>1, BehindCat DEF Bytes
  <2> QED BY <1>1, <2>2, Zenon
<1>10. Len(Cat(w, p)) >= 5 /\ Len(Cat(w, p)) >= ReplyLen(w)
  BY <1>1, <1>3, <1>8
<1> QED BY <1>2, <1>6, <1>7, <1>9, <1>10 DEF IsReply

\* An end sends one byte.
LEMMA SendsByte ==
    ASSUME Inv, NEW e \in End, TunnelSend(e)
    PROVE  \E p \in Bytes :
             /\ data' \in [End -> Bytes] /\ wire' \in [End -> Bytes]
             /\ data'[e] = Cat(data[e], p) /\ data'[Peer(e)] = data[Peer(e)]
             /\ wire'[Peer(e)] = Cat(wire[Peer(e)], p) /\ wire'[e] = wire[e]
<1>1. Peer(e) \in End /\ Peer(e) # e
  BY DEF Peer, End
<1>2. data[e] \in Bytes /\ wire[Peer(e)] \in Bytes
  BY <1>1 DEF Inv, Types
<1> DEFINE byte == 201 + Len(data[e])
           d == Cat(data[e], <<byte>>)
           w == Cat(wire[Peer(e)], <<byte>>)
<1>3. byte \in Nat
  BY <1>2 DEF Bytes
<1>4. /\ data' = [data EXCEPT ![e] = Append(data[e], byte)]
      /\ wire' = [wire EXCEPT ![Peer(e)] = Append(wire[Peer(e)], byte)]
  BY <1>1 DEF TunnelSend, Inv, Types
<1> HIDE DEF byte
<1>5. Append(data[e], byte) = d /\ Append(wire[Peer(e)], byte) = w
  BY <1>2, <1>3, AppendIsCat DEF Bytes
<1>6. <<byte>> \in Bytes
  BY <1>3 DEF Bytes
<1>7. d \in Bytes /\ w \in Bytes
  BY <1>2, <1>6, BytesParts, Zenon
<1>8. data' = [data EXCEPT ![e] = d] /\ wire' = [wire EXCEPT ![Peer(e)] = w]
  BY <1>4, <1>5, Zenon
<1>9. d = Cat(data[e], <<byte>>) /\ w = Cat(wire[Peer(e)], <<byte>>)
  OBVIOUS
<1> HIDE DEF d, w
<1>10. /\ data' \in [End -> Bytes] /\ wire' \in [End -> Bytes]
       /\ data'[e] = d /\ data'[Peer(e)] = data[Peer(e)]
       /\ wire'[Peer(e)] = w /\ wire'[e] = wire[e]
  BY <1>1, <1>7, <1>8 DEF Inv, Types
<1> QED BY <1>6, <1>9, <1>10, Zenon

=============================================================================
