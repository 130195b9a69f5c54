-------------------------------- MODULE Socks5 --------------------------------
(***************************************************************************)
(* Both ends of a SOCKS5 handshake: handshake() of core/src/core/acceptor/ *)
(* socks5.rs, with the engine's connection to the target in its middle,    *)
(* and connect() of core/src/core/connector/socks5.rs.  One step is one    *)
(* read_exact and what is done up to the next.                             *)
(***************************************************************************)
EXTENDS Stream

CONSTANT MaxLength  \* the largest length of a domain that a byte holds, 255 in the code

ASSUME MaxLengthAssumption == MaxLength \in Nat

\* u16::to_be_bytes and read_u16
PortBytes(port) == <<port \div 256, port % 256>>
PortOf(bytes) == bytes[1] * 256 + bytes[2]

\* String::from_utf8
IsUtf8(bytes) == \A i \in DOMAIN bytes : bytes[i] \in TextByte

-----------------------------------------------------------------------------
(* The acceptor. *)

AcceptHello ==
    /\ Reads("server", "hello")
    /\ LET b == Read("server") IN Ensure(b[1] = 5 /\ b[2] # 0, "server", "methods", b[2], <<>>)
    /\ UNCHANGED <<chain, asked, accepted, atyp, buf, granted, data>>

AcceptMethods ==
    /\ Reads("server", "methods")
    /\ LET b == Read("server")
       IN  Ensure(\E i \in DOMAIN b : b[i] = 0, "server", "request", 4, <<5, 0>>)
    /\ UNCHANGED <<chain, asked, accepted, atyp, buf, granted, data>>

AcceptRequest ==
    /\ Reads("server", "request")
    /\ LET b == Read("server")
       IN  /\ Ensure(b[1] = 5 /\ b[2] = 1 /\ b[4] \in {1, 3, 4}, "server",
                     IF b[4] = 3 THEN "length" ELSE "address",
                     CASE b[4] = 1 -> 4 [] b[4] = 4 -> 16 [] OTHER -> 1, <<>>)
           /\ atyp' = b[4]
    /\ UNCHANGED <<chain, asked, accepted, buf, granted, data>>

AcceptLength ==
    /\ Reads("server", "length")
    /\ Goes("server", "address", Read("server")[1], <<>>)
    /\ UNCHANGED <<chain, asked, accepted, atyp, buf, granted, data>>

AcceptAddress ==
    /\ Reads("server", "address")
    /\ LET b == Read("server")
       IN  /\ Ensure(atyp # 3 \/ IsUtf8(b), "server", "port", 2, <<>>)
           /\ accepted' = IF atyp = 3 THEN new_from_domain(b, 0) ELSE new_from_addr(IpText(b), 0)
    /\ UNCHANGED <<chain, asked, atyp, buf, granted, data>>

\* The endpoint is complete: handshake() returns it with a future.
AcceptPort ==
    /\ Reads("server", "port")
    /\ Goes("server", "connecting", 0, <<>>)
    /\ accepted' = [accepted EXCEPT !.port = PortOf(Read("server"))]
    /\ UNCHANGED <<chain, asked, atyp, buf, granted, data>>

Response ==
    IF atyp = 4 THEN <<5, 0, 0, 4>> \o [i \in 1 .. 18 |-> 0] ELSE <<5, 0, 0, 1, 0, 0, 0, 0, 0, 0>>

\* The engine has connected to the endpoint and awaits the future.
Respond ==
    /\ pc["server"] = "connecting"
    /\ protocol = "socks5"
    /\ Goes("server", "tunnel", 0, Response)
    /\ granted' = TRUE
    /\ UNCHANGED <<chain, asked, accepted, atyp, buf, data>>

-----------------------------------------------------------------------------
(* The connector. *)

SendHello ==
    /\ pc["client"] = "start"
    /\ protocol = "socks5"
    /\ Goes("client", "method", 2, <<5, 1, 0>>)
    /\ UNCHANGED <<chain, asked, accepted, atyp, buf, granted, data>>

\* Mutant of LengthByte: a cast in place of try_into.
LengthByteCast(text) == Len(text) % (MaxLength + 1)

LengthByte(text) == Len(text)

\* The method is accepted: send the request, always with a domain.
SendRequest ==
    /\ Reads("client", "method")
    /\ LET b == Read("client")
           text == hostname(request)
       IN  Ensure(b = <<5, 0>> /\ LengthByte(text) <= MaxLength, "client", "reply", 4,
                  <<5, 1, 0, 3, LengthByte(text)>> \o text \o PortBytes(request.port))
    /\ UNCHANGED <<chain, asked, accepted, atyp, buf, granted, data>>

\* Mutant of ReplyRest: the port is left to the tunnel.
ReplyRestWithoutPort(type) == CASE type = 1 -> 4 [] type = 4 -> 16 [] OTHER -> 1

\* Mutant of ReplyRest: an IPv6 address is expected, whatever the type.
ReplyRestLong(type) == IF type = 3 THEN 1 ELSE 18

\* What follows the type of the address: the address and the port.
ReplyRest(type) == CASE type = 1 -> 6 [] type = 4 -> 18 [] OTHER -> 1

\* Mutant of ReplyTypes: only the type that was sent.
ReplyTypesAsSent == {3}

ReplyTypes == {1, 3, 4}

ReadReply ==
    /\ Reads("client", "reply")
    /\ LET b == Read("client")
       IN  Ensure(b[1] = 5 /\ b[2] = 0 /\ b[3] = 0 /\ b[4] \in ReplyTypes, "client",
                  IF b[4] = 3 THEN "reply_length" ELSE "reply_rest", ReplyRest(b[4]), <<>>)
    /\ UNCHANGED <<chain, asked, accepted, atyp, buf, granted, data>>

ReadReplyLength ==
    /\ Reads("client", "reply_length")
    /\ Goes("client", "reply_rest", Read("client")[1] + 2, <<>>)
    /\ UNCHANGED <<chain, asked, accepted, atyp, buf, granted, data>>

ReadReplyRest ==
    /\ Reads("client", "reply_rest")
    /\ Goes("client", "tunnel", 0, <<>>)
    /\ UNCHANGED <<chain, asked, accepted, atyp, buf, granted, data>>

Socks5Acceptor ==
    \/ AcceptHello \/ AcceptMethods \/ AcceptRequest \/ AcceptLength \/ AcceptAddress
    \/ AcceptPort \/ Respond

Socks5Connector ==
    SendHello \/ SendRequest \/ ReadReply \/ ReadReplyLength \/ ReadReplyRest

=============================================================================
