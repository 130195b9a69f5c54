------------------------------- MODULE Endpoint -------------------------------
(***************************************************************************)
(* core/src/core/endpoint.rs, and the questions ConnectRequest of          *)
(* config/engine/connect.rs answers about an endpoint.                     *)
(*                                                                         *)
(* A host is its text, a sequence of bytes, of which only the form         *)
(* matters: the digits of an IP address are reduced to its last one.       *)
(* A printed endpoint is the text before its last colon and the port.      *)
(***************************************************************************)
EXTENDS Integers, Sequences

\* The bytes of a text.  255 is in no UTF-8, and stands for all that is not.
TextByte == 0 .. 254
Blank == {9, 32}
Control == (0 .. 31) \cup {127}

\* A name is of any text: String::from_utf8 is all that a SOCKS5 request has to
\* pass.  One word is what a line of text can carry.
IsWord(text) == text \in Seq(TextByte \ (Blank \cup Control))

Dot == 46
Colon == 58
Digit(n) == 48 + n

\* IpAddr::from and to_string, of 4 or 16 bytes.
IpText(raw) ==
    IF Len(raw) = 4 THEN <<Digit(raw[4]), Dot>> ELSE <<Colon, Colon, Digit(raw[16])>>

IsIpv4Text(text) == Len(text) = 2 /\ text[2] = Dot
IsIpv6Text(text) == Len(text) = 3 /\ text[1] = Colon
IsIpText(text) == IsIpv4Text(text) \/ IsIpv6Text(text)

Bracketed(text) == <<91>> \o text \o <<93>>
IsBracketed(text) == Len(text) = 5 /\ text[1] = 91
Unbracketed(text) == IF IsBracketed(text) THEN SubSeq(text, 2, 4) ELSE text

new_from_domain(text, port) == [kind |-> "Domain", host |-> text, port |-> port]
new_from_addr(text, port) == [kind |-> "Addr", host |-> text, port |-> port]
NoEndpoint == [kind |-> "none", host |-> <<>>, port |-> 0]

hostname(endpoint) == endpoint.host

\* A socket address prints an IPv6 address in brackets, a domain prints as it is.
to_string(endpoint) ==
    [host |-> IF endpoint.kind = "Addr" /\ IsIpv6Text(endpoint.host)
              THEN Bracketed(endpoint.host) ELSE endpoint.host,
     port |-> endpoint.port]

\* Mutant of from_str: split_once, so that the host ends at the first colon.
from_str_at_first_colon(string) ==
    LET host == string.host
    IN  IF IsIpv4Text(host) \/ IsBracketed(host)
        THEN new_from_addr(Unbracketed(host), string.port)
        ELSE new_from_domain(IF IsIpv6Text(host) THEN <<>> ELSE host, string.port)

\* What parses as a socket address becomes one; all else is split at the last
\* colon.  An IPv6 address without brackets is therefore a domain.
from_str(string) ==
    LET host == string.host
    IN  IF IsIpv4Text(host) \/ IsBracketed(host)
        THEN new_from_addr(Unbracketed(host), string.port)
        ELSE new_from_domain(host, string.port)

\* The endpoint a connector is called with: the script hands on the text of
\* connector.endpoint(), and new_http_async and the others parse it.
ThroughScript(endpoint) == from_str(to_string(endpoint))

\* connector.hostname_is_ip()
hostname_is_ip(endpoint) == endpoint.kind = "Addr" \/ IsIpText(endpoint.host)

\* What an endpoint is the name of, however it is written.
Target(endpoint) == [host |-> Unbracketed(endpoint.host), port |-> endpoint.port]

=============================================================================
