----------------------------- MODULE HttpConnector -----------------------------
(***************************************************************************)
(* connect() of core/src/core/connector/http.rs, and the two handshakes    *)
(* that carry the endpoint as text: CONNECT, and the header of a simplex   *)
(* request (core/src/core/simplex/client.rs).  The proxies' side of both   *)
(* is in HttpAcceptor and SimplexServer; here it is one step, what they    *)
(* make of that text.                                                      *)
(*                                                                         *)
(* An HTTP answer is two bytes, so that it may come in parts: 72, and the  *)
(* status.                                                                 *)
(***************************************************************************)
EXTENDS Stream

Status(s) == <<72, s>>
OK == 200
BadRequest == 400

-----------------------------------------------------------------------------
(* The connector. *)

\* The endpoint is printed into the request line as it is.
SendConnect ==
    /\ pc["client"] = "start"
    /\ protocol = "http"
    /\ Goes("client", "answer", 1, <<>>)
    /\ asked' = to_string(request)
    /\ UNCHANGED <<chain, accepted, atyp, buf, granted, data>>

\* httparse, on what has been read so far
Malformed(bytes) == bytes[1] # 72
IsComplete(bytes) == Len(bytes) >= 2 /\ bytes[1] = 72

\* Mutant of Success: every answer that is complete is taken for 200.
SuccessWhenComplete(bytes) == IsComplete(bytes)

\* The answer is there, and its code is 200.
Success(bytes) == IsComplete(bytes) /\ bytes[2] = OK

\* One read_buf, of as many bytes as there happen to be, and the parsing.
\* What is read beyond the answer stays in buf and is dropped with it.
ReadAnswer(n) ==
    /\ pc["client"] = "answer"
    /\ n \in 1 .. Len(wire["client"])
    /\ LET bytes == buf \o SubSeq(wire["client"], 1, n)
       IN  /\ buf' = bytes
           /\ IF Malformed(bytes) \/ (IsComplete(bytes) /\ ~Success(bytes))
              THEN Fails("client")
              ELSE /\ pc' = [pc EXCEPT !["client"] = IF Success(bytes) THEN "tunnel" ELSE "answer"]
                   /\ wire' = [wire EXCEPT !["client"] = SubSeq(@, n + 1, Len(@))]
                   /\ UNCHANGED <<need, closed>>
    /\ UNCHANGED <<chain, asked, accepted, atyp, granted, data>>

\* read_buf returns 0: the loop is left, with whatever has been read.
ReadEof ==
    /\ pc["client"] = "answer"
    /\ "server" \in closed
    /\ wire["client"] = <<>>
    /\ Goes("client", "tunnel", 0, <<>>)
    /\ UNCHANGED <<chain, asked, accepted, atyp, buf, granted, data>>

\* HeaderValue::from_str
IsHeaderValue(string) == string.host \in Seq((32 .. 126) \cup Blank)

\* simplex::client::connect; the websocket keeps what is read with the answer.
SendUpgrade ==
    /\ pc["client"] = "start"
    /\ protocol = "simplex"
    /\ IsHeaderValue(to_string(request))
    /\ Goes("client", "upgrade", 2, <<>>)
    /\ asked' = to_string(request)
    /\ UNCHANGED <<chain, accepted, atyp, buf, granted, data>>

\* The endpoint is not a header's value; or it is one, and the URI or the
\* secret header of the configuration is not valid.
NoUpgrade ==
    /\ pc["client"] = "start"
    /\ protocol = "simplex"
    /\ Fails("client")
    /\ UNCHANGED <<chain, asked, accepted, atyp, buf, granted, data>>

ReadUpgrade ==
    /\ Reads("client", "upgrade")
    /\ Ensure(Read("client") = Status(101), "client", "tunnel", 0, <<>>)
    /\ UNCHANGED <<chain, asked, accepted, atyp, buf, granted, data>>

-----------------------------------------------------------------------------
(* The proxy. *)

\* What http::Uri takes for an authority: it is not empty, it has these bytes
\* only, and no colons but in brackets and before the port.
UriByte == (33 .. 126) \ {34, 35, 37, 47, Colon, 60, 62, 63, 91, 92, 93, 94, 96, 123, 124, 125}
IsUri(string) ==
    IF IsBracketed(string.host) THEN Unbracketed(string.host) \in Seq(UriByte \cup {Colon})
    ELSE string.host # <<>> /\ string.host \in Seq(UriByte)

\* The text that arrives is the text that was sent.  A header loses the blanks
\* before its value.
TextArrives(string) ==
    IF protocol = "http" THEN IsUri(string)
    ELSE string.host # <<>> => string.host[1] \notin Blank

AcceptText ==
    /\ pc["server"] = "text"
    /\ asked # NoText
    /\ TextArrives(asked)
    /\ Goes("server", "connecting", 0, <<>>)
    /\ accepted' = from_str(asked)
    /\ UNCHANGED <<chain, asked, atyp, buf, granted, data>>

\* hyper answers CONNECT with 400, and gives up the connection.
RefuseText ==
    /\ pc["server"] = "text"
    /\ asked # NoText
    /\ protocol = "http" /\ ~IsUri(asked)
    /\ pc' = [pc EXCEPT !["server"] = "failed"]
    /\ wire' = [wire EXCEPT !["client"] = @ \o Status(BadRequest)]
    /\ closed' = closed \cup {"server"}
    /\ UNCHANGED <<chain, asked, accepted, need, atyp, buf, granted, data>>

\* With blanks or control characters in it, a part of the text is taken for
\* the endpoint.
MisreadText ==
    /\ pc["server"] = "text"
    /\ asked # NoText
    /\ ~TextArrives(asked) /\ ~IsWord(asked.host)
    /\ Goes("server", "connecting", 0, <<>>)
    /\ \E i, j \in DOMAIN asked.host :
         accepted' = from_str([asked EXCEPT !.host = SubSeq(@, i, j)])
    /\ UNCHANGED <<chain, asked, atyp, buf, granted, data>>

\* The engine has connected and awaits the acceptor's future.
AnswerText ==
    /\ pc["server"] = "connecting"
    /\ protocol # "socks5"
    /\ Goes("server", "tunnel", 0, Status(IF protocol = "http" THEN OK ELSE 101))
    /\ granted' = TRUE
    /\ UNCHANGED <<chain, asked, accepted, atyp, buf, data>>

TextAcceptor == AcceptText \/ RefuseText \/ MisreadText \/ AnswerText

TextConnector ==
    \/ SendConnect \/ SendUpgrade \/ NoUpgrade \/ ReadUpgrade \/ ReadEof
    \/ \E n \in 1 .. Len(wire["client"]) : ReadAnswer(n)

=============================================================================
