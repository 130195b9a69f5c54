---------------------------- MODULE SimplexTunnel ----------------------------
(***************************************************************************)
(* A simplex tunnel: two peers, each with a WebSocketStreamToAsyncWrite    *)
(* (core/src/core/simplex/io.rs) over one end of a websocket, and each     *)
(* running copy_bidirectional between it and a local connection            *)
(* (config/engine/mod.rs).  A websocket cannot be closed in one direction, *)
(* so a peer that is done writing sends the text message EOF and closes    *)
(* the websocket when it has the EOF of the other one too.                 *)
(*                                                                         *)
(* External, modelled from their use here: copy_bidirectional polls its    *)
(* two directions in a fixed order whenever its task is woken; the         *)
(* websocket is a Sink, where start_send only queues a message, which      *)
(* poll_flush and poll_close must, and the sink itself may, write out; the *)
(* transport is a pair of bounded FIFO channels.                           *)
(*                                                                         *)
(* A byte is its index in what the local connection sends.                 *)
(***************************************************************************)
EXTENDS Integers, Sequences, FiniteSets

CONSTANTS
    Client, Server,
    ClientBytes, ServerBytes,  \* how many bytes a local connection sends at most
    SinkCap,  \* messages the sink queues before poll_ready wants a flush
    WireCap   \* messages in flight in one direction

ASSUME BoundAssumption ==
    /\ Client # Server
    /\ {ClientBytes, ServerBytes} \subseteq Nat
    /\ SinkCap \in Nat \ {0}
    /\ WireCap \in Nat \ {0}

Peer == {Client, Server}
Other(p) == IF p = Client THEN Server ELSE Client
Bytes(p) == IF p = Client THEN ClientBytes ELSE ServerBytes
Byte == 1 .. Bytes(Client) \cup 1 .. Bytes(Server)

Binary(data) == [type |-> "binary", data |-> data]
EOF_MESSAGE == [type |-> "eof", data |-> <<>>]
CloseFrame == [type |-> "close", data |-> <<>>]
Message == [type : {"binary", "eof", "close"}, data : Seq(Byte)]

VARIABLES
    produced,      \* how many bytes the local connection has sent
    app_eof,       \* the local connection is done sending
    sent,          \* how many of them were written to the websocket
    received,      \* what was written to the local connection
    queue,         \* messages in the sink
    wire,          \* messages from a peer on their way
    read_closed, write_closed, chunk,
    closing,       \* the Close frame was queued
    up, down,      \* the two directions of copy_bidirectional
    turn,          \* the direction being polled
    woken,         \* the task is scheduled
    wakers,        \* what the task left its waker with
    outcome,       \* of copy_bidirectional; unless running the websocket is dropped
    fault          \* history: a local connection failed

appVars == <<produced, app_eof>>
ioVars == <<read_closed, write_closed, chunk>>
sinkVars == <<queue, wire, closing>>
copyVars == <<sent, received, up, down, outcome>>
taskVars == <<turn, woken, wakers>>
vars == <<appVars, ioVars, sinkVars, copyVars, taskVars, fault>>

Sources == {"local", "read", "write", "shutdown"}

TypeOK ==
    /\ produced \in [Peer -> Byte \cup {0}]
    /\ app_eof \in [Peer -> BOOLEAN]
    /\ sent \in [Peer -> Byte \cup {0}]
    /\ received \in [Peer -> Seq(Byte)]
    /\ queue \in [Peer -> Seq(Message)]
    /\ wire \in [Peer -> Seq(Message)]
    /\ \A p \in Peer : Len(wire[p]) <= WireCap
    /\ \A p \in Peer :
         Cardinality({i \in DOMAIN queue[p] : queue[p][i].type = "binary"}) <= SinkCap
    /\ read_closed \in [Peer -> BOOLEAN]
    /\ write_closed \in [Peer -> BOOLEAN]
    /\ chunk \in [Peer -> Seq(Byte)]
    /\ closing \in [Peer -> BOOLEAN]
    /\ up \in [Peer -> {"running", "shutting", "done"}]
    /\ down \in [Peer -> {"running", "done"}]
    /\ turn \in [Peer -> {"idle", "up", "down"}]
    /\ woken \in [Peer -> BOOLEAN]
    /\ wakers \in [Peer -> SUBSET Sources]
    /\ outcome \in [Peer -> {"running", "ok", "failed"}]
    /\ fault \in BOOLEAN

Init ==
    /\ produced = [p \in Peer |-> 0]
    /\ app_eof = [p \in Peer |-> FALSE]
    /\ sent = [p \in Peer |-> 0]
    /\ received = [p \in Peer |-> <<>>]
    /\ queue = [p \in Peer |-> <<>>]
    /\ wire = [p \in Peer |-> <<>>]
    /\ read_closed = [p \in Peer |-> FALSE]
    /\ write_closed = [p \in Peer |-> FALSE]
    /\ chunk = [p \in Peer |-> <<>>]
    /\ closing = [p \in Peer |-> FALSE]
    /\ up = [p \in Peer |-> "running"]
    /\ down = [p \in Peer |-> "running"]
    /\ turn = [p \in Peer |-> "idle"]
    /\ woken = [p \in Peer |-> TRUE]
    /\ wakers = [p \in Peer |-> {}]
    /\ outcome = [p \in Peer |-> "running"]
    /\ fault = FALSE

-----------------------------------------------------------------------------
(* Wakers.  A pair <<p, source>> stands for p's waker left with the source. *)

Wakers(leave, wake) ==
    /\ wakers' = [p \in Peer |-> {s \in Sources : /\ s \in wakers[p] \/ <<p, s>> \in leave
                                                  /\ <<p, s>> \notin wake}]
    /\ woken' = [p \in Peer |-> woken[p] \/ \E s \in wakers[p] : <<p, s>> \in wake]

\* The client copies between its local connection and the websocket, the
\* server between the websocket and its local connection.
Order(p) == IF p = Client THEN <<"up", "down">> ELSE <<"down", "up">>

EndTurn(p) ==
    turn' = [turn EXCEPT ![p] = IF @ = Order(p)[1] THEN Order(p)[2] ELSE "idle"]

Turn(p, direction) == outcome[p] = "running" /\ turn[p] = direction

-----------------------------------------------------------------------------
(* The local connections and the transport. *)

LocalData(p) ==
    /\ outcome[p] = "running"
    /\ ~app_eof[p]
    /\ produced[p] < Bytes(p)
    /\ produced' = [produced EXCEPT ![p] = @ + 1]
    /\ Wakers({}, {<<p, "local">>})
    /\ UNCHANGED <<app_eof, ioVars, sinkVars, copyVars, turn, fault>>

LocalEof(p) ==
    /\ outcome[p] = "running"
    /\ ~app_eof[p]
    /\ app_eof' = [app_eof EXCEPT ![p] = TRUE]
    /\ Wakers({}, {<<p, "local">>})
    /\ UNCHANGED <<produced, ioVars, sinkVars, copyVars, turn, fault>>

\* Reading or writing the local connection fails: the copy ends and drops the
\* websocket with all that is queued, and perhaps what is on its way.
LocalFails(p) ==
    /\ outcome[p] = "running"
    /\ turn[p] # "idle"
    /\ outcome' = [outcome EXCEPT ![p] = "failed"]
    /\ fault' = TRUE
    /\ queue' = [queue EXCEPT ![p] = <<>>]
    /\ \E kept \in {wire[p], <<>>} : wire' = [wire EXCEPT ![p] = kept]
    /\ Wakers({}, {<<Other(p), "read">>, <<Other(p), "write">>})
    /\ UNCHANGED <<appVars, ioVars, closing, sent, received, up, down, turn>>

\* How many messages of the list q can be written out now.  A peer that is
\* gone takes no more, but a write to it still succeeds.
Writable(p, q) ==
    IF outcome[Other(p)] # "running" \/ Len(q) <= WireCap - Len(wire[p])
    THEN Len(q) ELSE WireCap - Len(wire[p])

\* Writes n messages of the list q and leaves the others in the sink.
WriteOut(p, q, n) ==
    /\ queue' = [queue EXCEPT ![p] = SubSeq(q, n + 1, Len(q))]
    /\ wire' = IF outcome[Other(p)] # "running" THEN wire
               ELSE [wire EXCEPT ![p] = @ \o SubSeq(q, 1, n)]

\* The peer reads what was written.
Readable(p, n) == IF n > 0 THEN {<<Other(p), "read">>} ELSE {}

\* The sink may write out a queued message before it is flushed.
Spill(p) ==
    /\ outcome[p] = "running"
    /\ queue[p] # <<>>
    /\ Writable(p, queue[p]) > 0
    /\ WriteOut(p, queue[p], 1)
    /\ Wakers({}, Readable(p, 1))
    /\ UNCHANGED <<appVars, ioVars, closing, copyVars, turn, fault>>

-----------------------------------------------------------------------------
(* WebSocketStreamToAsyncWrite *)

\* Mutant of poll_write: it does not ask the sink whether it is ready.
poll_write_unready(p, data) ==
    /\ queue' = [queue EXCEPT ![p] = Append(@, Binary(data))]
    /\ UNCHANGED <<wire, closing, ioVars, woken, wakers>>

\* poll_write of a buffer: the sink is ready and queues the message.
poll_write(p, data) ==
    /\ Len(queue[p]) < SinkCap
    /\ queue' = [queue EXCEPT ![p] = Append(@, Binary(data))]
    /\ UNCHANGED <<wire, closing, ioVars, woken, wakers>>

\* Mutant of poll_flush: it returns Ready and leaves the messages in the sink.
poll_flush_nothing(p, leave) ==
    /\ Wakers(leave, {})
    /\ UNCHANGED <<sinkVars, ioVars>>

\* What poll_flush, and poll_ready of a full sink, do.  The task leaves its
\* waker with leave, too.
poll_flush(p, leave) ==
    LET n == Writable(p, queue[p])
    IN  /\ WriteOut(p, queue[p], n)
        /\ Wakers(leave \cup IF n < Len(queue[p]) THEN {<<p, "write">>} ELSE {},
                  Readable(p, n))
        /\ UNCHANGED <<closing, ioVars>>

FlushCompletes(p) == Writable(p, queue[p]) = Len(queue[p])

\* poll_shutdown before the EOF of the peer has come: send EOF, once, and wait.
poll_shutdown_waiting(p) ==
    /\ ~read_closed[p]
    /\ queue' = IF write_closed[p] THEN queue
                ELSE [queue EXCEPT ![p] = Append(@, EOF_MESSAGE)]
    /\ write_closed' = [write_closed EXCEPT ![p] = TRUE]
    /\ Wakers({<<p, "shutdown">>}, {})
    /\ UNCHANGED <<wire, closing, read_closed, chunk>>

\* What the sink holds when poll_shutdown closes it after the peer's EOF.
ClosingQueue(p) ==
    queue[p] \o (IF write_closed[p] THEN <<>> ELSE <<EOF_MESSAGE>>)
             \o (IF closing[p] THEN <<>> ELSE <<CloseFrame>>)

\* Mutant of poll_shutdown_closing: it does not wait for the EOF of the peer.
poll_shutdown_hasty(p) ==
    LET q == ClosingQueue(p)
        n == Writable(p, q)
    IN  /\ WriteOut(p, q, n)
        /\ write_closed' = [write_closed EXCEPT ![p] = TRUE]
        /\ closing' = [closing EXCEPT ![p] = TRUE]
        /\ Wakers(IF n < Len(q) THEN {<<p, "write">>} ELSE {}, Readable(p, n))
        /\ UNCHANGED <<read_closed, chunk>>

\* poll_shutdown after the EOF of the peer: send EOF, once, and poll_close.
poll_shutdown_closing(p) ==
    LET q == ClosingQueue(p)
        n == Writable(p, q)
    IN  /\ read_closed[p]
        /\ WriteOut(p, q, n)
        /\ write_closed' = [write_closed EXCEPT ![p] = TRUE]
        /\ closing' = [closing EXCEPT ![p] = TRUE]
        /\ Wakers(IF n < Len(q) THEN {<<p, "write">>} ELSE {}, Readable(p, n))
        /\ UNCHANGED <<read_closed, chunk>>

CloseCompletes(p) == Writable(p, ClosingQueue(p)) = Len(ClosingQueue(p))

\* The next message is taken off the wire; the peer may write again.
NextMessage(p, message) ==
    /\ wire[Other(p)] # <<>>
    /\ message = Head(wire[Other(p)])
    /\ wire' = [wire EXCEPT ![Other(p)] = Tail(@)]
    /\ UNCHANGED <<queue, closing>>

\* Mutant of poll_fill_buf_eof: poll_shutdown is not woken.
poll_fill_buf_eof_quiet(p) ==
    /\ chunk[p] = <<>>
    /\ NextMessage(p, EOF_MESSAGE)
    /\ read_closed' = [read_closed EXCEPT ![p] = TRUE]
    /\ Wakers({}, {<<Other(p), "write">>})
    /\ UNCHANGED <<write_closed, chunk>>

\* poll_fill_buf with EOF: wake poll_shutdown if it waits for this.
poll_fill_buf_eof(p) ==
    /\ chunk[p] = <<>>
    /\ NextMessage(p, EOF_MESSAGE)
    /\ read_closed' = [read_closed EXCEPT ![p] = TRUE]
    /\ Wakers({}, {<<Other(p), "write">>} \cup
                  IF write_closed[p] THEN {<<p, "shutdown">>} ELSE {})
    /\ UNCHANGED <<write_closed, chunk>>

\* The bytes poll_fill_buf yields: the chunk, or else the next message.
Buffered(p) ==
    IF chunk[p] # <<>> THEN chunk[p]
    ELSE IF wire[Other(p)] # <<>> THEN Head(wire[Other(p)]).data ELSE <<>>

\* Mutant of poll_read: consume drops what is left of the chunk.
poll_read_once(p, n) ==
    /\ n \in 1 .. Len(Buffered(p))
    /\ IF chunk[p] # <<>>
       THEN UNCHANGED <<sinkVars, woken, wakers>>
       ELSE NextMessage(p, Binary(Buffered(p))) /\ Wakers({}, {<<Other(p), "write">>})
    /\ chunk' = [chunk EXCEPT ![p] = <<>>]
    /\ UNCHANGED <<read_closed, write_closed>>

\* poll_read of n bytes: poll_fill_buf, then consume.
poll_read(p, n) ==
    /\ n \in 1 .. Len(Buffered(p))
    /\ IF chunk[p] # <<>>
       THEN UNCHANGED <<sinkVars, woken, wakers>>
       ELSE NextMessage(p, Binary(Buffered(p))) /\ Wakers({}, {<<Other(p), "write">>})
    /\ chunk' = [chunk EXCEPT ![p] = SubSeq(Buffered(p), n + 1, Len(Buffered(p)))]
    /\ UNCHANGED <<read_closed, write_closed>>

-----------------------------------------------------------------------------
(* copy_bidirectional: the task is polled, one direction after the other. *)

Poll(p) ==
    /\ Turn(p, "idle")
    /\ woken[p]
    /\ ~(up[p] = "done" /\ down[p] = "done")
    /\ woken' = [woken EXCEPT ![p] = FALSE]
    /\ turn' = [turn EXCEPT ![p] = Order(p)[1]]
    /\ UNCHANGED <<appVars, ioVars, sinkVars, copyVars, wakers, fault>>

\* Local bytes are there and the sink is ready.
UpWrite(p) ==
    /\ Turn(p, "up")
    /\ up[p] = "running"
    /\ \E n \in 1 .. produced[p] - sent[p] :
         /\ poll_write(p, [i \in 1 .. n |-> sent[p] + i])
         /\ sent' = [sent EXCEPT ![p] = @ + n]
    /\ UNCHANGED <<appVars, received, up, down, outcome, turn, fault>>

\* Local bytes are there and the sink is full.
UpFull(p) ==
    /\ Turn(p, "up")
    /\ up[p] = "running"
    /\ sent[p] < produced[p]
    /\ Len(queue[p]) >= SinkCap
    /\ poll_flush(p, {})
    /\ IF FlushCompletes(p) THEN UNCHANGED turn ELSE EndTurn(p)
    /\ UNCHANGED <<appVars, copyVars, fault>>

\* There is nothing to copy for now: flush what was written.
UpIdle(p) ==
    /\ Turn(p, "up")
    /\ up[p] = "running"
    /\ sent[p] = produced[p]
    /\ ~app_eof[p]
    /\ poll_flush(p, {<<p, "local">>})
    /\ EndTurn(p)
    /\ UNCHANGED <<appVars, copyVars, fault>>

\* All was copied: flush, then shut down.
UpFinish(p) ==
    /\ Turn(p, "up")
    /\ up[p] = "running"
    /\ sent[p] = produced[p]
    /\ app_eof[p]
    /\ poll_flush(p, {})
    /\ IF FlushCompletes(p)
       THEN up' = [up EXCEPT ![p] = "shutting"] /\ UNCHANGED turn
       ELSE EndTurn(p) /\ UNCHANGED up
    /\ UNCHANGED <<appVars, sent, received, down, outcome, fault>>

\* up is done only after the EOF of the peer, so after down: it is not polled again.
UpShutdown(p) ==
    /\ Turn(p, "up")
    /\ up[p] = "shutting"
    /\ \/ poll_shutdown_waiting(p) /\ UNCHANGED up
       \/ /\ poll_shutdown_closing(p)
          /\ up' = [up EXCEPT ![p] = IF CloseCompletes(p) THEN "done" ELSE @]
    /\ EndTurn(p)
    /\ UNCHANGED <<appVars, sent, received, down, outcome, fault>>

\* Writing or flushing fails because the peer dropped the websocket.
UpFails(p) ==
    /\ Turn(p, "up")
    /\ up[p] # "done"
    /\ outcome[Other(p)] = "failed"
    /\ outcome' = [outcome EXCEPT ![p] = "failed"]
    /\ UNCHANGED <<appVars, ioVars, sinkVars, sent, received, up, down, taskVars, fault>>

DownData(p) ==
    /\ Turn(p, "down")
    /\ down[p] = "running"
    /\ \E n \in 1 .. Len(Buffered(p)) :
         /\ poll_read(p, n)
         /\ received' = [received EXCEPT ![p] = @ \o SubSeq(Buffered(p), 1, n)]
    /\ UNCHANGED <<appVars, sent, up, down, outcome, turn, fault>>

\* End of file: the local connection is shut down, which completes.
DownEof(p) ==
    /\ Turn(p, "down")
    /\ down[p] = "running"
    /\ poll_fill_buf_eof(p)
    /\ down' = [down EXCEPT ![p] = "done"]
    /\ EndTurn(p)
    /\ UNCHANGED <<appVars, sent, received, up, outcome, fault>>

DownPending(p) ==
    /\ Turn(p, "down")
    /\ down[p] = "running"
    /\ chunk[p] = <<>>
    /\ wire[Other(p)] = <<>>
    /\ outcome[Other(p)] # "failed"
    /\ Wakers({<<p, "read">>}, {})
    /\ EndTurn(p)
    /\ UNCHANGED <<appVars, ioVars, sinkVars, copyVars, fault>>

DownDone(p) ==
    /\ Turn(p, "down")
    /\ down[p] = "done"
    /\ EndTurn(p)
    /\ UNCHANGED <<appVars, ioVars, sinkVars, copyVars, woken, wakers, fault>>

\* Mutant of DownFails: poll_fill_buf takes the error for end of file.
DownFailsAsEof(p) ==
    /\ Turn(p, "down")
    /\ down[p] = "running"
    /\ chunk[p] = <<>>
    /\ wire[Other(p)] = <<>>
    /\ outcome[Other(p)] = "failed"
    /\ down' = [down EXCEPT ![p] = "done"]
    /\ EndTurn(p)
    /\ UNCHANGED <<appVars, ioVars, sinkVars, sent, received, up, outcome, woken, wakers, fault>>

\* The peer dropped the websocket without closing it: poll_fill_buf fails.
DownFails(p) ==
    /\ Turn(p, "down")
    /\ down[p] = "running"
    /\ chunk[p] = <<>>
    /\ wire[Other(p)] = <<>>
    /\ outcome[Other(p)] = "failed"
    /\ outcome' = [outcome EXCEPT ![p] = "failed"]
    /\ UNCHANGED <<appVars, ioVars, sinkVars, sent, received, up, down, taskVars, fault>>

\* Both directions are done: the copy returns and the websocket is dropped.
CopyDone(p) ==
    /\ Turn(p, "idle")
    /\ up[p] = "done"
    /\ down[p] = "done"
    /\ outcome' = [outcome EXCEPT ![p] = "ok"]
    /\ Wakers({}, {<<Other(p), "write">>})
    /\ UNCHANGED <<appVars, ioVars, sinkVars, sent, received, up, down, turn, fault>>

-----------------------------------------------------------------------------
Task(p) ==
    \/ Poll(p)
    \/ UpWrite(p) \/ UpFull(p) \/ UpIdle(p) \/ UpFinish(p) \/ UpShutdown(p)
    \/ UpFails(p)
    \/ DownData(p) \/ DownEof(p) \/ DownPending(p) \/ DownDone(p) \/ DownFails(p)
    \/ CopyDone(p)

Local(p) == LocalData(p) \/ LocalEof(p) \/ LocalFails(p)

Next == \E p \in Peer : Task(p) \/ Local(p) \/ Spill(p)

Spec == Init /\ [][Next]_vars

\* The executor runs the tasks; nothing obliges the sink or a local connection.
FairSpec == Spec /\ \A p \in Peer : WF_vars(Task(p))

-----------------------------------------------------------------------------
(***************************************************************************)
(* Bytes arrive in the order they were sent, none twice and none missing,  *)
(* however they were split into messages, chunks and partial reads.        *)
(***************************************************************************)
DeliveredInOrder ==
    \A p \in Peer :
      LET taken == received[p] \o chunk[p]
      IN  Len(taken) <= sent[Other(p)] /\ \A i \in DOMAIN taken : taken[i] = i

(***************************************************************************)
(* A local connection that is told end of file has received everything the *)
(* local connection at the far end sent: a tunnel that is cut short is     *)
(* never taken for one that ended, since poll_fill_buf fails instead.      *)
(***************************************************************************)
EndOfFileIsComplete ==
    \A p \in Peer :
      down[p] = "done" =>
        app_eof[Other(p)] /\ Len(received[p]) = produced[Other(p)]

(***************************************************************************)
(* The websocket is closed only when both sides are done sending and the   *)
(* closing side has received it all: closing any earlier would stop the    *)
(* other side in the middle, the reason poll_shutdown gives for sending an *)
(* EOF message of its own.                                                 *)
(***************************************************************************)
ClosedOnlyWhenBothDone ==
    \A p \in Peer :
      closing[p] =>
        /\ app_eof[p] /\ sent[p] = produced[p]
        /\ app_eof[Other(p)] /\ Len(received[p]) = produced[Other(p)]

(***************************************************************************)
(* Whatever a local connection sends arrives, though it goes on neither to *)
(* send more nor to close: the copy flushes when it has nothing to do.     *)
(***************************************************************************)
DataArrives ==
    \A p \in Peer : \A n \in 1 .. Bytes(p) :
      produced[p] >= n ~> (Len(received[Other(p)]) >= n \/ fault)

(***************************************************************************)
(* Once EOF was sent and received the copy ends, in whichever order that   *)
(* happened and in whichever direction the task was polling: the waker     *)
(* that poll_shutdown registers is not missed.                             *)
(***************************************************************************)
ShutdownCompletes ==
    \A p \in Peer : (read_closed[p] /\ write_closed[p]) ~> outcome[p] # "running"

(***************************************************************************)
(* A peer that has marked its write side as closed has sent EOF, so the    *)
(* other peer learns of it: its read side is closed in the end, as the     *)
(* comments in poll_shutdown have it ("We send it successfully, mark the   *)
(* write as closed").                                                      *)
(***************************************************************************)
EofArrives ==
    \A p \in Peer : write_closed[p] ~> (read_closed[Other(p)] \/ fault)

=============================================================================
