-------------------------------- MODULE Engine --------------------------------
(***************************************************************************)
(* Engine of core/src/config/engine/mod.rs and main() of bin/dandelion.rs: *)
(* the configuration is loaded, one loop per acceptor binds and accepts,   *)
(* each connection is a task of its own (spawn_local), and select_all ends *)
(* everything with the first loop that ends.  An acceptor's handshake is   *)
(* what Acceptor says; HttpAcceptor and Socks5 have its details.           *)
(***************************************************************************)
EXTENDS Integers, Sequences, FiniteSets

CONSTANTS
    Conn,          \* connections of clients
    Address,       \* socket addresses that a configuration may name
    TakenAddress,  \* those another program listens on
    Handler,       \* names of handlers
    ScriptHandler, \* those that the script defines
    MaxAcceptors,
    MaxFds         \* the limit of open files

ASSUME EngineAssumption ==
    /\ TakenAddress \subseteq Address
    /\ ScriptHandler \subseteq Handler
    /\ MaxAcceptors \in Nat
    /\ MaxFds \in Nat

VARIABLES
    local_set,  \* whether run() is awaited where spawn_local can spawn
    nested,     \* whether the value in the cache is inside of another one
    phase,      \* of the program
    acceptors,  \* Config::acceptors
    listening,  \* the acceptors whose listener is bound
    queue,      \* the connections that wait to be accepted, by acceptor
    aborted,    \* those of them whose client has gone away
    via,        \* the acceptor of a connection
    conn,       \* how far the task of a connection is
    cache,      \* a value in the engine's cache
    slot        \* the same in the clone that a handler is given

setting == <<local_set, nested>>
vars == <<setting, phase, acceptors, listening, queue, aborted, via, conn, cache, slot>>

Acceptors == DOMAIN acceptors
Open == {"handshaking", "handler", "answering", "copying"}

\* The files in use: listeners, accepted connections, connections to targets.
Fds ==
    Cardinality(listening) + Cardinality({c \in Conn : conn[c] \in Open})
      + Cardinality({c \in Conn : conn[c] \in {"answering", "copying"}})

TypeOK ==
    /\ {local_set, nested} \subseteq BOOLEAN
    /\ phase \in {"loading", "running", "stopped", "panicked"}
    /\ acceptors \in Seq([addr : Address, handler : Handler])
    /\ listening \subseteq Acceptors
    /\ queue \in [1 .. MaxAcceptors -> Seq(Conn)]
    /\ aborted \subseteq Conn
    /\ via \in [Conn -> 0 .. MaxAcceptors]
    /\ conn \in [Conn -> Open \cup {"new", "queued", "ended"}]
    /\ cache \in {"loaded", "stored"}
    /\ slot \in [Conn -> {"none", "loaded", "stored"}]

\* main() awaits run() in no LocalSet, and then spawn_local is documented to
\* panic; run() is public, and another program may do so.
Init ==
    /\ local_set \in BOOLEAN
    /\ nested \in BOOLEAN
    /\ phase = "loading"
    /\ acceptors = <<>>
    /\ listening = {}
    /\ queue = [i \in 1 .. MaxAcceptors |-> <<>>]
    /\ aborted = {}
    /\ via = [c \in Conn |-> 0]
    /\ conn = [c \in Conn |-> "new"]
    /\ cache = "loaded"
    /\ slot = [c \in Conn |-> "none"]

tasks == <<queue, aborted, via, conn, slot>>

-----------------------------------------------------------------------------
(* load_config *)

\* add_socks5_acceptor, add_http_acceptor
AddAcceptor(addr, handler) ==
    /\ phase = "loading"
    /\ Len(acceptors) < MaxAcceptors
    /\ acceptors' = Append(acceptors, [addr |-> addr, handler |-> handler])
    /\ UNCHANGED <<setting, phase, listening, cache, tasks>>

\* The script does not compile or fails, by the error of an address that does
\* not parse for one, or its cache cannot be cloned.
LoadFails ==
    /\ phase = "loading"
    /\ phase' = "stopped"
    /\ UNCHANGED <<setting, acceptors, listening, cache, tasks>>

\* The configuration is loaded and run() begins; select_all panics if there is
\* no acceptor.
Loaded ==
    /\ phase = "loading"
    /\ phase' = IF acceptors = <<>> THEN "panicked" ELSE "running"
    /\ UNCHANGED <<setting, acceptors, listening, cache, tasks>>

-----------------------------------------------------------------------------
(* The loops of handle_acceptors, and select_all over them. *)

\* main() ends, and with the runtime all tasks are dropped.
Halt(how) ==
    /\ phase' = how
    /\ listening' = {}
    /\ queue' = [i \in 1 .. MaxAcceptors |-> <<>>]
    /\ conn' = [c \in Conn |-> IF conn[c] = "new" THEN "new" ELSE "ended"]
    /\ aborted' = {}
    /\ UNCHANGED <<setting, acceptors, via, cache, slot>>

\* A loop ends with an error, and run() returns it.
Stop == Halt("stopped")

\* Mutant of Bindable: a listener shares its address with another.
BindableTwice(i) == acceptors[i].addr \notin TakenAddress

Bindable(i) ==
    /\ acceptors[i].addr \notin TakenAddress
    /\ \A j \in listening : acceptors[j].addr # acceptors[i].addr

Bind(i) ==
    /\ phase = "running"
    /\ i \notin listening
    /\ Fds < MaxFds
    /\ Bindable(i)
    /\ listening' = listening \cup {i}
    /\ UNCHANGED <<setting, phase, acceptors, cache, tasks>>

BindFails(i) ==
    /\ phase = "running"
    /\ i \notin listening
    /\ ~Bindable(i) \/ Fds = MaxFds
    /\ Stop

\* Mutant of Accept: the connection is served in the loop, not in a task.
AcceptInline(i) ==
    /\ phase = "running"
    /\ i \in listening
    /\ queue[i] # <<>>
    /\ \A c \in Conn : via[c] = i => conn[c] \notin Open
    /\ Fds < MaxFds
    /\ queue' = [queue EXCEPT ![i] = Tail(@)]
    /\ conn' = [conn EXCEPT ![Head(queue[i])] = "handshaking"]
    /\ aborted' = aborted \ {Head(queue[i])}
    /\ UNCHANGED <<setting, phase, acceptors, listening, via, cache, slot>>

\* The task of the next connection.
Spawn(i) ==
    /\ queue' = [queue EXCEPT ![i] = Tail(@)]
    /\ conn' = [conn EXCEPT ![Head(queue[i])] = "handshaking"]
    /\ aborted' = aborted \ {Head(queue[i])}
    /\ UNCHANGED <<setting, phase, acceptors, listening, via, cache, slot>>

\* accept() returns a connection, for which spawn_local spawns a task.
Accept(i) ==
    /\ phase = "running"
    /\ i \in listening
    /\ queue[i] # <<>>
    /\ Fds < MaxFds
    /\ IF local_set THEN Spawn(i) ELSE Halt("panicked")

\* accept() returns an error: too many open files or, on some platforms, the
\* client has gone away.
AcceptFails(i) ==
    /\ phase = "running"
    /\ i \in listening
    /\ queue[i] # <<>>
    /\ Fds = MaxFds \/ Head(queue[i]) \in aborted
    /\ Stop

-----------------------------------------------------------------------------
(* The task of a connection. *)

Becomes(c, from, to) ==
    /\ phase = "running"
    /\ conn[c] = from
    /\ conn' = [conn EXCEPT ![c] = to]
    /\ UNCHANGED <<setting, phase, acceptors, listening, queue, aborted, via, cache>>

\* The handshake returns the endpoint; the handler is called with a request
\* for it and with a clone of the cache, if there is a handler of the name.
HandlerCalled(c) ==
    /\ Becomes(c, "handshaking", "handler")
    /\ acceptors[via[c]].handler \in ScriptHandler
    /\ slot' = [slot EXCEPT ![c] = cache]

HandlerMissing(c) ==
    /\ Becomes(c, "handshaking", "ended")
    /\ acceptors[via[c]].handler \notin ScriptHandler
    /\ UNCHANGED slot

\* The handler stores the value.  The clone is shallow: a key of its own is
\* assigned to, but what is inside of its values is in all clones.
HandlerStores(c) ==
    /\ phase = "running"
    /\ conn[c] = "handler"
    /\ IF nested
       THEN /\ cache' = "stored"
            /\ slot' = [d \in Conn |-> IF slot[d] = "none" THEN "none" ELSE "stored"]
       ELSE /\ slot' = [slot EXCEPT ![c] = "stored"]
            /\ UNCHANGED cache
    /\ UNCHANGED <<setting, phase, acceptors, listening, queue, aborted, via, conn>>

\* Mutant of Connected: the client is answered before its target is connected.
ConnectedUnseen(c) ==
    /\ Becomes(c, "handshaking", "answering")
    /\ UNCHANGED slot

\* The handler returns a connection, if there is a file left for it.
Connected(c) ==
    /\ Fds < MaxFds
    /\ Becomes(c, "handler", "answering")
    /\ UNCHANGED slot

\* fut.await
Answered(c) == Becomes(c, "answering", "copying") /\ UNCHANGED slot

\* Mutant of TaskEnds: the error is returned by the loop.
TaskEndsAll(c) ==
    /\ phase = "running"
    /\ conn[c] \in Open
    /\ Stop

\* The handshake, the handler, the answer or the copy fails, or the copy is
\* done: an error is logged, and what the task owns is dropped.
TaskEnds(c) ==
    /\ conn[c] \in Open
    /\ Becomes(c, conn[c], "ended")
    /\ UNCHANGED slot

-----------------------------------------------------------------------------
(* The clients. *)

ClientConnects(c, i) ==
    /\ phase = "running"
    /\ i \in listening
    /\ conn[c] = "new"
    /\ conn' = [conn EXCEPT ![c] = "queued"]
    /\ queue' = [queue EXCEPT ![i] = Append(@, c)]
    /\ via' = [via EXCEPT ![c] = i]
    /\ UNCHANGED <<setting, phase, acceptors, listening, aborted, cache, slot>>

ClientAborts(c) ==
    /\ conn[c] = "queued"
    /\ aborted' = aborted \cup {c}
    /\ UNCHANGED <<setting, phase, acceptors, listening, queue, via, conn, cache, slot>>

Loops == \E i \in Acceptors : Bind(i) \/ BindFails(i) \/ Accept(i) \/ AcceptFails(i)

Next ==
    \/ \E addr \in Address, handler \in Handler : AddAcceptor(addr, handler)
    \/ LoadFails \/ Loaded
    \/ Loops
    \/ \E c \in Conn :
         \/ HandlerCalled(c) \/ HandlerMissing(c) \/ HandlerStores(c)
         \/ Connected(c) \/ Answered(c) \/ TaskEnds(c)
         \/ ClientAborts(c)
         \/ \E i \in Acceptors : ClientConnects(c, i)

(***************************************************************************)
(* Fairness: every loop is polled when it can go on, as one thread runs    *)
(* all tasks and none of them blocks it.  Handshakes, handlers and copies  *)
(* may take forever.                                                       *)
(***************************************************************************)
Fairness ==
    \A i \in 1 .. MaxAcceptors :
      WF_vars(i \in Acceptors /\ (Bind(i) \/ BindFails(i) \/ Accept(i) \/ AcceptFails(i)))

Spec == Init /\ [][Next]_vars /\ Fairness

-----------------------------------------------------------------------------
\* The connection c as its acceptor sees it.
Connection(c) ==
    INSTANCE Acceptor
    WITH NoEndpoint <- "none",
         endpoint <- IF slot[c] = "none" THEN "none" ELSE "some",
         phase <- CASE conn[c] \in {"new", "queued", "handshaking"} -> "handshaking"
                    [] conn[c] = "handler" -> "connecting"
                    [] conn[c] = "answering" -> "connected"
                    [] conn[c] = "copying" -> "answered"
                    [] OTHER -> "ended"

(***************************************************************************)
(* Whatever the others do, each connection goes the way of Acceptor: its   *)
(* handler is called once, with one endpoint, and the client is answered   *)
(* only after the handler has returned a connection.                       *)
(***************************************************************************)
ImplementsAcceptor ==
    /\ \A c \in Conn : Connection(c)!Init
    /\ [][\A c \in Conn : [Connection(c)!Next]_(Connection(c)!vars)]_vars

(***************************************************************************)
(* No handshake, handler or copy can stop the engine: it ends only for a   *)
(* listener that cannot be bound, when the limit of open files is reached, *)
(* when a client went away in the queue, or by the panic of spawn_local at *)
(* the first connection, if run() is awaited in no LocalSet.               *)
(***************************************************************************)
StopsOnlyForCause ==
    [][phase = "running" /\ phase' # "running" =>
         \/ \E i \in Acceptors \ listening : ~Bindable(i)
         \/ Fds = MaxFds
         \/ \E i \in listening : queue[i] # <<>> /\ Head(queue[i]) \in aborted
         \/ ~local_set /\ \A c \in Conn : conn[c] \in {"new", "queued"}]_vars

(***************************************************************************)
(* What README.md says of the cache: "Pass a cache object to all handler   *)
(* invocations for cross-connection state".  A handler that is called      *)
(* finds what a handler of another connection has stored.                  *)
(***************************************************************************)
StoredIsShared ==
    [][\A c \in Conn :
         /\ conn[c] # "handler" /\ conn'[c] = "handler"
         /\ \E d \in Conn : slot[d] = "stored"
         => slot'[c] = "stored"]_vars

(***************************************************************************)
(* A client that waits is accepted, though the handshakes, handlers and    *)
(* copies of all others hang, or else the engine ends.                     *)
(***************************************************************************)
QueuedIsAccepted == \A c \in Conn : conn[c] = "queued" ~> conn[c] # "queued"

(***************************************************************************)
(* The engine serves all of its acceptors, each on an address of its own,  *)
(* or it ends: it does not go on with some of them.                        *)
(***************************************************************************)
AllAcceptorsOrNone ==
    phase = "running" ~>
      \/ phase # "running"
      \/ /\ listening = Acceptors
         /\ \A i, j \in Acceptors : acceptors[i].addr = acceptors[j].addr => i = j

=============================================================================
