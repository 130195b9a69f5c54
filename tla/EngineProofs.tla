----------------------------- MODULE EngineProofs -----------------------------
(***************************************************************************)
(* The engine, for every number of acceptors, clients and open files:      *)
(* each connection implements Acceptor, and the engine ends only for the   *)
(* causes that StopsOnlyForCause names.                                    *)
(*                                                                         *)
(* Its GeoIP cache, a component of its own, for any number of calls,       *)
(* versions, faults and steps of the clock: a file that cannot be opened   *)
(* is the work of a bad write.                                             *)
(*                                                                         *)
(* Its two acceptors that are built on hyper, for clients that send any    *)
(* number of requests and bytes.  The HTTP acceptor, for any hosts and     *)
(* ports: the unreachable!() of handler is, nothing is lost on the way to  *)
(* it or to the tunnel, every request is forwarded to its own host, and    *)
(* the handshake implements Acceptor.  The simplex acceptor: nothing is    *)
(* lost between hyper and the websocket, the client is told to switch only *)
(* when the target is connected, expect() fails only after a keyless       *)
(* upgrade, and the handshake implements Acceptor.                         *)
(***************************************************************************)
EXTENDS Engine, GeoIpCache, HttpAcceptor, SimplexServer, SequenceTheorems, TLAPS

\* A client is in one queue at most, once, and only while it is "queued".
Queued ==
    \A i \in 1 .. MaxAcceptors :
      /\ \A k \in DOMAIN queue[i] : conn[queue[i][k]] = "queued" /\ via[queue[i][k]] = i
      /\ \A j, k \in DOMAIN queue[i] : queue[i][j] = queue[i][k] => j = k

\* A handler has a clone of the cache exactly from its call on.
Called ==
    \A c \in Conn :
      /\ conn[c] \in {"new", "queued", "handshaking"} => slot[c] = "none"
      /\ conn[c] \in {"handler", "answering", "copying"} => slot[c] # "none"

\* Where spawn_local cannot spawn, no connection has a task.
Spawnless ==
    ~local_set /\ phase \in {"loading", "running"} =>
      \A c \in Conn : conn[c] \in {"new", "queued"}

\* The inductive invariant.
Inv ==
    /\ TypeOK
    /\ Len(acceptors) <= MaxAcceptors
    /\ Queued
    /\ Called
    /\ Spawnless

-----------------------------------------------------------------------------
(***************************************************************************)
(* The configuration and the clients before any of them has connected.     *)
(***************************************************************************)
LEMMA InitInv == Init => Inv
BY EngineAssumption DEF Init, Inv, TypeOK, Queued, Called, Spawnless, Open, Acceptors

\* A queue is a sequence of clients.
LEMMA QueueType ==
    ASSUME Inv, NEW i \in 1 .. MaxAcceptors
    PROVE  queue[i] \in Seq(Conn) /\ \A k \in DOMAIN queue[i] : queue[i][k] \in Conn
<1>1. queue[i] \in Seq(Conn)
  BY DEF Inv, TypeOK
<1> QED BY <1>1

(***************************************************************************)
(* Steps of one task of a connection, which leave the queues alone: the    *)
(* client was not in a queue and does not come back to one.                *)
(***************************************************************************)
LEMMA TaskInv ==
    ASSUME Inv, NEW c \in Conn,
           conn[c] \in Open, NEW to \in Open \cup {"ended"},
           Becomes(c, conn[c], to),
           slot' \in [Conn -> {"none", "loaded", "stored"}],
           \A d \in Conn : d # c => slot'[d] = slot[d],
           to = "handshaking" => slot'[c] = "none",
           to \in {"handler", "answering", "copying"} => slot'[c] # "none"
    PROVE  Inv'
<1>1. TypeOK' /\ Len(acceptors') <= MaxAcceptors
  BY Zenon DEF Inv, TypeOK, Becomes, Acceptors, Open, setting
<1>2. \A d \in Conn : conn[d] = "queued" => conn'[d] = "queued"
  BY DEF Inv, TypeOK, Becomes, Open
<1>3. Queued'
  <2> SUFFICES ASSUME NEW i \in 1 .. MaxAcceptors
               PROVE  /\ \A k \in DOMAIN queue[i] :
                           conn'[queue[i][k]] = "queued" /\ via[queue[i][k]] = i
                      /\ \A j, k \in DOMAIN queue[i] : queue[i][j] = queue[i][k] => j = k
    BY DEF Queued, Becomes
  <2>1. \A k \in DOMAIN queue[i] : queue[i][k] \in Conn
    BY QueueType
  <2> QED BY <1>2, <2>1 DEF Inv, Queued
<1>4. Called'
  BY DEF Inv, TypeOK, Called, Becomes, Open
<1>5. phase = "running" /\ local_set' = local_set
  BY DEF Becomes, setting
<1>6. local_set
  BY <1>5 DEF Inv, Spawnless, Open
<1>7. Spawnless'
  BY <1>5, <1>6 DEF Spawnless
<1> QED BY <1>1, <1>3, <1>4, <1>7 DEF Inv

(***************************************************************************)
(* When the engine ends, its queues are empty and its tasks have ended.    *)
(***************************************************************************)
LEMMA HaltInv == ASSUME Inv, NEW how \in {"stopped", "panicked"}, Halt(how) PROVE Inv'
<1>1. \A i \in 1 .. MaxAcceptors : queue'[i] = <<>>
  BY DEF Halt
<1>2. TypeOK'
  BY <1>1 DEF Inv, TypeOK, Halt, Acceptors, Open, setting
<1>3. Queued'
  BY <1>1 DEF Queued
<1>4. Called'
  BY DEF Inv, TypeOK, Called, Halt, Open
<1>5. Spawnless'
  BY DEF Halt, Spawnless
<1> QED BY <1>2, <1>3, <1>4, <1>5 DEF Inv, Halt

(***************************************************************************)
(* accept() takes the first client of a queue, which is in it only once.   *)
(***************************************************************************)
LEMMA SpawnInv ==
    ASSUME Inv, NEW i \in Acceptors, local_set, queue[i] # <<>>, Spawn(i)
    PROVE  Inv'
<1> DEFINE c == Head(queue[i])
<1>1. i \in 1 .. MaxAcceptors
  BY EngineAssumption DEF Inv, TypeOK, Acceptors
<1>2. queue[i] \in Seq(Conn) /\ queue[i] # <<>>
  BY <1>1, QueueType
<1>3. /\ c \in Conn /\ c = queue[i][1] /\ 1 \in DOMAIN queue[i]
      /\ Tail(queue[i]) \in Seq(Conn)
      /\ \A k \in DOMAIN Tail(queue[i]) :
           k + 1 \in DOMAIN queue[i] /\ Tail(queue[i])[k] = queue[i][k + 1] /\ k + 1 # 1
  BY <1>2
<1>4. conn[c] = "queued" /\ via[c] = i
  BY <1>1, <1>3 DEF Inv, Queued
<1>5. TypeOK'
  BY <1>1, <1>3 DEF Inv, TypeOK, Spawn, Acceptors, Open, setting
<1>6. conn' = [conn EXCEPT ![c] = "handshaking"] /\ via' = via
  BY DEF Spawn
<1>7. Queued'
  <2> SUFFICES ASSUME NEW h \in 1 .. MaxAcceptors
               PROVE  /\ \A k \in DOMAIN queue'[h] :
                           conn'[queue'[h][k]] = "queued" /\ via'[queue'[h][k]] = h
                      /\ \A j, k \in DOMAIN queue'[h] : queue'[h][j] = queue'[h][k] => j = k
    BY DEF Queued
  <2>1. CASE h = i
    <3>1. queue'[h] = Tail(queue[i])
      BY <1>1, <2>1 DEF Spawn, Inv, TypeOK
    <3>2. \A k \in DOMAIN Tail(queue[i]) :
            /\ Tail(queue[i])[k] \in Conn /\ Tail(queue[i])[k] # c
            /\ conn[Tail(queue[i])[k]] = "queued" /\ via[Tail(queue[i])[k]] = i
      BY <1>1, <1>2, <1>3, QueueType DEF Inv, Queued
    <3>3. \A j, k \in DOMAIN Tail(queue[i]) : Tail(queue[i])[j] = Tail(queue[i])[k] => j = k
      <4> SUFFICES ASSUME NEW j \in DOMAIN Tail(queue[i]), NEW k \in DOMAIN Tail(queue[i]),
                          Tail(queue[i])[j] = Tail(queue[i])[k]
                   PROVE  j = k
        OBVIOUS
      <4>1. queue[i][j + 1] = queue[i][k + 1]
        BY <1>3
      <4>2. j + 1 = k + 1
        BY <1>1, <1>3, <4>1 DEF Inv, Queued
      <4> QED BY <4>2, <1>3
    <3> QED BY <2>1, <3>1, <3>2, <3>3, <1>6 DEF Inv, TypeOK
  <2>2. CASE h # i
    <3>1. queue'[h] = queue[h]
      BY <2>2 DEF Spawn, Inv, TypeOK
    <3>2. \A k \in DOMAIN queue[h] :
            /\ queue[h][k] \in Conn /\ queue[h][k] # c
            /\ conn[queue[h][k]] = "queued" /\ via[queue[h][k]] = h
      BY <1>4, <2>2, QueueType DEF Inv, Queued
    <3> QED BY <3>1, <3>2, <1>6 DEF Inv, TypeOK, Queued
  <2> QED BY <2>1, <2>2
<1>8. Called'
  BY <1>3, <1>4, <1>6 DEF Inv, TypeOK, Called, Spawn, Open
<1>9. Spawnless'
  BY DEF Spawn, Spawnless, setting
<1> QED BY <1>5, <1>7, <1>8, <1>9 DEF Inv, Spawn

(***************************************************************************)
(* A task for it is spawned, or else spawn_local panics.                   *)
(***************************************************************************)
LEMMA AcceptInv == ASSUME Inv, NEW i \in Acceptors, Accept(i) PROVE Inv'
<1>1. CASE local_set
  BY <1>1, SpawnInv DEF Accept
<1>2. CASE ~local_set
  BY <1>2, HaltInv DEF Accept
<1> QED BY <1>1, <1>2

(***************************************************************************)
(* A client joins a queue; as it was "new", it was in none.                *)
(***************************************************************************)
LEMMA ConnectsInv ==
    ASSUME Inv, NEW c \in Conn, NEW i \in Acceptors, ClientConnects(c, i)
    PROVE  Inv'
<1>1. i \in 1 .. MaxAcceptors
  BY EngineAssumption DEF Inv, TypeOK, Acceptors
<1>2. queue[i] \in Seq(Conn)
  BY <1>1, QueueType
<1>3. conn[c] = "new" /\ conn' = [conn EXCEPT ![c] = "queued"] /\ via' = [via EXCEPT ![c] = i]
  BY DEF ClientConnects
<1>4. TypeOK'
  BY <1>1, <1>2 DEF Inv, TypeOK, ClientConnects, Acceptors, Open, setting
<1>5. \A h \in 1 .. MaxAcceptors : \A k \in DOMAIN queue[h] :
        /\ queue[h][k] \in Conn /\ queue[h][k] # c
        /\ conn'[queue[h][k]] = "queued" /\ via'[queue[h][k]] = h
  BY <1>3, QueueType DEF Inv, TypeOK, Queued
<1>6. Queued'
  <2> SUFFICES ASSUME NEW h \in 1 .. MaxAcceptors
               PROVE  /\ \A k \in DOMAIN queue'[h] :
                           conn'[queue'[h][k]] = "queued" /\ via'[queue'[h][k]] = h
                      /\ \A j, k \in DOMAIN queue'[h] : queue'[h][j] = queue'[h][k] => j = k
    BY DEF Queued
  <2>1. CASE h = i
    <3> DEFINE q == Append(queue[i], c)
    <3>1. queue'[h] = q
      BY <1>1, <2>1 DEF ClientConnects, Inv, TypeOK
    <3>2. \A k \in DOMAIN q :
            \/ k \in DOMAIN queue[i] /\ q[k] = queue[i][k]
            \/ k = Len(queue[i]) + 1 /\ q[k] = c
      BY <1>2
    <3>3. conn'[c] = "queued" /\ via'[c] = i
      BY <1>1, <1>3 DEF Inv, TypeOK
    <3>4. \A k \in DOMAIN q : conn'[q[k]] = "queued" /\ via'[q[k]] = i
      BY <1>1, <1>5, <3>2, <3>3
    <3>5. \A j, k \in DOMAIN q : q[j] = q[k] => j = k
      BY <1>1, <1>5, <3>2 DEF Inv, Queued
    <3> QED BY <2>1, <3>1, <3>4, <3>5
  <2>2. CASE h # i
    <3>1. queue'[h] = queue[h]
      BY <2>2 DEF ClientConnects, Inv, TypeOK
    <3> QED BY <1>5, <3>1 DEF Inv, Queued
  <2> QED BY <2>1, <2>2
<1>7. Called'
  BY <1>3 DEF Inv, TypeOK, Called, ClientConnects, Open
<1>8. Spawnless'
  BY <1>3 DEF Inv, TypeOK, Spawnless, ClientConnects, setting
<1> QED BY <1>4, <1>6, <1>7, <1>8 DEF Inv, ClientConnects

(***************************************************************************)
(* Every step keeps the invariant.                                         *)
(***************************************************************************)
LEMMA NextInv == Inv /\ [Next]_vars => Inv'
<1> SUFFICES ASSUME Inv, [Next]_vars PROVE Inv'
  OBVIOUS
<1>1. ASSUME NEW addr \in Address, NEW h \in Handler, AddAcceptor(addr, h)
      PROVE  Inv'
  <2>1. acceptors \in Seq([addr : Address, handler : Handler])
    BY DEF Inv, TypeOK
  <2>2. /\ acceptors' \in Seq([addr : Address, handler : Handler])
        /\ Len(acceptors') = Len(acceptors) + 1
        /\ Acceptors \subseteq Acceptors'
    BY <1>1, <2>1 DEF AddAcceptor, Acceptors
  <2>3. TypeOK' /\ Len(acceptors') <= MaxAcceptors
    BY <1>1, <2>1, <2>2, EngineAssumption DEF AddAcceptor, Inv, TypeOK, tasks, Open, setting
  <2> QED BY <1>1, <2>3 DEF AddAcceptor, Inv, Queued, Called, Spawnless, tasks, setting
<1>2. ASSUME LoadFails \/ Loaded PROVE Inv'
  <2>1. UNCHANGED <<local_set, nested, acceptors, listening, cache, queue, aborted, via, conn, slot>>
    BY <1>2 DEF LoadFails, Loaded, tasks, setting
  <2>2. phase = "loading" /\ phase' \in {"loading", "running", "stopped", "panicked"}
    BY <1>2 DEF LoadFails, Loaded
  <2> QED BY <2>1, <2>2 DEF Inv, TypeOK, Queued, Called, Spawnless, Acceptors
<1>3. ASSUME NEW i \in Acceptors, Bind(i) PROVE Inv'
  BY <1>3 DEF Bind, Inv, TypeOK, Queued, Called, Spawnless, Acceptors, Open, tasks, setting
<1>4. ASSUME NEW i \in Acceptors, BindFails(i) \/ AcceptFails(i) PROVE Inv'
  BY <1>4, HaltInv DEF BindFails, AcceptFails, Stop
<1>5. ASSUME NEW c \in Conn, HandlerCalled(c) PROVE Inv'
  <2>1. conn[c] = "handshaking" /\ Becomes(c, conn[c], "handler")
    BY <1>5 DEF HandlerCalled, Becomes
  <2>2. slot' = [slot EXCEPT ![c] = cache] /\ cache \in {"loaded", "stored"}
    BY <1>5 DEF HandlerCalled, Inv, TypeOK
  <2> QED BY <2>1, <2>2, TaskInv, Zenon DEF Inv, TypeOK, Open
<1>6. ASSUME NEW c \in Conn, HandlerMissing(c) \/ TaskEnds(c) PROVE Inv'
  <2>1. conn[c] \in Open /\ Becomes(c, conn[c], "ended") /\ slot' = slot
    BY <1>6 DEF HandlerMissing, TaskEnds, Becomes, Open
  <2> QED BY <2>1, TaskInv, Zenon DEF Inv, TypeOK, Open
<1>7. ASSUME NEW c \in Conn, HandlerStores(c) PROVE Inv'
  <2>1. /\ UNCHANGED <<local_set, nested, phase, acceptors, listening, queue, aborted, via, conn>>
        /\ cache' \in {"loaded", "stored"} /\ conn[c] = "handler"
    BY <1>7 DEF HandlerStores, Inv, TypeOK, setting
  <2>2. /\ slot' \in [Conn -> {"none", "loaded", "stored"}]
        /\ \A d \in Conn : slot'[d] = "none" <=> slot[d] = "none"
    <3>1. CASE nested
      BY <1>7, <3>1 DEF HandlerStores, Inv, TypeOK
    <3>2. CASE ~nested
      <4>1. slot' = [slot EXCEPT ![c] = "stored"] /\ slot \in [Conn -> {"none", "loaded", "stored"}]
        BY <1>7, <3>2 DEF HandlerStores, Inv, TypeOK
      <4>2. slot[c] # "none"
        BY <2>1 DEF Inv, Called
      <4> QED BY <4>1, <4>2
    <3> QED BY <3>1, <3>2
  <2>3. TypeOK' /\ Len(acceptors') <= MaxAcceptors
    BY <2>1, <2>2 DEF Inv, TypeOK, Acceptors
  <2>4. Called'
    BY <2>1, <2>2 DEF Inv, Called
  <2> QED BY <2>1, <2>3, <2>4 DEF Inv, Queued, Spawnless
<1>8. ASSUME NEW c \in Conn, Connected(c) PROVE Inv'
  <2>1. conn[c] = "handler" /\ Becomes(c, conn[c], "answering") /\ slot' = slot
    BY <1>8 DEF Connected, Becomes
  <2> QED BY <2>1, TaskInv, Zenon DEF Inv, TypeOK, Called, Open
<1>9. ASSUME NEW c \in Conn, Answered(c) PROVE Inv'
  <2>1. conn[c] = "answering" /\ Becomes(c, conn[c], "copying") /\ slot' = slot
    BY <1>9 DEF Answered, Becomes
  <2> QED BY <2>1, TaskInv, Zenon DEF Inv, TypeOK, Called, Open
<1>10. ASSUME NEW c \in Conn, ClientAborts(c) PROVE Inv'
  BY <1>10 DEF ClientAborts, Inv, TypeOK, Queued, Called, Spawnless, Acceptors, Open, setting
<1>11. ASSUME UNCHANGED vars PROVE Inv'
  BY <1>11 DEF vars, Inv, TypeOK, Queued, Called, Spawnless, Acceptors, Open, setting
<1> QED BY <1>1, <1>2, <1>3, <1>4, <1>5, <1>6, <1>7, <1>8, <1>9, <1>10, <1>11,
           AcceptInv, ConnectsInv DEF Next, Loops

(***************************************************************************)
(* No client is in two queues, a connection has its clone of the cache     *)
(* from its handler's call on, and no task where none can be spawned.      *)
(***************************************************************************)
THEOREM InvAlways == Spec => []Inv
<1> QED BY InitInv, NextInv, PTL DEF Spec

-----------------------------------------------------------------------------
(***************************************************************************)
(* StopsOnlyForCause: handshakes, handlers and copies, whose steps are all *)
(* of the form Becomes, leave the phase alone; and a panic of spawn_local  *)
(* finds no task to end.                                                   *)
(***************************************************************************)
THEOREM StopsForCause == Spec => StopsOnlyForCause
<1> DEFINE A == phase = "running" /\ phase' # "running" =>
                  \/ \E i \in Acceptors \ listening : ~Bindable(i)
                  \/ Fds = MaxFds
                  \/ \E i \in listening : queue[i] # <<>> /\ Head(queue[i]) \in aborted
                  \/ ~local_set /\ \A c \in Conn : conn[c] \in {"new", "queued"}
<1>1. Inv /\ [Next]_vars => [A]_vars
  <2> SUFFICES ASSUME Inv, Next, phase = "running", phase' # "running" PROVE A
    OBVIOUS
  <2>1. PICK i \in Acceptors : BindFails(i) \/ AcceptFails(i) \/ Accept(i)
    BY DEF Next, Loops, AddAcceptor, LoadFails, Loaded, Bind, HandlerCalled,
           HandlerMissing, HandlerStores, Connected, Answered, TaskEnds, ClientAborts,
           ClientConnects, Becomes
  <2>2. CASE Accept(i)
    <3>1. ~local_set
      BY <2>2 DEF Accept, Spawn
    <3> QED BY <3>1 DEF Inv, Spawnless
  <2>3. CASE BindFails(i) \/ AcceptFails(i)
    BY <2>3 DEF BindFails, AcceptFails
  <2> QED BY <2>1, <2>2, <2>3
<1> QED BY <1>1, InvAlways, PTL DEF Spec, StopsOnlyForCause

(***************************************************************************)
(* What a step may do to one connection: nothing that Acceptor can see, or *)
(* what one of the actions of Acceptor does.                               *)
(***************************************************************************)
Early == {"new", "queued", "handshaking"}

StepOf(c) ==
    \/ /\ conn'[c] = conn[c] \/ (conn[c] \in Early /\ conn'[c] \in Early)
       /\ (slot'[c] = "none") <=> (slot[c] = "none")
    \/ conn[c] \in Early /\ conn'[c] = "handler" /\ slot'[c] # "none"
    \/ conn[c] = "handler" /\ conn'[c] = "answering" /\ slot'[c] = slot[c]
    \/ conn[c] = "answering" /\ conn'[c] = "copying" /\ slot'[c] = slot[c]
    \/ conn'[c] = "ended" /\ slot'[c] = slot[c]

\* A step of the engine does one of these to a connection.
LEMMA NextStepOf == ASSUME Inv, Inv', Next, NEW c \in Conn PROVE StepOf(c)
<1> USE DEF StepOf, Early
<1>1. ASSUME NEW addr \in Address, NEW h \in Handler, AddAcceptor(addr, h)
      PROVE  StepOf(c)
  BY <1>1 DEF AddAcceptor, tasks
<1>2. ASSUME LoadFails \/ Loaded PROVE StepOf(c)
  BY <1>2 DEF LoadFails, Loaded, tasks
<1>3. ASSUME NEW i \in Acceptors, Bind(i) PROVE StepOf(c)
  BY <1>3 DEF Bind, tasks
<1>4. ASSUME NEW i \in Acceptors, BindFails(i) \/ AcceptFails(i) PROVE StepOf(c)
  BY <1>4 DEF BindFails, AcceptFails, Stop, Halt
<1>5. ASSUME NEW i \in Acceptors, Accept(i) PROVE StepOf(c)
  <2>1. i \in 1 .. MaxAcceptors
    BY EngineAssumption DEF Inv, TypeOK, Acceptors
  <2>2. queue[i] \in Seq(Conn) /\ queue[i] # <<>>
    BY <1>5, <2>1, QueueType DEF Accept
  <2>3. Head(queue[i]) = queue[i][1] /\ 1 \in DOMAIN queue[i]
    BY <2>2
  <2>4. conn[Head(queue[i])] = "queued"
    BY <2>1, <2>3 DEF Inv, Queued
  <2>5. CASE local_set
    <3>1. conn' = [conn EXCEPT ![Head(queue[i])] = "handshaking"] /\ slot' = slot
      BY <1>5, <2>5 DEF Accept, Spawn
    <3> QED BY <2>4, <3>1 DEF Inv, TypeOK
  <2>6. CASE ~local_set
    BY <1>5, <2>6 DEF Accept, Halt
  <2> QED BY <2>5, <2>6
<1>6. ASSUME NEW d \in Conn, HandlerCalled(d) PROVE StepOf(c)
  BY <1>6 DEF HandlerCalled, Becomes, Inv, TypeOK
<1>7. ASSUME NEW d \in Conn, HandlerMissing(d) \/ TaskEnds(d) PROVE StepOf(c)
  BY <1>7 DEF HandlerMissing, TaskEnds, Becomes, Inv, TypeOK
<1>8. ASSUME NEW d \in Conn, HandlerStores(d) PROVE StepOf(c)
  BY <1>8 DEF HandlerStores, Inv, TypeOK, Called
<1>9. ASSUME NEW d \in Conn, Connected(d) PROVE StepOf(c)
  BY <1>9 DEF Connected, Becomes, Inv, TypeOK
<1>10. ASSUME NEW d \in Conn, Answered(d) PROVE StepOf(c)
  BY <1>10 DEF Answered, Becomes, Inv, TypeOK
<1>11. ASSUME NEW d \in Conn, ClientAborts(d) PROVE StepOf(c)
  BY <1>11 DEF ClientAborts
<1>12. ASSUME NEW d \in Conn, NEW i \in Acceptors, ClientConnects(d, i) PROVE StepOf(c)
  BY <1>12 DEF ClientConnects, Inv, TypeOK
<1> QED BY <1>1, <1>2, <1>3, <1>4, <1>5, <1>6, <1>7, <1>8, <1>9, <1>10, <1>11, <1>12, Zenon
        DEF Next, Loops

(***************************************************************************)
(* ImplementsAcceptor: a step is a step of Acceptor for the connection it  *)
(* is about and stuttering for all others, except that Halt ends all that  *)
(* have begun.                                                             *)
(***************************************************************************)
THEOREM EngineImplementsAcceptor == Spec => ImplementsAcceptor
<1>1. Init => \A c \in Conn : Connection(c)!Init
  BY DEF Init, Connection!Init
<1>2. Inv /\ Inv' /\ [Next]_vars =>
        [\A c \in Conn : [Connection(c)!Next]_(Connection(c)!vars)]_vars
  <2> SUFFICES ASSUME Inv, Inv', Next, NEW c \in Conn
               PROVE  [Connection(c)!Next]_(Connection(c)!vars)
    OBVIOUS
  <2>1. StepOf(c)
    BY NextStepOf
  <2>2. conn[c] \in Open \cup {"new", "queued", "ended"}
    BY DEF Inv, TypeOK
  <2>3. conn[c] \in Early => slot[c] = "none"
    BY DEF Inv, Called, Early
  <2> QED
    BY <2>1, <2>2, <2>3
    DEF StepOf, Early, Open, Connection!Next, Connection!vars, Connection!Accept,
        Connection!Connect, Connection!Answer, Connection!End
<1> QED BY <1>1, <1>2, InvAlways, PTL DEF Spec, ImplementsAcceptor

-----------------------------------------------------------------------------
(* The GeoIP cache. *)

\* Where a call may be.
CallState ==
    {"idle", "downloading", "reading", "download_error", "write_error", "open_error", "clock_error"}

\* Its inductive invariant: the file is Partial only after a fault, which no
\* version is, and it is the file that decides whether a call can open it.
GeoInv ==
    /\ latest \in Nat \ {0}
    /\ faults \in Nat
    /\ call \in [Call -> CallState]
    /\ content = Partial => faults > 0
    /\ OpenFailsOnlyAfterBadWrite

\* A call that goes on changes no other, and fails to open the file only if it says so.
LEMMA GeoGoes ==
    ASSUME GeoInv, NEW c \in Call, NEW version, NEW to \in CallState, Goes(c, to, version)
    PROVE  /\ call' \in [Call -> CallState]
           /\ \A d \in Call : call'[d] = "open_error" =>
                call[d] = "open_error" \/ to = "open_error"
BY DEF GeoInv, Goes

(***************************************************************************)
(* Every step keeps the invariant.                                         *)
(***************************************************************************)
LEMMA GeoNextInv == GeoInv /\ [GeoNext]_geo_vars => GeoInv'
<1> SUFFICES ASSUME GeoInv, [GeoNext]_geo_vars PROVE GeoInv'
  OBVIOUS
<1> USE DEF GeoInv, OpenFailsOnlyAfterBadWrite, CallState
<1>1. ASSUME NEW c \in Call, OpenCached(c) PROVE GeoInv'
  BY <1>1, GeoGoes DEF OpenCached
<1>2. ASSUME NEW c \in Call, \/ ElapsedFails(c) \/ StartDownload(c)
                             \/ DownloadFails(c) \/ Forget(c)
      PROVE  GeoInv'
  <2>1. PICK to \in {"clock_error", "downloading", "download_error", "idle"} :
          Goes(c, to, Absent) /\ UNCHANGED <<content, age, latest, faults, steps>>
    BY <1>2 DEF ElapsedFails, StartDownload, DownloadFails, Forget
  <2> QED BY <2>1, GeoGoes
<1>3. ASSUME NEW c \in Call, BodyArrives(c) PROVE GeoInv'
  <2>1. content' # Partial
    BY <1>3 DEF BodyArrives, Partial
  <2> QED BY <1>3, <2>1, GeoGoes DEF BodyArrives
<1>4. ASSUME NEW c \in Call, BodyIsNoDatabase(c) \/ WriteFails(c) PROVE GeoInv'
  <2>1. PICK to \in {"open_error", "write_error"} : Goes(c, to, Absent)
    BY <1>4 DEF BodyIsNoDatabase, WriteFails
  <2>2. faults' = faults + 1 /\ latest' = latest
    BY <1>4 DEF BodyIsNoDatabase, WriteFails
  <2>3. faults' \in Nat /\ faults' > 0
    BY <2>2
  <2>4. call' \in [Call -> CallState]
    BY <2>1, GeoGoes
  <2> QED BY <2>2, <2>3, <2>4
<1>5. ASSUME Restart \/ CrashInWrite PROVE GeoInv'
  BY <1>5 DEF Restart, CrashInWrite
<1>6. ASSUME Tick \/ ClockBack \/ Publish PROVE GeoInv'
  BY <1>6 DEF Tick, ClockBack, Publish
<1>7. ASSUME UNCHANGED geo_vars PROVE GeoInv'
  BY <1>7 DEF geo_vars
<1> QED BY <1>1, <1>2, <1>3, <1>4, <1>5, <1>6, <1>7 DEF GeoNext

(***************************************************************************)
(* OpenFailsOnlyAfterBadWrite: no interleaving of calls of                 *)
(* create_geoip_from_url() lets one of them open a file that another is    *)
(* writing.                                                                *)
(***************************************************************************)
THEOREM OpenFailsAfterBadWrite == GeoSpec => []OpenFailsOnlyAfterBadWrite
<1>1. GeoInit => GeoInv
  BY DEF GeoInit, GeoInv, CallState, OpenFailsOnlyAfterBadWrite, Absent, Partial
<1>2. GeoInv => OpenFailsOnlyAfterBadWrite
  BY DEF GeoInv
<1> QED BY <1>1, <1>2, GeoNextInv, PTL DEF GeoSpec

-----------------------------------------------------------------------------
(***************************************************************************)
(* Concatenation under a name of its own, so that the lemmas below need no *)
(* more of it than these three facts.                                      *)
(***************************************************************************)
Cat(x, y) == x \o y

\* A concatenation is a sequence of the same elements.
LEMMA CatType == ASSUME NEW S, NEW x \in Seq(S), NEW y \in Seq(S) PROVE Cat(x, y) \in Seq(S)
BY ConcatProperties DEF Cat

\* The grouping does not matter.
LEMMA CatAssociative ==
    ASSUME NEW S, NEW x \in Seq(S), NEW y \in Seq(S), NEW z \in Seq(S)
    PROVE  Cat(Cat(x, y), z) = Cat(x, Cat(y, z))
BY ConcatAssociative DEF Cat

\* The empty sequence adds nothing.
LEMMA CatEmpty == ASSUME NEW S, NEW x \in Seq(S) PROVE Cat(x, <<>>) = x
BY ConcatEmptySeq DEF Cat

(***************************************************************************)
(* A sequence in two parts, in the two ways it is taken apart.             *)
(***************************************************************************)
LEMMA HeadAndTail ==
    ASSUME NEW S, NEW b \in Seq(S), b # <<>>
    PROVE  /\ <<Head(b)>> \in Seq(S) /\ Tail(b) \in Seq(S)
           /\ b = Cat(<<Head(b)>>, Tail(b))
<1>1. Head(b) \in S /\ Tail(b) \in Seq(S)
  BY HeadTailProperties
<1>2. Len(<<Head(b)>> \o Tail(b)) = Len(b)
  BY <1>1, HeadTailProperties
<1>3. \A i \in 1 .. Len(b) : (<<Head(b)>> \o Tail(b))[i] = b[i]
  BY <1>1, HeadTailProperties
<1> QED BY <1>1, <1>2, <1>3, SeqEqual DEF Cat

\* The first n elements and the others.
LEMMA PrefixAndRest ==
    ASSUME NEW S, NEW b \in Seq(S), NEW n \in 1 .. Len(b)
    PROVE  /\ SubSeq(b, 1, n) \in Seq(S) /\ SubSeq(b, n + 1, Len(b)) \in Seq(S)
           /\ b = Cat(SubSeq(b, 1, n), SubSeq(b, n + 1, Len(b)))
<1> DEFINE p == SubSeq(b, 1, n)
           q == SubSeq(b, n + 1, Len(b))
<1>1. p \in Seq(S) /\ q \in Seq(S) /\ Len(p) = n /\ Len(q) = Len(b) - n
  BY SubSeqProperties
<1>2. Len(p \o q) = Len(b) /\ p \o q \in Seq(S)
  BY <1>1
<1>3. \A i \in 1 .. Len(b) : (p \o q)[i] = b[i]
  BY <1>1, SubSeqProperties
<1> QED BY <1>1, <1>2, <1>3, SeqEqual DEF Cat

(***************************************************************************)
(* The row of sequences of the acceptors, and the moves along it of a part *)
(* p, which is what follows it without r.                                  *)
(***************************************************************************)
Row(a, t, b, s) == Cat(Cat(Cat(a, t), b), s)

\* The client sends p: it comes last in the row.
LEMMA RowMovesIn ==
    ASSUME NEW S, NEW a \in Seq(S), NEW t \in Seq(S), NEW b \in Seq(S), NEW s \in Seq(S),
           NEW p \in Seq(S)
    PROVE  Row(a, t, b, Cat(s, p)) = Cat(Row(a, t, b, s), p)
<1>1. Cat(Cat(a, t), b) \in Seq(S)
  BY CatType
<1> QED BY <1>1, CatAssociative DEF Row

\* hyper reads p from the socket into its buffer.
LEMMA RowMovesToBuffer ==
    ASSUME NEW S, NEW a \in Seq(S), NEW t \in Seq(S), NEW b \in Seq(S), NEW p \in Seq(S),
           NEW r \in Seq(S)
    PROVE  Row(a, t, Cat(b, p), r) = Row(a, t, b, Cat(p, r))
BY CatType, CatAssociative DEF Row

\* The tunnel reads p from the buffer.
LEMMA RowMovesToTunnel ==
    ASSUME NEW S, NEW a \in Seq(S), NEW t \in Seq(S), NEW p \in Seq(S), NEW r \in Seq(S),
           NEW s \in Seq(S)
    PROVE  Row(a, Cat(t, p), r, s) = Row(a, t, Cat(p, r), s)
BY CatType, CatAssociative DEF Row

\* The tunnel reads p from the socket, when the buffer is empty.
LEMMA RowMovesOverBuffer ==
    ASSUME NEW S, NEW a \in Seq(S), NEW t \in Seq(S), NEW p \in Seq(S), NEW r \in Seq(S)
    PROVE  Row(a, Cat(t, p), <<>>, r) = Row(a, t, <<>>, Cat(p, r))
BY CatType, CatAssociative, CatEmpty DEF Row

\* hyper serves p from its buffer, when there is no tunnel yet.
LEMMA RowMovesToServed ==
    ASSUME NEW S, NEW a \in Seq(S), NEW p \in Seq(S), NEW r \in Seq(S), NEW s \in Seq(S)
    PROVE  Row(Cat(a, p), <<>>, r, s) = Row(a, <<>>, Cat(p, r), s)
BY CatType, CatAssociative, CatEmpty DEF Row

(***************************************************************************)
(* The same for single elements and for the first n: the client sends x,   *)
(* which is recorded too, hyper reads from the socket and serves a request *)
(* from its buffer, and the tunnel reads from the buffer or the socket.    *)
(***************************************************************************)
LEMMA AppendIsCat == ASSUME NEW S, NEW s \in Seq(S), NEW x \in S PROVE Append(s, x) = Cat(s, <<x>>)
BY AppendIsConcat, ZenonT(30) DEF Cat

\* An element is put at the end of the second part.
LEMMA CatAppends ==
    ASSUME NEW S, NEW x \in Seq(S), NEW y \in Seq(S), NEW e \in S
    PROVE  Cat(x, Append(y, e)) = Append(Cat(x, y), e)
<1>1. <<e>> \in Seq(S) /\ Cat(x, y) \in Seq(S)
  BY CatType
<1>2. Append(y, e) = Cat(y, <<e>>) /\ Append(Cat(x, y), e) = Cat(Cat(x, y), <<e>>)
  BY <1>1, AppendIsCat
<1>3. Cat(Cat(x, y), <<e>>) = Cat(x, Cat(y, <<e>>))
  <2>1. PICK z \in Seq(S) : z = <<e>>
    BY <1>1, Zenon
  <2>2. Cat(Cat(x, y), z) = Cat(x, Cat(y, z))
    BY CatAssociative
  <2> QED BY <2>1, <2>2, Zenon
<1> QED BY <1>2, <1>3, Zenon

\* An element moves from the front of b to the end of a.
LEMMA MovesHead ==
    ASSUME NEW S, NEW a \in Seq(S), NEW b \in Seq(S), b # <<>>
    PROVE  /\ <<Head(b)>> \in Seq(S) /\ Tail(b) \in Seq(S)
           /\ Append(a, Head(b)) = Cat(a, <<Head(b)>>)
           /\ b = Cat(<<Head(b)>>, Tail(b))
<1>1. Head(b) \in S
  BY HeadTailProperties
<1> QED BY <1>1, AppendIsCat, HeadAndTail

\* An element is put at the end of a and of b.
LEMMA MovesIn ==
    ASSUME NEW S, NEW a \in Seq(S), NEW b \in Seq(S), NEW x \in S
    PROVE  \E p \in Seq(S) : Append(a, x) = Cat(a, p) /\ Append(b, x) = Cat(b, p)
<1>1. <<x>> \in Seq(S)
  OBVIOUS
<1>2. Append(a, x) = Cat(a, <<x>>) /\ Append(b, x) = Cat(b, <<x>>)
  BY AppendIsCat
<1> QED BY <1>1, <1>2, Zenon

\* hyper reads one item ahead.
LEMMA RowReadsAhead ==
    ASSUME NEW S, NEW a \in Seq(S), NEW t \in Seq(S), NEW b \in Seq(S), NEW s \in Seq(S),
           s # <<>>
    PROVE  Row(a, t, Append(b, Head(s)), Tail(s)) = Row(a, t, b, s)
<1>1. PICK p, r \in Seq(S) : Append(b, Head(s)) = Cat(b, p) /\ r = Tail(s) /\ s = Cat(p, r)
  <2>1. /\ <<Head(s)>> \in Seq(S) /\ Tail(s) \in Seq(S)
        /\ Append(b, Head(s)) = Cat(b, <<Head(s)>>)
        /\ s = Cat(<<Head(s)>>, Tail(s))
    BY MovesHead
  <2> QED BY <2>1, Zenon
<1>2. Row(a, t, Cat(b, p), r) = Row(a, t, b, Cat(p, r))
  BY RowMovesToBuffer
<1> QED BY <1>1, <1>2, Zenon

\* hyper serves one request.
LEMMA RowServes ==
    ASSUME NEW S, NEW a \in Seq(S), NEW b \in Seq(S), NEW s \in Seq(S), b # <<>>
    PROVE  Row(Append(a, Head(b)), <<>>, Tail(b), s) = Row(a, <<>>, b, s)
<1>1. PICK p, r \in Seq(S) : Append(a, Head(b)) = Cat(a, p) /\ r = Tail(b) /\ b = Cat(p, r)
  <2>1. /\ <<Head(b)>> \in Seq(S) /\ Tail(b) \in Seq(S)
        /\ Append(a, Head(b)) = Cat(a, <<Head(b)>>)
        /\ b = Cat(<<Head(b)>>, Tail(b))
    BY MovesHead
  <2> QED BY <2>1, Zenon
<1>2. Row(Cat(a, p), <<>>, r, s) = Row(a, <<>>, Cat(p, r), s)
  BY RowMovesToServed
<1> QED BY <1>1, <1>2, Zenon

\* The tunnel reads n items of the buffer.
LEMMA RowTunnelsBuffer ==
    ASSUME NEW S, NEW a \in Seq(S), NEW t \in Seq(S), NEW b \in Seq(S), NEW s \in Seq(S),
           NEW n \in 1 .. Len(b)
    PROVE  Row(a, Cat(t, SubSeq(b, 1, n)), SubSeq(b, n + 1, Len(b)), s) = Row(a, t, b, s)
<1>1. PICK p, r \in Seq(S) :
        p = SubSeq(b, 1, n) /\ r = SubSeq(b, n + 1, Len(b)) /\ b = Cat(p, r)
  <2>1. /\ SubSeq(b, 1, n) \in Seq(S) /\ SubSeq(b, n + 1, Len(b)) \in Seq(S)
        /\ b = Cat(SubSeq(b, 1, n), SubSeq(b, n + 1, Len(b)))
    BY PrefixAndRest
  <2> QED BY <2>1, Zenon
<1>2. Row(a, Cat(t, p), r, s) = Row(a, t, Cat(p, r), s)
  BY RowMovesToTunnel
<1> QED BY <1>1, <1>2, Zenon

\* The tunnel reads n items of the socket.
LEMMA RowTunnelsSocket ==
    ASSUME NEW S, NEW a \in Seq(S), NEW t \in Seq(S), NEW s \in Seq(S), NEW n \in 1 .. Len(s)
    PROVE  Row(a, Cat(t, SubSeq(s, 1, n)), <<>>, SubSeq(s, n + 1, Len(s))) = Row(a, t, <<>>, s)
<1>1. PICK p, r \in Seq(S) :
        p = SubSeq(s, 1, n) /\ r = SubSeq(s, n + 1, Len(s)) /\ s = Cat(p, r)
  <2>1. /\ SubSeq(s, 1, n) \in Seq(S) /\ SubSeq(s, n + 1, Len(s)) \in Seq(S)
        /\ s = Cat(SubSeq(s, 1, n), SubSeq(s, n + 1, Len(s)))
    BY PrefixAndRest
  <2> QED BY <2>1, Zenon
<1>2. Row(a, Cat(t, p), <<>>, r) = Row(a, t, <<>>, Cat(p, r))
  BY RowMovesOverBuffer
<1> QED BY <1>1, <1>2, Zenon

\* The tunnel reads one item of the socket.
LEMMA RowTunnelsHead ==
    ASSUME NEW S, NEW a \in Seq(S), NEW t \in Seq(S), NEW s \in Seq(S), s # <<>>
    PROVE  Row(a, Append(t, Head(s)), <<>>, Tail(s)) = Row(a, t, <<>>, s)
<1>1. PICK p, r \in Seq(S) : Append(t, Head(s)) = Cat(t, p) /\ r = Tail(s) /\ s = Cat(p, r)
  <2>1. /\ <<Head(s)>> \in Seq(S) /\ Tail(s) \in Seq(S)
        /\ Append(t, Head(s)) = Cat(t, <<Head(s)>>)
        /\ s = Cat(<<Head(s)>>, Tail(s))
    BY MovesHead
  <2> QED BY <2>1, Zenon
<1>2. Row(a, Cat(t, p), <<>>, r) = Row(a, t, <<>>, Cat(p, r))
  BY RowMovesOverBuffer
<1> QED BY <1>1, <1>2, Zenon

\* The length of two sequences in a row, and the places of both.
LEMMA CatPlaces ==
    ASSUME NEW S, NEW x \in Seq(S), NEW y \in Seq(S)
    PROVE  /\ Cat(x, y) \in Seq(S) /\ Len(Cat(x, y)) = Len(x) + Len(y)
           /\ \A i \in 1 .. Len(x) : Cat(x, y)[i] = x[i]
           /\ \A i \in 1 .. Len(y) : Cat(x, y)[Len(x) + i] = y[i]
BY ConcatProperties DEF Cat

\* The length of a row.
LEMMA RowLen ==
    ASSUME NEW S, NEW a \in Seq(S), NEW t \in Seq(S), NEW b \in Seq(S), NEW s \in Seq(S)
    PROVE  Len(Row(a, t, b, s)) = Len(a) + Len(t) + Len(b) + Len(s)
<1>1. PICK c \in Seq(S) : c = Cat(a, t) /\ Len(c) = Len(a) + Len(t)
  BY CatPlaces, Zenon
<1>2. PICK d \in Seq(S) : d = Cat(c, b) /\ Len(d) = Len(c) + Len(b)
  BY CatPlaces, Zenon
<1>3. Len(Cat(d, s)) = Len(d) + Len(s)
  BY CatPlaces, Zenon
<1> QED BY <1>1, <1>2, <1>3, Zenon DEF Row

\* The items that were served are the first of the row.
LEMMA RowServed ==
    ASSUME NEW S, NEW a \in Seq(S), NEW t \in Seq(S), NEW b \in Seq(S), NEW s \in Seq(S),
           NEW i \in 1 .. Len(a)
    PROVE  Row(a, t, b, s)[i] = a[i]
<1>1. PICK c \in Seq(S) : c = Cat(a, t) /\ Len(c) = Len(a) + Len(t) /\ c[i] = a[i]
  BY CatPlaces, Zenon
<1>2. Len(a) \in Nat /\ Len(t) \in Nat /\ Len(b) \in Nat
  OBVIOUS
<1>3. i \in 1 .. Len(c)
  BY <1>1, <1>2
<1>4. PICK d \in Seq(S) : d = Cat(c, b) /\ Len(d) = Len(c) + Len(b) /\ d[i] = c[i]
  BY <1>3, CatPlaces, Zenon
<1>5. i \in 1 .. Len(d)
  BY <1>1, <1>2, <1>4
<1>6. Cat(d, s)[i] = d[i]
  BY <1>5, CatPlaces, Zenon
<1> QED BY <1>1, <1>4, <1>6, Zenon DEF Row

\* What is in the buffer comes next, when there is no tunnel yet.
LEMMA RowBuffered ==
    ASSUME NEW S, NEW a \in Seq(S), NEW b \in Seq(S), NEW s \in Seq(S), NEW i \in 1 .. Len(b)
    PROVE  Row(a, <<>>, b, s)[Len(a) + i] = b[i]
<1>1. PICK d \in Seq(S) : d = Cat(a, b) /\ Len(d) = Len(a) + Len(b) /\ d[Len(a) + i] = b[i]
  <2>1. /\ Cat(a, b) \in Seq(S) /\ Len(Cat(a, b)) = Len(a) + Len(b)
        /\ Cat(a, b)[Len(a) + i] = b[i]
    BY CatPlaces
  <2> QED BY <2>1, Zenon
<1>2. Len(a) + i \in 1 .. Len(d)
  <2>1. Len(a) \in Nat /\ Len(b) \in Nat
    OBVIOUS
  <2> QED BY <1>1, <2>1
<1>3. Cat(d, s)[Len(a) + i] = d[Len(a) + i]
  BY <1>2, CatPlaces, Zenon
<1>4. Row(a, <<>>, b, s) = Cat(d, s)
  BY <1>1, CatEmpty, Zenon DEF Row
<1> QED BY <1>1, <1>3, <1>4, Zenon

-----------------------------------------------------------------------------
(* The acceptors that are built on hyper: the way of an item through it. *)

\* The sequences that an item of the set I goes through.
Buffers(I) ==
    /\ sent \in Seq(I) /\ socket \in Seq(I) /\ read_buf \in Seq(I)
    /\ served \in Seq(I) /\ dropped \in Seq(I) /\ tunnelled \in Seq(I)
    /\ NothingLost

\* What has gone behind the requests: to nobody, and to the tunnel.
Behind == Cat(dropped, tunnelled)

\* NothingLost in terms of the row of sequences.
LEMMA Lossless == NothingLost <=> sent = Row(served, Behind, read_buf, socket)
BY DEF NothingLost, Row, Behind, Cat

\* The same after a step.
LEMMA LosslessNext == NothingLost' <=> sent' = Row(served', Behind', read_buf', socket')
BY DEF NothingLost, Row, Behind, Cat

\* The parts of the row.
LEMMA RowParts ==
    ASSUME NEW I, Buffers(I)
    PROVE  /\ sent \in Seq(I) /\ socket \in Seq(I) /\ read_buf \in Seq(I)
           /\ served \in Seq(I) /\ Behind \in Seq(I)
           /\ sent = Row(served, Behind, read_buf, socket)
BY CatType, Lossless DEF Buffers, Behind

\* The same after a step.
LEMMA RowPartsNext ==
    ASSUME NEW I, Buffers(I)'
    PROVE  /\ sent' \in Seq(I) /\ socket' \in Seq(I) /\ read_buf' \in Seq(I)
           /\ served' \in Seq(I) /\ Behind' \in Seq(I)
           /\ sent' = Row(served', Behind', read_buf', socket')
BY CatType, LosslessNext DEF Buffers, Behind

\* The client sends: its item is the last of sent and of socket.
LEMMA SendsKeeps == ASSUME NEW I, NEW item \in I, Buffers(I), Sends(item) PROVE Buffers(I)'
<1>1. /\ sent' = Append(sent, item) /\ socket' = Append(socket, item)
      /\ UNCHANGED <<read_buf, served, dropped, tunnelled, Behind>>
  BY DEF Sends, Behind
<1>2. /\ sent \in Seq(I) /\ socket \in Seq(I) /\ read_buf \in Seq(I)
      /\ served \in Seq(I) /\ Behind \in Seq(I)
      /\ sent = Row(served, Behind, read_buf, socket)
  BY RowParts
<1>3. PICK q \in Seq(I) :
        Append(sent, item) = Cat(sent, q) /\ Append(socket, item) = Cat(socket, q)
  BY <1>2, MovesIn, ZenonT(30)
<1>4. Row(served, Behind, read_buf, Cat(socket, q))
        = Cat(Row(served, Behind, read_buf, socket), q)
  BY <1>2, RowMovesIn
<1>5. NothingLost'
  BY <1>1, <1>2, <1>3, <1>4, LosslessNext
<1> QED BY <1>1, <1>2, <1>5 DEF Buffers

\* hyper reads ahead: an item moves from the socket to its buffer.
LEMMA ReadAheadKeeps == ASSUME NEW I, Buffers(I), ReadAhead PROVE Buffers(I)'
<1>1. /\ socket # <<>> /\ read_buf' = Append(read_buf, Head(socket)) /\ socket' = Tail(socket)
      /\ UNCHANGED <<sent, served, dropped, tunnelled, Behind>>
  BY DEF ReadAhead, Behind
<1>2. /\ sent \in Seq(I) /\ socket \in Seq(I) /\ read_buf \in Seq(I)
      /\ served \in Seq(I) /\ Behind \in Seq(I)
      /\ sent = Row(served, Behind, read_buf, socket)
  BY RowParts
<1>3. Head(socket) \in I /\ Tail(socket) \in Seq(I)
  BY <1>1, <1>2
<1>4. Row(served, Behind, Append(read_buf, Head(socket)), Tail(socket))
        = Row(served, Behind, read_buf, socket)
  BY <1>1, <1>2, RowReadsAhead
<1>5. NothingLost'
  BY <1>1, <1>2, <1>4, LosslessNext
<1> QED BY <1>1, <1>2, <1>3, <1>5 DEF Buffers

\* hyper takes a request: as long as there is no tunnel, the request moves from
\* its buffer to the end of served.
LEMMA NextRequestKeeps ==
    ASSUME NEW I, NEW r, Buffers(I), dropped = <<>>, tunnelled = <<>>, NextRequest(r)
    PROVE  /\ Buffers(I)' /\ r \in I
           /\ Len(served') = Len(served) + 1 /\ served'[Len(served')] = r
           /\ \A i \in DOMAIN served : i \in DOMAIN served' /\ served'[i] = served[i]
           /\ \A i \in DOMAIN served' : i \in DOMAIN served \/ i = Len(served')
<1>1. /\ read_buf # <<>> /\ r = Head(read_buf)
      /\ read_buf' = Tail(read_buf) /\ served' = Append(served, r)
      /\ UNCHANGED <<sent, socket, dropped, tunnelled, Behind>>
  BY DEF NextRequest, Behind
<1>2. /\ sent \in Seq(I) /\ socket \in Seq(I) /\ read_buf \in Seq(I)
      /\ served \in Seq(I) /\ sent = Row(served, Behind, read_buf, socket)
  BY RowParts
<1>3. /\ r \in I /\ read_buf' \in Seq(I) /\ served' \in Seq(I)
      /\ Len(served') = Len(served) + 1 /\ served'[Len(served')] = r
      /\ \A i \in DOMAIN served : i \in DOMAIN served' /\ served'[i] = served[i]
      /\ \A i \in DOMAIN served' : i \in DOMAIN served \/ i = Len(served')
  BY <1>1, <1>2
<1>4. Behind = <<>>
  BY CatEmpty DEF Behind, Buffers
<1>5. Row(Append(served, Head(read_buf)), <<>>, Tail(read_buf), socket)
        = Row(served, <<>>, read_buf, socket)
  BY <1>1, <1>2, RowServes
<1>6. NothingLost'
  BY <1>1, <1>2, <1>4, <1>5, LosslessNext
<1> QED BY <1>1, <1>2, <1>3, <1>6 DEF Buffers

\* The last request that was served has a place.
LEMMA LastServed == ASSUME NEW I, Buffers(I), served # <<>> PROVE Len(served) \in DOMAIN served
BY DEF Buffers

\* What was served is what was sent, in the same places.
LEMMA ServedIsSent ==
    ASSUME NEW I, Buffers(I)
    PROVE  /\ Len(sent) = Len(served) + Len(Behind) + Len(read_buf) + Len(socket)
           /\ \A i \in 1 .. Len(served) : sent[i] = served[i]
<1>1. /\ socket \in Seq(I) /\ read_buf \in Seq(I) /\ served \in Seq(I) /\ Behind \in Seq(I)
      /\ sent = Row(served, Behind, read_buf, socket)
  BY RowParts
<1>2. Len(Row(served, Behind, read_buf, socket))
        = Len(served) + Len(Behind) + Len(read_buf) + Len(socket)
  BY <1>1, RowLen
<1>3. \A i \in 1 .. Len(served) : Row(served, Behind, read_buf, socket)[i] = served[i]
  BY <1>1, RowServed
<1> QED BY <1>1, <1>2, <1>3, Zenon

\* The same after a step.
LEMMA ServedIsSentNext ==
    ASSUME NEW I, Buffers(I)'
    PROVE  /\ Len(sent') = Len(served') + Len(Behind') + Len(read_buf') + Len(socket')
           /\ \A i \in 1 .. Len(served') : sent'[i] = served'[i]
<1>1. /\ socket' \in Seq(I) /\ read_buf' \in Seq(I) /\ served' \in Seq(I)
      /\ Behind' \in Seq(I) /\ sent' = Row(served', Behind', read_buf', socket')
  BY RowPartsNext
<1>2. Len(Row(served', Behind', read_buf', socket'))
        = Len(served') + Len(Behind') + Len(read_buf') + Len(socket')
  BY <1>1, RowLen
<1>3. \A i \in 1 .. Len(served') : Row(served', Behind', read_buf', socket')[i] = served'[i]
  BY <1>1, RowServed
<1> QED BY <1>1, <1>2, <1>3, Zenon

-----------------------------------------------------------------------------
(* The HTTP acceptor. *)

\* Where the handshake is, and what has happened by then.
HttpProgress ==
    /\ stage = "handshaking" => state = "not_connected" /\ in_handler = "nothing"
    /\ state = "not_connected" =>
         /\ stage \in {"handshaking", "failed"} /\ target = NoEndpoint
         /\ served = <<>> /\ forwarded = <<>>
    /\ stage = "connecting" => in_handler = "done"
    /\ stage = "serving" /\ in_handler # "done" => state = "connected"
    /\ stage = "tunnel" => read_buf = <<>> /\ forwarded = <<>> /\ state = "taken"

\* The first request waits for the engine; it is the only one so far.
FirstWaits ==
    in_handler = "done" =>
      /\ state = "taken" /\ forwarded = <<>>
      /\ Len(served) = 1 /\ target = EndpointOf(served[1]) /\ target # NoEndpoint

\* A proxy connection has forwarded its first request, which is not CONNECT.
Proxied ==
    state = "connected" => forwarded # <<>> /\ served # <<>> /\ served[1].method = "GET"

\* Until there is a tunnel, all that was sent behind a CONNECT is early.
BeforeTunnel ==
    stage # "tunnel" =>
      /\ dropped = <<>> /\ tunnelled = <<>>
      /\ \A i, j \in DOMAIN sent : i < j /\ sent[i].method = "CONNECT" => sent[j].early

\* What is numbered was sent in that order, the first of it is a request, and
\* what is forwarded was served.
Numbered ==
    /\ \A i \in DOMAIN sent : sent[i].n = i
    /\ sent # <<>> => sent[1].method # "bytes"
    /\ \A i \in DOMAIN forwarded : forwarded[i].n <= Len(served)

\* The inductive invariant.
HttpInv ==
    /\ HttpTypeOK
    /\ HttpProgress
    /\ FirstWaits
    /\ Proxied
    /\ BeforeTunnel
    /\ Numbered
    /\ NothingLost
    /\ ForwardedToItsHost
    /\ TunnelOrProxy
    /\ DropsOnlyEarly

-----------------------------------------------------------------------------
\* What HttpTypeOK says of each sequence.
LEMMA HttpTypes ==
    ASSUME HttpTypeOK
    PROVE  /\ sent \in Seq(HttpItem) /\ socket \in Seq(HttpItem) /\ read_buf \in Seq(HttpItem)
           /\ served \in Seq(HttpItem) /\ forwarded \in Seq(HttpItem)
           /\ dropped \in Seq(HttpItem) /\ tunnelled \in Seq(HttpItem)
BY DEF HttpTypeOK

\* What the invariant says of them.
LEMMA HttpBuffers == ASSUME HttpInv PROVE Buffers(HttpItem)
BY HttpTypes DEF HttpInv, Buffers

\* The invariant holds when the connection is accepted.
LEMMA HttpInitInv == HttpInit => HttpInv
<1> SUFFICES ASSUME HttpInit PROVE HttpInv
  OBVIOUS
<1>1. <<>> \in Seq(HttpItem) /\ DOMAIN <<>> = {} /\ <<>> \o <<>> = <<>>
  OBVIOUS
<1>2. HttpTypeOK
  BY <1>1, Zenon DEF HttpInit, ConnectionInit, HttpTypeOK, Stage
<1>3. NothingLost
  BY <1>1 DEF HttpInit, ConnectionInit, NothingLost
<1> QED BY <1>1, <1>2, <1>3
        DEF HttpInit, ConnectionInit, HttpInv, HttpProgress, FirstWaits, Proxied, BeforeTunnel,
            Numbered, ForwardedToItsHost, TunnelOrProxy, DropsOnlyEarly

(***************************************************************************)
(* The client sends: its item is the last of sent and of socket, and early *)
(* if there is a CONNECT before it and no tunnel.                          *)
(***************************************************************************)
LEMMA HttpSendsInv ==
    ASSUME HttpInv, NEW method \in {"CONNECT", "GET", "bytes"}, NEW uri \in Uri,
           ClientSends(method, uri)
    PROVE  HttpInv'
<1> DEFINE item == [method |-> method, uri |-> uri, n |-> Len(sent) + 1,
                    early |-> ConnectSent /\ stage # "tunnel"]
<1>1. /\ Sends(item) /\ sent' = Append(sent, item)
      /\ UNCHANGED <<client_closed, read_buf, served, in_handler, state, target, stage,
                     forwarded, dropped, tunnelled>>
  BY DEF ClientSends, Sends, proxy
<1>2. /\ item \in HttpItem /\ item.n = Len(sent) + 1 /\ item.method = method
      /\ item.early = (ConnectSent /\ stage # "tunnel")
  BY HttpTypes, MaxItemsAssumption DEF HttpInv, ClientSends, Sends, HttpItem
<1> HIDE DEF item
<1>3. sent \in Seq(HttpItem) /\ Buffers(HttpItem)'
  BY <1>1, <1>2, HttpBuffers, SendsKeeps DEF Buffers
<1>4. HttpTypeOK' /\ NothingLost'
  BY <1>1, <1>3 DEF HttpInv, HttpTypeOK, Buffers
<1>5. \A i \in DOMAIN sent' :
        \/ i \in DOMAIN sent /\ sent'[i] = sent[i]
        \/ i = Len(sent') /\ i = Len(sent) + 1 /\ sent'[i] = item
  BY <1>1, <1>2, <1>3
<1>6. Numbered'
  <2>1. CASE sent = <<>>
    <3>1. method # "bytes"
      BY <2>1 DEF ClientSends, ConnectSent
    <3>2. sent'[1] = item
      BY <1>1, <1>2, <2>1
    <3> QED BY <1>1, <1>2, <1>5, <3>1, <3>2 DEF HttpInv, Numbered
  <2>2. CASE sent # <<>>
    <3>1. sent'[1] = sent[1]
      BY <1>1, <1>2, <1>3, <2>2
    <3> QED BY <1>1, <1>2, <1>5, <2>2, <3>1 DEF HttpInv, Numbered
  <2> QED BY <2>1, <2>2
<1>7. BeforeTunnel'
  <2> SUFFICES ASSUME stage # "tunnel", NEW i \in DOMAIN sent', NEW j \in DOMAIN sent',
                      i < j, sent'[i].method = "CONNECT"
               PROVE  sent'[j].early
    BY <1>1 DEF HttpInv, BeforeTunnel
  <2>1. i \in DOMAIN sent /\ sent'[i] = sent[i]
    BY <1>1, <1>2, <1>3, <1>5
  <2>2. CASE j \in DOMAIN sent /\ sent'[j] = sent[j]
    BY <2>1, <2>2 DEF HttpInv, BeforeTunnel
  <2>3. CASE sent'[j] = item
    BY <1>2, <2>1, <2>3 DEF ConnectSent
  <2> QED BY <1>5, <2>2, <2>3
<1> QED BY <1>1, <1>4, <1>6, <1>7
        DEF HttpInv, HttpProgress, FirstWaits, Proxied, ForwardedToItsHost, TunnelOrProxy,
            DropsOnlyEarly

(***************************************************************************)
(* hyper reads ahead: an item moves from the socket to its buffer.         *)
(***************************************************************************)
LEMMA HttpReadAheadInv == ASSUME HttpInv, ReadAhead, UNCHANGED proxy PROVE HttpInv'
<1>1. /\ stage # "tunnel"
      /\ UNCHANGED <<sent, client_closed, served, in_handler, state, target, stage, forwarded,
                     dropped, tunnelled>>
  BY DEF ReadAhead, Serving, proxy
<1>2. Buffers(HttpItem)'
  BY HttpBuffers, ReadAheadKeeps
<1>3. HttpTypeOK' /\ NothingLost'
  BY <1>1, <1>2 DEF HttpInv, HttpTypeOK, Buffers
<1> QED BY <1>1, <1>3
        DEF HttpInv, HttpProgress, FirstWaits, Proxied, BeforeTunnel, Numbered,
            ForwardedToItsHost, TunnelOrProxy, DropsOnlyEarly

(***************************************************************************)
(* handler is called: no tunnel has read anything yet, and the request     *)
(* moves from hyper's buffer to the end of served.                         *)
(***************************************************************************)
LEMMA HandleRequestKeeps ==
    ASSUME HttpInv, HandleRequest
    PROVE  /\ Buffers(HttpItem)' /\ tunnelled' = <<>> /\ stage # "tunnel" /\ request \in HttpItem
           /\ request.n = Len(served) + 1
           /\ Len(served') = Len(served) + 1 /\ served'[Len(served')] = request
           /\ \A i \in DOMAIN served : i \in DOMAIN served' /\ served'[i] = served[i]
           /\ \A i \in DOMAIN served' : i \in DOMAIN served \/ i = Len(served')
           /\ UNCHANGED <<sent, socket, client_closed, dropped, tunnelled>>
<1>1. /\ stage # "tunnel" /\ NextRequest(request)
      /\ UNCHANGED <<sent, socket, client_closed, dropped, tunnelled>>
  BY DEF HandleRequest, NextRequest, Serving
<1>2. dropped = <<>> /\ tunnelled = <<>>
  BY <1>1 DEF HttpInv, BeforeTunnel
<1>3. /\ Buffers(HttpItem)' /\ request \in HttpItem
      /\ Len(served') = Len(served) + 1 /\ served'[Len(served')] = request
      /\ \A i \in DOMAIN served : i \in DOMAIN served' /\ served'[i] = served[i]
      /\ \A i \in DOMAIN served' : i \in DOMAIN served \/ i = Len(served')
  BY <1>1, <1>2, HttpBuffers, NextRequestKeeps
<1>4. request.n = Len(served) + 1
  <2>1. /\ served \in Seq(HttpItem) /\ served' \in Seq(HttpItem) /\ sent' \in Seq(HttpItem)
        /\ Behind' \in Seq(HttpItem) /\ read_buf' \in Seq(HttpItem)
        /\ socket' \in Seq(HttpItem)
    BY <1>3, HttpTypes, RowPartsNext DEF HttpInv
  <2>2. /\ Len(sent') = Len(served') + Len(Behind') + Len(read_buf') + Len(socket')
        /\ \A i \in 1 .. Len(served') : sent'[i] = served'[i]
    BY <1>3, ServedIsSentNext
  <2>3. Len(served') \in 1 .. Len(served') /\ Len(served') \in DOMAIN sent'
    BY <1>3, <2>1, <2>2
  <2>4. sent[Len(served')] = request /\ Len(served') \in DOMAIN sent
    BY <1>1, <1>3, <2>2, <2>3
  <2> QED BY <1>1, <1>3, <2>4 DEF HttpInv, Numbered
<1> QED BY <1>1, <1>2, <1>3, <1>4

\* The endpoint of a request that names a host.
LEMMA EndpointType ==
    ASSUME NEW r \in HttpItem, r.uri.host # NoHost
    PROVE  EndpointOf(r) \in [host : Host, port : Port] /\ EndpointOf(r) # NoEndpoint
<1>1. r.uri.host \in Host /\ r.uri.port \in Port
  BY DEF HttpItem, Uri
<1> QED BY <1>1, HostAssumption DEF EndpointOf, NoEndpoint

\* The number of a request that was forwarded.
LEMMA ForwardedNumber ==
    ASSUME HttpInv, NEW i \in DOMAIN forwarded
    PROVE  forwarded[i].n <= Len(served) /\ forwarded[i].n \in Int
<1>1. forwarded \in Seq(HttpItem)
  BY HttpTypes DEF HttpInv
<1>2. forwarded[i] \in HttpItem
  BY <1>1
<1>3. forwarded[i].n \in Int
  BY <1>2 DEF HttpItem
<1> QED BY <1>3 DEF HttpInv, Numbered

(***************************************************************************)
(* The first request, with and without an endpoint.                        *)
(***************************************************************************)
LEMMA FirstInv == ASSUME HttpInv, SendEndpoint \/ NoEndpointGiven PROVE HttpInv'
<1>1. /\ HandleRequest /\ state = "not_connected" /\ state' = "taken"
      /\ UNCHANGED <<sent, socket, client_closed, dropped, tunnelled, forwarded>>
  BY DEF SendEndpoint, NoEndpointGiven, HandleRequest, NextRequest
<1>2. /\ Buffers(HttpItem)' /\ tunnelled' = <<>> /\ stage # "tunnel" /\ request \in HttpItem
      /\ request.n = Len(served) + 1
      /\ served' \in Seq(HttpItem) /\ NothingLost'
      /\ Len(served') = Len(served) + 1 /\ served'[Len(served')] = request
  BY <1>1, HandleRequestKeeps DEF Buffers
<1>3. /\ served = <<>> /\ forwarded = <<>> /\ target = NoEndpoint /\ in_handler = "nothing"
  BY <1>1 DEF HttpInv, HttpProgress, HandleRequest, NextRequest
<1>4. Len(served') = 1 /\ served'[1] = request /\ DOMAIN served' = {1}
  BY <1>2, <1>3
<1>5. \/ /\ request.uri.host # NoHost /\ target' = EndpointOf(request)
         /\ in_handler' = "done" /\ stage' = "connecting"
      \/ stage' = "failed" /\ UNCHANGED <<in_handler, target>>
  BY DEF SendEndpoint, NoEndpointGiven
<1>6. HttpTypeOK'
  BY <1>1, <1>2, <1>5, EndpointType, HttpTypes DEF HttpInv, HttpTypeOK, Buffers, Stage
<1>7. BeforeTunnel'
  BY <1>1, <1>2 DEF HttpInv, BeforeTunnel
<1>8. Numbered' /\ ForwardedToItsHost'
  <2>1. DOMAIN forwarded' = {}
    BY <1>1, <1>3
  <2> QED BY <1>1, <2>1, ZenonT(30) DEF HttpInv, Numbered, ForwardedToItsHost
<1>9. FirstWaits'
  BY <1>1, <1>2, <1>3, <1>4, <1>5, EndpointType DEF FirstWaits, EndpointOf
<1>10. HttpProgress' /\ Proxied' /\ TunnelOrProxy'
  BY <1>1, <1>3, <1>4, <1>5 DEF HttpProgress, Proxied, TunnelOrProxy
<1> QED BY <1>1, <1>2, <1>6, <1>7, <1>8, <1>9, <1>10 DEF HttpInv, DropsOnlyEarly

(***************************************************************************)
(* A later request on a proxy connection, that is forwarded or refused.    *)
(***************************************************************************)
LEMMA LaterInv == ASSUME HttpInv, ForwardNext \/ NotReady \/ RefuseNext PROVE HttpInv'
<1>1. /\ HandleRequest /\ state = "connected"
      /\ UNCHANGED <<sent, socket, client_closed, dropped, tunnelled, state, target>>
  BY DEF ForwardNext, NotReady, RefuseNext, HandleRequest, NextRequest, proxy
<1>2. /\ Buffers(HttpItem)' /\ tunnelled' = <<>> /\ stage # "tunnel" /\ request \in HttpItem
      /\ request.n = Len(served) + 1
      /\ served' \in Seq(HttpItem) /\ NothingLost'
      /\ Len(served') = Len(served) + 1 /\ served'[Len(served')] = request
      /\ \A i \in DOMAIN served : i \in DOMAIN served' /\ served'[i] = served[i]
      /\ \A i \in DOMAIN served' : i \in DOMAIN served \/ i = Len(served')
  BY <1>1, HandleRequestKeeps DEF Buffers
<1>3. /\ stage = "serving" /\ in_handler = "nothing"
      /\ forwarded # <<>> /\ served # <<>> /\ served[1].method = "GET"
  BY <1>1 DEF HttpInv, HttpProgress, Proxied, HandleRequest, NextRequest, Serving
<1>4. served' # <<>> /\ served'[1].method = "GET"
  <2>1. 1 \in DOMAIN served /\ served \in Seq(HttpItem)
    BY <1>3, HttpTypes DEF HttpInv
  <2> QED BY <1>2, <1>3, <2>1
<1>5. \/ /\ MayFollow(request) /\ forwarded' = Append(forwarded, request)
         /\ in_handler' = "response" /\ stage' = stage
      \/ stage' = "failed" /\ UNCHANGED <<in_handler, forwarded>>
  BY DEF ForwardNext, NotReady, RefuseNext, proxy
<1>6. forwarded \in Seq(HttpItem) /\ forwarded' \in Seq(HttpItem) /\ served \in Seq(HttpItem)
  <2>1. forwarded \in Seq(HttpItem) /\ served \in Seq(HttpItem)
    BY HttpTypes DEF HttpInv
  <2>2. Append(forwarded, request) \in Seq(HttpItem)
    BY <1>2, <2>1, AppendProperties
  <2> QED BY <1>5, <2>1, <2>2, Zenon
<1>7. \A i \in DOMAIN forwarded' :
        \/ i \in DOMAIN forwarded /\ forwarded'[i] = forwarded[i]
        \/ /\ i = Len(forwarded) + 1 /\ forwarded'[i] = request
           /\ request.method = "GET" /\ EndpointOf(request) = target
  <2>1. CASE forwarded' = forwarded
    BY <2>1
  <2>2. CASE MayFollow(request) /\ forwarded' = Append(forwarded, request)
    <3>1. request.method = "GET" /\ EndpointOf(request) = target
      BY <2>2 DEF MayFollow
    <3>2. \A i \in DOMAIN Append(forwarded, request) :
            \/ i \in DOMAIN forwarded /\ Append(forwarded, request)[i] = forwarded[i]
            \/ i = Len(forwarded) + 1 /\ Append(forwarded, request)[i] = request
      BY <1>2, <1>6
    <3> QED BY <2>2, <3>1, <3>2
  <2> QED BY <1>5, <2>1, <2>2
<1>8. HttpTypeOK'
  BY ZenonT(30), <1>1, <1>2, <1>5, <1>6, HttpTypes DEF HttpInv, HttpTypeOK, Buffers, Stage
<1>9. BeforeTunnel'
  BY ZenonT(30), <1>1, <1>2 DEF HttpInv, BeforeTunnel
<1>10. Numbered'
  <2>1. \A i \in DOMAIN forwarded' : forwarded'[i].n <= Len(served')
    <3>1. \A i \in DOMAIN forwarded : forwarded[i].n <= Len(served) /\ forwarded[i].n \in Int
      BY ForwardedNumber
    <3>2. Len(served) \in Nat
      BY <1>6
    <3>3. Len(served') = Len(served) + 1 /\ request.n = Len(served) + 1
      BY <1>2
    <3> SUFFICES ASSUME NEW i \in DOMAIN forwarded' PROVE forwarded'[i].n <= Len(served')
      OBVIOUS
    <3>4. CASE i \in DOMAIN forwarded /\ forwarded'[i] = forwarded[i]
      BY <3>1, <3>2, <3>3, <3>4
    <3>5. CASE forwarded'[i] = request
      BY <3>2, <3>3, <3>5
    <3> QED BY <1>7, <3>4, <3>5, Zenon
  <2> QED BY <1>1, <2>1 DEF HttpInv, Numbered
<1>11. ForwardedToItsHost'
  <2>1. \A i \in DOMAIN forwarded' : EndpointOf(forwarded'[i]) = target'
    BY <1>1, <1>7 DEF HttpInv, ForwardedToItsHost
  <2>2. ASSUME NEW i \in DOMAIN forwarded', NEW j \in DOMAIN forwarded', i < j
        PROVE  forwarded'[i].n < forwarded'[j].n
    <3>1. i \in DOMAIN forwarded /\ forwarded'[i] = forwarded[i]
      BY <2>2, <1>6, <1>7
    <3>2. CASE j \in DOMAIN forwarded /\ forwarded'[j] = forwarded[j]
      BY <2>2, <3>1, <3>2 DEF HttpInv, ForwardedToItsHost
    <3>3. CASE forwarded'[j] = request
      <4>1. forwarded[i].n <= Len(served) /\ forwarded[i].n \in Int
        BY <3>1, ForwardedNumber, Zenon
      <4>2. Len(served) \in Nat /\ request.n = Len(served) + 1
        BY <1>2, <1>6
      <4> QED BY <3>1, <3>3, <4>1, <4>2
    <3> QED BY <1>7, <3>2, <3>3
  <2> QED BY <2>1, <2>2 DEF ForwardedToItsHost
<1>12. TunnelOrProxy'
  <2>1. \A i \in DOMAIN forwarded' : forwarded'[i].method = "GET"
    BY <1>3, <1>7 DEF HttpInv, TunnelOrProxy
  <2>2. stage' # "tunnel"
    BY <1>2, <1>5
  <2> QED BY <1>4, <2>1, <2>2 DEF TunnelOrProxy
<1>13. forwarded' # <<>>
  BY <1>3, <1>5, <1>6
<1>14. HttpProgress' /\ FirstWaits' /\ Proxied'
  BY ZenonT(30), <1>1, <1>3, <1>4, <1>5, <1>13 DEF HttpProgress, FirstWaits, Proxied
<1> QED BY <1>1, <1>2, <1>8, <1>9, <1>10, <1>11, <1>12, <1>14 DEF HttpInv, DropsOnlyEarly

(***************************************************************************)
(* CONNECT is answered: what is in the buffer, and is dropped, was sent    *)
(* behind it.                                                              *)
(***************************************************************************)
LEMMA AnswerInv == ASSUME HttpInv, AnswerConnect PROVE HttpInv'
<1>1. /\ stage = "serving" /\ in_handler = "done" /\ first.method = "CONNECT"
      /\ in_handler' = "nothing" /\ stage' = "tunnel" /\ read_buf' = <<>> /\ dropped' = read_buf
      /\ UNCHANGED <<sent, socket, client_closed, served, state, target, forwarded, tunnelled>>
  BY DEF AnswerConnect, proxy
<1>2. /\ Len(served) = 1 /\ served[1].method = "CONNECT" /\ forwarded = <<>> /\ state = "taken"
      /\ dropped = <<>> /\ tunnelled = <<>>
  BY <1>1, Zenon DEF HttpInv, FirstWaits, BeforeTunnel, first
<1>3. /\ sent \in Seq(HttpItem) /\ served \in Seq(HttpItem) /\ read_buf \in Seq(HttpItem)
      /\ socket \in Seq(HttpItem) /\ sent = Row(served, Behind, read_buf, socket)
  BY HttpBuffers, RowParts
<1>4. <<>> \in Seq(HttpItem) /\ Behind = <<>> /\ Behind' = Cat(<<>>, read_buf)
  <2>1. <<>> \in Seq(HttpItem)
    OBVIOUS
  <2>2. Cat(<<>>, <<>>) = <<>> /\ Cat(read_buf, <<>>) = read_buf
    BY <1>3, <2>1, CatEmpty
  <2>3. Cat(<<>>, read_buf) = read_buf
    BY <1>3, ConcatEmptySeq DEF Cat
  <2> QED BY <1>1, <1>2, <2>1, <2>2, <2>3, Zenon DEF Behind
<1>5. NothingLost'
  <2>1. PICK e \in Seq(HttpItem) : e = <<>>
    BY <1>4, Zenon
  <2>2. Row(served, Cat(e, read_buf), e, socket) = Row(served, e, Cat(read_buf, e), socket)
    BY <1>3, RowMovesToTunnel
  <2>3. Cat(read_buf, <<>>) = read_buf
    BY <1>3, CatEmpty
  <2> QED BY <1>1, <1>3, <1>4, <2>1, <2>2, <2>3, LosslessNext, Zenon
<1>6. DropsOnlyEarly'
  <2> SUFFICES ASSUME NEW i \in DOMAIN read_buf PROVE read_buf[i].early
    BY <1>1 DEF DropsOnlyEarly
  <2>1. /\ Len(sent) = Len(served) + Len(Behind) + Len(read_buf) + Len(socket)
        /\ \A k \in 1 .. Len(served) : sent[k] = served[k]
    BY HttpBuffers, ServedIsSent
  <2>2. /\ i \in 1 .. Len(read_buf) /\ Len(read_buf) \in Nat /\ Len(socket) \in Nat
        /\ Len(Behind) = 0
    BY <1>3, <1>4
  <2>3. 1 \in DOMAIN sent /\ 1 + i \in DOMAIN sent /\ 1 < 1 + i /\ sent[1] = served[1]
    <3>1. Len(sent) = 1 + Len(read_buf) + Len(socket) /\ sent[1] = served[1]
      BY <1>2, <2>1, <2>2
    <3>2. DOMAIN sent = 1 .. Len(sent)
      BY <1>3
    <3> QED BY <2>2, <3>1, <3>2
  <2>4. Row(served, <<>>, read_buf, socket)[Len(served) + i] = read_buf[i]
    <3>1. served \in Seq(HttpItem) /\ read_buf \in Seq(HttpItem) /\ socket \in Seq(HttpItem)
      BY <1>3, Zenon
    <3>2. i \in 1 .. Len(read_buf)
      BY <2>2, Zenon
    <3> QED BY <3>1, <3>2, RowBuffered, SMT, SMTT(30)
  <2>5. sent[1 + i] = read_buf[i]
    BY <1>2, <1>3, <1>4, <2>4, Zenon
  <2> QED BY <1>1, <1>2, <2>3, <2>5 DEF HttpInv, BeforeTunnel
<1>7. HttpTypeOK'
  BY <1>1, <1>3, <1>4, HttpTypes, ZenonT(30) DEF HttpInv, HttpTypeOK, Stage
<1>8. HttpProgress' /\ FirstWaits' /\ Proxied' /\ BeforeTunnel' /\ TunnelOrProxy'
  BY <1>1, <1>2 DEF HttpProgress, FirstWaits, Proxied, BeforeTunnel, TunnelOrProxy
<1> QED BY <1>1, <1>5, <1>6, <1>7, <1>8 DEF HttpInv, Numbered, ForwardedToItsHost

(***************************************************************************)
(* The first request of a proxy connection is forwarded, or cannot be.     *)
(***************************************************************************)
LEMMA ForwardFirstInv == ASSUME HttpInv, ForwardFirst PROVE HttpInv'
<1>1. /\ stage = "serving" /\ in_handler = "done" /\ first.method # "CONNECT"
      /\ UNCHANGED <<sent, socket, client_closed, read_buf, served, target, dropped, tunnelled>>
      /\ \/ /\ forwarded' = Append(forwarded, first) /\ state' = "connected"
            /\ in_handler' = "response" /\ stage' = stage
         \/ stage' = "failed" /\ UNCHANGED <<forwarded, state, in_handler>>
  BY DEF ForwardFirst, connection
<1>2. /\ Len(served) = 1 /\ first = served[1] /\ forwarded = <<>>
      /\ state = "taken" /\ target = EndpointOf(first) /\ served \in Seq(HttpItem)
  BY <1>1, HttpTypes, Zenon DEF HttpInv, FirstWaits, first
<1>3. /\ first \in HttpItem /\ 1 \in DOMAIN served /\ served # <<>>
  BY <1>2
<1>4. first.n = 1 /\ first.method # "bytes"
  <2>1. Behind \in Seq(HttpItem) /\ read_buf \in Seq(HttpItem) /\ socket \in Seq(HttpItem)
    BY HttpBuffers, RowParts
  <2>2. /\ Len(sent) = Len(served) + Len(Behind) + Len(read_buf) + Len(socket)
        /\ \A i \in 1 .. Len(served) : sent[i] = served[i]
    BY HttpBuffers, ServedIsSent
  <2>3. 1 \in DOMAIN sent /\ sent # <<>>
    BY <1>2, <2>1, <2>2, HttpTypes DEF HttpInv
  <2> QED BY <1>2, <2>2, <2>3 DEF HttpInv, Numbered
<1>5. first.method = "GET"
  BY <1>1, <1>3, <1>4 DEF HttpItem
<1>6. forwarded' \in Seq(HttpItem) /\ \A i \in DOMAIN forwarded' : i = 1 /\ forwarded'[i] = first
  <2>1. CASE forwarded' = Append(forwarded, first)
    BY <1>2, <1>3, <2>1
  <2>2. CASE forwarded' = <<>>
    BY SMT, SMTT(30), <2>2
  <2> QED BY <1>1, <1>2, <2>1, <2>2
<1>7. HttpTypeOK' /\ NothingLost'
  BY <1>1, <1>6, HttpTypes DEF HttpInv, HttpTypeOK, NothingLost, Stage
<1>8. Numbered' /\ ForwardedToItsHost'
  <2>1. \A i \in DOMAIN forwarded' : forwarded'[i].n <= Len(served')
    BY <1>1, <1>2, <1>4, <1>6
  <2>2. \A i \in DOMAIN forwarded' : EndpointOf(forwarded'[i]) = target'
    BY <1>1, <1>2, <1>6, ZenonT(30)
  <2>3. \A i, j \in DOMAIN forwarded' : ~(i < j)
    BY <1>6
  <2> QED BY <1>1, <2>1, <2>2, <2>3, ZenonT(30) DEF HttpInv, Numbered, ForwardedToItsHost
<1>9. state' = "connected" => forwarded' # <<>>
  BY SMT, SMTT(30), <1>1, <1>2, <1>3
<1>10. HttpProgress' /\ FirstWaits' /\ Proxied' /\ BeforeTunnel'
  BY ZenonT(30), <1>1, <1>2, <1>3, <1>5, <1>9 DEF HttpInv, HttpProgress, FirstWaits, Proxied, BeforeTunnel
<1>11. TunnelOrProxy'
  BY <1>1, <1>2, <1>5, <1>6 DEF TunnelOrProxy
<1> QED BY <1>1, <1>7, <1>8, <1>10, <1>11 DEF HttpInv, DropsOnlyEarly

(***************************************************************************)
(* Steps that change only how far the connection is.                       *)
(***************************************************************************)
LEMMA HttpStageInv ==
    ASSUME HttpInv, UNCHANGED proxy,
           \/ ClientCloses \/ RemoteConnects \/ RemoteFails \/ RemoteResponds \/ RemoteCloses
           \/ ClientGone \/ ConnectionEnds
    PROVE  HttpInv'
<1> USE DEF ClientCloses, RemoteConnects, RemoteFails, RemoteResponds, RemoteCloses, ClientGone,
            ConnectionEnds, ServiceEnds, Fails, Serving, connection
<1>1. UNCHANGED <<sent, socket, read_buf, served, state, target, forwarded, dropped, tunnelled>>
  BY DEF proxy
<1>2. HttpTypeOK'
  BY <1>1, HttpTypes, Zenon DEF HttpInv, HttpTypeOK, Stage
<1>3. HttpProgress' /\ FirstWaits' /\ (stage' = "tunnel" <=> stage = "tunnel")
  BY ZenonT(30), <1>1 DEF HttpInv, HttpProgress, FirstWaits
<1> QED BY <1>1, <1>2, <1>3, Zenon
        DEF HttpInv, Proxied, BeforeTunnel, Numbered, NothingLost, ForwardedToItsHost,
            TunnelOrProxy, DropsOnlyEarly

(***************************************************************************)
(* The tunnel reads from the socket; the buffer is empty.                  *)
(***************************************************************************)
LEMMA TunnelReadsInv == ASSUME HttpInv, TunnelReads, UNCHANGED proxy PROVE HttpInv'
<1>1. /\ stage = "tunnel" /\ socket # <<>>
      /\ tunnelled' = Append(tunnelled, Head(socket)) /\ socket' = Tail(socket)
      /\ UNCHANGED <<sent, client_closed, read_buf, served, in_handler, state, target, stage,
                     forwarded, dropped>>
  BY DEF TunnelReads, proxy
<1>2. /\ served \in Seq(HttpItem) /\ Behind \in Seq(HttpItem) /\ read_buf = <<>>
      /\ socket \in Seq(HttpItem) /\ sent = Row(served, Behind, read_buf, socket)
  BY <1>1, HttpBuffers, RowParts DEF HttpInv, HttpProgress
<1>3. Head(socket) \in HttpItem /\ Tail(socket) \in Seq(HttpItem)
  BY <1>1, <1>2
<1>4. HttpTypeOK'
  <2>1. Append(tunnelled, Head(socket)) \in Seq(HttpItem)
    BY <1>3, HttpTypes, AppendProperties DEF HttpInv
  <2> QED BY <1>1, <1>3, <2>1, HttpTypes, ZenonT(30) DEF HttpInv, HttpTypeOK
<1>5. Row(served, Append(Behind, Head(socket)), <<>>, Tail(socket))
        = Row(served, Behind, <<>>, socket)
  BY <1>1, <1>2, RowTunnelsHead
<1>6. Behind' = Append(Behind, Head(socket))
  <2>1. dropped \in Seq(HttpItem) /\ tunnelled \in Seq(HttpItem)
    BY HttpTypes DEF HttpInv
  <2>2. Cat(dropped, Append(tunnelled, Head(socket))) = Append(Cat(dropped, tunnelled), Head(socket))
    <3>1. PICK h \in HttpItem : h = Head(socket)
      BY <1>3, Zenon
    <3>2. Cat(dropped, Append(tunnelled, h)) = Append(Cat(dropped, tunnelled), h)
      BY <2>1, CatAppends, SMT, SMTT(30)
    <3> QED BY <3>1, <3>2, Zenon
  <2> QED BY <1>1, <2>2, Zenon DEF Behind
<1>7. NothingLost'
  BY <1>1, <1>2, <1>5, <1>6, LosslessNext
<1> QED BY <1>1, <1>4, <1>7, ZenonT(30)
        DEF HttpInv, HttpProgress, FirstWaits, Proxied, BeforeTunnel, Numbered, ForwardedToItsHost,
            TunnelOrProxy, DropsOnlyEarly

(***************************************************************************)
(* Every step keeps the invariant.                                         *)
(***************************************************************************)
LEMMA HttpNextInv == HttpInv /\ [HttpNext]_http_vars => HttpInv'
<1> SUFFICES ASSUME HttpInv, [HttpNext]_http_vars PROVE HttpInv'
  OBVIOUS
<1>1. ASSUME UNCHANGED http_vars PROVE HttpInv'
  BY <1>1, Zenon
     DEF http_vars, connection, proxy, HttpInv, HttpTypeOK, HttpProgress, FirstWaits, Proxied,
              BeforeTunnel, Numbered, NothingLost, ForwardedToItsHost, TunnelOrProxy,
              DropsOnlyEarly
<1> QED BY <1>1, HttpSendsInv, HttpReadAheadInv, FirstInv, LaterInv, AnswerInv, ForwardFirstInv,
           HttpStageInv, TunnelReadsInv
        DEF HttpNext, handler, Around

(***************************************************************************)
(* The invariant, for every client and every target.                       *)
(***************************************************************************)
THEOREM HttpInvAlways == HttpSpec => []HttpInv
<1> QED BY HttpInitInv, HttpNextInv, PTL DEF HttpSpec

(***************************************************************************)
(* SignalNeverMissing: the unreachable!() of handler is never reached.     *)
(***************************************************************************)
THEOREM SignalThere == HttpSpec => []SignalNeverMissing
<1>1. HttpInv => SignalNeverMissing
  BY DEF HttpInv, HttpProgress, SignalNeverMissing, Serving
<1> QED BY <1>1, HttpInvAlways, PTL

(***************************************************************************)
(* NothingLost and DropsOnlyEarly: all that the client sends reaches       *)
(* handler or the tunnel, in order, but for what it sends behind a CONNECT *)
(* before that is answered, and hyper has read by then.                    *)
(***************************************************************************)
THEOREM LosesOnlyEarly == HttpSpec => [](NothingLost /\ DropsOnlyEarly)
<1>1. HttpInv => NothingLost /\ DropsOnlyEarly
  BY DEF HttpInv
<1> QED BY <1>1, HttpInvAlways, PTL

(***************************************************************************)
(* ForwardedToItsHost: what is forwarded is for the target, and in order.  *)
(***************************************************************************)
THEOREM ToItsHost == HttpSpec => []ForwardedToItsHost
<1>1. HttpInv => ForwardedToItsHost
  BY DEF HttpInv
<1> QED BY <1>1, HttpInvAlways, PTL

(***************************************************************************)
(* TunnelOrProxy: CONNECT and forwarded requests exclude each other.       *)
(***************************************************************************)
THEOREM TunnelXorProxy == HttpSpec => []TunnelOrProxy
<1>1. HttpInv => TunnelOrProxy
  BY DEF HttpInv
<1> QED BY <1>1, HttpInvAlways, PTL

(***************************************************************************)
(* HttpImplementsAcceptor: SendEndpoint is the step Accept, done_tx the    *)
(* step Connect, and the answer to CONNECT or to the first forwarded       *)
(* request the step Answer; every error is the step End.                   *)
(***************************************************************************)
THEOREM AcceptorImplemented == HttpSpec => HttpImplementsAcceptor
<1> USE DEF HttpHandshake!Next, HttpHandshake!vars, HttpHandshake!Accept, HttpHandshake!Connect,
            HttpHandshake!Answer, HttpHandshake!End, HttpPhase
<1>1. HttpInit => HttpHandshake!Init
  BY DEF HttpInit, ConnectionInit, HttpHandshake!Init, HttpPhase
<1>2. HttpInv /\ [HttpNext]_http_vars => [HttpHandshake!Next]_(HttpHandshake!vars)
  <2> SUFFICES ASSUME HttpInv, [HttpNext]_http_vars PROVE [HttpHandshake!Next]_(HttpHandshake!vars)
    OBVIOUS
  <2>1. stage \in {"handshaking", "connecting", "serving", "tunnel", "failed"}
    BY DEF HttpInv, HttpTypeOK, Stage
  <2>2. ASSUME UNCHANGED <<stage, target, in_handler, forwarded>> PROVE UNCHANGED HttpHandshake!vars
    BY <2>2 DEF FirstAnswered
  <2>3. ASSUME \/ \E method \in {"CONNECT", "GET", "bytes"}, uri \in Uri : ClientSends(method, uri)
               \/ (ClientCloses \/ ReadAhead \/ TunnelReads) /\ UNCHANGED proxy
               \/ UNCHANGED http_vars
        PROVE  UNCHANGED <<stage, target, in_handler, forwarded>>
    BY <2>3, Zenon DEF ClientSends, Sends, ClientCloses, ReadAhead, TunnelReads, http_vars,
                       connection, proxy
  <2>4. ASSUME SendEndpoint PROVE HttpHandshake!Next
    <3>1. /\ stage' = "connecting" /\ target' = EndpointOf(request)
          /\ HandleRequest /\ state = "not_connected" /\ request.uri.host # NoHost
      BY <2>4 DEF SendEndpoint
    <3>2. stage = "handshaking"
      BY <3>1 DEF HttpInv, HttpProgress, HandleRequest, NextRequest, Serving
    <3>3. target' # NoEndpoint
      BY <3>1, HandleRequestKeeps, EndpointType
    <3> QED BY <3>1, <3>2, <3>3
  <2>5. ASSUME stage' = "failed", target' = target PROVE HttpHandshake!Next
    BY <2>5
  <2>6. ASSUME \/ NoEndpointGiven \/ NotReady \/ RefuseNext
               \/ /\ RemoteFails \/ RemoteCloses \/ ClientGone \/ ConnectionEnds
                  /\ UNCHANGED proxy
        PROVE  stage' = "failed" /\ target' = target
    BY <2>6 DEF NoEndpointGiven, NotReady, RefuseNext, RemoteFails, RemoteCloses, ClientGone,
                ConnectionEnds, Fails, proxy
  <2>7. ASSUME ForwardNext PROVE UNCHANGED HttpHandshake!vars
    <3>1. /\ HandleRequest /\ state = "connected" /\ forwarded' = Append(forwarded, request)
          /\ UNCHANGED <<target, stage>>
      BY <2>7 DEF ForwardNext
    <3>2. stage = "serving" /\ in_handler = "nothing" /\ forwarded # <<>>
      BY <3>1 DEF HttpInv, HttpProgress, Proxied, HandleRequest, NextRequest, Serving
    <3>3. Len(forwarded') > 1
      BY <3>1, <3>2, HttpTypes, HandleRequestKeeps DEF HttpInv
    <3> QED BY <3>1, <3>2, <3>3 DEF FirstAnswered
  <2>8. ASSUME RemoteConnects, UNCHANGED proxy PROVE HttpHandshake!Next
    <3>1. /\ stage = "connecting" /\ stage' = "serving"
          /\ UNCHANGED <<target, in_handler, forwarded>>
      BY <2>8 DEF RemoteConnects, proxy
    <3>2. in_handler = "done" /\ forwarded = <<>>
      BY <3>1 DEF HttpInv, HttpProgress, FirstWaits
    <3>3. ~FirstAnswered'
      BY <3>1, <3>2 DEF FirstAnswered
    <3> QED BY <3>1, <3>3
  <2>9. ASSUME AnswerConnect PROVE HttpHandshake!Next
    <3>1. /\ stage = "serving" /\ in_handler = "done" /\ stage' = "tunnel" /\ target' = target
      BY <2>9 DEF AnswerConnect, proxy
    <3>2. forwarded = <<>>
      BY <3>1 DEF HttpInv, FirstWaits
    <3>3. ~FirstAnswered /\ FirstAnswered'
      BY <3>1, <3>2 DEF FirstAnswered
    <3> QED BY <3>1, <3>3
  <2>10. ASSUME ForwardFirst PROVE [HttpHandshake!Next]_(HttpHandshake!vars)
    <3>1. /\ stage = "serving" /\ in_handler = "done" /\ target' = target
          /\ \/ forwarded' = Append(forwarded, first) /\ in_handler' = "response" /\ stage' = stage
             \/ stage' = "failed"
      BY <2>10 DEF ForwardFirst
    <3>2. forwarded = <<>>
      BY <3>1 DEF HttpInv, FirstWaits
    <3>3. CASE stage' = "failed"
      BY <3>1, <3>3, <2>5
    <3>4. CASE forwarded' = Append(forwarded, first) /\ in_handler' = "response" /\ stage' = stage
      <4>1. Len(forwarded') = 1
        BY <3>2, <3>4
      <4>2. ~FirstAnswered /\ ~FirstAnswered'
        BY <3>1, <3>2, <3>4, <4>1 DEF FirstAnswered
      <4> QED BY <3>1, <3>4, <4>2
    <3> QED BY <3>1, <3>3, <3>4
  <2>11. ASSUME RemoteResponds, UNCHANGED proxy PROVE [HttpHandshake!Next]_(HttpHandshake!vars)
    <3>1. /\ stage = "serving" /\ in_handler = "response" /\ in_handler' = "nothing"
          /\ UNCHANGED <<target, stage, forwarded>>
      BY <2>11 DEF RemoteResponds, proxy
    <3>2. FirstAnswered'
      BY <3>1 DEF FirstAnswered
    <3> QED BY <3>1, <3>2
  <2> QED BY <2>2, <2>3, <2>4, <2>5, <2>6, <2>7, <2>8, <2>9, <2>10, <2>11
          DEF HttpNext, handler, Around
<1> QED BY <1>1, <1>2, HttpInvAlways, PTL DEF HttpSpec, HttpImplementsAcceptor, HttpHandshake!Spec

-----------------------------------------------------------------------------
(* The simplex acceptor. *)

\* Where the handshake is, and what has happened by then.
SimplexProgress ==
    /\ stage = "handshaking" => signal /\ in_handler = "nothing" /\ ~switched
    /\ stage = "connecting" => ~signal /\ in_handler = "done" /\ ~switched
    /\ stage = "serving" => ~signal /\ remote /\ ~switched
    /\ switched => stage = "tunnel" /\ ~signal

\* Once the engine has connected, hyper takes another request only after the
\* upgrade before it was refused.
AfterUpgrade ==
    stage = "serving" /\ in_handler = "nothing" =>
      \E i \in DOMAIN served : served[i].kind = "keyless"

\* The inductive invariant.
SimplexInv ==
    /\ SimplexTypeOK
    /\ SimplexProgress
    /\ AfterUpgrade
    /\ in_handler = "done" => served # <<>> /\ IsUpgrade(served[Len(served)])
    /\ stage # "tunnel" => tunnelled = <<>>
    /\ NothingLost
    /\ SwitchedOnlyWhenConnected
    /\ PanicsOnlyAfterKeyless

-----------------------------------------------------------------------------
\* What SimplexTypeOK says of each sequence.
LEMMA SimplexTypes ==
    ASSUME SimplexTypeOK
    PROVE  /\ sent \in Seq(SimplexItem) /\ socket \in Seq(SimplexItem)
           /\ read_buf \in Seq(SimplexItem) /\ served \in Seq(SimplexItem)
           /\ tunnelled \in Seq(SimplexItem) /\ dropped \in Seq(SimplexItem)
BY DEF SimplexTypeOK

\* What the invariant says of them.
LEMMA SimplexBuffers == ASSUME SimplexInv PROVE Buffers(SimplexItem)
BY SimplexTypes DEF SimplexInv, Buffers

\* The invariant holds when the connection is accepted.
LEMMA SimplexInitInv == SimplexInit => SimplexInv
<1> SUFFICES ASSUME SimplexInit PROVE SimplexInv
  OBVIOUS
<1>1. <<>> \in Seq(SimplexItem) /\ DOMAIN <<>> = {} /\ <<>> \o <<>> = <<>>
  OBVIOUS
<1>2. SimplexTypeOK
  BY <1>1, Zenon DEF SimplexInit, ConnectionInit, SimplexTypeOK, Stage
<1>3. NothingLost
  BY <1>1 DEF SimplexInit, ConnectionInit, NothingLost
<1> QED BY <1>2, <1>3
        DEF SimplexInit, ConnectionInit, SimplexInv, SimplexProgress, AfterUpgrade,
            SwitchedOnlyWhenConnected, PanicsOnlyAfterKeyless

\* What the invariant says of the handshake and its answer.
AnswerState ==
    /\ SimplexProgress
    /\ AfterUpgrade
    /\ in_handler = "done" => served # <<>> /\ IsUpgrade(served[Len(served)])
    /\ SwitchedOnlyWhenConnected
    /\ PanicsOnlyAfterKeyless

\* A step that serves nothing and leaves the stage and the answer alone.
LEMMA AnswerStateKeeps ==
    ASSUME AnswerState, UNCHANGED <<served, in_handler, signal, stage, remote, switched>>
    PROVE  AnswerState'
<1>1. SimplexProgress'
  BY DEF AnswerState, SimplexProgress
<1>2. AfterUpgrade'
  BY DEF AnswerState, AfterUpgrade
<1>3. in_handler' = "done" => served' # <<>> /\ IsUpgrade(served'[Len(served')])
  BY DEF AnswerState
<1>4. SwitchedOnlyWhenConnected'
  BY DEF AnswerState, SwitchedOnlyWhenConnected
<1>5. PanicsOnlyAfterKeyless'
  BY DEF AnswerState, PanicsOnlyAfterKeyless
<1> QED BY <1>1, <1>2, <1>3, <1>4, <1>5, Zenon DEF AnswerState

(***************************************************************************)
(* The client sends: its item is the last of sent and of socket.           *)
(***************************************************************************)
LEMMA SimplexSendsInv ==
    ASSUME SimplexInv, NEW kind \in Kind, ClientSendsKind(kind)
    PROVE  SimplexInv'
<1> DEFINE item == [kind |-> kind, n |-> Len(sent) + 1]
<1>1. /\ Sends(item)
      /\ UNCHANGED <<client_closed, read_buf, served, in_handler, signal, stage, remote,
                     switched, dropped, tunnelled>>
  BY DEF ClientSendsKind, Sends
<1>2. item \in SimplexItem
  BY SimplexTypes, MaxItemsAssumption DEF SimplexInv, ClientSendsKind, Sends, SimplexItem
<1> HIDE DEF item
<1>3. Buffers(SimplexItem)'
  BY <1>1, <1>2, SimplexBuffers, SendsKeeps
<1>4. SimplexTypeOK' /\ NothingLost'
  BY <1>1, <1>3, ZenonT(30) DEF SimplexInv, SimplexTypeOK, Buffers
<1>5. AnswerState'
  BY <1>1, AnswerStateKeeps DEF SimplexInv, AnswerState
<1> QED BY <1>1, <1>4, <1>5 DEF SimplexInv, AnswerState

(***************************************************************************)
(* hyper reads ahead: an item moves from the socket to its buffer.         *)
(***************************************************************************)
LEMMA SimplexReadAheadInv ==
    ASSUME SimplexInv, ReadAhead, UNCHANGED <<signal, remote, switched>>
    PROVE  SimplexInv'
<1>1. UNCHANGED <<sent, client_closed, served, in_handler, signal, stage, remote, switched,
                  dropped, tunnelled>>
  BY DEF ReadAhead
<1>2. Buffers(SimplexItem)'
  BY SimplexBuffers, ReadAheadKeeps
<1>3. SimplexTypeOK' /\ NothingLost'
  BY <1>1, <1>2 DEF SimplexInv, SimplexTypeOK, Buffers
<1>4. AnswerState'
  BY <1>1, AnswerStateKeeps DEF SimplexInv, AnswerState
<1> QED BY <1>1, <1>3, <1>4 DEF SimplexInv, AnswerState

\* hyper calls the handler for a request, or gives up on bytes that are none.
LEMMA RequestInv ==
    ASSUME SimplexInv, Reject \/ TakeSignal \/ SignalTaken \/ NotARequest
    PROVE  SimplexInv'
<1>1. PICK req \in SimplexItem :
        /\ NextRequest(req) /\ UNCHANGED <<remote, switched>>
        /\ \/ req.kind = "rejected" /\ UNCHANGED <<in_handler, signal, stage>>
           \/ /\ IsUpgrade(req) /\ signal
              /\ signal' = FALSE /\ in_handler' = "done" /\ stage' = "connecting"
           \/ /\ IsUpgrade(req) /\ ~signal
              /\ stage' = "panicked" /\ UNCHANGED <<in_handler, signal>>
           \/ req.kind = "byte" /\ stage' = "failed" /\ UNCHANGED <<in_handler, signal>>
  BY Zenon DEF Reject, TakeSignal, SignalTaken, NotARequest
<1>2. /\ in_handler = "nothing" /\ stage \in {"handshaking", "serving"} /\ tunnelled = <<>>
      /\ dropped = <<>> /\ UNCHANGED <<client_closed, remote, switched, dropped, tunnelled>>
  BY <1>1, ZenonT(30) DEF NextRequest, Serving, SimplexInv, SimplexTypeOK
<1>3. /\ Buffers(SimplexItem)' /\ NothingLost' /\ served' \in Seq(SimplexItem)
      /\ Len(served') = Len(served) + 1 /\ served'[Len(served')] = req
      /\ \A i \in DOMAIN served : i \in DOMAIN served' /\ served'[i] = served[i]
      /\ \A i \in DOMAIN served' : i \in DOMAIN served \/ i = Len(served')
  BY <1>1, <1>2, SimplexBuffers, NextRequestKeeps, Zenon DEF Buffers
<1>4. served \in Seq(SimplexItem)
  BY SimplexTypes DEF SimplexInv
<1>5. ~switched /\ (stage = "handshaking" => signal) /\ (stage = "serving" => ~signal /\ remote)
  BY <1>2 DEF SimplexInv, SimplexProgress
<1>6. SimplexTypeOK'
  <2>1. stage' # "failed" => req.kind # "byte"
    BY <1>1 DEF IsUpgrade
  <2>2. stage' # "failed" => \A i \in DOMAIN served' : served'[i].kind # "byte"
    BY <1>2, <1>3, <2>1, Zenon DEF SimplexInv, SimplexTypeOK
  <2> QED BY <1>1, <1>2, <1>3, <2>2, ZenonT(30) DEF SimplexInv, SimplexTypeOK, Buffers, Stage
<1>7. SimplexProgress'
  <2>1. CASE UNCHANGED <<in_handler, signal, stage>>
    BY <1>2, <2>1 DEF SimplexInv, SimplexProgress
  <2>2. CASE stage' = "connecting" /\ signal' = FALSE /\ in_handler' = "done"
    BY <1>2, <1>5, <2>2 DEF SimplexProgress
  <2>3. CASE stage' \in {"panicked", "failed"}
    BY ZenonT(30), <1>2, <1>5, <2>3 DEF SimplexProgress
  <2> QED BY <1>1, <2>1, <2>2, <2>3, Zenon
<1>8. stage = "serving" => \E i \in DOMAIN served : served[i].kind = "keyless"
  BY <1>2, ZenonT(30) DEF SimplexInv, AfterUpgrade
<1>9. AfterUpgrade'
  BY <1>1, <1>2, <1>3, <1>8, Zenon DEF AfterUpgrade
<1>10. in_handler' = "done" => served' # <<>> /\ IsUpgrade(served'[Len(served')])
  <2>1. served' # <<>>
    BY <1>3, <1>4
  <2>2. in_handler' = "done" => IsUpgrade(req)
    BY <1>1, <1>2
  <2> QED BY <1>3, <2>1, <2>2
<1>11. SwitchedOnlyWhenConnected'
  BY <1>2, <1>5 DEF SwitchedOnlyWhenConnected
<1>12. PanicsOnlyAfterKeyless'
  <2> SUFFICES ASSUME stage' = "panicked"
               PROVE  /\ remote' /\ ~switched'
                      /\ \E i \in DOMAIN served' : i < Len(served') /\ served'[i].kind = "keyless"
    BY DEF PanicsOnlyAfterKeyless
  <2>1. stage = "serving"
    BY <1>1, <1>2, <1>5
  <2>2. PICK i \in DOMAIN served : served[i].kind = "keyless"
    BY ZenonT(30), <2>1, <1>8
  <2>3. i \in DOMAIN served' /\ i < Len(served') /\ served'[i].kind = "keyless"
    <3>1. i \in DOMAIN served' /\ served'[i] = served[i]
      BY <2>2, <1>3, Zenon
    <3>2. i \in Nat /\ i <= Len(served) /\ Len(served) \in Nat
      BY <2>2, <1>4
    <3>3. Len(served') = Len(served) + 1
      BY <1>3, Zenon
    <3> QED BY <2>2, <3>1, <3>2, <3>3
  <2> QED BY <2>1, <2>3, <1>2, <1>5
<1> QED BY <1>2, <1>3, <1>6, <1>7, <1>9, <1>10, <1>11, <1>12 DEF SimplexInv

(***************************************************************************)
(* The engine, the answer to the upgrade and the end of the connection     *)
(* leave the row alone.                                                    *)
(***************************************************************************)
LEMMA SimplexStageInv ==
    ASSUME SimplexInv,
           \/ Done \/ Upgrade
           \/ /\ ClientCloses \/ RemoteFails \/ ClientGone \/ ConnFutEnds
              /\ UNCHANGED <<signal, remote, switched>>
    PROVE  SimplexInv'
<1> USE DEF ClientCloses, Done, RemoteConnects, RemoteFails, ClientGone, Fails, ConnFutEnds,
            ServiceEnds, Serving, connection
<1>1. UNCHANGED <<sent, socket, read_buf, served, signal, dropped, tunnelled>>
  BY ZenonT(30) DEF Upgrade
<1>2. /\ client_closed' \in BOOLEAN /\ in_handler' \in {"nothing", "done"} /\ remote' \in BOOLEAN
      /\ switched' \in BOOLEAN /\ stage' \in Stage
      /\ stage' # "failed" => stage # "failed"
  BY ZenonT(30) DEF Upgrade, SimplexInv, SimplexTypeOK, Stage
<1>3. SimplexTypeOK'
  BY <1>1, <1>2, SimplexTypes, Zenon DEF SimplexInv, SimplexTypeOK
<1>4. NothingLost'
  BY ZenonT(30), <1>1 DEF SimplexInv, NothingLost
<1>5. SimplexProgress'
  <2>1. SimplexProgress
    BY Zenon DEF SimplexInv
  <2>2. CASE Done
    BY <1>1, <2>1, <2>2, SMT, SMTT(30) DEF SimplexProgress
  <2>3. CASE Upgrade
    <3>1. /\ stage = "serving" /\ ~signal /\ remote /\ ~switched
          /\ in_handler' = "nothing" /\ UNCHANGED <<signal, remote>>
      BY <1>1, <2>1, <2>3, ZenonT(30) DEF Upgrade, SimplexProgress
    <3>2. CASE switched' = TRUE /\ stage' = "tunnel"
      BY <3>1, <3>2, Zenon DEF SimplexProgress
    <3>3. CASE UNCHANGED <<switched, stage>>
      BY <3>1, <3>3, Zenon DEF SimplexProgress
    <3> QED BY <2>3, <3>2, <3>3, Zenon DEF Upgrade
  <2>4. CASE ClientCloses /\ UNCHANGED <<signal, remote, switched>>
    BY <1>1, <2>1, <2>4, SMT, SMTT(30) DEF SimplexProgress
  <2>5. CASE (RemoteFails \/ ClientGone) /\ UNCHANGED <<signal, remote, switched>>
    BY <1>1, <2>1, <2>5, ZenonT(30) DEF SimplexProgress
  <2>6. CASE ConnFutEnds /\ UNCHANGED <<signal, remote, switched>>
    BY <1>1, <2>1, <2>6, ZenonT(30) DEF SimplexProgress
  <2> HIDE DEF ClientCloses, Done, RemoteFails, ClientGone, ConnFutEnds
  <2> QED BY <2>2, <2>3, <2>4, <2>5, <2>6, Zenon
<1>6. AfterUpgrade'
  <2>1. CASE Upgrade
    <3>1. SUFFICES ASSUME stage' = "serving"
                   PROVE  \E i \in DOMAIN served : served[i].kind = "keyless"
      BY ZenonT(30), <1>1 DEF AfterUpgrade
    <3>2. served # <<>> /\ served[Len(served)].kind = "keyless"
      BY <2>1, <3>1 DEF Upgrade, SimplexInv, IsUpgrade
    <3>3. Len(served) \in DOMAIN served
      BY <3>2, SimplexBuffers, LastServed, Zenon
    <3> QED BY <3>2, <3>3, Zenon
  <2>2. CASE ~Upgrade
    BY <1>1, <2>2, Zenon DEF SimplexInv, SimplexProgress, AfterUpgrade
  <2> QED BY <2>1, <2>2
<1>7. in_handler' = "done" => in_handler = "done"
  BY ZenonT(30) DEF Upgrade
<1>8. stage' # "tunnel" => tunnelled' = <<>>
  BY ZenonT(30), <1>1 DEF Upgrade, SimplexInv
<1>9. SwitchedOnlyWhenConnected'
  BY <1>1, Zenon DEF Upgrade, SimplexInv, SimplexProgress, SwitchedOnlyWhenConnected
<1>10. PanicsOnlyAfterKeyless'
  BY <1>1 DEF Upgrade, SimplexInv, PanicsOnlyAfterKeyless
<1> QED BY ZenonT(30), <1>1, <1>3, <1>4, <1>5, <1>6, <1>7, <1>8, <1>9, <1>10 DEF SimplexInv

(***************************************************************************)
(* The websocket reads: first what hyper has left in its buffer, and from  *)
(* the socket only when that is empty.                                     *)
(***************************************************************************)
LEMMA ChainReadInv ==
    ASSUME SimplexInv, NEW n \in 1 .. MaxItems, ChainRead(n), UNCHANGED <<signal, remote, switched>>
    PROVE  SimplexInv'
<1>1. /\ UNCHANGED <<sent, client_closed, served, dropped, in_handler, signal, stage, remote, switched>>
      /\ stage = "tunnel"
  BY DEF ChainRead
<1>2. /\ served \in Seq(SimplexItem) /\ tunnelled \in Seq(SimplexItem)
      /\ read_buf \in Seq(SimplexItem) /\ socket \in Seq(SimplexItem)
      /\ sent = Row(served, tunnelled, read_buf, socket)
      /\ tunnelled' \in Seq(SimplexItem) =>
           (NothingLost' <=> sent' = Row(served', tunnelled', read_buf', socket'))
  <2>1. NothingLost /\ dropped = <<>> /\ dropped' = <<>>
    BY <1>1 DEF SimplexInv, SimplexTypeOK
  <2>2. \A x \in Seq(SimplexItem) : Cat(<<>>, x) = x
    BY ConcatEmptySeq DEF Cat
  <2>3. /\ served \in Seq(SimplexItem) /\ tunnelled \in Seq(SimplexItem)
        /\ read_buf \in Seq(SimplexItem) /\ socket \in Seq(SimplexItem)
    BY SimplexTypes DEF SimplexInv
  <2>4. Behind = tunnelled /\ (tunnelled' \in Seq(SimplexItem) => Behind' = tunnelled')
    BY <2>1, <2>2, <2>3, Zenon DEF Behind
  <2> QED BY <2>1, <2>3, <2>4, Lossless, LosslessNext, Zenon
<1>3. /\ NothingLost'
      /\ tunnelled' \in Seq(SimplexItem) /\ read_buf' \in Seq(SimplexItem)
      /\ socket' \in Seq(SimplexItem)
  <2>1. CASE read_buf # <<>>
    <3>1. /\ n \in 1 .. Len(read_buf)
          /\ tunnelled' = Cat(tunnelled, SubSeq(read_buf, 1, n))
          /\ read_buf' = SubSeq(read_buf, n + 1, Len(read_buf)) /\ socket' = socket
      BY <2>1, <1>2, MaxItemsAssumption DEF ChainRead, Cat
    <3>2. /\ SubSeq(read_buf, 1, n) \in Seq(SimplexItem)
          /\ SubSeq(read_buf, n + 1, Len(read_buf)) \in Seq(SimplexItem)
      BY <1>2, <3>1, PrefixAndRest
    <3>3. Row(served, Cat(tunnelled, SubSeq(read_buf, 1, n)),
              SubSeq(read_buf, n + 1, Len(read_buf)), socket)
            = Row(served, tunnelled, read_buf, socket)
      BY <1>2, <3>1, RowTunnelsBuffer
    <3> QED BY <1>1, <1>2, <3>1, <3>2, <3>3, CatType, Zenon
  <2>2. CASE read_buf = <<>>
    <3>1. /\ n \in 1 .. Len(socket)
          /\ tunnelled' = Cat(tunnelled, SubSeq(socket, 1, n))
          /\ socket' = SubSeq(socket, n + 1, Len(socket)) /\ read_buf' = <<>>
      BY <2>2, <1>2, MaxItemsAssumption DEF ChainRead, Cat
    <3>2. /\ SubSeq(socket, 1, n) \in Seq(SimplexItem)
          /\ SubSeq(socket, n + 1, Len(socket)) \in Seq(SimplexItem)
      BY <1>2, <3>1, PrefixAndRest
    <3>3. Row(served, Cat(tunnelled, SubSeq(socket, 1, n)), <<>>,
              SubSeq(socket, n + 1, Len(socket)))
            = Row(served, tunnelled, <<>>, socket)
      BY ZenonT(30), <1>2, <3>1, RowTunnelsSocket
    <3> QED BY <1>1, <1>2, <2>2, <3>1, <3>2, <3>3, CatType, Zenon
  <2> QED BY <2>1, <2>2
<1>4. SimplexTypeOK'
  BY <1>1, <1>3, SimplexTypes DEF SimplexInv, SimplexTypeOK
<1>5. AnswerState'
  BY <1>1, AnswerStateKeeps DEF SimplexInv, AnswerState
<1> QED BY <1>1, <1>3, <1>4, <1>5, Zenon DEF SimplexInv, AnswerState

(***************************************************************************)
(* Every step keeps the invariant.                                         *)
(***************************************************************************)
LEMMA SimplexNextInv == SimplexInv /\ [SimplexNext]_simplex_vars => SimplexInv'
<1> SUFFICES ASSUME SimplexInv, [SimplexNext]_simplex_vars PROVE SimplexInv'
  OBVIOUS
<1>1. ASSUME UNCHANGED simplex_vars PROVE SimplexInv'
  BY <1>1, Zenon
     DEF simplex_vars, connection, SimplexInv, SimplexTypeOK, SimplexProgress, AfterUpgrade,
              NothingLost, SwitchedOnlyWhenConnected, PanicsOnlyAfterKeyless
<1> QED BY <1>1, SimplexSendsInv, SimplexReadAheadInv, RequestInv, SimplexStageInv,
           ChainReadInv
        DEF SimplexNext, AroundHandler

(***************************************************************************)
(* Whatever the client sends, and however hyper reads ahead: nothing is    *)
(* lost, 101 is sent only when the target is connected, and expect() fails *)
(* only after a keyless upgrade.                                           *)
(***************************************************************************)
THEOREM SimplexInvAlways == SimplexSpec => []SimplexInv
<1> QED BY SimplexInitInv, SimplexNextInv, PTL DEF SimplexSpec

(***************************************************************************)
(* NothingLost: what the websocket reads follows the upgrade request.      *)
(***************************************************************************)
THEOREM SimplexNothingLost == SimplexSpec => []NothingLost
<1>1. SimplexInv => NothingLost
  BY DEF SimplexInv
<1> QED BY <1>1, SimplexInvAlways, PTL

(***************************************************************************)
(* PanicsOnlyAfterKeyless: the expect() of handler holds for every client  *)
(* whose first upgrade request is a valid one.                             *)
(***************************************************************************)
THEOREM PanicsAfterKeyless == SimplexSpec => []PanicsOnlyAfterKeyless
<1>1. SimplexInv => PanicsOnlyAfterKeyless
  BY DEF SimplexInv
<1> QED BY <1>1, SimplexInvAlways, PTL

(***************************************************************************)
(* SwitchedOnlyWhenConnected: 101 is the answer to a valid request, after  *)
(* the engine has connected.                                               *)
(***************************************************************************)
THEOREM SwitchedWhenConnected == SimplexSpec => []SwitchedOnlyWhenConnected
<1>1. SimplexInv => SwitchedOnlyWhenConnected
  BY DEF SimplexInv
<1> QED BY <1>1, SimplexInvAlways, PTL

(***************************************************************************)
(* SimplexImplementsAcceptor: taking the signal is the step Accept,        *)
(* done_tx the step Connect and the answer 101 the step Answer; every      *)
(* error, and a connection that ends without 101, is the step End.         *)
(***************************************************************************)
THEOREM ServerImplementsAcceptor == SimplexSpec => SimplexImplementsAcceptor
<1> USE DEF SimplexHandshake!Next, SimplexHandshake!vars, SimplexHandshake!Accept,
            SimplexHandshake!Connect, SimplexHandshake!Answer, SimplexHandshake!End,
            SimplexPhase, SimplexEndpoint
<1>1. SimplexInit => SimplexHandshake!Init
  BY DEF SimplexInit, ConnectionInit, SimplexHandshake!Init
<1>2. SimplexInv /\ [SimplexNext]_simplex_vars => [SimplexHandshake!Next]_(SimplexHandshake!vars)
  <2> SUFFICES ASSUME SimplexInv, [SimplexNext]_simplex_vars
               PROVE  [SimplexHandshake!Next]_(SimplexHandshake!vars)
    OBVIOUS
  <2>1. stage \in Stage /\ signal \in BOOLEAN /\ switched \in BOOLEAN
    BY DEF SimplexInv, SimplexTypeOK
  <2>2. ASSUME UNCHANGED <<stage, signal, switched>> PROVE UNCHANGED SimplexHandshake!vars
    BY <2>2
  <2>3. ASSUME \/ \E kind \in Kind : ClientSendsKind(kind)
               \/ Reject
               \/ /\ ClientCloses \/ ReadAhead \/ \E n \in 1 .. MaxItems : ChainRead(n)
                  /\ UNCHANGED <<signal, remote, switched>>
        PROVE  UNCHANGED <<stage, signal, switched>>
    BY <2>3, Zenon DEF ClientSendsKind, Sends, ClientCloses, ReadAhead, Reject, ChainRead
  <2>4. ASSUME TakeSignal PROVE SimplexHandshake!Next
    <3>1. stage' = "connecting" /\ signal /\ signal' = FALSE
      BY <2>4 DEF TakeSignal
    <3>2. stage = "handshaking"
      BY <2>4, <3>1 DEF TakeSignal, NextRequest, Serving, SimplexInv, SimplexProgress
    <3> QED BY <3>1, <3>2
  <2>5. ASSUME \/ SignalTaken \/ NotARequest
               \/ (RemoteFails \/ ClientGone) /\ UNCHANGED <<signal, remote, switched>>
        PROVE  SimplexHandshake!Next
    <3>1. stage' \in {"failed", "panicked"} /\ signal' = signal
      BY <2>5 DEF SignalTaken, NotARequest, RemoteFails, ClientGone, Fails
    <3> QED BY <3>1
  <2>6. ASSUME Done PROVE SimplexHandshake!Next
    <3>1. stage = "connecting" /\ stage' = "serving" /\ signal' = signal
      BY <2>6 DEF Done, RemoteConnects
    <3> QED BY <3>1
  <2>7. ASSUME Upgrade PROVE [SimplexHandshake!Next]_(SimplexHandshake!vars)
    <3>1. /\ stage = "serving" /\ signal' = signal
          /\ (stage' = "tunnel" /\ switched') \/ UNCHANGED <<stage, switched>>
      BY <2>7 DEF Upgrade
    <3> QED BY <3>1, <2>2
  <2>8. ASSUME ConnFutEnds, UNCHANGED <<signal, remote, switched>> PROVE SimplexHandshake!Next
    <3>1. ~switched /\ switched' = switched /\ signal' = signal /\ stage' \in {"failed", "tunnel"}
      BY <2>8 DEF ConnFutEnds, ServiceEnds, Serving, SimplexInv, SimplexProgress
    <3> QED BY <3>1
  <2>9. ASSUME UNCHANGED simplex_vars PROVE UNCHANGED SimplexHandshake!vars
    BY <2>9, <2>2 DEF simplex_vars
  <2> QED BY <2>2, <2>3, <2>4, <2>5, <2>6, <2>7, <2>8, <2>9
          DEF SimplexNext, AroundHandler
<1> QED BY <1>1, <1>2, SimplexInvAlways, PTL
        DEF SimplexSpec, SimplexImplementsAcceptor, SimplexHandshake!Spec

=============================================================================
