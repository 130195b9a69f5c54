------------------------- MODULE SimplexTunnelProofs -------------------------
(***************************************************************************)
(* The safety of a simplex tunnel (core/src/core/simplex/io.rs), for any   *)
(* number of bytes and any capacity of the sinks and of the transport.     *)
(***************************************************************************)
EXTENDS SimplexTunnel, SequenceTheorems, FiniteSetTheorems, TLAPS

(***************************************************************************)
(* Concatenation under a name of its own, so that the proofs need no more  *)
(* of it than these facts.                                                 *)
(***************************************************************************)
Cat(x, y) == x \o y

\* A concatenation is a sequence of the same elements.
LEMMA CatType == ASSUME NEW S, NEW x \in Seq(S), NEW y \in Seq(S) PROVE Cat(x, y) \in Seq(S)
BY ConcatProperties DEF Cat

\* The grouping does not matter.
LEMMA CatAssociative ==
    ASSUME NEW S, NEW x \in Seq(S), NEW y \in Seq(S), NEW z \in Seq(S)
    PROVE  Cat(Cat(x, y), z) = Cat(x, Cat(y, z))
BY ConcatAssociative DEF Cat

\* The empty sequence adds nothing.
LEMMA CatEmpty == ASSUME NEW S, NEW x \in Seq(S) PROVE Cat(x, <<>>) = x
BY ConcatEmptySeq DEF Cat

\* The first n elements and the others.
LEMMA PrefixAndRest ==
    ASSUME NEW S, NEW b \in Seq(S), NEW n \in 1 .. Len(b)
    PROVE  /\ SubSeq(b, 1, n) \in Seq(S) /\ SubSeq(b, n + 1, Len(b)) \in Seq(S)
           /\ b = Cat(SubSeq(b, 1, n), SubSeq(b, n + 1, Len(b)))
<1> DEFINE p == SubSeq(b, 1, n)
           q == SubSeq(b, n + 1, Len(b))
<1>1. p \in Seq(S) /\ q \in Seq(S) /\ Len(p) = n /\ Len(q) = Len(b) - n
  BY SubSeqProperties
<1>2. Len(p \o q) = Len(b) /\ p \o q \in Seq(S)
  BY <1>1
<1>3. \A i \in 1 .. Len(b) : (p \o q)[i] = b[i]
  BY <1>1, SubSeqProperties
<1> QED BY <1>1, <1>2, <1>3, SeqEqual DEF Cat

\* One element more.
LEMMA AppendIsCat == ASSUME NEW S, NEW s \in Seq(S), NEW x \in S PROVE Append(s, x) = Cat(s, <<x>>)
BY AppendIsConcat, ZenonT(30) DEF Cat

\* Elements of a set are elements of a larger one.
LEMMA SeqOfMore ==
    ASSUME NEW S, NEW T, S \subseteq T, NEW s \in Seq(S)
    PROVE  s \in Seq(T)
OBVIOUS

Item == [type : {"binary", "eof", "close"}, data : Seq(Nat)]

(***************************************************************************)
(* The messages w carry, one behind the other, the bytes after the first   *)
(* from ones; b holds where each begins.  None goes beyond the first limit *)
(* bytes, and if full they go that far.  EOF comes after all of them, and  *)
(* only if closed.                                                         *)
(***************************************************************************)
Layout(w, b, limit, closed) ==
    \A i \in 1 .. Len(w) :
      /\ b[i + 1] = b[i] + Len(w[i].data)
      /\ \A k \in 1 .. Len(w[i].data) : w[i].data[k] = b[i] + k
      /\ w[i].type = "eof" => b[i] = limit /\ closed

Carries(w, from, limit, full, closed) ==
    \E b \in [1 .. Len(w) + 1 -> 0 .. limit] :
      /\ b[1] = from
      /\ full => b[Len(w) + 1] = limit
      /\ Layout(w, b, limit, closed)

-----------------------------------------------------------------------------
(* Messages are queued, taken and dropped. *)

\* No messages carry no bytes.
LEMMA CarriesNone ==
    ASSUME NEW limit \in Nat, NEW from \in 0 .. limit, NEW full \in BOOLEAN, NEW closed \in BOOLEAN,
           full => from = limit
    PROVE  Carries(<<>>, from, limit, full, closed)
<1> DEFINE b == [i \in 1 .. 1 |-> from]
<1>1. /\ b \in [1 .. Len(<<>>) + 1 -> 0 .. limit]
      /\ b[1] = from /\ Len(<<>>) + 1 = 1
      /\ Layout(<<>>, b, limit, closed)
  BY DEF Layout
<1> HIDE DEF b
<1> QED  BY <1>1 DEF Carries

\* A message is queued: the next bytes, unless EOF was, or none.
LEMMA CarriesAppend ==
    ASSUME NEW w \in Seq(Item), NEW m \in Item, NEW from \in Nat, NEW limit \in Nat,
           NEW closed \in BOOLEAN, NEW closed2 \in BOOLEAN,
           Carries(w, from, limit, TRUE, closed),
           \A k \in 1 .. Len(m.data) : m.data[k] = limit + k,
           m.data # <<>> => ~closed /\ m.type # "eof",
           closed \/ m.type = "eof" => closed2
    PROVE  Carries(Append(w, m), from, limit + Len(m.data), TRUE, closed2)
<1>1. PICK b \in [1 .. Len(w) + 1 -> 0 .. limit] :
        b[1] = from /\ b[Len(w) + 1] = limit /\ Layout(w, b, limit, closed)
  BY DEF Carries
<1>2. PICK n \in Nat, e \in Nat, d \in Seq(Nat) :
        n = Len(w) /\ d = m.data /\ e = limit + Len(d) /\ Len(d) \in Nat
  <2>1. m.data \in Seq(Nat)
    BY DEF Item
  <2>2. Len(w) \in Nat /\ Len(m.data) \in Nat /\ limit + Len(m.data) \in Nat
    BY <2>1
  <2> QED  BY <2>1, <2>2, Zenon
<1> DEFINE u == Append(w, m)
           c == [i \in 1 .. n + 2 |-> IF i <= n + 1 THEN b[i] ELSE e]
<1>3. /\ u \in Seq(Item) /\ Len(u) = n + 1 /\ u[n + 1] = m
      /\ \A i \in 1 .. n : u[i] = w[i]
  BY <1>2
<1>4. /\ c \in [1 .. n + 2 -> 0 .. e] /\ c[n + 2] = e
      /\ \A i \in 1 .. n + 1 : c[i] = b[i]
  BY <1>1, <1>2
<1> HIDE DEF u, c
<1>5. ASSUME NEW i \in 1 .. n
      PROVE  /\ c[i + 1] = c[i] + Len(u[i].data)
             /\ \A k \in 1 .. Len(u[i].data) : u[i].data[k] = c[i] + k
             /\ u[i].type = "eof" => c[i] = e /\ closed2
  <2>1. i \in 1 .. Len(w) /\ i \in 1 .. n + 1 /\ i + 1 \in 1 .. n + 1
    BY <1>2
  <2>2. c[i] = b[i] /\ c[i + 1] = b[i + 1] /\ u[i] = w[i]
    BY <1>3, <1>4, <2>1
  <2>3. /\ b[i + 1] = b[i] + Len(w[i].data)
        /\ \A k \in 1 .. Len(w[i].data) : w[i].data[k] = b[i] + k
        /\ w[i].type = "eof" => b[i] = limit /\ closed
    BY <1>1, <2>1 DEF Layout
  <2>4. closed => e = limit
    BY <1>2
  <2> QED  BY <2>2, <2>3, <2>4
<1>6. /\ c[n + 2] = c[n + 1] + Len(d)
      /\ \A k \in 1 .. Len(d) : d[k] = c[n + 1] + k
      /\ m.type = "eof" => closed2
  <2>1. c[n + 1] = limit
    <3>1. b[n + 1] = limit
      BY <1>1, <1>2
    <3>2. n + 1 \in 1 .. n + 1
      OBVIOUS
    <3> QED  BY <1>4, <3>1, <3>2
  <2>2. \A k \in 1 .. Len(d) : d[k] = limit + k
    BY <1>2
  <2> QED  BY <1>2, <1>4, <2>1, <2>2
<1>7. m.type = "eof" => c[n + 1] = e
  <2> SUFFICES ASSUME m.type = "eof" PROVE c[n + 1] = e
    OBVIOUS
  <2>1. d = <<>>
    BY <1>2
  <2>2. Len(d) = 0
    BY <2>1
  <2>3. c[n + 1] \in Nat
    <3>1. n + 1 \in 1 .. n + 2
      OBVIOUS
    <3>2. c[n + 1] \in 0 .. e
      BY <1>4, <3>1
    <3> QED  BY <3>2
  <2> QED  BY <1>4, <1>6, <2>2, <2>3
<1>8. Layout(u, c, e, closed2)
  <2> SUFFICES ASSUME NEW i \in 1 .. n + 1
               PROVE  /\ c[i + 1] = c[i] + Len(u[i].data)
                      /\ \A k \in 1 .. Len(u[i].data) : u[i].data[k] = c[i] + k
                      /\ u[i].type = "eof" => c[i] = e /\ closed2
    BY <1>3, Zenon DEF Layout
  <2>1. CASE i \in 1 .. n
    BY <1>5, <2>1
  <2>2. CASE i = n + 1
    <3>1. i + 1 = n + 2 /\ u[i].data = d /\ u[i].type = m.type
      BY <1>2, <1>3, <2>2
    <3> QED  BY <1>6, <1>7, <2>2, <3>1
  <2> QED  BY <2>1, <2>2
<1>9. Len(u) + 1 = n + 2 /\ c[1] = from
  BY <1>1, <1>3, <1>4
<1> QED  BY <1>2, <1>4, <1>8, <1>9, Zenon DEF Carries, u

\* The first message is taken.
LEMMA CarriesTail ==
    ASSUME NEW w \in Seq(Item), w # <<>>, NEW from \in Nat, NEW limit \in Nat,
           NEW full \in BOOLEAN, NEW closed \in BOOLEAN,
           Carries(w, from, limit, full, closed)
    PROVE  /\ Carries(Tail(w), from + Len(Head(w).data), limit, full, closed)
           /\ from + Len(Head(w).data) <= limit
           /\ \A k \in 1 .. Len(Head(w).data) : Head(w).data[k] = from + k
           /\ Head(w).type = "eof" => from = limit /\ closed
<1>1. PICK b \in [1 .. Len(w) + 1 -> 0 .. limit] :
        /\ b[1] = from /\ (full => b[Len(w) + 1] = limit)
        /\ Layout(w, b, limit, closed)
  BY DEF Carries
<1>2. PICK n \in Nat : n + 1 = Len(w)
  <2>1. Len(w) \in Nat /\ Len(w) # 0
    OBVIOUS
  <2>2. Len(w) - 1 \in Nat /\ (Len(w) - 1) + 1 = Len(w)
    BY <2>1
  <2> QED  BY <2>2, Zenon
<1> DEFINE u == Tail(w)
           c == [i \in 1 .. n + 1 |-> b[i + 1]]
<1>3. /\ u \in Seq(Item) /\ Len(u) = n
      /\ \A i \in 1 .. n : u[i] = w[i + 1]
      /\ Head(w) = w[1]
  BY <1>2
<1>4. ASSUME NEW i \in 1 .. n + 1
      PROVE  /\ b[i + 1] = b[i] + Len(w[i].data)
             /\ \A k \in 1 .. Len(w[i].data) : w[i].data[k] = b[i] + k
             /\ w[i].type = "eof" => b[i] = limit /\ closed
  BY <1>1, <1>2 DEF Layout
<1>5. /\ c \in [1 .. n + 1 -> 0 .. limit]
      /\ \A i \in 1 .. n + 1 : c[i] = b[i + 1]
  <2>1. \A i \in 1 .. n + 1 : i + 1 \in 1 .. Len(w) + 1
    BY <1>2
  <2> QED  BY <2>1
<1>6. /\ b[2] = from + Len(w[1].data)
      /\ \A k \in 1 .. Len(w[1].data) : w[1].data[k] = from + k
      /\ w[1].type = "eof" => from = limit /\ closed
  <2>1. 1 \in 1 .. n + 1 /\ 1 + 1 = 2
    OBVIOUS
  <2> QED  BY <1>1, <1>4, <2>1
<1>7. c[1] = b[2] /\ b[2] <= limit /\ (full => c[n + 1] = limit)
  <2>1. 1 \in 1 .. n + 1 /\ n + 1 \in 1 .. n + 1 /\ 1 + 1 = 2 /\ (n + 1) + 1 = Len(w) + 1
    BY <1>2
  <2>2. c[1] \in 0 .. limit /\ c[1] = b[2] /\ c[n + 1] = b[Len(w) + 1]
    BY <1>5, <2>1
  <2> QED  BY <1>1, <2>2
<1> HIDE DEF u, c
<1>8. Layout(u, c, limit, closed)
  <2> SUFFICES ASSUME NEW i \in 1 .. n
               PROVE  /\ c[i + 1] = c[i] + Len(u[i].data)
                      /\ \A k \in 1 .. Len(u[i].data) : u[i].data[k] = c[i] + k
                      /\ u[i].type = "eof" => c[i] = limit /\ closed
    BY <1>3 DEF Layout
  <2>1. PICK j \in 1 .. n + 1 : j = i + 1
    OBVIOUS
  <2>2. c[i] = b[j] /\ c[j] = b[j + 1] /\ u[i] = w[j]
    <3>1. i \in 1 .. n + 1
      OBVIOUS
    <3>2. c[i] = b[i + 1] /\ c[j] = b[j + 1] /\ u[i] = w[i + 1]
      BY <1>3, <1>5, <3>1, Zenon
    <3> QED  BY <2>1, <3>2, Zenon
  <2>3. /\ b[j + 1] = b[j] + Len(w[j].data)
        /\ \A k \in 1 .. Len(w[j].data) : w[j].data[k] = b[j] + k
        /\ w[j].type = "eof" => b[j] = limit /\ closed
    BY <1>4
  <2> QED  BY <2>1, <2>2, <2>3, Zenon
<1>9. Carries(u, b[2], limit, full, closed)
  BY <1>3, <1>5, <1>7, <1>8, Zenon DEF Carries
<1> QED  BY <1>3, <1>6, <1>7, <1>9, Zenon DEF u

\* The messages behind the first of them are dropped.
LEMMA CarriesPrefix ==
    ASSUME NEW x \in Seq(Item), NEW y \in Seq(Item), NEW from \in Nat, NEW limit \in Nat,
           NEW closed \in BOOLEAN, Carries(Cat(x, y), from, limit, TRUE, closed)
    PROVE  Carries(x, from, limit, FALSE, closed)
<1> DEFINE w == Cat(x, y)
<1>1. PICK b \in [1 .. Len(w) + 1 -> 0 .. limit] :
        b[1] = from /\ Layout(w, b, limit, closed)
  BY DEF Carries
<1>2. /\ Len(w) \in Nat /\ Len(x) \in Nat /\ Len(x) <= Len(w)
      /\ \A i \in 1 .. Len(x) : w[i] = x[i]
  BY DEF Cat
<1> HIDE DEF w
<1> DEFINE c == [i \in 1 .. Len(x) + 1 |-> b[i]]
<1>3. /\ c \in [1 .. Len(x) + 1 -> 0 .. limit] /\ c[1] = from
      /\ \A i \in 1 .. Len(x) + 1 : c[i] = b[i]
  BY <1>1, <1>2
<1> HIDE DEF c
<1>4. Layout(x, c, limit, closed)
  <2> SUFFICES ASSUME NEW i \in 1 .. Len(x)
               PROVE  /\ c[i + 1] = c[i] + Len(x[i].data)
                      /\ \A k \in 1 .. Len(x[i].data) : x[i].data[k] = c[i] + k
                      /\ x[i].type = "eof" => c[i] = limit /\ closed
    BY DEF Layout
  <2>1. i \in 1 .. Len(w) /\ i \in 1 .. Len(x) + 1 /\ i + 1 \in 1 .. Len(x) + 1
    BY <1>2
  <2>2. c[i] = b[i] /\ c[i + 1] = b[i + 1] /\ x[i] = w[i]
    BY ZenonT(30), <1>2, <1>3, <2>1
  <2> QED  BY <1>1, <2>1, <2>2 DEF Layout
<1> QED  BY <1>3, <1>4 DEF Carries

-----------------------------------------------------------------------------
(* The inductive invariant *)

Types ==
    /\ produced \in [Peer -> Nat]
    /\ app_eof \in [Peer -> BOOLEAN]
    /\ sent \in [Peer -> Nat]
    /\ received \in [Peer -> Seq(Nat)]
    /\ queue \in [Peer -> Seq(Item)]
    /\ wire \in [Peer -> Seq(Item)]
    /\ \A p \in Peer : Len(wire[p]) <= WireCap
    /\ read_closed \in [Peer -> BOOLEAN]
    /\ write_closed \in [Peer -> BOOLEAN]
    /\ chunk \in [Peer -> Seq(Nat)]
    /\ closing \in [Peer -> BOOLEAN]
    /\ up \in [Peer -> {"running", "shutting", "done"}]
    /\ down \in [Peer -> {"running", "done"}]
    /\ outcome \in [Peer -> {"running", "ok", "failed"}]

\* What a peer has done for the end of its stream, and in which order.
Ending(p) ==
    /\ write_closed[p] => up[p] # "running"
    /\ up[p] # "running" => app_eof[p] /\ sent[p] = produced[p]
    /\ down[p] = "done" <=> read_closed[p]
    /\ closing[p] => read_closed[p] /\ write_closed[p]

\* What a peer has taken are the first bytes of the other's.
Taken(p) ==
    /\ Len(received[p]) + Len(chunk[p]) <= sent[Other(p)]
    /\ \A i \in 1 .. Len(received[p]) : received[p][i] = i
    /\ \A i \in 1 .. Len(chunk[p]) : chunk[p][i] = Len(received[p]) + i

\* What is on its way from a peer are the bytes that the other has not taken, as
\* long as the other reads.
OnItsWay(p) ==
    outcome[Other(p)] = "running" /\ down[Other(p)] = "running" =>
      Carries(Cat(wire[p], queue[p]), Len(received[Other(p)]) + Len(chunk[Other(p)]),
              sent[p], outcome[p] = "running", write_closed[p])

\* End of file was told after all bytes.
Complete(p) ==
    down[p] = "done" => app_eof[Other(p)] /\ Len(received[p]) = produced[Other(p)]

Inv ==
    /\ Types
    /\ \A p \in Peer : Ending(p) /\ Taken(p) /\ OnItsWay(p) /\ Complete(p)

-----------------------------------------------------------------------------
(* Steps *)

\* There are two peers.
LEMMA Peers ==
    ASSUME NEW p \in Peer
    PROVE  /\ Other(p) \in Peer /\ Other(p) # p /\ Other(Other(p)) = p
           /\ \A r \in Peer : r = p \/ r = Other(p)
  BY BoundAssumption DEF Peer, Other

\* The types of what belongs to a peer.
LEMMA PeerTypes ==
    ASSUME Types, NEW p \in Peer
    PROVE  /\ produced[p] \in Nat /\ sent[p] \in Nat
           /\ received[p] \in Seq(Nat) /\ chunk[p] \in Seq(Nat)
           /\ queue[p] \in Seq(Item) /\ wire[p] \in Seq(Item)
           /\ Len(received[p]) \in Nat /\ Len(chunk[p]) \in Nat
           /\ Len(queue[p]) \in Nat /\ Len(wire[p]) \in Nat
           /\ write_closed[p] \in BOOLEAN /\ read_closed[p] \in BOOLEAN
           /\ app_eof[p] \in BOOLEAN /\ closing[p] \in BOOLEAN
  BY DEF Types

\* The other has taken some of what was sent.
LEMMA TakenType ==
    ASSUME Inv, NEW p \in Peer
    PROVE  /\ Len(received[Other(p)]) + Len(chunk[Other(p)]) \in Nat
           /\ Len(received[Other(p)]) + Len(chunk[Other(p)]) \in 0 .. sent[p]
<1>1. Types /\ Taken(Other(p)) /\ Other(p) \in Peer /\ Other(Other(p)) = p
  BY Peers DEF Inv
<1>2. /\ Len(received[Other(p)]) \in Nat /\ Len(chunk[Other(p)]) \in Nat /\ sent[p] \in Nat
      /\ Len(received[Other(p)]) + Len(chunk[Other(p)]) <= sent[p]
  BY <1>1, PeerTypes, Zenon DEF Taken
<1>3. PICK a \in Nat, b \in Nat, c \in Nat :
        /\ a = Len(received[Other(p)]) /\ b = Len(chunk[Other(p)]) /\ c = sent[p]
        /\ a + b <= c
  BY <1>2, Zenon
<1>4. ASSUME a + b <= c PROVE a + b \in Nat /\ a + b \in 0 .. c
  BY <1>4
<1> QED  BY <1>3, <1>4, Zenon

\* The invariant holds when the tunnel is opened.
LEMMA InitInv == Init => Inv
<1> SUFFICES ASSUME Init PROVE Inv
  OBVIOUS
<1>1. Types
  BY BoundAssumption DEF Init, Types
<1>2. ASSUME NEW p \in Peer PROVE Ending(p) /\ Taken(p) /\ Complete(p)
  BY Peers DEF Init, Ending, Taken, Complete
<1>3. ASSUME NEW p \in Peer PROVE OnItsWay(p)
  <2>1. Cat(<<>>, <<>>) = <<>>
    BY DEF Cat
  <2>2. Carries(<<>>, 0, 0, TRUE, FALSE)
    <3>1. 0 \in Nat /\ 0 \in 0 .. 0 /\ TRUE \in BOOLEAN /\ FALSE \in BOOLEAN
      OBVIOUS
    <3> QED  BY <3>1, CarriesNone, Zenon
  <2>3. /\ wire[p] = <<>> /\ queue[p] = <<>> /\ sent[p] = 0 /\ outcome[p] = "running"
        /\ write_closed[p] = FALSE
        /\ Len(received[Other(p)]) + Len(chunk[Other(p)]) = 0
    BY Peers DEF Init
  <2>4. (outcome[p] = "running") = TRUE
    BY <2>3
  <2> QED  BY <2>1, <2>2, <2>3, <2>4, Zenon DEF OnItsWay
<1> QED  BY <1>1, <1>2, <1>3 DEF Inv

\* What is on its way depends on nothing else.
LEMMA SameWay ==
    ASSUME NEW p \in Peer, OnItsWay(p),
           Cat(wire'[p], queue'[p]) = Cat(wire[p], queue[p]),
           received'[Other(p)] = received[Other(p)], chunk'[Other(p)] = chunk[Other(p)],
           sent'[p] = sent[p], write_closed'[p] = write_closed[p],
           outcome'[p] = outcome[p], outcome'[Other(p)] = outcome[Other(p)],
           down'[Other(p)] = down[Other(p)]
    PROVE  OnItsWay(p)'
  BY Zenon DEF OnItsWay

\* So it is with what was taken.
LEMMA SameTaken ==
    ASSUME NEW p \in Peer, Taken(p), Complete(p),
           received'[p] = received[p], chunk'[p] = chunk[p], down'[p] = down[p],
           sent'[Other(p)] = sent[Other(p)], produced'[Other(p)] = produced[Other(p)],
           app_eof'[Other(p)] = app_eof[Other(p)]
    PROVE  Taken(p)' /\ Complete(p)'
<1>1. Taken(p)'
  BY Zenon DEF Taken
<1>2. Complete(p)'
  BY DEF Complete
<1> QED  BY <1>1, <1>2

\* The local connection sends or closes, or the task does nothing but wait.
LEMMA QuietInv ==
    ASSUME Inv, UNCHANGED <<ioVars, sinkVars, copyVars>>,
           \/ UNCHANGED appVars
           \/ \E p \in Peer : LocalData(p) \/ LocalEof(p)
    PROVE  Inv'
<1>1. UNCHANGED <<read_closed, write_closed, chunk, queue, wire, closing, sent, received, up,
                  down, outcome>>
  BY DEF ioVars, sinkVars, copyVars
<1>2. \A p \in Peer : OnItsWay(p)' /\ Taken(p)'
  BY <1>1, Zenon DEF Inv, OnItsWay, Taken
<1>3. /\ produced' \in [Peer -> Nat] /\ app_eof' \in [Peer -> BOOLEAN]
      /\ \A p \in Peer : app_eof[p] => app_eof'[p] /\ produced'[p] = produced[p]
  <2>1. CASE UNCHANGED appVars
    BY <2>1 DEF Inv, Types, appVars
  <2>2. ASSUME NEW p \in Peer, LocalData(p) \/ LocalEof(p)
        PROVE  /\ produced' \in [Peer -> Nat] /\ app_eof' \in [Peer -> BOOLEAN]
               /\ \A r \in Peer : app_eof[r] => app_eof'[r] /\ produced'[r] = produced[r]
    <3>1. produced \in [Peer -> Nat] /\ app_eof \in [Peer -> BOOLEAN]
      BY DEF Inv, Types
    <3>2. CASE LocalData(p)
      <4>1. /\ ~app_eof[p] /\ app_eof' = app_eof
            /\ produced' = [produced EXCEPT ![p] = produced[p] + 1]
        BY <3>2 DEF LocalData
      <4>2. produced[p] + 1 \in Nat
        BY <3>1
      <4> QED  BY <3>1, <4>1, <4>2
    <3>3. CASE LocalEof(p)
      <4>1. app_eof' = [app_eof EXCEPT ![p] = TRUE] /\ produced' = produced
        BY <3>3 DEF LocalEof
      <4> QED  BY <3>1, <4>1
    <3> QED  BY <2>2, <3>2, <3>3
  <2> QED  BY <2>1, <2>2
<1>4. Types'
  BY <1>1, <1>3 DEF Inv, Types
<1>5. ASSUME NEW p \in Peer PROVE Ending(p)' /\ Complete(p)'
  BY <1>1, <1>3, Peers DEF Inv, Ending, Complete
<1> QED  BY <1>2, <1>4, <1>5 DEF Inv

-----------------------------------------------------------------------------
(* The sink *)

\* The messages that can be written are some of those there are, and fit.
LEMMA WritableType ==
    ASSUME Types, NEW p \in Peer, NEW q \in Seq(Item)
    PROVE  /\ Writable(p, q) \in 0 .. Len(q)
           /\ outcome[Other(p)] = "running" => Len(wire[p]) + Writable(p, q) <= WireCap
<1>1. Len(q) \in Nat /\ Len(wire[p]) \in Nat /\ Len(wire[p]) <= WireCap /\ WireCap \in Nat
  BY BoundAssumption DEF Types
<1>2. PICK a \in Nat, b \in Nat, c \in Nat : a = Len(q) /\ b = Len(wire[p]) /\ c = WireCap /\ b <= c
  BY <1>1
<1>3. Writable(p, q) = IF outcome[Other(p)] # "running" \/ a <= c - b THEN a ELSE c - b
  BY <1>2 DEF Writable
<1>4. /\ a \in 0 .. a
      /\ a <= c - b => b + a <= c
      /\ ~(a <= c - b) => c - b \in 0 .. a /\ b + (c - b) <= c
  <2>1. b <= c
    BY <1>2
  <2> QED  BY <2>1
<1>5. CASE outcome[Other(p)] # "running" \/ a <= c - b
  <2>1. Writable(p, q) = a
    BY <1>3, <1>5
  <2> QED  BY <1>2, <1>4, <1>5, <2>1, Zenon
<1>6. CASE ~(outcome[Other(p)] # "running" \/ a <= c - b)
  <2>1. Writable(p, q) = c - b
    BY <1>3, <1>6
  <2> QED  BY <1>2, <1>4, <1>6, <2>1, Zenon
<1> QED  BY <1>5, <1>6

\* Writing moves messages from the sink to the transport, if the peer is there.
LEMMA WriteOutMoves ==
    ASSUME Types, NEW p \in Peer, NEW q \in Seq(Item), NEW n \in 0 .. Len(q),
           outcome[Other(p)] = "running" => Len(wire[p]) + n <= WireCap,
           WriteOut(p, q, n)
    PROVE  /\ queue' \in [Peer -> Seq(Item)] /\ wire' \in [Peer -> Seq(Item)]
           /\ \A r \in Peer : Len(wire'[r]) <= WireCap
           /\ queue'[Other(p)] = queue[Other(p)] /\ wire'[Other(p)] = wire[Other(p)]
           /\ outcome[Other(p)] = "running" =>
                Cat(wire'[p], queue'[p]) = Cat(wire[p], q)
<1> DEFINE x == SubSeq(q, 1, n)
           y == SubSeq(q, n + 1, Len(q))
<1>1. /\ x \in Seq(Item) /\ y \in Seq(Item) /\ Len(x) = n /\ n \in Nat
      /\ Cat(x, y) = q
  <2>1. CASE n = 0
    <3>1. x = <<>> /\ y = q
      BY <2>1
    <3> QED  BY <2>1, <3>1 DEF Cat
  <2>2. CASE n # 0
    <3>1. n \in 1 .. Len(q)
      BY <2>2
    <3>2. x \in Seq(Item) /\ y \in Seq(Item) /\ q = Cat(x, y)
      BY <3>1, PrefixAndRest
    <3>3. Len(x) = n
      BY <3>1
    <3> QED  BY <3>1, <3>2, <3>3
  <2> QED  BY <2>1, <2>2
<1>2. /\ queue' = [queue EXCEPT ![p] = y]
      /\ wire' = IF outcome[Other(p)] # "running" THEN wire
                 ELSE [wire EXCEPT ![p] = Cat(@, x)]
  BY DEF WriteOut, Cat
<1> HIDE DEF x, y
<1>3. wire[p] \in Seq(Item) /\ Len(wire[p]) \in Nat
  BY DEF Types
<1>4. Cat(wire[p], x) \in Seq(Item) /\ Len(Cat(wire[p], x)) = Len(wire[p]) + n
  <2> DEFINE u == wire[p]
  <2>1. u \in Seq(Item) /\ x \in Seq(Item) /\ Len(x) = n
    BY <1>1, <1>3
  <2> HIDE DEF u
  <2>2. Cat(u, x) \in Seq(Item) /\ Len(Cat(u, x)) = Len(u) + Len(x)
    BY <2>1, ConcatProperties, Zenon DEF Cat
  <2>3. Cat(u, x) \in Seq(Item) /\ Len(Cat(u, x)) = Len(u) + n
    BY <2>1, <2>2, Zenon
  <2> QED  BY <2>3 DEF u
<1>5. Cat(Cat(wire[p], x), y) = Cat(wire[p], q)
  BY <1>1, <1>3, CatAssociative
<1>6. queue' \in [Peer -> Seq(Item)] /\ wire' \in [Peer -> Seq(Item)]
  BY <1>1, <1>2, <1>4 DEF Types
<1>7. ASSUME NEW r \in Peer PROVE Len(wire'[r]) <= WireCap
  BY <1>2, <1>4, Zenon DEF Types
<1>8. /\ queue'[Other(p)] = queue[Other(p)] /\ wire'[Other(p)] = wire[Other(p)]
      /\ queue'[p] = y
      /\ outcome[Other(p)] = "running" => wire'[p] = Cat(wire[p], x)
  BY <1>2, Peers, ZenonT(30) DEF Types
<1> QED  BY <1>5, <1>6, <1>7, <1>8

-----------------------------------------------------------------------------
(* One lemma for each kind of step. *)

\* Messages are written out, and perhaps the copy of one direction is over.
LEMMA FlushInv ==
    ASSUME Inv, NEW p \in Peer, NEW n \in 0 .. Len(queue[p]),
           outcome[Other(p)] = "running" => Len(wire[p]) + n <= WireCap,
           WriteOut(p, queue[p], n),
           UNCHANGED <<appVars, ioVars, closing, sent, received, down, outcome>>,
           \/ up' = up
           \/ (up' = [up EXCEPT ![p] = "shutting"] /\ app_eof[p] /\ sent[p] = produced[p])
    PROVE  Inv'
<1>1. Types /\ queue[p] \in Seq(Item)
  BY DEF Inv, Types
<1>2. UNCHANGED <<produced, app_eof, read_closed, write_closed, chunk, closing, sent, received,
                  down, outcome>>
  BY DEF appVars, ioVars
<1>3. /\ queue' \in [Peer -> Seq(Item)] /\ wire' \in [Peer -> Seq(Item)]
      /\ \A r \in Peer : Len(wire'[r]) <= WireCap
      /\ queue'[Other(p)] = queue[Other(p)] /\ wire'[Other(p)] = wire[Other(p)]
      /\ outcome[Other(p)] = "running" => Cat(wire'[p], queue'[p]) = Cat(wire[p], queue[p])
  BY <1>1, WriteOutMoves
<1>4. /\ up' \in [Peer -> {"running", "shutting", "done"}]
      /\ \A r \in Peer : up[r] # up'[r] =>
           up'[r] = "shutting" /\ app_eof[r] /\ sent[r] = produced[r]
  BY <1>1, Zenon DEF Types
<1>5. Types'
  BY <1>1, <1>2, <1>3, <1>4, ZenonT(30) DEF Types
<1>6. ASSUME NEW r \in Peer PROVE Ending(r)' /\ Taken(r)' /\ Complete(r)'
  <2>1. Ending(r)'
    BY <1>2, <1>4, ZenonT(30) DEF Inv, Ending
  <2> QED  BY <1>2, <2>1, SameTaken DEF Inv
<1>7. OnItsWay(Other(p))'
  BY <1>2, <1>3, Peers, SameWay DEF Inv
<1>8. OnItsWay(p)'
  <2>1. CASE outcome[Other(p)] = "running"
    BY <1>2, <1>3, <2>1, SameWay, ZenonT(30) DEF Inv
  <2>2. CASE outcome[Other(p)] # "running"
    BY <1>2, <2>2 DEF OnItsWay
  <2> QED  BY <2>1, <2>2
<1> QED  BY <1>5, <1>6, <1>7, <1>8, Peers DEF Inv

\* Messages that go as far as the limit are messages that do not go beyond it.
LEMMA CarriesWeaker ==
    ASSUME NEW w, NEW from, NEW limit, NEW full \in BOOLEAN, NEW closed,
           Carries(w, from, limit, full, closed)
    PROVE  Carries(w, from, limit, FALSE, closed)
  BY DEF Carries

\* A copy ends, and with it the reading.
LEMMA OutcomeInv ==
    ASSUME Inv, NEW p \in Peer, NEW o \in {"ok", "failed"},
           outcome' = [outcome EXCEPT ![p] = o],
           UNCHANGED <<appVars, ioVars, sinkVars, sent, received, up, down>>
    PROVE  Inv'
<1>1. UNCHANGED <<produced, app_eof, read_closed, write_closed, chunk, closing, sent, received,
                  queue, wire, up, down>>
  BY DEF appVars, ioVars, sinkVars
<1>2. outcome'[p] = o /\ outcome'[Other(p)] = outcome[Other(p)] /\ o # "running"
  BY Peers DEF Inv, Types
<1>3. Types'
  BY <1>1 DEF Inv, Types
<1>4. ASSUME NEW r \in Peer PROVE Ending(r)' /\ Taken(r)' /\ Complete(r)'
  <2>1. Ending(r)'
    BY <1>1 DEF Inv, Ending
  <2> QED  BY <1>1, <2>1, SameTaken DEF Inv
<1>5. OnItsWay(Other(p))'
  BY <1>2, Peers DEF OnItsWay
<1>6. OnItsWay(p)'
  <2> SUFFICES ASSUME outcome[Other(p)] = "running" /\ down[Other(p)] = "running"
               PROVE  Carries(Cat(wire[p], queue[p]),
                              Len(received[Other(p)]) + Len(chunk[Other(p)]),
                              sent[p], FALSE, write_closed[p])
    <3>1. (outcome'[p] = "running") = FALSE
      BY <1>2
    <3> QED  BY <1>1, <1>2, <3>1, Zenon DEF OnItsWay
  <2>1. Carries(Cat(wire[p], queue[p]), Len(received[Other(p)]) + Len(chunk[Other(p)]),
                sent[p], outcome[p] = "running", write_closed[p])
    BY Zenon DEF Inv, OnItsWay
  <2>2. (outcome[p] = "running") \in BOOLEAN
    OBVIOUS
  <2> QED  BY <2>1, <2>2, CarriesWeaker, Zenon
<1> QED  BY <1>3, <1>4, <1>5, <1>6, Peers DEF Inv

\* The local connection fails: what is queued is lost, and perhaps more.
LEMMA LocalFailsInv ==
    ASSUME Inv, NEW p \in Peer, LocalFails(p)
    PROVE  Inv'
<1>1. UNCHANGED <<produced, app_eof, read_closed, write_closed, chunk, closing, sent, received,
                  up, down>>
  BY DEF LocalFails, appVars, ioVars
<1>2. PICK kept \in {wire[p], <<>>} : wire' = [wire EXCEPT ![p] = kept]
  BY Zenon DEF LocalFails
<1>3. /\ queue' = [queue EXCEPT ![p] = <<>>]
      /\ outcome' = [outcome EXCEPT ![p] = "failed"]
  BY DEF LocalFails
<1>4. Types /\ Taken(Other(p))
  BY Peers DEF Inv
<1>5. /\ wire[p] \in Seq(Item) /\ kept \in Seq(Item) /\ queue[p] \in Seq(Item)
      /\ Len(kept) <= WireCap /\ <<>> \in Seq(Item)
  <2>1. Len(wire[p]) <= WireCap /\ Len(<<>>) <= WireCap /\ wire[p] \in Seq(Item)
    BY <1>4, BoundAssumption DEF Types
  <2>2. queue[p] \in Seq(Item) /\ <<>> \in Seq(Item)
    BY <1>4 DEF Types
  <2>3. kept = wire[p] \/ kept = <<>>
    BY <1>2
  <2> QED  BY <2>1, <2>2, <2>3, Zenon
<1>6. /\ wire'[p] = kept /\ queue'[p] = <<>> /\ outcome'[p] = "failed"
      /\ outcome'[Other(p)] = outcome[Other(p)]
  BY <1>2, <1>3, <1>4, Peers DEF Types
<1>7. Types'
  <2>1. wire' \in [Peer -> Seq(Item)] /\ queue' \in [Peer -> Seq(Item)]
    BY <1>2, <1>3, <1>4, <1>5 DEF Types
  <2>2. \A r \in Peer : Len(wire'[r]) <= WireCap
    BY <1>2, <1>4, <1>5 DEF Types
  <2>3. outcome' \in [Peer -> {"running", "ok", "failed"}]
    BY <1>3, <1>4 DEF Types
  <2> QED  BY <1>1, <1>4, <2>1, <2>2, <2>3 DEF Types
<1>8. ASSUME NEW r \in Peer PROVE Ending(r)' /\ Taken(r)' /\ Complete(r)'
  <2>1. Ending(r)'
    BY <1>1 DEF Inv, Ending
  <2> QED  BY <1>1, <2>1, SameTaken DEF Inv
<1>9. OnItsWay(Other(p))'
  BY <1>6, Peers DEF OnItsWay
<1>10. OnItsWay(p)'
  <2> DEFINE got == Len(received[Other(p)]) + Len(chunk[Other(p)])
             closed == write_closed[p]
             limit == sent[p]
  <2>1. limit \in Nat /\ closed \in BOOLEAN
    BY <1>4, PeerTypes
  <2>2. got \in Nat
    BY TakenType, Zenon
  <2>3. got \in 0 .. limit
    BY TakenType, Zenon
  <2>4. OnItsWay(p)' = (outcome[Other(p)] = "running" /\ down[Other(p)] = "running" =>
                          Carries(Cat(kept, <<>>), got, limit, FALSE, closed))
    <3>1. (outcome'[p] = "running") = FALSE
      BY <1>6
    <3> QED  BY <1>1, <1>6, <3>1, Zenon DEF OnItsWay
  <2>5. OnItsWay(p) = (outcome[Other(p)] = "running" /\ down[Other(p)] = "running" =>
                          Carries(Cat(wire[p], queue[p]), got, limit, TRUE, closed))
    <3>1. (outcome[p] = "running") = TRUE
      BY DEF LocalFails
    <3> QED  BY <3>1, Zenon DEF OnItsWay
  <2>6. OnItsWay(p)
    BY DEF Inv
  <2>7. Cat(kept, <<>>) = kept
    BY <1>5, CatEmpty
  <2> HIDE DEF got, closed, limit
  <2>8. Carries(<<>>, got, limit, FALSE, closed)
    <3>1. FALSE \in BOOLEAN /\ (FALSE => got = limit)
      OBVIOUS
    <3> QED  BY <2>1, <2>3, <3>1, CarriesNone, Zenon
  <2>9. ASSUME Carries(Cat(wire[p], queue[p]), got, limit, TRUE, closed)
        PROVE  Carries(kept, got, limit, FALSE, closed)
    <3>1. Carries(wire[p], got, limit, FALSE, closed)
      <4> DEFINE x == wire[p]
                 y == queue[p]
      <4>1. x \in Seq(Item) /\ y \in Seq(Item)
        BY <1>5
      <4>2. Carries(Cat(x, y), got, limit, TRUE, closed)
        BY <2>9, Zenon
      <4> HIDE DEF x, y
      <4>3. Carries(x, got, limit, FALSE, closed)
        BY <2>1, <2>2, <4>1, <4>2, CarriesPrefix, Zenon
      <4> QED  BY <4>3, Zenon DEF x
    <3> QED  BY <2>8, <3>1, Zenon
  <2> QED  BY <2>4, <2>5, <2>6, <2>7, <2>9, Zenon
<1> QED  BY <1>7, <1>8, <1>9, <1>10, Peers DEF Inv

\* A message behind the others.
LEMMA CatAppend ==
    ASSUME NEW w \in Seq(Item), NEW q \in Seq(Item), NEW m \in Item
    PROVE  /\ Cat(w, Append(q, m)) = Append(Cat(w, q), m)
           /\ Append(q, m) \in Seq(Item)
<1>1. <<m>> \in Seq(Item) /\ Cat(w, q) \in Seq(Item) /\ Append(q, m) \in Seq(Item)
  BY CatType
<1>2. Append(q, m) = Cat(q, <<m>>) /\ Append(Cat(w, q), m) = Cat(Cat(w, q), <<m>>)
  BY <1>1, AppendIsCat
<1>3. Cat(Cat(w, q), <<m>>) = Cat(w, Cat(q, <<m>>))
  <2> DEFINE z == <<m>>
  <2>1. z \in Seq(Item)
    BY <1>1
  <2> HIDE DEF z
  <2>2. Cat(Cat(w, q), z) = Cat(w, Cat(q, z))
    BY <2>1, CatAssociative
  <2> QED  BY <2>2 DEF z
<1> QED  BY <1>1, <1>2, <1>3, Zenon

\* Bytes are written to the websocket.
LEMMA UpWriteInv ==
    ASSUME Inv, NEW p \in Peer, UpWrite(p)
    PROVE  Inv'
<1>1. UNCHANGED <<produced, app_eof, read_closed, write_closed, chunk, closing, received, wire,
                  up, down, outcome>>
  BY DEF UpWrite, poll_write, appVars, ioVars
<1>2. PICK n \in 1 .. produced[p] - sent[p] :
        /\ queue' = [queue EXCEPT ![p] = Append(@, Binary([i \in 1 .. n |-> sent[p] + i]))]
        /\ sent' = [sent EXCEPT ![p] = @ + n]
  BY Zenon DEF UpWrite, poll_write
<1>3. Types /\ up[p] = "running" /\ outcome[p] = "running" /\ ~write_closed[p]
  BY DEF Inv, Ending, UpWrite, Turn
<1>4. n \in Nat /\ sent[p] \in Nat /\ sent[p] + n \in Nat
  BY <1>2, <1>3, PeerTypes
<1> DEFINE m == Binary([i \in 1 .. n |-> sent[p] + i])
<1>5. /\ m \in Item /\ Len(m.data) = n /\ m.type # "eof"
      /\ \A k \in 1 .. Len(m.data) : m.data[k] = sent[p] + k
  <2>1. [i \in 1 .. n |-> sent[p] + i] \in Seq(Nat) /\ Len([i \in 1 .. n |-> sent[p] + i]) = n
    BY <1>4
  <2> QED  BY <2>1 DEF Binary, Item
<1>6. queue' = [queue EXCEPT ![p] = Append(@, m)]
  BY <1>2
<1> HIDE DEF m
<1>7. /\ wire[p] \in Seq(Item) /\ queue[p] \in Seq(Item)
      /\ Append(queue[p], m) \in Seq(Item)
      /\ Cat(wire[p], Append(queue[p], m)) = Append(Cat(wire[p], queue[p]), m)
      /\ Cat(wire[p], queue[p]) \in Seq(Item)
  BY <1>3, <1>5, PeerTypes, CatAppend, CatType, Zenon
<1>8. Types'
  BY SMT, SMTT(30), <1>1, <1>2, <1>3, <1>4, <1>6, <1>7 DEF Types
<1>9. /\ queue'[p] = Append(queue[p], m) /\ sent'[p] = sent[p] + n
      /\ queue'[Other(p)] = queue[Other(p)] /\ sent'[Other(p)] = sent[Other(p)]
  BY <1>2, <1>3, <1>6, Peers, ZenonT(30) DEF Types
<1>10. OnItsWay(Other(p))'
  BY ZenonT(30), <1>1, <1>9, Peers, SameWay DEF Inv
<1>11. Ending(p)' /\ Ending(Other(p))'
  BY <1>1, <1>3, <1>9, Peers, ZenonT(30) DEF Inv, Ending
<1>12. Taken(p)' /\ Complete(p)'
  BY <1>1, <1>9, SameTaken DEF Inv
<1>13. Taken(Other(p))' /\ Complete(Other(p))'
  <2>1. Taken(Other(p)) /\ Complete(Other(p)) /\ Other(Other(p)) = p
    BY Peers DEF Inv
  <2>2. /\ Len(received[Other(p)]) + Len(chunk[Other(p)]) <= sent[p]
        /\ Len(received[Other(p)]) \in Nat /\ Len(chunk[Other(p)]) \in Nat
    BY <1>3, <2>1, Peers, PeerTypes, Zenon DEF Taken
  <2>3. Len(received[Other(p)]) + Len(chunk[Other(p)]) <= sent[p] + n
    <3>1. PICK a \in Nat, b \in Nat, c \in Nat :
            /\ a = Len(received[Other(p)]) /\ b = Len(chunk[Other(p)]) /\ c = sent[p]
            /\ a + b <= c
      BY <1>4, <2>2, Zenon
    <3>2. a + b <= c
      BY <3>1, Zenon
    <3>3. a + b <= c + n
      BY <1>4, <3>2
    <3> QED  BY <3>1, <3>3, Zenon
  <2>4. Taken(Other(p))'
    BY <1>1, <1>9, <2>1, <2>3, Zenon DEF Taken
  <2>5. Complete(Other(p))'
    BY <1>1, <2>1 DEF Complete
  <2> QED  BY <2>4, <2>5
<1>14. OnItsWay(p)'
  <2> DEFINE got == Len(received[Other(p)]) + Len(chunk[Other(p)])
             w == Cat(wire[p], queue[p])
  <2>1. got \in Nat
    BY TakenType, Zenon
  <2>2. w \in Seq(Item)
    BY <1>7
  <2>3. (outcome[p] = "running") = TRUE /\ write_closed[p] = FALSE
    BY <1>3, PeerTypes
  <2>4. OnItsWay(p) = (outcome[Other(p)] = "running" /\ down[Other(p)] = "running" =>
                         Carries(w, got, sent[p], TRUE, FALSE))
    BY <2>3, Zenon DEF OnItsWay
  <2>5. OnItsWay(p)' = (outcome[Other(p)] = "running" /\ down[Other(p)] = "running" =>
                         Carries(Append(w, m), got, sent[p] + n, TRUE, FALSE))
    BY <1>1, <1>7, <1>9, <2>3, Zenon DEF OnItsWay
  <2> HIDE DEF got, w
  <2>6. ASSUME Carries(w, got, sent[p], TRUE, FALSE)
        PROVE  Carries(Append(w, m), got, sent[p] + n, TRUE, FALSE)
    <3>1. FALSE \in BOOLEAN /\ ~FALSE
      OBVIOUS
    <3>2. Carries(Append(w, m), got, sent[p] + Len(m.data), TRUE, FALSE)
      BY <1>4, <1>5, <2>1, <2>2, <2>6, <3>1, CarriesAppend, Zenon
    <3> QED  BY <1>5, <3>2, Zenon
  <2>7. OnItsWay(p)
    BY DEF Inv
  <2> QED  BY <2>4, <2>5, <2>6, <2>7, Zenon
<1> QED  BY <1>8, <1>10, <1>11, <1>12, <1>13, <1>14, Peers DEF Inv

\* A message without bytes is queued: EOF or the Close frame.
LEMMA CarriesMark ==
    ASSUME NEW w \in Seq(Item), NEW q \in Seq(Item), NEW m \in Item, m.data = <<>>,
           NEW from \in Nat, NEW limit \in Nat,
           NEW closed \in BOOLEAN, NEW closed2 \in BOOLEAN,
           Carries(Cat(w, q), from, limit, TRUE, closed),
           closed \/ m.type = "eof" => closed2
    PROVE  Carries(Cat(w, Append(q, m)), from, limit, TRUE, closed2)
<1>1. Cat(w, Append(q, m)) = Append(Cat(w, q), m)
  BY CatAppend
<1>2. Cat(w, q) \in Seq(Item)
  BY CatType
<1>3. /\ limit + Len(m.data) = limit
      /\ \A k \in 1 .. Len(m.data) : m.data[k] = limit + k
      /\ m.data # <<>> => ~closed /\ m.type # "eof"
  <2>1. Len(m.data) = 0
    BY Zenon, EmptySeq
  <2> QED  BY <2>1
<1> DEFINE c == Cat(w, q)
<1>4. c \in Seq(Item) /\ Carries(c, from, limit, TRUE, closed)
  BY <1>2, Zenon
<1> HIDE DEF c
<1>5. Carries(Append(c, m), from, limit + Len(m.data), TRUE, closed2)
  BY <1>3, <1>4, CarriesAppend, Zenon
<1> QED  BY <1>1, <1>3, <1>5, Zenon DEF c

\* What the sink holds when it is closed goes on with what it held.
LEMMA ClosingQueueCarries ==
    ASSUME Inv, NEW p \in Peer, outcome[p] = "running", write_closed'[p] = TRUE
    PROVE  /\ ClosingQueue(p) \in Seq(Item)
           /\ outcome[Other(p)] = "running" /\ down[Other(p)] = "running" =>
                Carries(Cat(wire[p], ClosingQueue(p)),
                        Len(received[Other(p)]) + Len(chunk[Other(p)]),
                        sent[p], TRUE, write_closed'[p])
<1> DEFINE got == Len(received[Other(p)]) + Len(chunk[Other(p)])
           q1 == IF write_closed[p] THEN queue[p] ELSE Append(queue[p], EOF_MESSAGE)
           q2 == IF closing[p] THEN q1 ELSE Append(q1, CloseFrame)
<1>1. /\ wire[p] \in Seq(Item) /\ queue[p] \in Seq(Item) /\ sent[p] \in Nat /\ got \in Nat
      /\ write_closed[p] \in BOOLEAN
  BY PeerTypes, TakenType, Zenon DEF Inv
<1>2. /\ EOF_MESSAGE \in Item /\ EOF_MESSAGE.data = <<>> /\ EOF_MESSAGE.type = "eof"
      /\ CloseFrame \in Item /\ CloseFrame.data = <<>> /\ CloseFrame.type = "close"
  BY DEF EOF_MESSAGE, CloseFrame, Item
<1>3. q1 \in Seq(Item)
  BY <1>1, <1>2
<1>4. q2 \in Seq(Item) /\ ClosingQueue(p) = q2
  <2>1. q1 = queue[p] \o (IF write_closed[p] THEN <<>> ELSE <<EOF_MESSAGE>>)
    <3>1. queue[p] \o <<>> = queue[p]
      BY <1>1, ConcatEmptySeq
    <3>2. Append(queue[p], EOF_MESSAGE) = queue[p] \o <<EOF_MESSAGE>>
      BY <1>1, <1>2, AppendIsConcat
    <3>3. CASE write_closed[p]
      BY <3>1, <3>3, Zenon
    <3>4. CASE ~write_closed[p]
      BY <3>2, <3>4
    <3> QED  BY <3>3, <3>4, Zenon
  <2> HIDE DEF q1
  <2>2. q2 = q1 \o (IF closing[p] THEN <<>> ELSE <<CloseFrame>>)
    BY <1>2, <1>3, ConcatEmptySeq, AppendIsConcat
  <2>3. q2 \in Seq(Item)
    BY <1>2, <1>3
  <2> QED  BY <2>1, <2>2, <2>3, Zenon DEF ClosingQueue
<1>5. ASSUME Carries(Cat(wire[p], queue[p]), got, sent[p], TRUE, write_closed[p])
      PROVE  Carries(Cat(wire[p], q1), got, sent[p], TRUE, write_closed'[p])
  <2> HIDE DEF got
  <2>1. CASE write_closed[p]
    <3>1. q1 = queue[p] /\ write_closed'[p] = write_closed[p]
      BY <1>1, <2>1, Zenon
    <3> QED  BY <1>5, <3>1, Zenon
  <2>2. CASE ~write_closed[p]
    <3>1. q1 = Append(queue[p], EOF_MESSAGE) /\ write_closed'[p] \in BOOLEAN
      BY <2>2, Zenon
    <3> QED  BY <1>1, <1>2, <1>5, <3>1, CarriesMark, Zenon
  <2> QED  BY <2>1, <2>2, Zenon
<1>6. ASSUME Carries(Cat(wire[p], q1), got, sent[p], TRUE, write_closed'[p])
      PROVE  Carries(Cat(wire[p], q2), got, sent[p], TRUE, write_closed'[p])
  <2> HIDE DEF got, q1
  <2>1. CASE closing[p]
    BY <1>6, <2>1, Zenon
  <2>2. CASE ~closing[p]
    <3>1. q2 = Append(q1, CloseFrame) /\ write_closed'[p] \in BOOLEAN
      BY <2>2, Zenon
    <3> QED  BY <1>1, <1>2, <1>3, <1>6, <3>1, CarriesMark, Zenon
  <2> QED  BY <2>1, <2>2, Zenon
<1>7. outcome[Other(p)] = "running" /\ down[Other(p)] = "running" =>
        Carries(Cat(wire[p], queue[p]), got, sent[p], TRUE, write_closed[p])
  <2>1. (outcome[p] = "running") = TRUE
    OBVIOUS
  <2> QED  BY <2>1, Zenon DEF Inv, OnItsWay
<1> HIDE DEF got, q1, q2
<1>8. outcome[Other(p)] = "running" /\ down[Other(p)] = "running" =>
        Carries(Cat(wire[p], ClosingQueue(p)), got, sent[p], TRUE, write_closed'[p])
  BY <1>4, <1>5, <1>6, <1>7, Zenon
<1> QED  BY <1>4, <1>8, Zenon DEF got

\* poll_shutdown, while the EOF of the peer has not come.
LEMMA ShutdownWaitingInv ==
    ASSUME Inv, NEW p \in Peer, UpShutdown(p), poll_shutdown_waiting(p), up' = up
    PROVE  Inv'
<1>1. UNCHANGED <<produced, app_eof, read_closed, chunk, closing, received, wire, sent, up, down,
                  outcome>>
  BY DEF UpShutdown, poll_shutdown_waiting, appVars
<1>2. /\ queue' = IF write_closed[p] THEN queue
                  ELSE [queue EXCEPT ![p] = Append(@, EOF_MESSAGE)]
      /\ write_closed' = [write_closed EXCEPT ![p] = TRUE]
  BY DEF poll_shutdown_waiting
<1>3. Types /\ up[p] = "shutting" /\ outcome[p] = "running"
  BY DEF Inv, UpShutdown, Turn
<1>4. /\ wire[p] \in Seq(Item) /\ queue[p] \in Seq(Item) /\ sent[p] \in Nat
      /\ write_closed[p] \in BOOLEAN
  BY <1>3, PeerTypes
<1>5. EOF_MESSAGE \in Item /\ EOF_MESSAGE.data = <<>> /\ EOF_MESSAGE.type = "eof"
  BY DEF EOF_MESSAGE, Item
<1>6. Append(queue[p], EOF_MESSAGE) \in Seq(Item)
  BY <1>4, <1>5
<1>7. /\ write_closed'[p] = TRUE /\ write_closed'[Other(p)] = write_closed[Other(p)]
      /\ queue'[Other(p)] = queue[Other(p)]
      /\ queue'[p] = IF write_closed[p] THEN queue[p] ELSE Append(queue[p], EOF_MESSAGE)
  BY <1>2, <1>3, Peers, Zenon DEF Types
<1>8. Types'
  <2>1. queue' \in [Peer -> Seq(Item)] /\ write_closed' \in [Peer -> BOOLEAN]
    BY <1>2, <1>3, <1>6 DEF Types
  <2> QED  BY <1>1, <1>3, <2>1 DEF Types
<1>9. ASSUME NEW r \in Peer PROVE Taken(r)' /\ Complete(r)'
  BY <1>1, SameTaken, ZenonT(30) DEF Inv
<1>10. Ending(p)' /\ Ending(Other(p))'
  BY <1>1, <1>3, <1>7, Peers DEF Inv, Ending
<1>11. OnItsWay(Other(p))'
  BY <1>1, <1>7, Peers, SameWay, Zenon DEF Inv
<1>12. OnItsWay(p)'
  <2>1. CASE write_closed[p]
    <3>1. queue'[p] = queue[p] /\ write_closed'[p] = write_closed[p]
      BY <1>4, <1>7, <2>1, Zenon
    <3> QED  BY <1>1, <3>1, SameWay, ZenonT(30) DEF Inv
  <2>2. CASE ~write_closed[p]
    <3> DEFINE got == Len(received[Other(p)]) + Len(chunk[Other(p)])
    <3>1. got \in Nat
      BY TakenType, Zenon
    <3>2. (outcome[p] = "running") = TRUE
      BY <1>3
    <3>3. OnItsWay(p) = (outcome[Other(p)] = "running" /\ down[Other(p)] = "running" =>
            Carries(Cat(wire[p], queue[p]), got, sent[p], TRUE, write_closed[p]))
      BY <3>2, Zenon DEF OnItsWay
    <3>4. queue'[p] = Append(queue[p], EOF_MESSAGE) /\ write_closed'[p] \in BOOLEAN
      BY <1>7, <2>2, Zenon
    <3>5. OnItsWay(p)' = (outcome[Other(p)] = "running" /\ down[Other(p)] = "running" =>
            Carries(Cat(wire[p], Append(queue[p], EOF_MESSAGE)), got, sent[p], TRUE,
                    write_closed'[p]))
      BY <1>1, <3>2, <3>4, Zenon DEF OnItsWay
    <3>6. OnItsWay(p)
      BY DEF Inv
    <3> HIDE DEF got
    <3>7. ASSUME Carries(Cat(wire[p], queue[p]), got, sent[p], TRUE, write_closed[p])
          PROVE  Carries(Cat(wire[p], Append(queue[p], EOF_MESSAGE)), got, sent[p], TRUE,
                         write_closed'[p])
      BY <1>4, <1>5, <1>7, <3>1, <3>4, <3>7, CarriesMark, Zenon
    <3> QED  BY <3>3, <3>5, <3>6, <3>7, Zenon
  <2> QED  BY <2>1, <2>2
<1> QED  BY <1>8, <1>9, <1>10, <1>11, <1>12, Peers DEF Inv

\* poll_shutdown, after it has come.
LEMMA ShutdownClosingInv ==
    ASSUME Inv, NEW p \in Peer, UpShutdown(p), poll_shutdown_closing(p),
           up' = [up EXCEPT ![p] = IF CloseCompletes(p) THEN "done" ELSE @]
    PROVE  Inv'
<1>1. UNCHANGED <<produced, app_eof, read_closed, chunk, received, sent, down, outcome>>
  BY DEF UpShutdown, poll_shutdown_closing, appVars
<1>2. Types /\ up[p] = "shutting" /\ outcome[p] = "running" /\ read_closed[p]
  BY Zenon DEF Inv, UpShutdown, Turn, poll_shutdown_closing
<1> DEFINE q == ClosingQueue(p)
           n == Writable(p, q)
<1>3. /\ WriteOut(p, q, n)
      /\ write_closed' = [write_closed EXCEPT ![p] = TRUE]
      /\ closing' = [closing EXCEPT ![p] = TRUE]
  BY DEF poll_shutdown_closing
<1>4. /\ write_closed'[p] = TRUE /\ write_closed'[Other(p)] = write_closed[Other(p)]
      /\ closing'[Other(p)] = closing[Other(p)]
      /\ up'[p] # "running" /\ up'[Other(p)] = up[Other(p)]
      /\ up' \in [Peer -> {"running", "shutting", "done"}]
      /\ write_closed' \in [Peer -> BOOLEAN] /\ closing' \in [Peer -> BOOLEAN]
  BY <1>2, <1>3, Peers, Zenon DEF Types
<1>5. /\ q \in Seq(Item)
      /\ outcome[Other(p)] = "running" /\ down[Other(p)] = "running" =>
           Carries(Cat(wire[p], q), Len(received[Other(p)]) + Len(chunk[Other(p)]),
                   sent[p], TRUE, write_closed'[p])
  BY <1>2, <1>4, ClosingQueueCarries, Zenon
<1> HIDE DEF q
<1>6. n \in 0 .. Len(q) /\ (outcome[Other(p)] = "running" => Len(wire[p]) + n <= WireCap)
  BY <1>2, <1>5, WritableType
<1> HIDE DEF n
<1>7. /\ queue' \in [Peer -> Seq(Item)] /\ wire' \in [Peer -> Seq(Item)]
      /\ \A r \in Peer : Len(wire'[r]) <= WireCap
      /\ queue'[Other(p)] = queue[Other(p)] /\ wire'[Other(p)] = wire[Other(p)]
      /\ outcome[Other(p)] = "running" => Cat(wire'[p], queue'[p]) = Cat(wire[p], q)
  BY <1>2, <1>3, <1>5, <1>6, WriteOutMoves, Zenon
<1>8. Types'
  BY <1>1, <1>2, <1>4, <1>7, ZenonT(30) DEF Types
<1>9. ASSUME NEW r \in Peer PROVE Taken(r)' /\ Complete(r)'
  BY <1>1, SameTaken, Zenon DEF Inv
<1>10. Ending(p)' /\ Ending(Other(p))'
  BY <1>1, <1>2, <1>4, Peers DEF Inv, Ending
<1>11. OnItsWay(Other(p))'
  BY <1>1, <1>4, <1>7, Peers, SameWay, ZenonT(30) DEF Inv
<1>12. OnItsWay(p)'
  <2>1. (outcome'[p] = "running") = TRUE
    BY <1>1, <1>2
  <2> QED  BY <1>1, <1>5, <1>7, <2>1, Zenon DEF OnItsWay
<1> QED  BY <1>8, <1>9, <1>10, <1>11, <1>12, Peers DEF Inv

-----------------------------------------------------------------------------
(* The reading side *)

\* The first message is that of the transport, if there is one.
LEMMA CatHead ==
    ASSUME NEW w \in Seq(Item), NEW q \in Seq(Item), w # <<>>
    PROVE  /\ Cat(w, q) \in Seq(Item) /\ Cat(w, q) # <<>>
           /\ Head(Cat(w, q)) = Head(w) /\ Tail(Cat(w, q)) = Cat(Tail(w), q)
           /\ Head(w) \in Item /\ Tail(w) \in Seq(Item) /\ Len(Tail(w)) <= Len(w)
<1>1. Head(w) \in Item /\ Tail(w) \in Seq(Item) /\ Len(Tail(w)) <= Len(w) /\ Len(w) \in Nat \ {0}
  BY HeadTailProperties, EmptySeq
<1>2. Cat(w, q) \in Seq(Item) /\ Len(Cat(w, q)) = Len(w) + Len(q) /\ Len(q) \in Nat
  BY ConcatProperties DEF Cat
<1>3. Cat(w, q) # <<>>
  BY <1>1, <1>2
<1>4. Head(Cat(w, q)) = Head(w)
  BY <1>1, <1>2, <1>3 DEF Cat
<1>5. Tail(Cat(w, q)) = Cat(Tail(w), q)
  <2>1. /\ Tail(Cat(w, q)) \in Seq(Item) /\ Cat(Tail(w), q) \in Seq(Item)
        /\ Len(Tail(Cat(w, q))) = Len(w) + Len(q) - 1
        /\ Len(Cat(Tail(w), q)) = Len(w) + Len(q) - 1
    BY <1>1, <1>2, <1>3 DEF Cat
  <2>2. ASSUME NEW i \in 1 .. Len(w) + Len(q) - 1
        PROVE  Tail(Cat(w, q))[i] = Cat(Tail(w), q)[i]
    BY <1>1, <1>2, <1>3 DEF Cat
  <2> QED  BY <2>1, <2>2, SeqEqual
<1> QED  BY <1>1, <1>2, <1>3, <1>4, <1>5

\* A part of the bytes in hand is passed on.
LEMMA TakenMoves ==
    ASSUME NEW r \in Seq(Nat), NEW c \in Seq(Nat), NEW n \in 1 .. Len(c),
           \A i \in 1 .. Len(r) : r[i] = i,
           \A i \in 1 .. Len(c) : c[i] = Len(r) + i
    PROVE  /\ r \o SubSeq(c, 1, n) \in Seq(Nat) /\ SubSeq(c, n + 1, Len(c)) \in Seq(Nat)
           /\ Len(r \o SubSeq(c, 1, n)) + Len(SubSeq(c, n + 1, Len(c))) = Len(r) + Len(c)
           /\ \A i \in 1 .. Len(r \o SubSeq(c, 1, n)) : (r \o SubSeq(c, 1, n))[i] = i
           /\ \A i \in 1 .. Len(SubSeq(c, n + 1, Len(c))) :
                SubSeq(c, n + 1, Len(c))[i] = Len(r \o SubSeq(c, 1, n)) + i
<1> DEFINE x == SubSeq(c, 1, n)
           y == SubSeq(c, n + 1, Len(c))
<1>1. Len(r) \in Nat /\ Len(c) \in Nat /\ n \in Nat
  OBVIOUS
<1>2. /\ x \in Seq(Nat) /\ Len(x) = n
      /\ \A i \in 1 .. n : x[i] = c[i]
  BY <1>1
<1>3. /\ y \in Seq(Nat) /\ Len(y) = Len(c) - n
      /\ \A i \in 1 .. Len(c) - n : y[i] = c[n + i]
  BY <1>1
<1> HIDE DEF x, y
<1>4. /\ r \o x \in Seq(Nat) /\ Len(r \o x) = Len(r) + n
      /\ \A i \in 1 .. Len(r) + n : (r \o x)[i] = IF i <= Len(r) THEN r[i] ELSE x[i - Len(r)]
  <2>1. x \in Seq(Nat) /\ Len(x) = n
    BY <1>2
  <2> QED  BY <2>1, ConcatProperties, Zenon
<1>5. ASSUME NEW i \in 1 .. Len(r) + n PROVE (r \o x)[i] = i
  <2>1. CASE i <= Len(r)
    <3>1. i \in 1 .. Len(r)
      BY <1>1, <2>1
    <3> QED  BY <1>4, <2>1, <3>1
  <2>2. CASE ~(i <= Len(r))
    <3>1. i - Len(r) \in 1 .. n /\ i - Len(r) \in 1 .. Len(c) /\ Len(r) + (i - Len(r)) = i
      BY <1>1, <2>2
    <3> QED  BY <1>2, <1>4, <2>2, <3>1, Zenon
  <2> QED  BY <2>1, <2>2, Zenon
<1>6. ASSUME NEW i \in 1 .. Len(c) - n PROVE y[i] = (Len(r) + n) + i
  <2>1. n + i \in 1 .. Len(c) /\ Len(r) + (n + i) = (Len(r) + n) + i
    BY <1>1
  <2> QED  BY <1>3, <2>1
<1>7. (Len(r) + n) + (Len(c) - n) = Len(r) + Len(c)
  BY <1>1
<1>8. /\ Len(r \o x) + Len(y) = Len(r) + Len(c)
      /\ \A i \in 1 .. Len(r \o x) : (r \o x)[i] = i
      /\ \A i \in 1 .. Len(y) : y[i] = Len(r \o x) + i
  BY <1>3, <1>4, <1>5, <1>6, <1>7, Zenon
<1> QED  BY <1>2, <1>3, <1>4, <1>8, Zenon DEF x, y

\* What the first message on its way is, to a peer that has no bytes in hand.
LEMMA FirstMessage ==
    ASSUME Inv, NEW p \in Peer, NEW s \in Peer, s = Other(p), outcome[p] = "running",
           down[p] = "running", chunk[p] = <<>>, wire[s] # <<>>
    PROVE  /\ Head(wire[s]) \in Item /\ Tail(wire[s]) \in Seq(Item)
           /\ Len(Tail(wire[s])) <= WireCap
           /\ Carries(Cat(Tail(wire[s]), queue[s]), Len(received[p]) + Len(Head(wire[s]).data),
                      sent[s], outcome[s] = "running", write_closed[s])
           /\ Len(received[p]) + Len(Head(wire[s]).data) <= sent[s]
           /\ \A k \in 1 .. Len(Head(wire[s]).data) :
                Head(wire[s]).data[k] = Len(received[p]) + k
           /\ Head(wire[s]).type = "eof" => Len(received[p]) = sent[s] /\ write_closed[s]
<1>1. Types /\ p = Other(s) /\ OnItsWay(s)
  BY Peers DEF Inv
<1>2. /\ wire[s] \in Seq(Item) /\ queue[s] \in Seq(Item) /\ sent[s] \in Nat
      /\ write_closed[s] \in BOOLEAN /\ Len(received[p]) \in Nat
      /\ Len(wire[s]) <= WireCap /\ Len(wire[s]) \in Nat /\ WireCap \in Nat
  BY <1>1, PeerTypes, BoundAssumption, Zenon DEF Types
<1>3. Len(received[p]) + Len(chunk[p]) = Len(received[p])
  <2>1. Len(chunk[p]) = 0
    BY EmptySeq, Zenon
  <2> QED  BY <1>2, <2>1
<1> DEFINE w == Cat(wire[s], queue[s])
<1>4. Carries(w, Len(received[p]), sent[s], outcome[s] = "running", write_closed[s])
  BY <1>1, <1>3, Zenon DEF OnItsWay
<1>5. /\ w \in Seq(Item) /\ w # <<>> /\ Head(w) = Head(wire[s])
      /\ Tail(w) = Cat(Tail(wire[s]), queue[s])
      /\ Head(wire[s]) \in Item /\ Tail(wire[s]) \in Seq(Item)
      /\ Len(Tail(wire[s])) <= Len(wire[s])
  BY ZenonT(30), <1>2, CatHead
<1> HIDE DEF w
<1>6. Len(Tail(wire[s])) <= WireCap
  <2>1. Len(Tail(wire[s])) \in Nat
    BY <1>5
  <2> QED  BY <1>2, <1>5, <2>1
<1>7. (outcome[s] = "running") \in BOOLEAN
  OBVIOUS
<1>8. /\ Carries(Tail(w), Len(received[p]) + Len(Head(w).data), sent[s],
                 outcome[s] = "running", write_closed[s])
      /\ Len(received[p]) + Len(Head(w).data) <= sent[s]
      /\ \A k \in 1 .. Len(Head(w).data) : Head(w).data[k] = Len(received[p]) + k
      /\ Head(w).type = "eof" => Len(received[p]) = sent[s] /\ write_closed[s]
  <2>1. PICK from \in Nat, limit \in Nat, full \in BOOLEAN, closed \in BOOLEAN :
          /\ from = Len(received[p]) /\ limit = sent[s]
          /\ full = (outcome[s] = "running") /\ closed = write_closed[s]
    BY <1>2, <1>7, Zenon
  <2>2. w \in Seq(Item) /\ w # <<>> /\ Carries(w, from, limit, full, closed)
    BY <1>4, <1>5, <2>1, Zenon
  <2>3. /\ Carries(Tail(w), from + Len(Head(w).data), limit, full, closed)
        /\ from + Len(Head(w).data) <= limit
        /\ \A k \in 1 .. Len(Head(w).data) : Head(w).data[k] = from + k
        /\ Head(w).type = "eof" => from = limit /\ closed
    BY <2>2, CarriesTail
  <2> QED  BY <2>1, <2>3, Zenon
<1> QED  BY <1>5, <1>6, <1>8, Zenon

\* What poll_fill_buf yields follows what was passed on, and what is behind it
\* is on its way.
LEMMA BufferedNext ==
    ASSUME Inv, NEW p \in Peer, NEW s \in Peer, s = Other(p), outcome[p] = "running",
           down[p] = "running", NEW n \in 1 .. Len(Buffered(p)), poll_read(p, n)
    PROVE  /\ Buffered(p) \in Seq(Nat)
           /\ \A i \in 1 .. Len(Buffered(p)) : Buffered(p)[i] = Len(received[p]) + i
           /\ Len(received[p]) + Len(Buffered(p)) <= sent[s]
           /\ wire' \in [Peer -> Seq(Item)]
           /\ \A r \in Peer : Len(wire'[r]) <= WireCap
           /\ wire'[p] = wire[p] /\ UNCHANGED <<queue, closing>>
           /\ Carries(Cat(wire'[s], queue[s]), Len(received[p]) + Len(Buffered(p)),
                      sent[s], outcome[s] = "running", write_closed[s])
<1>1. Types /\ p = Other(s) /\ p # s /\ OnItsWay(s) /\ Taken(p)
  BY Peers DEF Inv
<1>2. CASE chunk[p] # <<>>
  <2>1. Buffered(p) = chunk[p] /\ UNCHANGED <<queue, wire, closing>>
    BY <1>2, ZenonT(30) DEF Buffered, poll_read, sinkVars
  <2>2. chunk[p] \in Seq(Nat)
    BY <1>1, PeerTypes, ZenonT(30)
  <2>3. Carries(Cat(wire[s], queue[s]), Len(received[p]) + Len(chunk[p]),
                sent[s], outcome[s] = "running", write_closed[s])
    BY <1>1, Zenon DEF OnItsWay
  <2>4. /\ Len(received[p]) + Len(chunk[p]) <= sent[s]
        /\ \A i \in 1 .. Len(chunk[p]) : chunk[p][i] = Len(received[p]) + i
    BY <1>1, Zenon DEF Taken
  <2>5. wire' \in [Peer -> Seq(Item)] /\ \A r \in Peer : Len(wire'[r]) <= WireCap
    BY <1>1, <2>1, ZenonT(30) DEF Types
  <2> QED  BY <2>1, <2>2, <2>3, <2>4, <2>5, Zenon
<1>3. CASE chunk[p] = <<>>
  <2>1. /\ wire[s] # <<>> /\ UNCHANGED <<queue, closing>>
        /\ wire' = [wire EXCEPT ![s] = Tail(@)]
    BY <1>3, ZenonT(30) DEF poll_read, NextMessage
  <2>2. Buffered(p) = Head(wire[s]).data
    BY ZenonT(30), <1>3, <2>1 DEF Buffered
  <2>3. /\ Head(wire[s]) \in Item /\ Tail(wire[s]) \in Seq(Item)
        /\ Len(Tail(wire[s])) <= WireCap
        /\ Carries(Cat(Tail(wire[s]), queue[s]), Len(received[p]) + Len(Head(wire[s]).data),
                   sent[s], outcome[s] = "running", write_closed[s])
        /\ Len(received[p]) + Len(Head(wire[s]).data) <= sent[s]
        /\ \A k \in 1 .. Len(Head(wire[s]).data) :
             Head(wire[s]).data[k] = Len(received[p]) + k
    BY <1>3, <2>1, FirstMessage, Zenon
  <2>4. Head(wire[s]).data \in Seq(Nat)
    BY <2>3, ZenonT(30) DEF Item
  <2>5. wire'[s] = Tail(wire[s]) /\ wire'[p] = wire[p]
    BY <1>1, <2>1, Zenon DEF Types
  <2>6. wire' \in [Peer -> Seq(Item)]
    BY <1>1, <2>1, <2>3, Zenon DEF Types
  <2>7. \A r \in Peer : Len(wire'[r]) <= WireCap
    BY <1>1, <2>1, <2>3, Zenon DEF Types
  <2> QED  BY <2>1, <2>2, <2>3, <2>4, <2>5, <2>6, <2>7, Zenon
<1> QED  BY <1>2, <1>3, ZenonT(30)

\* Bytes are read from the websocket.
LEMMA DownDataInv ==
    ASSUME Inv, NEW p \in Peer, DownData(p)
    PROVE  Inv'
<1> DEFINE s == Other(p)
<1>1. s \in Peer /\ s = Other(p) /\ p = Other(s) /\ p # s /\ Types /\ Taken(p)
  BY Peers DEF Inv
<1> HIDE DEF s
<1>2. /\ UNCHANGED <<produced, app_eof, sent, up, down, outcome>>
      /\ outcome[p] = "running" /\ down[p] = "running"
  BY DEF DownData, Turn, appVars
<1>3. PICK n \in 1 .. Len(Buffered(p)) :
        /\ poll_read(p, n)
        /\ received' = [received EXCEPT ![p] = @ \o SubSeq(Buffered(p), 1, n)]
  BY Zenon DEF DownData
<1>4. /\ chunk' = [chunk EXCEPT ![p] = SubSeq(Buffered(p), n + 1, Len(Buffered(p)))]
      /\ UNCHANGED <<read_closed, write_closed>>
  BY <1>3 DEF poll_read
<1>5. /\ Buffered(p) \in Seq(Nat)
      /\ \A i \in 1 .. Len(Buffered(p)) : Buffered(p)[i] = Len(received[p]) + i
      /\ Len(received[p]) + Len(Buffered(p)) <= sent[s]
      /\ wire' \in [Peer -> Seq(Item)]
      /\ \A r \in Peer : Len(wire'[r]) <= WireCap
      /\ wire'[p] = wire[p] /\ UNCHANGED <<queue, closing>>
      /\ Carries(Cat(wire'[s], queue[s]), Len(received[p]) + Len(Buffered(p)),
                 sent[s], outcome[s] = "running", write_closed[s])
  BY <1>1, <1>2, <1>3, BufferedNext, ZenonT(30)
<1> DEFINE c == Buffered(p)
           r1 == received[p]
           r2 == r1 \o SubSeq(c, 1, n)
           c2 == SubSeq(c, n + 1, Len(c))
<1>6. /\ r1 \in Seq(Nat) /\ c \in Seq(Nat) /\ n \in 1 .. Len(c)
      /\ \A i \in 1 .. Len(r1) : r1[i] = i
      /\ \A i \in 1 .. Len(c) : c[i] = Len(r1) + i
  BY ZenonT(30), <1>1, <1>3, <1>5, PeerTypes DEF Taken
<1>7. received' = [received EXCEPT ![p] = r2] /\ chunk' = [chunk EXCEPT ![p] = c2]
  BY <1>3, <1>4
<1>8. /\ r2 \in Seq(Nat) /\ c2 \in Seq(Nat)
      /\ Len(r2) + Len(c2) = Len(r1) + Len(c)
      /\ \A i \in 1 .. Len(r2) : r2[i] = i
      /\ \A i \in 1 .. Len(c2) : c2[i] = Len(r2) + i
  <2> HIDE DEF c, r1
  <2> QED  BY <1>6, TakenMoves, Zenon
<1> HIDE DEF r2, c2
<1>9. /\ received' \in [Peer -> Seq(Nat)] /\ chunk' \in [Peer -> Seq(Nat)]
      /\ received'[p] = r2 /\ chunk'[p] = c2
      /\ received'[s] = received[s] /\ chunk'[s] = chunk[s]
  BY <1>1, <1>7, <1>8, ZenonT(30) DEF Types
<1>10. Types'
  BY <1>1, <1>2, <1>4, <1>5, <1>9, Zenon DEF Types
<1>11. ASSUME NEW r \in Peer PROVE Ending(r)'
  BY <1>2, <1>4, <1>5, Zenon DEF Inv, Ending
<1>12. Taken(s)' /\ Complete(s)'
  BY <1>1, <1>2, <1>9, SameTaken, ZenonT(30) DEF Inv
<1>13. Complete(p)'
  BY <1>2 DEF Complete
<1>14. Taken(p)'
  <2>1. Len(r2) + Len(c2) <= sent[s]
    BY <1>5, <1>8
  <2> QED  BY <1>1, <1>2, <1>8, <1>9, <2>1, ZenonT(30) DEF Taken
<1>15. OnItsWay(p)'
  <2>1. Cat(wire'[p], queue'[p]) = Cat(wire[p], queue[p])
    BY <1>5, Zenon
  <2> QED  BY <1>1, <1>2, <1>4, <1>9, <2>1, SameWay, Zenon DEF Inv
<1>16. OnItsWay(s)'
  <2>1. Carries(Cat(wire'[s], queue[s]), Len(r2) + Len(c2),
                sent[s], outcome[s] = "running", write_closed[s])
    BY <1>5, <1>8
  <2> QED  BY <1>1, <1>2, <1>4, <1>5, <1>9, <2>1, ZenonT(30) DEF OnItsWay
<1> QED  BY <1>1, <1>10, <1>11, <1>12, <1>13, <1>14, <1>15, <1>16, Peers DEF Inv

\* The EOF of the peer is read: it comes after all the peer had to send.
LEMMA DownEofInv ==
    ASSUME Inv, NEW p \in Peer, DownEof(p)
    PROVE  Inv'
<1> DEFINE s == Other(p)
<1>1. s \in Peer /\ s = Other(p) /\ p = Other(s) /\ p # s /\ Types /\ Ending(s)
  BY Peers, ZenonT(30) DEF Inv
<1> HIDE DEF s
<1>2. /\ UNCHANGED <<produced, app_eof, sent, received, up, outcome, write_closed, chunk, queue,
                     closing>>
      /\ outcome[p] = "running" /\ down[p] = "running" /\ chunk[p] = <<>>
      /\ wire[s] # <<>> /\ Head(wire[s]) = EOF_MESSAGE
      /\ wire' = [wire EXCEPT ![s] = Tail(@)]
      /\ read_closed' = [read_closed EXCEPT ![p] = TRUE]
      /\ down' = [down EXCEPT ![p] = "done"]
  BY <1>1, ZenonT(30) DEF DownEof, Turn, appVars, poll_fill_buf_eof, NextMessage
<1>3. /\ Tail(wire[s]) \in Seq(Item) /\ Len(Tail(wire[s])) <= WireCap
      /\ Head(wire[s]).type = "eof" => Len(received[p]) = sent[s] /\ write_closed[s]
  BY <1>1, <1>2, FirstMessage, Zenon
<1>4. Len(received[p]) = sent[s] /\ write_closed[s]
  <2>1. EOF_MESSAGE.type = "eof"
    BY DEF EOF_MESSAGE
  <2>2. Head(wire[s]).type = "eof"
    BY <1>2, <2>1, Zenon
  <2> QED  BY <1>3, <2>2, Zenon
<1>5. app_eof[s] /\ sent[s] = produced[s]
  BY <1>1, <1>4, Zenon DEF Ending
<1>6. /\ wire'[p] = wire[p] /\ down'[p] = "done" /\ down'[s] = down[s]
      /\ read_closed'[p] = TRUE /\ read_closed'[s] = read_closed[s]
  BY <1>1, <1>2, Zenon DEF Types
<1>7. Types'
  <2>1. wire' \in [Peer -> Seq(Item)] /\ \A r \in Peer : Len(wire'[r]) <= WireCap
    BY <1>1, <1>2, <1>3, Zenon DEF Types
  <2>2. /\ read_closed' \in [Peer -> BOOLEAN]
        /\ down' \in [Peer -> {"running", "done"}]
    BY <1>1, <1>2, Zenon DEF Types
  <2> QED  BY <1>1, <1>2, <2>1, <2>2, Zenon DEF Types
<1>8. Ending(p)' /\ Ending(s)'
  BY <1>1, <1>2, <1>6, Zenon DEF Inv, Ending
<1>9. Taken(s)' /\ Complete(s)'
  BY <1>1, <1>2, <1>6, SameTaken, Zenon DEF Inv
<1>10. Taken(p)' /\ Complete(p)'
  <2>1. Taken(p)'
    BY <1>2, ZenonT(30) DEF Inv, Taken
  <2>2. Complete(p)'
    BY <1>1, <1>2, <1>4, <1>5, Zenon DEF Complete
  <2> QED  BY <2>1, <2>2
<1>11. OnItsWay(p)'
  BY <1>1, <1>2, <1>6, SameWay, Zenon DEF Inv
<1>12. OnItsWay(s)'
  BY <1>1, <1>6, Zenon DEF OnItsWay
<1> QED  BY <1>1, <1>7, <1>8, <1>9, <1>10, <1>11, <1>12, Peers DEF Inv

-----------------------------------------------------------------------------
(* All steps *)

\* What poll_flush writes out, and what the sink does by itself.
LEMMA WritesInv ==
    ASSUME Inv, NEW p \in Peer, Spill(p) \/ UpFull(p) \/ UpIdle(p) \/ UpFinish(p)
    PROVE  Inv'
<1> DEFINE n == Writable(p, queue[p])
<1>1. Types /\ queue[p] \in Seq(Item)
  BY DEF Inv, Types
<1>2. /\ n \in 0 .. Len(queue[p])
      /\ outcome[Other(p)] = "running" => Len(wire[p]) + n <= WireCap
  BY <1>1, WritableType
<1>3. CASE Spill(p)
  <2>1. /\ n > 0 /\ WriteOut(p, queue[p], 1)
        /\ UNCHANGED <<appVars, ioVars, closing, sent, received, down, outcome, up>>
    BY <1>3 DEF Spill, copyVars
  <2> HIDE DEF n
  <2>2. Len(wire[p]) \in Nat /\ Len(queue[p]) \in Nat /\ WireCap \in Nat
    BY <1>1, PeerTypes, BoundAssumption
  <2>3. 1 \in 0 .. Len(queue[p])
    BY <1>2, <2>1, <2>2
  <2>4. outcome[Other(p)] = "running" => Len(wire[p]) + 1 <= WireCap
    BY <1>2, <2>1, <2>2, SMT, SMTT(30)
  <2> QED  BY <2>1, <2>3, <2>4, FlushInv, ZenonT(30)
<1>4. CASE UpFull(p) \/ UpIdle(p)
  <2>1. /\ WriteOut(p, queue[p], n)
        /\ UNCHANGED <<appVars, ioVars, closing, sent, received, down, outcome, up>>
    BY <1>4, Zenon DEF UpFull, UpIdle, poll_flush, copyVars
  <2> HIDE DEF n
  <2> QED  BY <1>2, <2>1, FlushInv
<1>5. CASE UpFinish(p)
  <2>1. /\ WriteOut(p, queue[p], n)
        /\ UNCHANGED <<appVars, ioVars, closing, sent, received, down, outcome>>
    BY <1>5, Zenon DEF UpFinish, poll_flush
  <2>2. \/ up' = up
        \/ (up' = [up EXCEPT ![p] = "shutting"] /\ app_eof[p] /\ sent[p] = produced[p])
    BY <1>5, Zenon DEF UpFinish
  <2> HIDE DEF n
  <2> QED  BY <1>2, <2>1, <2>2, FlushInv, Zenon
<1> QED  BY <1>3, <1>4, <1>5

\* Every step of a tunnel preserves the invariant.
LEMMA NextInv == Inv /\ [Next]_vars => Inv'
<1> SUFFICES ASSUME Inv, [Next]_vars PROVE Inv'
  OBVIOUS
<1>1. CASE UNCHANGED vars
  <2>1. UNCHANGED <<ioVars, sinkVars, copyVars>> /\ UNCHANGED appVars
    BY <1>1 DEF vars
  <2> QED  BY <2>1, QuietInv
<1>2. ASSUME NEW p \in Peer, Task(p) \/ Local(p) \/ Spill(p) PROVE Inv'
  <2>1. CASE Poll(p) \/ DownPending(p) \/ DownDone(p)
    <3>1. UNCHANGED <<ioVars, sinkVars, copyVars>> /\ UNCHANGED appVars
      BY <2>1, Zenon DEF Poll, DownPending, DownDone
    <3> QED  BY <3>1, QuietInv
  <2>2. CASE LocalData(p) \/ LocalEof(p)
    <3>1. UNCHANGED <<ioVars, sinkVars, copyVars>>
      BY <2>2 DEF LocalData, LocalEof
    <3> QED  BY <2>2, <3>1, QuietInv
  <2>3. CASE LocalFails(p)
    BY <2>3, LocalFailsInv
  <2>4. CASE UpWrite(p)
    BY <2>4, UpWriteInv
  <2>5. CASE Spill(p) \/ UpFull(p) \/ UpIdle(p) \/ UpFinish(p)
    BY <2>5, WritesInv
  <2>6. CASE UpShutdown(p)
    BY <2>6, ShutdownWaitingInv, ShutdownClosingInv DEF UpShutdown
  <2>7. CASE UpFails(p) \/ DownFails(p) \/ CopyDone(p)
    <3>1. /\ \E o \in {"ok", "failed"} : outcome' = [outcome EXCEPT ![p] = o]
          /\ UNCHANGED <<appVars, ioVars, sinkVars, sent, received, up, down>>
      BY <2>7, ZenonT(30) DEF UpFails, DownFails, CopyDone
    <3> QED  BY <3>1, OutcomeInv, Zenon
  <2>8. CASE DownData(p)
    BY <2>8, DownDataInv
  <2>9. CASE DownEof(p)
    BY <2>9, DownEofInv
  <2> QED  BY <1>2, <2>1, <2>2, <2>3, <2>4, <2>5, <2>6, <2>7, <2>8, <2>9 DEF Task, Local
<1> QED  BY <1>1, <1>2 DEF Next

\* The invariant of a tunnel holds at every time.
THEOREM InvAlways == Spec => []Inv
  BY InitInv, NextInv, PTL DEF Spec

(***************************************************************************)
(* Bytes arrive in the order they were sent, none twice and none missing,  *)
(* whatever the sizes of messages and reads and whichever side fails.      *)
(***************************************************************************)
THEOREM InOrder == Spec => []DeliveredInOrder
<1>1. Inv => DeliveredInOrder
  <2> SUFFICES ASSUME Inv, NEW p \in Peer
               PROVE  /\ Len(received[p] \o chunk[p]) <= sent[Other(p)]
                      /\ \A i \in DOMAIN (received[p] \o chunk[p]) :
                           (received[p] \o chunk[p])[i] = i
    BY Zenon DEF DeliveredInOrder
  <2> DEFINE r == received[p]
             c == chunk[p]
  <2>1. r \in Seq(Nat) /\ c \in Seq(Nat) /\ Len(r) \in Nat /\ Len(c) \in Nat
    BY PeerTypes DEF Inv
  <2>2. /\ Len(r) + Len(c) <= sent[Other(p)]
        /\ \A i \in 1 .. Len(r) : r[i] = i
        /\ \A i \in 1 .. Len(c) : c[i] = Len(r) + i
    BY Zenon DEF Inv, Taken
  <2> HIDE DEF r, c
  <2>3. /\ r \o c \in Seq(Nat) /\ Len(r \o c) = Len(r) + Len(c)
        /\ \A i \in 1 .. Len(r) + Len(c) :
             (r \o c)[i] = IF i <= Len(r) THEN r[i] ELSE c[i - Len(r)]
    BY <2>1, ConcatProperties, Zenon
  <2>4. DOMAIN (r \o c) = 1 .. Len(r) + Len(c)
    BY <2>3
  <2>5. ASSUME NEW i \in 1 .. Len(r) + Len(c) PROVE (r \o c)[i] = i
    <3>1. CASE i <= Len(r)
      <4>1. i \in 1 .. Len(r)
        BY <2>1, <3>1
      <4> QED  BY <2>2, <2>3, <3>1, <4>1
    <3>2. CASE ~(i <= Len(r))
      <4>1. i - Len(r) \in 1 .. Len(c) /\ Len(r) + (i - Len(r)) = i
        BY <2>1, <3>2
      <4> QED  BY <2>2, <2>3, <3>2, <4>1
    <3> QED  BY <3>1, <3>2
  <2>6. Len(r \o c) <= sent[Other(p)] /\ \A i \in DOMAIN (r \o c) : (r \o c)[i] = i
    BY <2>2, <2>3, <2>4, <2>5, Zenon
  <2> QED  BY <2>6, Zenon DEF r, c
<1> QED  BY <1>1, InvAlways, PTL

(***************************************************************************)
(* A local connection is told end of file only when it has received all    *)
(* that the far end sent, whichever side fails and when.                   *)
(***************************************************************************)
THEOREM EofAfterAll == Spec => []EndOfFileIsComplete
<1>1. Inv => EndOfFileIsComplete
  BY ZenonT(30) DEF Inv, Complete, EndOfFileIsComplete
<1> QED  BY <1>1, InvAlways, PTL

(***************************************************************************)
(* poll_shutdown closes the websocket only when both sides are done.       *)
(***************************************************************************)
THEOREM ClosedAfterBoth == Spec => []ClosedOnlyWhenBothDone
<1>1. Inv => ClosedOnlyWhenBothDone
  BY DEF Inv, Ending, Complete, ClosedOnlyWhenBothDone
<1> QED  BY <1>1, InvAlways, PTL


-----------------------------------------------------------------------------
(* Types and capacities *)

\* The sink asks for a flush at SinkCap, so no data is queued behind that place;
\* EOF and the Close frame, for which poll_shutdown does not ask, may be.
Within(q) == \A i \in 1 .. Len(q) : q[i].type = "binary" => i <= SinkCap

Counts ==
    \A p \in Peer : /\ produced[p] \in 0 .. Bytes(p)
                    /\ sent[p] \in 0 .. Bytes(p)
                    /\ sent[p] <= produced[p]

Data ==
    /\ received \in [Peer -> Seq(Byte)]
    /\ chunk \in [Peer -> Seq(Byte)]
    /\ queue \in [Peer -> Seq(Message)]
    /\ wire \in [Peer -> Seq(Message)]
    /\ \A p \in Peer : Within(queue[p])

Tasks ==
    /\ turn \in [Peer -> {"idle", "up", "down"}]
    /\ woken \in [Peer -> BOOLEAN]
    /\ wakers \in [Peer -> SUBSET Sources]
    /\ fault \in BOOLEAN

\* What TypeOK adds to Types, in an inductive form.
Fits == Counts /\ Data /\ Tasks

LEMMA ByteType ==
    /\ Byte \subseteq Nat
    /\ \A p \in Peer : Bytes(p) \in Nat /\ 1 .. Bytes(p) \subseteq Byte
<1>1. \A p \in Peer : Bytes(p) \in Nat
  BY BoundAssumption DEF Bytes, Peer
<1>2. Client \in Peer /\ Server \in Peer /\ \A p \in Peer : p = Client \/ p = Server
  BY DEF Peer
<1> QED BY <1>1, <1>2 DEF Byte

LEMMA MessageType ==
    /\ EOF_MESSAGE \in Message /\ EOF_MESSAGE.type # "binary"
    /\ CloseFrame \in Message /\ CloseFrame.type # "binary"
    /\ \A data \in Seq(Byte) : Binary(data) \in Message
    /\ \A m \in Message : m.data \in Seq(Byte)
<1>1. <<>> \in Seq(Byte)
  OBVIOUS
<1> QED BY <1>1 DEF EOF_MESSAGE, CloseFrame, Binary, Message

LEMMA MessagesAreItems == Message \subseteq Item /\ Seq(Message) \subseteq Seq(Item)
<1>1. Seq(Byte) \subseteq Seq(Nat)
  BY ByteType, SeqOfMore, Zenon
<1>2. Message \subseteq Item
  BY <1>1 DEF Message, Item
<1> QED BY <1>2, SeqOfMore, Zenon

\* Messages written out leave the others in the sink nearer to its front.
LEMMA WriteOutFits ==
    ASSUME Data, NEW p \in Peer, NEW q \in Seq(Message), NEW n \in 0 .. Len(q),
           Within(q), WriteOut(p, q, n)
    PROVE  /\ queue' \in [Peer -> Seq(Message)] /\ wire' \in [Peer -> Seq(Message)]
           /\ \A r \in Peer : Within(queue'[r])
<1> DEFINE x == SubSeq(q, 1, n)
           y == SubSeq(q, n + 1, Len(q))
<1>1. /\ x \in Seq(Message) /\ y \in Seq(Message)
      /\ Len(y) = Len(q) - n
      /\ \A i \in 1 .. Len(q) - n : y[i] = q[n + i]
  OBVIOUS
<1>2. ASSUME NEW i \in 1 .. Len(y), y[i].type = "binary"
      PROVE  i <= SinkCap
  <2>1. n + i \in 1 .. Len(q) /\ y[i] = q[n + i]
    BY <1>1
  <2>2. n + i <= SinkCap
    BY <1>2, <2>1 DEF Within
  <2> QED BY <2>2, <1>1, BoundAssumption
<1>3. Within(y)
  BY <1>2 DEF Within
<1>4. /\ queue' = [queue EXCEPT ![p] = y]
      /\ wire' = IF outcome[Other(p)] # "running" THEN wire ELSE [wire EXCEPT ![p] = Cat(@, x)]
  BY DEF WriteOut, Cat
<1> HIDE DEF x, y
<1>5. Cat(wire[p], x) \in Seq(Message)
  BY <1>1, CatType DEF Data
<1> QED BY <1>1, <1>3, <1>4, <1>5 DEF Data

\* A message is queued that is no data, or for which there is room.
LEMMA AppendFits ==
    ASSUME NEW q \in Seq(Message), Within(q), NEW m \in Message,
           m.type = "binary" => Len(q) < SinkCap
    PROVE  Append(q, m) \in Seq(Message) /\ Within(Append(q, m))
<1>1. /\ Append(q, m) \in Seq(Message) /\ Len(q) \in Nat
      /\ Len(Append(q, m)) = Len(q) + 1 /\ Append(q, m)[Len(q) + 1] = m
      /\ \A i \in 1 .. Len(q) : Append(q, m)[i] = q[i]
  BY AppendProperties
<1>2. ASSUME NEW i \in 1 .. Len(q) + 1, Append(q, m)[i].type = "binary"
      PROVE  i <= SinkCap
  <2>1. CASE i \in 1 .. Len(q)
    BY <1>1, <1>2, <2>1 DEF Within
  <2>2. CASE i = Len(q) + 1
    BY <1>1, <1>2, <2>2, BoundAssumption
  <2> QED BY <1>1, <2>1, <2>2
<1> QED BY <1>1, <1>2 DEF Within

LEMMA ClosingQueueFits ==
    ASSUME Data, NEW p \in Peer
    PROVE  ClosingQueue(p) \in Seq(Message) /\ Within(ClosingQueue(p))
<1> DEFINE a == queue[p]
           b == IF write_closed[p] THEN a ELSE Append(a, EOF_MESSAGE)
           c == IF closing[p] THEN b ELSE Append(b, CloseFrame)
<1>1. a \in Seq(Message) /\ Within(a)
  BY DEF Data
<1> HIDE DEF a
<1>2. b \in Seq(Message) /\ Within(b)
  BY <1>1, AppendFits, MessageType
<1> HIDE DEF b
<1>3. c \in Seq(Message) /\ Within(c)
  BY <1>2, AppendFits, MessageType
<1>4. b = a \o (IF write_closed[p] THEN <<>> ELSE <<EOF_MESSAGE>>)
  BY <1>1, MessageType, AppendIsConcat, ConcatEmptySeq DEF b
<1>5. c = b \o (IF closing[p] THEN <<>> ELSE <<CloseFrame>>)
  BY <1>2, MessageType, AppendIsConcat, ConcatEmptySeq
<1> HIDE DEF c
<1>6. ClosingQueue(p) = c
  BY <1>4, <1>5, Zenon DEF ClosingQueue, a
<1> QED BY <1>3, <1>6, Zenon

LEMMA WakersFit ==
    ASSUME Tasks, NEW leave, NEW wake, Wakers(leave, wake)
    PROVE  woken' \in [Peer -> BOOLEAN] /\ wakers' \in [Peer -> SUBSET Sources]
BY Zenon DEF Wakers, Tasks

LEMMA EndTurnFits ==
    ASSUME Tasks, NEW p \in Peer, EndTurn(p)
    PROVE  turn' \in [Peer -> {"idle", "up", "down"}]
<1>1. Order(p)[1] \in {"idle", "up", "down"} /\ Order(p)[2] \in {"idle", "up", "down"}
  BY DEF Order
<1> QED BY <1>1 DEF EndTurn, Tasks


\* Local bytes are counted up to what the connection sends, and copied once.
LEMMA CountsStep ==
    ASSUME Types, Counts, NEW p \in Peer, Task(p) \/ Local(p) \/ Spill(p)
    PROVE  Counts'
<1>1. CASE UNCHANGED <<produced, sent>>
  BY <1>1 DEF Counts
<1>2. CASE LocalData(p)
  BY <1>2, ByteType DEF LocalData, Counts, copyVars, Types
<1>3. CASE UpWrite(p)
  <2>1. PICK n \in 1 .. produced[p] - sent[p] : sent' = [sent EXCEPT ![p] = @ + n]
    BY ZenonT(30), <1>3 DEF UpWrite
  <2>2. UNCHANGED produced
    BY <1>3 DEF UpWrite, appVars
  <2> QED BY <2>1, <2>2, ByteType DEF Counts, Types
<1>4. CASE UpFull(p) \/ UpIdle(p) \/ UpFinish(p) \/ UpShutdown(p) \/ UpFails(p)
  <2>1. UNCHANGED <<produced, sent>>
    BY <1>4, Zenon DEF UpFull, UpIdle, UpFinish, UpShutdown, UpFails, appVars, copyVars
  <2> QED BY <1>1, <2>1
<1>5. CASE DownData(p) \/ DownEof(p) \/ DownPending(p) \/ DownDone(p) \/ DownFails(p)
  <2>1. UNCHANGED <<produced, sent>>
    BY <1>5, Zenon DEF DownData, DownEof, DownPending, DownDone, DownFails, appVars, copyVars
  <2> QED BY <1>1, <2>1
<1>6. CASE Poll(p) \/ CopyDone(p) \/ LocalEof(p) \/ LocalFails(p) \/ Spill(p)
  <2>1. UNCHANGED <<produced, sent>>
    BY <1>6, Zenon DEF Poll, CopyDone, LocalEof, LocalFails, Spill, appVars, copyVars
  <2> QED BY <1>1, <2>1
<1> QED BY <1>2, <1>3, <1>4, <1>5, <1>6, Zenon DEF Task, Local

\* Wakers are left with, and taken from, the four sources only.
LEMMA TasksStep ==
    ASSUME Tasks, NEW p \in Peer, Task(p) \/ Local(p) \/ Spill(p)
    PROVE  Tasks'
<1>1. ASSUME \/ \E leave, wake : Wakers(leave, wake)
             \/ UNCHANGED <<woken, wakers>>,
             EndTurn(p) \/ UNCHANGED turn,
             UNCHANGED fault \/ fault' = TRUE
      PROVE  Tasks'
  <2>1. woken' \in [Peer -> BOOLEAN] /\ wakers' \in [Peer -> SUBSET Sources]
    BY <1>1, WakersFit, Zenon DEF Tasks
  <2>2. turn' \in [Peer -> {"idle", "up", "down"}]
    BY <1>1, EndTurnFits, Zenon DEF Tasks
  <2>3. fault' \in BOOLEAN
    BY <1>1, Zenon DEF Tasks
  <2> QED BY <2>1, <2>2, <2>3, Zenon DEF Tasks
<1>2. CASE Poll(p)
  <2>1. Order(p)[1] \in {"idle", "up", "down"}
    BY DEF Order
  <2> QED BY <1>2, <2>1 DEF Poll, Tasks
<1>3. CASE UpWrite(p) \/ UpFull(p) \/ UpIdle(p)
  <2>1. (\E leave, wake : Wakers(leave, wake)) \/ UNCHANGED <<woken, wakers>>
    BY <1>3, Zenon DEF UpWrite, UpFull, UpIdle, poll_write, poll_flush
  <2>2. (EndTurn(p) \/ UNCHANGED turn) /\ UNCHANGED fault
    BY <1>3, Zenon DEF UpWrite, UpFull, UpIdle
  <2> QED BY <1>1, <2>1, <2>2, Zenon
<1>4. CASE UpFinish(p)
  <2>1. (\E leave, wake : Wakers(leave, wake)) \/ UNCHANGED <<woken, wakers>>
    BY <1>4, Zenon DEF UpFinish, poll_flush
  <2>2. (EndTurn(p) \/ UNCHANGED turn) /\ UNCHANGED fault
    BY <1>4, Zenon DEF UpFinish
  <2> QED BY <1>1, <2>1, <2>2, Zenon
<1>5. CASE UpShutdown(p)
  <2>1. (\E leave, wake : Wakers(leave, wake)) \/ UNCHANGED <<woken, wakers>>
    BY <1>5, Zenon DEF UpShutdown, poll_shutdown_waiting, poll_shutdown_closing
  <2>2. (EndTurn(p) \/ UNCHANGED turn) /\ UNCHANGED fault
    BY <1>5, Zenon DEF UpShutdown
  <2> QED BY <1>1, <2>1, <2>2, Zenon
<1>6. CASE DownData(p)
  <2>1. (\E leave, wake : Wakers(leave, wake)) \/ UNCHANGED <<woken, wakers>>
    BY <1>6, Zenon DEF DownData, poll_read
  <2>2. (EndTurn(p) \/ UNCHANGED turn) /\ UNCHANGED fault
    BY <1>6, Zenon DEF DownData
  <2> QED BY <1>1, <2>1, <2>2, Zenon
<1>7. CASE DownEof(p) \/ DownPending(p) \/ DownDone(p)
  <2>1. (\E leave, wake : Wakers(leave, wake)) \/ UNCHANGED <<woken, wakers>>
    BY <1>7, Zenon DEF DownEof, DownPending, DownDone, poll_fill_buf_eof
  <2>2. (EndTurn(p) \/ UNCHANGED turn) /\ UNCHANGED fault
    BY <1>7, Zenon DEF DownEof, DownPending, DownDone
  <2> QED BY <1>1, <2>1, <2>2, Zenon
<1>8. CASE UpFails(p) \/ DownFails(p) \/ CopyDone(p) \/ Spill(p)
  <2>1. (\E leave, wake : Wakers(leave, wake)) \/ UNCHANGED <<woken, wakers>>
    BY <1>8, Zenon DEF UpFails, DownFails, CopyDone, Spill, taskVars
  <2>2. (EndTurn(p) \/ UNCHANGED turn) /\ UNCHANGED fault
    BY <1>8, Zenon DEF UpFails, DownFails, CopyDone, Spill, taskVars
  <2> QED BY <1>1, <2>1, <2>2, Zenon
<1>9. CASE Local(p)
  <2>1. (\E leave, wake : Wakers(leave, wake)) \/ UNCHANGED <<woken, wakers>>
    BY <1>9, Zenon DEF Local, LocalData, LocalEof, LocalFails
  <2>2. UNCHANGED turn /\ (UNCHANGED fault \/ fault' = TRUE)
    BY <1>9, Zenon DEF Local, LocalData, LocalEof, LocalFails
  <2> QED BY <1>1, <2>1, <2>2, Zenon
<1> QED BY <1>2, <1>3, <1>4, <1>5, <1>6, <1>7, <1>8, <1>9, Zenon DEF Task


\* poll_flush and the sink itself write out some of what is queued.
LEMMA FlushFits ==
    ASSUME Types, Data, NEW p \in Peer, Spill(p) \/ UpFull(p) \/ UpIdle(p) \/ UpFinish(p)
    PROVE  Data'
<1>1. queue[p] \in Seq(Message) /\ queue[p] \in Seq(Item) /\ Within(queue[p])
  BY MessagesAreItems DEF Data
<1>2. Writable(p, queue[p]) \in 0 .. Len(queue[p])
  BY <1>1, WritableType
<1>3. PICK n \in 0 .. Len(queue[p]) : WriteOut(p, queue[p], n)
  <2>1. CASE Spill(p)
    <3>1. 1 \in 0 .. Len(queue[p])
      <4>1. Writable(p, queue[p]) > 0
        BY <2>1, Zenon DEF Spill
      <4>2. Len(queue[p]) \in Nat
        BY <1>1, LenProperties, Zenon
      <4> QED BY <1>2, <4>1, <4>2
    <3> QED BY <2>1, <3>1, Zenon DEF Spill
  <2>2. CASE UpFull(p) \/ UpIdle(p) \/ UpFinish(p)
    <3>1. WriteOut(p, queue[p], Writable(p, queue[p]))
      BY <2>2, Zenon DEF UpFull, UpIdle, UpFinish, poll_flush
    <3> QED BY <1>2, <3>1, Zenon
  <2> QED BY <2>1, <2>2
<1>4. UNCHANGED <<received, chunk>>
  BY Zenon DEF Spill, UpFull, UpIdle, UpFinish, poll_flush, copyVars, ioVars
<1>5. /\ queue' \in [Peer -> Seq(Message)] /\ wire' \in [Peer -> Seq(Message)]
      /\ \A r \in Peer : Within(queue'[r])
  BY <1>1, <1>3, WriteOutFits
<1> QED BY <1>4, <1>5, Zenon DEF Data

\* The places behind the first a of b, when no more than c exist.
LEMMA NextPlaces ==
    ASSUME NEW a \in Nat, NEW b \in Nat, NEW c \in Nat, b <= c, NEW k \in 1 .. b - a
    PROVE  k \in Nat /\ \A i \in 1 .. k : a + i \in 1 .. c
OBVIOUS

\* The bytes of a message are some that the local connection has sent.
LEMMA UpWriteFits ==
    ASSUME Types, Counts, Data, NEW p \in Peer, UpWrite(p)
    PROVE  Data'
<1>1. PICK n \in 1 .. produced[p] - sent[p] : poll_write(p, [i \in 1 .. n |-> sent[p] + i])
  BY DEF UpWrite
<1> DEFINE d == [i \in 1 .. n |-> sent[p] + i]
<1>2. d \in Seq(Byte)
  <2>1. /\ produced[p] \in Nat /\ sent[p] \in Nat /\ Bytes(p) \in Nat
        /\ produced[p] <= Bytes(p) /\ 1 .. Bytes(p) \subseteq Byte
    BY ByteType DEF Counts, Types
  <2>2. n \in Nat /\ \A i \in 1 .. n : sent[p] + i \in 1 .. Bytes(p)
    BY <2>1, NextPlaces, ZenonT(30)
  <2>3. d \in [1 .. n -> Byte]
    BY <2>1, <2>2, ZenonT(30)
  <2> QED BY <2>2, <2>3, SeqDef
<1> HIDE DEF d
<1>3. Binary(d) \in Message /\ queue[p] \in Seq(Message) /\ Within(queue[p])
  BY <1>2, MessageType DEF Data
<1>4. Len(queue[p]) < SinkCap /\ queue' = [queue EXCEPT ![p] = Append(@, Binary(d))]
  BY <1>1, Zenon DEF poll_write, d
<1>5. Append(queue[p], Binary(d)) \in Seq(Message) /\ Within(Append(queue[p], Binary(d)))
  BY <1>3, <1>4, AppendFits
<1>6. UNCHANGED <<received, chunk, wire>>
  BY <1>1, Zenon DEF UpWrite, poll_write, ioVars
<1> QED BY <1>4, <1>5, <1>6 DEF Data

LEMMA UpShutdownFits ==
    ASSUME Types, Data, NEW p \in Peer, UpShutdown(p)
    PROVE  Data'
<1>1. UNCHANGED <<received, chunk>>
  BY Zenon DEF UpShutdown, poll_shutdown_waiting, poll_shutdown_closing
<1>2. CASE poll_shutdown_waiting(p)
  <2>1. queue[p] \in Seq(Message) /\ Within(queue[p])
    BY DEF Data
  <2>2. Append(queue[p], EOF_MESSAGE) \in Seq(Message) /\ Within(Append(queue[p], EOF_MESSAGE))
    BY <2>1, AppendFits, MessageType
  <2>3. /\ queue' = queue \/ queue' = [queue EXCEPT ![p] = Append(queue[p], EOF_MESSAGE)]
        /\ wire' = wire
    BY <1>2, Zenon DEF poll_shutdown_waiting
  <2> QED BY ZenonT(30), <1>1, <2>2, <2>3 DEF Data
<1>3. CASE poll_shutdown_closing(p)
  <2> DEFINE q == ClosingQueue(p)
  <2>1. WriteOut(p, q, Writable(p, q))
    BY <1>3, Zenon DEF poll_shutdown_closing
  <2>2. q \in Seq(Message) /\ q \in Seq(Item) /\ Within(q)
    BY ClosingQueueFits, MessagesAreItems
  <2> HIDE DEF q
  <2>3. Writable(p, q) \in 0 .. Len(q)
    BY <2>2, WritableType
  <2>4. /\ queue' \in [Peer -> Seq(Message)] /\ wire' \in [Peer -> Seq(Message)]
        /\ \A r \in Peer : Within(queue'[r])
    BY <2>1, <2>2, <2>3, WriteOutFits
  <2> QED BY <1>1, <2>4, Zenon DEF Data
<1> QED BY <1>2, <1>3 DEF UpShutdown

\* A message is taken off the wire, and its bytes go to chunk and received.
LEMMA DownFits ==
    ASSUME Types, Data, NEW p \in Peer, DownData(p) \/ DownEof(p)
    PROVE  Data'
<1> DEFINE w == wire[Other(p)]
<1>1. w \in Seq(Message) /\ chunk[p] \in Seq(Byte) /\ received[p] \in Seq(Byte)
  BY Peers DEF Data
<1>2. ASSUME NEW m, NextMessage(p, m)
      PROVE  wire' \in [Peer -> Seq(Message)] /\ UNCHANGED queue
  <2>1. w # <<>> /\ wire' = [wire EXCEPT ![Other(p)] = Tail(w)] /\ UNCHANGED queue
    BY <1>2, Zenon DEF NextMessage
  <2>2. Tail(w) \in Seq(Message)
    BY <1>1, <2>1, HeadTailProperties
  <2> HIDE DEF w
  <2> QED BY ZenonT(30), <2>1, <2>2 DEF Data
<1>3. CASE DownEof(p)
  <2>1. NextMessage(p, EOF_MESSAGE) /\ UNCHANGED <<received, chunk>>
    BY <1>3, Zenon DEF DownEof, poll_fill_buf_eof
  <2> QED BY <1>2, <2>1, Zenon DEF Data
<1>4. CASE DownData(p)
  <2> DEFINE b == Buffered(p)
  <2>1. b \in Seq(Byte)
    <3>1. w # <<>> => Head(w).data \in Seq(Byte)
      BY <1>1, HeadTailProperties, MessageType
    <3>2. <<>> \in Seq(Byte)
      OBVIOUS
    <3> QED BY <1>1, <3>1, <3>2, Zenon DEF Buffered
  <2>2. PICK n \in 1 .. Len(b) :
          /\ poll_read(p, n)
          /\ received' = [received EXCEPT ![p] = Cat(@, SubSeq(b, 1, n))]
    BY <1>4, Zenon DEF DownData, Cat
  <2>3. chunk' = [chunk EXCEPT ![p] = SubSeq(b, n + 1, Len(b))]
    BY <2>2, Zenon DEF poll_read
  <2>4. UNCHANGED <<queue, wire>> \/ (UNCHANGED queue /\ wire' \in [Peer -> Seq(Message)])
    BY <1>2, <2>2, Zenon DEF poll_read, sinkVars
  <2> HIDE DEF b, w
  <2>5. SubSeq(b, 1, n) \in Seq(Byte) /\ SubSeq(b, n + 1, Len(b)) \in Seq(Byte)
    BY <2>1, PrefixAndRest
  <2>6. Cat(received[p], SubSeq(b, 1, n)) \in Seq(Byte)
    BY ZenonT(30), <1>1, <2>5, CatType
  <2>7. received' \in [Peer -> Seq(Byte)] /\ chunk' \in [Peer -> Seq(Byte)]
    BY <2>2, <2>3, <2>5, <2>6 DEF Data
  <2> QED BY <2>4, <2>7, Zenon DEF Data
<1> QED BY <1>3, <1>4

LEMMA DataStep ==
    ASSUME Types, Counts, Data, NEW p \in Peer, Task(p) \/ Local(p) \/ Spill(p)
    PROVE  Data'
<1>1. CASE UNCHANGED <<received, chunk, queue, wire>>
  BY <1>1, Zenon DEF Data
<1>2. CASE LocalFails(p)
  <2>1. /\ queue' = [queue EXCEPT ![p] = <<>>]
        /\ \E kept \in {wire[p], <<>>} : wire' = [wire EXCEPT ![p] = kept]
        /\ UNCHANGED <<received, chunk>>
    BY <1>2, Zenon DEF LocalFails, ioVars
  <2>2. <<>> \in Seq(Message) /\ Within(<<>>)
    BY DEF Within
  <2>3. wire[p] \in Seq(Message)
    BY DEF Data
  <2>4. wire' \in [Peer -> Seq(Message)]
    BY ZenonT(30), <2>1, <2>2, <2>3 DEF Data
  <2>5. queue' \in [Peer -> Seq(Message)] /\ \A r \in Peer : Within(queue'[r])
    BY <2>1, <2>2 DEF Data
  <2> QED BY <2>1, <2>4, <2>5, Zenon DEF Data
<1>3. CASE Poll(p) \/ UpFails(p) \/ DownPending(p) \/ DownDone(p) \/ DownFails(p) \/ CopyDone(p)
  <2>1. UNCHANGED <<received, chunk, queue, wire>>
    BY <1>3, Zenon DEF Poll, UpFails, DownPending, DownDone, DownFails, CopyDone,
       ioVars, sinkVars, copyVars
  <2> QED BY <1>1, <2>1
<1>4. CASE LocalData(p) \/ LocalEof(p)
  <2>1. UNCHANGED <<received, chunk, queue, wire>>
    BY <1>4, Zenon DEF LocalData, LocalEof, ioVars, sinkVars, copyVars
  <2> QED BY <1>1, <2>1
<1> QED BY <1>2, <1>3, <1>4, FlushFits, UpWriteFits, UpShutdownFits, DownFits, Zenon
        DEF Task, Local


LEMMA FitsStep == Inv /\ Fits /\ [Next]_vars => Fits'
<1> SUFFICES ASSUME Inv, Fits, [Next]_vars PROVE Fits'
  OBVIOUS
<1>1. CASE UNCHANGED vars
  BY <1>1, Zenon
  DEF vars, appVars, ioVars, sinkVars, copyVars, taskVars, Fits, Counts, Data, Tasks
<1>2. ASSUME NEW p \in Peer, Task(p) \/ Local(p) \/ Spill(p) PROVE Fits'
  BY <1>2, CountsStep, DataStep, TasksStep, Zenon DEF Fits, Inv
<1> QED BY <1>1, <1>2 DEF Next

LEMMA FitsInit == Init => Fits
<1> SUFFICES ASSUME Init PROVE Fits
  OBVIOUS
<1>1. Counts
  BY ByteType DEF Init, Counts
<1>2. Within(<<>>)
  BY DEF Within
<1>3. Data
  BY <1>2 DEF Init, Data
<1>4. Tasks
  BY Zenon DEF Init, Tasks
<1> QED BY <1>1, <1>3, <1>4 DEF Fits

\* The data in the sink has at most the first SinkCap places.
LEMMA WithinCap ==
    ASSUME NEW q \in Seq(Message), Within(q)
    PROVE  Cardinality({i \in DOMAIN q : q[i].type = "binary"}) <= SinkCap
<1> DEFINE B == {i \in DOMAIN q : q[i].type = "binary"}
<1>1. SinkCap \in Nat
  BY BoundAssumption
<1>2. B \subseteq 1 .. SinkCap
  BY <1>1, LenProperties DEF Within
<1> HIDE DEF B
<1>3. IsFiniteSet(1 .. SinkCap) /\ Cardinality(1 .. SinkCap) = SinkCap
  BY <1>1, FS_Interval
<1>4. Cardinality(B) <= Cardinality(1 .. SinkCap)
  BY ZenonT(30), <1>2, <1>3, FS_Subset
<1> QED BY <1>3, <1>4, ZenonT(30) DEF B

(***************************************************************************)
(* Every variable of a tunnel has its type, and nothing outgrows its       *)
(* bound: the transport holds WireCap messages, and the sink no more data  *)
(* messages than SinkCap, since poll_write asks poll_ready first.          *)
(***************************************************************************)
THEOREM WithinBounds == Spec => []TypeOK
<1>1. Inv /\ Fits => TypeOK
  <2> SUFFICES ASSUME Inv, Fits PROVE TypeOK
    OBVIOUS
  <2>1. produced \in [Peer -> Byte \cup {0}] /\ sent \in [Peer -> Byte \cup {0}]
    <3>1. \A p \in Peer : 0 .. Bytes(p) \subseteq Byte \cup {0}
      BY ByteType
    <3> QED BY <3>1 DEF Inv, Types, Fits, Counts
  <2>2. \A p \in Peer :
          Cardinality({i \in DOMAIN queue[p] : queue[p][i].type = "binary"}) <= SinkCap
    BY WithinCap, Zenon DEF Fits, Data
  <2> QED BY <2>1, <2>2, Zenon DEF TypeOK, Inv, Types, Fits, Data, Tasks
<1>2. Init => Inv /\ Fits
  BY InitInv, FitsInit
<1>3. (Inv /\ Fits) /\ [Next]_vars => (Inv /\ Fits)'
  BY NextInv, FitsStep
<1> QED BY <1>1, <1>2, <1>3, PTL DEF Spec

=============================================================================
