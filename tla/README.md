# A verification of dandelion

dandelion is a programmable proxy: acceptors take connections in, a script decides per
connection how to reach its target, connectors (chained as the script likes) reach it, and
the engine copies data both ways. It is made of asynchronous tasks, and a step of the program
is what happens between two awaits, or one `poll`. This directory holds TLA+ models of its
parts, the TLC runs that check them on small instances, and proofs that hold for all
instances. Paths below are relative to `core/src/` of the repository.

## The system and its models

| Part | Source | Modules | State of the work |
|---|---|---|---|
| Engine | `config/engine/mod.rs`, `bin/dandelion.rs` | `Engine`, `Acceptor` | modelled, checked, proved |
| HTTP acceptor | `core/acceptor/http.rs` | `HttpAcceptor`, `Hyper`, `Acceptor` | modelled, checked, proved |
| Simplex server | `core/simplex/server.rs` | `SimplexServer`, `Hyper`, `Acceptor` | modelled, checked, proved |
| Simplex tunnel I/O | `core/simplex/io.rs` | `SimplexTunnel` (two peers composed) | modelled, checked, proved |
| SOCKS5 acceptor and connector | `core/acceptor/socks5.rs`, `core/connector/socks5.rs` | `Socks5`, `Stream` | modelled, checked, proved |
| HTTP connector, simplex client | `core/connector/http.rs`, `core/simplex/client.rs` | `HttpConnector`, `Stream` | modelled, checked, proved |
| Endpoint, the script's view of it | `core/endpoint.rs`, `config/engine/connect.rs` | `Endpoint` | modelled as operators, checked, proved |
| Speed and QUIC connectors, `lookup_ip` | `core/connector/speed.rs`, `core/quic/client.rs`, `core/resolver/` | `Race` | speed modelled; QUIC without its streams; checked, proved |
| Chains of the above | | `ProxyChain` | composed, checked, proved |
| TCP connector (Happy Eyeballs) | `core/connector/tcp.rs` | `HappyEyeballs` | modelled, checked, proved |
| Address pool of the fake DNS | `core/tun/resolver.rs` | `BidirectionalPool`, `AddressLease` | modelled, checked, proved |
| Fake DNS resolver | `core/tun/resolver.rs`, `config/engine/tun.rs` | `FakeDns` (two instances of the pool) | modelled, checked, proved |
| GeoIP database cache | `config/engine/geoip.rs` | `GeoIpCache` | download and cache modelled, checked, proved |
| TLS, TUN device and DNS server, IP lists | | | not modelled, see the end |

How they interact. An acceptor's handshake returns the endpoint and a future; the engine gives the
endpoint to the script, waits for the connection it returns, and only then runs the future, which
answers the client. `Acceptor` is this contract: one endpoint, named once, an answer only after the
connection, no way back. `HttpAcceptor` and `SimplexServer` implement it from below, by what they do
on the wire (the simplex server's handshake is not yet called by the program: the engine has SOCKS5
and HTTP acceptors only), and every connection of `Engine` implements it from above, by what the
engine does with it; that all three are shown against the same module is the composition. A
connector's peer is an acceptor, of this program or of another: `ProxyChain` puts `Socks5`,
`HttpConnector` and `Race` behind one another, with the endpoint passing through the script between
them. What follows a handshake is `copy_bidirectional`, which `SimplexTunnel` models for the one
kind of connection whose shutdown is not a plain one. `HappyEyeballs` is below the script; the
resolver is its environment. `FakeDns` gives out the addresses whose connections arrive by TUN.

## The modules

`MCFakeDns`, `MCHappyEyeballs` and `MCProxyChain` give constants their values, and `MCHyper` is one
connection of either acceptor that hyper serves; the other modules are run as they are. An operator
whose comment begins with "Mutant of" is a variant of a definition with a bug the code could
plausibly have. No specification uses it; it is put in the place of the definition to see that the
property named for it in `PROJECT.json` notices.

**BidirectionalPool** — `pool`, `mapping` and `reverse_mapping` are the fields of
`PoolWithBidirectionalMapping`; the LRU cache is its content and a recency list `lru`. The four
paths through `get` are `GetMapped`, `GetFromPool`, `GetEvicting` and `GetNothing` (which changes
nothing, so it is a stuttering step here and part of the lookups of `FakeDns`). The history variable
`since` holds, for each address, the addresses used after its own last use. `AddressLease` is
the abstract specification: a table of owners in which an address changes hands only when all
are taken and all others were used more recently.

**FakeDns** — one instance of the pool per family; a call is one step, because `FakeResolver`
holds its lock for the whole of it. `told` records the name an address was last given out for.

**HappyEyeballs** — one step is one call of `poll`, split by the path it takes: `ResolveError`,
`Connected`, `Wait`, and in the loop `StartConnection`, `ConnectedAtOnce`, `ConnectError` and
`AwaitAddresses`, each after `n` addresses that fail at once. DNS answers, ends of attempts and
the timer are steps of the environment which wake the task if it left its waker there.
`timer_waker` matters: the code polls the timer only on some paths.

**SimplexTunnel** — two peers, each a `WebSocketStreamToAsyncWrite` under
`copy_bidirectional`. `poll_write`, `poll_flush`, `poll_shutdown_*`, `poll_fill_buf_eof` and
`poll_read` are the methods of `io.rs`; the actions are the steps of the copy, which polls one
direction after the other when its task is woken. The websocket is a `Sink`: `start_send` puts
a message in `queue`, and only a flush is sure to move it to `wire`; the sink may (`Spill`) write
earlier. A byte is its index in the stream.

**Hyper**, **SimplexServer** and **HttpAcceptor** — hyper serves the connection; what the client
sends is a sequence of requests and bytes that moves from `socket` to `read_buf` to `served`,
`tunnelled` or, when the HTTP acceptor starts a tunnel, `dropped`. A client may send behind CONNECT
without waiting for the answer; such an item is marked `early`. `Hyper` has this state, the steps in
which it alone changes (the client sends or closes, hyper reads ahead, the engine connects or fails)
and `NothingLost`; the two acceptors extend it with their handlers. `signal` and `state` are the
`Option`s of the code. A request is abstracted to what the handler asks of it.

**Endpoint** — parsing and printing. A host is a text of which only the form matters; an IP address
is reduced to its last digit. A name is any UTF-8, since a SOCKS5 request may carry any; `IsWord`
tells those without blanks and control characters from the others. `ThroughScript` is the way an
endpoint takes through the script, printed and parsed again.

**Stream**, **Socks5**, **HttpConnector** — the two ends of one connection. `Stream` has the state
both share and what `read_exact`, `write_all` and dropping do. Each action of `Socks5` is one
`read_exact` with what follows up to the next; an `ensure!` or `bail!` is `Ensure` or `Fails`. An
HTTP answer is two bytes, so that it can come in parts. The endpoint of CONNECT and of simplex is
text: the HTTP connector prints it into its request line as it is, the simplex client only if it is
the value of a header, and the proxy parses it if it is a URI (CONNECT), refuses it with 400, or,
where it has blanks or control characters, takes a part of it for the endpoint. SOCKS5 is modelled
byte by byte, because the lengths in it decide where the tunnel begins. The names of a length the
SOCKS5 length byte cannot hold are those longer than `MaxLength`, which is 255 in the code and 5 in
the run.

**Race** — `select_ok` over the sleeping and connecting futures of the speed connector, or over
the addresses of a QUIC server. The two resolvers differ in one thing: hickory turns an empty
answer into an error, the system's resolver does not.

**ProxyChain** — one connection of the chain at a time; the one before it waits in its state
"connecting". Either end of the first connection may be another program, which sends one of the
scripts listed there, right or wrong, and may close at any time.

**Engine** — `phase` is the program's; a loop per acceptor binds and accepts (`Bind`, `Accept` and
their failures), a connection is a task of its own, and the first loop that ends stops everything,
as `select_all` does. `slot` is the cache as the handler of a connection sees it: each call of a
handler gets a clone of what `config()` has left. The clone is shallow, so a handler stores either
for itself or, within a `nested` value, for all. `local_set` says whether the engine runs in a
`LocalSet`: `main()` sets up none, and tokio documents that `spawn_local` then panics; `Accept` has
both cases. File descriptors are counted, because `accept` fails when there are none.

**GeoIpCache** — `content` and `age` are the file. Calls interleave at the awaits of the download;
`fs::write` and the opening after it have none between them. A crash may come within the write,
and the clock may be set back, which makes `elapsed()` fail.

## What the runs show

| Run | Bounds | Properties | States |
|---|---|---|---|
| `fake_dns` | 4 names, 3 IPv4 addresses and an empty IPv6 pool, 2 literals | maps inverse, addresses conserved, recency in order; PTR names the latest asker; answers of the family asked for, refusal only without a pool; only the least recent renamed; refinement of `AddressLease` | 2,283 |
| `happy_eyeballs` | up to 3 + 2 addresses, 5 firings of the timer | no address lost, errors justified, families in turn, pacing, no lost wakeup; every address gets its turn, the future returns | 54,393 |
| `simplex_tunnel` | 3 bytes one way and 1 the other, 1 message in sink and wire | order, completeness at EOF, closing; data arrives, shutdown completes | 160,049 |
| `hyper_acceptors` | 3 requests or bytes to either acceptor; 2 hosts and 2 ports for HTTP | signal never missing, requests to their host, tunnel or proxy, every item accounted for, only what is sent behind CONNECT before its answer is dropped; refinement of `Acceptor` by both | 781,389 |
| `geoip_cache` | 3 calls, 2 versions, 2 bad writes, 1 step of the clock | no half-written file seen but after a bad write; callers that try again are served | 24,583 |
| `proxy_chain` | 8 endpoints, 3 connections, 3 racing connectors, 2 addresses, 1 byte of data each way | the target survives all conversions; connected only when granted; the tunnel loses no byte; own ends understand each other and finish; one success wins a race | 145,684 |
| `engine` | 3 clients, 2 acceptors, 3 addresses, one of them taken, 2 handlers, one of them missing, 6 files | refinement of `Acceptor` by each connection; ends only for the causes named; no client starves; all acceptors or none | 215,896 |

Why the bounds are enough. A name more than there are addresses makes evictions happen again and
again, and with three addresses the order in the recency list has a middle. `fake_dns` lends from
one family and refuses in the other, as the resolver of the repository's test is set up; a family
that lends is the same code in both. Three addresses against two leave a tail after interleaving, in
either order of the answers; the timer never starts more attempts than there are addresses, so five
firings are all there can be. With one place in the sink and on the wire every write can block, and
three bytes make messages that are split by a reader. Three items are a first, a following and a
refused request, a keyless upgrade, a valid one and a byte behind it, or CONNECT and what is sent
early and late behind it. Three calls are a reader, a writer and a bystander. The endpoints of
`proxy_chain` are a short name, one that just fits the length byte, one that does not, a name in
brackets, one with a blank and one that is not ASCII, and an address of each family, with ports of
one and of two bytes; three connections put each protocol before and behind each other. Two
acceptors can share an address, or one can fail after the other serves; six files leave two
connections (two files each while copying) beside two listeners, and the third meets the limit.

Five runs are expected to fail. Each states what the repository says of itself and shows a
behaviour of the code that differs:

- `happy_eyeballs_gives_up`: the connector returns "Failed to connect" while attempts are
  pending, when the timer elapses or one attempt fails with no address left to start
  (`core/connector/tcp.rs:153-193`). A lone address that takes longer than 250 ms is given up.
- `simplex_tunnel_eof`: EOF is queued, marked as sent and not flushed while the peer's EOF is
  awaited (`core/simplex/io.rs:99-123`). With both peers in this state the tunnel hangs.
- `geoip_cache_in_use`: the mapped file is overwritten while readers are in use, against the
  SAFETY comments (`config/engine/geoip.rs:69,141,144`).
- `simplex_one_upgrade`: an upgrade request without a key takes the signal, is answered with an
  error, and the connection goes on; the next upgrade request on it runs into
  `expect("there should be only one upgrade request for one connection")` (`core/simplex/server.rs:91`).
- `engine_shared_cache`: each handler gets a shallow clone of the cache (`config/engine/mod.rs:179`),
  so what one assigns to a key is not there for the next, against "Pass a cache object to all
  handler invocations for cross-connection state" (`README.md:15` of the repository). Values nested in
  it are shared.

Deadlock is checked except where the modelled thing really ends: a future that returned, a
copy that ended, a connection that was closed, an engine that stopped.

### What the properties except

Some properties hold only with an exception, which is then part of the property's text and is
what the code does:

- The HTTP connector takes the end of file before or within the answer for success
  (`ConnectedOnlyWhenGranted`). The engine drops a connection it cannot serve without an answer,
  so a chain whose second proxy refuses may look connected to the first.
- The HTTP connector drops the bytes it has read behind the answer (`TunnelIntact`).
- The HTTP acceptor drops hyper's read buffer when it starts a tunnel, and with it what a client has
  sent behind CONNECT without waiting for the answer (`DropsOnlyEarly`).
- SOCKS5 turns an IPv6 address into a name without brackets, which an HTTP proxy behind it
  refuses as a URI, as it does every name that is not one (`OursUnderstandOurs`). The name "[::1]" is
  an address after it has gone through the script (`SameTarget`).
- Nothing checks that a name is one word before it is printed into a CONNECT line
  (`core/connector/http.rs:14-21`) or a header; what becomes of one that is not is left open
  (`SameTarget`).
- `accept` that fails, because a client went away in the queue or because no file descriptor is
  left, stops the whole engine, and without a `LocalSet` the first connection does
  (`StopsOnlyForCause`).

Some things the models show need no property, for nothing in the repository says otherwise: the
system's resolver may answer with no addresses, and `select_ok` panics on none (`Race`; hickory
makes an error of it); the port of a plain HTTP request is lost, since `uri().host()` has none
(`EndpointOf`); the SOCKS5 acceptor never sends a failure reply, and a client that is refused sees
the connection closed.

### Fairness

- `HappyEyeballs!RuntimeSpec`: the executor polls a woken task, and an armed timer fires. Tokio
  gives both. Nothing obliges a query or an attempt to end: `EveryAddressGetsItsTurn` does not
  need it, and `Returns` has it as its premise.
- `SimplexTunnel!FairSpec`: each task takes its steps. Nothing obliges a local connection to send
  or close, or the sink to write before it is flushed.
- `GeoIpCache!FairSpec`: time passes, a failed call is made again, and a download that is tried
  again and again succeeds (strong fairness, since each trial may fail). A reader may be kept
  for good.
- `ProxyChain!Fairness`: an end whose bytes are there reads them, an end whose peer is gone learns
  it, and a decided race is polled. No other program has to send anything, no script has to
  answer, and no attempt to end: there is no timeout on a handshake in the code.
- `Engine!Fairness`: the loop of each acceptor is polled when it can bind or accept. No client,
  handshake, handler or copy has to end; but all tasks share one thread, so a script must not run
  for ever between two awaits.

## What is proved

Every safety property that a run checks, invariant or action property, is also a theorem. Each
module of proofs has an inductive invariant, one lemma for each kind of step, and theorems that
follow from it. The theorems hold for all values of the constants that satisfy the assumptions
named; a theorem has no other hypotheses.

**BidirectionalPoolProofs** (`PoolAssumption`: the pool lists addresses, each once, and `NoItem` is
neither a name nor an address). `Inv` is the type invariant, `Inverses`, `Conserved` and
`InOrderOfUse`. None of them is inductive alone: an eviction keeps the maps inverse only if the
address at the head of `lru` has an owner (`Conserved`); the lists stay free of repetitions only
because an address of the pool is not in `lru`. From it: `MapsAgree`; `RenamedLast`, the action
property (when the pool is empty every address is in `lru`, so everything is behind its head and was
used after it); `PoolImplementsLease`, with `owner` mapped to `reverse_mapping`.

**FakeDnsProofs** (`PoolAssumption`, and `LiteralAssumption`: the families are disjoint, a domain is
no address, and the IPv6 pool lists addresses, each once). It uses the theorems of the pool twice,
as they are for IPv4 and as the instance `P6` for IPv6, whose assumption is a lemma here. A lookup is
a step of one pool or of none (`OnePoolMoves`). The invariant `ResolverInv` is that of both pools and
that what callers were last told of an address is what its pool has; an answered lookup renames
exactly the address it returns (`GetNames`), and `get` returns nothing only in a pool that never had
an address (`NothingOnlyWithoutPool`). From it: `PtrAnswersLatest`, `AnswersAlwaysFit`, and
`BothFamiliesLease`, which has both pools lend, as the run does not.

**HappyEyeballsProofs** (`AnswerAssumption`: answers are lists of addresses of their family, possibly
empty, and the timer's bound is no smaller than their number). `Inv` adds to the properties how the
list of addresses, the set of tried ones and the attempts are related: what is listed or tried is
what the answers had, the list has no address of a family whose answer is still to come, and there
are at most as many attempts as tried addresses. `FamiliesTakeTurns` needs the second: an answer is
interleaved into a list of the other family only. From it: `Typed`, `ErrorsHaveCause`, `TakingTurns`,
`StaggeredAlways`, `WakeupsKept`.

**SimplexTunnelProofs** (`BoundAssumption`: two peers, capacities of at least one). The invariant says
what the messages of a peer are, in the transport and in the sink together: one behind the other,
they carry the bytes the other peer has not taken (`Carries`, with the position where each message
begins as a witness), as far as all that was sent unless the sender is gone, and EOF only after the
last byte of a peer that is done. A write appends to this row, a flush moves the border between
transport and sink, a read takes from its front, a failure cuts it off at its end; the row says
nothing about a peer that has stopped reading. From it: `InOrder`, `EofAfterAll`, `ClosedAfterBoth`.
`WithinBounds` is the type invariant with its capacities. That a sink never holds more than `SinkCap`
data messages is not inductive as a count, since EOF and the Close frame are queued without asking;
what is inductive is that no data is behind place `SinkCap` (`Within`).

**ChainInvariant**, **HandshakeProofs** and **ProxyChainProofs** (`RequestsAssumption`: what the engine
is asked for are endpoints, an address in the form in which it is printed; `MaxLengthAssumption` and
`AddressesAssumption`: the longest name and the number of addresses are natural numbers). The
theorems hold for every set of requests and every limit, along chains of any length, in all
combinations of the program's own ends and other programs that `ProxyChain` has. None of the
properties is inductive: they speak of the ends of a handshake, and what a reader finds in the
stream was decided several steps earlier at the other end. The invariant `Inv` says for each place
of each program counter what is still to be read: the bytes on the wire are those this reader needs
next, followed by those of the reader's next place, and so on to the first byte of the tunnel.

- `Types` and `Ends`: who is closed, who has granted, and that no data is sent before the tunnel.
- `Chain`: the endpoint the client asks for stands for the one the first client named (`Follows`): the
  same host and port, or what was within its brackets, if that is one word; a word stays one on its
  way (`WordKept`), so it is never misread.
- `AcceptorReads`, `ConnectorReads`: the SOCKS5 acceptor and connector; `AcceptorReadsBad` and
  `ConnectorReadsBad` for peers that send something wrong, which end before a tunnel.
- `InStep`: between two ends of the program, neither is further than the other has sent for.
- `TextAccepted`, `ConnectReads`, `UpgradeReads`: CONNECT and simplex; an answer that was cut off is
  one of four, and none of them is complete.

`ChainInvariant` has the invariant, the steps of the SOCKS5 acceptor and the steps outside of the
handshakes (the next hop, an end that closes); `HandshakeProofs` has the tunnel, the SOCKS5 connector
and the text protocols; `ProxyChainProofs` has the first connection and the theorems. A
read takes the first `n` bytes of such a row and leaves the rest (`BytesRead`, `BytesParts`, and the
lemmas on sequences read in parts), a write appends at its end, a failure closes it. From it:
`StreamsInStep` (the invariant itself), `TargetKept`, `ConnectionsGranted`, `TunnelsIntact`, and the
action property `OwnEndsUnderstand`.

**EngineProofs** is about the engine, its cache of the GeoIP database and the two acceptors that
hyper serves, in this order.

- `Engine` (`EngineAssumption`): the invariant says that a connection that waits is in exactly the
  queue of its acceptor, and that without a `LocalSet` none has got any further. From it:
  `StopsForCause`, and `EngineImplementsAcceptor` for each connection.
- `GeoIpCache` (`BoundAssumption`), for any number of calls and versions: a half-written file exists
  only after a bad write, and so `OpenFailsAfterBadWrite`.
- `HttpAcceptor` and `SimplexServer` (`MaxItemsAssumption`, and `HostAssumption` for HTTP): what the
  client has sent is, in this order, what was served, dropped, tunnelled, is in the buffer and in
  the socket (`Buffers`, with one lemma for each step of `Hyper`, and one about such a row, `Row`,
  for each way something moves along it). The invariants `HttpInv` and `SimplexInv` add how far the
  handshake is when a signal is there, and what has been served when it is not. From them:
  `LosesOnlyEarly` (what is in the buffer when CONNECT is answered is behind CONNECT in what was
  sent, and so was early), `SimplexNothingLost`, `SignalThere`, `ToItsHost`, `TunnelXorProxy`,
  `PanicsAfterKeyless`, `SwitchedWhenConnected`, and that each implements `Acceptor`
  (`AcceptorImplemented`, `ServerImplementsAcceptor`).

Only model-checked: all liveness (`EveryAddressGetsItsTurn`, `Returns`, `DataArrives`,
`ShutdownCompletes`, `EveryCallerIsServed`, `OneSuccessIsEnough`, `HandshakeEnds`,
`QueuedIsAccepted` and `AllAcceptorsOrNone`), because fairness and ENABLED are outside of what the
prover handles. The five runs that are expected to fail show behaviours and have nothing to prove.
The type invariants of `Engine`, `SimplexServer`, `GeoIpCache` and `HttpAcceptor` are proved and not
listed in a run.

## What is left out

- The LRU crate, itertools, hyper, tungstenite, `copy_bidirectional`, `select_ok`, `select_all` and the
  operating system are modelled from how the code uses them.
- `SimplexTunnel` has no frames but the ones the two peers send (data, EOF, Close), and no
  intermediary; a websocket that ends without EOF or an error (`core/simplex/io.rs:155-165`) does not
  occur between them.
- The run `fake_dns` does not lend from both families in one instance; the theorems do.
- `GeoIpCache` has one process. Opening a database by its path, and looking an address up, only read.
- In `ProxyChain` the proxies' side of CONNECT and of simplex is one step; `HttpAcceptor` and
  `SimplexServer` have its details.
- The text of an endpoint has one colon, the one before its port, or an IPv6 address. User information
  ("@") and escapes ("%") of a URI are not modelled, as no endpoint of the runs has them.
- Header rewriting in `transform_proxy_request`, log messages and error texts.

Not modelled, and why: the TLS connector (one call of the platform's library), keep-alive options
and `connect()` to an address (one system call each), quinn and the QUIC streams (they forward each
call), IP lists (membership of an address in a list of networks, by a library, without state), the
TUN device (created by one call of a library) and its DNS server (not used by the program yet), and
`lookup_raw` of the resolvers (not used by the program).
