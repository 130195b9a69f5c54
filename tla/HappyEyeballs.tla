---------------------------- MODULE HappyEyeballs ----------------------------
(***************************************************************************)
(* HappyEyeballConnector of core/src/core/connector/tcp.rs: the future     *)
(* that resolves a domain to IPv4 and IPv6 addresses at the same time and  *)
(* races connections to them, starting the next attempt when one fails or  *)
(* when CONNECTION_ATTEMPT_DELAY has passed since the last start.          *)
(*                                                                         *)
(* One call of poll() is one step.  The DNS queries, the TCP connections   *)
(* and the timer are the environment: each becomes ready by a step of its  *)
(* own, which wakes the task if the future left its waker there.           *)
(***************************************************************************)
EXTENDS Integers, Sequences, FiniteSets, Functions

CONSTANTS
    Ipv4Addr, Ipv6Addr,
    Ipv4Answers, Ipv6Answers,  \* the lists a query may yield; <<>> is also an error
    MaxFires  \* the timer's firings are counted up to this many

VARIABLES
    dns,          \* ipv4_future and ipv6_future
    answer,       \* history: what the queries yielded
    ips,          \* addresses still to be tried
    ip_count,
    connections,  \* the attempts that were started, in order
    timer,        \* next_connection_timer
    timer_waker,  \* the timer will wake the task
    woken,        \* the task is scheduled to be polled
    result,
    tried,        \* history: the addresses taken from ips
    fires         \* history: how often the timer fired, capped at MaxFires

vars == <<dns, answer, ips, ip_count, connections, timer, timer_waker, woken,
          result, tried, fires>>

Family == {"v4", "v6"}
IpAddr == Ipv4Addr \cup Ipv6Addr
FamilyOf(addr) == IF addr \in Ipv4Addr THEN "v4" ELSE "v6"
Answers(f) == IF f = "v4" THEN Ipv4Answers ELSE Ipv6Answers

\* No more attempts are under way than there are addresses, so that there is no
\* need to count further.
ASSUME AnswerAssumption ==
    /\ Ipv4Addr \cap Ipv6Addr = {}
    /\ Ipv4Answers \subseteq Seq(Ipv4Addr)
    /\ Ipv6Answers \subseteq Seq(Ipv6Addr)
    /\ <<>> \in Ipv4Answers \cap Ipv6Answers
    /\ MaxFires \in Nat
    /\ \A s \in Ipv4Answers, t \in Ipv6Answers : Len(s) + Len(t) <= MaxFires

TypeOK ==
    /\ dns \in [Family -> {"pending", "ready", "terminated"}]
    /\ answer \in [Family -> Seq(IpAddr)]
    /\ ips \in Seq(IpAddr)
    /\ ip_count \in Nat
    /\ connections \in Seq({"pending", "connected", "failed", "terminated"})
    /\ timer \in {"armed", "elapsed"}
    /\ timer_waker \in BOOLEAN
    /\ woken \in BOOLEAN
    /\ result \in {"pending", "connected", "resolve_error", "connect_error"}
    /\ tried \in Seq(IpAddr)
    /\ fires \in 0 .. MaxFires

\* new(), and the executor's first poll.  The timer's deadline is now.
Init ==
    /\ dns = [f \in Family |-> "pending"]
    /\ answer = [f \in Family |-> <<>>]
    /\ ips = <<>>
    /\ ip_count = 0
    /\ connections = <<>>
    /\ timer = "elapsed"
    /\ timer_waker = FALSE
    /\ woken = TRUE
    /\ result = "pending"
    /\ tried = <<>>
    /\ fires = 0

-----------------------------------------------------------------------------
(* The environment. *)

DnsReady(f, addrs) ==
    /\ result = "pending"
    /\ dns[f] = "pending"
    /\ dns' = [dns EXCEPT ![f] = "ready"]
    /\ answer' = [answer EXCEPT ![f] = addrs]
    /\ woken' = TRUE
    /\ UNCHANGED <<ips, ip_count, connections, timer, timer_waker, result, tried, fires>>

ConnectionReady(i, outcome) ==
    /\ result = "pending"
    /\ connections[i] = "pending"
    /\ connections' = [connections EXCEPT ![i] = outcome]
    /\ woken' = TRUE
    /\ UNCHANGED <<dns, answer, ips, ip_count, timer, timer_waker, result, tried, fires>>

\* CONNECTION_ATTEMPT_DELAY after the last reset.
TimerFires ==
    /\ result = "pending"
    /\ timer = "armed"
    /\ timer' = "elapsed"
    /\ timer_waker' = FALSE
    /\ woken' = (woken \/ timer_waker)
    /\ fires' = IF fires < MaxFires THEN fires + 1 ELSE fires
    /\ UNCHANGED <<dns, answer, ips, ip_count, connections, result, tried>>

-----------------------------------------------------------------------------
(* poll() *)

\* Mutant of Interleaved: chain in place of interleave.
Chained(s, t) == s \o t

\* Itertools::interleave: elements in turn, then what is left of the longer.
Interleaved(s, t) ==
    LET both == 2 * (IF Len(s) < Len(t) THEN Len(s) ELSE Len(t))
    IN  [i \in 1 .. Len(s) + Len(t) |->
           IF i <= both THEN IF i % 2 = 1 THEN s[(i + 1) \div 2] ELSE t[i \div 2]
           ELSE IF Len(s) > Len(t) THEN s[i - Len(t)] ELSE t[i - Len(s)]]

\* The addresses list with those of a query that has just become ready.
WithAnswer(list, f) == IF dns[f] = "ready" THEN Interleaved(list, answer[f]) ELSE list

polled_ips == WithAnswer(WithAnswer(ips, "v4"), "v6")

\* Mutant of Poll: ip_count loses what was resolved.
PollCountingDown ==
    /\ result = "pending"
    /\ woken
    /\ woken' = FALSE
    /\ dns' = [f \in Family |-> IF dns[f] = "ready" THEN "terminated" ELSE dns[f]]
    /\ ip_count' = ip_count + Len(ips) - Len(polled_ips)
    /\ UNCHANGED <<answer, fires>>

\* A call of poll() on the task that is woken, and its first part, which
\* takes the results of the DNS queries.
Poll ==
    /\ result = "pending"
    /\ woken
    /\ woken' = FALSE
    /\ dns' = [f \in Family |-> IF dns[f] = "ready" THEN "terminated" ELSE dns[f]]
    /\ ip_count' = ip_count + Len(polled_ips) - Len(ips)
    /\ UNCHANGED <<answer, fires>>

\* is_resolving() after the DNS results were taken.
StillResolving == \E f \in Family : dns[f] = "pending"

NothingResolved == ~StillResolving /\ ip_count + Len(polled_ips) - Len(ips) = 0

has_stream == \E i \in DOMAIN connections : connections[i] = "connected"
has_pending == \E i \in DOMAIN connections : connections[i] = "pending"
has_error == \E i \in DOMAIN connections : connections[i] = "failed"

\* The attempts after each was polled: one that failed is terminated.
polled_connections ==
    [i \in DOMAIN connections |->
       IF connections[i] = "failed" THEN "terminated" ELSE connections[i]]

ShouldConnect == ~has_pending \/ has_error \/ timer = "elapsed"

\* Both queries ended without an address.
ResolveError ==
    /\ Poll
    /\ NothingResolved
    /\ result' = "resolve_error"
    /\ ips' = polled_ips
    /\ UNCHANGED <<connections, timer, timer_waker, tried>>

\* One of the attempts has a stream.
Connected ==
    /\ Poll
    /\ ~NothingResolved
    /\ has_stream
    /\ result' = "connected"
    /\ ips' = polled_ips
    /\ UNCHANGED <<connections, timer, timer_waker, tried>>

\* Mutant of Wait: every wakeup while an attempt is pending resets the timer.
WaitDebounced ==
    /\ Poll
    /\ ~NothingResolved
    /\ ~has_stream
    /\ has_pending
    /\ ~has_error
    /\ ips' = polled_ips
    /\ timer' = "armed"
    /\ timer_waker' = TRUE
    /\ UNCHANGED <<connections, result, tried>>

\* Not yet time for another attempt: the timer is polled and keeps the waker.
Wait ==
    /\ Poll
    /\ ~NothingResolved
    /\ ~has_stream
    /\ ~ShouldConnect
    /\ ips' = polled_ips
    /\ timer_waker' = TRUE
    /\ UNCHANGED <<connections, timer, result, tried>>

\* The loop over ips: n addresses fail at once, as the system refuses them.
ConnectLoop(n) ==
    /\ Poll
    /\ ~NothingResolved
    /\ ~has_stream
    /\ ShouldConnect
    /\ n <= Len(polled_ips)

\* Mutant of StartConnection: the timer is not reset.
StartConnectionUnpaced(n) ==
    /\ ConnectLoop(n)
    /\ n < Len(polled_ips)
    /\ ips' = SubSeq(polled_ips, n + 2, Len(polled_ips))
    /\ tried' = tried \o SubSeq(polled_ips, 1, n + 1)
    /\ connections' = Append(polled_connections, "pending")
    /\ UNCHANGED <<timer, timer_waker, result>>

\* Mutant of StartConnection: the timer is reset and not polled.
StartConnectionUnpolled(n) ==
    /\ ConnectLoop(n)
    /\ n < Len(polled_ips)
    /\ ips' = SubSeq(polled_ips, n + 2, Len(polled_ips))
    /\ tried' = tried \o SubSeq(polled_ips, 1, n + 1)
    /\ timer' = "armed"
    /\ connections' = Append(polled_connections, "pending")
    /\ UNCHANGED <<timer_waker, result>>

\* The next address starts connecting: reset the timer and poll it.
StartConnection(n) ==
    /\ ConnectLoop(n)
    /\ n < Len(polled_ips)
    /\ ips' = SubSeq(polled_ips, n + 2, Len(polled_ips))
    /\ tried' = tried \o SubSeq(polled_ips, 1, n + 1)
    /\ timer' = "armed"
    /\ timer_waker' = TRUE
    /\ connections' = Append(polled_connections, "pending")
    /\ UNCHANGED result

\* The next address connects at once.
ConnectedAtOnce(n) ==
    /\ ConnectLoop(n)
    /\ n < Len(polled_ips)
    /\ ips' = SubSeq(polled_ips, n + 2, Len(polled_ips))
    /\ tried' = tried \o SubSeq(polled_ips, 1, n + 1)
    /\ result' = "connected"
    /\ connections' = polled_connections
    /\ UNCHANGED <<timer, timer_waker>>

\* Mutant of ConnectError: is_resolving() is not asked.
ConnectErrorEarly(n) ==
    /\ ConnectLoop(n)
    /\ n = Len(polled_ips)
    /\ ips' = <<>>
    /\ tried' = tried \o polled_ips
    /\ result' = "connect_error"
    /\ connections' = polled_connections
    /\ UNCHANGED <<timer, timer_waker>>

\* Mutant of ConnectError: the task wakes itself to look again.
ConnectErrorSpinning(n) ==
    /\ result = "pending"
    /\ woken
    /\ ~NothingResolved
    /\ ~has_stream
    /\ ShouldConnect
    /\ n = Len(polled_ips)
    /\ ~StillResolving
    /\ UNCHANGED vars

\* No address is left and none will come.
ConnectError(n) ==
    /\ ConnectLoop(n)
    /\ n = Len(polled_ips)
    /\ ~StillResolving
    /\ ips' = <<>>
    /\ tried' = tried \o polled_ips
    /\ result' = "connect_error"
    /\ connections' = polled_connections
    /\ UNCHANGED <<timer, timer_waker>>

\* No address is left for now.
AwaitAddresses(n) ==
    /\ ConnectLoop(n)
    /\ n = Len(polled_ips)
    /\ StillResolving
    /\ ips' = <<>>
    /\ tried' = tried \o polled_ips
    /\ connections' = polled_connections
    /\ UNCHANGED <<timer, timer_waker, result>>

-----------------------------------------------------------------------------
poll ==
    \/ ResolveError
    \/ Connected
    \/ Wait
    \/ \E n \in 0 .. Len(polled_ips) :
         \/ StartConnection(n)
         \/ ConnectedAtOnce(n)
         \/ ConnectError(n)
         \/ AwaitAddresses(n)

Resolved(f) == \E addrs \in Answers(f) : DnsReady(f, addrs)

Attempted(i) ==
    i \in DOMAIN connections /\ \E outcome \in {"connected", "failed"} : ConnectionReady(i, outcome)

Next ==
    \/ poll
    \/ \E f \in Family : Resolved(f)
    \/ \E i \in DOMAIN connections : Attempted(i)
    \/ TimerFires

Spec == Init /\ [][Next]_vars

\* The executor polls a woken task, and the timer fires once its time has come.
\* Nothing obliges a query or an attempt to end.
RuntimeSpec == Spec /\ WF_vars(poll) /\ WF_vars(TimerFires)

-----------------------------------------------------------------------------
(***************************************************************************)
(* The error "Failed to connect" is only given when both queries have      *)
(* ended and every address they yielded was tried: the merging of the      *)
(* second answer into what is left of the first loses no address.          *)
(* "Failed to resolve" is only given when neither family has an address;   *)
(* an answer that came after the connecting began is not forgotten.        *)
(***************************************************************************)
ErrorsOnlyForCause ==
    /\ result = "connect_error" =>
         /\ \A f \in Family : dns[f] = "terminated"
         /\ Range(tried) = UNION {Range(answer[f]) : f \in Family}
    /\ result = "resolve_error" <=>
         /\ result # "pending"
         /\ \A f \in Family : dns[f] = "terminated" /\ answer[f] = <<>>

(***************************************************************************)
(* The families take turns in ips (RFC 8305, section 4): two addresses of  *)
(* one family are neighbours only when nothing of the other family is left *)
(* behind them, whichever answer came first and however much of it had     *)
(* been tried when the other came.                                         *)
(***************************************************************************)
FamiliesTakeTurns ==
    \A i, j \in DOMAIN ips :
      i + 1 < j /\ FamilyOf(ips[i]) = FamilyOf(ips[i + 1]) =>
        FamilyOf(ips[j]) = FamilyOf(ips[i])

\* The attempts that poll() has not yet seen the end of.
InFlight == {i \in DOMAIN connections : connections[i] # "terminated"}

(***************************************************************************)
(* Attempts are staggered (RFC 8305, section 5): beyond the first, another *)
(* attempt runs at the same time only for each CONNECTION_ATTEMPT_DELAY    *)
(* that passed.  A timer that has elapsed stands for one attempt that may  *)
(* start and no more, however often the task is woken.                     *)
(***************************************************************************)
Staggered ==
    Cardinality(InFlight) + (IF timer = "elapsed" THEN 1 ELSE 0) <= 1 + fires

(***************************************************************************)
(* No wakeup is lost: when the task sleeps, nothing it waits for is ready, *)
(* it waits for something, and while there are addresses to try the timer  *)
(* is going to wake it.                                                    *)
(***************************************************************************)
NoLostWakeup ==
    result = "pending" /\ ~woken =>
      /\ \A f \in Family : dns[f] # "ready"
      /\ \A i \in DOMAIN connections : connections[i] \in {"pending", "terminated"}
      /\ StillResolving \/ has_pending
      /\ ips # <<>> => timer = "armed" /\ timer_waker

(***************************************************************************)
(* Every address gets its turn though no attempt ever ends: peers that     *)
(* never answer cannot keep the connector from the remaining addresses.    *)
(***************************************************************************)
EveryAddressGetsItsTurn == ips # <<>> ~> (ips = <<>> \/ result # "pending")

(***************************************************************************)
(* The connector returns, if the queries and the attempts it has started   *)
(* come to an end: it never goes on without anything to wait for.          *)
(***************************************************************************)
Returns == []<>(~StillResolving /\ ~has_pending) => <>(result # "pending")

(***************************************************************************)
(* "Failed to connect to domain" means that the attempts have failed: none *)
(* is still under way, as RFC 8305, which the code says it implements, and *)
(* the wording of the error have it.                                       *)
(***************************************************************************)
FailsOnlyWhenAllFailed ==
    result = "connect_error" => \A i \in DOMAIN connections : connections[i] = "terminated"

=============================================================================
