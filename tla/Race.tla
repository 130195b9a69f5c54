--------------------------------- MODULE Race ---------------------------------
(***************************************************************************)
(* Several ways to connect at once, the first success wins: the speed      *)
(* connector (core/src/core/connector/speed.rs) and the addresses of a     *)
(* QUIC server (core/src/core/quic/client.rs, connector/quic.rs), both on  *)
(* select_ok, with the resolvers that give the addresses.                  *)
(***************************************************************************)
EXTENDS Integers, FiniteSets, FiniteSetsExt

CONSTANTS
    Delay,     \* the delay of each connector given to the speed connector
    Addresses  \* how many addresses a lookup may return

ASSUME AddressesAssumption == Addresses \in Nat

VARIABLES
    race,      \* "idle", "lookup", "on", or how it has ended
    resolver,  \* which resolver a QUIC connection is made with
    clock,     \* the time since the race began
    left,      \* the futures that select_ok still holds, in the order of their numbers
    attempt,   \* how far each of them is
    winner     \* the future whose connection is returned

raceVars == <<race, resolver, clock, left, attempt, winner>>

Future == 1 .. Max({Addresses, Cardinality(DOMAIN Delay)})
Ready(f) == f \in left /\ attempt[f] \in {"ok", "error"}

RaceInit ==
    /\ race = "idle"
    /\ resolver = "none"
    /\ clock = 0
    /\ left = {}
    /\ attempt = [f \in Future |-> "asleep"]
    /\ winner = 0

\* select_ok, which asserts that it has something to select from.
SelectOk(futures, state) ==
    /\ left' = futures
    /\ attempt' = [f \in Future |-> state]
    /\ race' = IF futures = {} THEN "panicked" ELSE "on"

\* speed::connect: every connector begins after a sleep of its own.
BeginSpeed ==
    /\ race = "idle"
    /\ SelectOk(DOMAIN Delay, "asleep")
    /\ UNCHANGED <<resolver, clock, winner>>

\* create_quic_connection: only for a domain, whose addresses are looked up.
BeginQuic(server, with) ==
    /\ race = "idle"
    /\ race' = IF server.kind = "Addr" THEN "lost" ELSE "lookup"
    /\ resolver' = with
    /\ UNCHANGED <<clock, left, attempt, winner>>

\* Resolver::lookup_ip, of n addresses found: HickoryResolver makes an error
\* (None) of an empty answer, SystemResolver hands on what the system returns.
LookupIp(with, addresses) == IF with = "hickory" /\ addresses = 0 THEN -1 ELSE addresses

Resolved(addresses) ==
    /\ race = "lookup"
    /\ LET found == LookupIp(resolver, addresses)
       IN  IF found = -1
           THEN race' = "lost" /\ UNCHANGED <<left, attempt>>
           ELSE SelectOk(1 .. found, "trying")
    /\ UNCHANGED <<resolver, clock, winner>>

ResolveFails ==
    /\ race = "lookup"
    /\ race' = "lost"
    /\ UNCHANGED <<resolver, clock, left, attempt, winner>>

-----------------------------------------------------------------------------
\* Time goes on, once all that is due by now has begun.
Tick ==
    /\ race = "on"
    /\ \A f \in left : attempt[f] = "asleep" => Delay[f] > clock
    /\ \E f \in left : attempt[f] = "asleep"
    /\ clock' = clock + 1
    /\ UNCHANGED <<race, resolver, left, attempt, winner>>

\* The sleep is over and the connector is called.
Wake(f) ==
    /\ race = "on"
    /\ f \in left
    /\ attempt[f] = "asleep"
    /\ clock >= Delay[f]
    /\ attempt' = [attempt EXCEPT ![f] = "trying"]
    /\ UNCHANGED <<race, resolver, clock, left, winner>>

Attempted(f, outcome) ==
    /\ race = "on"
    /\ f \in left
    /\ attempt[f] = "trying"
    /\ attempt' = [attempt EXCEPT ![f] = outcome]
    /\ UNCHANGED <<race, resolver, clock, left, winner>>

\* Mutant of PollSelect: it waits for all of them.
PollSelectAll ==
    /\ race = "on"
    /\ \A f \in left : Ready(f)
    /\ LET oks == {f \in left : attempt[f] = "ok"}
       IN  /\ race' = IF oks = {} THEN "lost" ELSE "won"
           /\ winner' = IF oks = {} THEN 0 ELSE Min(oks)
           /\ left' = {}
    /\ UNCHANGED <<resolver, clock, attempt>>

\* One poll of select_ok: futures that have failed are removed, the first that
\* has succeeded is returned and the others are dropped, and the last error is
\* returned when none is left.
PollSelect ==
    /\ race = "on"
    /\ \E f \in left : Ready(f)
    /\ LET oks == {f \in left : attempt[f] = "ok"}
           trying == {f \in left : ~Ready(f)}
       IN  /\ race' = IF oks # {} THEN "won" ELSE IF trying = {} THEN "lost" ELSE "on"
           /\ winner' = IF oks = {} THEN 0 ELSE Min(oks)
           /\ left' = IF oks = {} THEN trying ELSE {}
    /\ UNCHANGED <<resolver, clock, attempt>>

Attempts == \E f \in Future : Wake(f) \/ Attempted(f, "ok") \/ Attempted(f, "error")

Racing == Tick \/ Attempts \/ PollSelect \/ (\E n \in 0 .. Addresses : Resolved(n)) \/ ResolveFails

-----------------------------------------------------------------------------
(***************************************************************************)
(* Whichever attempt succeeds first decides the race, though others hang   *)
(* or are still asleep: one attempt that has succeeded is enough.          *)
(***************************************************************************)
OneSuccessIsEnough ==
    \A f \in Future : (race = "on" /\ f \in left /\ attempt[f] = "ok") ~> race = "won"

=============================================================================
