------------------------------- MODULE Acceptor -------------------------------
(***************************************************************************)
(* What handle_acceptors() of core/src/config/engine/mod.rs relies on in   *)
(* an acceptor, and each connection gets from the engine: the handshake    *)
(* names one endpoint, once; the engine connects to it; only then is the   *)
(* client told so.  It may all end at any time, and never goes back.       *)
(***************************************************************************)
CONSTANT NoEndpoint

VARIABLES phase, endpoint

vars == <<phase, endpoint>>

Init == phase = "handshaking" /\ endpoint = NoEndpoint

Accept ==
    /\ phase = "handshaking"
    /\ phase' = "connecting"
    /\ endpoint' # NoEndpoint

Connect ==
    /\ phase = "connecting"
    /\ phase' = "connected"
    /\ UNCHANGED endpoint

Answer ==
    /\ phase = "connected"
    /\ phase' = "answered"
    /\ UNCHANGED endpoint

End ==
    /\ phase' = "ended"
    /\ UNCHANGED endpoint

Next == Accept \/ Connect \/ Answer \/ End

Spec == Init /\ [][Next]_vars

=============================================================================
