------------------------------ MODULE MCFakeDns ------------------------------
(* Four domains share three IPv4 addresses, and there is no IPv6 pool. *)
EXTENDS FakeDns

CONSTANTS a1, a2, a3

ThreeIpv4 == <<a1, a2, a3>>
NoIpv6 == <<>>

=============================================================================
