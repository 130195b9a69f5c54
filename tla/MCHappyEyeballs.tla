--------------------------- MODULE MCHappyEyeballs ---------------------------
(* Up to three IPv4 and two IPv6 addresses, in the order of the answers. *)
EXTENDS HappyEyeballs

CONSTANTS a1, a2, a3, b1, b2

MCIpv4Answers == {<<>>, <<a1>>, <<a1, a2>>, <<a1, a2, a3>>}
MCIpv6Answers == {<<>>, <<b1>>, <<b1, b2>>}

SmallIpv4Answers == {<<>>, <<a1>>, <<a1, a2>>}
SmallIpv6Answers == {<<>>, <<b1>>}

=============================================================================
