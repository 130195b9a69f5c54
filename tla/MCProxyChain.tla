----------------------------- MODULE MCProxyChain -----------------------------
(* Names that fit, that just fit and that do not, with a blank and not in ASCII; *)
(* addresses; both bytes of a port.                                              *)
EXTENDS ProxyChain

MCRequests ==
    { new_from_domain(<<100>>, 80),
      new_from_domain(<<101, 101, 101, 101, 101>>, 513),
      new_from_domain(<<102, 102, 102, 102, 102, 102>>, 80),
      new_from_domain(<<32, 100>>, 80),
      new_from_domain(<<200>>, 80),
      new_from_domain(Bracketed(<<Colon, Colon, Digit(1)>>), 80),
      new_from_addr(<<Digit(1), Dot>>, 513),
      new_from_addr(<<Colon, Colon, Digit(1)>>, 513) }

MCDelay == <<0, 1, 1>>

=============================================================================
