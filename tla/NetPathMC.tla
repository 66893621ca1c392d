----------------------------- MODULE NetPathMC ------------------------------
EXTENDS NetPath

(* A datagram of five fragments whose last is shorter than a block, one of  *)
(* two blocks a fragment, and one that is longer than the buffer.           *)
MCDatagrams == {1, 2, 3}
MCCuts == <<<<0, 8, 16, 24, 32, 35>>, <<0, 16, 32, 37>>, <<0, 32, 48>>>>
=============================================================================
