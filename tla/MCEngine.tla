------------------------------ MODULE MCEngine ------------------------------
(* An instance of Engine: two venues, one symbol, two rates that differ by    *)
(* more than the costs.                                                       *)
EXTENDS Engine

CONSTANTS bn, bb, btc

=============================================================================
