------------------------------ MODULE MCWatch ------------------------------
(* An instance of Watch: two rates that differ by more than the costs, so     *)
(* that either venue may be the one that pays more.                           *)
EXTENDS Watch

=============================================================================
