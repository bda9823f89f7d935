----------------------------- MODULE AtomicTrade -----------------------------
(***************************************************************************)
(* What a caller of the executor may rely on, without the venue calls in   *)
(* between: a call on a trade ends with the trade flat, with both legs     *)
(* held in full, or with a residual exposure that was reported or that no  *)
(* answer of an exchange gave away.                                        *)
(***************************************************************************)
CONSTANT Trade

VARIABLES
  exposure, \* what the trade holds, as its caller sees it
  reported, \* trades for which "manual close required" was logged
  misled    \* trades with an order that did not end as its answer was taken

AtomicInit ==
  /\ exposure = [id \in Trade |-> "flat"]
  /\ reported = {}
  /\ misled = {}

\* A call is under way: it cannot be seen what the trade holds.
Begin(id) ==
  /\ exposure[id] # "unknown"
  /\ exposure' = [exposure EXCEPT ![id] = "unknown"]
  /\ UNCHANGED <<reported, misled>>

\* An order of the call ends.
Order(id) ==
  /\ exposure[id] = "unknown"
  /\ reported' \in {reported, reported \cup {id}}
  /\ misled' \in {misled, misled \cup {id}}
  /\ UNCHANGED exposure

\* The call returns; it may not leave a residue that it knows of and tells
\* nobody.
End(id) ==
  /\ exposure[id] = "unknown"
  /\ \E e \in {"flat", "hedged", "residual"} :
       /\ e = "residual" => id \in reported \cup misled
       /\ exposure' = [exposure EXCEPT ![id] = e]
  /\ UNCHANGED <<reported, misled>>

AtomicNext == \E id \in Trade : Begin(id) \/ Order(id) \/ End(id)

AtomicSpec == AtomicInit /\ [][AtomicNext]_<<exposure, reported, misled>>

=============================================================================
