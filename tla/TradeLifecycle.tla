--------------------------- MODULE TradeLifecycle ---------------------------
(***************************************************************************)
(* The life of a trade as the user of the bot sees it: proposed, approved, *)
(* executed, open, closed.  A proposal that is not approved, or that a     *)
(* crash or a failed order overtakes, is void for good; what was recorded  *)
(* as open can only be closed; what is closed is closed for good; and only *)
(* an approved trade is ever executed.                                     *)
(***************************************************************************)
CONSTANT Trade

VARIABLES
  phase,    \* where each trade stands
  consented \* the trades the user approved

Phase == {"new", "pending", "executing", "open", "closed", "void"}

LifecycleInit ==
  /\ phase = [id \in Trade |-> "new"]
  /\ consented = {}

Successors(p) ==
  CASE p = "new" -> {"new", "pending"}
    [] p = "pending" -> {"pending", "executing", "void"}
    [] p = "executing" -> {"executing", "open", "void"}
    [] p = "open" -> {"open", "closed"}
    [] p = "closed" -> {"closed"}
    [] OTHER -> {"void"}

\* One step may move many trades: a crash voids all that are pending.
LifecycleNext ==
  /\ phase' \in [Trade -> Phase]
  /\ consented \subseteq consented'
  /\ consented' \subseteq Trade
  /\ \A id \in Trade :
       /\ phase'[id] \in Successors(phase[id])
       /\ phase'[id] = "executing" => id \in consented

LifecycleSpec == LifecycleInit /\ [][LifecycleNext]_<<phase, consented>>

=============================================================================
