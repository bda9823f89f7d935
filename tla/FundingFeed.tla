---------------------------- MODULE FundingFeed ----------------------------
(***************************************************************************)
(* What internal/venue/venue.go promises of SubscribeFunding: the channel  *)
(* of a venue stays open until the context is cancelled and is closed some *)
(* time after.                                                             *)
(***************************************************************************)
CONSTANT Venue

VARIABLES
  cancelled, \* the context is done
  ended      \* the venues whose channel is closed

feedVars == <<cancelled, ended>>

FundingInit ==
  /\ cancelled = FALSE
  /\ ended = {}

Cancel ==
  /\ ~cancelled
  /\ cancelled' = TRUE
  /\ UNCHANGED ended

End(v) ==
  /\ cancelled /\ v \notin ended
  /\ ended' = ended \cup {v}
  /\ UNCHANGED cancelled

FundingNext == Cancel \/ \E v \in Venue : End(v)

\* A channel closes only after the cancellation, and once.
FundingSafety == FundingInit /\ [][FundingNext]_feedVars

\* After the cancellation every channel closes in the end.
FundingLiveness == \A v \in Venue : WF_feedVars(End(v))

FundingSpec == FundingSafety /\ FundingLiveness

=============================================================================
