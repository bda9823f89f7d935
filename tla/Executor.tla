------------------------------ MODULE Executor ------------------------------
(***************************************************************************)
(* internal/executor: Open and Close, the two calls that trade.  Each runs *)
(* on a goroutine of its own and is a sequence of blocking venue calls;    *)
(* every venue call is one step, so that other goroutines, a shutdown or a *)
(* crash may fall between any two of them.                                 *)
(*                                                                         *)
(* The module holds the steps only.  TwoLegExecution closes it with the    *)
(* weakest caller, Strategy with the real one.                             *)
(***************************************************************************)
EXTENDS Venues

CONSTANTS
  Task,      \* goroutines that run execute or closePosition
  Trade,     \* identifiers of proposals, and of the positions they become
  NoTrade,   \* the identifier of an idle goroutine
  Symbol,
  Candidate, \* the candidate a trade is about
  Modes,     \* the venue sets buildVenues may build
  Holdings   \* what the accounts may hold before the bot trades

ASSUME NoTradeAssumption == NoTrade \notin Trade
ASSUME CandidateAssumption ==
  /\ Candidate \in [Trade -> [symbol : Symbol, short : Venue, long : Venue]]
  /\ \A id \in Trade : Candidate[id].short # Candidate[id].long
ASSUME ModesAssumption == Modes \subseteq SUBSET Venue
ASSUME HoldingsAssumption == Holdings \subseteq [Venue -> [Symbol -> Int]]

VARIABLES
  venues,    \* e.venues of the running process
  cancelled, \* the root context is done
  inFlight,  \* goroutines with a request under way when it was cancelled
  pc,        \* where each goroutine stands
  job,       \* the trade it works on
  fill,      \* the fills its executor call has returned so far
  held,      \* what the exchange traded for each leg of each trade
  net,       \* the net position of the account at each venue in each symbol
  alarms,    \* the legs for which the executor logged "manual close required"
  misled     \* history: the legs an order of which did not end as it was taken to

execVars == <<venues, cancelled, inFlight, pc, job, fill, held, net, alarms, misled>>

Opening == {"legA", "legB", "unwind", "opened", "openFailed"}
Closing == {"closeShort", "closeLong", "closed", "closeFailed"}

NoFill == [leg \in Leg |-> 0]
Hedge == [leg \in Leg |-> IF leg = "short" THEN -Size ELSE Size]

ExecInit ==
  /\ venues \in Modes
  /\ cancelled = FALSE
  /\ inFlight = {}
  /\ pc = [t \in Task |-> "idle"]
  /\ job = [t \in Task |-> NoTrade]
  /\ fill = [t \in Task |-> NoFill]
  /\ held = [id \in Trade |-> NoFill]
  /\ net \in Holdings
  /\ alarms = {}
  /\ misled = {}

-----------------------------------------------------------------------------
VenueOf(id, leg) == IF leg = "short" THEN Candidate[id].short ELSE Candidate[id].long

ContextOf(t) == IF ~cancelled THEN "live" ELSE IF t \in inFlight THEN "cut" ELSE "done"

\* The call that opens or closes a leg of the trade of t.  An account is in one-way
\* mode: at a venue and in a symbol the legs of all trades net out, and reduce-only
\* looks at the net.
OpenAnswers(t, leg, type) == PlaceOrder(VenueOf(job[t], leg), leg, type, ContextOf(t))

CloseAnswers(t, leg) ==
  LET v == VenueOf(job[t], leg)
  IN  ClosePosition(v, leg, net[v][Candidate[job[t]].symbol], ContextOf(t))

Goto(t, at) == pc' = [pc EXCEPT ![t] = at]

\* The exchange trades for a leg of the trade of t; the answer is kept when the
\* call succeeded, since an error returns early with an empty Fill.  The code takes
\* an error for "nothing was traded" and a success for "the leg is now at goal",
\* and cannot know better when that is not so.
Traded(t, leg, answer, goal) ==
  /\ held' = [held EXCEPT ![job[t]][leg] = @ + answer.delta]
  /\ net' = [net EXCEPT ![VenueOf(job[t], leg)][Candidate[job[t]].symbol] = @ + answer.delta]
  /\ fill' = IF answer.err THEN fill ELSE [fill EXCEPT ![t][leg] = answer.fill]
  /\ LET taken == IF answer.err THEN held[job[t]][leg] ELSE goal
     IN  misled' = IF held[job[t]][leg] + answer.delta = taken THEN misled
                   ELSE misled \cup {<<job[t], leg>>}
  /\ inFlight' = inFlight \ {t}

Known(id) == Candidate[id].short \in venues /\ Candidate[id].long \in venues

\* Open and Close look both venues up before they trade.
UnknownVenue(t) ==
  /\ pc[t] \in {"legA", "closeShort"}
  /\ ~Known(job[t])
  /\ Goto(t, IF pc[t] = "legA" THEN "openFailed" ELSE "closeFailed")
  /\ UNCHANGED <<venues, cancelled, inFlight, job, fill, held, net, alarms, misled>>

\* Leg A: sell on the short venue with a limit order.
LegA(t) ==
  /\ pc[t] = "legA"
  /\ Known(job[t])
  /\ \E answer \in OpenAnswers(t, "short", "limit") :
       /\ Traded(t, "short", answer, Hedge["short"])
       /\ Goto(t, IF answer.err THEN "openFailed" ELSE "legB")
  /\ UNCHANGED <<venues, cancelled, job, alarms>>

\* Leg B: buy on the long venue at market, once leg A returned.
LegBForgetsUnwind(t) ==
  /\ pc[t] = "legB"
  /\ \E answer \in OpenAnswers(t, "long", "market") :
       /\ Traded(t, "long", answer, Hedge["long"])
       /\ Goto(t, IF answer.err THEN "openFailed" ELSE "opened")
  /\ UNCHANGED <<venues, cancelled, job, alarms>>

LegBIgnoresError(t) ==
  /\ pc[t] = "legB"
  /\ \E answer \in OpenAnswers(t, "long", "market") :
       Traded(t, "long", answer, Hedge["long"])
  /\ Goto(t, "opened")
  /\ UNCHANGED <<venues, cancelled, job, alarms>>

LegB(t) ==
  /\ pc[t] = "legB"
  /\ \E answer \in OpenAnswers(t, "long", "market") :
       /\ Traded(t, "long", answer, Hedge["long"])
       /\ Goto(t, IF answer.err THEN "unwind" ELSE "opened")
  /\ UNCHANGED <<venues, cancelled, job, alarms>>

UnwindNamesVenue(t) ==
  /\ pc[t] = "unwind"
  /\ \E answer \in CloseAnswers(t, "short") :
       /\ Traded(t, "short", answer, 0)
       /\ alarms' = IF answer.err THEN alarms \cup {<<job[t], VenueOf(job[t], "short")>>} ELSE alarms
  /\ Goto(t, "openFailed")
  /\ UNCHANGED <<venues, cancelled, job>>

UnwindSilently(t) ==
  /\ pc[t] = "unwind"
  /\ \E answer \in CloseAnswers(t, "short") :
       Traded(t, "short", answer, 0)
  /\ Goto(t, "openFailed")
  /\ UNCHANGED <<venues, cancelled, job, alarms>>

\* Leg B failed: close leg A.  The unwind context derives from the caller's, and
\* a failure is only logged; Open returns an error either way.
Unwind(t) ==
  /\ pc[t] = "unwind"
  /\ \E answer \in CloseAnswers(t, "short") :
       /\ Traded(t, "short", answer, 0)
       /\ alarms' = IF answer.err THEN alarms \cup {<<job[t], "short">>} ELSE alarms
  /\ Goto(t, "openFailed")
  /\ UNCHANGED <<venues, cancelled, job>>

\* Close: first the short leg, then the long one, each at market.
CloseShort(t) ==
  /\ pc[t] = "closeShort"
  /\ Known(job[t])
  /\ \E answer \in CloseAnswers(t, "short") :
       /\ Traded(t, "short", answer, 0)
       /\ Goto(t, IF answer.err THEN "closeFailed" ELSE "closeLong")
  /\ UNCHANGED <<venues, cancelled, job, alarms>>

CloseLong(t) ==
  /\ pc[t] = "closeLong"
  /\ \E answer \in CloseAnswers(t, "long") :
       /\ Traded(t, "long", answer, 0)
       /\ alarms' = IF answer.err THEN alarms \cup {<<job[t], "long">>} ELSE alarms
       /\ Goto(t, IF answer.err THEN "closeFailed" ELSE "closed")
  /\ UNCHANGED <<venues, cancelled, job>>

LegAt(place) == IF place \in {"legB", "closeLong"} THEN "long" ELSE "short"

\* The root context is cancelled.  A goroutine about to send a request that carries the
\* context may have sent it already; then it is cut off.
Cuttable ==
  {t \in Task :
     /\ pc[t] \in {"legA", "legB", "unwind", "closeShort", "closeLong"}
     /\ Known(job[t])
     /\ Adapter[VenueOf(job[t], LegAt(pc[t]))] = "binance"}

CutRequests == cancelled' = TRUE /\ inFlight' \in SUBSET Cuttable

ExecStep(t) ==
  UnknownVenue(t) \/ LegA(t) \/ LegB(t) \/ Unwind(t) \/ CloseShort(t) \/ CloseLong(t)

=============================================================================
