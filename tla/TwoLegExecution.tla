--------------------------- MODULE TwoLegExecution ---------------------------
(***************************************************************************)
(* The executor under the weakest caller: any trade may be opened once,    *)
(* any trade reported open may be closed, closed again after a failure,    *)
(* several trades at a time, and the root context may be cancelled between *)
(* any two venue calls and during one.  The caller does not run two calls  *)
(* for one trade at a time; Strategy shows what happens to one that does.  *)
(***************************************************************************)
EXTENDS Executor

VARIABLES
  tried, \* trades Open has been called for
  book   \* trades Open reported open and Close has not reported closed

twoLegVars == <<execVars, tried, book>>

TwoLegInit ==
  /\ ExecInit
  /\ tried = {}
  /\ book = {}

-----------------------------------------------------------------------------
Busy(id) == \E t \in Task : job[t] = id

Call(t, id, entry) ==
  /\ pc[t] = "idle"
  /\ ~Busy(id)
  /\ Goto(t, entry)
  /\ job' = [job EXCEPT ![t] = id]
  /\ UNCHANGED <<venues, cancelled, inFlight, fill, held, net, alarms, misled, book>>

CallOpen(t, id) == id \notin tried /\ tried' = tried \cup {id} /\ Call(t, id, "legA")

CallClose(t, id) == id \in book /\ Call(t, id, "closeShort") /\ UNCHANGED tried

\* Open or Close returns to its caller.
Return(t) ==
  /\ pc[t] \in {"opened", "openFailed", "closed", "closeFailed"}
  /\ book' = CASE pc[t] = "opened" -> book \cup {job[t]}
               [] pc[t] = "closed" -> book \ {job[t]}
               [] OTHER -> book
  /\ Goto(t, "idle")
  /\ job' = [job EXCEPT ![t] = NoTrade]
  /\ fill' = [fill EXCEPT ![t] = NoFill]
  /\ UNCHANGED <<venues, cancelled, inFlight, held, net, alarms, misled, tried>>

\* SIGTERM, or another member of the errgroup failed.
CancelContext ==
  /\ ~cancelled
  /\ CutRequests
  /\ UNCHANGED <<venues, pc, job, fill, held, net, alarms, misled, tried, book>>

TwoLegStep(t) ==
  \/ \E id \in Trade : CallOpen(t, id) \/ CallClose(t, id)
  \/ ExecStep(t) /\ UNCHANGED <<tried, book>>
  \/ Return(t)

TwoLegNext == (\E t \in Task : TwoLegStep(t)) \/ CancelContext

TwoLegSpec == TwoLegInit /\ [][TwoLegNext]_twoLegVars

-----------------------------------------------------------------------------
\* Every variable of the executor stays in its domain.
TwoLegTypeOK ==
  /\ venues \in Modes
  /\ cancelled \in BOOLEAN
  /\ inFlight \subseteq Task
  /\ pc \in [Task -> {"idle"} \cup Opening \cup Closing]
  /\ job \in [Task -> Trade \cup {NoTrade}]
  /\ fill \in [Task -> [Leg -> Int]]
  /\ held \in [Trade -> [Leg -> Int]]
  /\ net \in [Venue -> [Symbol -> Int]]
  /\ alarms \subseteq Trade \X Leg
  /\ misled \subseteq Trade \X Leg
  /\ tried \subseteq Trade
  /\ book \subseteq Trade

\* When Open reports success its long leg is held in full and never more than that is
\* sold, whatever the other goroutines, the other trades and the context did between
\* the two orders.  The short leg is held in full as well where limit orders are not
\* filled in part; where they are, the position executor.go:37 calls delta-neutral is
\* long, and the fills say so, save that of a Bybit short leg (executor.go:64-96,
\* bybit.go:198-214).
OpenedIsCovered ==
  \A t \in Task :
    pc[t] = "opened" =>
      /\ held[job[t]]["long"] = Size
      /\ held[job[t]]["short"] \in -Size .. 0
      /\ "partial" \notin Faults[VenueOf(job[t], "short")] => held[job[t]] = Hedge
      /\ Adapter[VenueOf(job[t], "short")] # "bybit" => fill[t] = held[job[t]]

\* A call never leaves a leg behind that somebody could know of and nobody does.  A
\* leg that is held is being worked on, or its caller was told the trade is open, or
\* the executor asked for a manual close, whatever the exchange refuses, fills in
\* part, nets out or does not answer, and whenever the context is cancelled; unless
\* the exchange did something else with that leg than its answer was taken for
\* (executor.go:64-96 and 110-123).
EveryLegAccounted ==
  \A id \in Trade, leg \in Leg :
    held[id][leg] # 0 /\ <<id, leg>> \notin misled =>
      Busy(id) \/ id \in book \/ \E l \in Leg : <<id, l>> \in alarms

\* On a failure of leg B, leg A is closed (executor.go:38): a failed Open leaves
\* nothing behind, as long as nobody cancelled the context meanwhile.
LegBFailureClosesLegA ==
  \A t \in Task : pc[t] = "openFailed" /\ ~cancelled => held[job[t]] = NoFill

-----------------------------------------------------------------------------
\* The exposure the caller sees.
Exposure(id) ==
  IF Busy(id) THEN "unknown"
  ELSE IF held[id] = NoFill THEN "flat"
  ELSE IF held[id] = Hedge THEN "hedged"
  ELSE "residual"

Atomic == INSTANCE AtomicTrade WITH
  exposure <- [id \in Trade |-> Exposure(id)],
  reported <- {x[1] : x \in alarms},
  misled <- {x[1] : x \in misled}

\* The two calls, with every venue call and every failure between them, look
\* atomic to their caller, up to what was reported and what could not be known.
ImplementsAtomicTrade == Atomic!AtomicSpec

=============================================================================
