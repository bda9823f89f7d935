--------------------------- MODULE ExecutorProofs ---------------------------
(***************************************************************************)
(* Facts about the venue adapters and about one step of an executor call,  *)
(* for any caller: the proofs of TwoLegExecution and of Strategy rest on   *)
(* them.                                                                   *)
(***************************************************************************)
EXTENDS Executor, TLAPS

USE DEF Leg

-----------------------------------------------------------------------------
(* The venue adapters *)

LEMMA LiveAnswersType ==
  ASSUME NEW v \in Venue, NEW leg \in Leg, NEW side, NEW traded \in SUBSET (0 .. Size),
         NEW ctx
  PROVE  LiveAnswers(v, leg, side, traded, ctx) \subseteq Answer
<1>1. Size \in Int
  BY SizeAssumption
<1>2. \A q \in traded : q \in Int
  BY <1>1
<1>3. \A q \in traded : Signed(side, q) \in Int /\ LiveFill(v, leg, q) \in Int
  BY <1>1, <1>2 DEF Signed, LiveFill
<1>4. SUFFICES ASSUME NEW a \in LiveAnswers(v, leg, side, traded, ctx)
               PROVE  a \in Answer
  OBVIOUS
<1>5. \/ \E q \in traded :
            a = [err |-> FALSE, delta |-> Signed(side, q), fill |-> LiveFill(v, leg, q)]
      \/ \E q \in traded : a = [err |-> TRUE, delta |-> Signed(side, q), fill |-> 0]
      \/ a = Refused
  BY ZenonT(30) DEF LiveAnswers
<1>6. CASE \E q \in traded :
             a = [err |-> FALSE, delta |-> Signed(side, q), fill |-> LiveFill(v, leg, q)]
  BY <1>3, <1>6 DEF Answer
<1>7. CASE \E q \in traded : a = [err |-> TRUE, delta |-> Signed(side, q), fill |-> 0]
  <2>1. PICK q \in traded : a = [err |-> TRUE, delta |-> Signed(side, q), fill |-> 0]
    BY <1>7
  <2>2. QED
    BY <1>3, <2>1 DEF Answer
<1>8. CASE a = Refused
  BY <1>8 DEF Answer, Refused
<1>9. QED
  BY <1>5, <1>6, <1>7, <1>8

LEMMA SimAnswerType ==
  ASSUME NEW side
  PROVE  [err |-> FALSE, delta |-> Signed(side, Size), fill |-> Signed(side, Size)] \in Answer
BY SizeAssumption DEF Signed, Answer

LEMMA PlaceOrderType ==
  ASSUME NEW v \in Venue, NEW leg \in Leg, NEW type, NEW ctx
  PROVE  PlaceOrder(v, leg, type, ctx) \subseteq Answer
<1>1. {Refused} \subseteq Answer
  BY DEF Refused, Answer
<1>2. QED
  BY <1>1, LiveAnswersType, SimAnswerType DEF PlaceOrder

\* The net position need not be a number for this: what a reduce-only order trades
\* is bounded by its own size.
LEMMA ClosePositionType ==
  ASSUME NEW v \in Venue, NEW leg \in Leg, NEW n, NEW ctx
  PROVE  ClosePosition(v, leg, n, ctx) \subseteq Answer
<1>1. {Refused} \subseteq Answer
  BY DEF Refused, Answer
<1>2. \A side : Reducible(side, n) \subseteq 0 .. Size
  BY SizeAssumption DEF Reducible
<1>3. QED
  BY <1>1, <1>2, LiveAnswersType, SimAnswerType DEF ClosePosition

\* An opening order that succeeds trades its whole size unless limit orders are filled
\* in part, and never more; only Bybit's Fill may claim more than was traded.
LEMMA OpenFill ==
  ASSUME NEW v \in Venue, NEW leg \in Leg, NEW type \in {"limit", "market"}, NEW ctx,
         NEW answer \in PlaceOrder(v, leg, type, ctx), ~answer.err
  PROVE  /\ leg = "short" => answer.delta \in -Size .. 0
         /\ leg = "long" => answer.delta \in 0 .. Size
         /\ type = "market" \/ "partial" \notin Faults[v] => answer.delta = Hedge[leg]
         /\ type = "market" \/ Adapter[v] # "bybit" => answer.fill = answer.delta
<1>1. PICK q \in 0 .. Size :
        /\ answer.delta = Signed(OpenSide(leg), q)
        /\ type = "market" \/ "partial" \notin Faults[v] => q = Size
        /\ \/ answer.fill = Signed(OpenSide(leg), q)
           \/ answer.fill = LiveFill(v, leg, q)
  BY SizeAssumption DEF PlaceOrder, LiveAnswers, Refused
<1>2. QED
  BY <1>1, SizeAssumption DEF LiveFill, Signed, OpenSide, Hedge

LEMMA VenueOfType ==
  ASSUME NEW id \in Trade, NEW leg \in Leg
  PROVE  VenueOf(id, leg) \in Venue
BY CandidateAssumption DEF VenueOf

LEMMA AnswersType ==
  ASSUME NEW t, job[t] \in Trade, NEW leg \in Leg
  PROVE  /\ \A type : OpenAnswers(t, leg, type) \subseteq Answer
         /\ CloseAnswers(t, leg) \subseteq Answer
BY VenueOfType, PlaceOrderType, ClosePositionType DEF OpenAnswers, CloseAnswers

-----------------------------------------------------------------------------
(* One step of an executor call *)

\* The domains of the executor's variables; callers add program counters.
ExecTypes(PC) ==
  /\ venues \in Modes
  /\ cancelled \in BOOLEAN
  /\ inFlight \subseteq Task
  /\ pc \in [Task -> PC]
  /\ job \in [Task -> Trade \cup {NoTrade}]
  /\ fill \in [Task -> [Leg -> Int]]
  /\ held \in [Trade -> [Leg -> Int]]
  /\ net \in [Venue -> [Symbol -> Int]]
  /\ alarms \subseteq Trade \X Leg
  /\ misled \subseteq Trade \X Leg

LEMMA NoFillType == NoFill \in [Leg -> Int]
BY DEF NoFill

LEMMA ExecInitType ==
  ASSUME NEW PC, "idle" \in PC, ExecInit
  PROVE  ExecTypes(PC)
BY NoFillType, HoldingsAssumption DEF ExecInit, ExecTypes

LEMMA TradedType ==
  ASSUME NEW PC, ExecTypes(PC), NEW t \in Task, job[t] \in Trade, NEW leg \in Leg,
         NEW answer \in Answer, NEW goal, Traded(t, leg, answer, goal)
  PROVE  /\ held' \in [Trade -> [Leg -> Int]]
         /\ fill' \in [Task -> [Leg -> Int]]
         /\ net' \in [Venue -> [Symbol -> Int]]
         /\ inFlight' \subseteq Task
         /\ misled' \subseteq Trade \X Leg
<1> USE DEF ExecTypes, Answer
<1>1. held[job[t]] \in [Leg -> Int]
  OBVIOUS
<1>2. held[job[t]][leg] + answer.delta \in Int
  BY <1>1
<1>3. [held[job[t]] EXCEPT ![leg] = @ + answer.delta] \in [Leg -> Int]
  BY <1>1, <1>2
<1>4. held' \in [Trade -> [Leg -> Int]]
  BY <1>3 DEF Traded
<1>5. [fill[t] EXCEPT ![leg] = answer.fill] \in [Leg -> Int]
  OBVIOUS
<1>6. fill' \in [Task -> [Leg -> Int]]
  BY <1>5 DEF Traded
<1>7. net' \in [Venue -> [Symbol -> Int]]
  <2> DEFINE v == VenueOf(job[t], leg)
             s == Candidate[job[t]].symbol
  <2>1. v \in Venue /\ s \in Symbol
    BY VenueOfType, CandidateAssumption
  <2>2. net[v] \in [Symbol -> Int] /\ net[v][s] + answer.delta \in Int
    BY <2>1
  <2>3. [net[v] EXCEPT ![s] = @ + answer.delta] \in [Symbol -> Int]
    BY <2>1, <2>2
  <2>4. net' = [net EXCEPT ![v] = [net[v] EXCEPT ![s] = @ + answer.delta]]
    BY <2>1 DEF Traded
  <2>5. QED
    BY <2>1, <2>3, <2>4
<1>8. inFlight' \subseteq Task /\ misled' \subseteq Trade \X Leg
  BY DEF Traded
<1>9. QED
  BY <1>4, <1>6, <1>7, <1>8

\* The steps keep the types.
LEMMA ExecStepType ==
  ASSUME NEW PC, Opening \cup Closing \subseteq PC, ExecTypes(PC),
         NEW t \in Task, job[t] \in Trade, ExecStep(t)
  PROVE  ExecTypes(PC)'
<1> USE DEF ExecTypes, Goto, Opening, Closing
<1> DEFINE Typed == /\ held' \in [Trade -> [Leg -> Int]]
                    /\ fill' \in [Task -> [Leg -> Int]]
                    /\ net' \in [Venue -> [Symbol -> Int]]
                    /\ inFlight' \subseteq Task
                    /\ misled' \subseteq Trade \X Leg
<1>1. CASE UnknownVenue(t)
  BY <1>1 DEF UnknownVenue
<1>2. CASE LegA(t)
  <2>1. PICK answer \in Answer :
          /\ Traded(t, "short", answer, Hedge["short"])
          /\ Goto(t, IF answer.err THEN "openFailed" ELSE "legB")
    BY <1>2, AnswersType DEF LegA
  <2>2. Typed
    BY <2>1, TradedType
  <2>3. QED
    BY <1>2, <2>1, <2>2 DEF LegA
<1>3. CASE LegB(t)
  <2>1. PICK answer \in Answer :
          /\ Traded(t, "long", answer, Hedge["long"])
          /\ Goto(t, IF answer.err THEN "unwind" ELSE "opened")
    BY <1>3, AnswersType DEF LegB
  <2>2. Typed
    BY <2>1, TradedType
  <2>3. QED
    BY <1>3, <2>1, <2>2 DEF LegB
<1>4. CASE Unwind(t)
  <2>1. PICK answer \in Answer :
          /\ Traded(t, "short", answer, 0)
          /\ alarms' = IF answer.err THEN alarms \cup {<<job[t], "short">>} ELSE alarms
    BY <1>4, AnswersType DEF Unwind
  <2>2. Typed
    BY <2>1, TradedType
  <2>3. alarms' \subseteq Trade \X Leg
    BY <2>1
  <2>4. QED
    BY <1>4, <2>2, <2>3 DEF Unwind
<1>5. CASE CloseShort(t)
  <2>1. PICK answer \in Answer :
          /\ Traded(t, "short", answer, 0)
          /\ Goto(t, IF answer.err THEN "closeFailed" ELSE "closeLong")
    BY <1>5, AnswersType DEF CloseShort
  <2>2. Typed
    BY <2>1, TradedType
  <2>3. QED
    BY <1>5, <2>1, <2>2 DEF CloseShort
<1>6. CASE CloseLong(t)
  <2>1. PICK answer \in Answer :
          /\ Traded(t, "long", answer, 0)
          /\ alarms' = IF answer.err THEN alarms \cup {<<job[t], "long">>} ELSE alarms
          /\ Goto(t, IF answer.err THEN "closeFailed" ELSE "closed")
    BY <1>6, AnswersType DEF CloseLong
  <2>2. Typed
    BY <2>1, TradedType
  <2>3. alarms' \subseteq Trade \X Leg
    BY <2>1
  <2>4. QED
    BY <1>6, <2>1, <2>2, <2>3 DEF CloseLong
<1>7. QED
  BY <1>1, <1>2, <1>3, <1>4, <1>5, <1>6 DEF ExecStep

\* What is not the trade of t stays as it is, and nothing is taken back.
Others(t) ==
  /\ \A id \in Trade : id # job[t] => held'[id] = held[id]
  /\ \A u \in Task : u # t => fill'[u] = fill[u]
  /\ misled \subseteq misled'
  /\ \A x \in Trade \X Leg : x[1] # job[t] => (x \in misled' <=> x \in misled)

LEMMA TradedFrame ==
  ASSUME NEW PC, ExecTypes(PC), NEW t \in Task, NEW leg, NEW answer, NEW goal,
         Traded(t, leg, answer, goal)
  PROVE  Others(t)
<1>1. \A id \in Trade : id # job[t] => held'[id] = held[id]
  BY DEF Traded, ExecTypes
<1>2. \A u \in Task : u # t => fill'[u] = fill[u]
  BY DEF Traded, ExecTypes
<1>3. misled' = misled \/ misled' = misled \cup {<<job[t], leg>>}
  BY DEF Traded
<1>4. QED
  BY <1>1, <1>2, <1>3 DEF Others

\* A step moves its own goroutine only, within Open or within Close, and trades for
\* its own trade only.
LEMMA ExecStepFrame ==
  ASSUME NEW PC, ExecTypes(PC), NEW t \in Task, ExecStep(t)
  PROVE  /\ job' = job /\ venues' = venues /\ cancelled' = cancelled
         /\ \A u \in Task : u # t => pc'[u] = pc[u]
         /\ \/ pc[t] \in Opening /\ pc'[t] \in Opening
            \/ pc[t] \in Closing /\ pc'[t] \in Closing
         /\ \A id \in Trade : id # job[t] => held'[id] = held[id]
         /\ \A u \in Task : u # t => fill'[u] = fill[u]
         /\ alarms \subseteq alarms' /\ misled \subseteq misled'
         /\ \A x \in Trade \X Leg : x[1] # job[t] =>
              (x \in misled' <=> x \in misled) /\ (x \in alarms' <=> x \in alarms)
<1>1. CASE UnknownVenue(t)
  BY <1>1 DEF UnknownVenue, Goto, ExecTypes, Opening, Closing
<1>2. CASE LegA(t)
  <2>1. PICK answer : Traded(t, "short", answer, Hedge["short"])
    BY <1>2 DEF LegA
  <2>2. Others(t)
    BY <2>1, TradedFrame
  <2>3. QED
    BY <1>2, <2>2 DEF LegA, Others, Goto, ExecTypes, Opening, Closing
<1>3. CASE LegB(t)
  <2>1. PICK answer : Traded(t, "long", answer, Hedge["long"])
    BY <1>3 DEF LegB
  <2>2. Others(t)
    BY <2>1, TradedFrame
  <2>3. QED
    BY <1>3, <2>2 DEF LegB, Others, Goto, ExecTypes, Opening, Closing
<1>4. CASE Unwind(t)
  <2>1. PICK answer : Traded(t, "short", answer, 0)
    BY <1>4 DEF Unwind
  <2>2. Others(t)
    BY <2>1, TradedFrame
  <2>3. QED
    BY <1>4, <2>2 DEF Unwind, Others, Goto, ExecTypes, Opening, Closing
<1>5. CASE CloseShort(t)
  <2>1. PICK answer : Traded(t, "short", answer, 0)
    BY <1>5 DEF CloseShort
  <2>2. Others(t)
    BY <2>1, TradedFrame
  <2>3. QED
    BY <1>5, <2>2 DEF CloseShort, Others, Goto, ExecTypes, Opening, Closing
<1>6. CASE CloseLong(t)
  <2>1. PICK answer : Traded(t, "long", answer, 0)
    BY <1>6 DEF CloseLong
  <2>2. Others(t)
    BY <2>1, TradedFrame
  <2>3. QED
    BY <1>6, <2>2 DEF CloseLong, Others, Goto, ExecTypes, Opening, Closing
<1>7. QED
  BY <1>1, <1>2, <1>3, <1>4, <1>5, <1>6 DEF ExecStep

-----------------------------------------------------------------------------
(* What an order does to the leg it is for *)

OnSim(id, leg) == Adapter[VenueOf(id, leg)] = "sim"

\* A simulator fills every order.
LEMMA SimTrades ==
  ASSUME NEW t, NEW leg \in Leg, OnSim(job[t], leg)
  PROVE  /\ \A answer \in CloseAnswers(t, leg) :
              /\ ~answer.err /\ answer.fill = answer.delta
              /\ answer.delta = IF leg = "short" THEN Size ELSE -Size
         /\ \A type : \A answer \in OpenAnswers(t, leg, type) :
              /\ ~answer.err /\ answer.fill = answer.delta
              /\ answer.delta = IF leg = "short" THEN -Size ELSE Size
BY DEF OnSim, OpenAnswers, CloseAnswers, ClosePosition, PlaceOrder, CloseSide, OpenSide, Signed

\* An order for one leg leaves the other alone.
LEMMA TradedLeg ==
  ASSUME NEW PC, ExecTypes(PC), NEW t \in Task, job[t] \in Trade, NEW leg \in Leg,
         NEW answer \in Answer, NEW goal, Traded(t, leg, answer, goal)
  PROVE  /\ held'[job[t]][leg] = held[job[t]][leg] + answer.delta
         /\ \A other \in Leg : other # leg => held'[job[t]][other] = held[job[t]][other]
         /\ answer.err => fill'[t][leg] = fill[t][leg]
         /\ ~answer.err => fill'[t][leg] = answer.fill
         /\ \A other \in Leg : other # leg => fill'[t][other] = fill[t][other]
<1>1. held[job[t]] \in [Leg -> Int] /\ fill[t] \in [Leg -> Int] /\ answer.delta \in Int
  BY DEF ExecTypes, Answer
<1>2. held'[job[t]] = [held[job[t]] EXCEPT ![leg] = @ + answer.delta]
  BY DEF ExecTypes, Traded
<1>3. fill'[t] = IF answer.err THEN fill[t] ELSE [fill[t] EXCEPT ![leg] = answer.fill]
  BY DEF ExecTypes, Traded
<1>4. QED
  BY <1>1, <1>2, <1>3 DEF Traded

-----------------------------------------------------------------------------
(* What is held at each place of a call *)

Alarmed(id) == \E leg \in Leg : <<id, leg>> \in alarms

\* Where the code takes a leg to be when a call stands at place.
Goal(place, leg) ==
  IF \/ place \in {"opened", "closeShort", "closeFailed"}
     \/ place \in {"legB", "unwind"} /\ leg = "short"
     \/ place = "closeLong" /\ leg = "long"
  THEN Hedge[leg]
  ELSE 0

\* From one place of a call to the next: what an executor step does to a leg, unless its
\* order misled the executor about it or it has asked for a manual close.
LEMMA ExecStepLeg ==
  ASSUME NEW PC, ExecTypes(PC), NEW t \in Task, job[t] \in Trade, ExecStep(t),
         NEW leg \in Leg, <<job[t], leg>> \notin misled', ~Alarmed(job[t])'
  PROVE  LET before == held[job[t]][leg]
             after == held'[job[t]][leg]
         IN  \/ /\ after = before
                /\ \/ pc[t] = "legA" /\ pc'[t] = "openFailed"
                   \/ pc[t] = "legB" /\ pc'[t] = "unwind"
                   \/ pc[t] = "closeShort" /\ pc'[t] = "closeFailed"
             \/ /\ after = IF leg = "short" THEN Hedge["short"] ELSE before
                /\ pc[t] = "legA" /\ pc'[t] = "legB"
             \/ /\ after = IF leg = "long" THEN Hedge["long"] ELSE before
                /\ pc[t] = "legB" /\ pc'[t] = "opened"
             \/ /\ after = IF leg = "short" THEN 0 ELSE before
                /\ \/ pc[t] = "unwind" /\ pc'[t] = "openFailed"
                   \/ pc[t] = "closeShort" /\ pc'[t] = "closeLong"
             \/ /\ after = IF leg = "long" THEN 0 ELSE before
                /\ pc[t] = "closeLong" /\ pc'[t] = "closed"
<1> USE DEF Goto
<1>0. pc \in [Task -> PC] /\ job' = job
  BY ExecStepFrame DEF ExecTypes
<1> DEFINE Moves(which, answer, goal) ==
             held'[job[t]][leg] =
               IF leg # which \/ answer.err THEN held[job[t]][leg] ELSE goal
<1>10. ASSUME NEW which \in Leg, NEW answer \in Answer, NEW goal,
              Traded(t, which, answer, goal)
       PROVE  Moves(which, answer, goal)
  <2>1. CASE leg = which
    <3>1. held'[job[t]][leg] = held[job[t]][leg] + answer.delta
      BY <1>10, <2>1, TradedLeg
    <3>2. held[job[t]][leg] + answer.delta = IF answer.err THEN held[job[t]][leg] ELSE goal
      BY <1>10, <2>1 DEF Traded
    <3>3. QED
      BY <2>1, <3>1, <3>2
  <2>2. CASE leg # which
    BY <1>10, <2>2, TradedLeg
  <2>3. QED
    BY <2>1, <2>2
<1>1. CASE UnknownVenue(t)
  BY <1>0, <1>1 DEF UnknownVenue
<1>2. CASE LegA(t)
  <2>1. PICK answer \in Answer :
          /\ Traded(t, "short", answer, Hedge["short"])
          /\ Goto(t, IF answer.err THEN "openFailed" ELSE "legB")
    BY <1>2, AnswersType DEF LegA
  <2>2. Moves("short", answer, Hedge["short"])
    BY <1>10, <2>1
  <2>3. QED
    BY <1>0, <1>2, <2>1, <2>2 DEF LegA
<1>3. CASE LegB(t)
  <2>1. PICK answer \in Answer :
          /\ Traded(t, "long", answer, Hedge["long"])
          /\ Goto(t, IF answer.err THEN "unwind" ELSE "opened")
    BY <1>3, AnswersType DEF LegB
  <2>2. Moves("long", answer, Hedge["long"])
    BY <1>10, <2>1
  <2>3. QED
    BY <1>0, <1>3, <2>1, <2>2 DEF LegB
<1>4. CASE Unwind(t)
  <2>1. PICK answer \in Answer :
          /\ Traded(t, "short", answer, 0)
          /\ alarms' = IF answer.err THEN alarms \cup {<<job[t], "short">>} ELSE alarms
    BY <1>4, AnswersType DEF Unwind
  <2>2. Moves("short", answer, 0)
    BY <1>10, <2>1
  <2>3. ~answer.err
    BY <1>0, <2>1 DEF Alarmed
  <2>4. QED
    BY <1>0, <1>4, <2>2, <2>3 DEF Unwind
<1>5. CASE CloseShort(t)
  <2>1. PICK answer \in Answer :
          /\ Traded(t, "short", answer, 0)
          /\ Goto(t, IF answer.err THEN "closeFailed" ELSE "closeLong")
    BY <1>5, AnswersType DEF CloseShort
  <2>2. Moves("short", answer, 0)
    BY <1>10, <2>1
  <2>3. QED
    BY <1>0, <1>5, <2>1, <2>2 DEF CloseShort
<1>6. CASE CloseLong(t)
  <2>1. PICK answer \in Answer :
          /\ Traded(t, "long", answer, 0)
          /\ alarms' = IF answer.err THEN alarms \cup {<<job[t], "long">>} ELSE alarms
          /\ Goto(t, IF answer.err THEN "closeFailed" ELSE "closed")
    BY <1>6, AnswersType DEF CloseLong
  <2>2. Moves("long", answer, 0)
    BY <1>10, <2>1
  <2>3. ~answer.err
    BY <1>0, <2>1 DEF Alarmed
  <2>4. QED
    BY <1>0, <1>6, <2>1, <2>2, <2>3 DEF CloseLong
<1>7. QED
  BY <1>1, <1>2, <1>3, <1>4, <1>5, <1>6 DEF ExecStep

\* A leg that was where the place of its call says it is still is.
LEMMA ExecStepGoal ==
  ASSUME NEW PC, ExecTypes(PC), NEW t \in Task, job[t] \in Trade, ExecStep(t),
         NEW leg \in Leg, <<job[t], leg>> \notin misled', ~Alarmed(job[t])',
         held[job[t]][leg] = Goal(pc[t], leg)
  PROVE  held'[job[t]][leg] = Goal(pc'[t], leg)
BY ExecStepLeg DEF Goal

=============================================================================
