---------------------------- MODULE TwoLegProofs ----------------------------
(***************************************************************************)
(* Proofs about TwoLegExecution, for any number of venues, trades and      *)
(* goroutines, any order size, any holdings before the start and any       *)
(* faults of the exchanges: its types; what Open has bought and sold when  *)
(* it reports success; that no leg is left behind unaccounted; and that it *)
(* implements AtomicTrade.                                                 *)
(***************************************************************************)
EXTENDS TwoLegExecution, ExecutorProofs

USE DEF Leg

-----------------------------------------------------------------------------
(* A goroutine works on a trade exactly when it is not idle. *)

Working == \A t \in Task : pc[t] = "idle" <=> job[t] = NoTrade

TypeInv == TwoLegTypeOK /\ Working

LEMMA TypeInit == TwoLegInit => TypeInv
<1> SUFFICES ASSUME TwoLegInit PROVE TypeInv
  OBVIOUS
<1>1. ExecTypes({"idle"} \cup Opening \cup Closing)
  BY ExecInitType DEF TwoLegInit
<1>2. TwoLegTypeOK
  BY <1>1 DEF TwoLegInit, ExecTypes, TwoLegTypeOK
<1>3. Working
  BY DEF TwoLegInit, ExecInit, Working
<1>4. QED
  BY <1>2, <1>3 DEF TypeInv

LEMMA TypeStep == TypeInv /\ [TwoLegNext]_twoLegVars => TypeInv'
<1> SUFFICES ASSUME TypeInv, [TwoLegNext]_twoLegVars
             PROVE  TypeInv'
  OBVIOUS
<1> USE DEF TypeInv, TwoLegTypeOK, Working
<1>1. ASSUME NEW t \in Task, NEW id \in Trade, CallOpen(t, id) \/ CallClose(t, id)
      PROVE  TypeInv'
  BY <1>1, NoTradeAssumption DEF CallOpen, CallClose, Call, Goto, Opening, Closing
<1>2. ASSUME NEW t \in Task, ExecStep(t), UNCHANGED <<tried, book>>
      PROVE  TypeInv'
  <2> DEFINE PC == {"idle"} \cup Opening \cup Closing
  <2>1. ExecTypes(PC)
    BY DEF ExecTypes
  <2>2. /\ job' = job
        /\ \A u \in Task : u # t => pc'[u] = pc[u]
        /\ pc[t] # "idle" /\ pc'[t] # "idle"
    BY <1>2, <2>1, ExecStepFrame DEF Opening, Closing
  <2>3. ExecTypes(PC)'
    BY <1>2, <2>1, <2>2, ExecStepType
  <2>4. QED
    BY <1>2, <2>2, <2>3 DEF ExecTypes
<1>3. ASSUME NEW t \in Task, Return(t)
      PROVE  TypeInv'
  <2>1. NoFill \in [Leg -> Int]
    BY DEF NoFill
  <2>2. job[t] \in Trade
    BY <1>3 DEF Return
  <2>3. book' \subseteq Trade
    BY <1>3, <2>2 DEF Return
  <2>4. QED
    BY <1>3, <2>1, <2>3 DEF Return, Goto
<1>4. CASE CancelContext
  BY <1>4 DEF CancelContext, CutRequests, Cuttable
<1>5. CASE UNCHANGED twoLegVars
  BY <1>5 DEF twoLegVars, execVars
<1>6. QED
  BY <1>1, <1>2, <1>3, <1>4, <1>5 DEF TwoLegNext, TwoLegStep

\* Every variable of the executor stays in its domain.
THEOREM TwoLegTypeCorrect == TwoLegSpec => []TwoLegTypeOK
<1>1. TypeInv => TwoLegTypeOK
  BY DEF TypeInv
<1>2. QED
  BY <1>1, TypeInit, TypeStep, PTL DEF TwoLegSpec

-----------------------------------------------------------------------------
(* What Open has traded when it reports success *)

\* The short leg of the call of t is sold.
ShortSold(t) ==
  /\ held[job[t]]["short"] \in -Size .. 0
  /\ "partial" \notin Faults[VenueOf(job[t], "short")] => held[job[t]]["short"] = -Size
  /\ Adapter[VenueOf(job[t], "short")] # "bybit" => fill[t]["short"] = held[job[t]]["short"]

LongHolds(t, q) == held[job[t]]["long"] = q /\ fill[t]["long"] = q

\* The place an Open has reached tells what its trade holds.
Covers(t) ==
  /\ pc[t] = "idle" => fill[t] = NoFill
  /\ pc[t] = "legA" => held[job[t]] = NoFill /\ fill[t] = NoFill
  /\ pc[t] = "legB" => ShortSold(t) /\ LongHolds(t, 0)
  /\ pc[t] = "opened" => ShortSold(t) /\ LongHolds(t, Size)

\* One goroutine per trade; a trade nobody called Open for is untouched.
CoverInv ==
  /\ book \subseteq tried
  /\ \A t, u \in Task : job[t] = job[u] /\ job[t] # NoTrade => t = u
  /\ \A id \in Trade \ tried : held[id] = NoFill /\ ~Busy(id)
  /\ \A t \in Task : Covers(t)

LEMMA CoverInit == TwoLegInit => CoverInv
BY NoTradeAssumption DEF TwoLegInit, ExecInit, CoverInv, Covers, Busy

\* Leg A and leg B of one call.
LEMMA LegACovers ==
  ASSUME TypeInv, NEW t \in Task, job[t] \in Trade, Covers(t), LegA(t)
  PROVE  Covers(t)'
<1> DEFINE id == job[t]
           v == VenueOf(id, "short")
<1>1. ExecTypes({"idle"} \cup Opening \cup Closing) /\ v \in Venue /\ job' = job
  BY VenueOfType DEF TypeInv, TwoLegTypeOK, ExecTypes, LegA
<1>2. PICK answer \in OpenAnswers(t, "short", "limit") :
        /\ Traded(t, "short", answer, Hedge["short"])
        /\ Goto(t, IF answer.err THEN "openFailed" ELSE "legB")
  BY DEF LegA
<1>3. answer \in Answer /\ answer \in PlaceOrder(v, "short", "limit", ContextOf(t))
  BY <1>2, AnswersType DEF OpenAnswers
<1>4. CASE answer.err
  <2>1. pc'[t] = "openFailed"
    BY <1>1, <1>2, <1>4 DEF Goto, ExecTypes
  <2>2. QED
    BY <2>1 DEF Covers
<1>5. CASE ~answer.err
  <2>1. pc'[t] = "legB"
    BY <1>1, <1>2, <1>5 DEF Goto, ExecTypes
  <2>2. /\ held[id]["short"] = 0 /\ held[id]["long"] = 0
        /\ fill[t]["short"] = 0 /\ fill[t]["long"] = 0
    BY DEF Covers, LegA, NoFill
  <2>3. /\ answer.delta \in -Size .. 0
        /\ "partial" \notin Faults[v] => answer.delta = -Size
        /\ Adapter[v] # "bybit" => answer.fill = answer.delta
    BY <1>1, <1>3, <1>5, OpenFill DEF Hedge
  <2>4. /\ held'[id]["short"] = held[id]["short"] + answer.delta
        /\ held'[id]["long"] = held[id]["long"]
        /\ fill'[t]["short"] = answer.fill /\ fill'[t]["long"] = fill[t]["long"]
    BY <1>1, <1>2, <1>3, <1>5, TradedLeg
  <2>5. held'[id]["short"] = answer.delta
    BY <2>2, <2>3, <2>4, SizeAssumption
  <2>6. QED
    BY <1>1, <2>1, <2>2, <2>3, <2>4, <2>5 DEF Covers, ShortSold, LongHolds, VenueOf
<1>6. QED
  BY <1>4, <1>5

LEMMA LegBCovers ==
  ASSUME TypeInv, NEW t \in Task, job[t] \in Trade, Covers(t), LegB(t)
  PROVE  Covers(t)'
<1> DEFINE id == job[t]
           v == VenueOf(id, "long")
<1>1. ExecTypes({"idle"} \cup Opening \cup Closing) /\ v \in Venue /\ job' = job
  BY VenueOfType DEF TypeInv, TwoLegTypeOK, ExecTypes, LegB
<1>2. PICK answer \in OpenAnswers(t, "long", "market") :
        /\ Traded(t, "long", answer, Hedge["long"])
        /\ Goto(t, IF answer.err THEN "unwind" ELSE "opened")
  BY DEF LegB
<1>3. answer \in Answer /\ answer \in PlaceOrder(v, "long", "market", ContextOf(t))
  BY <1>2, AnswersType DEF OpenAnswers
<1>4. CASE answer.err
  <2>1. pc'[t] = "unwind"
    BY <1>1, <1>2, <1>4 DEF Goto, ExecTypes
  <2>2. QED
    BY <2>1 DEF Covers
<1>5. CASE ~answer.err
  <2>1. pc'[t] = "opened"
    BY <1>1, <1>2, <1>5 DEF Goto, ExecTypes
  <2>2. ShortSold(t) /\ held[id]["long"] = 0
    BY DEF Covers, LegB, LongHolds
  <2>3. answer.delta = Size /\ answer.fill = Size
    BY <1>1, <1>3, <1>5, OpenFill DEF Hedge
  <2>4. /\ held'[id]["long"] = held[id]["long"] + answer.delta
        /\ held'[id]["short"] = held[id]["short"]
        /\ fill'[t]["long"] = answer.fill /\ fill'[t]["short"] = fill[t]["short"]
    BY <1>1, <1>2, <1>3, <1>5, TradedLeg
  <2>5. held'[id]["long"] = Size
    BY <2>2, <2>3, <2>4, SizeAssumption
  <2>6. QED
    BY <1>1, <2>1, <2>2, <2>3, <2>4, <2>5 DEF Covers, ShortSold, LongHolds, VenueOf
<1>6. QED
  BY <1>4, <1>5

LEMMA CoverExecStep ==
  ASSUME TypeInv, CoverInv, NEW t \in Task, ExecStep(t), UNCHANGED <<tried, book>>
  PROVE  CoverInv'
<1>1. ExecTypes({"idle"} \cup Opening \cup Closing)
  BY DEF TypeInv, TwoLegTypeOK, ExecTypes
<1>2. /\ job' = job
      /\ \A u \in Task : u # t => pc'[u] = pc[u] /\ fill'[u] = fill[u]
      /\ \A id \in Trade : id # job[t] => held'[id] = held[id]
      /\ pc[t] # "idle"
  BY <1>1, ExecStepFrame DEF Opening, Closing
<1>3. job[t] \in Trade
  BY <1>2 DEF TypeInv, TwoLegTypeOK, Working
<1>4. \A id \in Trade \ tried : held'[id] = held[id]
  BY <1>2, <1>3 DEF CoverInv, Busy
<1>5. Covers(t)'
  <2>1. CASE LegA(t)
    BY <1>3, <2>1, LegACovers DEF CoverInv
  <2>2. CASE LegB(t)
    BY <1>3, <2>2, LegBCovers DEF CoverInv
  <2>3. CASE UnknownVenue(t) \/ Unwind(t) \/ CloseShort(t) \/ CloseLong(t)
    <3>1. pc'[t] \in {"openFailed", "closeFailed", "closeLong", "closed"}
      BY <1>1, <2>3 DEF ExecTypes, UnknownVenue, Unwind, CloseShort, CloseLong, Goto
    <3>2. QED
      BY <3>1 DEF Covers
  <2>4. QED
    BY <2>1, <2>2, <2>3 DEF ExecStep
<1>6. ASSUME NEW u \in Task, u # t
      PROVE  Covers(u)'
  <2>1. pc'[u] = pc[u] /\ fill'[u] = fill[u] /\ Covers(u)
    BY <1>2, <1>6 DEF CoverInv
  <2>2. pc[u] # "idle" => held'[job[u]] = held[job[u]]
    BY <1>2, <1>3, <1>6 DEF CoverInv, TypeInv, TwoLegTypeOK, Working
  <2>3. QED
    BY <1>2, <2>1, <2>2 DEF Covers, ShortSold, LongHolds, VenueOf
<1>7. QED
  BY <1>2, <1>4, <1>5, <1>6 DEF CoverInv, Busy

LEMMA CoverStep ==
  ASSUME TypeInv, CoverInv, [TwoLegNext]_twoLegVars
  PROVE  CoverInv'
<1> USE DEF TypeInv, TwoLegTypeOK, Working, Busy
<1>1. ASSUME NEW t \in Task, NEW id \in Trade, CallOpen(t, id)
      PROVE  CoverInv'
  <2>1. \A u \in Task : Covers(u)'
    BY <1>1 DEF CallOpen, Call, Goto, CoverInv, Covers, ShortSold, LongHolds, VenueOf
  <2>2. QED
    BY <1>1, <2>1, NoTradeAssumption DEF CallOpen, Call, Goto, CoverInv
<1>2. ASSUME NEW t \in Task, NEW id \in Trade, CallClose(t, id)
      PROVE  CoverInv'
  <2>1. id \in tried
    BY <1>2 DEF CallClose, CoverInv
  <2>2. \A u \in Task : Covers(u)'
    BY <1>2 DEF CallClose, Call, Goto, CoverInv, Covers, ShortSold, LongHolds, VenueOf
  <2>3. QED
    BY <1>2, <2>1, <2>2, NoTradeAssumption DEF CallClose, Call, Goto, CoverInv
<1>3. ASSUME NEW t \in Task, ExecStep(t), UNCHANGED <<tried, book>>
      PROVE  CoverInv'
  BY <1>3, CoverExecStep
<1>4. ASSUME NEW t \in Task, Return(t)
      PROVE  CoverInv'
  <2>1. \A u \in Task : Covers(u)'
    BY <1>4 DEF Return, Goto, CoverInv, Covers, ShortSold, LongHolds, VenueOf
  <2>2. QED
    BY <1>4, <2>1, NoTradeAssumption DEF Return, Goto, CoverInv
<1>5. CASE CancelContext \/ UNCHANGED twoLegVars
  <2>1. UNCHANGED <<pc, job, fill, held, tried, book>>
    BY <1>5 DEF CancelContext, twoLegVars, execVars
  <2>2. QED
    BY <2>1 DEF CoverInv, Covers, ShortSold, LongHolds, VenueOf
<1>6. QED
  BY <1>1, <1>2, <1>3, <1>4, <1>5 DEF TwoLegNext, TwoLegStep

LEMMA CoverInvariant == TwoLegSpec => [](TypeInv /\ CoverInv)
<1>1. TypeInv /\ CoverInv /\ [TwoLegNext]_twoLegVars => CoverInv'
  BY CoverStep
<1>2. QED
  BY <1>1, TypeInit, TypeStep, CoverInit, PTL DEF TwoLegSpec

\* Whenever Open reports success, its long leg is held in full and its short leg never
\* beyond that, in full where limit orders are filled in full; and the fills say so,
\* save that of a Bybit short leg (executor.go:64-96, bybit.go:198-214).
THEOREM TwoLegCovers == TwoLegSpec => []OpenedIsCovered
<1>1. ASSUME TypeInv, CoverInv, NEW t \in Task, pc[t] = "opened"
      PROVE  /\ held[job[t]]["long"] = Size
             /\ held[job[t]]["short"] \in -Size .. 0
             /\ "partial" \notin Faults[VenueOf(job[t], "short")] => held[job[t]] = Hedge
             /\ Adapter[VenueOf(job[t], "short")] # "bybit" => fill[t] = held[job[t]]
  <2>1. ShortSold(t) /\ LongHolds(t, Size)
    BY <1>1 DEF CoverInv, Covers
  <2>2. held[job[t]] \in [Leg -> Int] /\ fill[t] \in [Leg -> Int]
    BY <1>1 DEF TypeInv, TwoLegTypeOK, Working
  <2>3. "partial" \notin Faults[VenueOf(job[t], "short")] => held[job[t]] = Hedge
    BY <2>1, <2>2 DEF ShortSold, LongHolds, Hedge
  <2>4. Adapter[VenueOf(job[t], "short")] # "bybit" => fill[t] = held[job[t]]
    BY <2>1, <2>2 DEF ShortSold, LongHolds
  <2>5. QED
    BY <2>1, <2>3, <2>4 DEF ShortSold, LongHolds
<1>2. TypeInv /\ CoverInv => OpenedIsCovered
  BY <1>1 DEF OpenedIsCovered
<1>3. QED
  BY <1>2, CoverInvariant, PTL

-----------------------------------------------------------------------------
(* Every leg is accounted for. *)

\* The caller's book has a trade exactly from the return of its Open to that of its
\* Close.
BookOK ==
  \A t \in Task :
    /\ pc[t] \in Opening => job[t] \notin book
    /\ pc[t] \in Closing => job[t] \in book

\* A leg is where the place of its trade's call says it is, or, between the calls,
\* where the book says.
Accounted(id, leg) ==
  /\ ~Busy(id) => held[id][leg] = IF id \in book THEN Hedge[leg] ELSE 0
  /\ \A t \in Task : job[t] = id => held[id][leg] = Goal(pc[t], leg)

AccountInv ==
  /\ BookOK
  /\ \A id \in Trade, leg \in Leg :
       Alarmed(id) \/ <<id, leg>> \in misled \/ Accounted(id, leg)

LEMMA AccountInit == TwoLegInit => AccountInv
BY NoTradeAssumption
   DEF TwoLegInit, ExecInit, AccountInv, BookOK, Accounted, Busy, Opening, Closing, NoFill

\* An executor step is its goroutine's own business.
LEMMA AccountExecStep ==
  ASSUME TypeInv, CoverInv, AccountInv, NEW t \in Task, ExecStep(t), UNCHANGED <<tried, book>>
  PROVE  AccountInv'
<1> DEFINE PC == {"idle"} \cup Opening \cup Closing
<1>1. ExecTypes(PC)
  BY DEF TypeInv, TwoLegTypeOK, ExecTypes
<1>2. /\ job' = job
      /\ \A u \in Task : u # t => pc'[u] = pc[u]
      /\ \/ pc[t] \in Opening /\ pc'[t] \in Opening
         \/ pc[t] \in Closing /\ pc'[t] \in Closing
      /\ \A id \in Trade : id # job[t] => held'[id] = held[id]
      /\ alarms \subseteq alarms' /\ misled \subseteq misled'
  BY <1>1, ExecStepFrame
<1>3. job[t] \in Trade
  BY <1>2 DEF TypeInv, TwoLegTypeOK, Working, Opening, Closing
<1>4. BookOK'
  BY <1>2 DEF AccountInv, BookOK, Opening, Closing
<1>5. ASSUME NEW id \in Trade, NEW leg \in Leg, ~Alarmed(id)', <<id, leg>> \notin misled'
      PROVE  Accounted(id, leg)'
  <2>1. Accounted(id, leg)
    BY <1>2, <1>5 DEF AccountInv, Alarmed
  <2>2. CASE id = job[t]
    <3>1. held[id][leg] = Goal(pc[t], leg)
      BY <2>1, <2>2 DEF Accounted
    <3>2. held'[id][leg] = Goal(pc'[t], leg)
      BY <1>1, <1>2, <1>3, <1>5, <2>2, <3>1, ExecStepGoal DEF Alarmed
    <3>3. Busy(id)' /\ \A u \in Task : job'[u] = id => u = t
      BY <1>2, <1>3, <2>2, NoTradeAssumption DEF Busy, CoverInv
    <3>4. QED
      BY <3>2, <3>3 DEF Accounted
  <2>3. CASE id # job[t]
    <3>1. held'[id] = held[id] /\ (Busy(id)' <=> Busy(id))
      BY <1>2, <2>3 DEF Busy
    <3>2. \A u \in Task : job'[u] = id => pc'[u] = pc[u]
      BY <1>2, <2>3
    <3>3. QED
      BY <1>2, <2>1, <3>1, <3>2 DEF Accounted
  <2>4. QED
    BY <2>2, <2>3
<1>6. QED
  BY <1>4, <1>5 DEF AccountInv

LEMMA AccountStep ==
  ASSUME TypeInv, CoverInv, AccountInv, [TwoLegNext]_twoLegVars
  PROVE  AccountInv'
<1> DEFINE Same == UNCHANGED <<held, alarms, misled>>
<1> USE DEF TypeInv, TwoLegTypeOK, Working
<1>1. ASSUME NEW t \in Task, NEW k \in Trade, NEW entry \in {"legA", "closeShort"},
             Call(t, k, entry), (k \in book) <=> (entry = "closeShort"),
             entry = "legA" => held[k] = NoFill
      PROVE  AccountInv'
  <2>1. /\ Same /\ book' = book /\ pc[t] = "idle" /\ ~Busy(k)
        /\ pc' = [pc EXCEPT ![t] = entry] /\ job' = [job EXCEPT ![t] = k]
    BY <1>1 DEF Call, Goto
  <2>2. BookOK'
    BY <1>1, <2>1 DEF AccountInv, BookOK, Opening, Closing
  <2>3. ASSUME NEW id \in Trade, NEW leg \in Leg, Accounted(id, leg)
        PROVE  Accounted(id, leg)'
    <3>1. ASSUME NEW u \in Task, job'[u] = id
          PROVE  held'[id][leg] = Goal(pc'[u], leg)
      <4>1. CASE u = t
        <5>1. id = k /\ pc'[u] = entry
          BY <2>1, <3>1, <4>1
        <5>2. held[k][leg] = IF k \in book THEN Hedge[leg] ELSE 0
          BY <2>1, <2>3, <5>1 DEF Accounted
        <5>3. QED
          BY <1>1, <2>1, <5>1, <5>2 DEF Goal
      <4>2. CASE u # t
        BY <2>1, <2>3, <3>1, <4>2 DEF Accounted
      <4>3. QED
        BY <4>1, <4>2
    <3>2. ~Busy(id)' => ~Busy(id)
      BY <2>1, NoTradeAssumption DEF Busy
    <3>3. QED
      BY <2>1, <2>3, <3>1, <3>2 DEF Accounted
  <2>4. QED
    BY <2>1, <2>2, <2>3 DEF AccountInv, Alarmed
<1>2. ASSUME NEW t \in Task, NEW k \in Trade, CallOpen(t, k)
      PROVE  AccountInv'
  BY <1>1, <1>2 DEF CallOpen, CoverInv
<1>3. ASSUME NEW t \in Task, NEW k \in Trade, CallClose(t, k)
      PROVE  AccountInv'
  BY <1>1, <1>3 DEF CallClose
<1>4. ASSUME NEW t \in Task, ExecStep(t), UNCHANGED <<tried, book>>
      PROVE  AccountInv'
  BY <1>4, AccountExecStep
<1>5. ASSUME NEW t \in Task, Return(t)
      PROVE  AccountInv'
  <2>1. /\ Same
        /\ pc[t] \in {"opened", "openFailed", "closed", "closeFailed"}
        /\ pc' = [pc EXCEPT ![t] = "idle"] /\ job' = [job EXCEPT ![t] = NoTrade]
        /\ pc[t] = "opened" => book' = book \cup {job[t]}
        /\ pc[t] = "closed" => book' = book \ {job[t]}
        /\ pc[t] \in {"openFailed", "closeFailed"} => book' = book
    BY <1>5 DEF Return, Goto
  <2>2. job[t] \in Trade /\ \A u \in Task : u # t => job[u] # job[t]
    BY <2>1, NoTradeAssumption DEF CoverInv
  <2>3. /\ pc[t] \in {"opened", "openFailed"} => job[t] \notin book
        /\ pc[t] \in {"closed", "closeFailed"} => job[t] \in book
    BY DEF AccountInv, BookOK, Opening, Closing
  <2>4. BookOK'
    BY <2>1, <2>2 DEF AccountInv, BookOK, Opening, Closing
  <2>5. ASSUME NEW id \in Trade, NEW leg \in Leg, Accounted(id, leg)
        PROVE  Accounted(id, leg)'
    <3>1. \A u \in Task : job'[u] = id => u # t /\ job[u] = id /\ pc'[u] = pc[u]
      BY <2>1, NoTradeAssumption
    <3>2. ~Busy(id)' => held'[id][leg] = IF id \in book' THEN Hedge[leg] ELSE 0
      <4>1. CASE id = job[t]
        <5>1. held[id][leg] = Goal(pc[t], leg)
          BY <2>5, <4>1 DEF Accounted
        <5>2. id \in book' <=> pc[t] \in {"opened", "closeFailed"}
          BY <2>1, <2>3, <4>1
        <5>3. Goal(pc[t], leg) = IF id \in book' THEN Hedge[leg] ELSE 0
          BY <2>1, <5>2 DEF Goal
        <5>4. QED
          BY <2>1, <5>1, <5>3
      <4>2. CASE id # job[t]
        <5>1. (id \in book' <=> id \in book) /\ (~Busy(id)' => ~Busy(id))
          BY <2>1, <4>2, NoTradeAssumption DEF Busy
        <5>2. QED
          BY <2>1, <2>5, <5>1 DEF Accounted
      <4>3. QED
        BY <4>1, <4>2
    <3>3. QED
      BY <2>1, <2>5, <3>1, <3>2 DEF Accounted
  <2>6. QED
    BY <2>1, <2>4, <2>5 DEF AccountInv, Alarmed
<1>6. CASE CancelContext \/ UNCHANGED twoLegVars
  <2>1. Same /\ pc' = pc /\ job' = job /\ book' = book
    BY <1>6 DEF CancelContext, twoLegVars, execVars
  <2>2. QED
    BY <2>1 DEF AccountInv, BookOK, Accounted, Busy, Alarmed
<1>7. QED
  BY <1>2, <1>3, <1>4, <1>5, <1>6 DEF TwoLegNext, TwoLegStep

LEMMA AccountInvariant == TwoLegSpec => [](TypeInv /\ CoverInv /\ AccountInv)
<1>1. TypeInv /\ CoverInv /\ AccountInv /\ [TwoLegNext]_twoLegVars => AccountInv'
  BY AccountStep
<1>2. QED
  BY <1>1, CoverInvariant, AccountInit, PTL DEF TwoLegSpec

\* A call never leaves a leg behind that somebody could know of and nobody does
\* (executor.go:83-92 and 118-123), whatever the exchanges do and whenever the context
\* is cancelled.
THEOREM TwoLegAccounts == TwoLegSpec => []EveryLegAccounted
<1>1. AccountInv => EveryLegAccounted
  BY DEF AccountInv, Accounted, Alarmed, EveryLegAccounted
<1>2. QED
  BY <1>1, AccountInvariant, PTL

-----------------------------------------------------------------------------
(* The two calls look atomic to their caller. *)

Seen == [id \in Trade |-> Exposure(id)]
Trades(legs) == {x[1] : x \in legs}

\* What a trade seems to hold depends on what it holds and on whether a call is under
\* way.
LEMMA SeenSame ==
  ASSUME NEW id \in Trade, held'[id] = held[id], Busy(id)' = Busy(id)
  PROVE  Exposure(id)' = Exposure(id)
BY DEF Exposure

LEMMA AtomicStart == TwoLegInit => Atomic!AtomicInit
<1> SUFFICES ASSUME TwoLegInit PROVE Atomic!AtomicInit
  OBVIOUS
<1>1. \A id \in Trade : Exposure(id) = "flat"
  BY NoTradeAssumption DEF TwoLegInit, ExecInit, Exposure, Busy
<1>2. QED
  BY <1>1 DEF TwoLegInit, ExecInit, Atomic!AtomicInit

\* A call is taken up.
LEMMA CallBegins ==
  ASSUME TypeInv, NEW t \in Task, NEW k \in Trade, pc[t] = "idle", ~Busy(k),
         job' = [job EXCEPT ![t] = k], held' = held, alarms' = alarms, misled' = misled
  PROVE  Atomic!AtomicNext
<1>1. Busy(k)' /\ \A id \in Trade : id # k => Busy(id)' = Busy(id)
  BY NoTradeAssumption DEF Busy, TypeInv, TwoLegTypeOK, Working
<1>2. Exposure(k) # "unknown" /\ Exposure(k)' = "unknown"
  BY <1>1 DEF Exposure
<1>3. \A id \in Trade : id # k => Exposure(id)' = Exposure(id)
  BY <1>1, SeenSame
<1>4. Atomic!Begin(k)
  BY <1>2, <1>3 DEF Atomic!Begin
<1>5. QED
  BY <1>4 DEF Atomic!AtomicNext

\* A set of legs that grows by legs of one trade at most.
LEMMA TradesGrow ==
  ASSUME NEW id, NEW leg, NEW old, NEW new, new \in {old, old \cup {<<id, leg>>}}
  PROVE  Trades(new) \in {Trades(old), Trades(old) \cup {id}}
<1>1. CASE new = old
  BY <1>1
<1>2. CASE new = old \cup {<<id, leg>>}
  <2>1. <<id, leg>>[1] = id
    OBVIOUS
  <2>2. ASSUME NEW k
        PROVE  k \in Trades(new) <=> k \in Trades(old) \/ k = id
    <3>1. k \in Trades(new) <=> \E x \in new : k = x[1]
      BY DEF Trades
    <3>2. k \in Trades(old) <=> \E x \in old : k = x[1]
      BY DEF Trades
    <3>3. (\E x \in new : k = x[1]) <=> (\E x \in old : k = x[1]) \/ k = <<id, leg>>[1]
      BY <1>2
    <3>4. QED
      BY <2>1, <3>1, <3>2, <3>3
  <2>3. QED
    BY <2>2
<1>3. QED
  BY <1>1, <1>2

\* All its caller may learn of an executor step is an alarm.
LEMMA ExecStepOrders ==
  ASSUME TypeInv, NEW t \in Task, NEW k \in Trade, job[t] = k, ExecStep(t)
  PROVE  Atomic!AtomicNext
<1>1. ExecTypes({"idle"} \cup Opening \cup Closing)
  BY DEF TypeInv, TwoLegTypeOK, ExecTypes
<1>2. job' = job /\ \A id \in Trade : id # k => held'[id] = held[id]
  BY <1>1, ExecStepFrame
<1>3. \A id \in Trade : Busy(id)' = Busy(id)
  BY <1>2 DEF Busy
<1>4. Busy(k)
  BY DEF Busy
<1>5. ASSUME NEW id \in Trade
      PROVE  Exposure(id)' = Exposure(id)
  <2>1. CASE id = k
    BY <1>3, <1>4, <2>1 DEF Exposure
  <2>2. CASE id # k
    BY <1>2, <1>3, <2>2, SeenSame
  <2>3. QED
    BY <2>1, <2>2
<1>6. Seen' = Seen /\ Exposure(k) = "unknown"
  BY <1>4, <1>5 DEF Seen, Exposure
<1>7. /\ \E leg \in Leg : alarms' \in {alarms, alarms \cup {<<k, leg>>}}
      /\ \E leg \in Leg : misled' \in {misled, misled \cup {<<k, leg>>}}
  BY DEF ExecStep, UnknownVenue, LegA, LegB, Unwind, CloseShort, CloseLong, Traded
<1>8. /\ Trades(alarms') \in {Trades(alarms), Trades(alarms) \cup {k}}
      /\ Trades(misled') \in {Trades(misled), Trades(misled) \cup {k}}
  BY <1>7, TradesGrow
<1>9. Atomic!Order(k)
  BY <1>6, <1>8 DEF Atomic!Order, Seen, Trades
<1>10. QED
  BY <1>9 DEF Atomic!AtomicNext

\* A call returns; the trade it leaves is flat, hedged, reported or misled.
LEMMA ReturnEnds ==
  ASSUME TypeInv, TypeInv', CoverInv, AccountInv',
         NEW t \in Task, NEW k \in Trade, job[t] = k, Return(t)
  PROVE  Atomic!AtomicNext
<1>1. job' = [job EXCEPT ![t] = NoTrade] /\ held' = held /\ alarms' = alarms /\ misled' = misled
  BY DEF Return
<1>2. Busy(k) /\ ~Busy(k)' /\ \A id \in Trade : id # k => Busy(id)' = Busy(id)
  BY <1>1, NoTradeAssumption DEF Busy, CoverInv, TypeInv, TwoLegTypeOK
<1>3. Exposure(k) = "unknown" /\ \A id \in Trade : id # k => Exposure(id)' = Exposure(id)
  BY <1>1, <1>2, SeenSame DEF Exposure
<1>4. Exposure(k)' \in {"flat", "hedged", "residual"}
  BY <1>2 DEF Exposure
<1>5. ASSUME Exposure(k)' = "residual"
      PROVE  k \in Trades(alarms) \cup Trades(misled)
  <2>1. held'[k] # NoFill /\ held'[k] # Hedge
    BY <1>2, <1>5 DEF Exposure
  <2>2. ~\A leg \in Leg : Accounted(k, leg)'
    <3>1. SUFFICES ASSUME \A leg \in Leg : Accounted(k, leg)' PROVE FALSE
      OBVIOUS
    <3>2. \A leg \in Leg : held'[k][leg] = IF k \in book' THEN Hedge[leg] ELSE 0
      BY <1>2, <3>1 DEF Accounted
    <3>3. held'[k] \in [Leg -> Int]
      BY DEF TypeInv, TwoLegTypeOK
    <3>4. CASE k \in book'
      BY <2>1, <3>2, <3>3, <3>4 DEF Hedge
    <3>5. CASE k \notin book'
      BY <2>1, <3>2, <3>3, <3>5 DEF NoFill
    <3>6. QED
      BY <3>4, <3>5
  <2>3. PICK leg \in Leg : <<k, leg>> \in alarms \/ <<k, leg>> \in misled
    BY <1>1, <2>2 DEF AccountInv, Alarmed
  <2>4. <<k, leg>>[1] = k
    OBVIOUS
  <2>5. QED
    BY <2>3, <2>4 DEF Trades
<1>6. Seen' = [Seen EXCEPT ![k] = Exposure(k)']
  BY <1>3 DEF Seen
<1>7. Atomic!End(k)
  BY <1>1, <1>3, <1>4, <1>5, <1>6 DEF Atomic!End, Seen, Trades
<1>8. QED
  BY <1>7 DEF Atomic!AtomicNext

LEMMA AtomicStep ==
  ASSUME TypeInv, TypeInv', CoverInv, AccountInv', [TwoLegNext]_twoLegVars
  PROVE  [Atomic!AtomicNext]_<<Seen, Trades(alarms), Trades(misled)>>
<1>1. ASSUME NEW t \in Task, NEW k \in Trade, CallOpen(t, k) \/ CallClose(t, k)
      PROVE  Atomic!AtomicNext
  BY <1>1, CallBegins DEF CallOpen, CallClose, Call
<1>2. ASSUME NEW t \in Task, ExecStep(t)
      PROVE  Atomic!AtomicNext
  <2>1. pc[t] # "idle"
    BY <1>2 DEF ExecStep, UnknownVenue, LegA, LegB, Unwind, CloseShort, CloseLong
  <2>2. job[t] \in Trade
    BY <2>1 DEF TypeInv, TwoLegTypeOK, Working
  <2>3. QED
    BY <1>2, <2>2, ExecStepOrders
<1>3. ASSUME NEW t \in Task, Return(t)
      PROVE  Atomic!AtomicNext
  <2>1. job[t] \in Trade
    BY <1>3 DEF Return, TypeInv, TwoLegTypeOK, Working
  <2>2. QED
    BY <1>3, <2>1, ReturnEnds
<1>4. CASE CancelContext \/ UNCHANGED twoLegVars
  <2>1. held' = held /\ job' = job /\ alarms' = alarms /\ misled' = misled
    BY <1>4 DEF CancelContext, twoLegVars, execVars
  <2>2. \A id \in Trade : Exposure(id)' = Exposure(id)
    BY <2>1, SeenSame DEF Busy
  <2>3. QED
    BY <2>1, <2>2 DEF Seen, Trades
<1>5. QED
  BY <1>1, <1>2, <1>3, <1>4 DEF TwoLegNext, TwoLegStep

\* The two calls look atomic to their caller, up to what was reported and to what no
\* answer of an exchange gave away (executor.go:37-38 and 98).
THEOREM TwoLegImplementsAtomic == TwoLegSpec => ImplementsAtomicTrade
<1>1. TypeInv /\ TypeInv' /\ CoverInv /\ AccountInv' /\ [TwoLegNext]_twoLegVars
        => [Atomic!AtomicNext]_<<Seen, Trades(alarms), Trades(misled)>>
  BY AtomicStep
<1>2. QED
  BY <1>1, AtomicStart, AccountInvariant, PTL
     DEF TwoLegSpec, ImplementsAtomicTrade, Atomic!AtomicSpec, Seen, Trades

=============================================================================
