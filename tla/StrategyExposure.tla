--------------------------- MODULE StrategyExposure ---------------------------
(***************************************************************************)
(* Proofs about the quantities Strategy deals in: whatever is held for a   *)
(* trade is on record, being worked on or reported, through shutdowns,     *)
(* crashes and failing writes; and on simulators, with a database that     *)
(* works and nobody stopping the process, the fills table adds up to what  *)
(* was traded.                                                             *)
(***************************************************************************)
EXTENDS StrategyLifecycle, FiniteSetTheorems

USE DEF Leg

-----------------------------------------------------------------------------
(* The invariant behind ExposureTracked *)

\* Where a call is known to hold nothing of a leg.
AtZero(place, leg) ==
  \/ place \in {"legA", "openFailed", "closed", "saveClosed"}
  \/ place \in {"legB", "unwind"} /\ leg = "long"
  \/ place = "closeLong" /\ leg = "short"

\* A trade that is a position, or is being saved or closed, has a row; unless writing
\* it failed.
OnRecord(id) ==
  /\ id \in positions \cup todo => row[id] # "none"
  /\ \A t \in Task : job[t] = id /\ pc[t] \in Closing \cup Saving => row[id] # "none"

\* Nothing is held of a leg where a goroutine is known to hold nothing, once the trade
\* is closed, and of a trade that has no row and no goroutine.
Accounted(id, leg) ==
  /\ \A t \in Task : job[t] = id /\ AtZero(pc[t], leg) => held[id][leg] = 0
  /\ row[id] = "closed" => held[id][leg] = 0
  /\ row[id] = "none" /\ ~Busy(id) => held[id][leg] = 0

ExposureInv ==
  \A id \in Trade \ interrupted :
    /\ OnRecord(id)
    /\ \A leg \in Leg : Alarmed(id) \/ <<id, leg>> \in misled \/ Accounted(id, leg)

LEMMA ExposureInit == Init => ExposureInv
BY NoTradeAssumption
   DEF Init, ExecInit, ExposureInv, OnRecord, Accounted, NoFill, AtZero, Closing, Saving, Busy

\* Steps that neither trade nor save nor start a goroutine.
LEMMA ExposureSame ==
  ASSUME ExposureInv, UNCHANGED <<pc, job, held, row, interrupted, alarms, misled>>,
         positions' \cup todo' \subseteq positions \cup todo
  PROVE  ExposureInv'
BY DEF ExposureInv, OnRecord, Accounted, Alarmed, Busy

\* A goroutine that starts.
LEMMA SpawnPlaces ==
  ASSUME IInv, NEW t \in Task, NEW id \in Trade, NEW entry, Spawn(t, id, entry)
  PROVE  /\ pc[t] = "idle" /\ pc'[t] = entry /\ job'[t] = id /\ job[t] = NoTrade
         /\ \A u \in Task : u # t => pc'[u] = pc[u] /\ job'[u] = job[u]
         /\ held' = held /\ alarms' = alarms /\ misled' = misled
BY DEF Spawn, Goto, IInv, TypeInv, ExecTypes, Working

LEMMA ExposureSpawn ==
  ASSUME IInv, ExposureInv, NEW t \in Task, NEW k \in Trade, NEW entry, Spawn(t, k, entry),
         UNCHANGED <<todo, positions, dbVars>>,
         \/ entry = "closeShort" /\ k \in positions
         \/ entry = "legA" /\ k \in proposals
  PROVE  ExposureInv'
<1>1. /\ pc[t] = "idle" /\ pc'[t] = entry /\ job'[t] = k /\ job[t] = NoTrade
      /\ \A u \in Task : u # t => pc'[u] = pc[u] /\ job'[u] = job[u]
      /\ held' = held /\ alarms' = alarms /\ misled' = misled
  BY SpawnPlaces
<1>2. row' = row /\ interrupted' = interrupted
  BY DEF dbVars
<1>3. entry = "legA" => held[k] = NoFill
  <2>1. k \in proposals => Untouched(k)
    BY DEF IInv, LiveIsSettled, Live, Settled
  <2>2. QED
    BY <2>1 DEF Untouched
<1>4. ASSUME NEW id \in Trade \ interrupted, OnRecord(id)
      PROVE  OnRecord(id)'
  <2>1. "legA" \notin Closing \cup Saving
    BY DEF Closing, Saving
  <2>2. QED
    BY <1>1, <1>2, <1>4, <2>1 DEF OnRecord
<1>5. ASSUME NEW id \in Trade, NEW leg \in Leg, Accounted(id, leg)
      PROVE  Accounted(id, leg)'
  <2>1. ASSUME NEW u \in Task, job'[u] = id, AtZero(pc'[u], leg)
        PROVE  held'[id][leg] = 0
    <3>1. CASE u = t
      <4>1. id = k /\ entry = "legA"
        BY <1>1, <2>1, <3>1 DEF AtZero
      <4>2. QED
        BY <1>1, <1>3, <4>1 DEF NoFill
    <3>2. CASE u # t
      BY <1>1, <1>5, <2>1, <3>2 DEF Accounted
    <3>3. QED
      BY <3>1, <3>2
  <2>2. ~Busy(id)' => ~Busy(id)
    BY <1>1, NoTradeAssumption DEF Busy
  <2>3. QED
    BY <1>1, <1>2, <1>5, <2>1, <2>2 DEF Accounted
<1>6. QED
  BY <1>1, <1>2, <1>4, <1>5 DEF ExposureInv, Alarmed

\* What a goroutine does to rows and positions, and where it goes.
LEMMA WorkerPlaces ==
  ASSUME IInv, NEW t \in Task, WorkerStep(t)
  PROVE  /\ \A id \in Trade :
              /\ row'[id] = "none" => row[id] = "none"
              /\ row'[id] = "closed" => row[id] = "closed" \/ (pc[t] = "saveClosed" /\ job[t] = id)
         /\ \A id \in positions' : id \in positions \/ (id = job[t] /\ pc[t] \in Saving)
         /\ pc'[t] \in Closing \cup Saving =>
              \/ pc[t] \in Closing \cup Saving
              \/ row'[job[t]] = "open" \/ job[t] \in interrupted'
         /\ \/ job'[t] = job[t]
            \/ /\ job'[t] = NoTrade /\ pc'[t] = "idle"
               /\ pc[t] = "openFailed" \/ pc[t] \in Closing \cup Saving
         /\ interrupted \subseteq interrupted' /\ misled \subseteq misled' /\ alarms \subseteq alarms'
         /\ ~Trading(t) =>
              held' = held /\ \A leg \in Leg : AtZero(pc'[t], leg) => AtZero(pc[t], leg)
<1> USE DEF AtZero
<1>0. pc \in [Task -> PCs] /\ job \in [Task -> Trade \cup {NoTrade}] /\ row \in [Trade -> {"none", "open", "closed"}]
  BY DEF IInv, TypeInv, ExecTypes, DbTypes
<1>1. CASE Trading(t)
  <2>1. ExecTypes(PCs) /\ ExecStep(t) /\ UNCHANGED <<row, interrupted, positions>>
    BY <1>1 DEF Trading, IInv, TypeInv, dbVars, ramVars
  <2>2. /\ job' = job
        /\ \/ pc[t] \in Opening /\ pc'[t] \in Opening
           \/ pc[t] \in Closing /\ pc'[t] \in Closing
        /\ misled \subseteq misled' /\ alarms \subseteq alarms'
    BY <2>1, ExecStepFrame
  <2>3. QED
    BY <1>1, <2>1, <2>2 DEF Opening, Closing, Saving
<1>2. CASE Failed(t) \/ InsertPosition(t)
  BY <1>0, <1>2 DEF Failed, InsertPosition, Finish, Goto, Closing, Saving, dbVars
<1>3. CASE SaveOpened(t)
  BY <1>0, <1>3 DEF SaveOpened, SavePosition, Advance, Goto, Closing, Saving
<1>4. CASE SaveShortFill(t) \/ SaveLongFill(t)
  BY <1>0, <1>4 DEF SaveShortFill, SaveLongFill, Advance, Finish, Goto, Closing, Saving
<1>5. CASE RemovePosition(t)
  BY <1>0, <1>5 DEF RemovePosition, Advance, Goto, Closing, Saving, dbVars
<1>6. CASE SaveClosed(t)
  BY <1>0, <1>6 DEF SaveClosed, SavePosition, Advance, Goto, Closing, Saving
<1>7. QED
  BY <1>1, <1>2, <1>3, <1>4, <1>5, <1>6 DEF WorkerStep

\* What a goroutine trades: it holds nothing of a leg where it is known to, and a close
\* leaves a leg that is flat alone.
LEMMA TradingZero ==
  ASSUME IInv, NEW t \in Task, Trading(t), job[t] \in Trade,
         NEW leg \in Leg, <<job[t], leg>> \notin misled', ~Alarmed(job[t])',
         AtZero(pc[t], leg) => held[job[t]][leg] = 0
  PROVE  /\ AtZero(pc'[t], leg) => held'[job[t]][leg] = 0
         /\ pc[t] \in Closing /\ held[job[t]][leg] = 0 => held'[job[t]][leg] = 0
<1>1. ExecTypes(PCs) /\ ExecStep(t)
  BY DEF Trading, IInv, TypeInv
<1>2. QED
  BY <1>1, ExecStepLeg DEF AtZero, Closing

LEMMA ExposureWorker ==
  ASSUME IInv, ExposureInv, NEW t \in Task, WorkerStep(t)
  PROVE  ExposureInv'
<1> DEFINE k == job[t]
<1>1. /\ todo' = todo /\ pc[t] # "idle" /\ k \in Trade
      /\ \A u \in Task : u # t => pc'[u] = pc[u] /\ job'[u] = job[u]
      /\ job'[t] \in {k, NoTrade}
      /\ \A id \in Trade : id # k => held'[id] = held[id] /\ row'[id] = row[id]
  BY WorkerFrames DEF IInv, loopVars
<1>2. /\ \A id \in Trade :
           /\ row'[id] = "none" => row[id] = "none"
           /\ row'[id] = "closed" => row[id] = "closed" \/ (pc[t] = "saveClosed" /\ k = id)
      /\ \A id \in positions' : id \in positions \/ (id = k /\ pc[t] \in Saving)
      /\ pc'[t] \in Closing \cup Saving =>
           pc[t] \in Closing \cup Saving \/ row'[k] = "open" \/ k \in interrupted'
      /\ \/ job'[t] = k
         \/ /\ job'[t] = NoTrade /\ pc'[t] = "idle"
            /\ pc[t] = "openFailed" \/ pc[t] \in Closing \cup Saving
      /\ interrupted \subseteq interrupted' /\ misled \subseteq misled' /\ alarms \subseteq alarms'
      /\ ~Trading(t) =>
           held' = held /\ \A leg \in Leg : AtZero(pc'[t], leg) => AtZero(pc[t], leg)
  BY WorkerPlaces
<1>3. ASSUME NEW id \in Trade \ interrupted'
      PROVE  OnRecord(id)'
  <2>1. OnRecord(id)
    BY <1>2 DEF ExposureInv
  <2>2. id \in positions' \cup todo' => row'[id] # "none"
    BY <1>1, <1>2, <2>1 DEF OnRecord
  <2>3. ASSUME NEW u \in Task, job'[u] = id, pc'[u] \in Closing \cup Saving
        PROVE  row'[id] # "none"
    <3>1. CASE u = t
      BY <1>1, <1>2, <2>1, <2>3, <3>1, NoTradeAssumption DEF OnRecord
    <3>2. CASE u # t
      BY <1>1, <1>2, <2>1, <2>3, <3>2 DEF OnRecord
    <3>3. QED
      BY <3>1, <3>2
  <2>4. QED
    BY <2>2, <2>3 DEF OnRecord
<1>4. ASSUME NEW id \in Trade \ interrupted', NEW leg \in Leg,
             ~Alarmed(id)', <<id, leg>> \notin misled'
      PROVE  Accounted(id, leg)'
  <2>1. Accounted(id, leg) /\ OnRecord(id)
    BY <1>2, <1>4 DEF ExposureInv, Alarmed
  <2>2. CASE id # k
    <3>1. /\ held'[id] = held[id] /\ row'[id] = row[id] /\ (Busy(id)' <=> Busy(id))
          /\ \A u \in Task : job'[u] = id => job[u] = id /\ pc'[u] = pc[u]
      BY <1>1, <2>2, NoTradeAssumption DEF Busy
    <3>2. QED
      BY <2>1, <3>1 DEF Accounted
  <2>3. CASE id = k
    <3>1. AtZero(pc[t], leg) => held[id][leg] = 0
      BY <2>1, <2>3 DEF Accounted
    <3>2. \/ held'[id][leg] = held[id][leg] /\ (AtZero(pc'[t], leg) => AtZero(pc[t], leg))
             /\ ~Trading(t)
          \/ /\ AtZero(pc'[t], leg) => held'[id][leg] = 0
             /\ pc[t] \in Closing /\ held[id][leg] = 0 => held'[id][leg] = 0
             /\ Trading(t) /\ pc[t] \in Opening \cup Closing /\ job' = job
      <4>1. CASE Trading(t)
        <5>1. pc[t] \in Opening \cup Closing /\ job' = job
          BY <4>1, ExecStepFrame DEF Trading, IInv, TypeInv
        <5>2. QED
          BY <1>1, <1>4, <2>3, <3>1, <4>1, <5>1, TradingZero
      <4>2. CASE ~Trading(t)
        BY <1>2, <4>2
      <4>3. QED
        BY <4>1, <4>2
    <3>3. pc[t] \in Opening => row[id] = "none" /\ \A u \in Task : job[u] = id => u = t
      BY <2>3 DEF IInv, Alone, PreInsert
    <3>4. ASSUME NEW u \in Task, job'[u] = id, AtZero(pc'[u], leg)
          PROVE  held'[id][leg] = 0
      <4>1. CASE u = t
        BY <3>1, <3>2, <3>4, <4>1
      <4>2. CASE u # t
        <5>1. held[id][leg] = 0 /\ pc[t] \notin Opening
          BY <1>1, <2>1, <3>3, <3>4, <4>2 DEF Accounted
        <5>2. QED
          BY <3>2, <5>1
      <4>3. QED
        BY <4>1, <4>2
    <3>5. row'[id] = "closed" => held'[id][leg] = 0
      <4>1. CASE row[id] = "closed"
        BY <2>1, <3>2, <3>3, <4>1 DEF Accounted
      <4>2. CASE pc[t] = "saveClosed"
        BY <3>1, <3>2, <4>2 DEF AtZero, Opening, Closing
      <4>3. QED
        BY <1>2, <4>1, <4>2
    <3>6. row'[id] = "none" /\ ~Busy(id)' => held'[id][leg] = 0
      <4>1. SUFFICES ASSUME row'[id] = "none", ~Busy(id)' PROVE held'[id][leg] = 0
        OBVIOUS
      <4>2. row[id] = "none" /\ job'[t] # k
        BY <1>2, <2>3, <4>1 DEF Busy
      <4>3. pc[t] = "openFailed"
        BY <1>2, <2>1, <2>3, <4>2 DEF OnRecord
      <4>4. QED
        BY <3>1, <3>2, <4>2, <4>3 DEF AtZero
    <3>7. QED
      BY <3>4, <3>5, <3>6 DEF Accounted
  <2>4. QED
    BY <2>2, <2>3
<1>5. QED
  BY <1>3, <1>4 DEF ExposureInv

\* The process ends; what it was opening is interrupted, and everything else that it was
\* working on has a row.
LEMMA ExposureGone ==
  ASSUME IInv, ExposureInv, ProcessGone
  PROVE  ExposureInv'
<1>1. /\ \A t \in Task : pc'[t] = "idle" /\ job'[t] = NoTrade
      /\ positions' = {} /\ todo' = {}
      /\ held' = held /\ row' = row /\ alarms' = alarms /\ misled' = misled
      /\ interrupted' = interrupted \cup {job[t] : t \in {u \in Task : pc[u] \in Opening}}
  BY DEF ProcessGone
<1>2. ASSUME NEW id \in Trade \ interrupted', Busy(id)
      PROVE  row[id] # "none"
  <2>1. PICK t \in Task : job[t] = id
    BY <1>2 DEF Busy
  <2>2. pc[t] \in Closing \cup Saving
    BY <1>1, <2>1, NoTradeAssumption DEF IInv, TypeInv, ExecTypes, Working, PCs
  <2>3. QED
    BY <1>1, <2>1, <2>2 DEF ExposureInv, OnRecord
<1>3. \A id \in Trade : OnRecord(id)'
  BY <1>1, NoTradeAssumption DEF OnRecord
<1>4. ASSUME NEW id \in Trade \ interrupted', NEW leg \in Leg, Accounted(id, leg)
      PROVE  Accounted(id, leg)'
  BY <1>1, <1>2, <1>4, NoTradeAssumption DEF Accounted
<1>5. QED
  BY <1>1, <1>3, <1>4 DEF ExposureInv, Alarmed

LEMMA ExposureRestart ==
  ASSUME ExposureInv, Restart
  PROVE  ExposureInv'
<1>1. /\ UNCHANGED <<pc, job, held, row, interrupted, alarms, misled, todo>>
      /\ \A id \in positions' : row[id] = "open"
  BY DEF Restart, dbVars
<1>2. QED
  BY <1>1 DEF ExposureInv, OnRecord, Accounted, Alarmed, Busy

LEMMA ExposureStep ==
  ASSUME IInv, ExposureInv, [Next]_vars
  PROVE  ExposureInv'
<1> DEFINE Same == /\ UNCHANGED <<pc, job, held, row, interrupted, alarms, misled>>
                   /\ positions' \cup todo' \subseteq positions \cup todo
<1>1. CASE ReceiveCandidate \/ PairCheck \/ CapCheck \/ SymbolCheck \/ SendProposal
  <2>1. Same
    BY <1>1, CandidateFrames DEF execVars, dbVars
  <2>2. QED
    BY <2>1, ExposureSame
<1>2. CASE HandleApproval
  <2>1. PICK id \in Trade :
          UnknownProposal(id) \/ Snooze(id) \/ Reject(id) \/ ApproveExpired(id) \/ Approve(id)
    BY <1>2 DEF HandleApproval
  <2>2. UNCHANGED <<todo, positions, dbVars>>
    BY <1>2, ApprovalFrames DEF loopVars
  <2>3. CASE Approve(id)
    BY <2>2, <2>3, ExposureSpawn DEF Approve
  <2>4. CASE ~Approve(id)
    <3>1. Same
      BY <2>1, <2>2, <2>4
         DEF UnknownProposal, Snooze, Reject, ApproveExpired, execVars, dbVars
    <3>2. QED
      BY <3>1, ExposureSame
  <2>5. QED
    BY <2>3, <2>4
<1>3. CASE \E id \in Trade : HandleCloseRequest(id)
  <2>1. PICK id \in Trade : HandleCloseRequest(id)
    BY <1>3
  <2>2. UNCHANGED <<todo, positions, dbVars>>
    BY <2>1 DEF HandleCloseRequest, loopVars, ramVars
  <2>3. CASE id \in positions
    BY <2>1, <2>2, <2>3, ExposureSpawn DEF HandleCloseRequest
  <2>4. CASE id \notin positions
    <3>1. Same
      BY <2>1, <2>2, <2>4 DEF HandleCloseRequest, execVars, dbVars
    <3>2. QED
      BY <3>1, ExposureSame
  <2>5. QED
    BY <2>3, <2>4
<1>4. CASE \E id \in Trade : MonitorPosition(id)
  <2>1. Same
    BY <1>4, MonitorFrames DEF execVars, dbVars
  <2>2. QED
    BY <2>1, ExposureSame
<1>5. CASE (\E s \in Symbol : ReceiveTick(s)) \/ ExpireProposals \/ LeaveLoop
  <2>1. Same
    BY <1>5 DEF ReceiveTick, ExpireProposals, LeaveLoop, execVars, loopVars, ramVars, dbVars
  <2>2. QED
    BY <2>1, ExposureSame
<1>6. CASE \E t \in Task : WorkerStep(t)
  BY <1>6, ExposureWorker
<1>7. CASE \E id \in Trade : \/ ProposalTimesOut(id) \/ TapClose(id) \/ SnoozeEnds(Pair(id))
                             \/ \E verdict \in Verdict : Tap(id, verdict)
  <2>1. Same
    BY <1>7 DEF ProposalTimesOut, TapClose, SnoozeEnds, Tap, execVars, loopVars, ramVars, dbVars
  <2>2. QED
    BY <2>1, ExposureSame
<1>8. CASE CancelContext \/ UNCHANGED vars
  <2>1. Same
    BY <1>8 DEF CancelContext, vars, execVars, loopVars, ramVars, dbVars
  <2>2. QED
    BY <2>1, ExposureSame
<1>9. CASE ExitProcess \/ Crash
  BY <1>9, GoneFrames, ExposureGone
<1>10. CASE Restart
  BY <1>10, ExposureRestart
<1>11. QED
  BY <1>1, <1>2, <1>3, <1>4, <1>5, <1>6, <1>7, <1>8, <1>9, <1>10 DEF Next, LoopStep, Environment

\* Whatever the exchange holds for a leg of a trade is on record as open, in the hands of
\* a goroutine or reported for a manual close, through overlapping closes, shutdowns,
\* crashes, restarts and failing writes, whatever the exchanges do; unless an order
\* misled the executor, the process ended while it opened the trade, or the row could
\* not be written (executor.go:64-123, strategy.go:215-293).
THEOREM StrategyTracksExposure == Spec => []ExposureTracked
<1>1. IInv /\ ExposureInv /\ [Next]_vars => ExposureInv'
  BY ExposureStep
<1>2. IInv /\ ExposureInv => ExposureTracked
  <2> SUFFICES ASSUME IInv, ExposureInv, NEW id \in Trade \ interrupted, NEW leg \in Leg,
                      held[id][leg] # 0, <<id, leg>> \notin misled, ~Alarmed(id), ~Busy(id)
               PROVE  row[id] = "open"
    BY DEF ExposureTracked, Alarmed
  <2>1. Accounted(id, leg) /\ row[id] \in {"none", "open", "closed"}
    BY DEF ExposureInv, IInv, TypeInv, DbTypes
  <2>2. QED
    BY <2>1 DEF Accounted
<1>3. QED
  BY <1>1, <1>2, IInvariant, ExposureInit, PTL DEF Spec

-----------------------------------------------------------------------------
(* A process nobody stopped *)

Calm == shutdowns = 0 /\ crashes = 0

Running == Calm => ~cancelled /\ at \notin {"exited", "down"}

\* As long as nobody stops the process there are five kinds of steps.
Quiet == UNCHANGED <<execVars, dbVars, closeCh, closeTaps>>
Opens(t, id) ==
  id \in proposals /\ Spawn(t, id, "legA") /\ UNCHANGED <<dbVars, closeCh, closeTaps>>

LEMMA CalmStep ==
  ASSUME IInv, Running, Next, Calm'
  PROVE  /\ Calm /\ ~cancelled /\ Running'
         /\ \/ Quiet
            \/ \E t \in Task, id \in Trade : Opens(t, id)
            \/ \E id \in Trade : HandleCloseRequest(id)
            \/ \E id \in Trade : TapClose(id)
            \/ \E t \in Task : WorkerStep(t)
<1>0. shutdowns \in Nat /\ crashes \in Nat
  BY DEF IInv, TypeInv, AuxTypes
<1> DEFINE Calmly == Calm /\ cancelled' = cancelled /\ at' \notin {"exited", "down"}
<1>1. CASE ReceiveCandidate \/ PairCheck \/ CapCheck \/ SymbolCheck \/ SendProposal
  <2>1. Calmly
    BY <1>1 DEF ReceiveCandidate, PairCheck, CapCheck, SymbolCheck, SendProposal, Drop, Calm,
                auxVars, execVars
  <2>2. Quiet
    BY <1>1, CandidateFrames
       DEF Quiet, ReceiveCandidate, PairCheck, CapCheck, SymbolCheck, SendProposal,
           auxVars, chanVars
  <2>3. QED
    BY <2>1, <2>2 DEF Running
<1>2. CASE HandleApproval
  <2>1. PICK id \in Trade :
          UnknownProposal(id) \/ Snooze(id) \/ Reject(id) \/ ApproveExpired(id) \/ Approve(id)
    BY <1>2 DEF HandleApproval
  <2>2. UNCHANGED <<loopVars, dbVars, closeCh, auxVars>>
    BY <1>2, ApprovalFrames
  <2>3. cancelled' = cancelled
    BY <2>1 DEF UnknownProposal, Snooze, Reject, ApproveExpired, Approve, Spawn, execVars
  <2>4. Calmly
    BY <2>2, <2>3 DEF Calm, Running, loopVars, auxVars
  <2>5. CASE Approve(id)
    BY <2>2, <2>4, <2>5 DEF Approve, Opens, Running, auxVars
  <2>6. CASE ~Approve(id)
    BY <2>1, <2>2, <2>4, <2>6
       DEF UnknownProposal, Snooze, Reject, ApproveExpired, Quiet, Running, auxVars
  <2>7. QED
    BY <2>5, <2>6
<1>3. CASE \E id \in Trade : HandleCloseRequest(id)
  <2>1. Calmly
    BY <1>3 DEF HandleCloseRequest, Calm, Running, Spawn, execVars, loopVars, auxVars
  <2>2. QED
    BY <1>3, <2>1 DEF Running
<1>4. CASE \E id \in Trade : MonitorPosition(id)
  <2>1. Calmly /\ Quiet
    BY <1>4, MonitorFrames DEF Calm, Quiet, execVars, chanVars, auxVars
  <2>2. QED
    BY <2>1 DEF Running
<1>5. CASE (\E s \in Symbol : ReceiveTick(s)) \/ ExpireProposals
  <2>1. Calmly /\ Quiet
    BY <1>5 DEF ReceiveTick, ExpireProposals, Calm, Running, Quiet, execVars, loopVars, chanVars,
                auxVars
  <2>2. QED
    BY <2>1 DEF Running
<1>6. CASE LeaveLoop
  BY <1>6 DEF LeaveLoop, Running, Calm, auxVars
<1>7. CASE \E t \in Task : WorkerStep(t)
  <2>1. PICK t \in Task : WorkerStep(t)
    BY <1>7
  <2>2. UNCHANGED <<loopVars, auxVars>>
    BY <2>1, WorkerFrames DEF IInv
  <2>3. cancelled' = cancelled
    BY <2>1, ExecStepFrame
       DEF IInv, TypeInv, WorkerStep, Trading, Failed, SaveOpened, SaveShortFill, SaveLongFill,
           InsertPosition, RemovePosition, SaveClosed, Finish, Advance
  <2>4. QED
    BY <1>7, <2>2, <2>3 DEF Running, Calm, loopVars, auxVars
<1>8. CASE \E id \in Trade : \/ ProposalTimesOut(id) \/ SnoozeEnds(Pair(id))
                             \/ \E verdict \in Verdict : Tap(id, verdict)
  <2>1. Calmly /\ Quiet
    BY <1>8 DEF ProposalTimesOut, SnoozeEnds, Tap, Calm, Running, Quiet, execVars, loopVars,
                chanVars, auxVars
  <2>2. QED
    BY <2>1 DEF Running
<1>9. CASE \E id \in Trade : TapClose(id)
  <2>1. Calmly
    BY <1>9 DEF TapClose, Calm, Running, execVars, loopVars
  <2>2. QED
    BY <1>9, <2>1 DEF Running
<1>10. CASE CancelContext \/ Crash
  BY <1>0, <1>10 DEF CancelContext, Crash, ProcessGone, Calm
<1>11. CASE ExitProcess \/ Restart
  BY <1>11 DEF ExitProcess, Restart, ProcessGone, Calm, Running, auxVars
<1>12. QED
  BY <1>1, <1>2, <1>3, <1>4, <1>5, <1>6, <1>7, <1>8, <1>9, <1>10, <1>11
     DEF Next, LoopStep, Environment

-----------------------------------------------------------------------------
(* The invariant behind LedgerReconciles *)

\* What a leg that is held in full amounts to.
Whole(leg) == IF leg = "short" THEN -Size ELSE Size

\* Where a fill was returned by the executor and is not in the fills table yet.
OpenOwes(leg) ==
  IF leg = "short" THEN {"legB", "opened", "fillShort"} ELSE {"opened", "fillShort", "fillLong"}
CloseOwes(leg) ==
  IF leg = "short" THEN {"closeLong", "closed", "saveClosed", "closeFillShort"}
  ELSE {"closed", "saveClosed", "closeFillShort", "closeFillLong"}

Simulated(id) == \A leg \in Leg : OnSim(id, leg)

At(id, places) == {t \in Task : job[t] = id /\ pc[t] \in places}

Owes(t, leg) ==
  IF pc[t] \in OpenOwes(leg) THEN Whole(leg)
  ELSE IF pc[t] \in CloseOwes(leg) THEN -Whole(leg)
  ELSE 0

\* What its fills claim is what it owes.
Claimed(t, leg) == Owes(t, leg) # 0 => fill[t][leg] = Owes(t, leg)

Owed(id, leg) ==
  Whole(leg) * (Cardinality(At(id, OpenOwes(leg))) - Cardinality(At(id, CloseOwes(leg))))

Active == {t \in Task : pc[t] # "idle"}

LedgerInv ==
  Calm =>
    /\ IsFiniteSet(Active)
    /\ \A t \in Task, leg \in Leg :
         job[t] \in Trade /\ Simulated(job[t]) => pc[t] # "unwind" /\ Claimed(t, leg)
    /\ \A id \in Trade, leg \in Leg :
         Simulated(id) => held[id][leg] = ledger[id][leg] + Owed(id, leg)

\* One goroutine enters or leaves a set of goroutines.
LEMMA CountStep ==
  ASSUME NEW S, IsFiniteSet(S), NEW T, NEW t, T \ {t} = S \ {t}
  PROVE  /\ IsFiniteSet(T) /\ Cardinality(S) \in Nat /\ Cardinality(T) \in Nat
         /\ t \in T /\ t \notin S => Cardinality(T) = Cardinality(S) + 1
         /\ t \notin T /\ t \in S => Cardinality(T) = Cardinality(S) - 1
         /\ (t \in T <=> t \in S) => Cardinality(T) = Cardinality(S)
<1>1. Cardinality(S) \in Nat
  BY FS_CardinalityType
<1>2. CASE t \in T /\ t \notin S
  <2>1. T = S \cup {t}
    BY <1>2
  <2>2. QED
    BY <1>1, <1>2, <2>1, FS_AddElement, FS_CardinalityType
<1>3. CASE t \notin T /\ t \in S
  <2>1. T = S \ {t}
    BY <1>3
  <2>2. QED
    BY <1>1, <1>3, <2>1, FS_RemoveElement, FS_CardinalityType
<1>4. CASE t \in T <=> t \in S
  <2>1. T = S
    BY <1>4
  <2>2. QED
    BY <1>1, <2>1
<1>5. QED
  BY <1>2, <1>3, <1>4

\* What is owed for a trade changes by what the one goroutine that moves owes for it.
Share(t, id, leg) == IF job[t] = id THEN Owes(t, leg) ELSE 0

LEMMA OwedStep ==
  ASSUME IsFiniteSet(Active), NEW t \in Task, NEW id \in Trade, NEW leg \in Leg,
         \A u \in Task : u # t => pc'[u] = pc[u] /\ job'[u] = job[u]
  PROVE  /\ IsFiniteSet(Active')
         /\ Owed(id, leg) \in Int /\ Share(t, id, leg) \in Int
         /\ Owed(id, leg)' = Owed(id, leg) + (Share(t, id, leg)' - Share(t, id, leg))
<1> DEFINE O == At(id, OpenOwes(leg))
           C == At(id, CloseOwes(leg))
           W == Whole(leg)
           o == Cardinality(O)
           c == Cardinality(C)
<1>1. OpenOwes(leg) \cap CloseOwes(leg) = {} /\ "idle" \notin OpenOwes(leg) \cup CloseOwes(leg)
  BY DEF OpenOwes, CloseOwes
<1>2. IsFiniteSet(O) /\ IsFiniteSet(C)
  <2>1. O \subseteq Active /\ C \subseteq Active
    BY <1>1 DEF At, Active
  <2>2. QED
    BY <2>1, FS_Subset
<1>3. Active' \ {t} = Active \ {t} /\ O' \ {t} = O \ {t} /\ C' \ {t} = C \ {t}
  BY DEF Active, At
<1>4. /\ IsFiniteSet(Active')
      /\ o \in Nat /\ o' \in Nat
      /\ t \in O' /\ t \notin O => o' = o + 1
      /\ t \notin O' /\ t \in O => o' = o - 1
      /\ (t \in O' <=> t \in O) => o' = o
  BY <1>2, <1>3, CountStep
<1>5. /\ c \in Nat /\ c' \in Nat
      /\ t \in C' /\ t \notin C => c' = c + 1
      /\ t \notin C' /\ t \in C => c' = c - 1
      /\ (t \in C' <=> t \in C) => c' = c
  BY <1>2, <1>3, CountStep
<1>6. W \in Int
  BY SizeAssumption DEF Whole
<1> DEFINE x == IF t \in O THEN 1 ELSE IF t \in C THEN -1 ELSE 0
<1>7. /\ ~(t \in O /\ t \in C) /\ ~(t \in O' /\ t \in C')
      /\ Share(t, id, leg) = W * x /\ Share(t, id, leg)' = W * x'
  <2>1. W * 1 = W /\ W * (-1) = -W /\ W * 0 = 0
    BY <1>6
  <2> HIDE DEF W
  <2>2. ~(t \in O /\ t \in C) /\ ~(t \in O' /\ t \in C')
    BY <1>1 DEF At
  <2>3. Share(t, id, leg) = W * x
    BY <1>1, <2>1 DEF Share, Owes, At, W
  <2>4. Share(t, id, leg)' = W * x'
    BY <1>1, <2>1 DEF Share, Owes, At, W
  <2>5. QED
    BY <2>2, <2>3, <2>4
<1>8. Owed(id, leg) = W * (o - c) /\ Owed(id, leg)' = W * (o' - c')
  BY DEF Owed
<1> HIDE DEF O, C, W, o, c
<1>9. x \in Int /\ x' \in Int /\ o' - c' = (o - c) + (x' - x)
  <2> DEFINE in == IF t \in O THEN 1 ELSE 0
             out == IF t \in C THEN 1 ELSE 0
  <2>1. in \in Int /\ in' \in Int /\ o' = o + (in' - in)
    BY <1>4
  <2>2. out \in Int /\ out' \in Int /\ c' = c + (out' - out)
    BY <1>5
  <2>3. x = in - out /\ x' = in' - out'
    BY <1>7
  <2> HIDE DEF in, out, x
  <2>4. QED
    BY <1>4, <1>5, <2>1, <2>2, <2>3
<1>10. \A n, k \in Int : W * (n + k) = W * n + W * k /\ W * (n - k) = W * n - W * k /\ W * n \in Int
  BY <1>6
<1> HIDE DEF x
<1>11. /\ W * (o' - c') = W * (o - c) + W * (x' - x)
       /\ W * (x' - x) = W * x' - W * x
       /\ W * x \in Int /\ W * x' \in Int /\ W * (o - c) \in Int
  <2>1. o - c \in Int /\ x' - x \in Int
    BY <1>4, <1>5, <1>9
  <2>2. QED
    BY <1>9, <1>10, <2>1
<1>12. QED
  BY <1>4, <1>7, <1>8, <1>11

-----------------------------------------------------------------------------
(* What a step of a goroutine trades and records, it owes or no longer owes *)

LEMMA TradingBalance ==
  ASSUME ExecTypes(PCs), NEW t \in Task, NEW id \in Trade, job[t] = id, Simulated(id),
         pc[t] # "unwind", \A leg \in Leg : Claimed(t, leg), ExecStep(t)
  PROVE  /\ pc'[t] # "unwind" /\ \A u \in Task : u # t => fill'[u] = fill[u]
         /\ \A leg \in Leg :
              /\ Claimed(t, leg)'
              /\ held'[id][leg] = held[id][leg] + (Owes(t, leg)' - Owes(t, leg))
<1>0. /\ pc \in [Task -> PCs] /\ held \in [Trade -> [Leg -> Int]]
      /\ fill \in [Task -> [Leg -> Int]] /\ Size \in Int /\ Size # 0
      /\ job \in [Task -> Trade \cup {NoTrade}]
  BY SizeAssumption DEF ExecTypes
<1>1. \A leg \in Leg : Whole(leg) \in Int /\ held[id][leg] \in Int
  BY <1>0 DEF Whole
<1> USE DEF Claimed, Owes, OpenOwes, CloseOwes, Whole
<1>2. CASE UnknownVenue(t)
  BY <1>0, <1>2 DEF UnknownVenue, Goto
<1>3. CASE LegA(t)
  <2>1. PICK answer \in OpenAnswers(t, "short", "limit") :
          /\ Traded(t, "short", answer, Hedge["short"])
          /\ Goto(t, IF answer.err THEN "openFailed" ELSE "legB")
    BY <1>3 DEF LegA
  <2>2. ~answer.err /\ answer.fill = answer.delta /\ answer.delta = -Size
    BY <2>1, SimTrades DEF Simulated
  <2>3. QED
    BY <1>0, <1>1, <1>3, <2>1, <2>2 DEF LegA, Goto, Traded
<1>4. CASE LegB(t)
  <2>1. PICK answer \in OpenAnswers(t, "long", "market") :
          /\ Traded(t, "long", answer, Hedge["long"])
          /\ Goto(t, IF answer.err THEN "unwind" ELSE "opened")
    BY <1>4 DEF LegB
  <2>2. ~answer.err /\ answer.fill = answer.delta /\ answer.delta = Size
    BY <2>1, SimTrades DEF Simulated
  <2>3. QED
    BY <1>0, <1>1, <1>4, <2>1, <2>2 DEF LegB, Goto, Traded
<1>5. CASE Unwind(t)
  BY <1>5 DEF Unwind
<1>6. CASE CloseShort(t)
  <2>1. PICK answer \in CloseAnswers(t, "short") :
          /\ Traded(t, "short", answer, 0)
          /\ Goto(t, IF answer.err THEN "closeFailed" ELSE "closeLong")
    BY <1>6 DEF CloseShort
  <2>2. ~answer.err /\ answer.fill = answer.delta /\ answer.delta = Size
    BY <2>1, SimTrades DEF Simulated
  <2>3. /\ held' = [held EXCEPT ![id]["short"] = @ + answer.delta]
        /\ fill' = [fill EXCEPT ![t]["short"] = answer.delta]
        /\ pc' = [pc EXCEPT ![t] = "closeLong"] /\ job' = job
    BY <1>6, <2>1, <2>2 DEF CloseShort, Goto, Traded
  <2>4. pc[t] = "closeShort"
    BY <1>6 DEF CloseShort
  <2>5. QED
    BY <1>0, <1>1, <2>2, <2>3, <2>4
<1>7. CASE CloseLong(t)
  <2>1. PICK answer \in CloseAnswers(t, "long") :
          /\ Traded(t, "long", answer, 0)
          /\ Goto(t, IF answer.err THEN "closeFailed" ELSE "closed")
    BY <1>7 DEF CloseLong
  <2>2. ~answer.err /\ answer.fill = answer.delta /\ answer.delta = -Size
    BY <2>1, SimTrades DEF Simulated
  <2>3. /\ held' = [held EXCEPT ![id]["long"] = @ + answer.delta]
        /\ fill' = [fill EXCEPT ![t]["long"] = answer.delta]
        /\ pc' = [pc EXCEPT ![t] = "closed"] /\ job' = job
    BY <1>7, <2>1, <2>2 DEF CloseLong, Goto, Traded
  <2>4. pc[t] = "closeLong"
    BY <1>7 DEF CloseLong
  <2>5. QED
    BY <1>0, <1>1, <2>2, <2>3, <2>4
<1>8. QED
  BY <1>2, <1>3, <1>4, <1>5, <1>6, <1>7 DEF ExecStep

\* With a working database and no shutdown a fill is recorded.
LEMMA RecordSucceeds ==
  ASSUME StoreWorks, ~cancelled, NEW t \in Task, NEW leg \in Leg, Recorded(t, leg)
  PROVE  ledger' = [ledger EXCEPT ![job[t]][leg] = @ + fill[t][leg]]
BY DEF StoreWorks, Recorded, Saves

LEMMA SavingBalance ==
  ASSUME StoreWorks, ~cancelled, TypeInv, NEW t \in Task, NEW id \in Trade, job[t] = id,
         pc[t] # "unwind", \A leg \in Leg : Claimed(t, leg), WorkerStep(t), ~Trading(t)
  PROVE  /\ pc'[t] # "unwind" /\ \A u \in Task : u # t => fill'[u] = fill[u]
         /\ held' = held /\ \A k \in Trade : k # id => ledger'[k] = ledger[k]
         /\ \A leg \in Leg :
              /\ Claimed(t, leg)'
              /\ ledger'[id][leg] = ledger[id][leg] + (Owes(t, leg) - Owes(t, leg)')
<1>0. /\ pc \in [Task -> PCs] /\ ledger \in [Trade -> [Leg -> Int]]
      /\ fill \in [Task -> [Leg -> Int]] /\ Size \in Int /\ Size # 0
  BY SizeAssumption DEF TypeInv, ExecTypes, DbTypes
<1>1. \A leg \in Leg : Whole(leg) \in Int /\ ledger[id][leg] \in Int
  BY <1>0 DEF Whole
<1> USE DEF Claimed, Owes, OpenOwes, CloseOwes, Whole
<1>2. CASE Failed(t) \/ InsertPosition(t)
  BY <1>0, <1>1, <1>2 DEF Failed, InsertPosition, Finish, Goto, dbVars
<1>3. CASE SaveOpened(t)
  BY <1>0, <1>1, <1>3 DEF SaveOpened, Advance, Goto
<1>4. CASE RemovePosition(t)
  BY <1>0, <1>1, <1>4 DEF RemovePosition, Advance, Goto, dbVars
<1>5. CASE SaveClosed(t)
  BY <1>0, <1>1, <1>5 DEF SaveClosed, Advance, Goto
<1>6. CASE SaveShortFill(t)
  <2>1. ledger' = [ledger EXCEPT ![id]["short"] = @ + fill[t]["short"]]
    BY <1>6, RecordSucceeds DEF SaveShortFill
  <2>2. QED
    BY <1>0, <1>1, <1>6, <2>1 DEF SaveShortFill, Advance, Goto
<1>7. CASE SaveLongFill(t)
  <2>1. ledger' = [ledger EXCEPT ![id]["long"] = @ + fill[t]["long"]]
    BY <1>7, RecordSucceeds DEF SaveLongFill
  <2>2. QED
    BY <1>0, <1>1, <1>7, <2>1 DEF SaveLongFill, Advance, Finish, Goto
<1>8. QED
  BY <1>2, <1>3, <1>4, <1>5, <1>6, <1>7 DEF WorkerStep

\* A goroutine touches its own fills and the ledger of its own trade only.
LEMMA WorkerFills ==
  ASSUME TypeInv, NEW t \in Task, WorkerStep(t)
  PROVE  /\ \A u \in Task : u # t => fill'[u] = fill[u]
         /\ \A k \in Trade : k # job[t] => ledger'[k] = ledger[k]
<1>0. fill \in [Task -> [Leg -> Int]] /\ ledger \in [Trade -> [Leg -> Int]]
  BY DEF TypeInv, ExecTypes, DbTypes
<1>1. CASE Trading(t)
  BY <1>0, <1>1
     DEF Trading, ExecStep, UnknownVenue, LegA, LegB, Unwind, CloseShort, CloseLong, Traded, dbVars
<1>2. CASE Failed(t) \/ SaveOpened(t) \/ InsertPosition(t) \/ RemovePosition(t) \/ SaveClosed(t)
  BY <1>0, <1>2
     DEF Failed, SaveOpened, InsertPosition, RemovePosition, SaveClosed, Finish, Advance, dbVars
<1>3. CASE SaveShortFill(t) \/ SaveLongFill(t)
  BY <1>0, <1>3 DEF SaveShortFill, SaveLongFill, Recorded, Finish, Advance
<1>4. QED
  BY <1>1, <1>2, <1>3 DEF WorkerStep

LEMMA LedgerInit == Init => LedgerInv
<1> SUFFICES ASSUME Init PROVE LedgerInv
  OBVIOUS
<1>1. \A t \in Task : pc[t] = "idle" /\ job[t] = NoTrade
  BY DEF Init, ExecInit
<1>2. Active = {} /\ \A id \in Trade : \A places : At(id, places) = {}
  BY <1>1, NoTradeAssumption DEF Active, At
<1>3. IsFiniteSet({}) /\ Cardinality({}) = 0
  BY FS_EmptySet
<1>4. ASSUME NEW id \in Trade, NEW leg \in Leg
      PROVE  Owed(id, leg) = 0
  <2>1. At(id, OpenOwes(leg)) = {} /\ At(id, CloseOwes(leg)) = {}
    BY <1>2
  <2>2. Owed(id, leg) = Whole(leg) * (0 - 0) /\ Whole(leg) \in Int
    BY <1>3, <2>1, SizeAssumption DEF Owed, Whole
  <2>3. QED
    BY <2>2
<1>5. \A id \in Trade, leg \in Leg : held[id][leg] = 0 /\ ledger[id][leg] = 0
  BY DEF Init, ExecInit, NoFill
<1>6. QED
  BY <1>1, <1>2, <1>3, <1>4, <1>5, NoTradeAssumption DEF LedgerInv

LEMMA LedgerWorker ==
  ASSUME StoreWorks, ~cancelled, IInv, Calm, LedgerInv, NEW t \in Task, WorkerStep(t)
  PROVE  LedgerInv'
<1>0. /\ TypeInv /\ ExecTypes(PCs) /\ \A id \in Trade, leg \in Leg : held[id][leg] \in Int /\ ledger[id][leg] \in Int
  BY DEF IInv, TypeInv, ExecTypes, DbTypes
<1>1. /\ \A u \in Task : u # t => pc'[u] = pc[u] /\ job'[u] = job[u] /\ fill'[u] = fill[u]
      /\ job[t] \in Trade /\ job'[t] \in {job[t], NoTrade}
      /\ \A k \in Trade : k # job[t] => held'[k] = held[k] /\ ledger'[k] = ledger[k]
  BY <1>0, WorkerFrames, WorkerFills
<1>2. IsFiniteSet(Active) /\ IsFiniteSet(Active')
  <2>1. IsFiniteSet(Active) /\ "short" \in Leg
    BY DEF LedgerInv
  <2>2. QED
    BY <1>1, <2>1, OwedStep
<1>3. ASSUME NEW id \in Trade, job[t] = id, Simulated(id), NEW leg \in Leg
      PROVE  /\ pc'[t] # "unwind" /\ Claimed(t, leg)'
             /\ held'[id][leg] - ledger'[id][leg]
                  = held[id][leg] - ledger[id][leg] + (Owes(t, leg)' - Owes(t, leg))
  <2>1. pc[t] # "unwind" /\ \A l \in Leg : Claimed(t, l)
    BY <1>3 DEF LedgerInv
  <2>2. Owes(t, leg) \in Int /\ Owes(t, leg)' \in Int
    BY SizeAssumption DEF Owes, Whole
  <2>3. CASE Trading(t)
    <3>1. ExecStep(t) /\ ledger' = ledger
      BY <2>3 DEF Trading, dbVars
    <3>2. /\ pc'[t] # "unwind" /\ Claimed(t, leg)'
          /\ held'[id][leg] = held[id][leg] + (Owes(t, leg)' - Owes(t, leg))
      BY <1>0, <1>3, <2>1, <3>1, TradingBalance
    <3>3. QED
      BY <1>0, <2>2, <3>1, <3>2
  <2>4. CASE ~Trading(t)
    <3>1. /\ pc'[t] # "unwind" /\ Claimed(t, leg)' /\ held' = held
          /\ ledger'[id][leg] = ledger[id][leg] + (Owes(t, leg) - Owes(t, leg)')
      BY <1>0, <1>3, <2>1, <2>4, SavingBalance
    <3>2. QED
      BY <1>0, <2>2, <3>1
  <2>5. QED
    BY <2>3, <2>4
<1>4. ASSUME NEW u \in Task, NEW leg \in Leg, job'[u] \in Trade, Simulated(job'[u])
      PROVE  pc'[u] # "unwind" /\ Claimed(u, leg)'
  <2>1. CASE u = t
    BY <1>1, <1>3, <1>4, <2>1, NoTradeAssumption
  <2>2. CASE u # t
    BY <1>1, <1>4, <2>2 DEF LedgerInv, Claimed, Owes
  <2>3. QED
    BY <2>1, <2>2
<1>5. ASSUME NEW id \in Trade, NEW leg \in Leg, Simulated(id)
      PROVE  held'[id][leg] = ledger'[id][leg] + Owed(id, leg)'
  <2>1. /\ Owed(id, leg) \in Int /\ Share(t, id, leg) \in Int
        /\ Owed(id, leg)' = Owed(id, leg) + (Share(t, id, leg)' - Share(t, id, leg))
    BY <1>1, <1>2, OwedStep
  <2>2. held[id][leg] = ledger[id][leg] + Owed(id, leg)
    BY <1>5 DEF LedgerInv
  <2>3. CASE job[t] = id
    <3>1. Share(t, id, leg) = Owes(t, leg) /\ Owes(t, leg) \in Int /\ Owes(t, leg)' \in Int
      BY <2>3, SizeAssumption DEF Share, Owes, Whole
    <3>2. Share(t, id, leg)' = Owes(t, leg)'
      <4>1. job'[t] = id \/ pc'[t] = "idle"
        BY <2>3, WorkerPlaces
      <4>2. QED
        BY <4>1 DEF Share, Owes, OpenOwes, CloseOwes
    <3>3. held'[id][leg] \in Int /\ ledger'[id][leg] \in Int
      <4>1. TypeInv'
        BY <1>0, WorkerType
      <4>2. QED
        BY <4>1 DEF TypeInv, ExecTypes, DbTypes
    <3>4. held'[id][leg] - ledger'[id][leg]
            = held[id][leg] - ledger[id][leg] + (Owes(t, leg)' - Owes(t, leg))
      BY <1>3, <1>5, <2>3
    <3>5. QED
      BY <1>0, <2>1, <2>2, <3>1, <3>2, <3>3, <3>4
  <2>4. CASE job[t] # id
    <3>1. Share(t, id, leg) = 0 /\ Share(t, id, leg)' = 0
      BY <1>1, <2>4, NoTradeAssumption DEF Share
    <3>2. QED
      BY <1>0, <1>1, <2>1, <2>2, <2>4, <3>1
  <2>5. QED
    BY <2>3, <2>4
<1>6. \A id \in Trade : Simulated(id)' = Simulated(id)
  BY DEF Simulated, OnSim, VenueOf
<1>7. QED
  BY <1>2, <1>4, <1>5, <1>6 DEF LedgerInv, Simulated, OnSim, VenueOf

\* A goroutine that starts owes nothing.
LEMMA LedgerSpawn ==
  ASSUME IInv, Calm, LedgerInv, NEW t \in Task, NEW id \in Trade,
         NEW entry \in {"legA", "closeShort"}, Spawn(t, id, entry), UNCHANGED dbVars
  PROVE  LedgerInv'
<1>1. /\ pc[t] = "idle" /\ pc'[t] = entry /\ job[t] = NoTrade
      /\ \A u \in Task : u # t => pc'[u] = pc[u] /\ job'[u] = job[u]
      /\ held' = held
  BY SpawnPlaces
<1>2. ledger' = ledger /\ \A u \in Task : u # t => fill'[u] = fill[u]
  BY DEF Spawn, dbVars, IInv, TypeInv, ExecTypes
<1>3. \A leg \in Leg : entry \notin OpenOwes(leg) \cup CloseOwes(leg)
                     /\ "idle" \notin OpenOwes(leg) \cup CloseOwes(leg)
  BY DEF OpenOwes, CloseOwes
<1>4. IsFiniteSet(Active')
  <2>1. IsFiniteSet(Active) /\ "short" \in Leg
    BY DEF LedgerInv
  <2>2. QED
    BY <1>1, <2>1, OwedStep
<1>5. \A k \in Trade, leg \in Leg :
        /\ At(k, OpenOwes(leg))' = At(k, OpenOwes(leg))
        /\ At(k, CloseOwes(leg))' = At(k, CloseOwes(leg))
  BY <1>1, <1>3 DEF At, OpenOwes, CloseOwes
<1>6. \A k \in Trade, leg \in Leg : Owed(k, leg)' = Owed(k, leg)
  BY <1>5 DEF Owed, Whole
<1>7. \A u \in Task, leg \in Leg :
        job'[u] \in Trade /\ Simulated(job'[u]) => pc'[u] # "unwind" /\ Claimed(u, leg)'
  BY <1>1, <1>2, <1>3 DEF LedgerInv, Claimed, Owes
<1>8. QED
  BY <1>1, <1>2, <1>4, <1>6, <1>7 DEF LedgerInv, Simulated, OnSim, VenueOf

LEMMA LedgerSame ==
  ASSUME LedgerInv, Calm, UNCHANGED <<execVars, dbVars>>
  PROVE  LedgerInv'
BY DEF execVars, dbVars, LedgerInv, Active, At, Owed, Owes, Claimed, Whole, OpenOwes, CloseOwes,
       Simulated, OnSim, VenueOf

LEMMA LedgerStep ==
  ASSUME StoreWorks, IInv, Running, LedgerInv, [Next]_vars
  PROVE  Running' /\ LedgerInv'
<1>1. CASE UNCHANGED vars
  <2>1. Calm' = Calm /\ Running'
    BY <1>1 DEF vars, execVars, loopVars, auxVars, Running, Calm
  <2>2. QED
    BY <1>1, <2>1, LedgerSame DEF vars, LedgerInv
<1>2. CASE Next /\ ~Calm'
  BY <1>2 DEF Running, LedgerInv
<1>3. CASE Next /\ Calm'
  <2>1. Calm /\ ~cancelled /\ Running'
    BY <1>3, CalmStep
  <2>2. CASE Quiet \/ \E id \in Trade : TapClose(id)
    BY <2>1, <2>2, LedgerSame DEF Quiet, TapClose
  <2>3. CASE \E t \in Task, id \in Trade : Opens(t, id)
    BY <2>1, <2>3, LedgerSpawn DEF Opens
  <2>4. CASE \E id \in Trade : HandleCloseRequest(id)
    <3>1. PICK id \in Trade : HandleCloseRequest(id)
      BY <2>4
    <3>2. UNCHANGED dbVars
      BY <3>1 DEF HandleCloseRequest
    <3>3. UNCHANGED execVars \/ \E t \in Task : Spawn(t, id, "closeShort")
      BY <3>1 DEF HandleCloseRequest
    <3>4. QED
      BY <2>1, <3>2, <3>3, LedgerSame, LedgerSpawn
  <2>5. CASE \E t \in Task : WorkerStep(t)
    BY <2>1, <2>5, LedgerWorker
  <2>6. QED
    BY <1>3, <2>1, <2>2, <2>3, <2>4, <2>5, CalmStep
<1>4. QED
  BY <1>1, <1>2, <1>3

\* On simulators, with a database that works and no shutdown or crash, the fills table
\* adds up to what was traded for every trade no goroutine works on, however many closes
\* of it were queued, and whatever ran in between (strategy.go:241-246 and 287-288).
THEOREM StrategyLedgerReconciles ==
  StoreWorks /\ (\A id \in Trade : Simulated(id)) => (Spec => [](Calm => LedgerReconciles))
<1> SUFFICES ASSUME StoreWorks, \A id \in Trade : Simulated(id)
             PROVE  Spec => [](Calm => LedgerReconciles)
  OBVIOUS
<1>1. Init => Running /\ LedgerInv
  BY LedgerInit DEF Init, ExecInit, Running
<1>2. IInv /\ Running /\ LedgerInv /\ [Next]_vars => (Running /\ LedgerInv)'
  BY LedgerStep
<1>3. IInv /\ LedgerInv => (Calm => LedgerReconciles)
  <2> SUFFICES ASSUME IInv, LedgerInv, Calm, NEW id \in Trade, ~Busy(id)
               PROVE  ledger[id] = held[id]
    BY DEF LedgerReconciles
  <2>1. ledger[id] \in [Leg -> Int] /\ held[id] \in [Leg -> Int]
    BY DEF IInv, TypeInv, ExecTypes, DbTypes
  <2>2. \A places : At(id, places) = {}
    BY DEF At, Busy
  <2>3. \A leg \in Leg : Owed(id, leg) = 0
    BY <2>2, FS_EmptySet, SizeAssumption DEF Owed, Whole
  <2>4. \A leg \in Leg : held[id][leg] = ledger[id][leg]
    BY <2>1, <2>3 DEF LedgerInv
  <2>5. QED
    BY <2>1, <2>4
<1>4. QED
  BY <1>1, <1>2, <1>3, IInvariant, PTL DEF Spec

=============================================================================
