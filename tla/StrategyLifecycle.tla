-------------------------- MODULE StrategyLifecycle --------------------------
(***************************************************************************)
(* Proofs that Strategy, with a database that works, loses no recorded     *)
(* position and implements TradeLifecycle, across shutdowns, crashes and   *)
(* restarts.                                                               *)
(***************************************************************************)
EXTENDS StrategyProofs

StoreWorks == ~StoreFails

\* Goroutines that keep an open row alive while it is not in RAM.
Handing == {"fillShort", "fillLong", "insert", "saveClosed"}

\* A shutdown makes every write fail, so that this ends with it.
Tracked ==
  /\ at = "down" => todo = {}
  /\ at # "down" /\ ~cancelled =>
       /\ \A id \in Trade :
            row[id] = "open" =>
              id \in positions \/ \E t \in Task : job[t] = id /\ pc[t] \in Handing
       /\ \A id \in positions \cup todo : row[id] # "none"
       /\ \A t \in Task : pc[t] \in Closing \cup Saving => row[job[t]] # "none"

LEMMA TrackedInit == Init => Tracked
BY DEF Init, ExecInit, Tracked, Closing, Saving

LEMMA SpawnTracked ==
  ASSUME IInv, Tracked, NEW t \in Task, NEW id \in Trade, NEW entry, Spawn(t, id, entry),
         UNCHANGED <<at, todo, positions, row>>, at # "down",
         \/ entry = "closeShort" /\ id \in positions
         \/ entry = "legA"
  PROVE  Tracked'
<1>1. /\ \A u \in Task : u # t => pc'[u] = pc[u] /\ job'[u] = job[u]
      /\ pc[t] = "idle" /\ pc'[t] = entry /\ job'[t] = id /\ cancelled' = cancelled
  BY DEF Spawn, Goto, IInv, TypeInv, ExecTypes
<1>2. "idle" \notin Handing /\ "legA" \notin Closing \cup Saving
  BY DEF Handing, Closing, Saving
<1>3. SUFFICES ASSUME ~cancelled
               PROVE  Tracked'
  BY <1>1 DEF Tracked
<1>4. \A k \in Trade : row'[k] = "open" =>
        k \in positions' \/ \E u \in Task : job'[u] = k /\ pc'[u] \in Handing
  BY <1>1, <1>2, <1>3 DEF Tracked
<1>5. \A u \in Task : pc'[u] \in Closing \cup Saving => row'[job'[u]] # "none"
  BY <1>1, <1>2, <1>3 DEF Tracked
<1>6. QED
  BY <1>3, <1>4, <1>5 DEF Tracked

\* With a working database and no shutdown, a write succeeds.
LEMMA SaveSucceeds ==
  ASSUME StoreWorks, ~cancelled, NEW id \in Trade, NEW status, SavePosition(id, status)
  PROVE  row' = [row EXCEPT ![id] = status]
BY DEF StoreWorks, SavePosition, Saves

LEMMA WorkerTracked ==
  ASSUME StoreWorks, IInv, Tracked, NEW t \in Task, WorkerStep(t)
  PROVE  Tracked'
<1> DEFINE id == job[t]
<1>1. /\ UNCHANGED <<at, todo>>
      /\ pc[t] # "idle" /\ id \in Trade
      /\ \A u \in Task : u # t => pc'[u] = pc[u] /\ job'[u] = job[u]
      /\ \A k \in Trade : k # id => row'[k] = row[k]
      /\ positions' \in {positions, positions \cup {id}, positions \ {id}}
  BY WorkerFrames DEF IInv, loopVars
<1>2. cancelled' = cancelled
  <2>1. CASE Trading(t)
    BY <2>1, ExecStepFrame DEF Trading, IInv, TypeInv
  <2>2. CASE ~Trading(t)
    BY <2>2 DEF WorkerStep, Failed, SaveOpened, SaveShortFill, SaveLongFill, InsertPosition,
                RemovePosition, SaveClosed, Finish, Advance
  <2>3. QED
    BY <2>1, <2>2
<1>3. at # "down"
  BY <1>1 DEF IInv, Alone
<1>4. SUFFICES ASSUME ~cancelled
               PROVE  Tracked'
  BY <1>1, <1>2, <1>3 DEF Tracked
<1>5. /\ row[id] = "open" => id \in positions \/ \E u \in Task : job[u] = id /\ pc[u] \in Handing
      /\ id \in positions \cup todo => row[id] # "none"
      /\ pc[t] \in Closing \cup Saving => row[id] # "none"
  BY <1>1, <1>3, <1>4 DEF Tracked
\* It is enough to look at the trade of t.
<1>6. SUFFICES /\ row'[id] = "open" =>
                    id \in positions' \/ \E u \in Task : job'[u] = id /\ pc'[u] \in Handing
               /\ id \in positions' \cup todo => row'[id] # "none"
               /\ row[id] # "none" => row'[id] # "none"
               /\ pc'[t] \in Closing \cup Saving => job'[t] = id /\ row'[id] # "none"
  <2>1. \A k \in Trade : k # id /\ row'[k] = "open" =>
          k \in positions' \/ \E u \in Task : job'[u] = k /\ pc'[u] \in Handing
    BY <1>1, <1>3, <1>4 DEF Tracked
  <2>2. \A k \in positions' \cup todo' : row'[k] # "none"
    BY <1>1, <1>3, <1>4, <1>6 DEF Tracked, IInv, TypeInv, LoopTypes, RamTypes
  <2>3. \A u \in Task : u # t /\ pc'[u] \in Closing \cup Saving => row'[job'[u]] # "none"
    <3>1. ASSUME NEW u \in Task, u # t, pc'[u] \in Closing \cup Saving
          PROVE  row'[job'[u]] # "none"
      <4>1. job'[u] = job[u] /\ row[job[u]] # "none"
        BY <1>1, <1>3, <1>4, <3>1 DEF Tracked
      <4>2. job[u] \in Trade
        BY <1>1, <3>1 DEF IInv, TypeInv, ExecTypes, Working, Closing, Saving
      <4>3. QED
        BY <1>1, <1>6, <4>1, <4>2
    <3>2. QED
      BY <3>1
  <2>4. QED
    BY <1>1, <1>2, <1>3, <1>4, <1>6, <2>1, <2>2, <2>3 DEF Tracked
<1>7. CASE Trading(t)
  <2>1. ExecTypes(PCs) /\ ExecStep(t) /\ row' = row /\ positions' = positions
    BY <1>7 DEF Trading, IInv, TypeInv, ramVars, dbVars
  <2>2. /\ job' = job
        /\ \/ pc[t] \in Opening /\ pc'[t] \in Opening
           \/ pc[t] \in Closing /\ pc'[t] \in Closing
    BY <2>1, ExecStepFrame
  <2>3. /\ (Opening \cup Closing) \cap Handing = {}
        /\ Opening \cap (Closing \cup Saving) = {}
    BY DEF Opening, Closing, Saving, Handing
  <2>4. row[id] = "open" =>
          id \in positions' \/ \E u \in Task : job'[u] = id /\ pc'[u] \in Handing
    BY <1>1, <1>5, <2>1, <2>2, <2>3
  <2>5. QED
    BY <1>5, <2>1, <2>2, <2>3, <2>4
<1>8. CASE Failed(t)
  BY <1>1, <1>5, <1>8
     DEF Failed, Finish, Goto, dbVars, Handing, Closing, Saving, IInv, TypeInv, ExecTypes
<1>9. CASE SaveOpened(t)
  <2>1. row' = [row EXCEPT ![id] = "open"] /\ pc'[t] = "fillShort" /\ job'[t] = id
    BY <1>1, <1>4, <1>9, SaveSucceeds DEF SaveOpened, Advance, Goto, IInv, TypeInv, ExecTypes
  <2>2. row'[id] = "open"
    BY <1>1, <2>1 DEF IInv, TypeInv, DbTypes
  <2>3. QED
    BY <2>1, <2>2 DEF Handing
<1>10. CASE SaveShortFill(t)
  BY <1>1, <1>5, <1>10
     DEF SaveShortFill, Advance, Goto, Handing, Closing, Saving, IInv, TypeInv, ExecTypes
<1>11. CASE SaveLongFill(t)
  BY <1>1, <1>5, <1>11
     DEF SaveLongFill, Advance, Finish, Goto, Handing, Closing, Saving, IInv, TypeInv, ExecTypes
<1>12. CASE InsertPosition(t)
  BY <1>1, <1>5, <1>12
     DEF InsertPosition, Finish, Goto, dbVars, Handing, Closing, Saving, IInv, TypeInv, ExecTypes
<1>13. CASE RemovePosition(t)
  BY <1>1, <1>5, <1>13
     DEF RemovePosition, Advance, Goto, dbVars, Handing, Closing, Saving, IInv, TypeInv, ExecTypes
<1>14. CASE SaveClosed(t)
  <2>1. row' = [row EXCEPT ![id] = "closed"] /\ pc'[t] = "closeFillShort" /\ job'[t] = id
    BY <1>1, <1>4, <1>14, SaveSucceeds DEF SaveClosed, Advance, Goto, IInv, TypeInv, ExecTypes
  <2>2. row'[id] = "closed"
    BY <1>1, <2>1 DEF IInv, TypeInv, DbTypes
  <2>3. QED
    BY <2>1, <2>2
<1>15. QED
  BY <1>7, <1>8, <1>9, <1>10, <1>11, <1>12, <1>13, <1>14 DEF WorkerStep

LEMMA TrackedStep ==
  ASSUME StoreWorks, IInv, Tracked, Next
  PROVE  Tracked'
<1>1. CASE ReceiveCandidate \/ PairCheck \/ CapCheck \/ SymbolCheck \/ SendProposal
  <2>1. at # "down" /\ at' # "down"
    BY <1>1 DEF ReceiveCandidate, PairCheck, CapCheck, SymbolCheck, SendProposal, Drop
  <2>2. QED
    BY <1>1, <2>1, CandidateFrames DEF execVars, dbVars, Tracked
<1>2. CASE HandleApproval
  <2>1. PICK id \in Trade :
          UnknownProposal(id) \/ Snooze(id) \/ Reject(id) \/ ApproveExpired(id) \/ Approve(id)
    BY <1>2 DEF HandleApproval
  <2>2. UNCHANGED <<at, todo, positions, row>>
    BY <1>2, ApprovalFrames DEF loopVars, dbVars
  <2>3. CASE Approve(id)
    BY <2>2, <2>3, SpawnTracked DEF Approve, TakeApproval
  <2>4. CASE ~Approve(id)
    BY <2>1, <2>2, <2>4
       DEF UnknownProposal, Snooze, Reject, ApproveExpired, execVars, Tracked
  <2>5. QED
    BY <2>3, <2>4
<1>3. CASE \E id \in Trade : HandleCloseRequest(id)
  <2>1. PICK id \in Trade : HandleCloseRequest(id)
    BY <1>3
  <2>2. UNCHANGED <<at, todo, positions, row>> /\ at # "down"
    BY <2>1 DEF HandleCloseRequest, loopVars, ramVars, dbVars
  <2>3. CASE id \in positions
    BY <2>1, <2>2, <2>3, SpawnTracked DEF HandleCloseRequest
  <2>4. CASE id \notin positions
    BY <2>1, <2>2, <2>4 DEF HandleCloseRequest, execVars, Tracked
  <2>5. QED
    BY <2>3, <2>4
<1>4. CASE \E id \in Trade : MonitorPosition(id)
  <2>1. /\ positions' \cup todo' \subseteq positions \cup todo /\ positions \subseteq positions'
        /\ at' # "down"
    BY <1>4, MonitorFrames
  <2>2. UNCHANGED <<pc, job, row, cancelled>> /\ at # "down"
    BY <1>4, MonitorFrames DEF execVars, dbVars, MonitorPosition, MonitorSkips, MonitorChecks
  <2>3. QED
    BY <2>1, <2>2 DEF Tracked
<1>5. CASE \E s \in Symbol : ReceiveTick(s)
  <2>1. /\ positions' \cup todo' \subseteq positions \cup todo /\ positions' = positions
        /\ at' # "down" /\ at # "down"
    BY <1>5 DEF ReceiveTick, ramVars
  <2>2. UNCHANGED <<pc, job, row, cancelled>>
    BY <1>5 DEF ReceiveTick, execVars, dbVars
  <2>3. QED
    BY <2>1, <2>2 DEF Tracked
<1>6. CASE LeaveLoop \/ ExpireProposals
  BY <1>6 DEF LeaveLoop, ExpireProposals, execVars, loopVars, ramVars, dbVars, Tracked
<1>7. CASE \E t \in Task : WorkerStep(t)
  BY <1>7, WorkerTracked
<1>8. CASE \E id \in Trade : \/ ProposalTimesOut(id) \/ TapClose(id) \/ SnoozeEnds(Pair(id))
                             \/ \E verdict \in Verdict : Tap(id, verdict)
  <2>1. UNCHANGED <<at, todo, positions, row, cancelled, pc, job>>
    BY <1>8 DEF ProposalTimesOut, TapClose, SnoozeEnds, Tap, execVars, loopVars, ramVars, dbVars
  <2>2. QED
    BY <2>1 DEF Tracked
<1>9. CASE CancelContext
  BY <1>9 DEF CancelContext, CutRequests, loopVars, Tracked
<1>10. CASE ExitProcess \/ Crash
  BY <1>10, GoneFrames DEF ProcessGone, Tracked
<1>11. CASE Restart
  <2>1. \A t \in Task : pc'[t] = "idle"
    BY <1>11 DEF Restart, IInv, Alone
  <2>2. todo' = {} /\ positions' = {id \in Trade : row[id] = "open"} /\ row' = row /\ at' # "down"
    BY <1>11 DEF Restart, Tracked, dbVars
  <2>3. QED
    BY <2>1, <2>2 DEF Tracked, Closing, Saving
<1>12. QED
  BY <1>1, <1>2, <1>3, <1>4, <1>5, <1>6, <1>7, <1>8, <1>9, <1>10, <1>11
     DEF Next, LoopStep, Environment

LEMMA TrackedStutter == ASSUME Tracked, UNCHANGED vars PROVE Tracked'
BY DEF vars, execVars, loopVars, ramVars, dbVars, Tracked

LEMMA TrackedInvariant == StoreWorks => (Spec => [](IInv /\ Tracked))
<1> SUFFICES ASSUME StoreWorks PROVE Spec => [](IInv /\ Tracked)
  OBVIOUS
<1>1. IInv /\ Tracked /\ [Next]_vars => (IInv /\ Tracked)'
  BY IStep, TrackedStep, TrackedStutter
<1>2. QED
  BY <1>1, IInit, TrackedInit, PTL DEF Spec

\* A row that says "open" is monitored or in the hands of a goroutine, as long as
\* the process runs and is not being shut down (strategy.go:41-70, 215-293).
THEOREM StrategyKeepsPositions == StoreWorks => (Spec => []OpenRowIsMonitored)
<1> SUFFICES ASSUME StoreWorks PROVE Spec => []OpenRowIsMonitored
  OBVIOUS
<1>1. IInv /\ Tracked => OpenRowIsMonitored
  BY DEF Tracked, OpenRowIsMonitored, Busy
<1>2. QED
  BY <1>1, TrackedInvariant, PTL

-----------------------------------------------------------------------------
(* The phases of a trade *)

LEMMA LifecycleStart == Init => Lifecycle!LifecycleInit
<1> SUFFICES ASSUME Init PROVE Lifecycle!LifecycleInit
  OBVIOUS
<1>1. \A id \in Trade : PhaseOf(id) = "new"
  BY NoTradeAssumption DEF Init, ExecInit, PhaseOf, Executing
<1>2. QED
  BY <1>1 DEF Init, Lifecycle!LifecycleInit

\* A pending trade has no past; one that is executed is neither pending nor on
\* record; both were given out.
LEMMA PhaseFacts ==
  ASSUME IInv, NEW id \in Trade
  PROVE  /\ id \in proposals => row[id] = "none" /\ ~Busy(id) /\ id \in used
         /\ Live(id) => id \notin proposals /\ id \in used
         /\ Executing(id) => Busy(id) /\ Live(id) /\ row[id] = "none"
         /\ row[id] \in {"none", "open", "closed"}
BY DEF IInv, LiveIsSettled, Live, Settled, Untouched, Fresh, Alone, Executing, Busy,
       TypeInv, DbTypes

\* The steps that record nothing, give no identifier out and start no execution.
LEMMA QuietPhase ==
  ASSUME IInv, NEW id \in Trade, row' = row, used' = used, proposals' \subseteq proposals,
         Executing(id)' => Executing(id)
  PROVE  PhaseOf(id)' \in Lifecycle!Successors(PhaseOf(id))
BY PhaseFacts DEF PhaseOf, Busy, Executing, Lifecycle!Successors

LEMMA SymbolCheckPhase ==
  ASSUME IInv, NEW id \in Trade, SymbolCheck
  PROVE  PhaseOf(id)' \in Lifecycle!Successors(PhaseOf(id))
<1>1. row' = row /\ pc' = pc /\ job' = job
  BY DEF SymbolCheck, execVars, dbVars
<1>2. Executing(id)' = Executing(id)
  BY <1>1 DEF Executing
<1>3. CASE proposals' = proposals /\ used' = used
  BY <1>1, <1>2, <1>3, QuietPhase
<1>4. CASE proposals' = proposals \cup {cur} /\ used' = used \cup {cur}
  <2>1. CASE id # cur
    BY <1>1, <1>2, <1>4, <2>1, PhaseFacts DEF PhaseOf, Busy, Executing, Lifecycle!Successors
  <2>2. CASE id = cur
    <3>1. id \notin used /\ id \notin proposals
      BY <2>2 DEF SymbolCheck, IInv, Fresh
    <3>2. row[id] = "none" /\ ~Executing(id)
      BY <3>1, PhaseFacts DEF Live, Untouched
    <3>3. PhaseOf(id) = "new" /\ PhaseOf(id)' = "pending"
      BY <1>1, <1>4, <2>2, <3>1, <3>2 DEF PhaseOf
    <3>4. QED
      BY <3>3 DEF Lifecycle!Successors
  <2>3. QED
    BY <2>1, <2>2
<1>5. QED
  BY <1>3, <1>4 DEF SymbolCheck

LEMMA ApprovePhase ==
  ASSUME IInv, NEW k \in Trade, Approve(k), NEW id \in Trade
  PROVE  PhaseOf(id)' \in Lifecycle!Successors(PhaseOf(id))
<1>1. PICK t \in Task : Spawn(t, k, "legA")
  BY DEF Approve
<1>2. /\ \A u \in Task : u # t => pc'[u] = pc[u] /\ job'[u] = job[u]
      /\ pc[t] = "idle" /\ pc'[t] = "legA" /\ job'[t] = k
  BY <1>1 DEF Spawn, Goto, IInv, TypeInv, ExecTypes
<1>3. row' = row /\ used' = used /\ proposals' = proposals \ {k} /\ k \in proposals
  BY DEF Approve, TakeApproval, dbVars, auxVars
<1>4. CASE id # k
  <2>1. Executing(id)' => Executing(id)
    BY <1>2, <1>4 DEF Executing
  <2>2. QED
    BY <1>3, <2>1, QuietPhase
<1>5. CASE id = k
  <2>1. PhaseOf(id) = "pending" /\ row[id] = "none"
    BY <1>3, <1>5, PhaseFacts DEF PhaseOf
  <2>2. Executing(id)'
    BY <1>2, <1>5 DEF Executing, Opening
  <2>3. PhaseOf(id)' = "executing"
    BY <1>3, <1>5, <2>1, <2>2 DEF PhaseOf
  <2>4. QED
    BY <2>1, <2>3 DEF Lifecycle!Successors
<1>6. QED
  BY <1>4, <1>5

LEMMA WorkerPhase ==
  ASSUME IInv, Tracked, NEW t \in Task, WorkerStep(t), NEW id \in Trade
  PROVE  PhaseOf(id)' \in Lifecycle!Successors(PhaseOf(id))
<1>1. /\ UNCHANGED <<proposals, used, at>>
      /\ pc[t] # "idle" /\ job[t] \in Trade
      /\ \A u \in Task : u # t => pc'[u] = pc[u] /\ job'[u] = job[u]
      /\ job'[t] \in {job[t], NoTrade}
      /\ \A k \in Trade : k # job[t] => row'[k] = row[k]
  BY WorkerFrames DEF IInv, loopVars, auxVars
<1>2. CASE id # job[t]
  <2>1. Executing(id)' <=> Executing(id)
    BY <1>1, <1>2, NoTradeAssumption DEF Executing
  <2>2. PhaseOf(id)' = PhaseOf(id)
    BY <1>1, <1>2, <2>1 DEF PhaseOf
  <2>3. QED
    BY <2>2, PhaseFacts DEF PhaseOf, Lifecycle!Successors
<1>3. CASE id = job[t]
\* What t did to the row, and whether it goes on executing.
  <2>1. \/ row'[id] = row[id]
        \/ pc[t] = "opened" /\ row'[id] = "open"
        \/ pc[t] = "saveClosed" /\ ~cancelled /\ row'[id] = "closed"
    <3>1. CASE SaveOpened(t) \/ SaveClosed(t)
      BY <1>3, <3>1 DEF SaveOpened, SaveClosed, SavePosition, Saves, IInv, TypeInv, DbTypes
    <3>2. CASE ~(SaveOpened(t) \/ SaveClosed(t))
      BY <3>2 DEF WorkerStep, Trading, Failed, SaveShortFill, SaveLongFill, InsertPosition,
                  RemovePosition, dbVars
    <3>3. QED
      BY <3>1, <3>2
  <2>2. pc'[t] \in Opening => pc[t] \in Opening
    <3>1. CASE Trading(t)
      <4>1. ExecTypes(PCs) /\ ExecStep(t)
        BY <3>1 DEF Trading, IInv, TypeInv
      <4>2. \/ pc[t] \in Opening /\ pc'[t] \in Opening
            \/ pc[t] \in Closing /\ pc'[t] \in Closing
        BY <4>1, ExecStepFrame
      <4>3. Closing \cap Opening = {}
        BY DEF Closing, Opening
      <4>4. QED
        BY <4>2, <4>3
    <3>2. CASE Finish(t) \/ \E to \in Saving : Advance(t, to)
      BY <3>2 DEF Finish, Advance, Goto, Saving, Opening, IInv, TypeInv, ExecTypes
    <3>3. QED
      BY <3>1, <3>2
         DEF WorkerStep, Failed, SaveOpened, SaveShortFill, SaveLongFill, InsertPosition,
             RemovePosition, SaveClosed, Saving
  <2>3. Executing(id) <=> pc[t] \in Opening
    BY <1>3 DEF Executing, IInv, Alone, PreInsert
  <2>4. Executing(id)' => pc'[t] \in Opening
    BY <1>1, <1>3 DEF Executing, IInv, Alone, PreInsert
  <2>5. Live(id) /\ at # "down"
    BY <1>1, <1>3 DEF Live, Untouched, Busy, IInv, Alone
  <2>6. pc[t] = "saveClosed" /\ ~cancelled => row[id] # "none"
    BY <1>3, <2>5 DEF Tracked, Saving
  <2>7. /\ pc[t] = "opened" => pc[t] \in Opening
        /\ pc[t] = "saveClosed" => pc[t] \notin Opening
    BY DEF Opening
  <2>8. QED
    BY <1>1, <2>1, <2>2, <2>3, <2>4, <2>5, <2>6, <2>7, PhaseFacts
       DEF PhaseOf, Lifecycle!Successors
<1>4. QED
  BY <1>2, <1>3

LEMMA PhaseStep ==
  ASSUME IInv, Tracked, Next, NEW id \in Trade
  PROVE  PhaseOf(id)' \in Lifecycle!Successors(PhaseOf(id))
<1>1. CASE SymbolCheck
  BY <1>1, SymbolCheckPhase
<1>2. CASE \E k \in Trade : Approve(k)
  BY <1>2, ApprovePhase
<1>3. CASE \E t \in Task : WorkerStep(t)
  BY <1>3, WorkerPhase
<1>4. SUFFICES ASSUME ~SymbolCheck, ~(\E k \in Trade : Approve(k)),
                      ~(\E t \in Task : WorkerStep(t))
               PROVE  /\ row' = row /\ used' = used /\ proposals' \subseteq proposals
                      /\ Executing(id)' => Executing(id)
  BY <1>1, <1>2, <1>3, <1>4, QuietPhase
<1>5. CASE ReceiveCandidate \/ PairCheck \/ CapCheck \/ SendProposal
  BY <1>5 DEF ReceiveCandidate, PairCheck, CapCheck, SendProposal, execVars, dbVars, ramVars,
              auxVars, Executing
<1>6. CASE HandleApproval
  <2>1. row' = row /\ used' = used /\ proposals' \subseteq proposals
    BY <1>6, ApprovalFrames DEF dbVars, auxVars
  <2>2. pc' = pc /\ job' = job
    BY <1>4, <1>6 DEF HandleApproval, UnknownProposal, Snooze, Reject, ApproveExpired, execVars
  <2>3. QED
    BY <2>1, <2>2 DEF Executing
<1>7. CASE \E k \in Trade : HandleCloseRequest(k)
  <2>1. PICK k \in Trade : HandleCloseRequest(k)
    BY <1>7
  <2>2. row' = row /\ used' = used /\ proposals' = proposals
    BY <2>1 DEF HandleCloseRequest, ramVars, dbVars, auxVars
  <2>3. \/ pc' = pc /\ job' = job
        \/ \E t \in Task : Spawn(t, k, "closeShort")
    BY <2>1 DEF HandleCloseRequest, execVars
  <2>4. ASSUME NEW t \in Task, Spawn(t, k, "closeShort")
        PROVE  Executing(id)' => Executing(id)
    <3>1. /\ \A u \in Task : u # t => pc'[u] = pc[u] /\ job'[u] = job[u]
          /\ pc'[t] = "closeShort"
      BY <2>4 DEF Spawn, Goto, IInv, TypeInv, ExecTypes
    <3>2. QED
      BY <3>1 DEF Executing, Opening
  <2>5. QED
    BY <2>2, <2>3, <2>4 DEF Executing
<1>8. CASE \E k \in Trade : MonitorPosition(k)
  BY <1>8, MonitorFrames DEF execVars, dbVars, auxVars, Executing
<1>9. CASE (\E s \in Symbol : ReceiveTick(s)) \/ LeaveLoop \/ ExpireProposals
  BY <1>9 DEF ReceiveTick, LeaveLoop, ExpireProposals, execVars, dbVars, ramVars, auxVars,
              Executing
<1>10. CASE \E k \in Trade : \/ ProposalTimesOut(k) \/ TapClose(k) \/ SnoozeEnds(Pair(k))
                             \/ \E verdict \in Verdict : Tap(k, verdict)
  <2>1. row' = row /\ used' = used /\ proposals' = proposals /\ pc' = pc /\ job' = job
    BY <1>10 DEF ProposalTimesOut, TapClose, SnoozeEnds, Tap, execVars, dbVars, ramVars, auxVars
  <2>2. QED
    BY <2>1 DEF Executing
<1>11. CASE CancelContext \/ Restart
  BY <1>11 DEF CancelContext, Restart, dbVars, ramVars, auxVars, Executing
<1>12. CASE ExitProcess \/ Crash
  <2>1. row' = row /\ used' = used /\ proposals' = {} /\ \A t \in Task : pc'[t] = "idle"
    BY <1>12, GoneFrames DEF ProcessGone, dbVars
  <2>2. QED
    BY <2>1 DEF Executing, Opening
<1>13. QED
  BY <1>4, <1>5, <1>6, <1>7, <1>8, <1>9, <1>10, <1>11, <1>12 DEF Next, LoopStep, Environment

\* Whoever is being executed had been approved before.
LEMMA ExecutingConsents ==
  ASSUME IInv, Next, NEW id \in Trade, PhaseOf(id)' = "executing"
  PROVE  id \in approved
<1>1. Executing(id)'
  <2>1. IInv'
    BY IStep
  <2>2. row'[id] \in {"none", "open", "closed"}
    BY <2>1 DEF IInv, TypeInv, DbTypes
  <2>3. QED
    BY <2>2 DEF PhaseOf
<1>2. Live(id)'
  BY <1>1 DEF Executing, Live, Untouched, Busy
<1>3. CASE Live(id)
  BY <1>3 DEF IInv, LiveIsSettled, Settled
<1>4. CASE Approve(id)
  BY <1>2, <1>4, LiveIsSettledStep
     DEF LiveIsSettled, Settled, Approve, TakeApproval, chatVars
<1>5. QED
  BY <1>2, <1>3, <1>4, LiveShrinks

\* Consent is never taken back.
LEMMA ConsentGrows ==
  ASSUME IInv, Next
  PROVE  approved \subseteq approved'
<1>1. CASE \E id \in Trade, verdict \in Verdict : Tap(id, verdict)
  BY <1>1 DEF Tap
<1>2. CASE ReceiveCandidate \/ PairCheck \/ CapCheck \/ SymbolCheck \/ SendProposal
  BY <1>2, CandidateFrames
<1>3. CASE HandleApproval
  BY <1>3, ApprovalFrames DEF chatVars
<1>4. CASE \E id \in Trade : HandleCloseRequest(id)
  BY <1>4 DEF HandleCloseRequest, chatVars
<1>5. CASE \E id \in Trade : MonitorPosition(id)
  BY <1>5, MonitorFrames
<1>6. CASE (\E s \in Symbol : ReceiveTick(s)) \/ LeaveLoop \/ ExpireProposals
  BY <1>6 DEF ReceiveTick, LeaveLoop, ExpireProposals, chatVars
<1>7. CASE \E t \in Task : WorkerStep(t)
  BY <1>7, WorkerFrames DEF IInv, chatVars
<1>8. CASE \E id \in Trade : ProposalTimesOut(id) \/ TapClose(id) \/ SnoozeEnds(Pair(id))
  BY <1>8 DEF ProposalTimesOut, TapClose, SnoozeEnds, chatVars
<1>9. CASE CancelContext \/ ExitProcess \/ Crash \/ Restart
  BY <1>9 DEF CancelContext, ExitProcess, Crash, Restart, ProcessGone, chatVars
<1>10. QED
  BY <1>1, <1>2, <1>3, <1>4, <1>5, <1>6, <1>7, <1>8, <1>9 DEF Next, LoopStep, Environment

LEMMA LifecycleStep ==
  ASSUME StoreWorks, IInv, Tracked, [Next]_vars
  PROVE  [Lifecycle!LifecycleNext]_<<[id \in Trade |-> PhaseOf(id)], approved>>
<1>1. CASE UNCHANGED vars
  <2>1. UNCHANGED <<row, proposals, used, approved, pc, job>>
    BY <1>1 DEF vars, execVars, ramVars, dbVars, chatVars, auxVars
  <2>2. \A id \in Trade : PhaseOf(id)' = PhaseOf(id)
    BY <2>1 DEF PhaseOf, Executing
  <2>3. QED
    BY <2>1, <2>2
<1>2. CASE Next
  <2>1. \A id \in Trade : PhaseOf(id)' \in Lifecycle!Successors(PhaseOf(id))
    BY <1>2, PhaseStep
  <2>2. \A id \in Trade : PhaseOf(id)' = "executing" => id \in approved
    BY <1>2, ExecutingConsents
  <2>3. approved \subseteq approved' /\ approved' \subseteq Trade
    <3>1. IInv'
      BY <1>2, IStep
    <3>2. QED
      BY <1>2, <3>1, ConsentGrows DEF IInv, TypeInv, ChatTypes
  <2>4. \A id \in Trade : PhaseOf(id)' \in Lifecycle!Phase
    BY <2>1 DEF Lifecycle!Successors, Lifecycle!Phase
  <2>5. QED
    BY <2>1, <2>2, <2>3, <2>4 DEF Lifecycle!LifecycleNext
<1>3. QED
  BY <1>1, <1>2

\* With a database that works, the positions table, the proposals and the goroutines
\* walk every trade through the life the user expects: only approved proposals are
\* executed, and nothing void or closed comes back, whatever crashes or is tapped
\* again (strategy.go:41-70, 129-293).
THEOREM StrategyImplementsLifecycle == StoreWorks => (Spec => ImplementsLifecycle)
<1> SUFFICES ASSUME StoreWorks PROVE Spec => ImplementsLifecycle
  OBVIOUS
<1>1. IInv /\ Tracked /\ [Next]_vars
        => [Lifecycle!LifecycleNext]_<<[id \in Trade |-> PhaseOf(id)], approved>>
  BY LifecycleStep
<1>2. QED
  BY <1>1, LifecycleStart, TrackedInvariant, PTL
     DEF Spec, ImplementsLifecycle, Lifecycle!LifecycleSpec

=============================================================================
