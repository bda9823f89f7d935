--------------------------- MODULE StrategyProofs ---------------------------
(***************************************************************************)
(* Proofs about Strategy, for any number of trades, goroutines, venues,    *)
(* shutdowns and crashes, any channel capacity and any caps: its types;    *)
(* that a trade is executed at most once, only with approval, and never    *)
(* after it expired.                                                       *)
(***************************************************************************)
EXTENDS Strategy, ExecutorProofs

PCs == {"idle"} \cup Opening \cup Closing \cup Saving

Pairs == [symbol : Symbol, short : Venue, long : Venue]
Taps == [trade : Trade, verdict : Verdict]

\* TypeOK, one conjunct per group of variables.
LoopTypes ==
  /\ at \in LoopStates
  /\ cur \in Trade \cup {NoTrade}
  /\ todo \subseteq Trade
  /\ at \in {"pairCheck", "capCheck", "symbolCheck", "send"} => cur \in Trade
RamTypes ==
  /\ proposals \subseteq Trade
  /\ positions \subseteq Trade
  /\ snoozed \subseteq Pairs
DbTypes ==
  /\ row \in [Trade -> {"none", "open", "closed"}]
  /\ ledger \in [Trade -> [Leg -> Int]]
  /\ interrupted \subseteq Trade
ChanTypes ==
  /\ approvalCh \in Seq(Taps) /\ Len(approvalCh) <= ChanCap
  /\ closeCh \in Seq(Trade) /\ Len(closeCh) <= ChanCap
ChatTypes == shown \subseteq Trade /\ alerted \subseteq Trade /\ approved \subseteq Trade
AuxTypes ==
  /\ used \subseteq Trade
  /\ expired \subseteq Trade
  /\ shutdowns \in 0 .. MaxShutdowns
  /\ crashes \in 0 .. MaxCrashes
  /\ closeTaps \in 0 .. MaxCloseTaps

\* A goroutine works on a trade exactly when it is not idle.
Working == \A t \in Task : pc[t] = "idle" <=> job[t] = NoTrade

TypeInv ==
  /\ ExecTypes(PCs) /\ Working
  /\ LoopTypes /\ RamTypes /\ DbTypes /\ ChanTypes /\ ChatTypes /\ AuxTypes

LEMMA TypeInvImpliesTypeOK == TypeInv => TypeOK
<1> SUFFICES ASSUME TypeInv PROVE TypeOK
  OBVIOUS
<1>1. /\ venues \in Modes /\ cancelled \in BOOLEAN /\ inFlight \subseteq Task
      /\ pc \in [Task -> {"idle"} \cup Opening \cup Closing \cup Saving]
      /\ job \in [Task -> Trade \cup {NoTrade}]
      /\ fill \in [Task -> [Leg -> Int]]
      /\ held \in [Trade -> [Leg -> Int]]
      /\ net \in [Venue -> [Symbol -> Int]]
      /\ alarms \subseteq Trade \X Leg /\ misled \subseteq Trade \X Leg
  BY DEF TypeInv, ExecTypes, PCs
<1>2. /\ at \in LoopStates /\ cur \in Trade \cup {NoTrade} /\ todo \subseteq Trade
      /\ proposals \subseteq Trade /\ positions \subseteq Trade
      /\ snoozed \subseteq [symbol : Symbol, short : Venue, long : Venue]
  BY DEF TypeInv, LoopTypes, RamTypes, Pairs
<1>3. /\ row \in [Trade -> {"none", "open", "closed"}] /\ ledger \in [Trade -> [Leg -> Int]]
      /\ interrupted \subseteq Trade
      /\ approvalCh \in Seq([trade : Trade, verdict : Verdict]) /\ Len(approvalCh) <= ChanCap
      /\ closeCh \in Seq(Trade) /\ Len(closeCh) <= ChanCap
  BY DEF TypeInv, DbTypes, ChanTypes, Taps
<1>4. /\ shown \subseteq Trade /\ alerted \subseteq Trade /\ approved \subseteq Trade
      /\ used \subseteq Trade /\ expired \subseteq Trade
      /\ shutdowns \in 0 .. MaxShutdowns /\ crashes \in 0 .. MaxCrashes
      /\ closeTaps \in 0 .. MaxCloseTaps
  BY DEF TypeInv, ChatTypes, AuxTypes
<1>5. QED
  BY <1>1, <1>2, <1>3, <1>4 DEF TypeOK

LEMMA TypeInit == Init => TypeInv
<1> SUFFICES ASSUME Init PROVE TypeInv
  OBVIOUS
<1>1. ExecTypes(PCs) /\ Working
  BY ExecInitType DEF Init, ExecInit, Working, PCs
<1>2. LoopTypes /\ RamTypes
  BY DEF Init, LoopTypes, RamTypes, LoopStates
<1>3. DbTypes
  BY NoFillType DEF Init, DbTypes
<1>4. ChanTypes
  BY CapsAssumption DEF Init, ChanTypes
<1>5. ChatTypes /\ AuxTypes
  BY CapsAssumption DEF Init, ChatTypes, AuxTypes
<1>6. QED
  BY <1>1, <1>2, <1>3, <1>4, <1>5 DEF TypeInv

LEMMA PairType ==
  ASSUME NEW id \in Trade
  PROVE  Pair(id) \in Pairs
BY CandidateAssumption DEF Pair, Pairs

\* What a step leaves alone keeps its type.
LEMMA Frames ==
  ASSUME TypeInv
  PROVE  /\ UNCHANGED execVars => (ExecTypes(PCs) /\ Working)'
         /\ UNCHANGED loopVars => LoopTypes'
         /\ UNCHANGED ramVars => RamTypes'
         /\ UNCHANGED dbVars => DbTypes'
         /\ UNCHANGED chanVars => ChanTypes'
         /\ UNCHANGED chatVars => ChatTypes'
         /\ UNCHANGED auxVars => AuxTypes'
<1>1. UNCHANGED execVars => (ExecTypes(PCs) /\ Working)'
  BY DEF TypeInv, execVars, ExecTypes, Working, PCs
<1>2. UNCHANGED loopVars => LoopTypes'
  BY DEF TypeInv, loopVars, LoopTypes
<1>3. UNCHANGED ramVars => RamTypes'
  BY DEF TypeInv, ramVars, RamTypes
<1>4. UNCHANGED dbVars => DbTypes'
  BY DEF TypeInv, dbVars, DbTypes
<1>5. UNCHANGED chanVars => ChanTypes'
  BY DEF TypeInv, chanVars, ChanTypes
<1>6. UNCHANGED chatVars => ChatTypes'
  BY DEF TypeInv, chatVars, ChatTypes
<1>7. UNCHANGED auxVars => AuxTypes'
  BY DEF TypeInv, auxVars, AuxTypes
<1>8. QED
  BY <1>1, <1>2, <1>3, <1>4, <1>5, <1>6, <1>7

-----------------------------------------------------------------------------
(* Types: the loop *)

LEMMA SpawnType ==
  ASSUME TypeInv, NEW t \in Task, NEW id \in Trade, NEW entry \in {"legA", "closeShort"},
         Spawn(t, id, entry)
  PROVE  ExecTypes(PCs)' /\ Working'
<1>1. entry \in PCs /\ entry # "idle"
  BY DEF PCs, Opening, Closing
<1>2. ExecTypes(PCs)'
  BY <1>1, NoFillType DEF TypeInv, ExecTypes, Spawn, Goto
<1>3. Working'
  BY <1>1, NoTradeAssumption DEF TypeInv, ExecTypes, Working, Spawn, Goto
<1>4. QED
  BY <1>2, <1>3

LEMMA CandidateType ==
  ASSUME TypeInv, ReceiveCandidate \/ PairCheck \/ CapCheck \/ SymbolCheck \/ SendProposal
  PROVE  TypeInv'
<1>0. UNCHANGED <<execVars, dbVars, chanVars>>
  BY DEF ReceiveCandidate, PairCheck, CapCheck, SymbolCheck, SendProposal
<1>1. LoopTypes'
  <2> USE DEF TypeInv, LoopTypes, LoopStates, Drop
  <2>1. CASE ReceiveCandidate
    BY <2>1 DEF ReceiveCandidate
  <2>2. CASE PairCheck \/ CapCheck
    BY <2>2 DEF PairCheck, CapCheck
  <2>3. CASE SymbolCheck
    BY <2>3 DEF SymbolCheck
  <2>4. CASE SendProposal
    BY <2>4 DEF SendProposal
  <2>5. QED
    BY <2>1, <2>2, <2>3, <2>4
<1>2. CASE ReceiveCandidate \/ PairCheck \/ CapCheck
  BY <1>0, <1>1, <1>2, Frames DEF ReceiveCandidate, PairCheck, CapCheck, TypeInv
<1>3. CASE SymbolCheck
  <2>1. cur \in Trade
    BY <1>3 DEF SymbolCheck, TypeInv, LoopTypes
  <2>2. RamTypes' /\ AuxTypes'
    BY <1>3, <2>1 DEF SymbolCheck, TypeInv, RamTypes, AuxTypes
  <2>3. UNCHANGED chatVars
    BY <1>3 DEF SymbolCheck
  <2>4. QED
    BY <1>0, <1>1, <2>2, <2>3, Frames DEF TypeInv
<1>4. CASE SendProposal
  <2>1. cur \in Trade
    BY <1>4 DEF SendProposal, TypeInv, LoopTypes
  <2>2. RamTypes' /\ ChatTypes'
    BY <1>4, <2>1 DEF SendProposal, TypeInv, RamTypes, ChatTypes
  <2>3. UNCHANGED auxVars
    BY <1>4 DEF SendProposal
  <2>4. QED
    BY <1>0, <1>1, <2>2, <2>3, Frames DEF TypeInv
<1>5. QED
  BY <1>2, <1>3, <1>4

LEMMA TakeApprovalType ==
  ASSUME TypeInv, NEW id \in Trade, NEW verdict \in Verdict, TakeApproval(id, verdict)
  PROVE  /\ LoopTypes' /\ DbTypes' /\ ChanTypes' /\ ChatTypes' /\ AuxTypes'
         /\ UNCHANGED <<loopVars, positions, dbVars, closeCh, chatVars, auxVars>>
<1>1. UNCHANGED <<loopVars, positions, dbVars, closeCh, chatVars, auxVars>>
  BY DEF TakeApproval
<1>2. ChanTypes'
  <2>1. approvalCh \in Seq(Taps) /\ approvalCh # <<>> /\ approvalCh' = Tail(approvalCh)
    BY DEF TakeApproval, TypeInv, ChanTypes
  <2>2. approvalCh' \in Seq(Taps) /\ Len(approvalCh') = Len(approvalCh) - 1
    BY <2>1
  <2>3. Len(approvalCh') <= ChanCap
    BY <2>1, <2>2, CapsAssumption DEF TypeInv, ChanTypes
  <2>4. QED
    BY <1>1, <2>2, <2>3 DEF TypeInv, ChanTypes
<1>3. QED
  BY <1>1, <1>2, Frames

LEMMA HandleApprovalType ==
  ASSUME TypeInv, HandleApproval
  PROVE  TypeInv'
<1>1. PICK id \in Trade :
        UnknownProposal(id) \/ Snooze(id) \/ Reject(id) \/ ApproveExpired(id) \/ Approve(id)
  BY DEF HandleApproval
<1>2. PICK verdict \in Verdict : TakeApproval(id, verdict)
  BY <1>1 DEF UnknownProposal, Snooze, Reject, ApproveExpired, Approve, Verdict
<1>3. UNCHANGED positions
  BY <1>2 DEF TakeApproval
<1>4. RamTypes'
  BY <1>1, <1>3, PairType
     DEF TypeInv, RamTypes, UnknownProposal, Snooze, Reject, ApproveExpired, Approve
<1>5. ExecTypes(PCs)' /\ Working'
  <2>1. CASE Approve(id)
    BY <2>1, SpawnType DEF Approve
  <2>2. CASE ~Approve(id)
    BY <1>1, <2>2, Frames DEF UnknownProposal, Snooze, Reject, ApproveExpired
  <2>3. QED
    BY <2>1, <2>2
<1>6. QED
  BY <1>2, <1>4, <1>5, TakeApprovalType DEF TypeInv

LEMMA HandleCloseRequestType ==
  ASSUME TypeInv, NEW id \in Trade, HandleCloseRequest(id)
  PROVE  TypeInv'
<1>1. UNCHANGED <<loopVars, ramVars, dbVars, approvalCh, chatVars, auxVars>>
  BY DEF HandleCloseRequest
<1>2. ChanTypes'
  <2>1. closeCh \in Seq(Trade) /\ closeCh # <<>> /\ closeCh' = Tail(closeCh)
    BY DEF HandleCloseRequest, TypeInv, ChanTypes
  <2>2. closeCh' \in Seq(Trade) /\ Len(closeCh') = Len(closeCh) - 1
    BY <2>1
  <2>3. Len(closeCh') <= ChanCap
    BY <2>1, <2>2, CapsAssumption DEF TypeInv, ChanTypes
  <2>4. QED
    BY <1>1, <2>2, <2>3 DEF TypeInv, ChanTypes
<1>3. ExecTypes(PCs)' /\ Working'
  <2>1. CASE id \in positions
    BY <2>1, SpawnType DEF HandleCloseRequest
  <2>2. CASE id \notin positions
    BY <2>2, Frames DEF HandleCloseRequest
  <2>3. QED
    BY <2>1, <2>2
<1>4. QED
  BY <1>1, <1>2, <1>3, Frames DEF TypeInv

LEMMA MonitorType ==
  ASSUME TypeInv,
         \/ \E s \in Symbol : ReceiveTick(s)
         \/ \E id \in Trade : MonitorPosition(id)
  PROVE  TypeInv'
<1>1. CASE \E s \in Symbol : ReceiveTick(s)
  <2>1. LoopTypes'
    BY <1>1 DEF ReceiveTick, TypeInv, LoopTypes, RamTypes, LoopStates
  <2>2. UNCHANGED <<execVars, ramVars, dbVars, chanVars, chatVars, auxVars>>
    BY <1>1 DEF ReceiveTick
  <2>3. QED
    BY <2>1, <2>2, Frames DEF TypeInv
<1>2. CASE \E id \in Trade : MonitorPosition(id)
  <2>1. PICK id \in Trade : MonitorPosition(id)
    BY <1>2
  <2>2. /\ UNCHANGED <<execVars, dbVars, chanVars, auxVars>>
        /\ Monitored(id)
        /\ alerted' \in {alerted, alerted \cup {id}}
        /\ positions' \in {positions, positions \cup {id}}
    BY <2>1 DEF MonitorPosition, MonitorSkips, MonitorChecks, Monitored, dbVars
  <2>3. LoopTypes'
    BY <2>2 DEF Monitored, TypeInv, LoopTypes, LoopStates
  <2>4. RamTypes' /\ ChatTypes'
    BY <2>2 DEF Monitored, TypeInv, RamTypes, ChatTypes
  <2>5. QED
    BY <2>2, <2>3, <2>4, Frames DEF TypeInv
<1>3. QED
  BY <1>1, <1>2

-----------------------------------------------------------------------------
(* Types: the goroutines *)

LEMMA FinishType ==
  ASSUME TypeInv, NEW t \in Task, Finish(t)
  PROVE  ExecTypes(PCs)' /\ Working'
<1>1. "idle" \in PCs
  BY DEF PCs
<1>2. ExecTypes(PCs)'
  BY <1>1, NoFillType DEF TypeInv, ExecTypes, Finish, Goto
<1>3. Working'
  BY NoTradeAssumption DEF TypeInv, ExecTypes, Working, Finish, Goto
<1>4. QED
  BY <1>2, <1>3

LEMMA AdvanceType ==
  ASSUME TypeInv, NEW t \in Task, pc[t] # "idle", NEW to \in Saving, Advance(t, to)
  PROVE  ExecTypes(PCs)' /\ Working'
<1>1. to \in PCs /\ to # "idle"
  BY DEF PCs, Saving
<1>2. ExecTypes(PCs)'
  BY <1>1 DEF TypeInv, ExecTypes, Advance, Goto
<1>3. Working'
  BY <1>1 DEF TypeInv, ExecTypes, Working, Advance, Goto
<1>4. QED
  BY <1>2, <1>3

LEMMA SavePositionType ==
  ASSUME TypeInv, NEW id \in Trade, NEW status \in {"open", "closed"}, SavePosition(id, status)
  PROVE  row' \in [Trade -> {"none", "open", "closed"}]
BY DEF TypeInv, DbTypes, SavePosition

LEMMA RecordedType ==
  ASSUME TypeInv, NEW t \in Task, job[t] \in Trade, NEW leg \in Leg, Recorded(t, leg)
  PROVE  ledger' \in [Trade -> [Leg -> Int]]
<1>1. ledger[job[t]] \in [Leg -> Int] /\ fill[t][leg] \in Int
  BY DEF TypeInv, DbTypes, ExecTypes
<1>2. [ledger[job[t]] EXCEPT ![leg] = @ + fill[t][leg]] \in [Leg -> Int]
  BY <1>1
<1>3. QED
  BY <1>2 DEF TypeInv, DbTypes, Recorded

LEMMA TradingType ==
  ASSUME TypeInv, NEW t \in Task, Trading(t)
  PROVE  TypeInv'
<1>1. ExecTypes(PCs) /\ Opening \cup Closing \subseteq PCs
  BY DEF TypeInv, PCs
<1>2. /\ job' = job
      /\ \A u \in Task : u # t => pc'[u] = pc[u]
      /\ pc[t] # "idle" /\ pc'[t] # "idle"
  BY <1>1, ExecStepFrame DEF Trading, Opening, Closing
<1>3. job[t] \in Trade
  BY <1>1, <1>2 DEF TypeInv, Working, ExecTypes
<1>4. ExecTypes(PCs)'
  BY <1>1, <1>3, ExecStepType DEF Trading
<1>5. Working'
  BY <1>2 DEF TypeInv, Working
<1>6. UNCHANGED <<loopVars, ramVars, dbVars, chanVars, chatVars, auxVars>>
  BY DEF Trading
<1>7. QED
  BY <1>4, <1>5, <1>6, Frames DEF TypeInv

LEMMA WorkerType ==
  ASSUME TypeInv, NEW t \in Task, WorkerStep(t)
  PROVE  TypeInv'
<1>1. CASE Trading(t)
  BY <1>1, TradingType
<1>2. CASE ~Trading(t)
  <2>1. UNCHANGED <<loopVars, chanVars, chatVars, auxVars, proposals, snoozed>>
    BY <1>2 DEF WorkerStep, Failed, SaveOpened, SaveShortFill, SaveLongFill, InsertPosition,
                RemovePosition, SaveClosed, WorkerFrame
  <2>2. pc[t] # "idle" /\ job[t] \in Trade
    BY <1>2 DEF WorkerStep, Failed, SaveOpened, SaveShortFill, SaveLongFill, InsertPosition,
                RemovePosition, SaveClosed, TypeInv, Working, ExecTypes
  <2>3. positions' \in {positions, positions \cup {job[t]}, positions \ {job[t]}}
    BY <1>2 DEF WorkerStep, Failed, SaveOpened, SaveShortFill, SaveLongFill, InsertPosition,
                RemovePosition, SaveClosed
  <2>4. RamTypes'
    BY <2>1, <2>2, <2>3 DEF TypeInv, RamTypes
  <2>5. DbTypes'
    <3>1. CASE SaveOpened(t)
      BY <2>2, <3>1, SavePositionType DEF SaveOpened, TypeInv, DbTypes
    <3>2. CASE SaveClosed(t)
      BY <2>2, <3>2, SavePositionType DEF SaveClosed, TypeInv, DbTypes
    <3>3. CASE SaveShortFill(t)
      BY <2>2, <3>3, RecordedType DEF SaveShortFill, TypeInv, DbTypes, Leg
    <3>4. CASE SaveLongFill(t)
      BY <2>2, <3>4, RecordedType DEF SaveLongFill, TypeInv, DbTypes, Leg
    <3>5. CASE Failed(t) \/ InsertPosition(t) \/ RemovePosition(t)
      BY <3>5, Frames DEF Failed, InsertPosition, RemovePosition
    <3>6. QED
      BY <1>2, <3>1, <3>2, <3>3, <3>4, <3>5 DEF WorkerStep
  <2>6. ExecTypes(PCs)' /\ Working'
    <3>1. CASE Finish(t)
      BY <3>1, FinishType
    <3>2. CASE \E to \in Saving : Advance(t, to)
      BY <2>2, <3>2, AdvanceType
    <3>3. QED
      BY <1>2, <3>1, <3>2
         DEF WorkerStep, Failed, SaveOpened, SaveShortFill, SaveLongFill, InsertPosition,
             RemovePosition, SaveClosed, Saving
  <2>7. QED
    BY <2>1, <2>4, <2>5, <2>6, Frames DEF TypeInv
<1>3. QED
  BY <1>1, <1>2

-----------------------------------------------------------------------------
(* Types: time, the user, shutdown and restart *)

LEMMA TapType ==
  ASSUME TypeInv, NEW id \in Trade,
         (\E verdict \in Verdict : Tap(id, verdict)) \/ TapClose(id)
  PROVE  TypeInv'
<1>1. CASE \E verdict \in Verdict : Tap(id, verdict)
  <2>1. PICK verdict \in Verdict : Tap(id, verdict)
    BY <1>1
  <2>2. UNCHANGED <<execVars, loopVars, ramVars, dbVars, closeCh, auxVars>>
    BY <2>1 DEF Tap
  <2>3. [trade |-> id, verdict |-> verdict] \in Taps
    BY DEF Taps
  <2>4. ChanTypes'
    BY <2>1, <2>2, <2>3, CapsAssumption DEF Tap, TypeInv, ChanTypes
  <2>5. ChatTypes'
    BY <2>1 DEF Tap, TypeInv, ChatTypes
  <2>6. QED
    BY <2>2, <2>4, <2>5, Frames DEF TypeInv
<1>2. CASE TapClose(id)
  <2>1. UNCHANGED <<execVars, loopVars, ramVars, dbVars, approvalCh, chatVars>>
    BY <1>2 DEF TapClose
  <2>2. ChanTypes'
    BY <1>2, CapsAssumption DEF TapClose, TypeInv, ChanTypes
  <2>3. AuxTypes'
    BY <1>2, CapsAssumption DEF TapClose, TypeInv, AuxTypes
  <2>4. QED
    BY <2>1, <2>2, <2>3, Frames DEF TypeInv
<1>3. QED
  BY <1>1, <1>2

LEMMA ProcessGoneType ==
  ASSUME TypeInv, ProcessGone, crashes' \in 0 .. MaxCrashes
  PROVE  TypeInv'
<1>1. ExecTypes(PCs)' /\ Working'
  BY NoFillType, NoTradeAssumption DEF ProcessGone, TypeInv, ExecTypes, Working, PCs
<1>2. LoopTypes' /\ RamTypes'
  BY DEF ProcessGone, LoopTypes, RamTypes, LoopStates
<1>3. ChanTypes'
  BY CapsAssumption DEF ProcessGone, ChanTypes
<1>4. AuxTypes'
  BY DEF ProcessGone, TypeInv, AuxTypes
<1>5. DbTypes' /\ UNCHANGED chatVars
  <2>1. \A t \in Task : pc[t] \in Opening => job[t] \in Trade
    BY DEF TypeInv, ExecTypes, Working, Opening
  <2>2. interrupted' \subseteq Trade
    BY <2>1 DEF ProcessGone, TypeInv, DbTypes
  <2>3. QED
    BY <2>2 DEF ProcessGone, TypeInv, DbTypes
<1>6. QED
  BY <1>1, <1>2, <1>3, <1>4, <1>5, Frames DEF TypeInv

LEMMA EnvironmentType ==
  ASSUME TypeInv, Environment \/ ExpireProposals \/ LeaveLoop
  PROVE  TypeInv'
<1>1. ASSUME NEW id \in Trade, ProposalTimesOut(id)
      PROVE  TypeInv'
  BY <1>1, Frames DEF ProposalTimesOut, TypeInv, RamTypes, AuxTypes
<1>2. ASSUME NEW id \in Trade, SnoozeEnds(Pair(id))
      PROVE  TypeInv'
  BY <1>2, Frames DEF SnoozeEnds, TypeInv, RamTypes
<1>3. CASE ExpireProposals
  BY <1>3, Frames DEF ExpireProposals, TypeInv, RamTypes
<1>4. CASE LeaveLoop
  <2>1. LoopTypes'
    BY <1>4 DEF LeaveLoop, TypeInv, LoopTypes, LoopStates
  <2>2. QED
    BY <1>4, <2>1, Frames DEF LeaveLoop, TypeInv
<1>5. CASE CancelContext
  <2>1. ExecTypes(PCs)' /\ Working' /\ AuxTypes'
    BY <1>5, CapsAssumption DEF CancelContext, CutRequests, Cuttable, TypeInv, ExecTypes, Working, AuxTypes
  <2>2. QED
    BY <1>5, <2>1, Frames DEF CancelContext, TypeInv
<1>6. CASE ExitProcess
  BY <1>6, ProcessGoneType DEF ExitProcess, TypeInv, AuxTypes
<1>7. CASE Crash
  BY <1>7, ProcessGoneType, CapsAssumption DEF Crash, TypeInv, AuxTypes
<1>8. CASE Restart
  <2>1. ExecTypes(PCs)' /\ Working'
    BY <1>8 DEF Restart, TypeInv, ExecTypes, Working
  <2>2. LoopTypes' /\ RamTypes'
    BY <1>8 DEF Restart, TypeInv, LoopTypes, RamTypes, LoopStates
  <2>3. QED
    BY <1>8, <2>1, <2>2, Frames DEF Restart, TypeInv
<1>9. QED
  BY <1>1, <1>2, <1>3, <1>4, <1>5, <1>6, <1>7, <1>8, TapType DEF Environment

LEMMA TypeStep == TypeInv /\ [Next]_vars => TypeInv'
<1> SUFFICES ASSUME TypeInv, [Next]_vars
             PROVE  TypeInv'
  OBVIOUS
<1>1. CASE LoopStep
  BY <1>1, CandidateType, HandleApprovalType, HandleCloseRequestType, MonitorType, EnvironmentType
     DEF LoopStep
<1>2. CASE UNCHANGED vars
  BY <1>2, Frames DEF vars, TypeInv
<1>3. QED
  BY <1>1, <1>2, WorkerType, EnvironmentType DEF Next

\* Every variable stays in its domain, and both channels within their capacity.
THEOREM StrategyTypeCorrect == Spec => []TypeOK
BY TypeInit, TypeStep, TypeInvImpliesTypeOK, PTL DEF Spec

-----------------------------------------------------------------------------
(* A trade is executed at most once, only with approval, never after it expired. *)
(* None of the three is inductive.  The invariant that is, IInv, follows an      *)
(* identifier through its life: fresh, pending, settled by an approval in time,  *)
(* owned by one goroutine until it is a position, and closed.                    *)

\* Given out, approved, no longer pending and not expired.
Settled == (used \cap approved) \ (proposals \cup expired)

\* Something happened or may still happen for the trade.
Live(id) == ~Untouched(id) \/ id \in positions \cup todo

\* Pending and expired proposals were given out; the one about to be made was not.
Fresh ==
  /\ proposals \subseteq used
  /\ expired \subseteq used
  /\ at \in {"pairCheck", "capCheck", "symbolCheck"} => cur \notin used

\* Every approval on its way was tapped by the user.
Tapped ==
  \A i \in 1 .. Len(approvalCh) :
    approvalCh[i].verdict = "approve" => approvalCh[i].trade \in approved

LiveIsSettled == \A id \in Trade : Live(id) => id \in Settled

\* From Open until the position is inserted, a goroutine has its trade to itself.
PreInsert == Opening \cup {"fillShort", "fillLong", "insert"}

Alone ==
  /\ at = "down" => \A t \in Task : pc[t] = "idle"
  /\ \A t \in Task :
       pc[t] \in PreInsert =>
         /\ \A u \in Task : job[u] = job[t] => u = t
         /\ job[t] \notin positions \cup todo
  /\ \A t \in Task : pc[t] \in Opening => row[job[t]] = "none"

IInv == TypeInv /\ Fresh /\ Tapped /\ LiveIsSettled /\ Alone

LEMMA IInit == Init => IInv
<1> SUFFICES ASSUME Init PROVE IInv
  OBVIOUS
<1>1. TypeInv
  BY TypeInit
<1>2. Fresh /\ Tapped
  BY DEF Init, Fresh, Tapped
<1>3. \A id \in Trade : ~Live(id)
  BY NoTradeAssumption DEF Init, ExecInit, Live, Untouched, Busy
<1>4. Alone
  BY DEF Init, ExecInit, Alone, PreInsert, Opening
<1>5. QED
  BY <1>1, <1>2, <1>3, <1>4 DEF IInv, LiveIsSettled

-----------------------------------------------------------------------------
(* What the groups of actions leave alone *)

LEMMA WorkerFrames ==
  ASSUME TypeInv, NEW t \in Task, WorkerStep(t)
  PROVE  /\ UNCHANGED <<loopVars, proposals, snoozed, chanVars, chatVars, auxVars>>
         /\ pc[t] # "idle" /\ job[t] \in Trade
         /\ \A u \in Task : u # t => pc'[u] = pc[u] /\ job'[u] = job[u]
         /\ job'[t] \in {job[t], NoTrade}
         /\ \A id \in Trade : id # job[t] => held'[id] = held[id] /\ row'[id] = row[id]
         /\ positions' \in {positions, positions \cup {job[t]}, positions \ {job[t]}}
<1>1. CASE Trading(t)
  <2>1. ExecTypes(PCs)
    BY DEF TypeInv
  <2>2. /\ UNCHANGED <<loopVars, ramVars, dbVars, chanVars, chatVars, auxVars>>
        /\ ExecStep(t)
    BY <1>1 DEF Trading
  <2>3. /\ job' = job
        /\ \A u \in Task : u # t => pc'[u] = pc[u]
        /\ pc[t] \in Opening \cup Closing
        /\ \A id \in Trade : id # job[t] => held'[id] = held[id]
    BY <2>1, <2>2, ExecStepFrame
  <2>4. job[t] \in Trade /\ pc[t] # "idle"
    BY <2>3 DEF TypeInv, ExecTypes, Working, Opening, Closing
  <2>5. QED
    BY <2>2, <2>3, <2>4 DEF ramVars, dbVars
<1>2. CASE ~Trading(t)
  <2>1. UNCHANGED <<loopVars, proposals, snoozed, chanVars, chatVars, auxVars, held>>
    BY <1>2 DEF WorkerStep, Failed, SaveOpened, SaveShortFill, SaveLongFill, InsertPosition,
                RemovePosition, SaveClosed, WorkerFrame, Finish, Advance
  <2>2. pc[t] # "idle" /\ job[t] \in Trade
    BY <1>2 DEF WorkerStep, Failed, SaveOpened, SaveShortFill, SaveLongFill, InsertPosition,
                RemovePosition, SaveClosed, TypeInv, Working, ExecTypes
  <2>3. positions' \in {positions, positions \cup {job[t]}, positions \ {job[t]}}
    BY <1>2 DEF WorkerStep, Failed, SaveOpened, SaveShortFill, SaveLongFill, InsertPosition,
                RemovePosition, SaveClosed
  <2>4. Finish(t) \/ \E to \in Saving : Advance(t, to)
    BY <1>2 DEF WorkerStep, Failed, SaveOpened, SaveShortFill, SaveLongFill, InsertPosition,
                RemovePosition, SaveClosed, Saving
  <2>5. /\ \A u \in Task : u # t => pc'[u] = pc[u] /\ job'[u] = job[u]
        /\ job'[t] \in {job[t], NoTrade}
    BY <2>4 DEF Finish, Advance, Goto, TypeInv, ExecTypes
  <2>6. row' = row \/ \E status : row' = [row EXCEPT ![job[t]] = status]
    BY <1>2 DEF WorkerStep, Failed, SaveOpened, SaveShortFill, SaveLongFill, InsertPosition,
                RemovePosition, SaveClosed, SavePosition, dbVars
  <2>7. \A id \in Trade : id # job[t] => row'[id] = row[id]
    BY <2>6 DEF TypeInv, DbTypes
  <2>8. QED
    BY <2>1, <2>2, <2>3, <2>5, <2>7
<1>3. QED
  BY <1>1, <1>2

\* Steps of the loop that neither spawn a goroutine nor look at positions.
LEMMA CandidateFrames ==
  ASSUME ReceiveCandidate \/ PairCheck \/ CapCheck \/ SymbolCheck \/ SendProposal
  PROVE  UNCHANGED <<execVars, todo, positions, dbVars, chanVars, approved, expired>>
BY DEF ReceiveCandidate, PairCheck, CapCheck, SymbolCheck, SendProposal, ramVars, chatVars, auxVars

LEMMA ApprovalFrames ==
  ASSUME HandleApproval
  PROVE  /\ UNCHANGED <<loopVars, positions, dbVars, closeCh, chatVars, auxVars, held>>
         /\ approvalCh # <<>> /\ approvalCh' = Tail(approvalCh)
         /\ proposals' \subseteq proposals
BY DEF HandleApproval, UnknownProposal, Snooze, Reject, ApproveExpired, Approve, TakeApproval,
       execVars, Spawn

LEMMA MonitorFrames ==
  ASSUME NEW id \in Trade, MonitorPosition(id)
  PROVE  /\ UNCHANGED <<execVars, cur, proposals, dbVars, chanVars, approved, auxVars>>
         /\ id \in todo /\ todo' = todo \ {id} /\ at' \in {"select", "monitor"}
         /\ positions' \in {positions, positions \cup {id}}
BY DEF MonitorPosition, MonitorSkips, MonitorChecks, Monitored, dbVars

LEMMA GoneFrames ==
  ASSUME ExitProcess \/ Crash
  PROVE  ProcessGone
BY DEF ExitProcess, Crash

-----------------------------------------------------------------------------
(* Identifiers and approvals *)

LEMMA FreshStep ==
  ASSUME IInv, Next
  PROVE  Fresh'
<1> USE DEF IInv, Fresh
<1>1. CASE ReceiveCandidate \/ PairCheck \/ CapCheck
  BY <1>1 DEF ReceiveCandidate, PairCheck, CapCheck, Drop, ramVars, auxVars
<1>2. CASE SymbolCheck
  BY <1>2 DEF SymbolCheck, Drop
<1>3. CASE SendProposal
  BY <1>3 DEF SendProposal, Drop, auxVars
<1>4. CASE HandleApproval
  BY <1>4, ApprovalFrames DEF loopVars, auxVars
<1>5. CASE \E id \in Trade : HandleCloseRequest(id)
  BY <1>5 DEF HandleCloseRequest, loopVars, ramVars, auxVars
<1>6. CASE \E id \in Trade : MonitorPosition(id)
  BY <1>6, MonitorFrames DEF auxVars
<1>7. CASE (\E s \in Symbol : ReceiveTick(s)) \/ LeaveLoop
  BY <1>7 DEF ReceiveTick, LeaveLoop, ramVars, auxVars
<1>8. CASE ExpireProposals
  BY <1>8 DEF ExpireProposals, loopVars, auxVars
<1>9. CASE \E t \in Task : WorkerStep(t)
  BY <1>9, WorkerFrames DEF loopVars, auxVars
<1>10. ASSUME NEW id \in Trade, ProposalTimesOut(id)
       PROVE  Fresh'
  BY <1>10 DEF ProposalTimesOut, loopVars, ramVars
<1>11. CASE \E id \in Trade : TapClose(id) \/ SnoozeEnds(Pair(id)) \/ \E verdict \in Verdict : Tap(id, verdict)
  BY <1>11 DEF TapClose, Tap, SnoozeEnds, loopVars, ramVars, auxVars
<1>12. CASE CancelContext \/ ExitProcess \/ Crash \/ Restart
  BY <1>12 DEF CancelContext, ExitProcess, Crash, Restart, ProcessGone, loopVars, ramVars, auxVars
<1>13. QED
  BY <1>1, <1>2, <1>3, <1>4, <1>5, <1>6, <1>7, <1>8, <1>9, <1>10, <1>11, <1>12
     DEF Next, LoopStep, Environment

LEMMA TappedStep ==
  ASSUME IInv, Next
  PROVE  Tapped'
<1> USE DEF IInv, Tapped
<1>1. approvalCh \in Seq(Taps)
  BY DEF TypeInv, ChanTypes
<1>2. CASE HandleApproval
  <2>1. approvalCh # <<>> /\ approvalCh' = Tail(approvalCh) /\ approved' = approved
    BY <1>2, ApprovalFrames DEF chatVars
  <2>2. \A i \in 1 .. Len(approvalCh') :
          i + 1 \in 1 .. Len(approvalCh) /\ approvalCh'[i] = approvalCh[i + 1]
    BY <1>1, <2>1
  <2>3. QED
    BY <2>1, <2>2
<1>3. ASSUME NEW id \in Trade, NEW verdict \in Verdict, Tap(id, verdict)
      PROVE  Tapped'
  <2>1. /\ approvalCh' = Append(approvalCh, [trade |-> id, verdict |-> verdict])
        /\ approved' = IF verdict = "approve" THEN approved \cup {id} ELSE approved
    BY <1>3 DEF Tap
  <2>2. Len(approvalCh') = Len(approvalCh) + 1 /\ Len(approvalCh) \in Nat
    BY <1>1, <2>1
  <2>3. \A i \in 1 .. Len(approvalCh) : approvalCh'[i] = approvalCh[i]
    BY <1>1, <2>1
  <2>4. approvalCh'[Len(approvalCh) + 1] = [trade |-> id, verdict |-> verdict]
    BY <1>1, <2>1
  <2>5. \A i \in 1 .. Len(approvalCh') : i \in 1 .. Len(approvalCh) \/ i = Len(approvalCh) + 1
    BY <2>2
  <2>6. QED
    BY <2>1, <2>3, <2>4, <2>5
<1>4. CASE ExitProcess \/ Crash
  BY <1>4 DEF ExitProcess, Crash, ProcessGone
<1>5. CASE UNCHANGED <<approvalCh, approved>>
  BY <1>5
<1>6. QED
  <2>1. CASE ReceiveCandidate \/ PairCheck \/ CapCheck \/ SymbolCheck \/ SendProposal
    BY <1>5, <2>1, CandidateFrames DEF chanVars
  <2>2. CASE \E id \in Trade : HandleCloseRequest(id)
    BY <1>5, <2>2 DEF HandleCloseRequest, chatVars
  <2>3. CASE \E id \in Trade : MonitorPosition(id)
    BY <1>5, <2>3, MonitorFrames DEF chanVars
  <2>4. CASE (\E s \in Symbol : ReceiveTick(s)) \/ LeaveLoop \/ ExpireProposals
    BY <1>5, <2>4 DEF ReceiveTick, LeaveLoop, ExpireProposals, chanVars, chatVars
  <2>5. CASE \E t \in Task : WorkerStep(t)
    BY <1>5, <2>5, WorkerFrames DEF chanVars, chatVars
  <2>6. CASE \E id \in Trade : ProposalTimesOut(id) \/ TapClose(id) \/ SnoozeEnds(Pair(id))
    BY <1>5, <2>6 DEF ProposalTimesOut, TapClose, SnoozeEnds, chanVars, chatVars
  <2>7. CASE CancelContext \/ Restart
    BY <1>5, <2>7 DEF CancelContext, Restart, chanVars, chatVars
  <2>8. QED
    BY <1>2, <1>3, <1>4, <2>1, <2>2, <2>3, <2>4, <2>5, <2>6, <2>7 DEF Next, LoopStep, Environment

-----------------------------------------------------------------------------
(* What is live is settled *)

\* Nothing but a new proposal, which is not settled, becomes pending, and only what
\* is pending expires: no identifier becomes unsettled.
LEMMA SettledGrows ==
  ASSUME IInv, Next
  PROVE  Settled \subseteq Settled'
<1> USE DEF IInv, Fresh, Settled
<1>1. CASE ReceiveCandidate \/ PairCheck \/ CapCheck
  BY <1>1 DEF ReceiveCandidate, PairCheck, CapCheck, ramVars, auxVars, chatVars
<1>2. CASE SymbolCheck
  <2>1. approved' = approved /\ expired' = expired /\ cur \notin used
    BY <1>2 DEF SymbolCheck, chatVars
  <2>2. \/ proposals' = proposals /\ used' = used
        \/ proposals' = proposals \cup {cur} /\ used' = used \cup {cur}
    BY <1>2 DEF SymbolCheck
  <2>3. QED
    BY <2>1, <2>2
<1>3. CASE SendProposal
  <2>1. approved' = approved /\ expired' = expired /\ used' = used
    BY <1>3 DEF SendProposal, auxVars
  <2>2. proposals' \subseteq proposals
    BY <1>3 DEF SendProposal
  <2>3. QED
    BY <2>1, <2>2
<1>4. CASE HandleApproval
  BY <1>4, ApprovalFrames DEF chatVars, auxVars
<1>5. CASE \E id \in Trade : HandleCloseRequest(id)
  BY <1>5 DEF HandleCloseRequest, ramVars, chatVars, auxVars
<1>6. CASE \E id \in Trade : MonitorPosition(id)
  BY <1>6, MonitorFrames DEF auxVars
<1>7. CASE (\E s \in Symbol : ReceiveTick(s)) \/ LeaveLoop \/ ExpireProposals
  BY <1>7 DEF ReceiveTick, LeaveLoop, ExpireProposals, ramVars, chatVars, auxVars
<1>8. CASE \E t \in Task : WorkerStep(t)
  BY <1>8, WorkerFrames DEF chatVars, auxVars
<1>9. CASE \E id \in Trade : ProposalTimesOut(id) \/ TapClose(id) \/ SnoozeEnds(Pair(id))
  BY <1>9 DEF ProposalTimesOut, TapClose, SnoozeEnds, ramVars, chatVars, auxVars
<1>10. CASE \E id \in Trade, verdict \in Verdict : Tap(id, verdict)
  BY <1>10 DEF Tap, ramVars, auxVars
<1>11. CASE CancelContext \/ ExitProcess \/ Crash \/ Restart
  BY <1>11 DEF CancelContext, ExitProcess, Crash, Restart, ProcessGone, ramVars, chatVars, auxVars
<1>12. QED
  BY <1>1, <1>2, <1>3, <1>4, <1>5, <1>6, <1>7, <1>8, <1>9, <1>10, <1>11
     DEF Next, LoopStep, Environment

\* Approving is the only step after which an identifier is live that was not.
LEMMA LiveShrinks ==
  ASSUME IInv, Next, NEW id \in Trade, Live(id)'
  PROVE  Live(id) \/ Approve(id)
<1> USE DEF Live, Untouched, Busy
<1>1. CASE ReceiveCandidate \/ PairCheck \/ CapCheck \/ SymbolCheck \/ SendProposal
  BY <1>1, CandidateFrames DEF execVars, dbVars
<1>2. CASE HandleApproval
  <2>1. PICK k \in Trade :
          UnknownProposal(k) \/ Snooze(k) \/ Reject(k) \/ ApproveExpired(k) \/ Approve(k)
    BY <1>2 DEF HandleApproval
  <2>2. UNCHANGED <<todo, positions, row, held>>
    BY <1>2, ApprovalFrames DEF loopVars, dbVars
  <2>3. CASE Approve(k)
    <3>1. PICK t \in Task : Spawn(t, k, "legA")
      BY <2>3 DEF Approve
    <3>2. \A u \in Task : job'[u] = job[u] \/ job'[u] = k
      BY <3>1 DEF Spawn, IInv, TypeInv, ExecTypes
    <3>3. QED
      BY <2>2, <2>3, <3>2
  <2>4. CASE ~Approve(k)
    BY <2>1, <2>2, <2>4 DEF UnknownProposal, Snooze, Reject, ApproveExpired, execVars
  <2>5. QED
    BY <2>3, <2>4
<1>3. CASE \E k \in Trade : HandleCloseRequest(k)
  <2>1. PICK k \in Trade : HandleCloseRequest(k)
    BY <1>3
  <2>2. UNCHANGED <<todo, positions, row, held>>
    BY <2>1 DEF HandleCloseRequest, loopVars, ramVars, dbVars, execVars, Spawn
  <2>3. CASE k \in positions
    <3>1. PICK t \in Task : Spawn(t, k, "closeShort")
      BY <2>1, <2>3 DEF HandleCloseRequest
    <3>2. \A u \in Task : job'[u] = job[u] \/ job'[u] = k
      BY <3>1 DEF Spawn, IInv, TypeInv, ExecTypes
    <3>3. QED
      BY <2>2, <2>3, <3>2
  <2>4. CASE k \notin positions
    BY <2>1, <2>2, <2>4 DEF HandleCloseRequest, execVars
  <2>5. QED
    BY <2>3, <2>4
<1>4. CASE \E k \in Trade : MonitorPosition(k)
  BY <1>4, MonitorFrames DEF execVars, dbVars
<1>5. CASE \E s \in Symbol : ReceiveTick(s)
  BY <1>5 DEF ReceiveTick, execVars, ramVars, dbVars
<1>6. CASE LeaveLoop \/ ExpireProposals
  BY <1>6 DEF LeaveLoop, ExpireProposals, execVars, loopVars, ramVars, dbVars
<1>7. CASE \E t \in Task : WorkerStep(t)
  <2>1. PICK t \in Task : WorkerStep(t)
    BY <1>7
  <2>2. Live(job[t])
    BY <2>1
  <2>3. job[t] \in Trade
    BY <2>1, WorkerFrames DEF IInv
  <2>4. CASE id # job[t]
    BY <2>1, <2>4, NoTradeAssumption, WorkerFrames DEF IInv, loopVars
  <2>5. QED
    BY <2>2, <2>4
<1>8. CASE \E k \in Trade : \/ ProposalTimesOut(k) \/ TapClose(k) \/ SnoozeEnds(Pair(k))
                            \/ \E verdict \in Verdict : Tap(k, verdict)
  BY <1>8 DEF ProposalTimesOut, TapClose, SnoozeEnds, Tap, execVars, loopVars, ramVars, dbVars
<1>9. CASE CancelContext
  BY <1>9 DEF CancelContext, loopVars, ramVars, dbVars
<1>10. CASE ExitProcess \/ Crash
  BY <1>10, GoneFrames, NoTradeAssumption DEF ProcessGone, dbVars
<1>11. CASE Restart
  BY <1>11 DEF Restart, dbVars
<1>12. QED
  BY <1>1, <1>2, <1>3, <1>4, <1>5, <1>6, <1>7, <1>8, <1>9, <1>10, <1>11
     DEF Next, LoopStep, Environment

LEMMA LiveIsSettledStep ==
  ASSUME IInv, Next
  PROVE  LiveIsSettled'
<1> SUFFICES ASSUME NEW id \in Trade, Live(id)'
             PROVE  id \in Settled'
  BY DEF LiveIsSettled
<1>1. CASE Live(id)
  BY <1>1, SettledGrows DEF IInv, LiveIsSettled
<1>2. CASE Approve(id)
  <2>1. /\ id \in proposals \ expired /\ proposals' = proposals \ {id}
        /\ UNCHANGED <<chatVars, auxVars>>
    BY <1>2 DEF Approve, TakeApproval
  <2>2. approvalCh # <<>> /\ Head(approvalCh) = [trade |-> id, verdict |-> "approve"]
    BY <1>2 DEF Approve, TakeApproval
  <2>3. approvalCh \in Seq(Taps)
    BY DEF IInv, TypeInv, ChanTypes
  <2>4. 1 \in 1 .. Len(approvalCh) /\ approvalCh[1] = Head(approvalCh)
    BY <2>2, <2>3
  <2>5. id \in approved
    BY <2>2, <2>4 DEF IInv, Tapped
  <2>6. QED
    BY <2>1, <2>5 DEF IInv, Fresh, Settled, chatVars, auxVars
<1>3. QED
  BY <1>1, <1>2, LiveShrinks

-----------------------------------------------------------------------------
(* A goroutine that opens has its trade to itself *)

LEMMA SpawnAlone ==
  ASSUME IInv, NEW t \in Task, NEW id \in Trade, NEW entry, Spawn(t, id, entry),
         UNCHANGED <<at, todo, positions, row>>, at # "down",
         \/ entry = "closeShort" /\ id \in positions
         \/ entry = "legA" /\ ~Live(id)
  PROVE  Alone'
<1>1. /\ \A u \in Task : u # t => pc'[u] = pc[u] /\ job'[u] = job[u]
      /\ pc[t] = "idle" /\ pc'[t] = entry /\ job'[t] = id
  BY DEF Spawn, Goto, IInv, TypeInv, ExecTypes
<1>2. "closeShort" \notin PreInsert /\ "legA" \in PreInsert
  BY DEF PreInsert, Opening
<1>3. ASSUME NEW u \in Task, u # t, pc[u] \in PreInsert
      PROVE  /\ \A w \in Task : job'[w] = job'[u] => w = u
             /\ job'[u] \notin positions' \cup todo'
  <2>1. job[u] # id
    BY <1>3 DEF IInv, Alone, Live, Untouched, Busy
  <2>2. QED
    BY <1>1, <1>3, <2>1 DEF IInv, Alone
<1>4. CASE entry = "closeShort"
  BY <1>1, <1>2, <1>3, <1>4 DEF IInv, Alone, PreInsert
<1>5. CASE entry = "legA" /\ ~Live(id)
  <2>1. \A w \in Task : job[w] # id
    BY <1>5 DEF Live, Untouched, Busy
  <2>2. id \notin positions \cup todo /\ row[id] = "none"
    BY <1>5 DEF Live, Untouched
  <2>3. \A w \in Task : job'[w] = job'[t] => w = t
    BY <1>1, <2>1
  <2>4. QED
    BY <1>1, <1>3, <2>2, <2>3 DEF IInv, Alone, PreInsert
<1>6. QED
  BY <1>4, <1>5

LEMMA WorkerAlone ==
  ASSUME IInv, NEW t \in Task, WorkerStep(t)
  PROVE  Alone'
<1> DEFINE id == job[t]
<1>1. /\ UNCHANGED <<at, todo>>
      /\ pc[t] # "idle" /\ id \in Trade
      /\ \A u \in Task : u # t => pc'[u] = pc[u] /\ job'[u] = job[u]
      /\ job'[t] \in {id, NoTrade}
      /\ \A k \in Trade : k # id => row'[k] = row[k]
      /\ positions' \in {positions, positions \cup {id}, positions \ {id}}
  BY WorkerFrames DEF IInv, loopVars
<1>2. \A u \in Task : job[u] \in Trade \cup {NoTrade} /\ (pc[u] = "idle" <=> job[u] = NoTrade)
  BY DEF IInv, TypeInv, ExecTypes, Working
<1>3. at # "down"
  BY <1>1 DEF IInv, Alone
\* What t itself may do.
<1>4. /\ pc'[t] \in PreInsert => pc[t] \in PreInsert /\ positions' = positions /\ job'[t] = id
      /\ pc'[t] \in Opening => pc[t] \in Opening /\ row' = row
  <2>1. CASE Trading(t)
    <3>1. ExecTypes(PCs) /\ ExecStep(t)
      BY <2>1 DEF Trading, IInv, TypeInv
    <3>2. \/ pc[t] \in Opening /\ pc'[t] \in Opening
          \/ pc[t] \in Closing /\ pc'[t] \in Closing
      BY <3>1, ExecStepFrame
    <3>3. job' = job
      BY <3>1, ExecStepFrame
    <3>4. Closing \cap PreInsert = {} /\ Opening \subseteq PreInsert
      BY DEF PreInsert, Closing, Opening
    <3>5. QED
      BY <2>1, <3>2, <3>3, <3>4 DEF Trading, ramVars, dbVars, Closing, Opening
  <2>2. CASE Finish(t)
    BY <2>2 DEF Finish, Goto, PreInsert, Opening, IInv, TypeInv, ExecTypes
  <2>3. CASE \E to \in {"saveClosed", "closeFillShort", "closeFillLong"} : Advance(t, to)
    BY <2>3 DEF Advance, Goto, PreInsert, Opening, IInv, TypeInv, ExecTypes
  <2>4. CASE /\ \E to \in {"fillShort", "fillLong", "insert"} : Advance(t, to)
             /\ pc[t] \in PreInsert
             /\ positions' = positions
    BY <2>4 DEF Advance, Goto, PreInsert, Opening, IInv, TypeInv, ExecTypes
  <2>5. QED
    BY <2>1, <2>2, <2>3, <2>4
       DEF WorkerStep, Failed, SaveOpened, SaveShortFill, SaveLongFill, InsertPosition,
           RemovePosition, SaveClosed, PreInsert, Opening
\* No other goroutine that has its trade to itself shares the one of t.
<1>5. ASSUME NEW u \in Task, u # t, pc[u] \in PreInsert
      PROVE  job[u] # id /\ job[u] \in Trade
  <2>1. pc[u] # "idle"
    BY <1>5 DEF PreInsert, Opening
  <2>2. QED
    BY <1>2, <1>5, <2>1 DEF IInv, Alone
<1>6. \A u \in Task : pc'[u] \in PreInsert =>
        /\ \A w \in Task : job'[w] = job'[u] => w = u
        /\ job'[u] \notin positions' \cup todo'
  <2>1. ASSUME NEW u \in Task, u # t, pc'[u] \in PreInsert
        PROVE  /\ \A w \in Task : job'[w] = job'[u] => w = u
               /\ job'[u] \notin positions' \cup todo'
    BY <1>1, <1>5, <2>1, NoTradeAssumption DEF IInv, Alone
  <2>2. CASE pc'[t] \in PreInsert
    BY <1>1, <1>4, <2>2 DEF IInv, Alone
  <2>3. QED
    BY <2>1, <2>2
<1>7. \A u \in Task : pc'[u] \in Opening => row'[job'[u]] = "none"
  <2>1. Opening \subseteq PreInsert
    BY DEF PreInsert
  <2>2. QED
    BY <1>1, <1>4, <1>5, <2>1 DEF IInv, Alone
<1>8. QED
  BY <1>1, <1>3, <1>6, <1>7 DEF Alone

LEMMA AloneStep ==
  ASSUME IInv, Next
  PROVE  Alone'
<1>1. CASE ReceiveCandidate \/ PairCheck \/ CapCheck \/ SymbolCheck \/ SendProposal
  <2>1. at' # "down"
    BY <1>1 DEF ReceiveCandidate, PairCheck, CapCheck, SymbolCheck, SendProposal, Drop
  <2>2. QED
    BY <1>1, <2>1, CandidateFrames DEF execVars, dbVars, IInv, Alone
<1>2. CASE HandleApproval
  <2>1. PICK id \in Trade :
          UnknownProposal(id) \/ Snooze(id) \/ Reject(id) \/ ApproveExpired(id) \/ Approve(id)
    BY <1>2 DEF HandleApproval
  <2>2. UNCHANGED <<at, todo, positions, row>>
    BY <1>2, ApprovalFrames DEF loopVars, dbVars
  <2>3. CASE Approve(id)
    <3>1. PICK t \in Task : Spawn(t, id, "legA")
      BY <2>3 DEF Approve
    <3>2. at # "down" /\ id \in proposals
      BY <2>3 DEF Approve, TakeApproval
    <3>3. ~Live(id)
      BY <3>2 DEF IInv, LiveIsSettled, Settled
    <3>4. QED
      BY <2>2, <3>1, <3>2, <3>3, SpawnAlone
  <2>4. CASE ~Approve(id)
    BY <2>1, <2>2, <2>4
       DEF UnknownProposal, Snooze, Reject, ApproveExpired, execVars, IInv, Alone
  <2>5. QED
    BY <2>3, <2>4
<1>3. CASE \E id \in Trade : HandleCloseRequest(id)
  <2>1. PICK id \in Trade : HandleCloseRequest(id)
    BY <1>3
  <2>2. UNCHANGED <<at, todo, positions, row>> /\ at # "down"
    BY <2>1 DEF HandleCloseRequest, loopVars, ramVars, dbVars
  <2>3. CASE id \in positions
    <3>1. PICK t \in Task : Spawn(t, id, "closeShort")
      BY <2>1, <2>3 DEF HandleCloseRequest
    <3>2. QED
      BY <2>2, <2>3, <3>1, SpawnAlone
  <2>4. CASE id \notin positions
    BY <2>1, <2>2, <2>4 DEF HandleCloseRequest, execVars, IInv, Alone
  <2>5. QED
    BY <2>3, <2>4
<1>4. CASE \E id \in Trade : MonitorPosition(id)
  <2>1. positions' \cup todo' \subseteq positions \cup todo /\ at' # "down"
    BY <1>4, MonitorFrames
  <2>2. UNCHANGED <<pc, job, row>>
    BY <1>4, MonitorFrames DEF execVars, dbVars
  <2>3. QED
    BY <2>1, <2>2 DEF IInv, Alone
<1>5. CASE \E s \in Symbol : ReceiveTick(s)
  <2>1. positions' \cup todo' \subseteq positions \cup todo /\ at' # "down"
    BY <1>5 DEF ReceiveTick, ramVars
  <2>2. UNCHANGED <<pc, job, row>>
    BY <1>5 DEF ReceiveTick, execVars, dbVars
  <2>3. QED
    BY <2>1, <2>2 DEF IInv, Alone
<1>6. CASE LeaveLoop \/ ExpireProposals
  BY <1>6 DEF LeaveLoop, ExpireProposals, execVars, loopVars, ramVars, dbVars, IInv, Alone
<1>7. CASE \E t \in Task : WorkerStep(t)
  BY <1>7, WorkerAlone
<1>8. CASE \E id \in Trade : \/ ProposalTimesOut(id) \/ TapClose(id) \/ SnoozeEnds(Pair(id))
                             \/ \E verdict \in Verdict : Tap(id, verdict)
  BY <1>8 DEF ProposalTimesOut, TapClose, SnoozeEnds, Tap, execVars, loopVars, ramVars, dbVars,
              IInv, Alone
<1>9. CASE CancelContext
  BY <1>9 DEF CancelContext, loopVars, ramVars, dbVars, IInv, Alone
<1>10. CASE ExitProcess \/ Crash
  BY <1>10, GoneFrames DEF ProcessGone, Alone, PreInsert, Opening
<1>11. CASE Restart
  BY <1>11 DEF Restart, dbVars, IInv, Alone, PreInsert, Opening
<1>12. QED
  BY <1>1, <1>2, <1>3, <1>4, <1>5, <1>6, <1>7, <1>8, <1>9, <1>10, <1>11
     DEF Next, LoopStep, Environment

LEMMA IStep == IInv /\ [Next]_vars => IInv'
<1> SUFFICES ASSUME IInv, [Next]_vars
             PROVE  IInv'
  OBVIOUS
<1>1. TypeInv'
  BY TypeStep DEF IInv
<1>2. CASE Next
  BY <1>1, <1>2, FreshStep, TappedStep, LiveIsSettledStep, AloneStep DEF IInv
<1>3. CASE UNCHANGED vars
  <2>1. UNCHANGED <<pc, job, held, at, cur, todo, proposals, positions, row, approvalCh,
                    approved, used, expired>>
    BY <1>3 DEF vars, execVars, loopVars, ramVars, dbVars, chanVars, chatVars, auxVars
  <2>2. Fresh' /\ Tapped'
    BY <2>1 DEF IInv, Fresh, Tapped
  <2>3. LiveIsSettled'
    BY <2>1 DEF IInv, LiveIsSettled, Live, Settled, Untouched, Busy
  <2>4. Alone'
    BY <2>1 DEF IInv, Alone
  <2>5. QED
    BY <1>1, <2>2, <2>3, <2>4 DEF IInv
<1>4. QED
  BY <1>2, <1>3

LEMMA IInvariant == Spec => []IInv
BY IInit, IStep, PTL DEF Spec

\* A proposal is executed at most once, however often its buttons are tapped,
\* delivered again or used after a restart (strategy.go:182-213).
THEOREM StrategyTradesOnce == Spec => []TradedAtMostOnce
<1>1. IInv => TradedAtMostOnce
  <2> SUFFICES ASSUME IInv PROVE TradedAtMostOnce
    OBVIOUS
  <2>1. \A id \in proposals : Untouched(id)
    BY DEF IInv, TypeInv, RamTypes, LiveIsSettled, Live, Settled
  <2>2. \A t, u \in Task : pc[t] \in Opening /\ pc[u] \in Opening /\ job[t] = job[u] => t = u
    BY DEF IInv, Alone, PreInsert
  <2>3. QED
    BY <2>1, <2>2 DEF TradedAtMostOnce
<1>2. QED
  BY <1>1, IInvariant, PTL

\* A proposal that ran out while it was pending is never traded (strategy.go:202-207).
THEOREM StrategyRespectsExpiry == Spec => []ExpiredNeverTraded
<1>1. IInv => ExpiredNeverTraded
  BY DEF IInv, TypeInv, AuxTypes, LiveIsSettled, Live, Settled, ExpiredNeverTraded
<1>2. QED
  BY <1>1, IInvariant, PTL

\* Whatever was traded was approved by the user (PLAN.md:131).
THEOREM StrategyAsksFirst == Spec => []ApprovedBeforeTraded
<1>1. IInv => ApprovedBeforeTraded
  BY DEF IInv, LiveIsSettled, Live, Settled, ApprovedBeforeTraded
<1>2. QED
  BY <1>1, IInvariant, PTL

=============================================================================
