------------------------------ MODULE Strategy ------------------------------
(***************************************************************************)
(* internal/strategy with the goroutines, channels and tables around it:   *)
(*   - the loop of Run, one select case at a time; a candidate is checked  *)
(*     in several steps, since the checks read positions without the lock; *)
(*   - the goroutines of execute and closePosition, whose executor calls   *)
(*     come from Executor;                                                 *)
(*   - the Telegram bot: buttons once shown may be tapped at any time, any *)
(*     number of times, also after a restart;                              *)
(*   - the positions and fills tables of SQLite;                           *)
(*   - shutdown, crash and restart.                                        *)
(* A proposal and the position it becomes share one identifier; Candidate  *)
(* gives the pair each identifier is about.  The engine is left open: any  *)
(* candidate may arrive at any time.                                       *)
(***************************************************************************)
EXTENDS Executor, Sequences, FiniteSets

CONSTANTS
  MaxPositionsPerSymbol, \* cfg.MaxPositionsPerSymbol
  MaxNotional,           \* cfg.MaxGlobalNotionalUSDT
  StoreFails,            \* SQLite may refuse a write
  ChanCap,               \* capacity of approvalCh and closeCh
  MaxShutdowns,          \* bound: cancelled contexts of a behaviour
  MaxCrashes,            \* bound: crashes of a behaviour
  MaxCloseTaps           \* bound: taps on Close of a behaviour

ASSUME CapsAssumption ==
  /\ MaxPositionsPerSymbol \in Nat
  /\ MaxNotional \in Int
  /\ StoreFails \in BOOLEAN
  /\ ChanCap \in Nat \ {0}
  /\ MaxShutdowns \in Nat
  /\ MaxCrashes \in Nat
  /\ MaxCloseTaps \in Nat

VARIABLES
  at,         \* where the loop of Run stands; "down" when no process runs
  cur,        \* the proposal handleCandidate is about to make
  todo,       \* the snapshot monitorPositions still has to check
  proposals,  \* s.proposals
  positions,  \* s.positions
  snoozed,    \* the pairs of s.snoozed that are not over
  row,        \* positions table: the status of each row
  ledger,     \* fills table: the signed sum of the fills of each leg
  interrupted, \* history: trades whose opening broke off before it was on record
  approvalCh,
  closeCh,
  shown,      \* proposals whose buttons are in the chat
  alerted,    \* positions whose Close button is in the chat
  approved,   \* history: proposals the user tapped Approve for
  used,       \* history: identifiers given out
  expired,    \* history: proposals whose ExpiresAt passed while pending
  shutdowns,  \* counter for MaxShutdowns
  crashes,    \* counter for MaxCrashes
  closeTaps   \* counter for MaxCloseTaps

loopVars == <<at, cur, todo>>
ramVars == <<proposals, positions, snoozed>>
dbVars == <<row, ledger, interrupted>>
chanVars == <<approvalCh, closeCh>>
chatVars == <<shown, alerted, approved>>
auxVars == <<used, expired, shutdowns, crashes, closeTaps>>
vars == <<execVars, loopVars, ramVars, dbVars, chanVars, chatVars, auxVars>>

LoopStates ==
  {"select", "pairCheck", "capCheck", "symbolCheck", "send", "monitor", "exited", "down"}
Verdict == {"approve", "reject", "snooze"}
Saving == {"fillShort", "fillLong", "insert", "saveClosed", "closeFillShort", "closeFillLong"}

Init ==
  /\ ExecInit
  /\ at = "select"
  /\ cur = NoTrade
  /\ todo = {}
  /\ proposals = {}
  /\ positions = {}
  /\ snoozed = {}
  /\ row = [id \in Trade |-> "none"]
  /\ ledger = [id \in Trade |-> NoFill]
  /\ interrupted = {}
  /\ approvalCh = <<>>
  /\ closeCh = <<>>
  /\ shown = {}
  /\ alerted = {}
  /\ approved = {}
  /\ used = {}
  /\ expired = {}
  /\ shutdowns = 0
  /\ crashes = 0
  /\ closeTaps = 0

-----------------------------------------------------------------------------
(* handleCandidate *)

Pair(id) == Candidate[id]
SameSymbol(id) == {p \in positions : Candidate[p].symbol = Candidate[id].symbol}

Drop == at' = "select" /\ cur' = NoTrade

ReceiveCandidate ==
  /\ at = "select"
  /\ \E id \in Trade \ used : cur' = id
  /\ at' = "pairCheck"
  /\ UNCHANGED <<execVars, todo, ramVars, dbVars, chanVars, chatVars, auxVars>>

\* No position of this pair yet: a read of positions without the lock.
PairCheck ==
  /\ at = "pairCheck"
  /\ IF \E p \in positions : Pair(p) = Pair(cur)
     THEN Drop
     ELSE at' = "capCheck" /\ UNCHANGED cur
  /\ UNCHANGED <<execVars, todo, ramVars, dbVars, chanVars, chatVars, auxVars>>

CapCheck ==
  /\ at = "capCheck"
  /\ IF Cardinality(positions) * Size >= MaxNotional
     THEN Drop
     ELSE at' = "symbolCheck" /\ UNCHANGED cur
  /\ UNCHANGED <<execVars, todo, ramVars, dbVars, chanVars, chatVars, auxVars>>

\* The cap per symbol, again without the lock; then snoozing, and the proposal
\* is made.
SymbolCheck ==
  /\ at = "symbolCheck"
  /\ IF Cardinality(SameSymbol(cur)) >= MaxPositionsPerSymbol \/ Pair(cur) \in snoozed
     THEN Drop /\ UNCHANGED <<proposals, used>>
     ELSE /\ at' = "send"
          /\ proposals' = proposals \cup {cur}
          /\ used' = used \cup {cur}
          /\ UNCHANGED cur
  /\ UNCHANGED <<execVars, todo, positions, snoozed, dbVars, chanVars, chatVars,
                 expired, shutdowns, crashes, closeTaps>>

\* The message may reach the chat and the call fail all the same, and without a
\* bot token it succeeds and shows nothing.
SendProposal ==
  /\ at = "send"
  /\ Drop
  /\ shown' \in {shown, shown \cup {cur}}
  /\ proposals' \in {proposals, proposals \ {cur}}
  /\ UNCHANGED <<execVars, todo, positions, snoozed, dbVars, chanVars,
                 alerted, approved, auxVars>>

-----------------------------------------------------------------------------
(* handleApproval *)

\* go s.execute, go s.closePosition.
Spawn(t, id, entry) ==
  /\ pc[t] = "idle"
  /\ Goto(t, entry)
  /\ job' = [job EXCEPT ![t] = id]
  /\ fill' = [fill EXCEPT ![t] = NoFill]
  /\ UNCHANGED <<venues, cancelled, inFlight, held, net, alarms, misled>>

TakeApproval(id, verdict) ==
  /\ at = "select"
  /\ approvalCh # <<>>
  /\ Head(approvalCh) = [trade |-> id, verdict |-> verdict]
  /\ approvalCh' = Tail(approvalCh)
  /\ UNCHANGED <<loopVars, positions, dbVars, closeCh, chatVars, auxVars>>

UnknownProposal(id) ==
  /\ \E verdict \in Verdict : TakeApproval(id, verdict)
  /\ id \notin proposals
  /\ UNCHANGED <<execVars, proposals, snoozed>>

Snooze(id) ==
  /\ TakeApproval(id, "snooze")
  /\ id \in proposals
  /\ snoozed' = snoozed \cup {Pair(id)}
  /\ proposals' = proposals \ {id}
  /\ UNCHANGED execVars

Reject(id) ==
  /\ TakeApproval(id, "reject")
  /\ id \in proposals
  /\ proposals' = proposals \ {id}
  /\ UNCHANGED <<execVars, snoozed>>

ApproveExpired(id) ==
  /\ TakeApproval(id, "approve")
  /\ id \in proposals \cap expired
  /\ proposals' = proposals \ {id}
  /\ UNCHANGED <<execVars, snoozed>>

ApproveAgain(id) ==
  /\ TakeApproval(id, "approve")
  /\ id \in proposals \ expired
  /\ \E t \in Task : Spawn(t, id, "legA")
  /\ UNCHANGED <<proposals, snoozed>>

ApproveLate(id) ==
  /\ TakeApproval(id, "approve")
  /\ id \in proposals
  /\ proposals' = proposals \ {id}
  /\ \E t \in Task : Spawn(t, id, "legA")
  /\ UNCHANGED snoozed

ApproveAny(id) ==
  /\ \E verdict \in Verdict : TakeApproval(id, verdict)
  /\ id \in proposals \ expired
  /\ proposals' = proposals \ {id}
  /\ \E t \in Task : Spawn(t, id, "legA")
  /\ UNCHANGED snoozed

Approve(id) ==
  /\ TakeApproval(id, "approve")
  /\ id \in proposals \ expired
  /\ proposals' = proposals \ {id}
  /\ \E t \in Task : Spawn(t, id, "legA")
  /\ UNCHANGED snoozed

HandleApproval ==
  \E id \in Trade :
    UnknownProposal(id) \/ Snooze(id) \/ Reject(id) \/ ApproveExpired(id) \/ Approve(id)

-----------------------------------------------------------------------------
(* handleCloseRequest *)

CloseIfQuiet(id) ==
  /\ at = "select"
  /\ closeCh # <<>>
  /\ Head(closeCh) = id
  /\ closeCh' = Tail(closeCh)
  /\ IF id \in positions /\ \A t \in Task : pc[t] = "idle"
     THEN \E t \in Task : Spawn(t, id, "closeShort")
     ELSE UNCHANGED execVars
  /\ UNCHANGED <<loopVars, ramVars, dbVars, approvalCh, chatVars, auxVars>>

HandleCloseRequest(id) ==
  /\ at = "select"
  /\ closeCh # <<>>
  /\ Head(closeCh) = id
  /\ closeCh' = Tail(closeCh)
  /\ IF id \in positions
     THEN \E t \in Task : Spawn(t, id, "closeShort")
     ELSE UNCHANGED execVars
  /\ UNCHANGED <<loopVars, ramVars, dbVars, approvalCh, chatVars, auxVars>>

-----------------------------------------------------------------------------
(* monitorPositions *)

\* A tick for symbol s: the positions of s are copied under the lock.
ReceiveTick(s) ==
  /\ at = "select"
  /\ todo' = {id \in positions : Candidate[id].symbol = s}
  /\ todo' # {}
  /\ at' = "monitor"
  /\ UNCHANGED <<execVars, cur, ramVars, dbVars, chanVars, chatVars, auxVars>>

Monitored(id) ==
  /\ todo' = todo \ {id}
  /\ at' = IF todo' = {} THEN "select" ELSE "monitor"
  /\ UNCHANGED <<execVars, cur, proposals, snoozed, ledger, interrupted, chanVars, shown,
                 approved, auxVars>>

\* A position of the snapshot is skipped while one of its venues has no tick.  A
\* venue that is not running never has one.
MonitorSkips(id) ==
  /\ at = "monitor"
  /\ id \in todo
  /\ Monitored(id)
  /\ UNCHANGED <<positions, row, alerted>>

MonitorMirrors(id) ==
  /\ at = "monitor"
  /\ id \in todo
  /\ Known(id)
  /\ Monitored(id)
  /\ alerted' \in {alerted, alerted \cup {id}}
  /\ positions' = positions \cup {id}
  /\ row' = [row EXCEPT ![id] = "open"]

\* Otherwise an alert is sent when the edge is gone, and the copy is written back,
\* whatever happened to the position since the snapshot.
MonitorChecks(id) ==
  /\ at = "monitor"
  /\ id \in todo
  /\ Known(id)
  /\ Monitored(id)
  /\ alerted' \in {alerted, alerted \cup {id}}
  /\ positions' = positions \cup {id}
  /\ UNCHANGED row

MonitorPosition(id) == MonitorSkips(id) \/ MonitorChecks(id)

-----------------------------------------------------------------------------
(* execute and closePosition, around their executor call *)

\* A write with a cancelled context fails.  Every caller goes on after an error.
Saves == {ok \in BOOLEAN : (ok => ~cancelled) /\ (~ok => cancelled \/ StoreFails)}

WorkerFrame == UNCHANGED <<loopVars, proposals, snoozed, chanVars, chatVars, auxVars>>

Finish(t) ==
  /\ Goto(t, "idle")
  /\ job' = [job EXCEPT ![t] = NoTrade]
  /\ fill' = [fill EXCEPT ![t] = NoFill]
  /\ UNCHANGED <<venues, cancelled, inFlight, held, net, alarms, misled>>

Advance(t, to) ==
  /\ Goto(t, to)
  /\ UNCHANGED <<venues, cancelled, inFlight, job, fill, held, net, alarms, misled>>

Failed(t) ==
  /\ pc[t] \in {"openFailed", "closeFailed"}
  /\ Finish(t)
  /\ UNCHANGED <<positions, dbVars>>
  /\ WorkerFrame

\* SavePosition: insert the row or overwrite its status.
SavePosition(id, status) ==
  \E ok \in Saves : row' = IF ok THEN [row EXCEPT ![id] = status] ELSE row

SaveOpened(t) ==
  /\ pc[t] = "opened"
  /\ SavePosition(job[t], "open")
  /\ interrupted' = IF row'[job[t]] = "open" THEN interrupted ELSE interrupted \cup {job[t]}
  /\ Advance(t, "fillShort")
  /\ UNCHANGED <<positions, ledger>>
  /\ WorkerFrame

\* SaveFill.  Its key holds the order id, so no fill replaces another.
Recorded(t, leg) ==
  \E ok \in Saves :
    ledger' = IF ok THEN [ledger EXCEPT ![job[t]][leg] = @ + fill[t][leg]] ELSE ledger

SaveShortFill(t) ==
  /\ pc[t] \in {"fillShort", "closeFillShort"}
  /\ Recorded(t, "short")
  /\ Advance(t, IF pc[t] = "fillShort" THEN "fillLong" ELSE "closeFillLong")
  /\ UNCHANGED <<positions, row, interrupted>>
  /\ WorkerFrame

CopiesShortFill(t) ==
  /\ pc[t] \in {"fillLong", "closeFillLong"}
  /\ Recorded(t, "short")
  /\ IF pc[t] = "fillLong" THEN Advance(t, "insert") ELSE Finish(t)
  /\ UNCHANGED <<positions, row, interrupted>>
  /\ WorkerFrame

SaveLongFill(t) ==
  /\ pc[t] \in {"fillLong", "closeFillLong"}
  /\ Recorded(t, "long")
  /\ IF pc[t] = "fillLong" THEN Advance(t, "insert") ELSE Finish(t)
  /\ UNCHANGED <<positions, row, interrupted>>
  /\ WorkerFrame

InsertPosition(t) ==
  /\ pc[t] = "insert"
  /\ positions' = positions \cup {job[t]}
  /\ Finish(t)
  /\ UNCHANGED dbVars
  /\ WorkerFrame

RemoveAnyway(t) ==
  /\ pc[t] \in {"closed", "closeFailed"}
  /\ positions' = positions \ {job[t]}
  /\ Advance(t, "saveClosed")
  /\ UNCHANGED dbVars
  /\ WorkerFrame

RemovePosition(t) ==
  /\ pc[t] = "closed"
  /\ positions' = positions \ {job[t]}
  /\ Advance(t, "saveClosed")
  /\ UNCHANGED dbVars
  /\ WorkerFrame

SaveClosed(t) ==
  /\ pc[t] = "saveClosed"
  /\ SavePosition(job[t], "closed")
  /\ Advance(t, "closeFillShort")
  /\ UNCHANGED <<positions, ledger, interrupted>>
  /\ WorkerFrame

Trading(t) ==
  /\ ExecStep(t)
  /\ UNCHANGED <<loopVars, ramVars, dbVars, chanVars, chatVars, auxVars>>

WorkerStep(t) ==
  \/ Trading(t) \/ Failed(t)
  \/ SaveOpened(t) \/ SaveShortFill(t) \/ SaveLongFill(t) \/ InsertPosition(t)
  \/ RemovePosition(t) \/ SaveClosed(t)

-----------------------------------------------------------------------------
(* Time *)

\* ExpiresAt of a pending proposal passes; snoozing of a pair is over.
ProposalTimesOut(id) ==
  /\ id \in proposals \ expired
  /\ expired' = expired \cup {id}
  /\ UNCHANGED <<execVars, loopVars, ramVars, dbVars, chanVars, chatVars, used, shutdowns, crashes, closeTaps>>

SnoozeEnds(pair) ==
  /\ pair \in snoozed
  /\ snoozed' = snoozed \ {pair}
  /\ UNCHANGED <<execVars, loopVars, proposals, positions, dbVars, chanVars, chatVars, auxVars>>

ExpireShown ==
  /\ at = "select"
  /\ proposals \cap expired \cap shown # {}
  /\ proposals' = proposals \ (expired \cap shown)
  /\ UNCHANGED <<execVars, loopVars, positions, snoozed, dbVars, chanVars, chatVars, auxVars>>

\* The cleanup ticker.
ExpireProposals ==
  /\ at = "select"
  /\ proposals \cap expired # {}
  /\ proposals' = proposals \ expired
  /\ UNCHANGED <<execVars, loopVars, positions, snoozed, dbVars, chanVars, chatVars, auxVars>>

-----------------------------------------------------------------------------
(* The user and the Telegram bot *)

TapQueues(id, verdict) ==
  /\ at # "down"
  /\ id \in shown
  /\ approvalCh' = Append(approvalCh, [trade |-> id, verdict |-> verdict])
  /\ approved' = IF verdict = "approve" THEN approved \cup {id} ELSE approved
  /\ UNCHANGED <<execVars, loopVars, ramVars, dbVars, closeCh, shown, alerted, auxVars>>

\* handleUpdate blocks while the channel is full.
Tap(id, verdict) ==
  /\ at # "down"
  /\ id \in shown
  /\ Len(approvalCh) < ChanCap
  /\ approvalCh' = Append(approvalCh, [trade |-> id, verdict |-> verdict])
  /\ approved' = IF verdict = "approve" THEN approved \cup {id} ELSE approved
  /\ UNCHANGED <<execVars, loopVars, ramVars, dbVars, closeCh, shown, alerted, auxVars>>

TapClose(id) ==
  /\ at # "down"
  /\ id \in alerted
  /\ Len(closeCh) < ChanCap
  /\ closeTaps < MaxCloseTaps
  /\ closeTaps' = closeTaps + 1
  /\ closeCh' = Append(closeCh, id)
  /\ UNCHANGED <<execVars, loopVars, ramVars, dbVars, approvalCh, chatVars, used, expired, shutdowns, crashes>>

-----------------------------------------------------------------------------
(* Shutdown, crash, restart *)

CancelContext ==
  /\ at # "down"
  /\ ~cancelled
  /\ shutdowns < MaxShutdowns
  /\ shutdowns' = shutdowns + 1
  /\ CutRequests
  /\ UNCHANGED <<venues, pc, job, fill, held, net, alarms, misled, loopVars, ramVars, dbVars, chanVars,
                 chatVars, used, expired, crashes, closeTaps>>

LeaveLoop ==
  /\ at = "select"
  /\ cancelled
  /\ at' = "exited"
  /\ UNCHANGED <<execVars, cur, todo, ramVars, dbVars, chanVars, chatVars, auxVars>>

\* What is in memory is gone, the goroutines of execute and closePosition too:
\* nobody waits for them.
ProcessGone ==
  /\ at' = "down"
  /\ cancelled' = FALSE
  /\ inFlight' = {}
  /\ cur' = NoTrade
  /\ todo' = {}
  /\ proposals' = {}
  /\ positions' = {}
  /\ snoozed' = {}
  /\ approvalCh' = <<>>
  /\ closeCh' = <<>>
  /\ pc' = [t \in Task |-> "idle"]
  /\ job' = [t \in Task |-> NoTrade]
  /\ fill' = [t \in Task |-> NoFill]
  /\ interrupted' = interrupted \cup {job[t] : t \in {u \in Task : pc[u] \in Opening}}
  /\ UNCHANGED <<venues, held, net, alarms, misled, row, ledger, chatVars, used, expired,
                 shutdowns, closeTaps>>

ExitProcess == at = "exited" /\ ProcessGone /\ UNCHANGED crashes

Crash ==
  /\ at # "down"
  /\ crashes < MaxCrashes
  /\ crashes' = crashes + 1
  /\ ProcessGone

RestartForgets ==
  /\ at = "down"
  /\ at' = "select"
  /\ venues' \in Modes
  /\ UNCHANGED <<cancelled, inFlight, pc, job, fill, held, net, alarms, misled, cur, todo, ramVars, dbVars,
                 chanVars, chatVars, auxVars>>

\* New rehydrates the open positions; the mode is read from the environment anew.
Restart ==
  /\ at = "down"
  /\ at' = "select"
  /\ venues' \in Modes
  /\ positions' = {id \in Trade : row[id] = "open"}
  /\ UNCHANGED <<cancelled, inFlight, pc, job, fill, held, net, alarms, misled, cur, todo, proposals, snoozed,
                 dbVars, chanVars, chatVars, auxVars>>

-----------------------------------------------------------------------------
LoopStep ==
  \/ ReceiveCandidate \/ PairCheck \/ CapCheck \/ SymbolCheck \/ SendProposal
  \/ HandleApproval
  \/ \E id \in Trade : HandleCloseRequest(id) \/ MonitorPosition(id)
  \/ \E s \in Symbol : ReceiveTick(s)
  \/ ExpireProposals
  \/ LeaveLoop

Environment ==
  \/ \E id \in Trade : ProposalTimesOut(id) \/ TapClose(id)
  \/ \E id \in Trade, verdict \in Verdict : Tap(id, verdict)
  \/ \E id \in Trade : SnoozeEnds(Pair(id))
  \/ CancelContext \/ ExitProcess \/ Crash \/ Restart

Next == LoopStep \/ (\E t \in Task : WorkerStep(t)) \/ Environment

Spec == Init /\ [][Next]_vars

-----------------------------------------------------------------------------
\* Every variable stays in its domain, and both channels within their capacity.
TypeOK ==
  /\ venues \in Modes
  /\ cancelled \in BOOLEAN
  /\ inFlight \subseteq Task
  /\ pc \in [Task -> {"idle"} \cup Opening \cup Closing \cup Saving]
  /\ job \in [Task -> Trade \cup {NoTrade}]
  /\ fill \in [Task -> [Leg -> Int]]
  /\ held \in [Trade -> [Leg -> Int]]
  /\ net \in [Venue -> [Symbol -> Int]]
  /\ alarms \subseteq Trade \X Leg
  /\ misled \subseteq Trade \X Leg
  /\ at \in LoopStates
  /\ cur \in Trade \cup {NoTrade}
  /\ todo \subseteq Trade
  /\ proposals \subseteq Trade
  /\ positions \subseteq Trade
  /\ snoozed \subseteq [symbol : Symbol, short : Venue, long : Venue]
  /\ row \in [Trade -> {"none", "open", "closed"}]
  /\ ledger \in [Trade -> [Leg -> Int]]
  /\ interrupted \subseteq Trade
  /\ approvalCh \in Seq([trade : Trade, verdict : Verdict]) /\ Len(approvalCh) <= ChanCap
  /\ closeCh \in Seq(Trade) /\ Len(closeCh) <= ChanCap
  /\ shown \subseteq Trade
  /\ alerted \subseteq Trade
  /\ approved \subseteq Trade
  /\ used \subseteq Trade
  /\ expired \subseteq Trade
  /\ shutdowns \in 0 .. MaxShutdowns
  /\ crashes \in 0 .. MaxCrashes
  /\ closeTaps \in 0 .. MaxCloseTaps

Busy(id) == \E t \in Task : job[t] = id

\* Nothing was traded or recorded for the proposal, and nobody is about to.
Untouched(id) == held[id] = NoFill /\ row[id] = "none" /\ ~Busy(id)

\* A proposal is executed at most once, however often its buttons are tapped,
\* delivered again or used after a restart: as long as it is pending nothing was
\* traded for it, and two goroutines never open the same trade
\* (strategy.go:182-213).
TradedAtMostOnce ==
  /\ \A id \in proposals : Untouched(id)
  /\ \A t, u \in Task : pc[t] \in Opening /\ pc[u] \in Opening /\ job[t] = job[u] => t = u

\* A proposal that ran out while it was pending is never traded, even when an
\* approval was already on its way (strategy.go:202-207, PLAN.md:191).
ExpiredNeverTraded == \A id \in expired : Untouched(id)

\* Whatever was traded was approved by the user, across crashes, stale buttons and
\* messages that Telegram delivered although the call failed (PLAN.md:131).
ApprovedBeforeTraded == \A id \in Trade : Untouched(id) \/ id \in approved

\* While the process runs, with a working database and no shutdown under way, a row
\* that says "open" is monitored or in the hands of a goroutine: inserts, closes,
\* crashes and rehydration never lose a recorded position (strategy.go:41-70, 215-293).
OpenRowIsMonitored ==
  at # "down" /\ ~cancelled /\ ~StoreFails =>
    \A id \in Trade : row[id] = "open" => id \in positions \/ Busy(id)

\* Whatever the exchange holds for a leg of a trade shows in the positions table, is
\* being worked on, or was reported for a manual close: through overlapping closes,
\* shutdowns, crashes and restarts, refused and partly filled orders, and legs of
\* other trades that net out.  Three things escape the bot, and nothing else: an order
\* that did not do what its answer was taken for, an opening that the end of the
\* process broke off, and one whose row could not be written (executor.go:64-123,
\* strategy.go:215-293).
ExposureTracked ==
  \A id \in Trade \ interrupted, leg \in Leg :
    held[id][leg] # 0 /\ <<id, leg>> \notin misled =>
      row[id] = "open" \/ Busy(id) \/ \E l \in Leg : <<id, l>> \in alarms

\* The fills table adds up to what was traded once no goroutine works on the trade
\* (strategy.go:241-246 and 287-288).
LedgerReconciles == \A id \in Trade : ~Busy(id) => ledger[id] = held[id]

-----------------------------------------------------------------------------
Executing(id) == \E t \in Task : job[t] = id /\ pc[t] \in Opening

PhaseOf(id) ==
  IF row[id] # "none" THEN row[id]
  ELSE IF id \in proposals THEN "pending"
  ELSE IF Executing(id) THEN "executing"
  ELSE IF id \in used THEN "void"
  ELSE "new"

Lifecycle == INSTANCE TradeLifecycle WITH
  phase <- [id \in Trade |-> PhaseOf(id)],
  consented <- approved

\* The positions table, the proposals and the goroutines together walk every trade
\* through the life the user expects, through crashes and restarts.
ImplementsLifecycle == Lifecycle!LifecycleSpec

-----------------------------------------------------------------------------
(* Fairness: goroutines are scheduled and venue calls end (their contexts time   *)
(* out), time passes, and select picks among its ready cases at random, so that  *)
(* none that is ready again and again is passed over for ever.  Nothing is       *)
(* assumed of the user, of candidates, ticks, crashes and restarts.              *)

Fairness ==
  /\ WF_vars(PairCheck \/ CapCheck \/ SymbolCheck \/ SendProposal)
  /\ WF_vars(\E id \in Trade : MonitorPosition(id))
  /\ SF_vars(HandleApproval)
  /\ SF_vars(\E id \in Trade : HandleCloseRequest(id))
  /\ SF_vars(ExpireProposals)
  /\ \A t \in Task : WF_vars(WorkerStep(t))
  /\ \A id \in Trade : WF_vars(ProposalTimesOut(id))

FairSpec == Spec /\ Fairness

\* No proposal is pending for ever, answered or not (strategy.go:342-350).
ProposalsSettle == \A id \in Trade : id \in proposals ~> id \notin proposals

\* A position whose Close button was tapped ends up closed in the positions table,
\* although ticks, candidates and other approvals compete for the loop
\* (strategy.go:260-293).
CloseServed ==
  \A id \in Trade :
    id \in positions /\ (\E i \in 1 .. Len(closeCh) : closeCh[i] = id) ~> row[id] = "closed"

-----------------------------------------------------------------------------
(* What comments and documents of the repository say and the code does not do *)

\* PLAN.md:181: the caps are a hard ceiling, enforced in code.
CapsRespected ==
  /\ Cardinality(positions) * Size <= MaxNotional
  /\ \A s \in Symbol :
       Cardinality({id \in positions : Candidate[id].symbol = s}) <= MaxPositionsPerSymbol

\* strategy.go:1-2: positions live in RAM and every change is mirrored to SQLite.
PositionsMirrored == \A id \in positions : row[id] = "open" \/ Busy(id)

\* executor.go:99: Close closes both legs of an open position.
ClosedIsFlat == \A id \in Trade : row[id] = "closed" /\ ~Busy(id) => held[id] = NoFill

\* PLAN.md:109: the table is the authoritative record of open arbs, so that a
\* restart finds them; without a crash, what is held when the process has ended
\* is on record.
StoppedIsRecorded ==
  at = "down" => \A id \in Trade : held[id] # NoFill => row[id] = "open"

=============================================================================
