# Verification of fab-bot

fab-bot is a funding-rate arbitrage bot: it follows the funding rates of
perpetual futures on several exchanges, proposes to short the venue with the
higher rate and to go long on the other, asks its user through Telegram, and
opens, watches and closes the two legs. This directory holds TLA+ modules of
its core logic, TLC configurations that check them on small instances, and
TLAPS proofs of the results that hold for every instance.

    tlc -workers 2 -config TwoLeg.cfg MCTwoLeg     # model-check one configuration
    tlapm StrategyLifecycle.tla                    # check the proofs of one module

Paths below are relative to the repository; `strategy.go` stands for
`internal/strategy/strategy.go` and so on.

## 1. Inventory

| component | state | operations | talks to |
|---|---|---|---|
| executor (`executor.go`) | `venues`, nothing else; the progress of a call is its program counter | `Open`: limit order on the short leg, market order on the long leg, unwind of the short leg when the long one fails; `Close`: short leg, then long leg | called by goroutines of the strategy, calls the venues |
| venue adapters, order side (`sim.go`, `binance.go`, `bybit.go`) | none; the positions are at the exchange | `PlaceOrder`, `ClosePosition` | exchanges (external) |
| market data feeds (same files) | a connection, a backoff and an error channel for each loop; the channels of ticks; the goroutines of the websocket libraries | `SubscribeFunding`, `streamSymbol`, `streamLoop` and their callbacks | exchanges (external), ingestors |
| strategy (`strategy.go`) | `proposals`, `positions` (with a lock that only some accesses take), `snoozed`, `latestTicks` | `Run`'s select: candidate, tick, approval, close request, cleanup ticker, context; `execute` and `closePosition`, each on a goroutine of its own | engine, Telegram, executor, store |
| Telegram bot (`bot.go`) | the library's offset and channel of updates; `approvalCh`, `closeCh` (16 each) | long poll, callbacks of the buttons, `SendProposal`, `SendPositionAlert`, `/status`, `/positions` | Telegram (external), strategy |
| store (`store.go`, `schema.sql`) | tables `positions`, `fills`, `funding_history` | `SavePosition`, `SaveFill`, `OpenPositions`, `SaveTick`, ... one connection | strategy, ingestors |
| engine (`engine.go`) | `latest` tick of each venue and symbol, `lastEmit` of each pair | `Run`: update, evaluate, send candidates | tick channels, `candidateCh` (64) |
| process (`main.go`, `fab-bot.service`) | root context, errgroup, tick channels, execution mode | start, fan-in of the ticks, splitter, shutdown; systemd restarts after a failure | everything |
| configuration (`config.go`) | limits and thresholds | read once from the environment | everything |

What is hard about it:

* **Two orders, two exchanges, no transaction.** Either order may be refused,
  time out after it traded, or be cut off by the cancelled context; the unwind
  may fail as well.
* **Goroutines beside the owner.** The strategy calls itself the single owner
  of the positions, but `execute` and `closePosition` run concurrently with
  its loop, with the monitor's snapshot and with each other; the candidate
  checks and the close handler read the map without its lock.
* **The user is asynchronous.** Buttons stay in the chat; they are tapped
  twice, late, after a restart, or for a message whose sending was reported as
  failed.
* **Three states that must agree.** Exchange, table and RAM are written one
  after the other; crash, shutdown or a refused write may come in between.
* **Bounded channels with two policies.** Ticks are dropped when a channel is
  full; candidates, approvals and close requests block their sender.
* **Foreign goroutines.** The websocket libraries call the adapters back on
  goroutines of their own, which may block in a callback or outlive the loop
  that started them and the channel they write to.
* **Time.** Staleness, debounce, proposal expiry, snoozing and the
  pre-settlement window are each compared once, and acted on later.

What makes each component correct: the executor leaves no exposure that it could
know of and tells nobody; the strategy executes what the user approved, in time, once, and
never loses track of a position; a pending proposal and a tapped Close are
eventually settled; the engine works on ever newer ticks, proposes no venue that
has fallen silent, and does not starve an opportunity; the feeds come back after an error, back off, and never send on
a closed channel; an open position that loses is alerted on, and one that does
not is left alone. The hazards, each at its line with the properties that look at it, are
listed in `PROJECT.json`.

## 2. Modules

| module | what it is |
|---|---|
| `Venues` | order side of the adapters: for each call, the set of possible answers (error, quantity traded, quantity the `Fill` claims). Constant operators, no state |
| `Executor` | steps of `Open` and `Close`, one per venue call, for any number of goroutines. Extends `Venues`; has no `Next` of its own |
| `TwoLegExecution` | `Executor` closed with the weakest caller: any trade opened once, closed until `Close` succeeds, the context cancelled between two venue calls or during one |
| `AtomicTrade` | abstract: what a caller of the executor may rely on |
| `Strategy` | `Executor` closed with the real caller: strategy loop, Telegram buttons and channels, tables, shutdown, crash, restart |
| `TradeLifecycle` | abstract: the life of a trade as the user sees it |
| `Engine` | tick channels with their drops, the splitter, the engine, the clock |
| `EntryTiming` | `Engine` with the life of a proposal in time: how close to the settlement a position is entered |
| `Feed` | the loops of the adapters that keep the market data coming, the goroutines that read the connections, Binance's collector, the channels up to the ingestors |
| `FundingFeed` | abstract: what `venue.go` promises of `SubscribeFunding` |
| `Watch` | one open position: its ticks, the monitor's comparison and alert, the tap on Close and its way through the long poll and the Telegram loop, crash, restart and redelivery |
| `MCTwoLeg`, `MCStrategy`, `MCEngine`, `MCEntryTiming`, `MCFeed`, `MCWatch` | instances for TLC |
| `ExecutorProofs`, `TwoLegProofs`, `StrategyProofs`, `StrategyLifecycle`, `StrategyExposure`, `EngineProofs`, `FeedProofs`, `WatchProofs` | lemmas and theorems |

Correspondence with the code. `PROJECT.json` maps every definition to its
lines; in short:

* *One step is what cannot be interrupted in a way that matters*: a venue call,
  a database write, a locked section, one unlocked read of a shared map, one
  case of a select. So `handleCandidate` is four steps (`PairCheck`,
  `CapCheck`, `SymbolCheck`, `SendProposal`), since `positions` may change
  between its unlocked reads, and `monitorPositions` is one step for the
  snapshot and one per position. Each of `execute` and `closePosition` is the
  executor's steps followed by its writes in the order of the code.
* `held[id][leg]` is what the exchange really traded for a leg, signed, and
  `fill` what the adapter's answers claim: the two differ where the code's
  knowledge differs from the truth. `net` is the position of the account at each
  venue and symbol, updated by every order together with `held`, since the live
  venues net all trades of a symbol; reduce-only orders depend on it. It starts
  with any of the `Holdings`, what the user traded on the account by hand.
* A cancelled context reaches Binance's requests only (`svc.Do(ctx)`; Bybit's
  adapter drops it, the simulator ignores it). `CutRequests` says which
  goroutines had a request under way (`inFlight`): such a request returns an error
  or its answer, and may have traded either way (`CutOff`); one that is not sent yet
  returns an error and trades nothing (`Stopped`). An answer that does not arrive
  within the timeout is the fault `"lost"`.
* `misled` is a history of what no answer gave away. The executor takes an error
  for "nothing was traded" and a success for "the leg is now where this order was
  to bring it": in full when it opens, flat when it closes. A leg of which an
  order did otherwise is a member from then on: an answer lost or cut off
  after the order traded, a partial fill, a close that took the quantity of
  another trade or went through flat. `interrupted` in `Strategy` is the history of the
  openings that the end of a process broke off, or whose row was refused.
* `CloseSide` reproduces the live adapters as they are: to close a short leg
  they *sell*, contrary to their comment.
* A proposal and the position made from it have one identifier. A snoozed
  pair is a member of `snoozed` until `SnoozeEnds`; a proposal whose
  `ExpiresAt` has passed is a member of `expired`. Times are events, not
  numbers, in `Strategy`; `Engine` and `EntryTiming` count them, relative to
  now, up to the bound beyond which the code makes no difference, so that the
  clock may run for ever in a finite model.
* `Crash` loses everything but the tables, the exchange and the chat;
  `CancelContext` starts a shutdown, in which the loop leaves and the process ends
  without waiting for the goroutines of `execute` and `closePosition`, which
  are not in the errgroup. `Restart` may choose another execution mode.
* In `Feed` a *link* is one loop: one for each symbol of Binance, one for all
  of Bybit, the generator of a simulator. `pc` is where the loop stands,
  `reader` what the goroutine of its present connection does, `leftover` that
  one of an earlier connection still runs. The select of a connected loop is
  one action for each of its cases, the wait for `doneC` after `close(stopC)`
  is a state of its own (`resetting`, `stopping`), and so is a callback that
  waits for room in `errCh` (`reportBad`, `reportLost`): the two can wait for
  each other. What the libraries do was read off the calls the adapters make
  and is external. Ticks are counted, not told apart, and counted only where
  a goroutine waits for them.
* `Watch` is `Strategy` seen from one position, with the data that `Strategy`
  leaves open: there any alert may be sent at any tick, here the latest rates
  decide. What happens to the position itself (a close that fails or
  succeeds, the rows) is reduced to `open`, which `Strategy` has in full.
  Telegram keeps the batch it handed out last (`unconfirmed`) until the library
  polls again, which it does once the batch is in its channel (`fetched`); a crash
  loses the channel and brings that batch back.
* Left out, since nothing decides on it: prices, fees, order identifiers,
  the wording of messages, logging.

External, modelled from how the code uses it: the exchanges (may refuse any
order; with a fault set also lose an answer or fill a limit order in part), net
positions and reduce-only orders, the websocket libraries, Telegram, the
machine, the clock.

## 3. Runs

All bounds are constants of the configurations. `CHECK_DEADLOCK FALSE` stands
where the model comes to rest because all trades of the instance are used up
or (`Feed`) because all goroutines have returned; `Engine.cfg` and `Watch.cfg`
check for deadlock.

Passing:

| run | instance | what it shows |
|---|---|---|
| `TwoLeg` | 2 goroutines, 3 trades (two live ones that net out on both venues, one paper), every fault of an exchange, a cancelled context | `OpenedIsCovered`: what `Open` reports open has its long leg in full and no more than that sold, both in full where limit orders are not filled in part, and fills that say so except on Bybit. `EveryLegAccounted`: no leg is held that is not under way, known as open, reported for a manual close, or misled. `ImplementsAtomicTrade`: refinement of `AtomicTrade` |
| `StratTrades` | 2 goroutines, a paper and a live trade, either mode, every fault of an exchange, an account with positions of its own, 1 shutdown, 1 crash, 2 taps on Close | `TradedAtMostOnce`, `ExpiredNeverTraded`, `ApprovedBeforeTraded`: every trade is consented to, in time, executed once. `OpenRowIsMonitored`: no recorded position is lost. `ExposureTracked`: what the exchange holds for a leg is recorded open, under way, reported, misled or of an opening that broke off; a second close that trades again on a simulator misleads. `ImplementsLifecycle`: refinement of `TradeLifecycle` |
| `StratPaper` | 2 paper trades, 2 taps on Close, fairness | `LedgerReconciles`: the fills table sums up to what was traded. `ProposalsSettle`, `CloseServed`: liveness |
| `Engine` | 2 venues, 1 symbol, channels of capacity 1 | `NeverGoesBack`: dropped and delayed ticks never make the engine return to an older tick. `SilentVenueRests`: a venue that has not sent for longer than the staleness bound is part of no candidate, however late its last tick was looked at. `LastingOpportunityRecurs`: the debounce does not starve an opportunity |
| `Feed` | a loop of each adapter, channels of capacity 1, up to 3 errors of a connection | `PanicOnlyAtShutdown`: a reader that outlives its loop finds the channel open unless the bot is being stopped. `OneReader`: a symbol of Binance is never read twice at a time. `HungOnlyByErrors`: it takes three errors of one connection to hang a loop. `ReconnectsBackOff`: the pause before a dial has doubled with every dial that failed. `FeedRecovers`: a stream that reports or ends is dialled again. `ImplementsFundingFeed`: refinement of `FundingFeed`; its liveness unless the process panics during the shutdown, which `FundingFeed` knows nothing of |
| `Watch` | 1 position, 2 rates, channels of capacity 1, 2 updates at Telegram, 1 crash, 2 taps on Close | `LosingPositionAlerted`: a position that keeps losing is alerted on again and again. `AlertsCease`: one that has recovered is not. `CloseHeard`: every tap on Close reaches the strategy. `TapsAccounted`: on its way it is in one place, never dropped or doubled, and a restart owes the strategy what Telegram delivers again |

Violations, each a place where the code does not do what a comment or document
of the repository says (quoted in `PROJECT.json`):

| run | property | what happens |
|---|---|---|
| `TwoLegUnwind` | `LegBFailureClosesLegA` | the unwind of a live leg A sells once more, is refused as not reducing, and leg A stays open. The same side is used by every regular close |
| `StratCaps` | `CapsRespected` | two proposals are pending, each within the caps; both are approved |
| `StratMirror` | `PositionsMirrored` | the monitor writes a position of its snapshot back after `closePosition` deleted it |
| `StratDoubleClose` | `ClosedIsFlat` | two taps start two closes; both trade, and a simulator ends with the opposite position |
| `StratShutdown` | `StoppedIsRecorded` | a shutdown while `execute` trades: the save uses the cancelled context, the process does not wait, and the position is on no record |
| `EntryWindow` | `EntriesAvoidSettlement` | a candidate found before the pre-settlement window is proposed or approved inside it |

More disagreements have no run of their own:

* A limit leg that fills in part is treated as full: the market leg is sized as
  if it had filled, and the position that `executor.go:37` calls delta-neutral is
  long. On Bybit the fill even repeats the size of the order (`bybit.go:198-214`).
  `PLAN.md:108` says partial fills are handled; `OpenedIsCovered` says what is left.
* `PLAN.md:169` says that the ingestors block when the engine falls behind ("the
  desired backpressure signal"), and `PLAN.md:131` that a full channel blocks its
  producer. The code drops the tick instead (`main.go:113-117` and 139-147), and so
  does the model: its tick channels hold up nobody.
* A restart in the other execution mode rehydrates positions whose venues the
  process does not have: they are neither monitored nor closeable.
* `PLAN.md:103` promises heartbeats and exponential backoff for the feeds. The
  loops have no timeout of their own, so that a silent Binance connection is
  never given up (`GoesSilent` in `Feed`, which `FeedRecovers` therefore does
  not speak of); and Bybit's backoff is reset by the dial, so that a
  subscription that keeps failing is repeated every second, each time on a
  connection that nobody closes. `ReconnectsBackOff` counts failed dials only.
* `TRADE_NOTIONAL_USDT`, an amount in USDT (`config.go:45`), is used as the
  order's size (`strategy.go:217`), which the live adapters send as a quantity
  of the base asset. The models have one unit of size and do not show it.
* The loop of one symbol of Binance may hang for good (`Hung` in `Feed`): the
  error callback waits for room in `errCh` while the loop waits for it to end.
  `HungOnlyByErrors` says what it takes: the one buffered and the one received
  error are not enough.

### Bounds, and why they are enough

* Two goroutines, two trades: every race of the code is between two goroutines
  of one trade (two closes, a close and the monitor) or of two trades of one
  pair (caps, netting). `Task` bounds the number that run at a time, and an
  approval that finds none free waits, which delays it but prunes no order of
  events for two trades. A third trade adds repetitions of these races; the
  theorems hold for any number.
* `ChanCap = 1` for the channels of 16: full is reached with one element. The
  same holds of the tick and candidate channels (64 to 1024) in `Engine`,
  `Feed` and `Watch`, and of the library's channel of updates. A tick in
  `tickForStrategy` is old once its venue has sent another that was dropped, and a
  second poll fills the channel of updates past its capacity.
* `MaxShutdowns`, `MaxCrashes`, `MaxCloseTaps` count events that the user or
  the machine causes; taps on proposal buttons are not bounded. One shutdown
  and one crash already allow two restarts in either order.
* Rates `{0, 2}` with a cost of 1: each venue may be the better short, so that
  the direction can flip. `StaleAfter = 2`, `Period = 3`, `PreSettlement = 1`,
  `Debounce = 2`: each comparison of `evaluate` comes out both ways at each
  pair of ticks, and an opportunity can last while time passes; a tick that
  arrives with one unit left falls into the window before it is stale, and one that
  arrives with three is stale before it falls into the window.
* The account of `StratTrades` starts with a long position of the size of one trade
  at the short venue of the live trade, and a short one of twice that at the other.
  The live adapters close on the wrong side, so that a close trades only where the
  account holds something else, and takes that: the long leg can be closed, the
  short one when its limit order did not fill. Without it every live close would be
  refused at its first order.
* `StratTrades` runs with a database that works, apart from the writes that a
  shutdown refuses; `StrategyTradesOnce`, `StrategyRespectsExpiry` and
  `StrategyAsksFirst` are proved for one that may refuse any write as well.
* One loop for each adapter in `Feed`: loops share nothing but the channel of
  ticks, whose other writers a full channel stands for. `MaxErrors = 3` is
  where a loop can hang; `MaxFailures = 2` and `Ceiling = 4` let the backoff
  reach its bound and be cut off at it.
* One position in `Watch`, since the alerts of two positions differ only in how
  long they keep the loop. Rates `{0, 2}` and a cost of 1 give a spread that
  flips, one below the threshold and one above it. Two updates, so that a tap
  on Close stands behind a verdict.

### Fairness

`FairSpec` (`StratPaper`) assumes that goroutines are scheduled and venue
calls end (they have timeouts), that time passes, and strong fairness for
the select cases of `Run`: Go picks among ready cases at random, so that a
case that is ready again and again is taken. Nothing is assumed of the user,
of candidates and ticks, and no shutdown happens in the run, since a process
that is gone settles nothing. `EngineSpec` assumes that the splitter and the
engine are scheduled and time passes; nothing of the venues, and nothing of
the strategy, which may wait for Telegram. `LastingOpportunityRecurs` itself
asks that the candidate channel is empty again and again.

`FairFeedSpec` assumes that the adapters' goroutines are scheduled, that dials
and timers end, that a reader which has an error to report reports it when
there is room, that the reads of a connection fail once it was stopped, and that
Bybit's `Start` notices that its reader ended. Nothing is assumed of the
exchanges: ticks, errors, silence and the cancellation may come or not. The
hang is in the model, so that `FeedRecovers` has it as an outcome.

`WatchSpec` assumes that calls of Telegram end, that the bot's loop is
scheduled, that the library keeps polling, and strong fairness for the cases of
the strategy's select, as in `FairSpec`. Nothing is assumed of the venues and of the user: the two
properties about alerts say for themselves that the rates settle and that
ticks of both venues get into the channel again and again. A market that flips
faster than its ticks are heard is only sampled.

## 4. Proofs

All theorems hold for any venues, trades, goroutines, capacities and limits
that satisfy the named assumptions of the modules.

| theorem | says | under |
|---|---|---|
| `TwoLegTypeCorrect`, `StrategyTypeCorrect` | type invariants | - |
| `TwoLegCovers` | `[]OpenedIsCovered`, whatever the exchanges do | - |
| `TwoLegAccounts` | `[]EveryLegAccounted`: lost answers, partial fills, netting and requests cut off included | - |
| `TwoLegImplementsAtomic` | `TwoLegExecution` implements `AtomicTrade` | - |
| `StrategyTradesOnce` | `[]TradedAtMostOnce` | - |
| `StrategyRespectsExpiry` | `[]ExpiredNeverTraded` | - |
| `StrategyAsksFirst` | `[]ApprovedBeforeTraded` | - |
| `StrategyKeepsPositions` | `[]OpenRowIsMonitored` (the property itself is about a working database) | `StoreWorks` |
| `StrategyImplementsLifecycle` | `Strategy` implements `TradeLifecycle` | `StoreWorks` |
| `StrategyTracksExposure` | `[]ExposureTracked`: overlapping closes, refused writes, shutdowns, crashes and restarts included | - |
| `StrategyLedgerReconciles` | `LedgerReconciles` as long as the process is not stopped, any number of closes at a time included | `StoreWorks`, all trades on simulators |
| `EngineTypeCorrect` | type invariant of `Engine` | - |
| `EngineNeverGoesBack` | `NeverGoesBack`, for any capacities and any drops | - |
| `EngineRestsSilentVenues` | `SilentVenueRests`, for any capacities and however long a tick waits | - |
| `FeedTypeCorrect` | type invariant of `Feed` | - |
| `FeedPanicsOnlyAtShutdown` | `[]PanicOnlyAtShutdown` | - |
| `FeedHasOneReader` | `[]OneReader` | - |
| `FeedHangsOnlyByErrors` | `[]HungOnlyByErrors` | - |
| `FeedBacksOff` | `[]ReconnectsBackOff`, for any ceiling and number of failures | `PowersOfTwo` |
| `FeedKeepsContract` | the safety part of `FundingFeed` | - |
| `WatchTypeCorrect` | type invariant of `Watch` | - |
| `WatchLosesNoTap` | `[]TapsAccounted`, for any capacities, crashes and redelivery included | - |

The hypotheses, and what they leave out (none is about the exchanges or about which
trades there are; what the code cannot know of its orders is in the properties
themselves, as `misled` and `interrupted`):

* `StoreWorks`: the database refuses no write but those with a cancelled context.
  With a refused write the table and RAM part ways: an executed trade without a
  row becomes void for the user and is monitored nonetheless.
* `PowersOfTwo`: 2^0 = 1 and 2^(n+1) = 2 * 2^n, natural numbers. A fact, not a
  restriction; the provers know nothing of `^`.

How they go:

* `ExecutorProofs` proves what a venue call may answer and that a step of the
  executor keeps its variables typed and leaves the other goroutines alone.
  Both specifications that contain the executor rest on these lemmas.
* What is said of quantities on the exchanges rests on one fact about a venue call
  (`ExecStepLeg`): afterwards the leg is misled, or it holds what the answer is taken
  for, namely what it held before an error and the goal of the call after a success. So
  nothing need be known of the net positions, which depend on all trades and on the
  user. `Goal` says, for each place of a goroutine, what the legs of its trade are
  taken for, and `ExecStepGoal` that one venue call leads from one place to the next.
* `TwoLegCovers` needs to know what is held *between* the two orders:
  `CoverInv` says which legs each program counter stands for, what the fills of the
  goroutine say of them, and that no two goroutines share a trade. It speaks of what
  is held itself and has no use for `misled`.
* `TwoLegAccounts`: `AccountInv` adds that the caller's book has a trade from the
  return of its `Open` to that of its `Close`, and that each leg of a trade without an
  alarm is misled or at its goal, that of the place or, when nobody works on the
  trade, of the book. The refinement of `AtomicTrade` follows from it, step by step:
  the call and its return are `Begin` and `End`, and an order is `Order` or a stutter.
* The three safety theorems share the inductive invariant `IInv` of
  `StrategyProofs`. A pending proposal must be untouched, and it stays so only
  because of facts about everything else: identifiers not given out are
  untouched (`Fresh`), buttons and queued taps are of proposals given out and
  queued approvals were tapped (`Tapped`), whatever was traded or recorded is
  neither pending nor expired (`LiveIsSettled`), and a trade that is being
  opened has one goroutine and no row (`Alone`).
* `StrategyLifecycle` adds `Tracked`, which ties RAM, table and program
  counters together, and from it shows the refinement: each step of `Strategy`
  moves the phase of each trade along one arrow of `TradeLifecycle` or not at
  all; a crash and an exit move many trades at once.
* `StrategyTracksExposure`: closes of one trade may overlap, so that no goroutine's
  place says all that is held. `ExposureInv` claims only where a leg is flat
  (`Accounted`): where a goroutine of the trade is to have closed it or not yet
  opened it (`AtZero`), once the row says closed, and when there is neither a row nor
  a goroutine; each unless the trade has an alarm or the leg misleads. An order of
  another close that moves such a leg away from flat cannot reach its goal, and so
  misleads. That a row is there when it must be is `OnRecord`.
* `StrategyLedgerReconciles` adds up what overlapping closes trade. `LedgerInv`
  counts: what is held is what the fills table says and what the goroutines between
  the return of a fill and its write still owe it (`Owed`), each the size of the trade in the direction of its call. It needs
  that the busy goroutines are finitely many, and that each fill says what its
  place says (`Claimed`).
* `EngineProofs` orders the ticks of one venue and symbol by age along their
  way (`Order`): `latest` has the oldest, and only one (`OnePerFeed`), then
  come those in `tickForEngine`, then those in `tickCh`, each channel with its
  oldest first. A drop removes a tick before it joins a channel, and time ages
  all of them alike, so that neither breaks the order; and what the engine takes
  next is no older than what it replaces. For `SilentVenueRests`, `quiet` is no more
  than the age of any tick of the feed, since both grow together and a new tick
  starts at zero. That a candidate has two different
  venues, which its type asks for, follows from `OnePerFeed` and from costs and
  threshold that are not negative together.
* `FeedProofs` has four invariants. `Quiet`: before the context is cancelled
  no loop stops and no channel is closed, so that a late send finds it
  open. `Alone`: a loop of Binance that dials or pauses has no reader left, since
  it left its select only over `doneC`; hence there is one. `Counted`:
  the errors of a connection are at least those in `errCh`, under way in the
  callback, and received by the loop, of which a hang needs three, or two
  when the loop was stopped by the context. `Paced`: the backoff is at least what
  the failures in a row ask for, and half of it during the pause, which doubles it
  at its end.
* `WatchProofs` counts the taps on Close in the queue of updates, as the number of
  its places that hold one; an append, a removal at the front and a concatenation
  shift the places, which a bijection carries over to their number. What Telegram may
  deliver again is bounded by what was tapped (`Deliverable`).

Model-checked only: the liveness properties (`ProposalsSettle`, `CloseServed`,
`LastingOpportunityRecurs`, `FeedRecovers`, `LosingPositionAlerted`, `AlertsCease`,
`CloseHeard`), which are out of the
prover's reach, and with them the liveness part of `FundingFeed`. Every other
property of a passing run is stated by a theorem. The six violations are
counterexamples and have nothing to prove.

## 5. Not modelled

* What a tick says while it is in `Feed`: which of Bybit's messages yield one
  (a delta without the funding fields yields none, `bybit.go:134`), and the order
  of the ticks when two readers of Bybit overlap.
* The goroutines that save the tick history (`main.go:108`): nothing in the
  program reads what they write. Their number is not bounded by the code.
* A start that fails (configuration, database, Telegram token) ends the process
  before anything runs.
* Prices, and with them the zero limit price of `executor.go:62` and the unit of
  the trade size.
* Reading the configuration, formatting of messages, the `/status` and
  `/positions` replies, `funding_history` (written, never read by the program).
* The Go runtime's abort on a detected concurrent map access is a `Crash`.

## 6. Plan

Done: executor, strategy with bot and store, engine, feeds, the watch over a
position; their safety, liveness under fair scheduling, three abstract
specifications, twenty-three theorems. What could follow:

1. What a restart could reconstruct from the exchange, which the code does not ask:
   `misled` and `interrupted` are what such a reconciliation would have to find.
2. A statement about the sum of an account, net position against the legs held, next
   to the ones about each leg.
3. Sizes with a unit, and the notional cap for trade sizes that do not
   divide it.
