-------------------------------- MODULE Watch --------------------------------
(***************************************************************************)
(* How one open position is watched: its two venues send ticks, which      *)
(* reach the loop of Strategy.Run through tickForStrategy or are dropped;  *)
(* the loop compares the latest ticks and sends an alert; the user taps    *)
(* Close, the library polls Telegram for the tap, and the loop of bot.go   *)
(* carries it to the strategy, in the order of the updates and behind the  *)
(* approvals before it.                                                    *)
(*                                                                         *)
(* What the venues send and when, what the user taps, and how the library  *)
(* polls is external.                                                      *)
(* Rates, the cost and the threshold are integers of one small unit.       *)
(***************************************************************************)
EXTENDS Integers, Sequences, FiniteSets

CONSTANTS
  Rate,        \* the funding rates that occur
  NoTick,      \* a venue that has not sent a tick yet
  Cost,        \* cfg.CostPerRoundTrip
  MinNetEdge,  \* cfg.MinNetEdge
  TickCap,     \* capacity of tickForStrategy
  ChanCap,     \* capacity of approvalCh and closeCh
  UpdateCap,   \* capacity of the channel of UpdatesViaLongPolling
  MaxUpdates,  \* bound: updates Telegram holds for the bot, fetched or not
  MaxCloseTaps, \* bound: taps on Close of a behaviour
  MaxCrashes   \* bound: crashes of a behaviour

ASSUME WatchAssumption ==
  /\ Rate \subseteq Int
  /\ NoTick \notin Int
  /\ {Cost, MinNetEdge} \subseteq Int
  /\ {TickCap, ChanCap, UpdateCap, MaxUpdates} \subseteq Nat \ {0}
  /\ {MaxCloseTaps, MaxCrashes} \subseteq Nat

VARIABLES
  sent,        \* the rate each venue sent last, dropped or not
  ticks,       \* tickForStrategy
  latest,      \* s.latestTicks of the two venues
  loop,        \* Strategy.Run: at its select, or waiting for Telegram with an alert
  open,        \* the position is in s.positions
  alerted,     \* an alert with its Close button is in the chat
  updates,     \* taps that the library has not fetched from Telegram yet
  unconfirmed, \* the batch fetched last, which Telegram keeps until the next poll
  fetched,     \* fetched taps that the bot has not received: those in the channel of
               \* the library, and those its goroutine has yet to send
  inHand,      \* the tap handleUpdate works on
  approvalCh,  \* number of verdicts in approvalCh
  closeCh,     \* number of requests in closeCh
  owed,        \* history: taps on Close that the strategy has yet to see
  closeTaps,   \* counter for MaxCloseTaps
  crashes      \* counter for MaxCrashes

marketVars == <<sent, ticks>>
monitorVars == <<latest, loop, alerted>>
telegramVars == <<updates, unconfirmed, fetched>>
botVars == <<telegramVars, inHand, approvalCh, closeCh>>
auxVars == <<owed, closeTaps, crashes>>
watchVars == <<marketVars, monitorVars, botVars, open, auxVars>>

Leg == {"short", "long"}
Tap == {"verdict", "close"}
None == "none"

WatchInit ==
  /\ sent \in [Leg -> Rate]
  /\ ticks = <<>>
  /\ latest = [leg \in Leg |-> NoTick]
  /\ loop = "select"
  /\ open = TRUE
  /\ alerted = FALSE
  /\ updates = <<>>
  /\ unconfirmed = <<>>
  /\ fetched = <<>>
  /\ inHand = None
  /\ approvalCh = 0
  /\ closeCh = 0
  /\ owed = 0
  /\ closeTaps = 0
  /\ crashes = 0

-----------------------------------------------------------------------------
(* The venues and the splitter *)

\* A venue sends a tick; the splitter drops it when tickForStrategy is full.
SendTick(leg) ==
  /\ \E r \in Rate :
       /\ sent' = [sent EXCEPT ![leg] = r]
       /\ ticks' = IF Len(ticks) < TickCap
                   THEN Append(ticks, [leg |-> leg, rate |-> r])
                   ELSE ticks
  /\ UNCHANGED <<monitorVars, botVars, open, auxVars>>

-----------------------------------------------------------------------------
(* The loop of the strategy *)

\* monitorPositions: the spread flipped, or the edge is below the threshold.
Losing(rate) ==
  LET spread == rate["short"] - rate["long"]
  IN  spread < 0 \/ spread - Cost < MinNetEdge

Complete(view) == \A leg \in Leg : view[leg] # NoTick

KeepFirst(tick) == [latest EXCEPT ![tick.leg] = IF @ = NoTick THEN tick.rate ELSE @]

\* updateTick
Updated(tick) == [latest EXCEPT ![tick.leg] = tick.rate]

TakeTickOnce ==
  /\ loop = "select"
  /\ ticks # <<>>
  /\ ticks' = Tail(ticks)
  /\ latest' = Updated(Head(ticks))
  /\ loop' = IF open /\ ~alerted /\ Complete(latest') /\ Losing(latest') THEN "alert" ELSE "select"
  /\ UNCHANGED <<sent, alerted, botVars, open, auxVars>>

\* The tick case of Run: the position is checked at every tick of either venue once
\* both have spoken, and every check that fails sends an alert.
TakeTick ==
  /\ loop = "select"
  /\ ticks # <<>>
  /\ ticks' = Tail(ticks)
  /\ latest' = Updated(Head(ticks))
  /\ loop' = IF open /\ Complete(latest') /\ Losing(latest') THEN "alert" ELSE "select"
  /\ UNCHANGED <<sent, alerted, botVars, open, auxVars>>

\* SendPositionAlert returns; the message may be in the chat even when it failed.
AlertReturns ==
  /\ loop = "alert"
  /\ loop' = "select"
  /\ alerted' \in {alerted, TRUE}
  /\ UNCHANGED <<marketVars, latest, botVars, open, auxVars>>

TakeApproval ==
  /\ loop = "select"
  /\ approvalCh > 0
  /\ approvalCh' = approvalCh - 1
  /\ UNCHANGED <<marketVars, monitorVars, telegramVars, inHand, closeCh, open, auxVars>>

\* handleCloseRequest; the close it starts may fail, and the position stays.
TakeClose ==
  /\ loop = "select"
  /\ closeCh > 0
  /\ closeCh' = closeCh - 1
  /\ owed' = owed - 1
  /\ open' \in {open, FALSE}
  /\ UNCHANGED <<marketVars, monitorVars, telegramVars, inHand, approvalCh, closeTaps, crashes>>

-----------------------------------------------------------------------------
(* The user, the library and the loop of the bot *)

\* A tap on a proposal, or on Close below an alert.
UserTaps(tap) ==
  /\ Len(updates) + Len(unconfirmed) < MaxUpdates
  /\ updates' = Append(updates, tap)
  /\ IF tap = "close"
     THEN /\ alerted
          /\ closeTaps < MaxCloseTaps
          /\ closeTaps' = closeTaps + 1
          /\ owed' = owed + 1
     ELSE UNCHANGED <<closeTaps, owed>>
  /\ UNCHANGED <<marketVars, monitorVars, unconfirmed, fetched, inHand, approvalCh, closeCh, open, crashes>>

\* The library asks for the updates that came since, once the last batch is in its
\* channel.  Its request confirms that batch: Telegram forgets it.
Poll ==
  /\ updates # <<>> \/ unconfirmed # <<>>
  /\ Len(fetched) <= UpdateCap
  /\ unconfirmed' = updates
  /\ fetched' = fetched \o updates
  /\ updates' = <<>>
  /\ UNCHANGED <<marketVars, monitorVars, inHand, approvalCh, closeCh, open, auxVars>>

NextUpdate ==
  /\ inHand = None
  /\ fetched # <<>>
  /\ inHand' = Head(fetched)
  /\ fetched' = Tail(fetched)
  /\ UNCHANGED <<marketVars, monitorVars, updates, unconfirmed, approvalCh, closeCh, open, auxVars>>

ForwardQueues ==
  /\ inHand # None
  /\ inHand' = None
  /\ IF inHand = "close"
     THEN closeCh' = closeCh + 1 /\ UNCHANGED approvalCh
     ELSE approvalCh' = approvalCh + 1 /\ UNCHANGED closeCh
  /\ UNCHANGED <<marketVars, monitorVars, telegramVars, open, auxVars>>

ForwardDrops ==
  /\ inHand # None
  /\ inHand' = None
  /\ IF inHand = "close"
     THEN closeCh' = (IF closeCh < ChanCap THEN closeCh + 1 ELSE closeCh) /\ UNCHANGED approvalCh
     ELSE approvalCh' = (IF approvalCh < ChanCap THEN approvalCh + 1 ELSE approvalCh) /\ UNCHANGED closeCh
  /\ UNCHANGED <<marketVars, monitorVars, telegramVars, open, auxVars>>

\* handleUpdate waits until the channel of its tap has room; the taps behind it wait
\* as well, whatever their channel.
Forward ==
  /\ inHand # None
  /\ inHand' = None
  /\ \/ /\ inHand = "close" /\ closeCh < ChanCap
        /\ closeCh' = closeCh + 1
        /\ UNCHANGED approvalCh
     \/ /\ inHand = "verdict" /\ approvalCh < ChanCap
        /\ approvalCh' = approvalCh + 1
        /\ UNCHANGED closeCh
  /\ UNCHANGED <<marketVars, monitorVars, telegramVars, open, auxVars>>

-----------------------------------------------------------------------------
\* The taps on Close in a queue.
Closes(taps) == Cardinality({i \in DOMAIN taps : taps[i] = "close"})

\* A crash and the restart after it: the position comes back from its row, the latest
\* ticks and the taps that were on their way do not.  Telegram delivers the batch it
\* was not asked beyond again, with the taps that the strategy has seen already.
CrashAndRestart ==
  /\ crashes < MaxCrashes
  /\ crashes' = crashes + 1
  /\ ticks' = <<>>
  /\ latest' = [leg \in Leg |-> NoTick]
  /\ loop' = "select"
  /\ updates' = unconfirmed \o updates
  /\ unconfirmed' = <<>>
  /\ fetched' = <<>>
  /\ inHand' = None
  /\ approvalCh' = 0
  /\ closeCh' = 0
  /\ owed' = Closes(updates')
  /\ UNCHANGED <<sent, alerted, open, closeTaps>>

WatchNext ==
  \/ \E leg \in Leg : SendTick(leg)
  \/ TakeTick \/ AlertReturns \/ TakeApproval \/ TakeClose
  \/ \E tap \in Tap : UserTaps(tap)
  \/ Poll \/ NextUpdate \/ Forward
  \/ CrashAndRestart

\* Calls of Telegram end, the loops are scheduled, and select passes no case over
\* that is ready again and again.  Nothing is assumed of the venues and of the user.
WatchFairness ==
  /\ WF_watchVars(AlertReturns)
  /\ WF_watchVars(Poll) /\ WF_watchVars(NextUpdate) /\ WF_watchVars(Forward)
  /\ SF_watchVars(TakeTick) /\ SF_watchVars(TakeApproval) /\ SF_watchVars(TakeClose)

WatchSpec == WatchInit /\ [][WatchNext]_watchVars /\ WatchFairness

-----------------------------------------------------------------------------
\* Every variable stays in its domain and every channel within its capacity.
WatchTypeOK ==
  /\ sent \in [Leg -> Rate]
  /\ ticks \in Seq([leg : Leg, rate : Rate]) /\ Len(ticks) <= TickCap
  /\ latest \in [Leg -> Rate \cup {NoTick}]
  /\ loop \in {"select", "alert"}
  /\ open \in BOOLEAN
  /\ alerted \in BOOLEAN
  /\ {updates, unconfirmed, fetched} \subseteq Seq(Tap)
  /\ Len(updates) + Len(unconfirmed) <= MaxUpdates
  /\ Len(fetched) <= UpdateCap + MaxUpdates
  /\ inHand \in Tap \cup {None}
  /\ approvalCh \in 0 .. ChanCap
  /\ closeCh \in 0 .. ChanCap
  /\ owed \in 0 .. MaxCloseTaps
  /\ closeTaps \in 0 .. MaxCloseTaps
  /\ crashes \in 0 .. MaxCrashes

\* Every tap on Close that the strategy has yet to see is with Telegram, with the
\* library, in the hands of the bot or in closeCh, in one place only: whatever waits and
\* blocks, none is dropped, doubled or taken for a verdict (bot.go:63-143).  After a
\* crash the strategy is owed what Telegram still holds: taps that were confirmed are
\* lost, and some that it has seen come again.
TapsAccounted ==
  owed = Closes(updates) + Closes(fetched) + (IF inHand = "close" THEN 1 ELSE 0) + closeCh

Arrives(leg) == Len(ticks') > Len(ticks) /\ ticks'[Len(ticks')].leg = leg

BothHeard == \A leg \in Leg : []<><<Arrives(leg)>>_watchVars

Settled(rates) == <>[](sent = rates) /\ BothHeard

\* At rates that lose and stay, a position is alerted on again and again, although
\* ticks are dropped, alerts block the loop, and a restart forgets what the venues
\* sent, as long as both venues are heard (strategy.go:122-127 and 295-340,
\* PLAN.md:165).
LosingPositionAlerted ==
  \A rates \in [Leg -> Rate] :
    Losing(rates) /\ Settled(rates) /\ <>[]open => []<>(loop = "alert")

\* Once the rates are fine and stay so, the alerts stop: no dropped or queued tick
\* keeps the monitor in the past, as long as both venues are heard.  A venue that is
\* not heard keeps its last rate, and the alerts their answer, for ever
\* (strategy.go:308-331).
AlertsCease ==
  \A rates \in [Leg -> Rate] :
    ~Losing(rates) /\ Settled(rates) => <>[](loop # "alert")

\* Every tap on Close reaches the strategy, although verdicts before it fill their
\* channel and then that of the library, ticks and alerts keep the loop busy, and the
\* bot waits for the strategy (bot.go:63-143, strategy.go:85-118); a crash may lose it.
CloseHeard == owed > 0 ~> owed = 0

=============================================================================
