------------------------------- MODULE Engine -------------------------------
(***************************************************************************)
(* internal/engine and the tick channels of cmd/fab-bot/main.go in front   *)
(* of it: the ingestors put the ticks of all venues on tickCh, a splitter  *)
(* copies them to the engine, and whoever finds a channel full drops the   *)
(* tick; only the engine blocks, on candidateCh.                           *)
(*                                                                         *)
(* Time is relative: a tick carries its age and its time to funding, a     *)
(* pair the time since it was last emitted, each up to the bound beyond    *)
(* which the code makes no difference, so that time itself is unbounded.   *)
(* Rates, costs and thresholds are integers of one small unit.             *)
(* Which ticks the exchanges send, and when, is external.                  *)
(***************************************************************************)
EXTENDS Integers, Sequences

CONSTANTS
  Venue,
  Symbol,
  Rate,          \* the funding rates that occur
  Cost,          \* cfg.CostPerRoundTrip
  MinNetEdge,    \* cfg.MinNetEdge
  StaleAfter,    \* the staleness guard of evaluate
  PreSettlement, \* cfg.PreSettlementWindow
  Debounce,      \* cfg.DebounceInterval
  Period,        \* the longest time to funding
  Arriving,      \* the times to funding that ticks arrive with
  TickCap,       \* capacity of tickCh
  EngineCap,     \* capacity of tickForEngine
  CandidateCap   \* capacity of candidateCh

ASSUME EngineAssumption ==
  /\ Rate \subseteq Int
  /\ {Cost, MinNetEdge} \subseteq Int
  /\ {StaleAfter, TickCap, EngineCap, CandidateCap} \subseteq Nat \ {0}
  /\ {PreSettlement, Debounce, Period} \subseteq Nat
  /\ Arriving \subseteq 0 .. Period
  /\ Cost + MinNetEdge >= 0

VARIABLES
  tickCh,        \* ticks on their way from the ingestors to the splitter
  tickForEngine, \* and from the splitter to the engine
  latest,        \* e.latest: at most one tick of a venue and symbol
  sinceEmit,     \* time since e.lastEmit of a pair; Debounce if it is that long ago
  backlog,       \* candidates of the last evaluation that are not sent yet
  candidateCh,
  quiet          \* history: time since a venue last sent a tick of a symbol

engineVars == <<tickCh, tickForEngine, latest, sinceEmit, backlog, candidateCh, quiet>>

Tick == [venue : Venue, symbol : Symbol, rate : Rate, age : 0 .. StaleAfter, ttf : 0 .. Period]

\* pairKey: the direction counts.
Pair == {p \in [short : Venue, long : Venue, symbol : Symbol] : p.short # p.long}

\* A pair worth proposing, and what is left of the time to the nearer settlement.
Candidate == [pair : Pair, ttf : 0 .. Period]

EngineInit ==
  /\ tickCh = <<>>
  /\ tickForEngine = <<>>
  /\ latest = {}
  /\ sinceEmit = [p \in Pair |-> Debounce]
  /\ backlog = {}
  /\ candidateCh = <<>>
  /\ quiet = [v \in Venue |-> [s \in Symbol |-> StaleAfter]]

-----------------------------------------------------------------------------
(* Ingestors and splitter *)

\* A send that drops what does not fit.
Offer(ch, cap, tick) == IF Len(ch) < cap THEN Append(ch, tick) ELSE ch

\* A venue sends a tick and its ingestor forwards it.
Ingest(v, s) ==
  /\ \E r \in Rate, ttf \in Arriving :
       tickCh' = Offer(tickCh, TickCap,
                       [venue |-> v, symbol |-> s, rate |-> r, age |-> 0, ttf |-> ttf])
  /\ quiet' = [quiet EXCEPT ![v][s] = 0]
  /\ UNCHANGED <<tickForEngine, latest, sinceEmit, backlog, candidateCh>>

SplitRequeues ==
  /\ tickCh # <<>>
  /\ IF Len(tickForEngine) < EngineCap
     THEN /\ tickCh' = Tail(tickCh)
          /\ tickForEngine' = Append(tickForEngine, Head(tickCh))
     ELSE /\ tickCh' = Append(Tail(tickCh), Head(tickForEngine))
          /\ tickForEngine' = Append(Tail(tickForEngine), Head(tickCh))
  /\ UNCHANGED <<latest, sinceEmit, backlog, candidateCh, quiet>>

Split ==
  /\ tickCh # <<>>
  /\ tickCh' = Tail(tickCh)
  /\ tickForEngine' = Offer(tickForEngine, EngineCap, Head(tickCh))
  /\ UNCHANGED <<latest, sinceEmit, backlog, candidateCh, quiet>>

-----------------------------------------------------------------------------
(* The engine *)

SameFeed(t, u) == t.venue = u.venue /\ t.symbol = u.symbol

UpdatedStamped(tick) == {t \in latest : ~SameFeed(t, tick)} \cup {[tick EXCEPT !.age = 0]}

\* update: the tick replaces the one of its venue and symbol.
Updated(tick) == {t \in latest : ~SameFeed(t, tick)} \cup {tick}

Nearer(t, u) == IF u.ttf < t.ttf THEN u.ttf ELSE t.ttf

\* evaluate: one of the two ticks is the short side of a pair worth proposing.
Worthwhile(short, long) ==
  /\ {short.age, long.age} \subseteq 0 .. StaleAfter - 1
  /\ short.rate - long.rate - Cost > MinNetEdge
  /\ Nearer(short, long) >= PreSettlement

\* The candidates for symbol s that the ticks speak for.
Opportunities(ticks, s) ==
  {[pair |-> [short |-> x[1].venue, long |-> x[2].venue, symbol |-> s],
    ttf |-> Nearer(x[1], x[2])] :
      x \in {y \in ticks \X ticks :
                y[1].symbol = s /\ y[2].symbol = s /\ Worthwhile(y[1], y[2])}}

Spoken(p) == \E c \in Opportunities(latest, p.symbol) : c.pair = p

ReceiveSlides ==
  /\ backlog = {}
  /\ tickForEngine # <<>>
  /\ LET tick == Head(tickForEngine)
         found == Opportunities(Updated(tick), tick.symbol)
     IN  /\ latest' = Updated(tick)
         /\ backlog' = {c \in found : sinceEmit[c.pair] >= Debounce}
         /\ sinceEmit' = [p \in Pair |-> IF \E c \in found : c.pair = p THEN 0 ELSE sinceEmit[p]]
  /\ tickForEngine' = Tail(tickForEngine)
  /\ UNCHANGED <<tickCh, candidateCh, quiet>>

\* One round of Run: a tick is taken, evaluated, and what was not emitted lately is
\* kept for sending, in the order of a map iteration.
Receive ==
  /\ backlog = {}
  /\ tickForEngine # <<>>
  /\ LET tick == Head(tickForEngine)
     IN  /\ latest' = Updated(tick)
         /\ backlog' = {c \in Opportunities(Updated(tick), tick.symbol) :
                          sinceEmit[c.pair] >= Debounce}
  /\ sinceEmit' = [p \in Pair |-> IF \E c \in backlog' : c.pair = p THEN 0 ELSE sinceEmit[p]]
  /\ tickForEngine' = Tail(tickForEngine)
  /\ UNCHANGED <<tickCh, candidateCh, quiet>>

SendQueues ==
  /\ \E c \in backlog :
       /\ candidateCh' = Append(candidateCh, c)
       /\ backlog' = backlog \ {c}
  /\ UNCHANGED <<tickCh, tickForEngine, latest, sinceEmit, quiet>>

\* The engine waits while candidateCh is full.
Send ==
  /\ Len(candidateCh) < CandidateCap
  /\ \E c \in backlog :
       /\ candidateCh' = Append(candidateCh, c)
       /\ backlog' = backlog \ {c}
  /\ UNCHANGED <<tickCh, tickForEngine, latest, sinceEmit, quiet>>

\* The strategy takes a candidate.
TakeCandidate ==
  /\ candidateCh # <<>>
  /\ candidateCh' = Tail(candidateCh)
  /\ UNCHANGED <<tickCh, tickForEngine, latest, sinceEmit, backlog, quiet>>

-----------------------------------------------------------------------------
(* Time *)

Nearing(x) == [x EXCEPT !.ttf = IF @ > 0 THEN @ - 1 ELSE @]

Ripe(age) == IF age < StaleAfter THEN age + 1 ELSE age

Older(t) == [Nearing(t) EXCEPT !.age = Ripe(@)]

Elapse ==
  /\ tickCh' = [i \in DOMAIN tickCh |-> Older(tickCh[i])]
  /\ tickForEngine' = [i \in DOMAIN tickForEngine |-> Older(tickForEngine[i])]
  /\ latest' = {Older(t) : t \in latest}
  /\ sinceEmit' = [p \in Pair |-> IF sinceEmit[p] < Debounce THEN sinceEmit[p] + 1 ELSE Debounce]
  /\ backlog' = {Nearing(c) : c \in backlog}
  /\ candidateCh' = [i \in DOMAIN candidateCh |-> Nearing(candidateCh[i])]
  /\ quiet' = [v \in Venue |-> [s \in Symbol |-> Ripe(quiet[v][s])]]

EngineStep ==
  (\E v \in Venue, s \in Symbol : Ingest(v, s)) \/ Split \/ Receive \/ Send

EngineNext == EngineStep \/ TakeCandidate \/ Elapse

\* The splitter and the engine are scheduled and time passes.  Nothing is assumed
\* of the venues and of the strategy, which may wait for Telegram for ever.
EngineFairness ==
  WF_engineVars(Split) /\ WF_engineVars(Receive) /\ WF_engineVars(Send) /\ WF_engineVars(Elapse)

EngineSpec == EngineInit /\ [][EngineNext]_engineVars /\ EngineFairness

-----------------------------------------------------------------------------
\* Every variable stays in its domain and every channel within its capacity.
EngineTypeOK ==
  /\ tickCh \in Seq(Tick) /\ Len(tickCh) <= TickCap
  /\ tickForEngine \in Seq(Tick) /\ Len(tickForEngine) <= EngineCap
  /\ latest \subseteq Tick
  /\ sinceEmit \in [Pair -> 0 .. Debounce]
  /\ backlog \subseteq Candidate
  /\ candidateCh \in Seq(Candidate) /\ Len(candidateCh) <= CandidateCap
  /\ quiet \in [Venue -> [Symbol -> 0 .. StaleAfter]]

\* Ticks that were dropped, or that waited while the engine was blocked, never
\* make it go back to an older tick of a venue (engine.go:73-80, main.go:108-148).
NeverGoesBack ==
  [][\A t \in latest, u \in latest' :
       SameFeed(t, u) /\ u # t => u.age <= Ripe(t.age)]_engineVars

Emits(p) == backlog = {} /\ \E c \in backlog' : c.pair = p

\* A venue that has fallen silent is part of no candidate, however long its last tick
\* waited in the channels behind a blocked engine before it was looked at, and whoever
\* else keeps sending (engine.go:95-106, PLAN.md:176).
SilentVenueRests ==
  [][\A p \in Pair :
       Emits(p) => \A v \in {p.short, p.long} : quiet[v][p.symbol] < StaleAfter]_engineVars

\* An opportunity that lasts is emitted again and again, as long as the strategy
\* keeps emptying its channel: the debounce and dropped ticks delay a candidate but
\* never starve it (engine.go:82-169).
LastingOpportunityRecurs ==
  \A p \in Pair :
    <>[]Spoken(p) /\ []<>(candidateCh = <<>>)
      => []<><<Emits(p)>>_engineVars

=============================================================================
