-------------------------------- MODULE Feed --------------------------------
(***************************************************************************)
(* The market data side of the venue adapters: the loops that keep a       *)
(* websocket connected (streamSymbol of Binance, one for each symbol;      *)
(* streamLoop of Bybit), the generator of the simulator, Binance's         *)
(* collector, and the ingestors of cmd/fab-bot/main.go that read the       *)
(* channels.  A link is one such loop.                                     *)
(*                                                                         *)
(* The websocket libraries are external.  Each connection has a goroutine  *)
(* that reads it and calls the handlers of the adapter: the reader.        *)
(*   Binance: it reports a malformed message and reads on; it reports a    *)
(*     lost connection and ends, which closes doneC; once stopC is closed  *)
(*     its reads fail.  A connection may also go silent: nothing arrives   *)
(*     and no read fails.                                                  *)
(*   Bybit: Start may return while the reader still runs, since a ping     *)
(*     failed; streamLoop does not close the connection then.              *)
(* Ticks are counted, not told apart, and only on Binance's way, where a   *)
(* goroutine waits for them: Bybit and the simulator put a tick into their *)
(* channel or drop it, and go on.                                          *)
(***************************************************************************)
EXTENDS Integers

CONSTANTS
  Venue,
  Adapter,     \* the adapter of each venue
  Link,        \* the loops
  VenueOf,     \* the venue each loop serves
  Cap,         \* capacity of the channels of ticks
  Ceiling,     \* the longest backoff
  MaxErrors,   \* bound: errors the reader reports on one connection
  MaxFailures  \* bound up to which failed dials are counted

ASSUME FeedAssumption ==
  /\ Adapter \in [Venue -> {"sim", "binance", "bybit"}]
  /\ VenueOf \in [Link -> Venue]
  /\ {Cap, Ceiling} \subseteq Nat \ {0}
  /\ {MaxErrors, MaxFailures} \subseteq Nat
  /\ \A v \in Venue : \E l \in Link : VenueOf[l] = v

VARIABLES
  ctxDone,   \* the root context is cancelled
  panicked,  \* a send on a closed channel ended the process
  pc,        \* where each loop stands
  backoff,   \* backoff of each loop
  failures,  \* history: dials of a loop that failed in a row
  reader,    \* the reader of the loop's present connection
  leftover,  \* a reader of an earlier connection still runs
  errCh,     \* errors in errCh (Binance) or streamErr (Bybit), capacity one
  errors,    \* history: errors the present reader reported
  inner,     \* ticks in the inner channel of Binance
  collector, \* the goroutine between inner and out
  out,       \* ticks in the channel that its SubscribeFunding returned
  closed     \* the venues whose channel is closed

loopVars == <<pc, backoff, failures>>
readerVars == <<reader, leftover, errCh, errors>>
tickVars == <<inner, collector, out>>
vars == <<ctxDone, panicked, loopVars, readerVars, tickVars, closed>>

Is(l, adapter) == Adapter[VenueOf[l]] = adapter
Least(a, b) == IF a < b THEN a ELSE b

FeedInit ==
  /\ ctxDone = FALSE
  /\ panicked = FALSE
  /\ pc = [l \in Link |-> IF Is(l, "sim") THEN "stream" ELSE "top"]
  /\ backoff = [l \in Link |-> 1]
  /\ failures = [l \in Link |-> 0]
  /\ reader = [l \in Link |-> "none"]
  /\ leftover = [l \in Link |-> FALSE]
  /\ errCh = [l \in Link |-> 0]
  /\ errors = [l \in Link |-> 0]
  /\ inner = [v \in Venue |-> 0]
  /\ collector = [v \in Venue |-> IF Adapter[v] = "binance" THEN "collect" ELSE "gone"]
  /\ out = [v \in Venue |-> 0]
  /\ closed = {}

-----------------------------------------------------------------------------
(* The loops: dial, back off, dial again *)

Goto(l, to) == pc' = [pc EXCEPT ![l] = to]

\* The loop returns.  The simulator and Bybit close the channel as they do; Binance
\* leaves that to the collector.
Leave(l) ==
  /\ Goto(l, "gone")
  /\ closed' = IF Is(l, "binance") THEN closed ELSE closed \cup {VenueOf[l]}

Top(l) ==
  /\ pc[l] = "top"
  /\ IF ctxDone THEN Leave(l) ELSE Goto(l, "dial") /\ UNCHANGED closed
  /\ UNCHANGED <<ctxDone, panicked, backoff, failures, readerVars, tickVars>>

Reading(l) == reader[l] \notin {"none", "ended"}

ConnectKeepsErrors(l) ==
  /\ pc[l] = "dial"
  /\ Goto(l, IF Is(l, "bybit") THEN "subscribe" ELSE "stream")
  /\ backoff' = [backoff EXCEPT ![l] = 1]
  /\ failures' = [failures EXCEPT ![l] = 0]
  /\ reader' = [reader EXCEPT ![l] = IF Is(l, "bybit") THEN "none" ELSE "reading"]
  /\ leftover' = [leftover EXCEPT ![l] = @ \/ Reading(l)]
  /\ errors' = [errors EXCEPT ![l] = 0]
  /\ UNCHANGED <<ctxDone, panicked, errCh, tickVars, closed>>

\* The dial succeeds, which resets the backoff.  The new connection has channels of
\* its own; whoever reads the old one goes on.
Connect(l) ==
  /\ pc[l] = "dial"
  /\ Goto(l, IF Is(l, "bybit") THEN "subscribe" ELSE "stream")
  /\ backoff' = [backoff EXCEPT ![l] = 1]
  /\ failures' = [failures EXCEPT ![l] = 0]
  /\ reader' = [reader EXCEPT ![l] = IF Is(l, "bybit") THEN "none" ELSE "reading"]
  /\ leftover' = [leftover EXCEPT ![l] = @ \/ Reading(l)]
  /\ errCh' = [errCh EXCEPT ![l] = 0]
  /\ errors' = [errors EXCEPT ![l] = 0]
  /\ UNCHANGED <<ctxDone, panicked, tickVars, closed>>

DialFails(l) ==
  /\ pc[l] = "dial"
  /\ Goto(l, "wait")
  /\ failures' = [failures EXCEPT ![l] = Least(@ + 1, MaxFailures)]
  /\ UNCHANGED <<ctxDone, panicked, backoff, readerVars, tickVars, closed>>

\* SubscribeTickers, then Start on a goroutine of its own.
Subscribe(l) ==
  /\ pc[l] = "subscribe"
  /\ \/ Goto(l, "stream") /\ reader' = [reader EXCEPT ![l] = "reading"]
     \/ Goto(l, "wait") /\ UNCHANGED reader
  /\ UNCHANGED <<ctxDone, panicked, backoff, failures, leftover, errCh, errors, tickVars, closed>>

WaitUnbounded(l) ==
  /\ pc[l] = "wait"
  /\ \/ /\ Goto(l, "top")
        /\ backoff' = [backoff EXCEPT ![l] = 2 * @]
        /\ UNCHANGED closed
     \/ ctxDone /\ Leave(l) /\ UNCHANGED backoff
  /\ UNCHANGED <<ctxDone, panicked, failures, readerVars, tickVars>>

WaitResets(l) ==
  /\ pc[l] = "wait"
  /\ \/ /\ Goto(l, "top")
        /\ UNCHANGED <<backoff, closed>>
     \/ ctxDone /\ Leave(l) /\ UNCHANGED backoff
  /\ UNCHANGED <<ctxDone, panicked, failures, readerVars, tickVars>>

\* The backoff is over, or the context is cancelled meanwhile.
Wait(l) ==
  /\ pc[l] = "wait"
  /\ \/ /\ Goto(l, "top")
        /\ backoff' = [backoff EXCEPT ![l] = Least(2 * @, Ceiling)]
        /\ UNCHANGED closed
     \/ ctxDone /\ Leave(l) /\ UNCHANGED backoff
  /\ UNCHANGED <<ctxDone, panicked, failures, readerVars, tickVars>>

-----------------------------------------------------------------------------
(* The select of a connected loop *)

StreamFrame == UNCHANGED <<ctxDone, panicked, backoff, failures, reader, leftover, errors, tickVars>>

StreamEnds(l) ==
  /\ pc[l] = "stream"
  /\ Is(l, "binance")
  /\ reader[l] = "ended"
  /\ Leave(l)
  /\ UNCHANGED errCh
  /\ StreamFrame

\* <-doneC: the reader has ended.
StreamClosed(l) ==
  /\ pc[l] = "stream"
  /\ Is(l, "binance")
  /\ reader[l] = "ended"
  /\ Goto(l, "wait")
  /\ UNCHANGED <<errCh, closed>>
  /\ StreamFrame

ErrorRedials(l) ==
  /\ pc[l] = "stream"
  /\ errCh[l] = 1
  /\ errCh' = [errCh EXCEPT ![l] = 0]
  /\ Goto(l, "wait")
  /\ UNCHANGED closed
  /\ StreamFrame

ErrorLeaves(l) ==
  /\ pc[l] = "stream"
  /\ errCh[l] = 1
  /\ errCh' = [errCh EXCEPT ![l] = 0]
  /\ IF Is(l, "binance") THEN Goto(l, "resetting") /\ UNCHANGED closed ELSE Leave(l)
  /\ StreamFrame

\* An error arrives.  Binance closes stopC and waits for the reader; Bybit dials
\* again at once.
StreamErred(l) ==
  /\ pc[l] = "stream"
  /\ errCh[l] = 1
  /\ errCh' = [errCh EXCEPT ![l] = 0]
  /\ \/ Is(l, "binance") /\ Goto(l, "resetting") /\ UNCHANGED closed
     \/ ~Is(l, "binance") /\ ctxDone /\ Leave(l)
     \/ ~Is(l, "binance") /\ ~ctxDone /\ Goto(l, "wait") /\ UNCHANGED closed
  /\ StreamFrame

\* Binance closes stopC and waits for the reader, Bybit closes the connection and
\* returns, the simulator just returns.
StreamCancelled(l) ==
  /\ pc[l] = "stream"
  /\ ctxDone
  /\ IF Is(l, "binance") THEN Goto(l, "stopping") /\ UNCHANGED closed ELSE Leave(l)
  /\ UNCHANGED errCh
  /\ StreamFrame

\* <-doneC after stopC was closed.
Drained(l) ==
  /\ pc[l] \in {"resetting", "stopping"}
  /\ reader[l] = "ended"
  /\ IF pc[l] = "resetting" THEN Goto(l, "wait") /\ UNCHANGED closed ELSE Leave(l)
  /\ UNCHANGED errCh
  /\ StreamFrame

LoopStep(l) ==
  \/ Top(l) \/ Connect(l) \/ DialFails(l) \/ Subscribe(l) \/ Wait(l)
  \/ StreamClosed(l) \/ StreamErred(l) \/ StreamCancelled(l) \/ Drained(l)

-----------------------------------------------------------------------------
(* The readers *)

ReaderFrame == UNCHANGED <<ctxDone, panicked, loopVars, leftover, tickVars, closed>>

Stopped(l) == pc[l] \in {"resetting", "stopping"}

\* Binance reports a message that it cannot decode, and reads on.
Malformed(l) ==
  /\ Is(l, "binance")
  /\ reader[l] = "reading"
  /\ errors[l] < MaxErrors
  /\ reader' = [reader EXCEPT ![l] = "reportBad"]
  /\ errors' = [errors EXCEPT ![l] = @ + 1]
  /\ UNCHANGED errCh
  /\ ReaderFrame

\* A read fails.  Binance reports that; after stopC was closed it may not.
ReadFails(l) ==
  /\ reader[l] = "reading" \/ (reader[l] = "silent" /\ Stopped(l))
  /\ \/ /\ Is(l, "binance")
        /\ errors[l] < MaxErrors
        /\ reader' = [reader EXCEPT ![l] = "reportLost"]
        /\ errors' = [errors EXCEPT ![l] = @ + 1]
     \/ /\ Is(l, "bybit") \/ Stopped(l)
        /\ reader' = [reader EXCEPT ![l] = "ended"]
        /\ UNCHANGED errors
  /\ UNCHANGED errCh
  /\ ReaderFrame

\* Nothing arrives any more, and nobody notices.
GoesSilent(l) ==
  /\ Is(l, "binance")
  /\ reader[l] = "reading"
  /\ reader' = [reader EXCEPT ![l] = "silent"]
  /\ UNCHANGED <<errCh, errors>>
  /\ ReaderFrame

\* errCh <- err, which blocks while the channel is full.
Report(l) ==
  /\ reader[l] \in {"reportBad", "reportLost"}
  /\ errCh[l] = 0
  /\ errCh' = [errCh EXCEPT ![l] = 1]
  /\ reader' = [reader EXCEPT ![l] = IF @ = "reportBad" THEN "reading" ELSE "ended"]
  /\ UNCHANGED errors
  /\ ReaderFrame

\* Start of Bybit returns after its reader ended.
StartReturns(l) ==
  /\ Is(l, "bybit")
  /\ pc[l] = "stream" /\ reader[l] = "ended" /\ errCh[l] = 0
  /\ errCh' = [errCh EXCEPT ![l] = 1]
  /\ UNCHANGED <<reader, errors>>
  /\ ReaderFrame

\* Or with its reader running, after a ping failed or the context was cancelled.
PingFails(l) ==
  /\ Is(l, "bybit")
  /\ pc[l] = "stream" /\ reader[l] = "reading" /\ errCh[l] = 0
  /\ errCh' = [errCh EXCEPT ![l] = 1]
  /\ UNCHANGED <<reader, errors>>
  /\ ReaderFrame

LeftoverEnds(l) ==
  /\ leftover[l]
  /\ leftover' = [leftover EXCEPT ![l] = FALSE]
  /\ UNCHANGED <<ctxDone, panicked, loopVars, reader, errCh, errors, tickVars, closed>>

ReaderStep(l) ==
  \/ Malformed(l) \/ ReadFails(l) \/ GoesSilent(l) \/ Report(l)
  \/ StartReturns(l) \/ PingFails(l) \/ LeftoverEnds(l)

-----------------------------------------------------------------------------
(* Ticks *)

Offer(ch, v) == [ch EXCEPT ![v] = Least(@ + 1, Cap)]

\* Binance's tick handler: a tick that does not fit is dropped.
Deliver(l) ==
  /\ Is(l, "binance")
  /\ reader[l] = "reading" \/ leftover[l]
  /\ inner' = [inner EXCEPT ![VenueOf[l]] = Least(@ + 1, Cap)]
  /\ UNCHANGED <<ctxDone, panicked, loopVars, readerVars, collector, out, closed>>

\* Bybit's tick handler after its loop returned: the send finds the channel closed and
\* panics, unless the select takes the case of the cancelled context.
DeliverLate(l) ==
  /\ Is(l, "bybit")
  /\ reader[l] = "reading" \/ leftover[l]
  /\ VenueOf[l] \in closed
  /\ panicked' = TRUE
  /\ UNCHANGED <<ctxDone, loopVars, readerVars, tickVars, closed>>

CollectorInsists(v) ==
  /\ \/ /\ collector[v] = "collect" /\ inner[v] > 0
        /\ inner' = [inner EXCEPT ![v] = @ - 1]
        /\ collector' = [collector EXCEPT ![v] = "forward"]
        /\ UNCHANGED <<out, closed>>
     \/ /\ collector[v] = "forward" /\ out[v] < Cap
        /\ out' = [out EXCEPT ![v] = @ + 1]
        /\ collector' = [collector EXCEPT ![v] = "collect"]
        /\ UNCHANGED <<inner, closed>>
     \/ /\ collector[v] = "collect" /\ ctxDone
        /\ collector' = [collector EXCEPT ![v] = "gone"]
        /\ closed' = closed \cup {v}
        /\ UNCHANGED <<inner, out>>
  /\ UNCHANGED <<ctxDone, panicked, loopVars, readerVars>>

\* Binance's goroutine from inner to out: it waits for a tick, then for room.
Collector(v) ==
  /\ \/ /\ collector[v] = "collect" /\ inner[v] > 0
        /\ inner' = [inner EXCEPT ![v] = @ - 1]
        /\ collector' = [collector EXCEPT ![v] = "forward"]
        /\ UNCHANGED <<out, closed>>
     \/ /\ collector[v] = "forward" /\ out[v] < Cap
        /\ out' = [out EXCEPT ![v] = @ + 1]
        /\ collector' = [collector EXCEPT ![v] = "collect"]
        /\ UNCHANGED <<inner, closed>>
     \/ /\ collector[v] \in {"collect", "forward"} /\ ctxDone
        /\ collector' = [collector EXCEPT ![v] = "gone"]
        /\ closed' = closed \cup {v}
        /\ UNCHANGED <<inner, out>>
  /\ UNCHANGED <<ctxDone, panicked, loopVars, readerVars>>

\* The ingestor of main.go takes a tick.  It stops doing so when the context is
\* cancelled; nothing relies on it.
Ingest(v) ==
  /\ out[v] > 0
  /\ out' = [out EXCEPT ![v] = @ - 1]
  /\ UNCHANGED <<ctxDone, panicked, loopVars, readerVars, inner, collector, closed>>

CancelContext ==
  /\ ~ctxDone
  /\ ctxDone' = TRUE
  /\ UNCHANGED <<panicked, loopVars, readerVars, tickVars, closed>>

FeedNext ==
  /\ ~panicked
  /\ \/ \E l \in Link : LoopStep(l) \/ ReaderStep(l) \/ Deliver(l) \/ DeliverLate(l)
     \/ \E v \in Venue : Collector(v) \/ Ingest(v)
     \/ CancelContext

FeedSpec == FeedInit /\ [][FeedNext]_vars

\* Goroutines are scheduled, dials and timers end, a reader reports what it read, the
\* reads of a stopped connection fail, Start notices that its reader ended.  Nothing
\* is assumed of the exchanges, of ticks and of cancellation.
FeedFairness ==
  /\ \A l \in Link :
       /\ WF_vars(~panicked /\ LoopStep(l))
       /\ WF_vars(~panicked /\ (Report(l) \/ StartReturns(l)))
       /\ WF_vars(~panicked /\ Stopped(l) /\ ReadFails(l))
  /\ \A v \in Venue : WF_vars(~panicked /\ Collector(v))

FairFeedSpec == FeedSpec /\ FeedFairness

-----------------------------------------------------------------------------
\* Every variable stays in its domain and every channel within its capacity.
FeedTypeOK ==
  /\ ctxDone \in BOOLEAN
  /\ panicked \in BOOLEAN
  /\ pc \in [Link -> {"top", "dial", "subscribe", "wait", "stream", "resetting", "stopping", "gone"}]
  /\ backoff \in [Link -> 1 .. Ceiling]
  /\ failures \in [Link -> 0 .. MaxFailures]
  /\ reader \in [Link -> {"none", "reading", "silent", "reportBad", "reportLost", "ended"}]
  /\ leftover \in [Link -> BOOLEAN]
  /\ errCh \in [Link -> 0 .. 1]
  /\ errors \in [Link -> 0 .. MaxErrors]
  /\ inner \in [Venue -> 0 .. Cap]
  /\ collector \in [Venue -> {"collect", "forward", "gone"}]
  /\ out \in [Venue -> 0 .. Cap]
  /\ closed \subseteq Venue

\* A reader that outlives its loop, or its connection, finds the channel open as long
\* as nobody stops the bot: a reconnect never ends in a send on a closed channel.
\* During a shutdown it may (bybit.go:44, 83-90).
PanicOnlyAtShutdown == panicked => ctxDone

\* One symbol of Binance is never read twice at a time, through any sequence of
\* errors and reconnects: its ticks reach the engine in the order they were
\* received (binance.go:106-120).  Of Bybit this is not so.
OneReader == \A l \in Link : Is(l, "binance") => ~leftover[l]

\* The loop waits for its reader and the reader for room in errCh.
Hung(l) == Stopped(l) /\ reader[l] \in {"reportBad", "reportLost"} /\ errCh[l] = 1

\* The buffer of errCh and the receive in the select absorb two errors of one
\* connection: it takes a third to hang the loop for good, or a second when the bot
\* is being stopped.  Errors of earlier connections do not count (binance.go:79-120).
HungOnlyByErrors ==
  \A l \in Link : Hung(l) => errors[l] >= IF pc[l] = "resetting" THEN 3 ELSE 2

\* However dials, drops and errors alternate, a loop dials the next time only after a
\* pause that doubled with every dial that failed in a row (binance.go:98-106 and
\* 126, bybit.go:62-72 and 129, PLAN.md:103).
ReconnectsBackOff ==
  \A l \in Link : pc[l] = "top" => backoff[l] >= Least(2 ^ failures[l], Ceiling)

Broken(l) == errCh[l] = 1 \/ reader[l] \in {"reportBad", "reportLost", "ended"}

\* A stream that reported an error or ended is dialled again, unless the bot is being
\* stopped or the loop hangs.  A silent connection is not noticed at all
\* (binance.go:108-126, bybit.go:104-129).
FeedRecovers ==
  \A l \in Link : pc[l] = "stream" /\ Broken(l) ~> pc[l] = "top" \/ ctxDone \/ Hung(l)

Contract == INSTANCE FundingFeed WITH
  cancelled <- ctxDone,
  ended <- closed

\* Every adapter keeps the contract of SubscribeFunding, with full channels, readers
\* left over and loops that hang: its channel is never closed before the context is
\* cancelled, and always after, unless a leftover reader of Bybit kills the process
\* during the shutdown (venue.go:15-18, binance.go:35, bybit.go:34).
ImplementsFundingFeed ==
  Contract!FundingSafety /\ (<>panicked \/ Contract!FundingLiveness)

=============================================================================
