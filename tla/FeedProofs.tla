----------------------------- MODULE FeedProofs -----------------------------
(***************************************************************************)
(* Theorems about Feed, for any venues, loops, capacities and bounds.      *)
(*                                                                         *)
(* FInv strengthens what is to be shown:                                   *)
(*   Quiet    : while the context lives no loop stops and nothing is       *)
(*              closed, so that no send can panic;                         *)
(*   Alone    : a loop of Binance that is not connected has no reader, so  *)
(*              that the next connection leaves none behind;               *)
(*   Counted  : each error of a connection was counted once, in the hands  *)
(*              of the reader, in errCh, or taken by the select.           *)
(***************************************************************************)
EXTENDS Feed, TLAPS

Quiet ==
  /\ panicked \/ closed # {} => ctxDone
  /\ \A l \in Link : pc[l] = "stopping" => ctxDone

Alone ==
  \A l \in Link : Is(l, "binance") =>
    /\ ~leftover[l]
    /\ pc[l] # "subscribe"
    /\ pc[l] \in {"top", "dial", "wait", "gone"} => ~Reading(l)

InHand(l) == IF reader[l] \in {"reportBad", "reportLost"} THEN 1 ELSE 0
Taken(l) == IF pc[l] = "resetting" THEN 1 ELSE 0

Counted ==
  \A l \in Link :
    /\ Stopped(l) => Is(l, "binance")
    /\ Is(l, "binance") /\ (pc[l] = "stream" \/ Stopped(l)) =>
         errors[l] >= errCh[l] + InHand(l) + Taken(l)

\* FeedTypeOK, by groups of variables.
PcTypes ==
  /\ pc \in [Link -> {"top", "dial", "subscribe", "wait", "stream", "resetting", "stopping", "gone"}]
  /\ closed \subseteq Venue
  /\ ctxDone \in BOOLEAN
  /\ panicked \in BOOLEAN
PauseTypes == backoff \in [Link -> 1 .. Ceiling] /\ failures \in [Link -> 0 .. MaxFailures]
ReaderTypes ==
  /\ reader \in [Link -> {"none", "reading", "silent", "reportBad", "reportLost", "ended"}]
  /\ leftover \in [Link -> BOOLEAN]
  /\ errCh \in [Link -> 0 .. 1]
ErrorTypes == errors \in [Link -> 0 .. MaxErrors]
TickTypes ==
  /\ inner \in [Venue -> 0 .. Cap]
  /\ collector \in [Venue -> {"collect", "forward", "gone"}]
  /\ out \in [Venue -> 0 .. Cap]

FInv == FeedTypeOK /\ Quiet /\ Alone /\ Counted

\* The bounds are numbers, and every loop serves a venue.
LEMMA Bounds ==
  /\ Cap \in Nat /\ Cap >= 1
  /\ Ceiling \in Nat /\ Ceiling >= 1
  /\ MaxErrors \in Nat
  /\ MaxFailures \in Nat
  /\ \A l \in Link : VenueOf[l] \in Venue
  BY FeedAssumption

USE Bounds

-----------------------------------------------------------------------------
LEMMA TypesByGroup ==
  FeedTypeOK <=> PcTypes /\ PauseTypes /\ ReaderTypes /\ ErrorTypes /\ TickTypes
  BY DEF FeedTypeOK, PcTypes, PauseTypes, ReaderTypes, ErrorTypes, TickTypes

LEMMA TypesByGroupNext ==
  FeedTypeOK' <=> PcTypes' /\ PauseTypes' /\ ReaderTypes' /\ ErrorTypes' /\ TickTypes'
  BY DEF FeedTypeOK, PcTypes, PauseTypes, ReaderTypes, ErrorTypes, TickTypes

\* The initial states satisfy the invariant.
LEMMA FeedInitial == FeedInit => FInv
<1> SUFFICES ASSUME FeedInit PROVE FInv
  OBVIOUS
<1>1. PcTypes
  BY DEF FeedInit, PcTypes
<1>2. PauseTypes
  BY DEF FeedInit, PauseTypes
<1>3. ReaderTypes /\ ErrorTypes
  BY DEF FeedInit, ReaderTypes, ErrorTypes
<1>4. TickTypes
  BY DEF FeedInit, TickTypes
<1>5. Quiet
  BY DEF FeedInit, Quiet
<1>6. Alone
  BY DEF FeedInit, Alone, Is, Reading
<1>7. Counted
  BY DEF FeedInit, Counted, Is, Stopped, InHand, Taken
<1> QED
  BY <1>1, <1>2, <1>3, <1>4, <1>5, <1>6, <1>7, TypesByGroup DEF FInv

\* Steps that change nothing change nothing.
LEMMA FeedStutters == FInv /\ UNCHANGED vars => FInv'
  BY DEF FInv, FeedTypeOK, Quiet, Alone, Counted, Is, Reading, Stopped, InHand, Taken,
         vars, loopVars, readerVars, tickVars

\* A step of a loop keeps every variable typed.
LEMMA LoopKeepsTypes ==
  ASSUME FeedTypeOK, NEW l \in Link, LoopStep(l)
  PROVE  FeedTypeOK'
<1> USE DEF Goto, Leave, StreamFrame, ReaderFrame, loopVars, readerVars, tickVars, Least
<1>1. PcTypes /\ PauseTypes /\ ReaderTypes /\ ErrorTypes /\ TickTypes
  BY TypesByGroup
<1>2. CASE Top(l)
  <2>1. PcTypes' /\ PauseTypes'
    BY <1>1, <1>2 DEF Top, PcTypes, PauseTypes
  <2>2. ReaderTypes' /\ ErrorTypes' /\ TickTypes'
    BY <1>1, <1>2 DEF Top, ReaderTypes, ErrorTypes, TickTypes
  <2> QED
    BY <2>1, <2>2, TypesByGroupNext
<1>3. CASE Connect(l)
  <2>1. PcTypes' /\ PauseTypes'
    BY <1>1, <1>3 DEF Connect, PcTypes, PauseTypes
  <2>2. ReaderTypes' /\ ErrorTypes' /\ TickTypes'
    BY <1>1, <1>3 DEF Connect, ReaderTypes, ErrorTypes, TickTypes
  <2> QED
    BY <2>1, <2>2, TypesByGroupNext
<1>4. CASE DialFails(l)
  <2>1. PcTypes' /\ PauseTypes'
    BY <1>1, <1>4 DEF DialFails, PcTypes, PauseTypes
  <2>2. ReaderTypes' /\ ErrorTypes' /\ TickTypes'
    BY <1>1, <1>4 DEF DialFails, ReaderTypes, ErrorTypes, TickTypes
  <2> QED
    BY <2>1, <2>2, TypesByGroupNext
<1>5. CASE Subscribe(l)
  <2>1. PcTypes' /\ PauseTypes'
    BY <1>1, <1>5 DEF Subscribe, PcTypes, PauseTypes
  <2>2. ReaderTypes' /\ ErrorTypes' /\ TickTypes'
    BY <1>1, <1>5 DEF Subscribe, ReaderTypes, ErrorTypes, TickTypes
  <2> QED
    BY <2>1, <2>2, TypesByGroupNext
<1>6. CASE Wait(l)
  <2>1. PcTypes' /\ PauseTypes'
    BY <1>1, <1>6 DEF Wait, PcTypes, PauseTypes
  <2>2. ReaderTypes' /\ ErrorTypes' /\ TickTypes'
    BY <1>1, <1>6 DEF Wait, ReaderTypes, ErrorTypes, TickTypes
  <2> QED
    BY <2>1, <2>2, TypesByGroupNext
<1>7. CASE StreamClosed(l)
  <2>1. PcTypes' /\ PauseTypes'
    BY <1>1, <1>7 DEF StreamClosed, PcTypes, PauseTypes
  <2>2. ReaderTypes' /\ ErrorTypes' /\ TickTypes'
    BY <1>1, <1>7 DEF StreamClosed, ReaderTypes, ErrorTypes, TickTypes
  <2> QED
    BY <2>1, <2>2, TypesByGroupNext
<1>8. CASE StreamErred(l)
  <2>1. PcTypes' /\ PauseTypes'
    BY <1>1, <1>8 DEF StreamErred, PcTypes, PauseTypes
  <2>2. ReaderTypes' /\ ErrorTypes' /\ TickTypes'
    BY <1>1, <1>8 DEF StreamErred, ReaderTypes, ErrorTypes, TickTypes
  <2> QED
    BY <2>1, <2>2, TypesByGroupNext
<1>9. CASE StreamCancelled(l)
  <2>1. PcTypes' /\ PauseTypes'
    BY <1>1, <1>9 DEF StreamCancelled, PcTypes, PauseTypes
  <2>2. ReaderTypes' /\ ErrorTypes' /\ TickTypes'
    BY <1>1, <1>9 DEF StreamCancelled, ReaderTypes, ErrorTypes, TickTypes
  <2> QED
    BY <2>1, <2>2, TypesByGroupNext
<1>10. CASE Drained(l)
  <2>1. PcTypes' /\ PauseTypes'
    BY <1>1, <1>10 DEF Drained, PcTypes, PauseTypes
  <2>2. ReaderTypes' /\ ErrorTypes' /\ TickTypes'
    BY <1>1, <1>10 DEF Drained, ReaderTypes, ErrorTypes, TickTypes
  <2> QED
    BY <2>1, <2>2, TypesByGroupNext
<1> QED
  BY <1>2, <1>3, <1>4, <1>5, <1>6, <1>7, <1>8, <1>9, <1>10 DEF LoopStep

\* So does a step of a reader,
LEMMA ReaderKeepsTypes ==
  ASSUME FeedTypeOK, NEW l \in Link, ReaderStep(l)
  PROVE  FeedTypeOK'
<1> USE DEF Goto, Leave, StreamFrame, ReaderFrame, loopVars, readerVars, tickVars, Least
<1>1. PcTypes /\ PauseTypes /\ ReaderTypes /\ ErrorTypes /\ TickTypes
  BY TypesByGroup
<1>2. CASE Malformed(l)
  <2>1. PcTypes' /\ PauseTypes'
    BY <1>1, <1>2 DEF Malformed, PcTypes, PauseTypes
  <2>2. ReaderTypes' /\ ErrorTypes' /\ TickTypes'
    BY <1>1, <1>2 DEF Malformed, ReaderTypes, ErrorTypes, TickTypes
  <2> QED
    BY <2>1, <2>2, TypesByGroupNext
<1>3. CASE ReadFails(l)
  <2>1. PcTypes' /\ PauseTypes'
    BY <1>1, <1>3 DEF ReadFails, PcTypes, PauseTypes
  <2>2. ReaderTypes' /\ ErrorTypes' /\ TickTypes'
    BY <1>1, <1>3 DEF ReadFails, ReaderTypes, ErrorTypes, TickTypes
  <2> QED
    BY <2>1, <2>2, TypesByGroupNext
<1>4. CASE GoesSilent(l)
  <2>1. PcTypes' /\ PauseTypes'
    BY <1>1, <1>4 DEF GoesSilent, PcTypes, PauseTypes
  <2>2. ReaderTypes' /\ ErrorTypes' /\ TickTypes'
    BY <1>1, <1>4 DEF GoesSilent, ReaderTypes, ErrorTypes, TickTypes
  <2> QED
    BY <2>1, <2>2, TypesByGroupNext
<1>5. CASE Report(l)
  <2>1. PcTypes' /\ PauseTypes'
    BY <1>1, <1>5 DEF Report, PcTypes, PauseTypes
  <2>2. ReaderTypes' /\ ErrorTypes' /\ TickTypes'
    BY <1>1, <1>5 DEF Report, ReaderTypes, ErrorTypes, TickTypes
  <2> QED
    BY <2>1, <2>2, TypesByGroupNext
<1>6. CASE StartReturns(l)
  <2>1. PcTypes' /\ PauseTypes'
    BY <1>1, <1>6 DEF StartReturns, PcTypes, PauseTypes
  <2>2. ReaderTypes' /\ ErrorTypes' /\ TickTypes'
    BY <1>1, <1>6 DEF StartReturns, ReaderTypes, ErrorTypes, TickTypes
  <2> QED
    BY <2>1, <2>2, TypesByGroupNext
<1>7. CASE PingFails(l)
  <2>1. PcTypes' /\ PauseTypes'
    BY <1>1, <1>7 DEF PingFails, PcTypes, PauseTypes
  <2>2. ReaderTypes' /\ ErrorTypes' /\ TickTypes'
    BY <1>1, <1>7 DEF PingFails, ReaderTypes, ErrorTypes, TickTypes
  <2> QED
    BY <2>1, <2>2, TypesByGroupNext
<1>8. CASE LeftoverEnds(l)
  <2>1. PcTypes' /\ PauseTypes'
    BY <1>1, <1>8 DEF LeftoverEnds, PcTypes, PauseTypes
  <2>2. ReaderTypes' /\ ErrorTypes' /\ TickTypes'
    BY <1>1, <1>8 DEF LeftoverEnds, ReaderTypes, ErrorTypes, TickTypes
  <2> QED
    BY <2>1, <2>2, TypesByGroupNext
<1> QED
  BY <1>2, <1>3, <1>4, <1>5, <1>6, <1>7, <1>8 DEF ReaderStep

\* the delivery of a tick,
LEMMA HandlerKeepsTypes ==
  ASSUME FeedTypeOK, NEW l \in Link, Deliver(l) \/ DeliverLate(l)
  PROVE  FeedTypeOK'
<1> USE DEF Goto, Leave, StreamFrame, ReaderFrame, loopVars, readerVars, tickVars, Least
<1>1. PcTypes /\ PauseTypes /\ ReaderTypes /\ ErrorTypes /\ TickTypes
  BY TypesByGroup
<1>2. CASE Deliver(l)
  <2>1. PcTypes' /\ PauseTypes'
    BY <1>1, <1>2 DEF Deliver, PcTypes, PauseTypes
  <2>2. ReaderTypes' /\ ErrorTypes' /\ TickTypes'
    BY <1>1, <1>2 DEF Deliver, ReaderTypes, ErrorTypes, TickTypes
  <2> QED
    BY <2>1, <2>2, TypesByGroupNext
<1>3. CASE DeliverLate(l)
  <2>1. PcTypes' /\ PauseTypes'
    BY <1>1, <1>3 DEF DeliverLate, PcTypes, PauseTypes
  <2>2. ReaderTypes' /\ ErrorTypes' /\ TickTypes'
    BY <1>1, <1>3 DEF DeliverLate, ReaderTypes, ErrorTypes, TickTypes
  <2> QED
    BY <2>1, <2>2, TypesByGroupNext
<1> QED
  BY <1>2, <1>3

\* and what happens behind it.
LEMMA ChannelKeepsTypes ==
  ASSUME FeedTypeOK, NEW v \in Venue, Collector(v) \/ Ingest(v)
  PROVE  FeedTypeOK'
<1> USE DEF Goto, Leave, StreamFrame, ReaderFrame, loopVars, readerVars, tickVars, Least
<1>1. PcTypes /\ PauseTypes /\ ReaderTypes /\ ErrorTypes /\ TickTypes
  BY TypesByGroup
<1>2. CASE Collector(v)
  <2>1. PcTypes' /\ PauseTypes'
    BY <1>1, <1>2 DEF Collector, PcTypes, PauseTypes
  <2>2. ReaderTypes' /\ ErrorTypes' /\ TickTypes'
    BY <1>1, <1>2 DEF Collector, ReaderTypes, ErrorTypes, TickTypes
  <2> QED
    BY <2>1, <2>2, TypesByGroupNext
<1>3. CASE Ingest(v)
  <2>1. PcTypes' /\ PauseTypes'
    BY <1>1, <1>3 DEF Ingest, PcTypes, PauseTypes
  <2>2. ReaderTypes' /\ ErrorTypes' /\ TickTypes'
    BY <1>1, <1>3 DEF Ingest, ReaderTypes, ErrorTypes, TickTypes
  <2> QED
    BY <2>1, <2>2, TypesByGroupNext
<1> QED
  BY <1>2, <1>3

\* A loop stops, and closes its channel, only when the context is done.
LEMMA LoopKeepsQuiet ==
  ASSUME FInv, NEW l \in Link, LoopStep(l)
  PROVE  Quiet'
<1> USE DEF Quiet, Goto, Leave, StreamFrame, loopVars, readerVars, tickVars
<1>1. FeedTypeOK /\ Quiet /\ Alone /\ Counted
  BY DEF FInv
<1>2. CASE Top(l)
  BY <1>1, <1>2 DEF Top, FeedTypeOK
<1>3. CASE Connect(l)
  BY <1>1, <1>3 DEF Connect, FeedTypeOK
<1>4. CASE DialFails(l)
  BY <1>1, <1>4 DEF DialFails, FeedTypeOK
<1>5. CASE Subscribe(l)
  BY <1>1, <1>5 DEF Subscribe, FeedTypeOK
<1>6. CASE Wait(l)
  BY <1>1, <1>6 DEF Wait, FeedTypeOK
<1>7. CASE StreamClosed(l)
  BY <1>1, <1>7 DEF StreamClosed, FeedTypeOK
<1>8. CASE StreamErred(l)
  BY <1>1, <1>8 DEF StreamErred, FeedTypeOK
<1>9. CASE StreamCancelled(l)
  BY <1>1, <1>9 DEF StreamCancelled, FeedTypeOK
<1>10. CASE Drained(l)
  BY <1>1, <1>10 DEF Drained, FeedTypeOK
<1> QED
  BY <1>2, <1>3, <1>4, <1>5, <1>6, <1>7, <1>8, <1>9, <1>10 DEF LoopStep

\* A reader stops nothing,
LEMMA ReaderKeepsQuiet ==
  ASSUME FInv, NEW l \in Link, ReaderStep(l)
  PROVE  Quiet'
<1> USE DEF Quiet, ReaderFrame, loopVars, readerVars, tickVars
<1>1. FeedTypeOK /\ Quiet /\ Alone /\ Counted
  BY DEF FInv
<1>2. CASE Malformed(l)
  BY <1>1, <1>2 DEF Malformed, FeedTypeOK
<1>3. CASE ReadFails(l)
  BY <1>1, <1>3 DEF ReadFails, FeedTypeOK
<1>4. CASE GoesSilent(l)
  BY <1>1, <1>4 DEF GoesSilent, FeedTypeOK
<1>5. CASE Report(l)
  BY <1>1, <1>5 DEF Report, FeedTypeOK
<1>6. CASE StartReturns(l)
  BY <1>1, <1>6 DEF StartReturns, FeedTypeOK
<1>7. CASE PingFails(l)
  BY <1>1, <1>7 DEF PingFails, FeedTypeOK
<1>8. CASE LeftoverEnds(l)
  BY <1>1, <1>8 DEF LeftoverEnds, FeedTypeOK
<1> QED
  BY <1>2, <1>3, <1>4, <1>5, <1>6, <1>7, <1>8 DEF ReaderStep

\* a send panics only on a channel that is closed,
LEMMA HandlerKeepsQuiet ==
  ASSUME FInv, NEW l \in Link, Deliver(l) \/ DeliverLate(l)
  PROVE  Quiet'
<1> USE DEF Quiet, loopVars, readerVars, tickVars
<1>1. FeedTypeOK /\ Quiet /\ Alone /\ Counted
  BY DEF FInv
<1>2. CASE Deliver(l)
  BY <1>1, <1>2 DEF Deliver, FeedTypeOK
<1>3. CASE DeliverLate(l)
  BY <1>1, <1>3 DEF DeliverLate, FeedTypeOK
<1> QED
  BY <1>2, <1>3

\* and the collector closes its channel only when the context is done.
LEMMA ChannelKeepsQuiet ==
  ASSUME FInv, NEW v \in Venue, Collector(v) \/ Ingest(v)
  PROVE  Quiet'
<1> USE DEF Quiet, loopVars, readerVars, tickVars
<1>1. FeedTypeOK /\ Quiet /\ Alone /\ Counted
  BY DEF FInv
<1>2. CASE Collector(v)
  BY <1>1, <1>2 DEF Collector, FeedTypeOK
<1>3. CASE Ingest(v)
  BY <1>1, <1>3 DEF Ingest, FeedTypeOK
<1> QED
  BY <1>2, <1>3

\* A loop of Binance leaves its select for a dial only after its reader ended.
LEMMA LoopKeepsAlone ==
  ASSUME FInv, NEW l \in Link, LoopStep(l)
  PROVE  Alone'
<1> USE DEF Alone, Reading, Is, Goto, Leave, StreamFrame, loopVars, readerVars, tickVars
<1>1. FeedTypeOK /\ Quiet /\ Alone /\ Counted
  BY DEF FInv
<1>2. CASE Top(l)
  BY <1>1, <1>2 DEF Top, FeedTypeOK
<1>3. CASE Connect(l)
  BY <1>1, <1>3 DEF Connect, FeedTypeOK
<1>4. CASE DialFails(l)
  BY <1>1, <1>4 DEF DialFails, FeedTypeOK
<1>5. CASE Subscribe(l)
  BY <1>1, <1>5 DEF Subscribe, FeedTypeOK
<1>6. CASE Wait(l)
  BY <1>1, <1>6 DEF Wait, FeedTypeOK
<1>7. CASE StreamClosed(l)
  BY <1>1, <1>7 DEF StreamClosed, FeedTypeOK
<1>8. CASE StreamErred(l)
  BY <1>1, <1>8 DEF StreamErred, FeedTypeOK
<1>9. CASE StreamCancelled(l)
  BY <1>1, <1>9 DEF StreamCancelled, FeedTypeOK
<1>10. CASE Drained(l)
  BY <1>1, <1>10 DEF Drained, FeedTypeOK
<1> QED
  BY <1>2, <1>3, <1>4, <1>5, <1>6, <1>7, <1>8, <1>9, <1>10 DEF LoopStep

\* No reader comes to life by itself.
LEMMA ReaderKeepsAlone ==
  ASSUME FInv, NEW l \in Link, ReaderStep(l)
  PROVE  Alone'
<1> USE DEF Alone, Reading, Is, ReaderFrame, loopVars, readerVars, tickVars
<1>1. FeedTypeOK /\ Quiet /\ Alone /\ Counted
  BY DEF FInv
<1>2. CASE Malformed(l)
  BY <1>1, <1>2 DEF Malformed, FeedTypeOK
<1>3. CASE ReadFails(l)
  BY <1>1, <1>3 DEF ReadFails, FeedTypeOK
<1>4. CASE GoesSilent(l)
  BY <1>1, <1>4 DEF GoesSilent, FeedTypeOK
<1>5. CASE Report(l)
  BY <1>1, <1>5 DEF Report, FeedTypeOK
<1>6. CASE StartReturns(l)
  BY <1>1, <1>6 DEF StartReturns, FeedTypeOK
<1>7. CASE PingFails(l)
  BY <1>1, <1>7 DEF PingFails, FeedTypeOK
<1>8. CASE LeftoverEnds(l)
  BY <1>1, <1>8 DEF LeftoverEnds, FeedTypeOK
<1> QED
  BY <1>2, <1>3, <1>4, <1>5, <1>6, <1>7, <1>8 DEF ReaderStep

\* The select takes an error that was counted, and a connection starts without any.
LEMMA LoopKeepsCounted ==
  ASSUME FInv, NEW l \in Link, LoopStep(l)
  PROVE  Counted'
<1> USE DEF Alone, Counted, Stopped, Is, InHand, Taken, Goto, Leave, StreamFrame, loopVars, readerVars, tickVars
<1>1. FeedTypeOK /\ Quiet /\ Alone /\ Counted
  BY DEF FInv
<1>2. CASE Top(l)
  BY <1>1, <1>2 DEF Top, FeedTypeOK
<1>3. CASE Connect(l)
  <2>1. \A k \in Link \ {l} : UNCHANGED <<pc[k], reader[k], errCh[k], errors[k]>>
    BY <1>1, <1>3 DEF Connect, FeedTypeOK
  <2>2. errCh'[l] = 0 /\ errors'[l] = 0 /\ reader'[l] \in {"none", "reading"}
    BY <1>1, <1>3 DEF Connect, FeedTypeOK
  <2>3. pc'[l] \in {"subscribe", "stream"}
    BY <1>1, <1>3 DEF Connect, FeedTypeOK
  <2> QED
    BY <1>1, <2>1, <2>2, <2>3
<1>4. CASE DialFails(l)
  BY <1>1, <1>4 DEF DialFails, FeedTypeOK
<1>5. CASE Subscribe(l)
  BY <1>1, <1>5 DEF Subscribe, FeedTypeOK
<1>6. CASE Wait(l)
  BY <1>1, <1>6 DEF Wait, FeedTypeOK
<1>7. CASE StreamClosed(l)
  BY <1>1, <1>7 DEF StreamClosed, FeedTypeOK
<1>8. CASE StreamErred(l)
  BY <1>1, <1>8 DEF StreamErred, FeedTypeOK
<1>9. CASE StreamCancelled(l)
  BY <1>1, <1>9 DEF StreamCancelled, FeedTypeOK
<1>10. CASE Drained(l)
  BY <1>1, <1>10 DEF Drained, FeedTypeOK
<1> QED
  BY <1>2, <1>3, <1>4, <1>5, <1>6, <1>7, <1>8, <1>9, <1>10 DEF LoopStep

\* The reader counts an error before it reports it.
LEMMA ReaderKeepsCounted ==
  ASSUME FInv, NEW l \in Link, ReaderStep(l)
  PROVE  Counted'
<1> USE DEF Counted, Stopped, Is, InHand, Taken, ReaderFrame, loopVars, readerVars, tickVars
<1>1. FeedTypeOK /\ Quiet /\ Alone /\ Counted
  BY DEF FInv
<1>2. CASE Malformed(l)
  BY <1>1, <1>2 DEF Malformed, FeedTypeOK
<1>3. CASE ReadFails(l)
  BY <1>1, <1>3 DEF ReadFails, FeedTypeOK
<1>4. CASE GoesSilent(l)
  BY <1>1, <1>4 DEF GoesSilent, FeedTypeOK
<1>5. CASE Report(l)
  BY <1>1, <1>5 DEF Report, FeedTypeOK
<1>6. CASE StartReturns(l)
  BY <1>1, <1>6 DEF StartReturns, FeedTypeOK
<1>7. CASE PingFails(l)
  BY <1>1, <1>7 DEF PingFails, FeedTypeOK
<1>8. CASE LeftoverEnds(l)
  BY <1>1, <1>8 DEF LeftoverEnds, FeedTypeOK
<1> QED
  BY <1>2, <1>3, <1>4, <1>5, <1>6, <1>7, <1>8 DEF ReaderStep

\* Every step keeps the invariant.
LEMMA FeedInductive == FInv /\ [FeedNext]_vars => FInv'
<1> SUFFICES ASSUME FInv, [FeedNext]_vars PROVE FInv'
  OBVIOUS
<1>1. FeedTypeOK /\ Quiet /\ Alone /\ Counted
  BY DEF FInv
<1>2. ASSUME NEW l \in Link, LoopStep(l) PROVE FInv'
  BY <1>1, <1>2, LoopKeepsTypes, LoopKeepsQuiet, LoopKeepsAlone, LoopKeepsCounted DEF FInv
<1>3. ASSUME NEW l \in Link, ReaderStep(l) PROVE FInv'
  BY <1>1, <1>3, ReaderKeepsTypes, ReaderKeepsQuiet, ReaderKeepsAlone, ReaderKeepsCounted DEF FInv
<1>4. ASSUME NEW l \in Link, Deliver(l) \/ DeliverLate(l) PROVE FInv'
  <2>1. UNCHANGED <<loopVars, readerVars>>
    BY <1>4 DEF Deliver, DeliverLate
  <2>2. Alone' /\ Counted'
    BY <1>1, <2>1 DEF Alone, Counted, Reading, Stopped, Is, InHand, Taken, loopVars, readerVars
  <2> QED
    BY <1>1, <1>4, <2>2, HandlerKeepsTypes, HandlerKeepsQuiet DEF FInv
<1>5. ASSUME NEW v \in Venue, Collector(v) \/ Ingest(v) PROVE FInv'
  <2>1. UNCHANGED <<loopVars, readerVars>>
    BY <1>5 DEF Collector, Ingest
  <2>2. Alone' /\ Counted'
    BY <1>1, <2>1 DEF Alone, Counted, Reading, Stopped, Is, InHand, Taken, loopVars, readerVars
  <2> QED
    BY <1>1, <1>5, <2>2, ChannelKeepsTypes, ChannelKeepsQuiet DEF FInv
<1>6. CASE CancelContext
  <2>1. FeedTypeOK'
    BY <1>1, <1>6, TypesByGroup, TypesByGroupNext
    DEF CancelContext, PcTypes, PauseTypes, ReaderTypes, ErrorTypes, TickTypes,
        loopVars, readerVars, tickVars
  <2>2. Quiet' /\ Alone' /\ Counted'
    BY <1>1, <1>6 DEF CancelContext, Quiet, Alone, Counted, Reading, Stopped, Is, InHand, Taken,
                      loopVars, readerVars
  <2> QED
    BY <2>1, <2>2 DEF FInv
<1>7. CASE UNCHANGED vars
  BY <1>7, FeedStutters
<1> QED
  BY <1>2, <1>3, <1>4, <1>5, <1>6, <1>7 DEF FeedNext

LEMMA FeedInvariant == FeedSpec => []FInv
  BY FeedInitial, FeedInductive, PTL DEF FeedSpec

-----------------------------------------------------------------------------
\* The variables of Feed keep their types, for any venues, loops and bounds.
THEOREM FeedTypeCorrect == FeedSpec => []FeedTypeOK
<1>1. FInv => FeedTypeOK
  BY DEF FInv
<1> QED
  BY <1>1, FeedInvariant, PTL

\* No send panics before the context is cancelled, however many readers are left over
\* from whatever reconnects (bybit.go:44, 83-90).
THEOREM FeedPanicsOnlyAtShutdown == FeedSpec => []PanicOnlyAtShutdown
<1>1. FInv => PanicOnlyAtShutdown
  BY DEF FInv, Quiet, PanicOnlyAtShutdown
<1> QED
  BY <1>1, FeedInvariant, PTL

\* No symbol of Binance is ever read by two connections (binance.go:106-120).
THEOREM FeedHasOneReader == FeedSpec => []OneReader
<1>1. FInv => OneReader
  BY DEF FInv, Alone, OneReader
<1> QED
  BY <1>1, FeedInvariant, PTL

\* A loop hangs only after as many errors of one connection as HungOnlyByErrors says
\* (binance.go:79-120).
THEOREM FeedHangsOnlyByErrors == FeedSpec => []HungOnlyByErrors
<1>1. ASSUME FInv, NEW l \in Link, Hung(l)
      PROVE  errors[l] >= IF pc[l] = "resetting" THEN 3 ELSE 2
  <2>1. Is(l, "binance") /\ errors[l] >= errCh[l] + InHand(l) + Taken(l)
    BY <1>1 DEF FInv, Counted, Hung
  <2>2. errCh[l] = 1 /\ InHand(l) = 1
    BY <1>1 DEF Hung, InHand
  <2>3. Taken(l) = IF pc[l] = "resetting" THEN 1 ELSE 0
    BY DEF Taken
  <2>4. errors[l] \in Int
    BY <1>1 DEF FInv, FeedTypeOK
  <2> QED
    BY <2>1, <2>2, <2>3, <2>4
<1>2. FInv => HungOnlyByErrors
  BY <1>1 DEF HungOnlyByErrors
<1> QED
  BY <1>2, FeedInvariant, PTL

-----------------------------------------------------------------------------
(* The backoff keeps up with the dials that failed in a row *)

\* What the provers do not know of the powers of two.
PowersOfTwo == 2 ^ 0 = 1 /\ \A n \in Nat : 2 ^ n \in Nat /\ 2 ^ (n + 1) = 2 * 2 ^ n

Due(l) == Least(2 ^ failures[l], Ceiling)

\* A failed dial is answered at the end of the pause that follows it.
Paced ==
  \A l \in Link :
    /\ pc[l] \notin {"wait", "gone"} => backoff[l] >= Due(l)
    /\ pc[l] = "wait" => 2 * backoff[l] >= Due(l)

LEMMA PacedInit == PowersOfTwo /\ FeedInit => Paced
BY DEF PowersOfTwo, FeedInit, Paced, Due, Least

LEMMA DueType ==
  ASSUME PowersOfTwo, PauseTypes, NEW l \in Link
  PROVE  Due(l) \in Nat /\ Due(l) <= Ceiling /\ backoff[l] \in Nat /\ backoff[l] >= 1
<1>1. failures[l] \in Nat /\ backoff[l] \in 1 .. Ceiling
  BY DEF PauseTypes
<1>2. 2 ^ failures[l] \in Nat
  BY <1>1 DEF PowersOfTwo
<1>3. QED
  BY <1>1, <1>2 DEF Due, Least

LEMMA PacedLoop ==
  ASSUME PowersOfTwo, FInv, Paced, NEW l \in Link, LoopStep(l)
  PROVE  Paced'
<1>0. PauseTypes /\ pc \in [Link -> {"top", "dial", "subscribe", "wait", "stream", "resetting", "stopping", "gone"}]
  BY TypesByGroup DEF FInv, PcTypes
<1> USE DEF Goto, Leave, loopVars, StreamFrame
<1>1. \A k \in Link \ {l} : pc'[k] = pc[k] /\ backoff'[k] = backoff[k] /\ failures'[k] = failures[k]
  BY <1>0 DEF PauseTypes, LoopStep, Top, Connect, DialFails, Subscribe, Wait, StreamClosed,
              StreamErred, StreamCancelled, Drained
<1>2. Due(l) \in Nat /\ Due(l) <= Ceiling /\ backoff[l] \in Nat /\ backoff[l] >= 1
  BY <1>0, DueType
<1>3. SUFFICES /\ pc'[l] \notin {"wait", "gone"} => backoff'[l] >= Due(l)'
               /\ pc'[l] = "wait" => 2 * backoff'[l] >= Due(l)'
  BY <1>1 DEF Paced, Due
<1>4. CASE Connect(l)
  <2>1. backoff'[l] = 1 /\ failures'[l] = 0 /\ pc'[l] # "wait"
    BY <1>0, <1>4 DEF Connect, PauseTypes
  <2>2. Due(l)' <= 1
    BY <2>1 DEF Due, Least, PowersOfTwo
  <2>3. QED
    BY <2>1, <2>2
<1>5. CASE DialFails(l)
  <2>1. /\ pc[l] = "dial" /\ pc'[l] = "wait" /\ backoff'[l] = backoff[l]
        /\ failures[l] \in Nat /\ failures'[l] \in {failures[l], failures[l] + 1}
    BY <1>0, <1>5 DEF DialFails, PauseTypes, Least
  <2>2. backoff[l] >= Due(l)
    BY <2>1 DEF Paced
  <2>3. 2 ^ failures[l] \in Nat /\ 2 ^ failures'[l] \in {2 ^ failures[l], 2 * 2 ^ failures[l]}
    BY <2>1 DEF PowersOfTwo
  <2>4. Due(l)' <= 2 * Due(l)
    BY <2>3 DEF Due, Least
  <2>5. Due(l)' \in Nat
    BY <2>3 DEF Due, Least
  <2>6. QED
    BY <1>2, <2>1, <2>2, <2>4, <2>5
<1>6. CASE Wait(l)
  <2>1. failures' = failures /\ pc[l] = "wait" /\ Due(l)' = Due(l)
    BY <1>6 DEF Wait, Due
  <2>2. pc'[l] = "gone" \/ (pc'[l] = "top" /\ backoff'[l] = Least(2 * backoff[l], Ceiling))
    BY <1>0, <1>6 DEF Wait, PauseTypes
  <2>3. 2 * backoff[l] >= Due(l)
    BY <2>1 DEF Paced
  <2>4. QED
    BY <1>2, <2>1, <2>2, <2>3 DEF Least
<1>7. CASE Top(l) \/ Subscribe(l)
  <2>1. /\ pc[l] \notin {"wait", "gone"} /\ backoff'[l] = backoff[l] /\ Due(l)' = Due(l)
    BY <1>7 DEF Top, Subscribe, Due
  <2>2. backoff[l] >= Due(l)
    BY <2>1 DEF Paced
  <2>3. QED
    BY <1>2, <2>1, <2>2
<1>8. CASE StreamClosed(l) \/ StreamErred(l) \/ StreamCancelled(l) \/ Drained(l)
  <2>1. /\ pc[l] \notin {"wait", "gone"} /\ backoff'[l] = backoff[l] /\ Due(l)' = Due(l)
    BY <1>8 DEF StreamClosed, StreamErred, StreamCancelled, Drained, Stopped, Due
  <2>2. backoff[l] >= Due(l)
    BY <2>1 DEF Paced
  <2>3. QED
    BY <1>2, <2>1, <2>2
<1>9. QED
  BY <1>4, <1>5, <1>6, <1>7, <1>8 DEF LoopStep

\* The pause before a dial doubles with every dial that failed in a row, up to the
\* ceiling, whatever connections, errors and drops come in between (binance.go:98-106
\* and 126, bybit.go:62-72 and 129, PLAN.md:103).
THEOREM FeedBacksOff == PowersOfTwo => (FeedSpec => []ReconnectsBackOff)
<1> SUFFICES ASSUME PowersOfTwo PROVE FeedSpec => []ReconnectsBackOff
  OBVIOUS
<1>1. FInv /\ Paced /\ [FeedNext]_vars => Paced'
  <2> SUFFICES ASSUME FInv, Paced, [FeedNext]_vars PROVE Paced'
    OBVIOUS
  <2>1. UNCHANGED loopVars \/ \E l \in Link : LoopStep(l)
    BY DEF FeedNext, ReaderStep, Malformed, ReadFails, GoesSilent, Report, StartReturns,
           PingFails, LeftoverEnds, ReaderFrame, Deliver, DeliverLate, Collector, Ingest,
           CancelContext, vars
  <2>2. CASE UNCHANGED loopVars
    BY <2>2 DEF loopVars, Paced, Due
  <2>3. QED
    BY <2>1, <2>2, PacedLoop
<1>2. Paced => ReconnectsBackOff
  BY DEF Paced, Due, ReconnectsBackOff
<1> QED
  BY <1>1, <1>2, PacedInit, FeedInvariant, PTL DEF FeedSpec

-----------------------------------------------------------------------------
LEMMA ContractInit == FeedInit => Contract!FundingInit
  BY DEF FeedInit, Contract!FundingInit

\* Each step ends the feed of one venue, cancels, or does not show.
LEMMA ContractStep ==
  ASSUME FInv, FInv', [FeedNext]_vars
  PROVE  [Contract!FundingNext]_Contract!feedVars
<1> USE DEF Contract!FundingNext, Contract!End, Contract!Cancel, Contract!feedVars
<1>1. CASE CancelContext
  BY <1>1 DEF CancelContext
<1>2. ASSUME NEW l \in Link, ~panicked, LoopStep(l)
      PROVE  [Contract!FundingNext]_Contract!feedVars
  <2>1. UNCHANGED <<ctxDone, panicked>>
    BY <1>2 DEF LoopStep, Top, Connect, DialFails, Subscribe, Wait, StreamClosed, StreamErred,
                StreamCancelled, Drained, StreamFrame
  <2>2. closed' = closed \/ closed' = closed \cup {VenueOf[l]}
    BY <1>2 DEF LoopStep, Top, Connect, DialFails, Subscribe, Wait, StreamClosed, StreamErred,
                StreamCancelled, Drained, StreamFrame, Leave
  <2>3. closed' # {} => ctxDone'
    BY DEF FInv, Quiet
  <2>4. panicked \in BOOLEAN
    BY DEF FInv, FeedTypeOK
  <2> QED
    BY <1>2, <2>1, <2>2, <2>3, <2>4
<1>3. ASSUME NEW l \in Link, ReaderStep(l) \/ Deliver(l)
      PROVE  [Contract!FundingNext]_Contract!feedVars
  BY <1>3 DEF ReaderStep, Malformed, ReadFails, GoesSilent, Report, StartReturns, PingFails,
              LeftoverEnds, ReaderFrame, Deliver
<1>4. ASSUME NEW l \in Link, ~panicked, DeliverLate(l)
      PROVE  [Contract!FundingNext]_Contract!feedVars
  BY <1>4 DEF DeliverLate, FInv, Quiet
<1>5. ASSUME NEW v \in Venue, ~panicked, Collector(v)
      PROVE  [Contract!FundingNext]_Contract!feedVars
  BY <1>5 DEF Collector
<1>6. ASSUME NEW v \in Venue, Ingest(v)
      PROVE  [Contract!FundingNext]_Contract!feedVars
  BY <1>6 DEF Ingest
<1>7. CASE UNCHANGED vars
  BY <1>7 DEF vars
<1> QED
  BY <1>1, <1>2, <1>3, <1>4, <1>5, <1>6, <1>7 DEF FeedNext

\* The adapters keep the contract of SubscribeFunding as far as safety goes: no
\* channel is closed before the context is cancelled, and none is closed twice.  That
\* every channel is closed in the end is left to the run (venue.go:15-18).
THEOREM FeedKeepsContract == FeedSpec => Contract!FundingSafety
<1>1. FInv /\ FInv' /\ [FeedNext]_vars => [Contract!FundingNext]_Contract!feedVars
  BY ContractStep
<1> QED
  BY <1>1, ContractInit, FeedInvariant, PTL DEF FeedSpec, Contract!FundingSafety

=============================================================================
