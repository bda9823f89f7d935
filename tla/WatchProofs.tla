----------------------------- MODULE WatchProofs -----------------------------
(***************************************************************************)
(* Theorems about Watch, for any rates, capacities and bounds: its types,  *)
(* and that no tap on Close is lost between the chat and the strategy.     *)
(***************************************************************************)
EXTENDS Watch, TLAPS, FiniteSetTheorems, FunctionTheorems

Ticks == [leg : Leg, rate : Rate]

\* WatchTypeOK, by groups of variables; what is owed was tapped.
MarketTypes ==
  /\ sent \in [Leg -> Rate]
  /\ ticks \in Seq(Ticks) /\ Len(ticks) <= TickCap
MonitorTypes ==
  /\ latest \in [Leg -> Rate \cup {NoTick}]
  /\ loop \in {"select", "alert"}
  /\ alerted \in BOOLEAN
BotTypes ==
  /\ updates \in Seq(Tap) /\ unconfirmed \in Seq(Tap) /\ fetched \in Seq(Tap)
  /\ Len(updates) + Len(unconfirmed) <= MaxUpdates
  /\ Len(fetched) <= UpdateCap + MaxUpdates
  /\ inHand \in Tap \cup {None}
  /\ approvalCh \in 0 .. ChanCap
  /\ closeCh \in 0 .. ChanCap
CountTypes ==
  /\ open \in BOOLEAN
  /\ owed \in 0 .. closeTaps
  /\ closeTaps \in 0 .. MaxCloseTaps
  /\ crashes \in 0 .. MaxCrashes

\* What Telegram may deliver, again or for the first time, was tapped.
Deliverable == Closes(unconfirmed) + Closes(updates) <= closeTaps

WInv == MarketTypes /\ MonitorTypes /\ BotTypes /\ CountTypes /\ TapsAccounted /\ Deliverable

LEMMA WatchBounds ==
  /\ TickCap \in Nat /\ TickCap >= 1 /\ ChanCap \in Nat /\ ChanCap >= 1
  /\ UpdateCap \in Nat /\ UpdateCap >= 1 /\ MaxUpdates \in Nat /\ MaxUpdates >= 1 /\ MaxCloseTaps \in Nat /\ MaxCrashes \in Nat
BY WatchAssumption

USE WatchBounds

-----------------------------------------------------------------------------
(* Counting the taps on Close *)

ClosesAt(taps) == {i \in DOMAIN taps : taps[i] = "close"}

LEMMA ClosesType ==
  ASSUME NEW taps \in Seq(Tap)
  PROVE  IsFiniteSet(ClosesAt(taps)) /\ Closes(taps) \in Nat
<1>1. ClosesAt(taps) \subseteq 1 .. Len(taps) /\ Len(taps) \in Nat
  BY DEF ClosesAt
<1>2. IsFiniteSet(ClosesAt(taps))
  <2>1. IsFiniteSet(1 .. Len(taps))
    BY <1>1, FS_Interval
  <2>2. QED
    BY <1>1, <2>1, FS_Subset
<1>3. QED
  BY <1>2, FS_CardinalityType DEF Closes, ClosesAt

LEMMA ClosesEmpty == Closes(<<>>) = 0
<1>1. ClosesAt(<<>>) = {}
  BY DEF ClosesAt
<1>2. QED
  BY <1>1, FS_EmptySet DEF Closes, ClosesAt

\* A tap at the end counts when it is one on Close.
LEMMA ClosesAppend ==
  ASSUME NEW taps \in Seq(Tap), NEW tap \in Tap
  PROVE  Closes(Append(taps, tap)) = Closes(taps) + (IF tap = "close" THEN 1 ELSE 0)
<1> DEFINE last == Len(taps) + 1
<1>1. /\ Append(taps, tap) \in Seq(Tap) /\ Len(Append(taps, tap)) = last /\ Len(taps) \in Nat
      /\ Append(taps, tap)[last] = tap
      /\ \A i \in 1 .. Len(taps) : Append(taps, tap)[i] = taps[i]
  OBVIOUS
<1>2. ClosesAt(Append(taps, tap)) =
        IF tap = "close" THEN ClosesAt(taps) \cup {last} ELSE ClosesAt(taps)
  BY <1>1 DEF ClosesAt
<1>3. last \notin ClosesAt(taps)
  BY <1>1 DEF ClosesAt
<1>4. IsFiniteSet(ClosesAt(taps)) /\ Closes(taps) \in Nat
  BY ClosesType
<1>5. /\ Closes(taps) = Cardinality(ClosesAt(taps))
      /\ Closes(Append(taps, tap)) = Cardinality(ClosesAt(Append(taps, tap)))
  BY DEF Closes, ClosesAt
<1>6. Cardinality(ClosesAt(taps) \cup {last}) = Closes(taps) + 1
  BY <1>3, <1>4, <1>5, FS_AddElement
<1> HIDE DEF last
<1>7. QED
  BY <1>2, <1>4, <1>5, <1>6

\* The tap that is taken from the front no longer counts: the others move up by one.
LEMMA ClosesTail ==
  ASSUME NEW taps \in Seq(Tap), taps # <<>>
  PROVE  Closes(taps) = Closes(Tail(taps)) + (IF Head(taps) = "close" THEN 1 ELSE 0)
<1> DEFINE rest == ClosesAt(taps) \ {1}
           up == [i \in ClosesAt(Tail(taps)) |-> i + 1]
<1>1. /\ Tail(taps) \in Seq(Tap) /\ Len(taps) \in Nat /\ Len(taps) >= 1
      /\ Len(Tail(taps)) = Len(taps) - 1 /\ Head(taps) = taps[1]
      /\ \A i \in 1 .. Len(Tail(taps)) : Tail(taps)[i] = taps[i + 1]
  OBVIOUS
<1>2. ClosesAt(Tail(taps)) = {i \in 1 .. Len(taps) - 1 : taps[i + 1] = "close"}
  BY <1>1 DEF ClosesAt
<1>3. rest = {i \in 2 .. Len(taps) : taps[i] = "close"}
  BY <1>1 DEF ClosesAt
<1>4. up \in Bijection(ClosesAt(Tail(taps)), rest)
  <2>1. up \in [ClosesAt(Tail(taps)) -> rest]
    BY <1>1, <1>2, <1>3
  <2>2. \A i, j \in ClosesAt(Tail(taps)) : up[i] = up[j] => i = j
    BY <1>2
  <2>3. \A j \in rest : \E i \in ClosesAt(Tail(taps)) : up[i] = j
    <3> SUFFICES ASSUME NEW j \in rest
                 PROVE  \E i \in ClosesAt(Tail(taps)) : up[i] = j
      OBVIOUS
    <3>1. j - 1 \in ClosesAt(Tail(taps)) /\ up[j - 1] = j
      BY <1>1, <1>2, <1>3
    <3>2. QED
      BY <3>1
  <2>4. QED
    BY <2>1, <2>2, <2>3, Fun_IsBij
<1>5. Cardinality(rest) = Closes(Tail(taps))
  BY <1>1, <1>4, ClosesType, FS_Bijection DEF ExistsBijection, Closes, ClosesAt
<1>6. IsFiniteSet(ClosesAt(taps)) /\ Closes(taps) \in Nat
  BY ClosesType
<1>7. 1 \in ClosesAt(taps) <=> Head(taps) = "close"
  BY <1>1 DEF ClosesAt
<1>8. Cardinality(rest) = IF 1 \in ClosesAt(taps) THEN Closes(taps) - 1 ELSE Closes(taps)
  BY <1>6, FS_RemoveElement DEF Closes, ClosesAt
<1>9. QED
  BY <1>5, <1>6, <1>7, <1>8

\* Two queues, one behind the other, hold the taps of both.
LEMMA ClosesConcat ==
  ASSUME NEW taps \in Seq(Tap), NEW more \in Seq(Tap)
  PROVE  Closes(taps \o more) = Closes(taps) + Closes(more)
<1> DEFINE n == Len(taps)
           up == {i \in n + 1 .. n + Len(more) : more[i - n] = "close"}
           shift == [i \in ClosesAt(more) |-> i + n]
<1>1. /\ n \in Nat /\ Len(more) \in Nat /\ Len(taps \o more) = n + Len(more)
      /\ taps \o more \in Seq(Tap)
      /\ \A i \in 1 .. n : (taps \o more)[i] = taps[i]
      /\ \A i \in n + 1 .. n + Len(more) : (taps \o more)[i] = more[i - n]
  OBVIOUS
<1>2. /\ ClosesAt(taps) = {i \in 1 .. n : taps[i] = "close"}
      /\ ClosesAt(more) = {i \in 1 .. Len(more) : more[i] = "close"}
      /\ ClosesAt(taps \o more) = {i \in 1 .. n + Len(more) : (taps \o more)[i] = "close"}
  BY <1>1 DEF ClosesAt
<1> HIDE DEF n
<1>3. ClosesAt(taps \o more) = ClosesAt(taps) \cup up
  BY <1>1, <1>2
<1>4. ClosesAt(taps) \cap up = {}
  BY <1>1, <1>2
<1>5. shift \in Bijection(ClosesAt(more), up)
  <2>1. shift \in [ClosesAt(more) -> up]
    BY <1>1, <1>2
  <2>2. \A i, j \in ClosesAt(more) : shift[i] = shift[j] => i = j
    BY <1>1, <1>2
  <2>3. \A j \in up : \E i \in ClosesAt(more) : shift[i] = j
    <3> SUFFICES ASSUME NEW j \in up PROVE \E i \in ClosesAt(more) : shift[i] = j
      OBVIOUS
    <3>1. j - n \in ClosesAt(more) /\ shift[j - n] = j
      BY <1>1, <1>2
    <3>2. QED
      BY <3>1
  <2>4. QED
    BY <2>1, <2>2, <2>3, Fun_IsBij
<1>6. IsFiniteSet(up) /\ Cardinality(up) = Closes(more)
  BY <1>5, ClosesType, FS_Bijection DEF ExistsBijection, Closes, ClosesAt
<1>7. /\ IsFiniteSet(ClosesAt(taps)) /\ Closes(taps) \in Nat /\ Closes(more) \in Nat
      /\ Closes(taps) = Cardinality(ClosesAt(taps))
      /\ Closes(taps \o more) = Cardinality(ClosesAt(taps \o more))
  BY ClosesType DEF Closes, ClosesAt
<1> HIDE DEF up
<1>8. Cardinality(ClosesAt(taps) \cup up) = Closes(taps) + Closes(more) - Cardinality({})
  BY <1>4, <1>6, <1>7, FS_Union
<1>9. QED
  BY <1>3, <1>7, <1>8, FS_EmptySet

-----------------------------------------------------------------------------
(* The invariant *)

LEMMA WatchStarts == WatchInit => WInv
<1> SUFFICES ASSUME WatchInit PROVE WInv
  OBVIOUS
<1>1. MarketTypes
  BY DEF WatchInit, MarketTypes
<1>2. MonitorTypes
  BY DEF WatchInit, MonitorTypes
<1>3. BotTypes /\ CountTypes
  BY DEF WatchInit, BotTypes, CountTypes
<1>4. TapsAccounted /\ Deliverable
  BY ClosesEmpty DEF WatchInit, TapsAccounted, Deliverable, None
<1>5. QED
  BY <1>1, <1>2, <1>3, <1>4 DEF WInv

\* What a step leaves alone.
LEMMA WatchFrames ==
  ASSUME WInv
  PROVE  /\ UNCHANGED marketVars => MarketTypes'
         /\ UNCHANGED monitorVars => MonitorTypes'
         /\ UNCHANGED botVars => BotTypes'
         /\ UNCHANGED <<open, auxVars>> => CountTypes'
         /\ UNCHANGED <<updates, fetched, inHand, closeCh, owed>> => TapsAccounted'
         /\ UNCHANGED <<updates, unconfirmed, closeTaps>> => Deliverable'
BY DEF WInv, MarketTypes, MonitorTypes, BotTypes, CountTypes, TapsAccounted, Deliverable,
       marketVars, monitorVars, botVars, telegramVars, auxVars

LEMMA SendTickStep ==
  ASSUME WInv, NEW leg \in Leg, SendTick(leg)
  PROVE  WInv'
<1>1. PICK r \in Rate :
        /\ sent' = [sent EXCEPT ![leg] = r]
        /\ ticks' = IF Len(ticks) < TickCap
                    THEN Append(ticks, [leg |-> leg, rate |-> r])
                    ELSE ticks
  BY DEF SendTick
<1>2. [leg |-> leg, rate |-> r] \in Ticks
  BY DEF Ticks
<1>3. MarketTypes'
  <2>1. sent \in [Leg -> Rate] /\ ticks \in Seq(Ticks) /\ Len(ticks) \in Nat /\ Len(ticks) <= TickCap
    BY DEF WInv, MarketTypes
  <2>2. ticks' \in Seq(Ticks) /\ Len(ticks') <= TickCap
    <3>1. CASE Len(ticks) < TickCap
      BY <1>1, <1>2, <2>1, <3>1
    <3>2. CASE ~(Len(ticks) < TickCap)
      BY <1>1, <2>1, <3>2
    <3>3. QED
      BY <3>1, <3>2
  <2>3. QED
    BY <1>1, <2>1, <2>2 DEF MarketTypes
<1>4. QED
  BY <1>3, WatchFrames DEF SendTick, WInv, botVars, telegramVars, auxVars

LEMMA TakeTickStep ==
  ASSUME WInv, TakeTick
  PROVE  WInv'
<1>1. ticks \in Seq(Ticks) /\ ticks # <<>> /\ Len(ticks) <= TickCap
  BY DEF WInv, MarketTypes, TakeTick
<1>2. Tail(ticks) \in Seq(Ticks) /\ Len(Tail(ticks)) <= TickCap /\ Head(ticks) \in Ticks
  BY <1>1
<1>3. MarketTypes'
  BY <1>2 DEF WInv, MarketTypes, TakeTick
<1>4. MonitorTypes'
  BY <1>2 DEF WInv, MonitorTypes, TakeTick, Updated, Ticks
<1>5. QED
  BY <1>3, <1>4, WatchFrames DEF TakeTick, WInv, botVars, telegramVars, auxVars

LEMMA LoopSteps ==
  ASSUME WInv, AlertReturns \/ TakeApproval \/ TakeClose
  PROVE  WInv'
<1>1. CASE AlertReturns
  <2>1. MonitorTypes'
    BY <1>1 DEF AlertReturns, WInv, MonitorTypes
  <2>2. QED
    BY <1>1, <2>1, WatchFrames DEF AlertReturns, WInv, botVars, telegramVars, auxVars
<1>2. CASE TakeApproval
  <2>1. BotTypes'
    BY <1>2 DEF TakeApproval, WInv, BotTypes, telegramVars
  <2>2. QED
    BY <1>2, <2>1, WatchFrames DEF TakeApproval, WInv, telegramVars, auxVars
<1>3. CASE TakeClose
  <2>1. BotTypes'
    BY <1>3 DEF TakeClose, WInv, BotTypes, telegramVars
  <2>2. /\ updates \in Seq(Tap) /\ fetched \in Seq(Tap)
        /\ closeCh \in Nat /\ closeCh > 0 /\ owed \in Nat
    BY <1>3 DEF TakeClose, WInv, BotTypes, CountTypes
  <2>3. Closes(updates) \in Nat /\ Closes(fetched) \in Nat /\ owed >= closeCh
    BY <2>2, ClosesType DEF WInv, TapsAccounted
  <2>4. CountTypes'
    <3>1. open' \in BOOLEAN
      BY <1>3, Zenon DEF TakeClose, WInv, CountTypes
    <3>2. owed' \in 0 .. closeTaps' /\ closeTaps' \in 0 .. MaxCloseTaps /\ crashes' \in 0 .. MaxCrashes
      BY <1>3, <2>2, <2>3 DEF TakeClose, WInv, CountTypes
    <3>3. QED
      BY <3>1, <3>2 DEF CountTypes
  <2>5. TapsAccounted'
    BY <1>3, <2>2, <2>3 DEF TakeClose, WInv, TapsAccounted, telegramVars
  <2>6. QED
    BY <1>3, <2>1, <2>4, <2>5, WatchFrames DEF TakeClose, WInv, telegramVars
<1>4. QED
  BY <1>1, <1>2, <1>3

\* What the queues hold, as numbers.
LEMMA QueueTypes ==
  ASSUME WInv
  PROVE  /\ updates \in Seq(Tap) /\ unconfirmed \in Seq(Tap) /\ fetched \in Seq(Tap)
         /\ Len(updates) \in Nat /\ Len(unconfirmed) \in Nat /\ Len(fetched) \in Nat
         /\ Len(updates) + Len(unconfirmed) <= MaxUpdates
         /\ Len(fetched) <= UpdateCap + MaxUpdates
         /\ Closes(updates) \in Nat /\ Closes(unconfirmed) \in Nat /\ Closes(fetched) \in Nat
         /\ closeCh \in Nat /\ owed \in Nat /\ closeTaps \in Nat
<1>1. updates \in Seq(Tap) /\ unconfirmed \in Seq(Tap) /\ fetched \in Seq(Tap)
  BY DEF WInv, BotTypes
<1>2. QED
  BY <1>1, ClosesType DEF WInv, BotTypes, CountTypes

LEMMA UserTapsStep ==
  ASSUME WInv, NEW tap \in Tap, UserTaps(tap)
  PROVE  WInv'
<1>1. /\ updates' = Append(updates, tap) /\ Len(updates) + Len(unconfirmed) < MaxUpdates
      /\ UNCHANGED <<unconfirmed, fetched, inHand, approvalCh, closeCh>>
  BY DEF UserTaps
<1>2. BotTypes'
  <2>1. updates' \in Seq(Tap) /\ Len(updates') = Len(updates) + 1
    BY <1>1, QueueTypes
  <2>2. QED
    BY <1>1, <2>1, QueueTypes DEF WInv, BotTypes
<1>3. CountTypes'
  BY DEF UserTaps, WInv, CountTypes
<1>4. TapsAccounted' /\ Deliverable'
  <2>1. Closes(updates') = Closes(updates) + (IF tap = "close" THEN 1 ELSE 0)
    BY <1>1, QueueTypes, ClosesAppend
  <2>2. /\ owed' = owed + (IF tap = "close" THEN 1 ELSE 0)
        /\ closeTaps' = closeTaps + (IF tap = "close" THEN 1 ELSE 0)
    BY QueueTypes DEF UserTaps
  <2> DEFINE new == IF tap = "close" THEN 1 ELSE 0
             hand == IF inHand = "close" THEN 1 ELSE 0
  <2>3. TapsAccounted'
    <3>1. new \in Nat /\ hand \in Nat /\ hand' = hand
      BY <1>1
    <3>2. Closes(updates') = Closes(updates) + new /\ owed' = owed + new
      BY <2>1, <2>2
    <3>3. Closes(fetched') = Closes(fetched) /\ closeCh' = closeCh
      BY <1>1
    <3>4. owed = Closes(updates) + Closes(fetched) + hand + closeCh
      BY DEF WInv, TapsAccounted
    <3> HIDE DEF new, hand
    <3>5. Closes(updates) \in Nat /\ Closes(fetched) \in Nat /\ closeCh \in Nat
      BY QueueTypes
    <3>6. owed' = Closes(updates') + Closes(fetched') + hand' + closeCh'
      BY <3>1, <3>2, <3>3, <3>4, <3>5
    <3>7. QED
      BY <3>6 DEF TapsAccounted, hand
  <2>4. Deliverable'
    BY <1>1, <2>1, <2>2, QueueTypes DEF WInv, Deliverable
  <2>5. QED
    BY <2>3, <2>4
<1>5. QED
  BY <1>2, <1>3, <1>4, WatchFrames DEF UserTaps, WInv

\* A poll confirms a batch and moves the next one to the channel of the library.
LEMMA PollStep ==
  ASSUME WInv, Poll
  PROVE  WInv'
<1>1. /\ unconfirmed' = updates /\ fetched' = fetched \o updates /\ updates' = <<>>
      /\ Len(fetched) <= UpdateCap
      /\ UNCHANGED <<marketVars, monitorVars, inHand, approvalCh, closeCh, open, auxVars>>
  BY DEF Poll
<1>2. /\ fetched' \in Seq(Tap) /\ Len(fetched') = Len(fetched) + Len(updates)
      /\ updates' \in Seq(Tap) /\ Len(updates') = 0
  BY <1>1, QueueTypes
<1>3. BotTypes'
  BY <1>1, <1>2, QueueTypes DEF WInv, BotTypes
<1>4. Closes(fetched') = Closes(fetched) + Closes(updates) /\ Closes(updates') = 0
  BY <1>1, QueueTypes, ClosesConcat, ClosesEmpty
<1>5. TapsAccounted' /\ Deliverable'
  BY <1>1, <1>4, QueueTypes DEF WInv, TapsAccounted, Deliverable, auxVars
<1>6. QED
  BY <1>1, <1>3, <1>5, WatchFrames DEF WInv, auxVars

LEMMA BotSteps ==
  ASSUME WInv, NextUpdate \/ Forward
  PROVE  WInv'
<1>1. CASE NextUpdate
  <2>1. /\ fetched # <<>> /\ fetched' = Tail(fetched) /\ inHand' = Head(fetched)
        /\ inHand = None
        /\ UNCHANGED <<marketVars, monitorVars, updates, unconfirmed, approvalCh, closeCh, open, auxVars>>
    BY <1>1 DEF NextUpdate
  <2>2. fetched' \in Seq(Tap) /\ Len(fetched') = Len(fetched) - 1 /\ inHand' \in Tap
    BY <2>1, QueueTypes
  <2>3. BotTypes'
    BY <2>1, <2>2, QueueTypes DEF WInv, BotTypes
  <2>4. TapsAccounted'
    <3>1. Closes(fetched) = Closes(fetched') + (IF inHand' = "close" THEN 1 ELSE 0)
      BY <2>1, QueueTypes, ClosesTail
    <3>2. Closes(fetched') \in Nat
      BY <2>2, ClosesType
    <3>3. QED
      BY <2>1, <3>1, <3>2, QueueTypes DEF WInv, TapsAccounted, None, auxVars
  <2>5. QED
    BY <2>1, <2>3, <2>4, WatchFrames DEF WInv, auxVars
<1>2. CASE Forward
  <2>1. BotTypes'
    BY <1>2 DEF Forward, WInv, BotTypes, telegramVars
  <2>2. TapsAccounted'
    BY <1>2, QueueTypes DEF Forward, WInv, TapsAccounted, telegramVars, auxVars, None
  <2>3. QED
    BY <1>2, <2>1, <2>2, WatchFrames DEF Forward, WInv, telegramVars, auxVars
<1>3. QED
  BY <1>1, <1>2

\* A restart starts from the taps that Telegram delivers again.
LEMMA CrashStep ==
  ASSUME WInv, CrashAndRestart
  PROVE  WInv'
<1>1. /\ updates' = unconfirmed \o updates /\ unconfirmed' = <<>> /\ fetched' = <<>>
      /\ inHand' = None /\ approvalCh' = 0 /\ closeCh' = 0 /\ owed' = Closes(updates')
      /\ UNCHANGED <<open, closeTaps>>
  BY DEF CrashAndRestart
<1>2. /\ Closes(updates') = Closes(unconfirmed) + Closes(updates)
      /\ Closes(unconfirmed') = 0 /\ Closes(fetched') = 0
  BY <1>1, QueueTypes, ClosesConcat, ClosesEmpty
<1>3. MarketTypes' /\ MonitorTypes'
  BY DEF CrashAndRestart, WInv, MarketTypes, MonitorTypes
<1>4. BotTypes'
  <2>1. /\ updates' \in Seq(Tap) /\ Len(updates') = Len(unconfirmed) + Len(updates)
        /\ unconfirmed' \in Seq(Tap) /\ Len(unconfirmed') = 0
        /\ fetched' \in Seq(Tap) /\ Len(fetched') = 0
    BY <1>1, QueueTypes
  <2>2. QED
    BY <1>1, <2>1, QueueTypes DEF BotTypes
<1>5. CountTypes'
  <2>1. owed' \in 0 .. closeTaps'
    BY <1>1, <1>2, QueueTypes DEF WInv, Deliverable
  <2>2. crashes' \in 0 .. MaxCrashes
    BY DEF CrashAndRestart, WInv, CountTypes
  <2>3. open' \in BOOLEAN /\ closeTaps' \in 0 .. MaxCloseTaps
    BY <1>1 DEF WInv, CountTypes
  <2>4. QED
    BY <2>1, <2>2, <2>3 DEF CountTypes
<1>6. TapsAccounted' /\ Deliverable'
  BY <1>1, <1>2, QueueTypes DEF WInv, TapsAccounted, Deliverable, None
<1>7. QED
  BY <1>3, <1>4, <1>5, <1>6 DEF WInv

LEMMA WatchInductive == WInv /\ [WatchNext]_watchVars => WInv'
<1>1. WInv /\ UNCHANGED watchVars => WInv'
  BY WatchFrames DEF watchVars, WInv, botVars, telegramVars, auxVars
<1>2. QED
  BY <1>1, SendTickStep, TakeTickStep, LoopSteps, UserTapsStep, PollStep, BotSteps, CrashStep DEF WatchNext

LEMMA WatchInvariant == WatchSpec => []WInv
BY WatchStarts, WatchInductive, PTL DEF WatchSpec

\* Every variable stays in its domain and every channel within its capacity, for any
\* rates and capacities, however many taps and ticks wait and whenever a crash comes.
THEOREM WatchTypeCorrect == WatchSpec => []WatchTypeOK
<1>1. WInv => WatchTypeOK
  BY DEF WInv, MarketTypes, MonitorTypes, BotTypes, CountTypes, WatchTypeOK, Ticks
<1>2. QED
  BY <1>1, WatchInvariant, PTL

\* No tap on Close is dropped, doubled or taken for a verdict between the chat and the
\* strategy, whatever waits and blocks, and after a crash the strategy is owed what
\* Telegram still holds (bot.go:63-143).
THEOREM WatchLosesNoTap == WatchSpec => []TapsAccounted
<1>1. WInv => TapsAccounted
  BY DEF WInv
<1>2. QED
  BY <1>1, WatchInvariant, PTL

=============================================================================
