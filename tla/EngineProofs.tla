---------------------------- MODULE EngineProofs ----------------------------
(***************************************************************************)
(* Theorems about Engine, for any venues, symbols, rates, channel          *)
(* capacities and time bounds.                                             *)
(*                                                                         *)
(* EngInv says that the ticks of one venue and symbol stand in the order   *)
(* of their age along their way: latest holds the oldest one, and only     *)
(* one; then come those in tickForEngine and those in tickCh, each channel *)
(* with its oldest first.  What the engine takes next is therefore never   *)
(* older than what it replaces.                                            *)
(***************************************************************************)
EXTENDS Engine, SequenceTheorems, TLAPS

\* A channel holds the ticks of one feed oldest first.
OldestFirst(ch) ==
  \A i, j \in 1 .. Len(ch) : i < j /\ SameFeed(ch[i], ch[j]) => ch[j].age <= ch[i].age

\* No tick of ch is older than one of the same feed in the set S.
NoOlder(S, ch) ==
  \A t \in S, i \in 1 .. Len(ch) : SameFeed(t, ch[i]) => ch[i].age <= t.age

OnePerFeed == \A t, u \in latest : SameFeed(t, u) => t = u

InLine ==
  \A i \in 1 .. Len(tickForEngine), j \in 1 .. Len(tickCh) :
    SameFeed(tickForEngine[i], tickCh[j]) => tickCh[j].age <= tickForEngine[i].age

Order ==
  /\ OldestFirst(tickCh) /\ OldestFirst(tickForEngine) /\ InLine
  /\ NoOlder(latest, tickCh) /\ NoOlder(latest, tickForEngine)

EngInv == EngineTypeOK /\ OnePerFeed /\ Order

-----------------------------------------------------------------------------
\* The bounds are numbers, and no pair of equal rates is worth its cost.
LEMMA EngineBounds ==
  /\ StaleAfter \in Nat /\ StaleAfter >= 1
  /\ TickCap \in Nat /\ EngineCap \in Nat /\ CandidateCap \in Nat
  /\ Debounce \in Nat /\ Period \in Nat
  /\ Cost \in Int /\ MinNetEdge \in Int /\ Cost + MinNetEdge >= 0
  /\ Rate \subseteq Int
  /\ Arriving \subseteq 0 .. Period
  BY EngineAssumption

\* Growing older keeps a tick a tick of its feed.
LEMMA OlderTick ==
  ASSUME NEW t \in Tick
  PROVE  /\ Older(t) \in Tick
         /\ Older(t).venue = t.venue
         /\ Older(t).symbol = t.symbol
         /\ Older(t).age = Ripe(t.age)
<1>1. /\ Nearing(t) \in Tick
      /\ Nearing(t).venue = t.venue
      /\ Nearing(t).symbol = t.symbol
      /\ Nearing(t).age = t.age
  BY EngineBounds DEF Nearing, Tick
<1> QED
  BY <1>1, EngineBounds DEF Older, Ripe, Tick

LEMMA NearingCandidate ==
  ASSUME NEW c \in Candidate
  PROVE  Nearing(c) \in Candidate
  BY EngineBounds DEF Nearing, Candidate

\* Two ticks that grow older stay in their order.
LEMMA OlderMonotone ==
  ASSUME NEW t \in Tick, NEW u \in Tick, u.age <= t.age
  PROVE  Older(u).age <= Older(t).age
<1>1. t.age \in 0 .. StaleAfter /\ u.age \in 0 .. StaleAfter
  BY DEF Tick
<1> QED
  BY <1>1, OlderTick, EngineBounds DEF Ripe

LEMMA OlderChannel ==
  ASSUME NEW ch \in Seq(Tick)
  PROVE  LET aged == [i \in DOMAIN ch |-> Older(ch[i])]
         IN  /\ aged \in Seq(Tick)
             /\ Len(aged) = Len(ch)
             /\ \A i \in 1 .. Len(ch) : aged[i] = Older(ch[i])
<1> DEFINE aged == [i \in DOMAIN ch |-> Older(ch[i])]
<1>1. DOMAIN ch = 1 .. Len(ch) /\ Len(ch) \in Nat
  OBVIOUS
<1>2. \A i \in 1 .. Len(ch) : Older(ch[i]) \in Tick
  BY ElementOfSeq, OlderTick
<1>3. aged \in [1 .. Len(ch) -> Tick]
  BY <1>1, <1>2
<1>4. aged \in Seq(Tick)
  BY <1>1, <1>3, SeqDef
<1>5. Len(aged) = Len(ch)
  BY <1>1, <1>3, <1>4
<1> QED
  BY <1>1, <1>4, <1>5

LEMMA NearingChannel ==
  ASSUME NEW ch \in Seq(Candidate)
  PROVE  LET nearer == [i \in DOMAIN ch |-> Nearing(ch[i])]
         IN  nearer \in Seq(Candidate) /\ Len(nearer) = Len(ch)
<1> DEFINE nearer == [i \in DOMAIN ch |-> Nearing(ch[i])]
<1>1. DOMAIN ch = 1 .. Len(ch) /\ Len(ch) \in Nat
  OBVIOUS
<1>2. \A i \in 1 .. Len(ch) : Nearing(ch[i]) \in Candidate
  BY ElementOfSeq, NearingCandidate
<1>3. nearer \in [1 .. Len(ch) -> Candidate]
  BY <1>1, <1>2
<1>4. nearer \in Seq(Candidate)
  BY <1>1, <1>3, SeqDef
<1> QED
  BY <1>1, <1>3, <1>4

-----------------------------------------------------------------------------
\* What is left of a channel after its head was taken is still in order, and no older
\* than the head.
LEMMA TakeKeepsOrder ==
  ASSUME NEW ch \in Seq(Tick), ch # <<>>, OldestFirst(ch)
  PROVE  OldestFirst(Tail(ch)) /\ NoOlder({Head(ch)}, Tail(ch))
<1>1. /\ Len(ch) \in Nat /\ Len(Tail(ch)) = Len(ch) - 1 /\ Len(ch) >= 1
      /\ \A i \in 1 .. Len(Tail(ch)) : Tail(ch)[i] = ch[i + 1]
      /\ Head(ch) = ch[1]
  BY HeadTailProperties, EmptySeq
<1>2. OldestFirst(Tail(ch))
  <2> SUFFICES ASSUME NEW i \in 1 .. Len(Tail(ch)), NEW j \in 1 .. Len(Tail(ch)),
                      i < j, SameFeed(Tail(ch)[i], Tail(ch)[j])
               PROVE  Tail(ch)[j].age <= Tail(ch)[i].age
    BY DEF OldestFirst
  <2>1. i + 1 \in 1 .. Len(ch) /\ j + 1 \in 1 .. Len(ch) /\ i + 1 < j + 1
    BY <1>1
  <2> QED
    BY <1>1, <2>1 DEF OldestFirst
<1>3. NoOlder({Head(ch)}, Tail(ch))
  <2> SUFFICES ASSUME NEW i \in 1 .. Len(Tail(ch)), SameFeed(Head(ch), Tail(ch)[i])
               PROVE  Tail(ch)[i].age <= Head(ch).age
    BY DEF NoOlder
  <2>1. 1 \in 1 .. Len(ch) /\ i + 1 \in 1 .. Len(ch) /\ 1 < i + 1
    BY <1>1
  <2> QED
    BY <1>1, <2>1 DEF OldestFirst
<1> QED
  BY <1>2, <1>3

LEMMA TakeKeepsNoOlder ==
  ASSUME NEW ch \in Seq(Tick), ch # <<>>, NEW S, NoOlder(S, ch)
  PROVE  NoOlder(S, Tail(ch)) /\ \A t \in S : SameFeed(t, Head(ch)) => Head(ch).age <= t.age
<1>1. /\ Len(ch) \in Nat /\ Len(Tail(ch)) = Len(ch) - 1 /\ Len(ch) >= 1
      /\ \A i \in 1 .. Len(Tail(ch)) : Tail(ch)[i] = ch[i + 1]
      /\ Head(ch) = ch[1]
  BY HeadTailProperties, EmptySeq
<1>2. \A i \in 1 .. Len(Tail(ch)) : i + 1 \in 1 .. Len(ch)
  BY <1>1
<1>3. 1 \in 1 .. Len(ch)
  BY <1>1
<1> QED
  BY <1>1, <1>2, <1>3 DEF NoOlder

\* A tick that is no older than what it joins keeps a channel in order.
LEMMA OfferKeepsOrder ==
  ASSUME NEW ch \in Seq(Tick), NEW tick \in Tick, NEW cap, OldestFirst(ch),
         \A i \in 1 .. Len(ch) : SameFeed(ch[i], tick) => tick.age <= ch[i].age
  PROVE  OldestFirst(Offer(ch, cap, tick))
<1>1. /\ Len(ch) \in Nat /\ Len(Append(ch, tick)) = Len(ch) + 1
      /\ \A i \in 1 .. Len(ch) : Append(ch, tick)[i] = ch[i]
      /\ Append(ch, tick)[Len(ch) + 1] = tick
  BY AppendProperties, LenProperties
<1>2. OldestFirst(Append(ch, tick))
  <2> SUFFICES ASSUME NEW i \in 1 .. Len(ch) + 1, NEW j \in 1 .. Len(ch) + 1,
                      i < j, SameFeed(Append(ch, tick)[i], Append(ch, tick)[j])
               PROVE  Append(ch, tick)[j].age <= Append(ch, tick)[i].age
    BY <1>1 DEF OldestFirst
  <2>1. i \in 1 .. Len(ch)
    BY <1>1
  <2>2. CASE j \in 1 .. Len(ch)
    BY <1>1, <2>1, <2>2 DEF OldestFirst
  <2>3. CASE j = Len(ch) + 1
    BY <1>1, <2>1, <2>3
  <2> QED
    BY <1>1, <2>2, <2>3
<1> QED
  BY <1>2 DEF Offer

LEMMA OfferKeepsNoOlder ==
  ASSUME NEW ch \in Seq(Tick), NEW tick \in Tick, NEW cap, NEW S, NoOlder(S, ch),
         \A t \in S : SameFeed(t, tick) => tick.age <= t.age
  PROVE  NoOlder(S, Offer(ch, cap, tick))
<1>1. /\ Len(ch) \in Nat /\ Len(Append(ch, tick)) = Len(ch) + 1
      /\ \A i \in 1 .. Len(ch) : Append(ch, tick)[i] = ch[i]
      /\ Append(ch, tick)[Len(ch) + 1] = tick
  BY AppendProperties, LenProperties
<1>2. \A i \in 1 .. Len(ch) + 1 : i \in 1 .. Len(ch) \/ i = Len(ch) + 1
  BY <1>1
<1>3. NoOlder(S, Append(ch, tick))
  BY <1>1, <1>2 DEF NoOlder
<1> QED
  BY <1>3 DEF Offer

LEMMA OfferTypes ==
  ASSUME NEW ch \in Seq(Tick), NEW tick \in Tick, NEW cap \in Nat, Len(ch) <= cap
  PROVE  Offer(ch, cap, tick) \in Seq(Tick) /\ Len(Offer(ch, cap, tick)) <= cap
  BY AppendProperties, LenProperties DEF Offer

\* The tick the engine takes is alone in its feed.
LEMMA UpdatedTypes ==
  ASSUME latest \subseteq Tick, OnePerFeed, NEW tick \in Tick
  PROVE  /\ Updated(tick) \subseteq Tick
         /\ \A t, u \in Updated(tick) : SameFeed(t, u) => t = u
<1>1. \A t \in Updated(tick) : t = tick \/ (t \in latest /\ ~SameFeed(t, tick))
  BY DEF Updated
<1> QED
  BY <1>1 DEF OnePerFeed, SameFeed

\* What evaluate proposes is a candidate: its two sides are at different venues.
LEMMA OpportunityTypes ==
  ASSUME NEW ticks \in SUBSET Tick, NEW s \in Symbol,
         \A t, u \in ticks : SameFeed(t, u) => t = u
  PROVE  Opportunities(ticks, s) \subseteq Candidate
<1> SUFFICES ASSUME NEW x \in ticks, NEW y \in ticks, x.symbol = s, y.symbol = s, Worthwhile(x, y)
             PROVE  [pair |-> [short |-> x.venue, long |-> y.venue, symbol |-> s],
                     ttf |-> Nearer(x, y)] \in Candidate
  BY DEF Opportunities
<1>1. x \in Tick /\ y \in Tick
  OBVIOUS
<1>2. x.rate \in Int /\ y.rate \in Int
  BY <1>1, EngineBounds DEF Tick
<1>3. x.rate - y.rate - Cost > MinNetEdge
  BY DEF Worthwhile
<1>4. x # y
  BY <1>2, <1>3, EngineBounds
<1>5. x.venue # y.venue
  BY <1>4 DEF SameFeed
<1>6. Nearer(x, y) \in 0 .. Period
  BY <1>1 DEF Nearer, Tick
<1>7. [short |-> x.venue, long |-> y.venue, symbol |-> s] \in Pair
  BY <1>1, <1>5 DEF Pair, Tick
<1> QED
  BY <1>6, <1>7 DEF Candidate

-----------------------------------------------------------------------------
\* The invariant holds at the start and is kept by every action.
LEMMA EngineStarts == EngineInit => EngInv
<1> SUFFICES ASSUME EngineInit PROVE EngInv
  OBVIOUS
<1>1. EngineTypeOK
  <2>1. [v \in Venue |-> [s \in Symbol |-> StaleAfter]] \in [Venue -> [Symbol -> 0 .. StaleAfter]]
    BY EngineBounds
  <2> QED
    BY <2>1, EngineBounds DEF EngineInit, EngineTypeOK
<1>2. OnePerFeed /\ Order
  BY DEF EngineInit, OnePerFeed, Order, OldestFirst, NoOlder, InLine
<1> QED
  BY <1>1, <1>2 DEF EngInv

LEMMA StepIngest ==
  ASSUME EngInv, NEW v \in Venue, NEW s \in Symbol, Ingest(v, s)
  PROVE  EngInv'
<1> USE DEF EngInv
<1>1. PICK r \in Rate, ttf \in Arriving :
        tickCh' = Offer(tickCh, TickCap,
                        [venue |-> v, symbol |-> s, rate |-> r, age |-> 0, ttf |-> ttf])
  BY DEF Ingest
<1> DEFINE tick == [venue |-> v, symbol |-> s, rate |-> r, age |-> 0, ttf |-> ttf]
<1>2. tick \in Tick /\ tick.age = 0
  BY EngineBounds DEF Tick
<1> HIDE DEF tick
<1>3. tickCh' = Offer(tickCh, TickCap, tick)
  BY <1>1 DEF tick
<1>4. UNCHANGED <<tickForEngine, latest, sinceEmit, backlog, candidateCh>>
  BY DEF Ingest
<1>5. EngineTypeOK'
  <2>1. quiet' \in [Venue -> [Symbol -> 0 .. StaleAfter]]
    BY EngineBounds DEF Ingest, EngineTypeOK
  <2> QED
    BY <1>2, <1>3, <1>4, <2>1, OfferTypes, EngineBounds DEF EngineTypeOK
<1>6. \A t \in Tick : tick.age <= t.age
  BY <1>2 DEF Tick
<1>7. /\ \A i \in 1 .. Len(tickCh) : tickCh[i] \in Tick
      /\ \A i \in 1 .. Len(tickForEngine) : tickForEngine[i] \in Tick
      /\ tickCh \in Seq(Tick) /\ tickForEngine \in Seq(Tick) /\ latest \subseteq Tick
  BY ElementOfSeq DEF EngineTypeOK
<1>8. OldestFirst(tickCh')
  BY <1>2, <1>3, <1>6, <1>7, OfferKeepsOrder DEF Order
<1>9. NoOlder(latest, tickCh')
  <2>1. \A t \in latest : SameFeed(t, tick) => tick.age <= t.age
    BY <1>6, <1>7
  <2> QED
    BY <2>1, <1>2, <1>3, <1>7, OfferKeepsNoOlder DEF Order
<1>10. InLine'
  <2> DEFINE S == {tickForEngine[i] : i \in 1 .. Len(tickForEngine)}
  <2>1. NoOlder(S, tickCh)
    BY DEF Order, InLine, NoOlder
  <2>2. \A t \in S : SameFeed(t, tick) => tick.age <= t.age
    BY <1>6, <1>7
  <2>3. NoOlder(S, tickCh')
    <3> HIDE DEF S
    <3> QED
      BY <2>1, <2>2, <1>2, <1>3, <1>7, OfferKeepsNoOlder
  <2> QED
    BY <2>3, <1>4 DEF NoOlder, InLine
<1>11. Order'
  BY <1>4, <1>8, <1>9, <1>10 DEF Order, OldestFirst, NoOlder
<1> QED
  BY <1>4, <1>5, <1>11 DEF OnePerFeed

LEMMA StepSplit ==
  ASSUME EngInv, Split
  PROVE  EngInv'
<1> USE DEF EngInv
<1> DEFINE tick == Head(tickCh)
<1>1. /\ tickCh # <<>> /\ tickCh' = Tail(tickCh)
      /\ tickForEngine' = Offer(tickForEngine, EngineCap, tick)
      /\ UNCHANGED <<latest, sinceEmit, backlog, candidateCh, quiet>>
  BY DEF Split
<1>2. /\ tickCh \in Seq(Tick) /\ tickForEngine \in Seq(Tick) /\ latest \subseteq Tick
      /\ tick \in Tick /\ Tail(tickCh) \in Seq(Tick) /\ Len(Tail(tickCh)) = Len(tickCh) - 1
      /\ Len(tickCh) \in Nat /\ Len(tickCh) >= 1
      /\ \A i \in 1 .. Len(Tail(tickCh)) : Tail(tickCh)[i] = tickCh[i + 1]
      /\ tick = tickCh[1]
  BY <1>1, HeadTailProperties, EmptySeq DEF EngineTypeOK
<1>3. 1 \in 1 .. Len(tickCh) /\ \A i \in 1 .. Len(Tail(tickCh)) : i + 1 \in 1 .. Len(tickCh)
  BY <1>2
<1> HIDE DEF tick
<1>4. EngineTypeOK'
  BY <1>1, <1>2, OfferTypes, EngineBounds DEF EngineTypeOK
<1>5. OldestFirst(tickCh') /\ NoOlder({tick}, tickCh')
  BY <1>1, <1>2, TakeKeepsOrder DEF Order, tick
<1>6. \A i \in 1 .. Len(tickForEngine) :
        SameFeed(tickForEngine[i], tick) => tick.age <= tickForEngine[i].age
  BY <1>2, <1>3 DEF Order, InLine
<1>7. OldestFirst(tickForEngine')
  BY <1>1, <1>2, <1>6, OfferKeepsOrder DEF Order
<1>8. NoOlder(latest, tickCh') /\ NoOlder(latest, tickForEngine')
  <2>1. NoOlder(latest, tickCh') /\ \A t \in latest : SameFeed(t, tick) => tick.age <= t.age
    BY <1>1, <1>2, TakeKeepsNoOlder DEF Order, tick
  <2> QED
    BY <2>1, <1>1, <1>2, OfferKeepsNoOlder DEF Order
<1>9. InLine'
  <2>1. /\ Len(Append(tickForEngine, tick)) = Len(tickForEngine) + 1
        /\ \A i \in 1 .. Len(tickForEngine) : Append(tickForEngine, tick)[i] = tickForEngine[i]
        /\ Append(tickForEngine, tick)[Len(tickForEngine) + 1] = tick
        /\ Len(tickForEngine) \in Nat
    BY <1>2, AppendProperties, LenProperties
  <2>2. \A i \in 1 .. Len(tickForEngine) + 1 :
          i \in 1 .. Len(tickForEngine) \/ i = Len(tickForEngine) + 1
    BY <2>1
  <2>3. \A i \in 1 .. Len(tickForEngine') :
          (i \in 1 .. Len(tickForEngine) /\ tickForEngine'[i] = tickForEngine[i])
            \/ tickForEngine'[i] = tick
    BY <1>1, <2>1, <2>2 DEF Offer
  <2>4. \A i \in 1 .. Len(tickForEngine), j \in 1 .. Len(tickCh') :
          SameFeed(tickForEngine[i], tickCh'[j]) => tickCh'[j].age <= tickForEngine[i].age
    BY <1>1, <1>2, <1>3 DEF Order, InLine
  <2> QED
    BY <2>3, <2>4, <1>5 DEF InLine, NoOlder
<1>10. Order'
  BY <1>1, <1>5, <1>7, <1>8, <1>9 DEF Order, OldestFirst, NoOlder
<1> QED
  BY <1>1, <1>4, <1>10 DEF OnePerFeed

LEMMA StepReceive ==
  ASSUME EngInv, Receive
  PROVE  EngInv'
<1> USE DEF EngInv
<1> DEFINE tick == Head(tickForEngine)
<1>1. /\ tickForEngine # <<>> /\ tickForEngine' = Tail(tickForEngine)
      /\ latest' = Updated(tick)
      /\ backlog' \subseteq Opportunities(Updated(tick), tick.symbol)
      /\ sinceEmit' = [p \in Pair |-> IF \E c \in backlog' : c.pair = p THEN 0 ELSE sinceEmit[p]]
      /\ UNCHANGED <<tickCh, candidateCh, quiet>>
  BY DEF Receive
<1>2. /\ tickCh \in Seq(Tick) /\ tickForEngine \in Seq(Tick) /\ latest \subseteq Tick
      /\ tick \in Tick /\ Tail(tickForEngine) \in Seq(Tick)
      /\ Len(tickForEngine) \in Nat /\ Len(tickForEngine) >= 1
      /\ Len(Tail(tickForEngine)) = Len(tickForEngine) - 1
      /\ \A i \in 1 .. Len(Tail(tickForEngine)) : Tail(tickForEngine)[i] = tickForEngine[i + 1]
      /\ tick = tickForEngine[1]
  BY <1>1, HeadTailProperties, EmptySeq DEF EngineTypeOK
<1>3. 1 \in 1 .. Len(tickForEngine)
      /\ \A i \in 1 .. Len(Tail(tickForEngine)) : i + 1 \in 1 .. Len(tickForEngine)
  BY <1>2
<1> HIDE DEF tick
<1>4. /\ latest' \subseteq Tick
      /\ OnePerFeed'
  BY <1>1, <1>2, UpdatedTypes DEF OnePerFeed
<1>5. backlog' \subseteq Candidate
  <2>1. tick.symbol \in Symbol
    BY <1>2 DEF Tick
  <2> QED
    BY <2>1, <1>1, <1>2, <1>4, UpdatedTypes, OpportunityTypes
<1>6. sinceEmit' \in [Pair -> 0 .. Debounce]
  BY <1>1, EngineBounds DEF EngineTypeOK
<1>7. EngineTypeOK'
  <2>1. Len(tickForEngine') <= EngineCap
    BY <1>1, <1>2, EngineBounds DEF EngineTypeOK
  <2> QED
    BY <2>1, <1>1, <1>2, <1>4, <1>5, <1>6 DEF EngineTypeOK
<1>8. OldestFirst(tickForEngine') /\ NoOlder({tick}, tickForEngine')
  BY <1>1, <1>2, TakeKeepsOrder DEF Order, tick
<1>9. NoOlder(latest, tickForEngine')
  BY <1>1, <1>2, TakeKeepsNoOlder DEF Order
<1>10. NoOlder({tick}, tickCh)
  BY <1>2, <1>3 DEF Order, InLine, NoOlder
<1>11. \A t \in latest' : t \in latest \/ t = tick
  BY <1>1 DEF Updated
<1>12. InLine'
  BY <1>1, <1>2, <1>3 DEF Order, InLine
<1>13. Order'
  BY <1>1, <1>8, <1>9, <1>10, <1>11, <1>12 DEF Order, OldestFirst, NoOlder
<1> QED
  BY <1>4, <1>7, <1>13

LEMMA StepCandidates ==
  ASSUME EngInv, Send \/ TakeCandidate
  PROVE  EngInv'
<1> USE DEF EngInv
<1>1. UNCHANGED <<tickCh, tickForEngine, latest, sinceEmit, quiet>>
  BY DEF Send, TakeCandidate
<1>2. OnePerFeed' /\ Order'
  BY <1>1 DEF OnePerFeed, Order, OldestFirst, NoOlder, InLine
<1>3. /\ candidateCh \in Seq(Candidate) /\ backlog \subseteq Candidate
      /\ Len(candidateCh) \in Nat /\ Len(candidateCh) <= CandidateCap
  BY LenProperties DEF EngineTypeOK
<1>4. CASE Send
  <2>1. PICK c \in backlog : candidateCh' = Append(candidateCh, c) /\ backlog' = backlog \ {c}
    BY <1>4 DEF Send
  <2>2. candidateCh' \in Seq(Candidate) /\ Len(candidateCh') = Len(candidateCh) + 1
    BY <1>3, <2>1, AppendProperties
  <2>3. Len(candidateCh') <= CandidateCap
    BY <1>3, <1>4, <2>2, EngineBounds DEF Send
  <2> QED
    BY <1>1, <1>2, <1>3, <2>1, <2>2, <2>3 DEF EngineTypeOK
<1>5. CASE TakeCandidate
  <2>1. candidateCh # <<>> /\ candidateCh' = Tail(candidateCh) /\ backlog' = backlog
    BY <1>5 DEF TakeCandidate
  <2>2. candidateCh' \in Seq(Candidate) /\ Len(candidateCh') = Len(candidateCh) - 1
    BY <1>3, <2>1, HeadTailProperties
  <2>3. Len(candidateCh') <= CandidateCap
    BY <1>3, <2>2, EngineBounds
  <2> QED
    BY <1>1, <1>2, <1>3, <2>1, <2>2, <2>3 DEF EngineTypeOK
<1> QED
  BY <1>4, <1>5

LEMMA StepElapse ==
  ASSUME EngInv, Elapse
  PROVE  EngInv'
<1> USE DEF EngInv
<1>1. /\ tickCh \in Seq(Tick) /\ tickForEngine \in Seq(Tick) /\ latest \subseteq Tick
      /\ candidateCh \in Seq(Candidate)
      /\ \A i \in 1 .. Len(tickCh) : tickCh[i] \in Tick
      /\ \A i \in 1 .. Len(tickForEngine) : tickForEngine[i] \in Tick
  BY ElementOfSeq DEF EngineTypeOK
<1>2. /\ tickCh' \in Seq(Tick) /\ Len(tickCh') = Len(tickCh)
      /\ \A i \in 1 .. Len(tickCh) : tickCh'[i] = Older(tickCh[i])
  BY <1>1, OlderChannel DEF Elapse
<1>3. /\ tickForEngine' \in Seq(Tick) /\ Len(tickForEngine') = Len(tickForEngine)
      /\ \A i \in 1 .. Len(tickForEngine) : tickForEngine'[i] = Older(tickForEngine[i])
  BY <1>1, OlderChannel DEF Elapse
<1>4. candidateCh' \in Seq(Candidate) /\ Len(candidateCh') = Len(candidateCh)
  BY <1>1, NearingChannel DEF Elapse
<1>5. latest' \subseteq Tick /\ \A t \in latest' : \E u \in latest : t = Older(u)
  BY <1>1, OlderTick DEF Elapse
<1>6. backlog' \subseteq Candidate
  BY NearingCandidate DEF Elapse, EngineTypeOK
<1>7. sinceEmit' \in [Pair -> 0 .. Debounce]
  <2>1. \A p \in Pair : sinceEmit[p] \in 0 .. Debounce
    BY DEF EngineTypeOK
  <2> QED
    BY <2>1, EngineBounds DEF Elapse
<1>8. EngineTypeOK'
  <2>1. quiet' \in [Venue -> [Symbol -> 0 .. StaleAfter]]
    <3>1. \A v \in Venue, s \in Symbol : Ripe(quiet[v][s]) \in 0 .. StaleAfter
      BY EngineBounds DEF EngineTypeOK, Ripe
    <3> QED
      BY <3>1 DEF Elapse
  <2> QED
    BY <1>2, <1>3, <1>4, <1>5, <1>6, <1>7, <2>1 DEF EngineTypeOK
<1>9. \A t, u \in Tick : SameFeed(Older(t), Older(u)) <=> SameFeed(t, u)
  BY OlderTick DEF SameFeed
<1>10. OnePerFeed'
  BY <1>1, <1>5, <1>9 DEF OnePerFeed
<1>11. OldestFirst(tickCh')
  BY <1>1, <1>2, <1>9, OlderMonotone DEF OldestFirst, Order
<1>12. OldestFirst(tickForEngine')
  BY <1>1, <1>3, <1>9, OlderMonotone DEF OldestFirst, Order
<1>13. InLine'
  BY <1>1, <1>2, <1>3, <1>9, OlderMonotone DEF InLine, Order
<1>14. NoOlder(latest', tickCh')
  BY <1>1, <1>2, <1>5, <1>9, OlderMonotone DEF NoOlder, Order
<1>15. NoOlder(latest', tickForEngine')
  BY <1>1, <1>3, <1>5, <1>9, OlderMonotone DEF NoOlder, Order
<1>16. Order'
  BY <1>11, <1>12, <1>13, <1>14, <1>15 DEF Order, OldestFirst, NoOlder
<1> QED
  BY <1>8, <1>10, <1>16

LEMMA EngineKeeps == EngInv /\ [EngineNext]_engineVars => EngInv'
<1> SUFFICES ASSUME EngInv, [EngineNext]_engineVars PROVE EngInv'
  OBVIOUS
<1>1. ASSUME NEW v \in Venue, NEW s \in Symbol, Ingest(v, s) PROVE EngInv'
  BY <1>1, StepIngest
<1>2. CASE Split
  BY <1>2, StepSplit
<1>3. CASE Receive
  BY <1>3, StepReceive
<1>4. CASE Send \/ TakeCandidate
  BY <1>4, StepCandidates
<1>5. CASE Elapse
  BY <1>5, StepElapse
<1>6. CASE UNCHANGED engineVars
  BY <1>6 DEF engineVars, EngInv, EngineTypeOK, OnePerFeed, Order, OldestFirst, NoOlder, InLine
<1> QED
  BY <1>1, <1>2, <1>3, <1>4, <1>5, <1>6 DEF EngineNext, EngineStep

-----------------------------------------------------------------------------
\* EngineTypeOK is an invariant, whatever the capacities of the channels.
THEOREM EngineTypeCorrect == EngineSpec => []EngineTypeOK
<1>1. EngInv => EngineTypeOK
  BY DEF EngInv
<1> QED
  BY <1>1, EngineStarts, EngineKeeps, PTL DEF EngineSpec

\* What replaces a tick in latest is no older than the tick was: a step takes the
\* oldest tick that is under way, or lets the time of all of them pass.
LEMMA StepGoesForward ==
  ASSUME EngInv, EngineNext, NEW t \in latest, NEW u \in latest', SameFeed(t, u), u # t
  PROVE  u.age <= Ripe(t.age)
<1> USE DEF EngInv
<1>1. t \in Tick /\ t.age \in 0 .. StaleAfter
  BY DEF EngineTypeOK, Tick
<1>2. CASE Receive
  <2>1. /\ tickForEngine # <<>> /\ tickForEngine \in Seq(Tick)
        /\ latest' = Updated(Head(tickForEngine))
    BY <1>2 DEF Receive, EngineTypeOK
  <2>2. u = Head(tickForEngine)
    BY <2>1 DEF Updated, OnePerFeed
  <2>3. u.age <= t.age
    BY <2>1, <2>2, TakeKeepsNoOlder DEF Order
  <2>4. Head(tickForEngine) \in Tick
    BY <2>1, HeadTailProperties
  <2>5. u.age \in 0 .. StaleAfter
    BY <2>2, <2>4 DEF Tick
  <2> QED
    BY <1>1, <2>3, <2>5, EngineBounds DEF Ripe
<1>3. CASE Elapse
  <2>1. PICK w \in latest : u = Older(w)
    BY <1>3 DEF Elapse
  <2>2. w \in Tick
    BY DEF EngineTypeOK
  <2>3. w = t
    BY <2>1, <2>2, OlderTick DEF SameFeed, OnePerFeed
  <2> QED
    BY <2>1, <2>3, <1>1, OlderTick, EngineBounds DEF Ripe
<1>4. CASE latest' = latest
  BY <1>4 DEF OnePerFeed
<1>5. Receive \/ Elapse \/ latest' = latest
  BY DEF EngineNext, EngineStep, Ingest, Split, Send, TakeCandidate
<1> QED
  BY <1>2, <1>3, <1>4, <1>5

\* NeverGoesBack: however many ticks are dropped and however long the engine was
\* blocked, it never goes back to an older tick of a venue.
THEOREM EngineNeverGoesBack == EngineSpec => NeverGoesBack
<1>1. EngInv /\ [EngineNext]_engineVars
        => [\A t \in latest, u \in latest' :
              SameFeed(t, u) /\ u # t
                => u.age <= Ripe(t.age)]_engineVars
  BY StepGoesForward
<1> QED
  BY <1>1, EngineStarts, EngineKeeps, PTL DEF EngineSpec, NeverGoesBack

-----------------------------------------------------------------------------
(* A silent venue rests. *)

\* A tick is at least as old as the silence of its venue: time passes for both alike,
\* wherever the tick is.
Aged(q, t) == q[t.venue][t.symbol] <= t.age

SilenceInv ==
  /\ \A t \in latest : Aged(quiet, t)
  /\ \A i \in 1 .. Len(tickForEngine) : Aged(quiet, tickForEngine[i])
  /\ \A i \in 1 .. Len(tickCh) : Aged(quiet, tickCh[i])

LEMMA OfferAged ==
  ASSUME NEW q, NEW ch \in Seq(Tick), NEW tick \in Tick, NEW cap, Aged(q, tick),
         \A i \in 1 .. Len(ch) : Aged(q, ch[i])
  PROVE  \A i \in 1 .. Len(Offer(ch, cap, tick)) : Aged(q, Offer(ch, cap, tick)[i])
<1>1. /\ Len(ch) \in Nat /\ Len(Append(ch, tick)) = Len(ch) + 1
      /\ \A i \in 1 .. Len(ch) : Append(ch, tick)[i] = ch[i]
      /\ Append(ch, tick)[Len(ch) + 1] = tick
  BY AppendProperties, LenProperties
<1>2. \A i \in 1 .. Len(ch) + 1 : i \in 1 .. Len(ch) \/ i = Len(ch) + 1
  BY <1>1
<1> QED
  BY <1>1, <1>2 DEF Offer

LEMMA TailAged ==
  ASSUME NEW ch \in Seq(Tick), ch # <<>>, \A i \in 1 .. Len(ch) : Aged(quiet, ch[i])
  PROVE  Aged(quiet, Head(ch)) /\ \A i \in 1 .. Len(Tail(ch)) : Aged(quiet, Tail(ch)[i])
<1>1. /\ Len(ch) \in Nat /\ Len(Tail(ch)) = Len(ch) - 1 /\ Len(ch) >= 1
      /\ \A i \in 1 .. Len(Tail(ch)) : Tail(ch)[i] = ch[i + 1]
      /\ Head(ch) = ch[1]
  BY HeadTailProperties, EmptySeq
<1>2. 1 \in 1 .. Len(ch) /\ \A i \in 1 .. Len(Tail(ch)) : i + 1 \in 1 .. Len(ch)
  BY <1>1
<1> QED
  BY <1>1, <1>2

LEMMA SilenceStep == EngInv /\ SilenceInv /\ [EngineNext]_engineVars => SilenceInv'
<1> SUFFICES ASSUME EngInv, SilenceInv, [EngineNext]_engineVars PROVE SilenceInv'
  OBVIOUS
<1> USE DEF EngInv
<1>0. /\ tickCh \in Seq(Tick) /\ tickForEngine \in Seq(Tick) /\ latest \subseteq Tick
      /\ \A i \in 1 .. Len(tickCh) : tickCh[i] \in Tick
      /\ \A i \in 1 .. Len(tickForEngine) : tickForEngine[i] \in Tick
      /\ quiet \in [Venue -> [Symbol -> 0 .. StaleAfter]]
  BY ElementOfSeq DEF EngineTypeOK
<1>1. ASSUME NEW v \in Venue, NEW s \in Symbol, Ingest(v, s)
      PROVE  SilenceInv'
  <2>1. PICK r \in Rate, ttf \in Arriving :
          tickCh' = Offer(tickCh, TickCap,
                          [venue |-> v, symbol |-> s, rate |-> r, age |-> 0, ttf |-> ttf])
    BY <1>1 DEF Ingest
  <2> DEFINE tick == [venue |-> v, symbol |-> s, rate |-> r, age |-> 0, ttf |-> ttf]
  <2>2. tick \in Tick /\ tick.venue = v /\ tick.symbol = s /\ tick.age = 0
    BY EngineBounds DEF Tick
  <2> HIDE DEF tick
  <2>3. tickCh' = Offer(tickCh, TickCap, tick)
    BY <2>1 DEF tick
  <2>4. quiet' = [quiet EXCEPT ![v][s] = 0] /\ tickForEngine' = tickForEngine /\ latest' = latest
    BY <1>1 DEF Ingest
  <2>5. ASSUME NEW t \in Tick, Aged(quiet, t)
        PROVE  Aged(quiet', t)
    <3>1. t.venue \in Venue /\ t.symbol \in Symbol /\ t.age \in 0 .. StaleAfter
      BY DEF Tick
    <3>2. quiet'[t.venue][t.symbol] = 0 \/ quiet'[t.venue][t.symbol] = quiet[t.venue][t.symbol]
      BY <1>0, <2>4, <3>1
    <3> QED
      BY <2>5, <3>1, <3>2, EngineBounds DEF Aged
  <2>6. Aged(quiet', tick)
    BY <1>0, <2>2, <2>4 DEF Aged
  <2>7. \A i \in 1 .. Len(tickCh) : Aged(quiet', tickCh[i])
    BY <1>0, <2>5 DEF SilenceInv
  <2>8. \A i \in 1 .. Len(tickCh') : Aged(quiet', tickCh'[i])
    BY <1>0, <2>2, <2>3, <2>6, <2>7, OfferAged
  <2> QED
    BY <1>0, <2>4, <2>5, <2>8 DEF SilenceInv
<1>2. CASE Split
  BY <1>0, <1>2, TailAged, OfferAged, HeadTailProperties DEF Split, SilenceInv, Aged
<1>3. CASE Receive
  <2>1. /\ tickForEngine # <<>> /\ tickForEngine' = Tail(tickForEngine)
        /\ latest' = Updated(Head(tickForEngine))
        /\ tickCh' = tickCh /\ quiet' = quiet
    BY <1>3 DEF Receive
  <2>2. /\ Aged(quiet, Head(tickForEngine))
        /\ \A i \in 1 .. Len(Tail(tickForEngine)) : Aged(quiet, Tail(tickForEngine)[i])
    BY <1>0, <2>1, TailAged DEF SilenceInv
  <2>3. \A t \in latest' : Aged(quiet, t)
    BY <2>1, <2>2 DEF Updated, SilenceInv
  <2> QED
    BY <2>1, <2>2, <2>3 DEF SilenceInv, Aged
<1>4. CASE Send \/ TakeCandidate \/ UNCHANGED engineVars
  BY <1>4 DEF Send, TakeCandidate, engineVars, SilenceInv, Aged
<1>5. CASE Elapse
  <2>1. ASSUME NEW t \in Tick, Aged(quiet, t)
        PROVE  Aged(quiet', Older(t))
    <3>1. t.venue \in Venue /\ t.symbol \in Symbol /\ t.age \in 0 .. StaleAfter
      BY DEF Tick
    <3>2. quiet[t.venue][t.symbol] \in 0 .. StaleAfter
      BY <1>0, <3>1
    <3>3. quiet'[t.venue][t.symbol] = Ripe(quiet[t.venue][t.symbol])
      BY <1>5, <3>1 DEF Elapse
    <3>4. Older(t).venue = t.venue /\ Older(t).symbol = t.symbol /\ Older(t).age = Ripe(t.age)
      BY OlderTick
    <3>5. Ripe(quiet[t.venue][t.symbol]) <= Ripe(t.age)
      BY <2>1, <3>1, <3>2, EngineBounds DEF Aged, Ripe
    <3> QED
      BY <3>3, <3>4, <3>5 DEF Aged
  <2>2. /\ Len(tickCh') = Len(tickCh) /\ \A i \in 1 .. Len(tickCh) : tickCh'[i] = Older(tickCh[i])
        /\ Len(tickForEngine') = Len(tickForEngine)
        /\ \A i \in 1 .. Len(tickForEngine) : tickForEngine'[i] = Older(tickForEngine[i])
    BY <1>0, <1>5, OlderChannel DEF Elapse
  <2>3. \A t \in latest' : \E u \in latest : t = Older(u)
    BY <1>5 DEF Elapse
  <2>4. \A t \in latest' : Aged(quiet', t)
    BY <1>0, <2>1, <2>3 DEF SilenceInv
  <2>5. /\ \A i \in 1 .. Len(tickCh') : Aged(quiet', tickCh'[i])
        /\ \A i \in 1 .. Len(tickForEngine') : Aged(quiet', tickForEngine'[i])
    BY <1>0, <2>1, <2>2 DEF SilenceInv
  <2> QED
    BY <2>4, <2>5 DEF SilenceInv, Aged
<1> QED
  BY <1>1, <1>2, <1>3, <1>4, <1>5 DEF EngineNext, EngineStep

\* A candidate is found from two ticks that are fresh, so both venues spoke since.
LEMMA EmitsHeard ==
  ASSUME EngInv, EngInv', SilenceInv', EngineNext, NEW p \in Pair, Emits(p)
  PROVE  \A v \in {p.short, p.long} : quiet[v][p.symbol] < StaleAfter
<1> USE DEF EngInv
<1>1. Receive
  <2>1. backlog = {} /\ backlog' # {}
    BY DEF Emits
  <2>2. CASE Elapse
    BY <2>1, <2>2 DEF Elapse
  <2>3. CASE Split \/ Send \/ TakeCandidate \/ \E v \in Venue, s \in Symbol : Ingest(v, s)
    BY <2>1, <2>3 DEF Split, Send, TakeCandidate, Ingest
  <2> QED
    BY <2>2, <2>3 DEF EngineNext, EngineStep
<1>2. quiet' = quiet /\ latest' \subseteq Tick /\ \A t \in latest' : quiet[t.venue][t.symbol] <= t.age
  BY <1>1 DEF Receive, EngineTypeOK, SilenceInv, Aged
<1> DEFINE tick == Head(tickForEngine)
<1>3. PICK c \in Opportunities(latest', tick.symbol) : c.pair = p
  BY <1>1 DEF Emits, Receive
<1>4. PICK x \in latest', y \in latest' :
        /\ x.symbol = tick.symbol /\ y.symbol = tick.symbol /\ Worthwhile(x, y)
        /\ c = [pair |-> [short |-> x.venue, long |-> y.venue, symbol |-> tick.symbol],
                ttf |-> Nearer(x, y)]
  BY <1>3 DEF Opportunities
<1>5. p = [short |-> x.venue, long |-> y.venue, symbol |-> tick.symbol]
  BY <1>3, <1>4
<1>6. p.short = x.venue /\ p.long = y.venue /\ p.symbol = x.symbol /\ p.symbol = y.symbol
  BY <1>4, <1>5
<1>7. x.age \in 0 .. StaleAfter - 1 /\ y.age \in 0 .. StaleAfter - 1
  BY <1>4 DEF Worthwhile
<1>8. x.venue \in Venue /\ y.venue \in Venue /\ x.symbol \in Symbol /\ y.symbol \in Symbol
  BY <1>2 DEF Tick
<1>9. quiet[x.venue][x.symbol] \in 0 .. StaleAfter /\ quiet[y.venue][y.symbol] \in 0 .. StaleAfter
  BY <1>8 DEF EngineTypeOK
<1>10. quiet[x.venue][x.symbol] < StaleAfter /\ quiet[y.venue][y.symbol] < StaleAfter
  BY <1>2, <1>7, <1>9, EngineBounds
<1> QED
  BY <1>6, <1>10

\* SilentVenueRests: a venue that has fallen silent is part of no candidate, whatever
\* waits in the channels.
THEOREM EngineRestsSilentVenues == EngineSpec => SilentVenueRests
<1>1. EngineInit => SilenceInv
  BY DEF EngineInit, SilenceInv
<1>2. EngInv /\ EngInv' /\ SilenceInv' /\ [EngineNext]_engineVars
        => [\A p \in Pair :
              Emits(p) => \A v \in {p.short, p.long} : quiet[v][p.symbol] < StaleAfter]_engineVars
  BY EmitsHeard
<1> QED
  BY <1>1, <1>2, EngineStarts, EngineKeeps, SilenceStep, PTL DEF EngineSpec, SilentVenueRests

=============================================================================
