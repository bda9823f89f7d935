------------------------------- MODULE Venues -------------------------------
(***************************************************************************)
(* The order side of the venue adapters (internal/venue): what one call of *)
(* PlaceOrder or ClosePosition may trade on the exchange and what it then  *)
(* answers.  An answer is a record                                         *)
(*    err   : the call returned an error                                   *)
(*    delta : the signed quantity the exchange really traded               *)
(*    fill  : the signed quantity the returned Fill claims                 *)
(* Buying counts positive, selling negative.  Prices, fees and order       *)
(* identifiers are left out: nothing in the bot decides on them.           *)
(*                                                                         *)
(* The exchange itself is external.  Its misbehaviour is a parameter:      *)
(*    "reject"  : it refuses an order that would have been legal           *)
(*    "lost"    : the order trades, the answer does not arrive in time     *)
(*    "partial" : an immediate-or-cancel limit order trades only a part,   *)
(*                which may be nothing                                     *)
(***************************************************************************)
EXTENDS Integers

CONSTANTS
  Venue,    \* names of the venues
  Adapter,  \* the adapter behind each venue
  Faults,   \* what may go wrong at each venue
  Size      \* quantity of every order: TradeNotionalUSDT

ASSUME AdapterAssumption == Adapter \in [Venue -> {"sim", "binance", "bybit"}]
ASSUME FaultsAssumption == Faults \in [Venue -> SUBSET {"reject", "lost", "partial"}]
ASSUME SizeAssumption == Size \in Nat \ {0}

Leg == {"short", "long"}
Answer == [err : BOOLEAN, delta : Int, fill : Int]

Refused == [err |-> TRUE, delta |-> 0, fill |-> 0]

Signed(side, q) == IF side = "buy" THEN q ELSE -q

\* PlaceOrder: a short leg is sold, a long leg is bought.
OpenSide(leg) == IF leg = "short" THEN "sell" ELSE "buy"

\* ClosePosition: the simulator reverses the side of the leg.  The two live
\* adapters start from Buy and switch to Sell for a short leg.
CloseSide(v, leg) ==
  IF Adapter[v] = "sim"
  THEN IF leg = "long" THEN "sell" ELSE "buy"
  ELSE IF leg = "short" THEN "sell" ELSE "buy"

\* Bybit answers with an order id only, so its Fill repeats the size that was
\* ordered; Binance reports the executed quantity.  Both label the Fill of a
\* close with the side of the leg that is closed.
LiveFill(v, leg, q) ==
  Signed(OpenSide(leg), IF Adapter[v] = "bybit" THEN Size ELSE q)

\* The context of a call is live, is cancelled while the request is under way ("cut"),
\* or was cancelled before ("done").  Only the Binance adapter hands it to the request;
\* Bybit's drops it and the simulator ignores it.
CutOff(v, ctx) == Adapter[v] = "binance" /\ ctx = "cut"
Stopped(v, ctx) == Adapter[v] = "binance" /\ ctx = "done"

\* What a live exchange may answer to an order that can trade any of the
\* quantities in traded.  A request that is cut off may arrive or not, and its
\* answer may still be in time.
LiveAnswers(v, leg, side, traded, ctx) ==
       {[err |-> FALSE, delta |-> Signed(side, q), fill |-> LiveFill(v, leg, q)] : q \in traded}
  \cup {[err |-> TRUE, delta |-> Signed(side, q), fill |-> 0] :
           q \in {n \in traded : "lost" \in Faults[v] \/ CutOff(v, ctx)}}
  \cup {Refused : r \in {n \in {0} :
           traded = {} \/ "reject" \in Faults[v] \/ CutOff(v, ctx)}}

PlaceOrder(v, leg, type, ctx) ==
  LET side == OpenSide(leg)
  IN  IF Adapter[v] = "sim" THEN
        {[err |-> FALSE, delta |-> Signed(side, Size), fill |-> Signed(side, Size)]}
      ELSE IF Stopped(v, ctx) THEN {Refused}
      ELSE LiveAnswers(v, leg, side,
             {q \in 0 .. Size : q = Size \/ (type = "limit" /\ "partial" \in Faults[v])}, ctx)

\* A reduce-only order trades towards a flat position and never through it:
\* the exchange trims it to the net position, and refuses it when that is flat
\* or lies on the other side.
Reducible(side, net) ==
  LET room == IF side = "buy" THEN -net ELSE net
  IN  {q \in 1 .. Size : q = room \/ (q = Size /\ q <= room)}

ClosePosition(v, leg, net, ctx) ==
  LET side == CloseSide(v, leg)
  IN  IF Adapter[v] = "sim" THEN
        {[err |-> FALSE, delta |-> Signed(side, Size), fill |-> Signed(side, Size)]}
      ELSE IF Stopped(v, ctx) THEN {Refused}
      ELSE LiveAnswers(v, leg, side, Reducible(side, net), ctx)

=============================================================================
