----------------------------- MODULE MCStrategy -----------------------------
(* Instances of Strategy: one or two trades of one symbol, on two simulators  *)
(* or one on two simulators and one on the two live venues.                   *)
EXTENDS Strategy, TLC

CONSTANTS bn, bb, s1, s2, btc, p, q, g1, g2

MCAdapter == bn :> "binance" @@ bb :> "bybit" @@ s1 :> "sim" @@ s2 :> "sim"

Live == {bn, bb}
Paper == {s1, s2}
Rejecting == [v \in Live \cup Paper |-> {"reject"}]
AllFaults == [v \in Live \cup Paper |-> IF v \in Live THEN {"reject", "lost", "partial"} ELSE {}]
PaperMode == {Paper}
EitherMode == {Live, Paper}

NoHoldings == {[v \in Live \cup Paper |-> [s \in {btc} |-> 0]]}

\* A user who trades by hand, the other way round than the bot: closes may net out.
\* The short leg nets to zero when it is filled in full, and to a long position else.
OwnHoldings ==
  {[v \in Live \cup Paper |-> [s \in {btc} |-> IF v = bn THEN 1 ELSE IF v = bb THEN -2 ELSE 0]]}

OnPaper == [symbol |-> btc, short |-> s1, long |-> s2]
OnLive == [symbol |-> btc, short |-> bn, long |-> bb]

PaperTrades == [id \in {p, q} |-> OnPaper]
OnePaperTrade == [id \in {p} |-> OnPaper]
MixedTrades == [id \in {p, q} |-> IF id = p THEN OnPaper ELSE OnLive]

=============================================================================
