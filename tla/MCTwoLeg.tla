------------------------------ MODULE MCTwoLeg ------------------------------
(* Instances of TwoLegExecution: two live venues and two simulators, two    *)
(* live trades that net out on both venues, and one paper trade.            *)
EXTENDS TwoLegExecution, TLC

CONSTANTS bn, bb, s1, s2, btc, t1, t2, t3, g1, g2

MCAdapter == bn :> "binance" @@ bb :> "bybit" @@ s1 :> "sim" @@ s2 :> "sim"

LongRejects == [v \in {bn, bb, s1, s2} |-> IF v = bb THEN {"reject"} ELSE {}]

Live == {bn, bb}
Paper == {s1, s2}
AllFaults == [v \in Live \cup Paper |-> IF v \in Live THEN {"reject", "lost", "partial"} ELSE {}]
EitherMode == {Live, Paper}
LiveMode == {Live}

NoHoldings == {[v \in Live \cup Paper |-> [s \in {btc} |-> 0]]}

MCCandidate ==
     t1 :> [symbol |-> btc, short |-> bn, long |-> bb]
  @@ t2 :> [symbol |-> btc, short |-> bb, long |-> bn]
  @@ t3 :> [symbol |-> btc, short |-> s1, long |-> s2]

OneCandidate == t1 :> [symbol |-> btc, short |-> bn, long |-> bb]

=============================================================================
