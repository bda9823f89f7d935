------------------------------- MODULE MCFeed -------------------------------
(* An instance of Feed: the two live venues and a simulator.                  *)
EXTENDS Feed, TLC

CONSTANTS bn, bb, s1, btc, tickers, synthetic

MCAdapter == bn :> "binance" @@ bb :> "bybit" @@ s1 :> "sim"
MCVenueOf == btc :> bn @@ tickers :> bb @@ synthetic :> s1

=============================================================================
