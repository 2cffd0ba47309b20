------------------------------ MODULE MCScoring ------------------------------
(* Scoring on small instances.                                             *)
EXTENDS Scoring

HourAndHalf == {"1h", "30m"}

Patterns == {"LIQUIDITY_SWEEP", "BEARISH_ENGULFING", "FAILED_BREAKOUT", "UPPER_WICK"}
Bulls == {"BREAK_OF_STRUCTURE", "LIQUIDITY_SWEEP"}

Trend(t, m, b) == [trend |-> t, momentum |-> m, breakout |-> b]

\* The best readings for a short, of a set-up that may be over, and the worst
\* ones, in what may become a squeeze.
TwoMarkets ==
  {[funding |-> -101, oi |-> 16, oi15m |-> -2, btc |-> Trend("bearish", 0, FALSE),
    spike |-> TRUE, rsi7 |-> 49, roi |-> 20, atr |-> 2],
   [funding |-> -50, oi |-> 6, oi15m |-> 2, btc |-> Trend("bullish", 80, TRUE),
    spike |-> FALSE, rsi7 |-> 60, roi |-> 80, atr |-> 5]}
=============================================================================
