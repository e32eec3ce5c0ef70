---------------------------- MODULE MCMarketData ----------------------------
(* Constant values for TLC: the chains of FALLBACK_POLICY for a method with a *)
(* fallback, one tick of short TTL in days of two.                         *)
EXTENDS MarketData, TLC

CONSTANTS t1, t2, yfinance, fmp

TwoReaders == {t1, t2}
Policy == ("is_live" :> <<yfinance>>) @@ ("estimates" :> <<yfinance, fmp>>)
BothProviders ==
    (yfinance :> {"is_live", "estimates"}) @@ (fmp :> {"estimates", "annual_fundamentals"})

Threads == Permutations(TwoReaders)
=============================================================================
