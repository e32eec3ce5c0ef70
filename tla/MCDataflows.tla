----------------------------- MODULE MCDataflows ----------------------------
(* Constant values for TLC: messages that call one tool, or two that read    *)
(* the prices; a graph with a vendor of its own for one tool, and one that   *)
(* lists two vendors for most.                                              *)
EXTENDS Dataflows, TLC

CONSTANTS t1, t2

MCThreads == {t1, t2}
MCMessages == {t1 :> m : m \in Methods} \union
              {t1 :> "get_indicators" @@ t2 :> m : m \in {"get_indicators", Snapshot}}

Single == [core_stock_apis |-> <<"yfinance">>, technical_indicators |-> <<"yfinance">>,
           fundamental_data |-> <<"yfinance">>, news_data |-> <<"yfinance">>,
           macro_data |-> <<"fred">>, prediction_markets |-> <<"polymarket">>]
Both == [k \in {"core_stock_apis", "fundamental_data", "news_data"} |-> <<"alpha_vantage", "yfinance">>]
MCConfigs == {[data_vendors |-> Single, tool_vendors |-> [get_indicators |-> <<"alpha_vantage">>]],
              [data_vendors |-> Both @@ Single, tool_vendors |-> [get_news |-> <<"default">>]]}
MCSeries == {{0}, {0, 2, Undated}, {1, Illegible}}
=============================================================================
