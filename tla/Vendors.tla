------------------------------- MODULE Vendors ------------------------------
(***************************************************************************)
(* What each vendor function of src/engine/tradingagents/dataflows makes   *)
(* of what its service replies.  A reply is a kind and the days of its     *)
(* rows; an outcome is either a text handed to the router, with the days   *)
(* its figures are of, or an exception, told apart as the router tells     *)
(* exceptions apart (errors.py).                                           *)
(***************************************************************************)
EXTENDS Integers, FiniteSets, Sequences

CONSTANTS
    LookBack,   \* days of a window
    MaxStale    \* MAX_OHLCV_STALE_DAYS

ASSUME WindowAssumption == LookBack \in Nat /\ MaxStale \in Nat

TOOLS_CATEGORIES ==
    [get_stock_data |-> "core_stock_apis", get_indicators |-> "technical_indicators",
     get_fundamentals |-> "fundamental_data", get_balance_sheet |-> "fundamental_data",
     get_cashflow |-> "fundamental_data", get_income_statement |-> "fundamental_data",
     get_news |-> "news_data", get_global_news |-> "news_data",
     get_insider_transactions |-> "news_data", get_macro_indicators |-> "macro_data",
     get_prediction_markets |-> "prediction_markets"]

Methods == DOMAIN TOOLS_CATEGORIES
OPTIONAL_CATEGORIES == {"macro_data", "prediction_markets"}

VENDOR_METHODS(method) ==
    CASE method = "get_macro_indicators"   -> <<"fred">>
      [] method = "get_prediction_markets" -> <<"polymarket">>
      [] method = "get_global_news"        -> <<"yfinance", "alpha_vantage">>
      [] OTHER                             -> <<"alpha_vantage", "yfinance">>

-----------------------------------------------------------------------------

\* A row without a day, or with a word where the day should be.
Undated == -1
Illegible == -2
Unknown == {Undated, Illegible}

\* The date of a call that gives none: None, the default of the statement tools.
Unset == -3

Answered(rows) == [kind |-> "data", rows |-> rows]
Prose == [kind |-> "prose", rows |-> {}]
Raised(error) == [kind |-> error, rows |-> {}]

Failing == {"limited", "down"}
Statements == {"get_balance_sheet", "get_cashflow", "get_income_statement"}

UpTo(rows, date) == {r \in rows : r \notin Unknown /\ r <= date}
Within(rows, date) == {r \in UpTo(rows, date) : r >= date - LookBack}

\* What has no legible day may be of today.
PerhapsToday(rows, today) == {today : r \in rows \intersect Unknown}

\* The rows as they came.
Uncut(rows, today) == (rows \ Unknown) \union PerhapsToday(rows, today)

\* _in_news_window: an article without a date only when the window reaches today.
InNewsWindow(rows, date, today) ==
    Within(rows, date) \union (IF date >= today THEN PerhapsToday(rows, today) ELSE {})

\* Slip: any frame will do.
NeverStale(rows, date) == FALSE

\* _assert_ohlcv_not_stale; an empty frame is left to the caller.
IsStale(rows, date) == rows # {} /\ \A r \in rows : date - r > MaxStale

DataOrNoData(rows) == IF rows = {} THEN Raised("no_data") ELSE Answered(rows)
DataOrProse(rows) == IF rows = {} THEN Prose ELSE Answered(rows)

\* get_YFin_data_online: yf_retry's last rate limit is not a VendorRateLimitError.
YFinPrices(reply, date) ==
    LET rows == UpTo(reply.rows, date) IN
    IF reply.kind \in Failing THEN Raised("error")
    ELSE IF IsStale(rows, date) THEN Raised("no_data")
    ELSE DataOrNoData(rows)

\* filter_financials_by_date: without a date nothing is cut.
YFinStatement(reply, date, today) ==
    DataOrNoData(IF date = Unset THEN Uncut(reply.rows, today) ELSE UpTo(reply.rows, date))

\* get_fundamentals takes no notice of the date, get_insider_transactions has none.
YFinFundamentals(reply, today) ==
    IF reply.rows = {} THEN Raised("no_data") ELSE Answered({today})

YFinInsiders(reply, today) == DataOrProse(Uncut(reply.rows, today))

YFinNews(reply, date, today) == DataOrProse(InNewsWindow(reply.rows, date, today))

\* Outside get_YFin_data_online every failure becomes a text.
YFin(method, reply, date, today) ==
    IF method # "get_stock_data" /\ reply.kind \in Failing THEN Prose
    ELSE CASE method = "get_stock_data"           -> YFinPrices(reply, date)
           [] method = "get_fundamentals"         -> YFinFundamentals(reply, today)
           [] method \in Statements               -> YFinStatement(reply, date, today)
           [] method = "get_insider_transactions" -> YFinInsiders(reply, today)
           [] OTHER                               -> YFinNews(reply, date, today)

\* _make_api_request: a notice is a rate limit, or a key that is missing or bad.
AlphaVantageRaises(reply) ==
    CASE reply.kind = "limited" -> Raised("limited")
      [] reply.kind = "keyless" -> Raised("unconfigured")
      [] OTHER                  -> Raised("error")

\* get_indicator passes on only the missing key: a rate limit becomes a text.
AlphaVantageIndicator(reply, date) ==
    CASE reply.kind = "keyless" -> Raised("unconfigured")
      [] reply.kind = "rows"    -> DataOrProse(Within(reply.rows, date))
      [] OTHER                  -> Prose

\* _filter_reports_by_date compares texts: the empty one, of a report without a day,
\* comes before every date, and a word after them; without a date nothing is cut.
ReportsUpTo(rows, date, today) ==
    IF date = Unset THEN Uncut(rows, today)
    ELSE UpTo(rows, date) \union {today : r \in rows \intersect {Undated}}

AlphaVantageReports(method, reply, date, today) ==
    DataOrProse(IF method = "get_fundamentals" THEN {today : r \in reply.rows}
                ELSE ReportsUpTo(reply.rows, date, today))

\* News is asked for by its window and passed on as it came; a service that keeps
\* to the window is assumed.
AlphaVantageNews(method, reply, date, today) ==
    DataOrProse(IF method = "get_insider_transactions" THEN Uncut(reply.rows, today)
                ELSE Within(reply.rows, date))

\* _filter_csv_by_date_range: what pandas cannot read is returned whole.
AlphaVantagePrices(reply, date, today) ==
    DataOrProse(IF Illegible \in reply.rows THEN Uncut(reply.rows, today)
                ELSE Within(reply.rows, date))

\* A body that is not what was asked for (an "Error Message", an unknown symbol)
\* is passed on as it came.
AlphaVantage(method, reply, date, today) ==
    IF method = "get_indicators" THEN AlphaVantageIndicator(reply, date)
    ELSE CASE reply.kind \in Failing \union {"keyless"} -> AlphaVantageRaises(reply)
           [] reply.kind = "odd" -> Prose
           [] OTHER -> IF method = "get_stock_data" THEN AlphaVantagePrices(reply, date, today)
                       ELSE IF method \in Statements \union {"get_fundamentals"}
                            THEN AlphaVantageReports(method, reply, date, today)
                       ELSE AlphaVantageNews(method, reply, date, today)

\* fred._request: its own errors, none of them a rate limit.
FredRaises(reply) == Raised(IF reply.kind = "keyless" THEN "unconfigured" ELSE "error")

\* fred.get_macro_data
Fred(reply, date) ==
    IF reply.kind = "rows" THEN DataOrProse(Within(reply.rows, date)) ELSE FredRaises(reply)

\* polymarket.get_prediction_markets: the markets that are open now.
Polymarket(reply, today) ==
    IF reply.kind = "rows" THEN Answered({today}) ELSE Prose

\* The function VENDOR_METHODS names, but for yfinance's get_indicators, which
\* reads the shared cache of prices.
Call(vendor, method, reply, date, today) ==
    CASE method = "get_macro_indicators"   -> Fred(reply, date)
      [] method = "get_prediction_markets" -> Polymarket(reply, today)
      [] OTHER -> IF vendor = "yfinance" THEN YFin(method, reply, date, today)
                  ELSE AlphaVantage(method, reply, date, today)

\* What each service may reply.
ReplyKinds(vendor) ==
    CASE vendor = "yfinance"   -> Failing
      [] vendor = "polymarket" -> {"down"}
      [] OTHER                 -> Failing \union {"keyless", "odd"}
=============================================================================
