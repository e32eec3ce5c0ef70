------------------------------ MODULE Dataflows -----------------------------
(***************************************************************************)
(* The analysts' data tools (src/engine/tradingagents/dataflows): calls    *)
(* that route_to_vendor takes along the configured chain of vendors, and   *)
(* the file in which yfinance's prices of a day are kept.                  *)
(*                                                                         *)
(* A tool node runs the calls of one message in parallel threads.  They    *)
(* share the file, which is written in place and read by whoever finds it; *)
(* a file that was cut short stays for the rest of the day.  Asking a      *)
(* service, opening the file, and filling it are steps of their own.       *)
(***************************************************************************)
EXTENDS Vendors, Subsequences

CONSTANTS
    Threads,        \* the parallel calls of a tool node
    Snapshot,       \* the tool that reads the prices without the router
    Messages,       \* bound: the tool calls of a message, by thread
    Configs,        \* the configurations graphs are made with
    Series,         \* bound: the sets of days a service may have rows of
    max_retries,    \* yf_retry's
    LastDay         \* bound: last day of a behaviour

IsList(seq) == Len(seq) \in Nat /\ DOMAIN seq = 1..Len(seq)

ASSUME BoundsAssumption == {max_retries, LastDay} \subseteq Nat
ASSUME MessagesAssumption ==
    \A m \in Messages : DOMAIN m \subseteq Threads /\ \A t \in DOMAIN m : m[t] \in Methods \union {Snapshot}
ASSUME ConfigsAssumption ==
    \A c \in Configs :
        /\ \A k \in DOMAIN c.data_vendors : IsList(c.data_vendors[k])
        /\ \A m \in DOMAIN c.tool_vendors : IsList(c.tool_vendors[m])
ASSUME ServicesAssumption == Snapshot \notin Methods /\ \A s \in Series : s \subseteq Int

VARIABLES
    today,      \* the clock, in days
    config,     \* the process's configuration
    files,      \* the price file of each day
    call,       \* what each thread is doing, or did last
    chosen      \* history variable: by tool, the vendors some graph was configured with

vars == <<today, config, files, call, chosen>>

Days == 0..LastDay
Absent == [kind |-> "absent", rows |-> {}]
Void == [kind |-> "void", rows |-> {}]      \* opened, nothing written
Csv(rows) == [kind |-> "csv", rows |-> rows]

NoCall == [pc |-> "idle", method |-> Snapshot, date |-> 0, chain |-> <<>>, no_data |-> FALSE,
           error |-> "none", tries |-> 0, day |-> 0, bulk |-> TRUE, window |-> 0, data |-> {},
           rows |-> {}, kind |-> "none", source |-> "none", answered |-> FALSE, unread |-> {}, frame |-> {}]

Busy(t) == call[t].pc \notin {"idle", "done"}

-----------------------------------------------------------------------------

\* set_config merges: what a configuration does not mention stays.
set_config(c) ==
    [data_vendors |-> [k \in DOMAIN config.data_vendors \union DOMAIN c.data_vendors |->
        IF k \in DOMAIN c.data_vendors THEN c.data_vendors[k] ELSE config.data_vendors[k]],
     tool_vendors |-> [m \in DOMAIN config.tool_vendors \union DOMAIN c.tool_vendors |->
        IF m \in DOMAIN c.tool_vendors THEN c.tool_vendors[m] ELSE config.tool_vendors[m]]]

\* get_vendor: the tool's own setting first; none is "default".
get_vendor(c, method) ==
    LET category == TOOLS_CATEGORIES[method] IN
    IF method \in DOMAIN c.tool_vendors THEN c.tool_vendors[method]
    ELSE IF category \in DOMAIN c.data_vendors THEN c.data_vendors[category]
    ELSE <<"default">>

Members(seq) == {seq[i] : i \in DOMAIN seq}

\* Slip: vendors that were not chosen follow those that were.
ChainAndTheRest(c, method) ==
    LET explicit == SelectSeq(get_vendor(c, method),
                        LAMBDA v : v # "default" /\ v \in Members(VENDOR_METHODS(method)))
    IN  explicit \o SelectSeq(VENDOR_METHODS(method), LAMBDA v : v \notin Members(explicit))

\* route_to_vendor: the configured vendors that have the method, or all of them.
\* An empty chain is a ValueError.
VendorChain(c, method) ==
    LET vendors == get_vendor(c, method)
        explicit == {i \in DOMAIN vendors : vendors[i] # "default"}
    IN  IF explicit = {} THEN VENDOR_METHODS(method)
        ELSE Items(vendors, {i \in explicit : vendors[i] \in Members(VENDOR_METHODS(method))})

\* The vendors a configuration names for a tool.
Named(c, method) ==
    LET explicit == Members(get_vendor(c, method)) \ {"default"}
    IN  IF explicit = {} THEN Members(VENDOR_METHODS(method)) ELSE explicit

-----------------------------------------------------------------------------
(* How a call ends. *)

Returned(w, kind, rows, source) ==
    [w EXCEPT !.pc = "done", !.kind = kind, !.rows = rows, !.source = source,
              !.chain = <<>>, !.tries = 0, !.day = 0, !.bulk = TRUE, !.window = 0,
              !.data = {}, !.no_data = FALSE, !.error = "none"]

\* get_indicators hands a ValueError (a missing key, too) to the model as text.
RaisedAs(w, error) ==
    Returned(w, IF w.method = "get_indicators" /\ error = "unconfigured" THEN "prose" ELSE "raised",
             {}, "none")

\* After the last vendor.
\* Slip: a vendor that failed counts as one without the data.
GiveUpQuietly(w) ==
    IF w.no_data \/ w.error # "none" THEN Returned(w, "NO_DATA_AVAILABLE", {}, "none")
    ELSE RaisedAs(w, w.error)

GiveUp(w) ==
    IF w.no_data THEN Returned(w, "NO_DATA_AVAILABLE", {}, "none")
    ELSE IF w.error # "none" /\ TOOLS_CATEGORIES[w.method] \in OPTIONAL_CATEGORIES
         THEN Returned(w, "DATA_UNAVAILABLE", {}, "none")
    ELSE RaisedAs(w, w.error)

\* What route_to_vendor makes of a vendor's outcome: a text is returned, an
\* exception noted, the first error for keeps and a rate limit not at all.
Route(w, outcome) ==
    LET noted == [w EXCEPT !.chain = Tail(@), !.tries = 0, !.bulk = TRUE, !.rows = {}, !.frame = {},
                           !.no_data = @ \/ outcome.kind = "no_data",
                           !.error = IF @ = "none" /\ outcome.kind \in {"unconfigured", "error"}
                                     THEN outcome.kind ELSE @,
                           !.pc = "routing"]
    IN  IF outcome.kind \in {"data", "prose"}
        THEN Returned(w, outcome.kind, outcome.rows, Head(w.chain))
        ELSE IF noted.chain = <<>> THEN GiveUp(noted) ELSE noted

\* The snapshot cuts the frame once more; its caller gets the exception itself,
\* and one for no rows.
ConcludeSnapshot(w, outcome) ==
    LET rows == UpTo(outcome.rows, w.date) IN
    IF rows # {} THEN Returned(w, "data", rows, "yfinance") ELSE Returned(w, "raised", {}, "none")

Conclude(w, outcome) ==
    IF w.method = Snapshot THEN ConcludeSnapshot(w, outcome) ELSE Route(w, outcome)

-----------------------------------------------------------------------------
(* load_ohlcv and its callers. *)

ReadsPrices(w) == w.method = Snapshot \/ (w.method = "get_indicators" /\ Head(w.chain) = "yfinance")

Loading(w, day) == [w EXCEPT !.pc = "looking", !.day = day, !.window = today, !.tries = 0]

\* Slip: the day is not counted down.
NextLoadOfTheSameDay(w) ==
    IF w.day = w.date - LookBack THEN Conclude(w, DataOrProse(w.rows)) ELSE Loading(w, w.day)

\* The per-day loads of a window whose bulk load failed end at its first day.
NextLoad(w) ==
    IF w.day = 0 \/ w.day = w.date - LookBack
    THEN Conclude(w, DataOrProse(w.rows))
    ELSE Loading(w, w.day - 1)

\* Any exception but NoMarketDataError: the snapshot raises it, a window is tried
\* again day by day, a day is left blank.
LoadFails(w) ==
    IF w.method = Snapshot THEN Conclude(w, Raised("error"))
    ELSE IF w.bulk THEN Loading([w EXCEPT !.bulk = FALSE], w.date)
    ELSE NextLoad(w)

\* How old each row is on a day.
Ages(rows, day) == {day - r : r \in rows}

\* The frame is cut at the day asked for and must not be stale.
\* Slip: the cut is left to whoever filled the file.
CutLoadedUncut(w, rows) ==
    IF IsStale(rows, w.day) THEN Conclude(w, Raised("no_data"))
    ELSE Conclude([w EXCEPT !.frame = Ages(rows, w.day)], Answered(rows))

CutLoaded(w, rows) ==
    LET cut == UpTo(rows, w.day)
        accepted == [w EXCEPT !.frame = Ages(cut, w.day)]
    IN  CASE IsStale(cut, w.day) -> Conclude(w, Raised("no_data"))
          [] cut = {} -> IF w.bulk THEN Conclude(w, Prose) ELSE NextLoad(w)
          [] OTHER    -> IF w.bulk THEN Conclude(accepted, Answered(cut))
                         ELSE NextLoad([accepted EXCEPT !.rows = @ \union (cut \intersect {w.day})])

-----------------------------------------------------------------------------

Init ==
    /\ today = 0
    /\ config \in Configs
    /\ files = [d \in Days |-> Absent]
    /\ call = [t \in Threads |-> NoCall]
    /\ chosen = [m \in Methods |-> Named(config, m)]

Goes(t, w) == call' = [call EXCEPT ![t] = w]

\* A graph is made: its configuration becomes the process's.
NewGraph ==
    /\ \A t \in Threads : ~Busy(t)
    /\ \E c \in Configs :
          /\ config' = set_config(c)
          /\ chosen' = [m \in Methods |-> chosen[m] \union Named(c, m)]
    /\ UNCHANGED <<today, files, call>>

\* A tool is called: the snapshot loads the prices, the others are routed.
Called(method, date) ==
    LET w == [NoCall EXCEPT !.method = method, !.date = date, !.pc = "routing"]
        chain == VendorChain(config, method)
    IN  IF method = Snapshot THEN Loading(w, date)
        ELSE IF chain = <<>> THEN RaisedAs(w, "unconfigured")
        ELSE [w EXCEPT !.chain = chain]

DatesOf(m) ==
    {date \in [DOMAIN m -> {Unset} \union 0..today] :
        \A t \in DOMAIN m : date[t] = Unset => m[t] \in Statements}

\* A message of the model calls tools for days up to today, or a statement tool for
\* no day; the tool node runs them side by side, and is done when they all are.
\* (The files of earlier days are left on the disk and never looked at again: they
\* are forgotten here.)
CallTools ==
    /\ \A t \in Threads : ~Busy(t)
    /\ \E m \in Messages : \E date \in DatesOf(m) :
          call' = [t \in Threads |-> IF t \in DOMAIN m THEN Called(m[t], date[t]) ELSE NoCall]
    /\ files' = [d \in Days |-> IF d = today THEN files[d] ELSE Absent]
    /\ UNCHANGED <<today, config, chosen>>

Replies(vendor) ==
    {[kind |-> k, rows |-> {}] : k \in ReplyKinds(vendor)} \union
    {[kind |-> "rows", rows |-> s] : s \in {{}} \union {r \in Series : \A d \in r : d <= today}}

\* yf_retry sleeps and asks again.
Retries(w, reply) == reply.kind = "limited" /\ w.tries < max_retries

Hears(w, reply) == [w EXCEPT !.answered = @ \/ reply.kind = "rows",
                             !.unread = reply.rows \intersect Unknown]

\* The vendor's function asks its service.
AskVendor(t) ==
    LET w == call[t] IN
    /\ w.pc = "routing" /\ ~ReadsPrices(w)
    /\ \E reply \in Replies(Head(w.chain)) :
          LET heard == Hears(w, reply) IN
          IF Head(w.chain) = "yfinance" /\ Retries(w, reply)
          THEN Goes(t, [heard EXCEPT !.tries = @ + 1])
          ELSE Goes(t, Route(heard, Call(Head(w.chain), w.method, reply, w.date, today)))
    /\ UNCHANGED <<today, config, files, chosen>>

\* get_stock_stats_indicators_window loads its frame.
LoadWindow(t) ==
    /\ call[t].pc = "routing" /\ ReadsPrices(call[t])
    /\ Goes(t, Loading(call[t], call[t].date))
    /\ UNCHANGED <<today, config, files, chosen>>

\* The file of the day is read: rows, no rows (a miss), or no text at all, which
\* read_csv raises on.
LookInFile(t) ==
    LET w == call[t]
        f == files[w.window] IN
    /\ w.pc = "looking"
    /\ Goes(t, IF f.kind = "void" THEN LoadFails(w)
               ELSE IF f.rows # {} THEN CutLoaded([w EXCEPT !.answered = TRUE], f.rows)
               ELSE [w EXCEPT !.pc = "downloading"])
    /\ UNCHANGED <<today, config, files, chosen>>

\* yf.download; the file is opened, and so emptied.
Download(t) ==
    LET w == call[t] IN
    /\ w.pc = "downloading"
    /\ \E reply \in Replies("yfinance") :
          LET heard == Hears(w, reply) IN
          \/ /\ Retries(w, reply)
             /\ Goes(t, [heard EXCEPT !.tries = @ + 1])
             /\ UNCHANGED files
          \/ /\ reply.kind \in Failing /\ ~Retries(w, reply)
             /\ Goes(t, LoadFails(heard))
             /\ UNCHANGED files
          \/ /\ reply.kind = "rows" /\ reply.rows = {}
             /\ Goes(t, Conclude(heard, Raised("no_data")))
             /\ UNCHANGED files
          \/ /\ reply.rows # {}
             /\ Goes(t, [heard EXCEPT !.pc = "saving", !.data = reply.rows, !.tries = 0])
             /\ files' = [files EXCEPT ![w.window] = Void]
    /\ UNCHANGED <<today, config, chosen>>

\* to_csv, part of the way: the file holds the first rows.
Fill(t) ==
    /\ call[t].pc = "saving" /\ files[call[t].window] = Void
    /\ \E d \in Days \union {Undated} :
          files' = [files EXCEPT ![call[t].window] = Csv(UpTo(call[t].data, d))]
    /\ UNCHANGED <<today, config, call, chosen>>

\* to_csv, all of it; the caller goes on with what it downloaded.
Save(t) ==
    /\ call[t].pc = "saving"
    /\ files' = [files EXCEPT ![call[t].window] = Csv(call[t].data)]
    /\ Goes(t, CutLoaded(call[t], call[t].data))
    /\ UNCHANGED <<today, config, chosen>>

\* The process dies and another takes its place; the files are as they were.
Crash ==
    /\ call' = [t \in Threads |-> NoCall]
    /\ config' \in Configs
    /\ chosen' = [m \in Methods |-> Named(config', m)]
    /\ UNCHANGED <<today, files>>

Midnight ==
    /\ today < LastDay
    /\ today' = today + 1
    /\ UNCHANGED <<config, files, call, chosen>>

Works(t) ==
    \/ AskVendor(t)
    \/ LoadWindow(t)
    \/ LookInFile(t)
    \/ Download(t)
    \/ Save(t)

Next ==
    \/ NewGraph
    \/ CallTools
    \/ \E t \in Threads : Works(t) \/ Fill(t)
    \/ Crash
    \/ Midnight

\* The threads run: every service answers or its request times out.
Spec == Init /\ [][Next]_vars /\ WF_vars(\E t \in Threads : Works(t))

-----------------------------------------------------------------------------

Done(t, kinds) == call[t].pc = "done" /\ call[t].kind \in kinds

\* These show the present whatever the date: the overview and the open markets;
\* insider transactions are asked for without a date.
Timeless == {"get_fundamentals", "get_prediction_markets", "get_insider_transactions"}

\* Where the code gives up the cut: alpha_vantage's prices when one of the days
\* cannot be read (alpha_vantage_common.py 148-151: "If filtering fails, return
\* original data") and its statements when a report has no day, the empty text
\* being before every date (alpha_vantage_fundamentals.py 25).
CutIsGivenUp(w, vendor) ==
    /\ vendor # "yfinance"
    /\ \/ w.method = "get_stock_data" /\ Illegible \in w.unread
       \/ w.method \in Statements /\ Undated \in w.unread

\* A tool asked about a day shows nothing of a later one, whichever vendor
\* answers and whoever filled the price file, for a live run or for a backtest
\* (stockstats_utils.py 125-132, 195; alpha_vantage_fundamentals.py 6;
\* yfinance_news.py 60) - but where the cut is given up, and only when the very
\* reply that is shown had such a row.  A statement tool called without a date is
\* asked about no day (stockstats_utils.py 202, alpha_vantage_fundamentals.py 13).
NoLookAhead ==
    \A t \in Threads :
        Done(t, {"data"}) /\ call[t].method \notin Timeless /\ call[t].date # Unset =>
            CutIsGivenUp(call[t], call[t].source) \/ \A r \in call[t].rows : r <= call[t].date

\* No figure of Yahoo's prices comes from a frame that ends more than MaxStale
\* days before the day it is shown for, also when the file was cut short by a
\* dead process or is being filled by another thread (stockstats_utils.py 88,
\* y_finance.py 53).
StalePricesAreNotShown ==
    \A t \in Threads :
        /\ Done(t, {"data"}) /\ call[t].method = "get_stock_data" /\ call[t].source = "yfinance" =>
              \E r \in call[t].rows : call[t].date - r <= MaxStale
        /\ Done(t, {"data"}) /\ call[t].frame # {} => \E age \in call[t].frame : age <= MaxStale

\* An outage is never taken for a fact: figures, and the verdict that there are
\* none, need a service or a file that answered, and are not made of rate limits,
\* missing keys, failed requests and unreadable files (interface.py 205-262).
OutagesAreNotFindings ==
    \A t \in Threads :
        Done(t, {"data", "NO_DATA_AVAILABLE"}) =>
            call[t].answered

\* Every answer is of a vendor that some graph of this process was configured with
\* for this tool (interface.py 178-184: "we do NOT silently fall back to vendors
\* the user did not choose").
AnswersAreOfChosenVendors ==
    \A t \in Threads :
        Done(t, {"data", "prose"}) /\ call[t].method # Snapshot /\ call[t].source # "none" =>
            call[t].source \in chosen[call[t].method]

\* Every message's calls end: retries, the days of a window and the vendors of a
\* chain all run out (stockstats_utils.py 23, y_finance.py 183, interface.py 198).
CallsEnd == (\E t \in Threads : Busy(t)) ~> (\A t \in Threads : ~Busy(t))
=============================================================================
