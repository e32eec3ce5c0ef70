--------------------------- MODULE Dataflows_proofs -------------------------
(***************************************************************************)
(* Proofs about the data tools.  The first invariant follows a call's data *)
(* (what it has gathered so far is of days up to the one asked for, and    *)
(* what it holds or has been told came from a service or a file that       *)
(* answered), the second its chain of vendors.                             *)
(***************************************************************************)
EXTENDS Dataflows, TLAPS, FiniteSetTheorems, FunctionTheorems

Typed(w) == DOMAIN w = DOMAIN NoCall /\ w.date \in Int

Loads(w) ==
    /\ w.method \in {Snapshot, "get_indicators"}
    /\ w.day \in Int /\ w.day <= w.date /\ w.window \in Days
    /\ w.rows # {} => w.answered
    /\ \A r \in w.rows : r <= w.date

Fresh(ages) == ages # {} => \E age \in ages : age <= MaxStale
Recent(rows, date) == \E r \in rows : date - r <= MaxStale

\* Of a day up to the one asked for, where the code cuts at it.
NotLater(w, rows, vendor) ==
    w.method \notin Timeless /\ w.date # Unset =>
        CutIsGivenUp(w, vendor) \/ \A r \in rows : r <= w.date

\* What a vendor's outcome o may be while w waits for it.
Sound(w, o) ==
    /\ o.kind \in {"data", "no_data"} => w.answered
    /\ NotLater(w, o.rows, Head(w.chain))
    /\ o.kind = "data" /\ w.method = "get_stock_data" /\ Head(w.chain) = "yfinance" => Recent(o.rows, w.date)

Finished(w) ==
    /\ w.kind \in {"data", "NO_DATA_AVAILABLE"} => w.answered
    /\ w.kind = "data" => NotLater(w, w.rows, w.source)
    /\ w.kind = "data" /\ w.method = "get_stock_data" /\ w.source = "yfinance" => Recent(w.rows, w.date)

Waits(w) == Typed(w) /\ (w.no_data => w.answered) /\ Fresh(w.frame)

CallFits(w) ==
    /\ Waits(w)
    /\ w.pc = "routing" => w.rows = {}
    /\ w.pc \in {"looking", "downloading", "saving"} => Loads(w)
    /\ w.pc = "saving" => w.answered /\ w.data \subseteq Int
    /\ w.pc = "done" => Finished(w)

FilesFit == DOMAIN files = Days /\ \A d \in Days : files[d].rows \subseteq Int

CallsFit == DOMAIN call = Threads /\ \A t \in Threads : CallFits(call[t])

DataInv == today \in Days /\ FilesFit /\ CallsFit

-----------------------------------------------------------------------------
(* How a call ends. *)

LEMMA ReturnedFits ==
    ASSUME NEW w, Waits(w), NEW kind, NEW rows, NEW source,
           kind \in {"data", "NO_DATA_AVAILABLE"} => w.answered,
           kind = "data" => NotLater(w, rows, source),
           kind = "data" /\ w.method = "get_stock_data" /\ source = "yfinance" => Recent(rows, w.date)
    PROVE  CallFits(Returned(w, kind, rows, source))
<1> DEFINE x == Returned(w, kind, rows, source)
<1>1. /\ DOMAIN x = DOMAIN NoCall /\ x.pc = "done" /\ x.kind = kind /\ x.rows = rows /\ x.source = source
      /\ x.method = w.method /\ x.date = w.date /\ x.answered = w.answered /\ x.frame = w.frame
      /\ x.unread = w.unread /\ ~x.no_data
    BY DEF Waits, Typed, NoCall, Returned
<1> HIDE DEF x
<1>2. Waits(x)
    BY <1>1 DEF Waits, Typed
<1>3. Finished(x)
    BY <1>1 DEF Finished, NotLater, CutIsGivenUp
<1> QED BY <1>1, <1>2, <1>3 DEF CallFits, x

LEMMA RaisedAsFits ==
    ASSUME NEW w, Waits(w), NEW error
    PROVE  CallFits(RaisedAs(w, error))
BY ReturnedFits DEF RaisedAs

LEMMA RouteFits ==
    ASSUME NEW w, Waits(w), NEW o, Sound(w, o)
    PROVE  CallFits(Route(w, o))
<1> DEFINE noted == [w EXCEPT !.chain = Tail(@), !.tries = 0, !.bulk = TRUE, !.rows = {}, !.frame = {},
                           !.no_data = @ \/ o.kind = "no_data",
                           !.error = IF @ = "none" /\ o.kind \in {"unconfigured", "error"}
                                     THEN o.kind ELSE @,
                           !.pc = "routing"]
<1>1. /\ DOMAIN noted = DOMAIN NoCall /\ noted.pc = "routing" /\ noted.frame = {} /\ noted.rows = {}
      /\ noted.method = w.method /\ noted.date = w.date /\ noted.answered = w.answered
      /\ noted.no_data = (w.no_data \/ o.kind = "no_data")
    BY DEF Waits, Typed, NoCall
<1>2. CASE o.kind \in {"data", "prose"}
    <2>1. Route(w, o) = Returned(w, o.kind, o.rows, Head(w.chain))
        BY <1>2 DEF Route
    <2> QED BY <1>2, <2>1, ReturnedFits DEF Sound
<1>3. CASE o.kind \notin {"data", "prose"}
    <2>1. Route(w, o) = IF noted.chain = <<>> THEN GiveUp(noted) ELSE noted
        BY <1>3 DEF Route
    <2> HIDE DEF noted
    <2>2. Waits(noted)
        BY <1>1 DEF Waits, Typed, Sound, Fresh
    <2>3. CallFits(noted)
        BY <1>1, <2>2 DEF CallFits
    <2>4. CallFits(GiveUp(noted))
        BY <2>2, ReturnedFits, RaisedAsFits DEF GiveUp, Waits
    <2> QED BY <2>1, <2>3, <2>4
<1> QED BY <1>2, <1>3

LEMMA ConcludeFits ==
    ASSUME NEW w, Waits(w), NEW o, Sound(w, o), o.rows # {} => w.answered
    PROVE  CallFits(Conclude(w, o))
<1>1. CASE w.method = Snapshot
    <2> DEFINE rows == UpTo(o.rows, w.date)
    <2>1. rows # {} => w.answered
        BY DEF UpTo
    <2>2. NotLater(w, rows, "yfinance")
        BY DEF UpTo, NotLater
    <2>3. w.method # "get_stock_data"
        BY <1>1, ServicesAssumption DEF Methods, TOOLS_CATEGORIES
    <2>4. Conclude(w, o) = IF rows # {} THEN Returned(w, "data", rows, "yfinance")
                           ELSE Returned(w, "raised", {}, "none")
        BY <1>1 DEF Conclude, ConcludeSnapshot
    <2> HIDE DEF rows
    <2> QED BY <2>1, <2>2, <2>3, <2>4, ReturnedFits
<1>2. CASE w.method # Snapshot
    BY <1>2, RouteFits DEF Conclude
<1> QED BY <1>1, <1>2

-----------------------------------------------------------------------------
(* Loading the prices. *)

LEMMA LoadingFits ==
    ASSUME NEW w, Waits(w), NEW day \in Int, day <= w.date, today \in Days,
           w.method \in {Snapshot, "get_indicators"},
           w.rows # {} => w.answered, \A r \in w.rows : r <= w.date
    PROVE  CallFits(Loading(w, day))
<1> DEFINE x == Loading(w, day)
<1>1. /\ DOMAIN x = DOMAIN NoCall /\ x.pc = "looking" /\ x.day = day /\ x.window = today
      /\ x.method = w.method /\ x.date = w.date /\ x.answered = w.answered /\ x.frame = w.frame
      /\ x.no_data = w.no_data /\ x.rows = w.rows
    BY DEF Waits, Typed, NoCall, Loading
<1> HIDE DEF x
<1>2. Waits(x)
    BY <1>1 DEF Waits, Typed
<1>3. Loads(x)
    BY <1>1 DEF Loads
<1> QED BY <1>1, <1>2, <1>3 DEF CallFits, x

\* The states in which a call is loading prices.
Gathers(w) == Waits(w) /\ Loads(w)

\* A text about nothing, and the exceptions that claim nothing.
LEMMA NothingIsSound ==
    ASSUME NEW w, Waits(w)
    PROVE  CallFits(Conclude(w, Prose)) /\ CallFits(Conclude(w, Raised("error")))
<1>1. Sound(w, Prose) /\ Sound(w, Raised("error")) /\ Prose.rows = {} /\ Raised("error").rows = {}
    BY DEF Sound, NotLater, Prose, Raised
<1> QED BY <1>1, ConcludeFits

LEMMA NoDataIsSound ==
    ASSUME NEW w, Waits(w), w.answered
    PROVE  CallFits(Conclude(w, Raised("no_data")))
<1>1. Sound(w, Raised("no_data")) /\ Raised("no_data").rows = {}
    BY DEF Sound, NotLater, Raised
<1> QED BY <1>1, ConcludeFits

LEMMA FiguresAreSound ==
    ASSUME NEW w, Waits(w), w.answered, w.method \in {Snapshot, "get_indicators"},
           NEW rows, \A r \in rows : r <= w.date
    PROVE  CallFits(Conclude(w, Answered(rows)))
<1>1. w.method # "get_stock_data"
    BY ServicesAssumption DEF Methods, TOOLS_CATEGORIES
<1>2. Sound(w, Answered(rows))
    BY <1>1 DEF Sound, NotLater, Answered
<1> QED BY <1>2, ConcludeFits

LEMMA NextLoadFits ==
    ASSUME NEW w, Gathers(w), today \in Days
    PROVE  CallFits(NextLoad(w))
<1>1. CASE w.day = 0 \/ w.day = w.date - LookBack
    <2>1. NextLoad(w) = IF w.rows = {} THEN Conclude(w, Prose) ELSE Conclude(w, Answered(w.rows))
        BY <1>1 DEF NextLoad, DataOrProse
    <2> QED BY <2>1, NothingIsSound, FiguresAreSound DEF Gathers, Loads
<1>2. CASE ~(w.day = 0 \/ w.day = w.date - LookBack)
    <2>1. NextLoad(w) = Loading(w, w.day - 1) /\ w.day - 1 \in Int /\ w.day - 1 <= w.date
        BY <1>2 DEF NextLoad, Gathers, Waits, Typed, Loads
    <2> QED BY <2>1, LoadingFits DEF Gathers, Loads
<1> QED BY <1>1, <1>2

LEMMA LoadFailsFits ==
    ASSUME NEW w, Gathers(w), today \in Days
    PROVE  CallFits(LoadFails(w))
<1>1. CASE w.method = Snapshot
    BY <1>1, NothingIsSound DEF LoadFails, Gathers
<1>2. CASE w.method # Snapshot /\ w.bulk
    <2> DEFINE x == [w EXCEPT !.bulk = FALSE]
    <2>1. /\ DOMAIN x = DOMAIN NoCall /\ x.method = w.method /\ x.date = w.date
          /\ x.answered = w.answered /\ x.frame = w.frame /\ x.no_data = w.no_data /\ x.rows = w.rows
        BY DEF Gathers, Waits, Typed, NoCall
    <2>2. LoadFails(w) = Loading(x, x.date)
        BY <1>2, <2>1 DEF LoadFails
    <2> HIDE DEF x
    <2>3. Waits(x)
        BY <2>1 DEF Gathers, Waits, Typed
    <2> QED BY <2>1, <2>2, <2>3, LoadingFits DEF Gathers, Loads, Waits, Typed
<1>3. CASE w.method # Snapshot /\ ~w.bulk
    BY <1>3, NextLoadFits DEF LoadFails
<1> QED BY <1>1, <1>2, <1>3

\* The cut keeps the frame to days up to the one asked for; what is not stale
\* has a row that is recent enough.
LEMMA CutLoadedFits ==
    ASSUME NEW w, Gathers(w), w.answered, today \in Days, NEW rows, rows \subseteq Int
    PROVE  CallFits(CutLoaded(w, rows))
<1> DEFINE cut == UpTo(rows, w.day)
           accepted == [w EXCEPT !.frame = Ages(cut, w.day)]
           gathered == [accepted EXCEPT !.rows = @ \union (cut \intersect {w.day})]
<1>1. cut \subseteq Int /\ \A r \in cut : r <= w.day /\ r <= w.date
    <2>1. w.day \in Int /\ w.date \in Int /\ w.day <= w.date
        BY DEF Gathers, Loads, Waits, Typed
    <2>2. ASSUME NEW r \in cut
          PROVE  r \in Int /\ r <= w.day
        BY <2>2 DEF UpTo
    <2> QED BY <2>1, <2>2
<1>2. CutLoaded(w, rows) =
        CASE IsStale(cut, w.day) -> Conclude(w, Raised("no_data"))
          [] cut = {} -> IF w.bulk THEN Conclude(w, Prose) ELSE NextLoad(w)
          [] OTHER    -> IF w.bulk THEN Conclude(accepted, Answered(cut)) ELSE NextLoad(gathered)
    BY DEF CutLoaded
<1>3. /\ DOMAIN accepted = DOMAIN NoCall /\ accepted.frame = Ages(cut, w.day)
      /\ accepted.method = w.method /\ accepted.date = w.date /\ accepted.answered = w.answered
      /\ accepted.no_data = w.no_data /\ accepted.rows = w.rows /\ accepted.day = w.day
      /\ accepted.window = w.window
    BY DEF Gathers, Waits, Typed, NoCall
<1> HIDE DEF cut, accepted
<1>4. /\ DOMAIN gathered = DOMAIN NoCall /\ gathered.frame = accepted.frame
      /\ gathered.method = w.method /\ gathered.date = w.date /\ gathered.answered = w.answered
      /\ gathered.no_data = w.no_data /\ gathered.rows = w.rows \union (cut \intersect {w.day})
      /\ gathered.day = w.day /\ gathered.window = w.window
    BY <1>3 DEF NoCall
<1> HIDE DEF gathered
<1>5. CASE IsStale(cut, w.day)
    <2>1. CutLoaded(w, rows) = Conclude(w, Raised("no_data"))
        BY <1>2, <1>5 DEF IsStale
    <2> QED BY <2>1, NoDataIsSound DEF Gathers
<1>6. CASE cut = {}
    <2>1. CutLoaded(w, rows) = IF w.bulk THEN Conclude(w, Prose) ELSE NextLoad(w)
        BY <1>2, <1>6 DEF IsStale
    <2> QED BY <2>1, NothingIsSound, NextLoadFits DEF Gathers
<1>7. CASE cut # {} /\ ~IsStale(cut, w.day)
    <2>1. CutLoaded(w, rows) = IF w.bulk THEN Conclude(accepted, Answered(cut)) ELSE NextLoad(gathered)
        BY <1>2, <1>7
    <2>2. Fresh(Ages(cut, w.day))
        <3>1. PICK r \in cut : ~(w.day - r > MaxStale)
            BY <1>7 DEF IsStale
        <3>2. w.day - r \in Ages(cut, w.day) /\ w.day - r <= MaxStale
            BY <1>1, <3>1, WindowAssumption DEF Ages, Gathers, Loads
        <3> QED BY <3>2 DEF Fresh
    <2>3. Waits(accepted) /\ Waits(gathered)
        BY <1>3, <1>4, <2>2 DEF Gathers, Waits, Typed
    <2>4. CallFits(Conclude(accepted, Answered(cut)))
        BY <1>1, <1>3, <2>3, FiguresAreSound DEF Gathers, Loads
    <2>5. Loads(gathered)
        BY <1>1, <1>4 DEF Gathers, Loads
    <2>6. CallFits(NextLoad(gathered))
        BY <2>3, <2>5, NextLoadFits DEF Gathers
    <2> QED BY <2>1, <2>4, <2>6
<1> QED BY <1>5, <1>6, <1>7

-----------------------------------------------------------------------------
(* Asking a vendor. *)

LEMMA CutIsNotLater ==
    ASSUME NEW rows, NEW date \in Int
    PROVE  /\ \A r \in UpTo(rows, date) : r <= date
           /\ \A r \in Within(rows, date) : r <= date
BY DEF UpTo, Within

LEMMA PricesAreRecent ==
    ASSUME NEW date \in Int, NEW reply, reply.rows \subseteq Int,
           YFinPrices(reply, date).kind = "data"
    PROVE  Recent(YFinPrices(reply, date).rows, date)
<1> DEFINE rows == UpTo(reply.rows, date)
<1>1. rows \subseteq Int
    BY DEF UpTo
<1>2. ~(reply.kind \in Failing) /\ ~IsStale(rows, date) /\ rows # {} /\ YFinPrices(reply, date).rows = rows
    BY DEF YFinPrices, DataOrNoData, Raised, Answered
<1> HIDE DEF rows
<1>3. PICK r \in rows : ~(date - r > MaxStale)
    BY <1>2 DEF IsStale
<1>4. date - r <= MaxStale
    BY <1>1, <1>3, WindowAssumption
<1> QED BY <1>2, <1>3, <1>4 DEF Recent

\* A reply of vendor, which only the snapshot and the indicators do without.
LEMMA CallIsSound ==
    ASSUME NEW vendor, NEW reply \in Replies(vendor), NEW w, Typed(w), Head(w.chain) = vendor,
           reply.kind = "rows" => w.answered, w.unread = reply.rows \intersect Unknown, today \in Days
    PROVE  Sound(w, Call(vendor, w.method, reply, w.date, today))
<1> DEFINE o == Call(vendor, w.method, reply, w.date, today)
<1>1. /\ reply.rows \subseteq Int
      /\ reply.kind = "rows" \/ (reply.kind \in ReplyKinds(vendor) /\ reply.rows = {})
    BY ServicesAssumption DEF Replies
<1>2. w.date \in Int
    BY DEF Typed
<1>3. CASE w.method = "get_macro_indicators"
    <2>1. o = Fred(reply, w.date)
        BY <1>3 DEF Call
    <2>2. o.kind \in {"data", "no_data"} => reply.kind = "rows"
        BY <2>1 DEF Fred, FredRaises, Raised
    <2>3. \A r \in o.rows : r <= w.date
        BY <2>1, <1>2, CutIsNotLater DEF Fred, FredRaises, Raised, DataOrProse, Prose, Answered
    <2> HIDE DEF o
    <2> QED BY <1>3, <2>2, <2>3 DEF Sound, NotLater, o
<1>4. CASE w.method = "get_prediction_markets"
    <2>1. o = Polymarket(reply, today)
        BY <1>4 DEF Call
    <2>2. o.kind \in {"data", "no_data"} => reply.kind = "rows"
        BY <2>1 DEF Polymarket, Prose
    <2> HIDE DEF o
    <2> QED BY <1>4, <2>2 DEF Sound, NotLater, Timeless, o
<1>5. CASE w.method \notin {"get_macro_indicators", "get_prediction_markets"} /\ vendor = "yfinance"
    <2>1. o = YFin(w.method, reply, w.date, today)
        BY <1>5 DEF Call
    <2>2. reply.kind = "rows" \/ reply.kind \in Failing
        BY <1>1, <1>5 DEF ReplyKinds
    <2>0. w.method = "get_stock_data" => o = YFinPrices(reply, w.date)
        BY <2>1 DEF YFin, Statements
    <2>3. o.kind \in {"data", "no_data"} => reply.kind = "rows"
        <3>1. CASE w.method = "get_stock_data" /\ reply.kind \in Failing
            BY <2>0, <3>1 DEF YFinPrices, Raised
        <3>2. CASE w.method # "get_stock_data" /\ reply.kind \in Failing
            BY <2>1, <3>2 DEF YFin, Prose
        <3> QED BY <3>1, <3>2, <2>2
    <2>4. w.method \notin Timeless /\ w.date # Unset => \A r \in o.rows : r <= w.date
        <3>1. CASE w.method = "get_stock_data"
            BY <2>0, <3>1, <1>2, CutIsNotLater DEF YFinPrices, DataOrNoData, Raised, Answered
        <3>2. CASE w.method # "get_stock_data" /\ reply.kind \in Failing
            BY <2>1, <3>2 DEF YFin, Prose
        <3>3. CASE w.method \in Statements /\ reply.kind \notin Failing
            BY <2>1, <3>3, <1>2, CutIsNotLater
            DEF YFin, YFinStatement, DataOrNoData, Raised, Answered, Statements
        <3>4. CASE w.method \notin Statements \union Timeless \union {"get_stock_data"} /\ reply.kind \notin Failing
            <4>1. o = YFinNews(reply, w.date, today)
                BY <2>1, <3>4 DEF YFin, Timeless
            <4>2. \A r \in InNewsWindow(reply.rows, w.date, today) : r <= w.date
                <5>1. today \in Int
                    BY DEF Days
                <5> QED BY <1>2, <5>1, CutIsNotLater DEF InNewsWindow, PerhapsToday
            <4> QED BY <4>1, <4>2 DEF YFinNews, DataOrProse, Prose, Answered
        <3> QED BY <3>1, <3>2, <3>3, <3>4
    <2>5. o.kind = "data" /\ w.method = "get_stock_data" => Recent(o.rows, w.date)
        BY <2>0, <1>1, <1>2, PricesAreRecent
    <2> HIDE DEF o
    <2> QED BY <2>3, <2>4, <2>5 DEF Sound, NotLater, o
<1>6. CASE w.method \notin {"get_macro_indicators", "get_prediction_markets"} /\ vendor # "yfinance"
    <2>1. o = AlphaVantage(w.method, reply, w.date, today)
        BY <1>6 DEF Call
    <2>2. reply.kind \notin {"limited", "down", "keyless", "odd"} => reply.kind = "rows"
        BY <1>1 DEF ReplyKinds, Failing
    <2>3. CASE w.method = "get_indicators"
        <3>1. o = AlphaVantageIndicator(reply, w.date)
            BY <2>1, <2>3 DEF AlphaVantage
        <3>2. o.kind \in {"data", "no_data"} => reply.kind = "rows"
            BY <3>1 DEF AlphaVantageIndicator, Raised, Prose
        <3>3. \A r \in o.rows : r <= w.date
            BY <3>1, <1>2, CutIsNotLater DEF AlphaVantageIndicator, Raised, Prose, DataOrProse, Answered
        <3> HIDE DEF o
        <3> QED BY <1>6, <2>3, <3>2, <3>3 DEF Sound, NotLater, o
    <2>4. CASE w.method # "get_indicators" /\ reply.kind \in {"limited", "down", "keyless", "odd"}
        <3>1. o.kind \notin {"data", "no_data"} /\ o.rows = {}
            BY <2>1, <2>4 DEF AlphaVantage, AlphaVantageRaises, Failing, Raised, Prose
        <3> HIDE DEF o
        <3> QED BY <3>1 DEF Sound, NotLater, o
    <2>5. CASE w.method # "get_indicators" /\ reply.kind \notin {"limited", "down", "keyless", "odd"}
        <3>1. o = IF w.method = "get_stock_data" THEN AlphaVantagePrices(reply, w.date, today)
                  ELSE IF w.method \in Statements \union {"get_fundamentals"}
                       THEN AlphaVantageReports(w.method, reply, w.date, today)
                  ELSE AlphaVantageNews(w.method, reply, w.date, today)
            BY <2>1, <2>5 DEF AlphaVantage, Failing
        <3> HIDE DEF o
        <3>2. NotLater(w, o.rows, vendor)
            <4>1. CASE w.method = "get_stock_data"
                <5>1. CASE Illegible \in reply.rows
                    BY <1>6, <4>1, <5>1 DEF NotLater, CutIsGivenUp, Unknown
                <5>2. CASE Illegible \notin reply.rows
                    <6>1. o = DataOrProse(Within(reply.rows, w.date))
                        BY <3>1, <4>1, <5>2 DEF AlphaVantagePrices
                    <6> QED BY <1>2, <6>1, CutIsNotLater DEF NotLater, DataOrProse, Prose, Answered
                <5> QED BY <5>1, <5>2
            <4>2. CASE w.method \in Statements /\ w.date # Unset
                <5>1. CASE Undated \in reply.rows
                    BY <1>6, <4>2, <5>1 DEF NotLater, CutIsGivenUp, Unknown
                <5>2. CASE Undated \notin reply.rows
                    <6>1. ReportsUpTo(reply.rows, w.date, today) = UpTo(reply.rows, w.date)
                        BY <4>2, <5>2 DEF ReportsUpTo
                    <6>2. o = DataOrProse(UpTo(reply.rows, w.date))
                        BY <3>1, <4>2, <6>1 DEF AlphaVantageReports, Statements
                    <6> QED BY <1>2, <6>2, CutIsNotLater DEF NotLater, DataOrProse, Prose, Answered
                <5> QED BY <5>1, <5>2
            <4>3. CASE w.method \notin Statements \union Timeless \union {"get_stock_data"}
                <5>1. o = DataOrProse(Within(reply.rows, w.date))
                    BY <3>1, <4>3 DEF AlphaVantageNews, Timeless
                <5> QED BY <1>2, <5>1, CutIsNotLater DEF NotLater, DataOrProse, Prose, Answered
            <4> QED BY <4>1, <4>2, <4>3 DEF NotLater
        <3> QED BY <1>6, <2>2, <2>5, <3>2 DEF Sound, o
    <2> HIDE DEF o
    <2> QED BY <2>3, <2>4, <2>5
<1> QED BY <1>3, <1>4, <1>5, <1>6

-----------------------------------------------------------------------------
(* The steps. *)

\* One thread goes on, and the rest is as it was.
LEMMA GoesFits ==
    ASSUME CallsFit, NEW t \in Threads, NEW w, CallFits(w), Goes(t, w)
    PROVE  CallsFit'
BY DEF CallsFit, Goes, CallFits, Waits, Typed, NoCall, Fresh, Loads, Finished, NotLater,
       CutIsGivenUp, Days, Recent

LEMMA InitFits == Init => DataInv
<1>1. CallFits(NoCall)
    BY DEF NoCall, CallFits, Waits, Typed, Fresh
<1>2. 0 \in Days /\ Absent.rows = {}
    BY BoundsAssumption DEF Days, Absent
<1> QED BY <1>1, <1>2 DEF Init, DataInv, FilesFit, CallsFit

LEMMA AskFits ==
    ASSUME DataInv, NEW t \in Threads, AskVendor(t)
    PROVE  CallsFit'
<1> DEFINE w == call[t]
<1>1. Waits(w) /\ w.pc = "routing" /\ w.rows = {}
    BY DEF DataInv, CallsFit, CallFits, AskVendor
<1>2. PICK reply \in Replies(Head(w.chain)) :
          LET heard == Hears(w, reply) IN
          IF Head(w.chain) = "yfinance" /\ Retries(w, reply)
          THEN Goes(t, [heard EXCEPT !.tries = @ + 1])
          ELSE Goes(t, Route(heard, Call(Head(w.chain), w.method, reply, w.date, today)))
    BY DEF AskVendor
<1> HIDE DEF w
<1> DEFINE heard == Hears(w, reply)
           again == [heard EXCEPT !.tries = @ + 1]
<1>3. /\ DOMAIN heard = DOMAIN NoCall /\ heard.method = w.method /\ heard.date = w.date
      /\ heard.chain = w.chain /\ heard.no_data = w.no_data /\ heard.frame = w.frame /\ heard.pc = w.pc /\ heard.rows = w.rows
      /\ heard.answered = (w.answered \/ reply.kind = "rows")
      /\ heard.unread = reply.rows \intersect Unknown
    BY <1>1 DEF Waits, Typed, NoCall, Hears
<1>4. Goes(t, again) \/ Goes(t, Route(heard, Call(Head(w.chain), w.method, reply, w.date, today)))
    BY <1>2
<1> HIDE DEF heard
<1>5. Waits(heard)
    BY <1>1, <1>3 DEF Waits, Typed
<1>6. CallFits(again)
    <2>1. /\ DOMAIN again = DOMAIN NoCall /\ again.pc = "routing" /\ again.date = heard.date /\ again.rows = {}
          /\ again.no_data = heard.no_data /\ again.answered = heard.answered /\ again.frame = heard.frame
        BY <1>1, <1>3 DEF NoCall
    <2> HIDE DEF again
    <2> QED BY <1>5, <2>1 DEF CallFits, Waits, Typed
<1>7. CallFits(Route(heard, Call(Head(w.chain), w.method, reply, w.date, today)))
    <2>1. Sound(heard, Call(Head(w.chain), heard.method, reply, heard.date, today))
        BY <1>3, <1>5, CallIsSound DEF DataInv, Waits
    <2> QED BY <1>3, <1>5, <2>1, RouteFits
<1> HIDE DEF again
<1> QED BY <1>4, <1>6, <1>7, GoesFits DEF DataInv

LEMMA LoadWindowFits ==
    ASSUME DataInv, NEW t \in Threads, LoadWindow(t)
    PROVE  CallsFit'
<1> DEFINE w == call[t]
<1>1. Waits(w) /\ today \in Days /\ w.rows = {} /\ w.method \in {Snapshot, "get_indicators"}
    BY DEF DataInv, CallsFit, CallFits, LoadWindow, ReadsPrices
<1>2. Goes(t, Loading(w, w.date))
    BY DEF LoadWindow
<1> HIDE DEF w
<1>3. CallFits(Loading(w, w.date))
    BY <1>1, LoadingFits DEF Waits, Typed
<1> QED BY <1>2, <1>3, GoesFits DEF DataInv

LEMMA LookFits ==
    ASSUME DataInv, NEW t \in Threads, LookInFile(t)
    PROVE  CallsFit'
<1> DEFINE w == call[t]
           f == files[w.window]
           found == [w EXCEPT !.answered = TRUE]
           missed == [w EXCEPT !.pc = "downloading"]
<1>1. Gathers(w) /\ today \in Days /\ f.rows \subseteq Int
    BY DEF DataInv, FilesFit, CallsFit, CallFits, LookInFile, Loads, Gathers
<1>2. Goes(t, LoadFails(w)) \/ Goes(t, CutLoaded(found, f.rows)) \/ Goes(t, missed)
    BY DEF LookInFile
<1> HIDE DEF w, f
<1>3. CallFits(LoadFails(w))
    BY <1>1, LoadFailsFits
<1>4. CallFits(CutLoaded(found, f.rows))
    <2>1. /\ DOMAIN found = DOMAIN NoCall /\ found.method = w.method /\ found.date = w.date
          /\ found.no_data = w.no_data /\ found.answered /\ found.frame = w.frame /\ found.rows = w.rows
          /\ found.day = w.day /\ found.window = w.window
        BY <1>1 DEF Gathers, Waits, Typed, NoCall
    <2> HIDE DEF found
    <2>2. Gathers(found)
        BY <1>1, <2>1 DEF Gathers, Waits, Typed, Loads
    <2> QED BY <1>1, <2>1, <2>2, CutLoadedFits
<1>5. CallFits(missed)
    <2>1. /\ DOMAIN missed = DOMAIN NoCall /\ missed.method = w.method /\ missed.date = w.date
          /\ missed.no_data = w.no_data /\ missed.answered = w.answered /\ missed.frame = w.frame
          /\ missed.rows = w.rows /\ missed.day = w.day /\ missed.window = w.window
          /\ missed.pc = "downloading"
        BY <1>1 DEF Gathers, Waits, Typed, NoCall
    <2> HIDE DEF missed
    <2> QED BY <1>1, <2>1 DEF CallFits, Gathers, Waits, Typed, Loads
<1> HIDE DEF found, missed
<1> QED BY <1>2, <1>3, <1>4, <1>5, GoesFits DEF DataInv

LEMMA DownloadFits ==
    ASSUME DataInv, NEW t \in Threads, Download(t)
    PROVE  CallsFit' /\ FilesFit'
<1> DEFINE w == call[t]
<1>1. Gathers(w) /\ today \in Days /\ w.pc = "downloading"
    BY DEF DataInv, CallsFit, CallFits, Download, Gathers
<1>2. PICK reply \in Replies("yfinance") :
          LET heard == Hears(w, reply) IN
          \/ /\ Goes(t, [heard EXCEPT !.tries = @ + 1])
             /\ UNCHANGED files
          \/ /\ Goes(t, LoadFails(heard))
             /\ UNCHANGED files
          \/ /\ reply.kind = "rows"
             /\ Goes(t, Conclude(heard, Raised("no_data")))
             /\ UNCHANGED files
          \/ /\ reply.rows # {}
             /\ Goes(t, [heard EXCEPT !.pc = "saving", !.data = reply.rows, !.tries = 0])
             /\ files' = [files EXCEPT ![w.window] = Void]
    BY DEF Download
<1> HIDE DEF w
<1> DEFINE heard == Hears(w, reply)
           again == [heard EXCEPT !.tries = @ + 1]
           saving == [heard EXCEPT !.pc = "saving", !.data = reply.rows, !.tries = 0]
<1>3. reply.rows \subseteq Int /\ (reply.rows # {} => reply.kind = "rows")
    BY ServicesAssumption DEF Replies
<1>4. /\ DOMAIN heard = DOMAIN NoCall /\ heard.method = w.method /\ heard.date = w.date
      /\ heard.no_data = w.no_data /\ heard.frame = w.frame /\ heard.pc = w.pc /\ heard.rows = w.rows
      /\ heard.day = w.day /\ heard.window = w.window
      /\ heard.answered = (w.answered \/ reply.kind = "rows")
    BY <1>1 DEF Gathers, Waits, Typed, NoCall, Hears
<1> HIDE DEF heard
<1>5. Gathers(heard)
    BY <1>1, <1>4 DEF Gathers, Waits, Typed, Loads
<1>6. CallFits(again)
    <2>1. /\ DOMAIN again = DOMAIN NoCall /\ again.method = heard.method /\ again.date = heard.date
          /\ again.no_data = heard.no_data /\ again.frame = heard.frame /\ again.pc = "downloading"
          /\ again.rows = heard.rows /\ again.day = heard.day /\ again.window = heard.window
          /\ again.answered = heard.answered
        BY <1>1, <1>4 DEF NoCall
    <2> HIDE DEF again
    <2> QED BY <1>5, <2>1 DEF CallFits, Gathers, Waits, Typed, Loads
<1>7. ASSUME reply.rows # {}
      PROVE  CallFits(saving)
    <2>1. /\ DOMAIN saving = DOMAIN NoCall /\ saving.method = heard.method /\ saving.date = heard.date
          /\ saving.no_data = heard.no_data /\ saving.frame = heard.frame /\ saving.pc = "saving"
          /\ saving.rows = heard.rows /\ saving.day = heard.day /\ saving.window = heard.window
          /\ saving.answered = heard.answered /\ saving.data = reply.rows
        BY <1>4 DEF NoCall
    <2> HIDE DEF saving
    <2>2. saving.answered /\ saving.data \subseteq Int
        BY <1>3, <1>4, <1>7, <2>1
    <2> QED BY <1>5, <2>1, <2>2 DEF CallFits, Gathers, Waits, Typed, Loads
<1>8. CallFits(LoadFails(heard))
    BY <1>1, <1>5, LoadFailsFits
<1>9. reply.kind = "rows" => CallFits(Conclude(heard, Raised("no_data")))
    BY <1>4, <1>5, NoDataIsSound DEF Gathers
<1> HIDE DEF again, saving
<1>10. \E x : CallFits(x) /\ Goes(t, x)
    BY <1>2, <1>6, <1>7, <1>8, <1>9 DEF again, saving, heard
<1>11. CallsFit'
    BY <1>10, GoesFits DEF DataInv
<1>12. FilesFit'
    BY <1>2 DEF DataInv, FilesFit, Void
<1> QED BY <1>11, <1>12

LEMMA SaveFits ==
    ASSUME DataInv, NEW t \in Threads, Save(t)
    PROVE  CallsFit' /\ FilesFit'
<1>1. Gathers(call[t]) /\ today \in Days /\ call[t].answered /\ call[t].data \subseteq Int
    BY DEF DataInv, CallsFit, CallFits, Save, Gathers
<1>2. CallFits(CutLoaded(call[t], call[t].data))
    BY <1>1, CutLoadedFits
<1>3. CallsFit'
    BY <1>2, GoesFits DEF DataInv, Save
<1>4. FilesFit'
    BY <1>1 DEF DataInv, FilesFit, Save, Csv
<1> QED BY <1>3, <1>4

LEMMA FillFits ==
    ASSUME DataInv, NEW t \in Threads, Fill(t)
    PROVE  FilesFit'
<1>1. call[t].data \subseteq Int
    BY DEF DataInv, CallsFit, CallFits, Fill
<1>2. PICK d \in Days \union {Undated} :
          files' = [files EXCEPT ![call[t].window] = Csv(UpTo(call[t].data, d))]
    BY DEF Fill
<1>3. UpTo(call[t].data, d) \subseteq Int
    BY <1>1 DEF UpTo
<1> QED BY <1>2, <1>3 DEF DataInv, FilesFit, Csv

LEMMA CallToolsFit ==
    ASSUME DataInv, CallTools
    PROVE  CallsFit' /\ FilesFit'
<1>1. PICK m \in Messages : \E date \in DatesOf(m) :
          call' = [t \in Threads |-> IF t \in DOMAIN m THEN Called(m[t], date[t]) ELSE NoCall]
    BY DEF CallTools
<1>2. PICK date \in DatesOf(m) :
          call' = [t \in Threads |-> IF t \in DOMAIN m THEN Called(m[t], date[t]) ELSE NoCall]
    BY <1>1
<1>3. CallFits(NoCall)
    BY DEF NoCall, CallFits, Waits, Typed, Fresh
<1>4. ASSUME NEW method, NEW day \in Int
      PROVE  CallFits(Called(method, day))
    <2> DEFINE w == [NoCall EXCEPT !.method = method, !.date = day, !.pc = "routing"]
               chain == VendorChain(config, method)
               sent == [w EXCEPT !.chain = chain]
    <2>1. /\ DOMAIN w = DOMAIN NoCall /\ w.method = method /\ w.date = day /\ w.pc = "routing"
          /\ w.rows = {} /\ w.frame = {} /\ ~w.no_data
        BY DEF NoCall
    <2>2. Called(method, day) =
              IF method = Snapshot THEN Loading(w, day)
              ELSE IF chain = <<>> THEN RaisedAs(w, "unconfigured")
              ELSE sent
        BY DEF Called
    <2> HIDE DEF w, chain
    <2>3. /\ DOMAIN sent = DOMAIN NoCall /\ sent.date = w.date /\ sent.pc = "routing"
          /\ sent.rows = {} /\ sent.frame = {} /\ ~sent.no_data
        BY <2>1 DEF NoCall
    <2> HIDE DEF sent
    <2>4. Waits(w) /\ Waits(sent)
        BY <2>1, <2>3 DEF Waits, Typed, Fresh
    <2>5. CallFits(RaisedAs(w, "unconfigured")) /\ CallFits(sent)
        BY <2>3, <2>4, RaisedAsFits DEF CallFits
    <2>6. method = Snapshot => CallFits(Loading(w, day))
        BY <2>1, <2>4, LoadingFits DEF DataInv
    <2> QED BY <2>2, <2>5, <2>6
<1>5. CallsFit'
    BY <1>2, <1>3, <1>4 DEF DatesOf, Unset, CallsFit, CallFits, Waits, Typed, NoCall, Fresh, Loads, Finished, NotLater,
       CutIsGivenUp, Days, Recent
<1>6. FilesFit'
    BY DEF CallTools, DataInv, FilesFit, Absent
<1> QED BY <1>5, <1>6

LEMMA CrashFits ==
    ASSUME Crash
    PROVE  CallsFit'
<1>1. CallFits(NoCall)
    BY DEF NoCall, CallFits, Waits, Typed, Fresh
<1> QED BY <1>1 DEF CallsFit, Crash, CallFits, Waits, Typed, NoCall, Fresh, Loads, Finished, NotLater,
       CutIsGivenUp, Days, Recent

-----------------------------------------------------------------------------
(* The theorems. *)

LEMMA StepFits ==
    ASSUME DataInv, [Next]_vars
    PROVE  DataInv'
<1>1. CASE NewGraph
    BY <1>1 DEF NewGraph, DataInv, FilesFit, CallsFit, CallFits, Waits, Typed, Loads
<1>2. CASE CallTools
    BY <1>2, CallToolsFit DEF CallTools, DataInv
<1>3. CASE \E t \in Threads : Works(t) \/ Fill(t)
    <2>1. PICK t \in Threads : Works(t) \/ Fill(t)
        BY <1>3
    <2>2. CASE AskVendor(t)
        BY <2>2, AskFits DEF AskVendor, DataInv, FilesFit
    <2>3. CASE LoadWindow(t)
        BY <2>3, LoadWindowFits DEF LoadWindow, DataInv, FilesFit
    <2>4. CASE LookInFile(t)
        BY <2>4, LookFits DEF LookInFile, DataInv, FilesFit
    <2>5. CASE Download(t)
        BY <2>5, DownloadFits DEF Download, DataInv
    <2>6. CASE Save(t)
        BY <2>6, SaveFits DEF Save, DataInv
    <2>7. CASE Fill(t)
        BY <2>7, FillFits DEF Fill, DataInv, CallsFit
    <2> QED BY <2>1, <2>2, <2>3, <2>4, <2>5, <2>6, <2>7 DEF Works
<1>4. CASE Crash
    BY <1>4, CrashFits DEF Crash, DataInv, FilesFit
<1>5. CASE Midnight
    <2>1. today' \in Days
        BY <1>5, BoundsAssumption DEF Midnight, DataInv, Days
    <2> QED BY <1>5, <2>1 DEF Midnight, DataInv, FilesFit, CallsFit
<1>6. CASE UNCHANGED vars
    BY <1>6 DEF vars, DataInv, FilesFit, CallsFit
<1> QED BY <1>1, <1>2, <1>3, <1>4, <1>5, <1>6 DEF Next

\* Every call fits its invariant at every step (interface.py 165).
THEOREM CallsAreSound == Spec => []DataInv
<1>1. Init => DataInv
    BY InitFits
<1>2. DataInv /\ [Next]_vars => DataInv'
    BY StepFits
<1> QED BY <1>1, <1>2, PTL DEF Spec

\* No look-ahead but where the code itself gives up the cut, whatever the services,
\* the configurations, the messages, the window and the number of parallel calls
\* (stockstats_utils.py 125-132, alpha_vantage_common.py 148-151).
THEOREM NoLookAheadEver == Spec => []NoLookAhead
<1>1. DataInv => NoLookAhead
    BY DEF DataInv, CallsFit, CallFits, Finished, NotLater, NoLookAhead, Done
<1> QED BY <1>1, CallsAreSound, PTL

\* Stale prices are never shown, for any MAX_OHLCV_STALE_DAYS (stockstats_utils.py 88).
THEOREM StalePricesAreNeverShown == Spec => []StalePricesAreNotShown
<1>1. DataInv => StalePricesAreNotShown
    BY DEF DataInv, CallsFit, CallFits, Waits, Fresh, Finished, Recent, StalePricesAreNotShown, Done
<1> QED BY <1>1, CallsAreSound, PTL

\* An outage is never passed off as a finding (interface.py 205-262).
THEOREM OutagesAreNeverFindings == Spec => []OutagesAreNotFindings
<1>1. DataInv => OutagesAreNotFindings
    BY DEF DataInv, CallsFit, CallFits, Finished, OutagesAreNotFindings, Done
<1> QED BY <1>1, CallsAreSound, PTL

-----------------------------------------------------------------------------
(* The items of a sequence at some of its places. *)

\* The places of a finite set of integers are ranked without gaps: the k-th is in
\* the set and is its k-th.
LEMMA RankRises ==
    ASSUME NEW S \in SUBSET Int, IsFiniteSet(S)
    PROVE  /\ Cardinality(S) \in Nat
           /\ \A i \in S : Rank(S, i) \in 1..Cardinality(S)
           /\ \A i, j \in S : i < j => Rank(S, i) < Rank(S, j)
<1> DEFINE Upto(i) == {j \in S : j <= i}
<1>1. Cardinality(S) \in Nat
    BY FS_CardinalityType
<1>2. \A i \in S : /\ IsFiniteSet(Upto(i)) /\ Cardinality(Upto(i)) \in Nat
                   /\ Cardinality(Upto(i)) <= Cardinality(S)
    BY FS_Subset, FS_CardinalityType
<1>3. \A i \in S : Upto(i) # {}
    OBVIOUS
<1>4. ASSUME NEW i \in S, NEW j \in S, i < j
      PROVE  Upto(i) \in SUBSET Upto(j) /\ Upto(i) # Upto(j)
    <2>1. j \in Upto(j) /\ j \notin Upto(i)
        BY <1>4
    <2>2. \A k \in Upto(i) : k \in Upto(j)
        BY <1>4
    <2> QED BY <2>1, <2>2
<1>5. \A i \in S : Rank(S, i) = Cardinality(Upto(i))
    BY DEF Rank
<1> HIDE DEF Upto
<1>6. \A i \in S : Cardinality(Upto(i)) # 0
    BY <1>2, <1>3, FS_EmptySet
<1>7. ASSUME NEW i \in S, NEW j \in S, i < j
      PROVE  Cardinality(Upto(i)) < Cardinality(Upto(j))
    <2>1. Cardinality(Upto(i)) <= Cardinality(Upto(j)) /\ Cardinality(Upto(i)) # Cardinality(Upto(j))
        BY <1>2, <1>4, <1>7, FS_Subset
    <2> QED BY <2>1, <1>2
<1> QED BY <1>1, <1>2, <1>5, <1>6, <1>7

LEMMA NthHasItsRank ==
    ASSUME NEW S \in SUBSET Int, IsFiniteSet(S), NEW k \in 1..Cardinality(S)
    PROVE  Nth(S, k) \in S /\ Rank(S, Nth(S, k)) = k
<1> DEFINE f == [i \in S |-> Rank(S, i)]
           n == Cardinality(S)
<1>1. /\ n \in Nat
      /\ \A i \in S : Rank(S, i) \in 1..n
      /\ \A i, j \in S : i < j => Rank(S, i) < Rank(S, j)
    BY RankRises
<1>2. f \in [S -> 1..n]
    BY <1>1
<1>3. \A i, j \in S : f[i] = f[j] => i = j
    BY <1>1
<1>4. f \in Injection(S, 1..n)
    BY <1>2, <1>3 DEF Injection, IsInjective
<1>5. IsFiniteSet(1..n) /\ Cardinality(1..n) = n
    BY <1>1, FS_Interval
<1>6. f \in Surjection(S, 1..n)
    BY <1>4, <1>5, FS_Injection
<1>7. \E i \in S : f[i] = k
    BY <1>6 DEF Surjection
<1>8. \E i \in S : Rank(S, i) = k
    BY <1>7
<1> QED BY <1>8 DEF Nth

-----------------------------------------------------------------------------
(***************************************************************************)
(* Who answers.  A call that is under way asks vendors of its chain only,  *)
(* and the chain was made of what the configuration names for the tool.    *)
(***************************************************************************)

Asks(w, c) == w.chain \in Seq(c[w.method]) /\ w.chain # <<>>

Calls(w) == DOMAIN w = DOMAIN NoCall /\ w.method \in Methods \union {Snapshot}

OnCourse(w, c) == Calls(w) /\ (w.method # Snapshot => Asks(w, c))

ChainFits(w, c) ==
    /\ Calls(w)
    /\ w.pc \notin {"idle", "done"} => OnCourse(w, c)
    /\ w.pc = "done" /\ w.method # Snapshot => w.source \in {"none"} \union c[w.method]

ChainsFit == DOMAIN call = Threads /\ \A t \in Threads : ChainFits(call[t], chosen)

Listed(c) ==
    /\ \A k \in DOMAIN c.data_vendors : IsList(c.data_vendors[k])
    /\ \A m \in DOMAIN c.tool_vendors : IsList(c.tool_vendors[m])

ConfigFits ==
    /\ Listed(config)
    /\ DOMAIN chosen = Methods
    /\ \A m \in Methods : Named(config, m) \subseteq chosen[m]

ChosenInv == ConfigFits /\ ChainsFit

LEMMA ReturnedIsChosen ==
    ASSUME NEW w, NEW c, Calls(w), NEW kind, NEW rows, NEW source,
           w.method # Snapshot => source \in {"none"} \union c[w.method]
    PROVE  ChainFits(Returned(w, kind, rows, source), c)
<1> DEFINE x == Returned(w, kind, rows, source)
<1>1. DOMAIN x = DOMAIN NoCall /\ x.pc = "done" /\ x.source = source /\ x.method = w.method
    BY DEF Calls, NoCall, Returned
<1> HIDE DEF x
<1> QED BY <1>1 DEF Calls, ChainFits, x

LEMMA RaisedIsChosen ==
    ASSUME NEW w, NEW c, Calls(w), NEW error
    PROVE  ChainFits(RaisedAs(w, error), c)
BY ReturnedIsChosen DEF RaisedAs

LEMMA HeadAndTail ==
    ASSUME NEW V, NEW q \in Seq(V), q # <<>>
    PROVE  Head(q) \in V /\ Tail(q) \in Seq(V)
OBVIOUS

LEMMA RouteIsChosen ==
    ASSUME NEW w, NEW c, OnCourse(w, c), w.method # Snapshot, NEW o
    PROVE  ChainFits(Route(w, o), c)
<1> DEFINE noted == [w EXCEPT !.chain = Tail(@), !.tries = 0, !.bulk = TRUE, !.rows = {}, !.frame = {},
                           !.no_data = @ \/ o.kind = "no_data",
                           !.error = IF @ = "none" /\ o.kind \in {"unconfigured", "error"}
                                     THEN o.kind ELSE @,
                           !.pc = "routing"]
           V == c[w.method]
<1>1. w.chain \in Seq(V) /\ w.chain # <<>>
    BY DEF Calls, OnCourse, Asks
<1>2. Head(w.chain) \in V /\ Tail(w.chain) \in Seq(V)
    BY <1>1, HeadAndTail
<1>3. /\ DOMAIN noted = DOMAIN NoCall /\ noted.pc = "routing" /\ noted.method = w.method
      /\ noted.chain = Tail(w.chain)
    BY DEF Calls, OnCourse, NoCall
<1>4. Route(w, o) = IF o.kind \in {"data", "prose"} THEN Returned(w, o.kind, o.rows, Head(w.chain))
                    ELSE IF noted.chain = <<>> THEN GiveUp(noted) ELSE noted
    BY DEF Route
<1> HIDE DEF noted
<1>5. ChainFits(Returned(w, o.kind, o.rows, Head(w.chain)), c)
    BY <1>2, ReturnedIsChosen DEF Calls, OnCourse
<1>6. ChainFits(GiveUp(noted), c)
    <2>1. Calls(noted)
        BY <1>3 DEF Calls, OnCourse
    <2> QED BY <2>1, ReturnedIsChosen, RaisedIsChosen DEF GiveUp
<1>7. noted.chain # <<>> => ChainFits(noted, c)
    BY <1>2, <1>3 DEF ChainFits, Calls, OnCourse, Asks
<1> QED BY <1>4, <1>5, <1>6, <1>7

LEMMA ConcludeIsChosen ==
    ASSUME NEW w, NEW c, OnCourse(w, c), NEW o
    PROVE  ChainFits(Conclude(w, o), c)
<1>1. CASE w.method = Snapshot
    BY <1>1, ReturnedIsChosen DEF Conclude, ConcludeSnapshot, Calls, OnCourse
<1>2. CASE w.method # Snapshot
    BY <1>2, RouteIsChosen DEF Conclude
<1> QED BY <1>1, <1>2

LEMMA LoadingIsChosen ==
    ASSUME NEW w, NEW c, OnCourse(w, c), NEW day
    PROVE  ChainFits(Loading(w, day), c)
<1> DEFINE x == Loading(w, day)
<1>1. DOMAIN x = DOMAIN NoCall /\ x.pc = "looking" /\ x.method = w.method /\ x.chain = w.chain
    BY DEF Calls, OnCourse, NoCall, Loading
<1> HIDE DEF x
<1> QED BY <1>1 DEF ChainFits, Calls, OnCourse, Asks, x

LEMMA NextLoadIsChosen ==
    ASSUME NEW w, NEW c, OnCourse(w, c)
    PROVE  ChainFits(NextLoad(w), c)
BY ConcludeIsChosen, LoadingIsChosen DEF NextLoad

LEMMA LoadFailsIsChosen ==
    ASSUME NEW w, NEW c, OnCourse(w, c)
    PROVE  ChainFits(LoadFails(w), c)
<1> DEFINE x == [w EXCEPT !.bulk = FALSE]
<1>1. DOMAIN x = DOMAIN NoCall /\ x.method = w.method /\ x.chain = w.chain
    BY DEF Calls, OnCourse, NoCall
<1>2. LoadFails(w) = IF w.method = Snapshot THEN Conclude(w, Raised("error"))
                     ELSE IF w.bulk THEN Loading(x, w.date) ELSE NextLoad(w)
    BY DEF LoadFails
<1> HIDE DEF x
<1>3. OnCourse(x, c)
    BY <1>1 DEF Calls, OnCourse, Asks
<1> QED BY <1>2, <1>3, ConcludeIsChosen, LoadingIsChosen, NextLoadIsChosen

LEMMA CutLoadedIsChosen ==
    ASSUME NEW w, NEW c, OnCourse(w, c), NEW rows
    PROVE  ChainFits(CutLoaded(w, rows), c)
<1> DEFINE cut == UpTo(rows, w.day)
           x == [w EXCEPT !.frame = Ages(cut, w.day)]
           y == [x EXCEPT !.rows = @ \union (cut \intersect {w.day})]
<1>1. /\ DOMAIN x = DOMAIN NoCall /\ x.method = w.method /\ x.chain = w.chain
      /\ DOMAIN y = DOMAIN NoCall /\ y.method = w.method /\ y.chain = w.chain
    BY DEF Calls, OnCourse, NoCall
<1>2. CutLoaded(w, rows) =
          CASE IsStale(cut, w.day) -> Conclude(w, Raised("no_data"))
            [] cut = {} -> IF w.bulk THEN Conclude(w, Prose) ELSE NextLoad(w)
            [] OTHER    -> IF w.bulk THEN Conclude(x, Answered(cut)) ELSE NextLoad(y)
    BY DEF CutLoaded
<1> HIDE DEF x, y, cut
<1>3. OnCourse(x, c) /\ OnCourse(y, c)
    BY <1>1 DEF Calls, OnCourse, Asks
<1> QED BY <1>2, <1>3, ConcludeIsChosen, NextLoadIsChosen

\* The chain of a tool is made of what the configuration names for it.
LEMMA VendorsAreListed ==
    ASSUME NEW method \in Methods
    PROVE  VENDOR_METHODS(method) \in Seq(Members(VENDOR_METHODS(method)))
<1>1. \A v : <<v>> \in Seq(Members(<<v>>))
    BY DEF Members
<1>2. \A u, v : <<u, v>> \in Seq(Members(<<u, v>>))
    BY DEF Members
<1>3. \/ \E v : VENDOR_METHODS(method) = <<v>>
      \/ \E u, v : VENDOR_METHODS(method) = <<u, v>>
    BY DEF VENDOR_METHODS
<1> QED BY <1>1, <1>2, <1>3

LEMMA SettingIsList ==
    ASSUME NEW c, Listed(c), NEW method
    PROVE  IsList(get_vendor(c, method))
<1>1. IsList(<<"default">>)
    BY DEF IsList
<1> QED BY <1>1 DEF get_vendor, Listed

LEMMA ChainIsNamed ==
    ASSUME NEW c, Listed(c), NEW method \in Methods
    PROVE  VendorChain(c, method) \in Seq(Named(c, method))
<1> DEFINE vendors == get_vendor(c, method)
           explicit == {i \in DOMAIN vendors : vendors[i] # "default"}
           offered == Members(VENDOR_METHODS(method))
           kept == {i \in explicit : vendors[i] \in offered}
           named == Members(vendors) \ {"default"}
<1>1. Len(vendors) \in Nat /\ DOMAIN vendors = 1..Len(vendors)
    BY SettingIsList DEF IsList
<1>2. VendorChain(c, method) = IF explicit = {} THEN VENDOR_METHODS(method) ELSE Items(vendors, kept)
    BY DEF VendorChain
<1>3. Named(c, method) = IF named = {} THEN offered ELSE named
    BY DEF Named
<1>4. VENDOR_METHODS(method) \in Seq(offered)
    BY VendorsAreListed
<1>5. kept \in SUBSET (1..Len(vendors)) /\ \A i \in kept : vendors[i] \in named
    BY <1>1 DEF Members
<1>6. explicit = {} <=> named = {}
    BY DEF Members
<1> HIDE DEF vendors, explicit, offered, kept, named
<1>7. Items(vendors, kept) \in Seq(named)
    <2>1. IsFiniteSet(1..Len(vendors)) /\ 1..Len(vendors) \subseteq Int
        BY <1>1, FS_Interval
    <2>2. IsFiniteSet(kept) /\ kept \in SUBSET Int
        BY ONLY <1>5, <2>1, FS_Subset
    <2>3. /\ Cardinality(kept) \in Nat
          /\ \A k \in 1..Cardinality(kept) : Nth(kept, k) \in kept
        BY <2>2, NthHasItsRank, FS_CardinalityType
    <2>4. Items(vendors, kept) \in [1..Cardinality(kept) -> named]
        BY <1>5, <2>3 DEF Items
    <2> QED BY <2>3, <2>4
<1> QED BY <1>2, <1>3, <1>4, <1>6, <1>7

\* What a merged configuration names for a tool, one of the two named.
LEMMA MergedIsNamed ==
    ASSUME NEW c, Listed(c), Listed(config), NEW method \in Methods
    PROVE  /\ Listed(set_config(c))
           /\ Named(set_config(c), method) \in {Named(config, method), Named(c, method)}
<1> DEFINE new == set_config(c)
<1>1. /\ DOMAIN new.data_vendors = DOMAIN config.data_vendors \union DOMAIN c.data_vendors
      /\ \A k \in DOMAIN new.data_vendors :
            new.data_vendors[k] = IF k \in DOMAIN c.data_vendors THEN c.data_vendors[k] ELSE config.data_vendors[k]
      /\ DOMAIN new.tool_vendors = DOMAIN config.tool_vendors \union DOMAIN c.tool_vendors
      /\ \A m \in DOMAIN new.tool_vendors :
            new.tool_vendors[m] = IF m \in DOMAIN c.tool_vendors THEN c.tool_vendors[m] ELSE config.tool_vendors[m]
    BY DEF set_config
<1> HIDE DEF new
<1>2. Listed(new)
    BY <1>1 DEF Listed
<1>3. get_vendor(new, method) \in {get_vendor(config, method), get_vendor(c, method)}
    BY <1>1 DEF get_vendor
<1>4. Named(new, method) \in {Named(config, method), Named(c, method)}
    BY <1>3 DEF Named
<1> QED BY <1>2, <1>4 DEF new

-----------------------------------------------------------------------------
(* The steps. *)

LEMMA CallFitsChosen ==
    ASSUME ChosenInv, NEW t \in Threads
    PROVE  /\ Calls(call[t])
           /\ call[t].pc \notin {"idle", "done"} => OnCourse(call[t], chosen)
BY DEF ChosenInv, ChainsFit, Calls, ChainFits

LEMMA GoesIsChosen ==
    ASSUME ChosenInv, NEW t \in Threads, NEW w, Goes(t, w), ChainFits(w, chosen),
           UNCHANGED <<config, chosen>>
    PROVE  ChosenInv'
<1>1. ConfigFits'
    BY DEF ChosenInv, ConfigFits, Listed, Named, get_vendor
<1>2. DOMAIN call' = Threads /\ \A u \in Threads : call'[u] = IF u = t THEN w ELSE call[u]
    BY DEF Goes, ChosenInv, ChainsFit
<1>3. ChainsFit'
    BY <1>2 DEF ChosenInv, ChainsFit
<1> QED BY <1>1, <1>3 DEF ChosenInv

LEMMA NoCallIsChosen == \A c : ChainFits(NoCall, c)
BY DEF Calls, ChainFits, NoCall

LEMMA ChosenInit == Init => ChosenInv
<1> SUFFICES ASSUME Init PROVE ChosenInv
    OBVIOUS
<1>1. ConfigFits
    BY ConfigsAssumption DEF Init, ConfigFits, Listed
<1> QED BY <1>1, NoCallIsChosen DEF Init, ChosenInv, ChainsFit

LEMMA NewGraphIsChosen ==
    ASSUME ChosenInv, NewGraph
    PROVE  ChosenInv'
<1>1. PICK c \in Configs : /\ config' = set_config(c)
                           /\ chosen' = [m \in Methods |-> chosen[m] \union Named(c, m)]
    BY DEF NewGraph
<1>2. Listed(c) /\ Listed(config)
    BY ConfigsAssumption DEF Listed, ChosenInv, ConfigFits
<1>3. \A m \in Methods : Listed(set_config(c))
                         /\ Named(set_config(c), m) \in {Named(config, m), Named(c, m)}
    BY <1>2, MergedIsNamed
<1>4. \A m \in Methods : Named(set_config(c), m) \subseteq chosen'[m]
    BY <1>1, <1>3 DEF ChosenInv, ConfigFits
<1>5. "get_news" \in Methods
    BY DEF Methods, TOOLS_CATEGORIES
<1>6. ConfigFits'
    BY <1>1, <1>3, <1>4, <1>5 DEF ConfigFits, Listed, Named, get_vendor
<1>7. ASSUME NEW t \in Threads
      PROVE  ChainFits(call[t], chosen')
    <2>1. ChainFits(call[t], chosen) /\ ~Busy(t)
        BY DEF NewGraph, ChosenInv, ChainsFit
    <2>2. \A m \in Methods : chosen[m] \subseteq chosen'[m]
        BY <1>1
    <2> QED BY <2>1, <2>2 DEF Calls, ChainFits, Busy
<1> QED BY <1>6, <1>7 DEF ChosenInv, ChainsFit, NewGraph

LEMMA CallToolsIsChosen ==
    ASSUME ChosenInv, CallTools
    PROVE  ChosenInv'
<1>1. PICK m \in Messages : \E date \in DatesOf(m) :
          call' = [t \in Threads |-> IF t \in DOMAIN m THEN Called(m[t], date[t]) ELSE NoCall]
    BY DEF CallTools
<1>2. PICK date \in DatesOf(m) :
          call' = [t \in Threads |-> IF t \in DOMAIN m THEN Called(m[t], date[t]) ELSE NoCall]
    BY <1>1
<1>3. ASSUME NEW method \in Methods \union {Snapshot}, NEW day
      PROVE  ChainFits(Called(method, day), chosen)
    <2> DEFINE w == [NoCall EXCEPT !.method = method, !.date = day, !.pc = "routing"]
               chain == VendorChain(config, method)
               sent == [w EXCEPT !.chain = chain]
    <2>1. DOMAIN w = DOMAIN NoCall /\ w.method = method
        BY DEF NoCall
    <2>2. Called(method, day) =
              IF method = Snapshot THEN Loading(w, day)
              ELSE IF chain = <<>> THEN RaisedAs(w, "unconfigured")
              ELSE sent
        BY DEF Called
    <2>3. method # Snapshot => chain \in Seq(chosen[method])
        <3>1. method # Snapshot => chain \in Seq(Named(config, method)) /\ Named(config, method) \subseteq chosen[method]
            BY ChainIsNamed DEF ChosenInv, ConfigFits
        <3> HIDE DEF chain
        <3> QED BY <3>1
    <2> HIDE DEF w, chain
    <2>4. /\ DOMAIN sent = DOMAIN NoCall /\ sent.method = method /\ sent.chain = chain /\ sent.pc = w.pc
        BY <2>1 DEF NoCall
    <2>5. w.pc = "routing"
        BY DEF w, NoCall
    <2> HIDE DEF sent
    <2>6. Calls(w) /\ Calls(sent)
        BY <2>1, <2>4 DEF Calls
    <2>7. method = Snapshot => OnCourse(w, chosen)
        BY <2>1, <2>6 DEF OnCourse
    <2>8. method # Snapshot /\ chain # <<>> => OnCourse(sent, chosen)
        BY <2>3, <2>4, <2>6 DEF OnCourse, Asks
    <2>9. method # Snapshot /\ chain # <<>> => ChainFits(sent, chosen)
        BY <2>4, <2>5, <2>6, <2>8 DEF ChainFits
    <2> QED BY <2>2, <2>6, <2>7, <2>9, RaisedIsChosen, LoadingIsChosen
<1>4. \A t \in Threads : t \in DOMAIN m => ChainFits(Called(m[t], date[t]), chosen)
    BY <1>3, MessagesAssumption
<1>5. \A t \in Threads : ChainFits(call'[t], chosen')
    BY <1>2, <1>4, NoCallIsChosen DEF CallTools
<1>6. ConfigFits'
    BY DEF CallTools, ChosenInv, ConfigFits, Listed, Named, get_vendor
<1> QED BY <1>2, <1>5, <1>6 DEF ChosenInv, ChainsFit

LEMMA AskIsChosen ==
    ASSUME ChosenInv, NEW t \in Threads, AskVendor(t)
    PROVE  ChosenInv'
<1> DEFINE w == call[t]
<1>1. OnCourse(w, chosen) /\ w.method # Snapshot /\ w.pc = "routing"
    BY CallFitsChosen DEF AskVendor, ReadsPrices
<1>2. PICK reply \in Replies(Head(w.chain)) :
          LET heard == Hears(w, reply) IN
          \/ Goes(t, [heard EXCEPT !.tries = @ + 1])
          \/ Goes(t, Route(heard, Call(Head(w.chain), w.method, reply, w.date, today)))
    BY DEF AskVendor
<1> HIDE DEF w
<1> DEFINE heard == Hears(w, reply)
           again == [heard EXCEPT !.tries = @ + 1]
<1>3. /\ DOMAIN heard = DOMAIN NoCall /\ heard.method = w.method /\ heard.chain = w.chain
      /\ DOMAIN again = DOMAIN NoCall /\ again.method = w.method /\ again.chain = w.chain
      /\ again.pc = "routing"
    BY <1>1 DEF OnCourse, Calls, NoCall, Hears
<1>4. \/ Goes(t, again)
      \/ Goes(t, Route(heard, Call(Head(w.chain), w.method, reply, w.date, today)))
    BY <1>2
<1> HIDE DEF heard, again
<1>5. OnCourse(heard, chosen) /\ heard.method # Snapshot /\ OnCourse(again, chosen)
    BY <1>1, <1>3 DEF OnCourse, Calls, Asks
<1>6. ChainFits(again, chosen)
    BY <1>3, <1>5 DEF ChainFits, OnCourse
<1>7. \A o : ChainFits(Route(heard, o), chosen)
    BY <1>5, RouteIsChosen
<1> QED BY <1>4, <1>6, <1>7, GoesIsChosen DEF AskVendor

LEMMA LoadWindowIsChosen ==
    ASSUME ChosenInv, NEW t \in Threads, LoadWindow(t)
    PROVE  ChosenInv'
<1>1. OnCourse(call[t], chosen)
    BY CallFitsChosen DEF LoadWindow
<1> QED BY <1>1, LoadingIsChosen, GoesIsChosen DEF LoadWindow

LEMMA LookIsChosen ==
    ASSUME ChosenInv, NEW t \in Threads, LookInFile(t)
    PROVE  ChosenInv'
<1> DEFINE w == call[t]
           f == files[w.window]
           found == [w EXCEPT !.answered = TRUE]
           missed == [w EXCEPT !.pc = "downloading"]
<1>1. OnCourse(w, chosen)
    BY CallFitsChosen DEF LookInFile
<1>2. Goes(t, LoadFails(w)) \/ Goes(t, CutLoaded(found, f.rows)) \/ Goes(t, missed)
    BY DEF LookInFile
<1> HIDE DEF w, f
<1>3. /\ DOMAIN found = DOMAIN NoCall /\ found.method = w.method /\ found.chain = w.chain
      /\ DOMAIN missed = DOMAIN NoCall /\ missed.method = w.method /\ missed.chain = w.chain
      /\ missed.pc = "downloading"
    BY <1>1 DEF OnCourse, Calls, NoCall
<1> HIDE DEF found, missed
<1>4. OnCourse(found, chosen) /\ OnCourse(missed, chosen)
    BY <1>1, <1>3 DEF OnCourse, Calls, Asks
<1>5. ChainFits(missed, chosen)
    BY <1>3, <1>4 DEF ChainFits, OnCourse
<1> QED BY <1>1, <1>2, <1>4, <1>5, LoadFailsIsChosen, CutLoadedIsChosen, GoesIsChosen DEF LookInFile

LEMMA DownloadIsChosen ==
    ASSUME ChosenInv, NEW t \in Threads, Download(t)
    PROVE  ChosenInv'
<1> DEFINE w == call[t]
<1>1. OnCourse(w, chosen) /\ w.pc = "downloading"
    BY CallFitsChosen DEF Download
<1>2. PICK reply \in Replies("yfinance") :
          LET heard == Hears(w, reply) IN
          \/ Goes(t, [heard EXCEPT !.tries = @ + 1])
          \/ Goes(t, LoadFails(heard))
          \/ Goes(t, Conclude(heard, Raised("no_data")))
          \/ Goes(t, [heard EXCEPT !.pc = "saving", !.data = reply.rows, !.tries = 0])
    BY DEF Download
<1> HIDE DEF w
<1> DEFINE heard == Hears(w, reply)
           again == [heard EXCEPT !.tries = @ + 1]
           saving == [heard EXCEPT !.pc = "saving", !.data = reply.rows, !.tries = 0]
<1>3. /\ DOMAIN heard = DOMAIN NoCall /\ heard.method = w.method /\ heard.chain = w.chain
      /\ DOMAIN again = DOMAIN NoCall /\ again.method = w.method /\ again.chain = w.chain
      /\ DOMAIN saving = DOMAIN NoCall /\ saving.method = w.method /\ saving.chain = w.chain
      /\ again.pc = "downloading" /\ saving.pc = "saving"
    BY <1>1 DEF OnCourse, Calls, NoCall, Hears
<1>4. \/ Goes(t, again) \/ Goes(t, saving) \/ Goes(t, LoadFails(heard))
      \/ Goes(t, Conclude(heard, Raised("no_data")))
    BY <1>2
<1> HIDE DEF heard, again, saving
<1>5. OnCourse(heard, chosen) /\ OnCourse(again, chosen) /\ OnCourse(saving, chosen)
    BY <1>1, <1>3 DEF OnCourse, Calls, Asks
<1>6. ChainFits(again, chosen) /\ ChainFits(saving, chosen)
    BY <1>3, <1>5 DEF ChainFits, OnCourse
<1>7. ChainFits(LoadFails(heard), chosen) /\ ChainFits(Conclude(heard, Raised("no_data")), chosen)
    BY <1>5, LoadFailsIsChosen, ConcludeIsChosen
<1> QED BY <1>4, <1>6, <1>7, GoesIsChosen DEF Download

LEMMA SaveIsChosen ==
    ASSUME ChosenInv, NEW t \in Threads, Save(t)
    PROVE  ChosenInv'
<1>1. OnCourse(call[t], chosen)
    BY CallFitsChosen DEF Save
<1> QED BY <1>1, CutLoadedIsChosen, GoesIsChosen DEF Save

LEMMA StepIsChosen ==
    ASSUME ChosenInv, [Next]_vars
    PROVE  ChosenInv'
<1>1. CASE NewGraph
    BY <1>1, NewGraphIsChosen
<1>2. CASE CallTools
    BY <1>2, CallToolsIsChosen
<1>3. ASSUME NEW t \in Threads, Works(t)
      PROVE  ChosenInv'
    BY <1>3, AskIsChosen, LoadWindowIsChosen, LookIsChosen, DownloadIsChosen, SaveIsChosen DEF Works
<1>4. CASE Crash
    <2>1. ConfigFits'
        BY <1>4, ConfigsAssumption DEF Crash, ConfigFits, Listed
    <2> QED BY <1>4, <2>1, NoCallIsChosen DEF Crash, ChosenInv, ChainsFit
<1>5. CASE UNCHANGED <<config, call, chosen>>
    BY <1>5 DEF ChosenInv, ConfigFits, Listed, Named, get_vendor, ChainsFit
<1> QED BY <1>1, <1>2, <1>3, <1>4, <1>5 DEF Next, Fill, Midnight, vars

\* The answer of a tool is of a vendor that was chosen for it, for every set of
\* configurations, whatever is merged into what and whichever vendors of the chain
\* fail first (interface.py 168-204).
THEOREM AnswersAreChosen == Spec => []AnswersAreOfChosenVendors
<1>1. ChosenInv /\ [Next]_vars => ChosenInv'
    BY StepIsChosen
<1>2. ChosenInv => AnswersAreOfChosenVendors
    BY DEF ChosenInv, ChainsFit, ChainFits, AnswersAreOfChosenVendors, Done
<1> QED BY <1>1, <1>2, ChosenInit, PTL DEF Spec
=============================================================================
