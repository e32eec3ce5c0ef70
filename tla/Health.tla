------------------------------- MODULE Health -------------------------------
(***************************************************************************)
(* The book health check (src/desk/health.py) beside the imports it may    *)
(* overlap with: the caller loads book.yaml and the prices, check() reads  *)
(* the day of the last import and then, in another statement, the          *)
(* positions.  An import may commit, or the operator may edit book.yaml,   *)
(* between any two of these.                                               *)
(*                                                                         *)
(* An entry of book.yaml is [stop, target, exit_rules, invalidated,        *)
(* earnings].  (The log checkpoint of module Ingest plays no part here: a  *)
(* health check reads the database, never its main file alone.)            *)
(***************************************************************************)
EXTENDS Ingest

CONSTANTS
    TickerOf,       \* the ticker of each key
    Quotes,         \* the price maps a check may be given: price by ticker
    MaxStaleDays    \* max_stale_days

ASSUME TickerAssumption == DOMAIN TickerOf = Keys
ASSUME StaleAssumption == MaxStaleDays \in Nat

X == INSTANCE ExitRules

ASSUME UnitsAssumption == None \notin UNION X!Range(X!VALID_UNITS)
ASSUME RulesAssumption == \A entry \in Entries : entry.exit_rules \in Seq(X!Rule)

VARIABLES
    stage,      \* where the health check is, or how it ended
    given,      \* its arguments: [book, prices, as_of]
    age,        \* book_age_days
    report      \* the last report, with (for the properties) the number of
                \* imports committed when its rows were read

healthVars == <<stage, given, age, report>>

NoReport == [decisions |-> NoRows, unmanaged |-> NoRows, upto |-> 0]

HealthInit ==
    /\ Init
    /\ stage = "idle"
    /\ given \in [book : {book}, prices : Quotes, as_of : {0}]
    /\ age = 0
    /\ report = NoReport

-----------------------------------------------------------------------------

rule(kind, unit, threshold) ==
    [kind |-> kind, unit |-> unit, threshold |-> threshold, armed |-> TRUE]

\* stop and target are absolute prices; the written rules follow.
rules_for(entry) ==
    (IF entry.stop # None THEN <<rule("fixed_stop", "price", entry.stop)>> ELSE <<>>)
    \o (IF entry.target # None THEN <<rule("take_profit", "price", entry.target)>> ELSE <<>>)
    \o entry.exit_rules

DaysBetween(from, to) == IF None \in {from, to} THEN None ELSE to - from

\* avg_cost is exact: the values of qty and cost are chosen so that it is.
PositionState(row, entry, price) ==
    [price |-> price, cost |-> row.cost \div row.qty, high |-> None,
     held |-> DaysBetween(row.opened_at, given.as_of),
     invalidated |-> entry.invalidated,
     earnings |-> DaysBetween(given.as_of, entry.earnings)]

\* Slip: the stored status is believed, not book.yaml.
WhyNotByStatus(k, row) ==
    IF row.status = "UNMANAGED" \/ k \notin DOMAIN given.book THEN "UNMANAGED"
    ELSE IF TickerOf[k] \notin DOMAIN given.prices THEN "NO PRICE"
    ELSE IF row.qty = 0 \/ row.cost = None THEN "NO COST BASIS"
    ELSE None

\* Why a row is not evaluated, in the order the code asks; None when it is.
WhyNot(k, row) ==
    IF k \notin DOMAIN given.book THEN "UNMANAGED"
    ELSE IF TickerOf[k] \notin DOMAIN given.prices THEN "NO PRICE"
    ELSE IF row.qty = 0 \/ row.cost = None THEN "NO COST BASIS"
    ELSE None

\* Slip: only the rows stored as OPEN are selected.
RowsStoredOpen(t) == {k \in DOMAIN t : t[k].status = "OPEN"}

RowsToCheck(t) == Held(t)

Judged(t) == {k \in RowsToCheck(t) : WhyNot(k, t[k]) = None}

StateOf(k) == PositionState(positions[k], given.book[k], given.prices[TickerOf[k]])

\* One position that cannot be built, or one rule that cannot, armed or not,
\* ends the whole check.
Raises ==
    \E k \in Judged(positions) :
        \/ X!BadPositionState(StateOf(k))
        \/ \E i \in DOMAIN rules_for(given.book[k]) :
              X!RuleConfigError(rules_for(given.book[k])[i])

-----------------------------------------------------------------------------

\* The caller loads book.yaml, and takes prices and the date.
Begin(prices) ==
    /\ stage \notin {"given", "fresh"}
    /\ given' = [book |-> book, prices |-> prices, as_of |-> today]
    /\ stage' = "given"
    /\ age' = 0
    /\ report' = NoReport
    /\ UNCHANGED vars

\* days_stale, for an as_of the check was given.
days_stale == given.as_of - lastImport

\* Slip: the limit is off by one.
assert_almost_fresh ==
    /\ stage = "given"
    /\ stage' = IF lastImport = None THEN "BookNeverImported"
                ELSE IF days_stale > MaxStaleDays + 1 THEN "BookStale"
                ELSE "fresh"
    /\ age' = IF stage' = "fresh" THEN days_stale ELSE age
    /\ UNCHANGED <<vars, given, report>>

\* assert_fresh returns the age, or refuses.
assert_fresh ==
    /\ stage = "given"
    /\ stage' = IF lastImport = None THEN "BookNeverImported"
                ELSE IF days_stale > MaxStaleDays THEN "BookStale"
                ELSE "fresh"
    /\ age' = IF stage' = "fresh" THEN days_stale ELSE age
    /\ UNCHANGED <<vars, given, report>>

\* The SELECT, and the loop over its rows.
Evaluate ==
    /\ stage = "fresh"
    /\ ~Raises
    /\ report' =
          [decisions |-> [k \in Judged(positions) |->
                            X!evaluate(StateOf(k), rules_for(given.book[k]))],
           unmanaged |-> [k \in RowsToCheck(positions) \ Judged(positions) |->
                            WhyNot(k, positions[k])],
           upto      |-> Len(history)]
    /\ stage' = "reported"
    /\ UNCHANGED <<vars, given, age>>

\* RuleConfigError or BadPositionState leaves check(): there is no report.
Raise ==
    /\ stage = "fresh"
    /\ Raises
    /\ stage' = "raised"
    /\ UNCHANGED <<vars, given, age, report>>

HealthCheck ==
    \/ \E prices \in Quotes : Begin(prices)
    \/ assert_fresh
    \/ Evaluate
    \/ Raise

HealthNext ==
    \/ HealthCheck
    \/ Next /\ UNCHANGED healthVars

HealthSpec == HealthInit /\ [][HealthNext]_<<vars, healthVars>>

-----------------------------------------------------------------------------

Reported == stage = "reported"

\* The import whose positions the report was computed from.
ReportedImport == history[report.upto]

\* A report is never computed from rows older than it says, and never from rows
\* past the limit, although its age and its rows are read at different moments
\* and imports commit in between (health.py 8-13, "A stale book produces a
\* REFUSAL").
ReportIsAsFreshAsItSays ==
    Reported => /\ report.upto > 0
                /\ given.as_of - ReportedImport.day <= age
                /\ age <= MaxStaleDays

\* The report answers for exactly the positions of one custodian export, the last
\* one committed when it read the book: none left out, none twice, none that the
\* custodian no longer holds (health.py 171-200, ingest.py 99-204).
ReportAnswersForTheExport ==
    Reported =>
        /\ DOMAIN report.decisions \union DOMAIN report.unmanaged
             = KeysOf(ReportedImport.csv)
        /\ DOMAIN report.decisions \cap DOMAIN report.unmanaged = {}

\* A position that the custodian holds, that is priced and has a cost basis, and
\* whose entry has a stop that the price has reached, is reported as an EXIT on
\* that stop, whatever its stored status says, whichever imports and edits of
\* book.yaml went before, and whatever other rules fire (health.py 79-212,
\* exit_rules.py 310-344).
CrossedStopIsReported ==
    Reported =>
        \A k \in KeysOf(ReportedImport.csv) \cap DOMAIN given.book :
            LET row == by_key(ReportedImport.csv, k)
                stop == given.book[k].stop
            IN  /\ stop # None
                /\ TickerOf[k] \in DOMAIN given.prices
                /\ given.prices[TickerOf[k]] <= stop
                /\ row.qty # 0 /\ row.cost # None
                => /\ k \in DOMAIN report.decisions
                   /\ report.decisions[k].triggered = "fixed_stop"
=============================================================================
