# Six Eyes: a verification project

TLA+ models of the desk in `src/desk`, `src/adapters` and `src/engine/committee`, and of
the engine it vendors in `src/engine/tradingagents` and `src/engine/cli`, their
model-checking runs, and machine-checked proofs. `PROJECT.json` maps every definition to
the lines it models and lists runs, findings, hazards and theorems.

## The system

Six Eyes is a research desk run from cron: it imports a custodian's CSV into a
SQLite book, checks the book against exit rules, and asks a committee of LLM agents
for a verdict. It places no orders. The engine it vendors, TradingAgents, is a program of
its own: a graph of agents that debate one ticker on one date, with data tools, a
decision log, checkpoints and a command line.

| Part | State it keeps | Operations | What makes it correct |
|---|---|---|---|
| Spend ledger (`desk/spend.py`) | an append-only JSONL file | `record`, `rows`, totals | a returned `record` is never lost or counted twice, however processes die |
| LLM gateway (`desk/llm.py`) | none: ledger and clock | `complete` | no day passes the ceiling by more than what is in flight |
| LangChain bridge (`desk/llm_bridge.py`) | none | message conversion, `_generate` | every call of the graph goes through the gateway |
| Book import (`desk/ingest.py`, `db.py`, `book.py`, `adapters/canonical.py`) | tables `positions`, `audit`, `book_meta`; `imports/` | commit, dry run | a stop is never clobbered; the book is one export; imports can be replayed |
| Exit rules (`desk/exit_rules.py`) | none | `evaluate` | one reason by precedence; an exit does not heal by itself |
| Book health (`desk/health.py`) | none | `check` | refuses a stale book, answers for every position, reports a crossed stop |
| Committee (`engine/committee/graph.py`), run tables (`desk/runs.py`), gate (`desk/quality_gate.py`) | graph state, `runs`, `agent_outputs` | one node per agent, `start_run`, `finish_run` | debate sees the sound reports; what is stored was paid for; every run ends |
| Market data (`desk/data.py`), cache (`desk/cache.py`), providers | TTL cache on disk, liveness memo | one method per metric | provenance visible, fresh enough, not of the future, only live tickers |
| First-party analysts (`engine/tradingagents/agents/analysts/{_desk_base,estimates,flow,macro,options}_analyst.py`) | none | `analyse` | every number carries its source and its degraded flag |
| Verdict, evaluation metrics (`desk/verdict.py`, `eval_metrics.py`) | none | validation, statistics | values in range, no look-ahead |
| Debate graph (`engine/tradingagents/graph/{setup,conditional_logic,propagation,analyst_execution}.py`, `agents/`) | `AgentState` | one node per agent, routing | everyone speaks in turn, as often as configured; every run ends |
| Trading graph, checkpoints (`graph/trading_graph.py`, `checkpointer.py`) | SQLite checkpoints, state files | `propagate`, resume, clear | a resumed run is a run of the same meeting |
| Memory log (`agents/utils/memory.py`) | one markdown file | store, resolve in a batch, rotate | no decision without its state; one outcome each; pending ones stay |
| Data tools (`dataflows/`) | the process's configuration, one price file a day | `route_to_vendor`, a function per vendor and tool | nothing of the future, nothing stale, no outage taken for a finding, only chosen vendors |
| Command line (`engine/cli`), LLM clients (`llm_clients/`) | the panel | questions, `run_analysis`, report | what is shown is true; a key goes to its platform |
| Vendoring script (`scripts/vendor_engine.py`) | | copies and patches | |

How they interact: a committee node calls the market data service, then the gateway;
the gateway reads and appends the ledger; the node's output goes to `agent_outputs`
under a lock; `finish_run` copies the run's total from the ledger to `runs`. The
health check reads the tables the import writes and the `book.yaml` the operator
edits. Nodes of one superstep are threads that share the gateway, the ledger, the
database connection and the liveness memo; cron jobs are separate processes that share
the files. Nothing but SQLite's transactions and the lock of `desk/runs.py` orders
any of this, and that is where the hard behaviour is: the check and the charge of the
budget are separate steps, an import reads what it later overwrites, the age of the
book and its rows are read apart, midnight falls between two looks at the clock, and
a process may die between two stores.

In the engine one node runs at a time, and only the tool calls of one message run in
parallel; what is hard there is what outlives a run. `propagate` resolves old decisions,
runs the graph, writes a state file, appends the decision and clears its checkpoint, each
a write of its own; a checkpoint is found again by ticker, date and shape of the graph;
the price file of a day is written in place and shared by everyone; the configuration is
the process's and is merged into. The command line streams the same graph without
`propagate` and works out from its state who is at work.

## Modules

| Module | Models | Extends or instantiates |
|---|---|---|
| `Budget` | abstract: per-day totals that grow, within a bound | |
| `LLMGateway` | `complete()` by many threads, clock, crash | `Budget` as refined specification |
| `SpendFile` | the bytes of the ledger, and reading them back; how often something has died | |
| `SpendLedger` | several writers, deaths, power failures, fsync | `SpendFile` |
| `MeteredDesk` | the gateway on a real ledger file, with the provider's invoice | `SpendFile`, `LLMGateway` (refinement: totals read from the file, while none is torn) |
| `Ingest` | imports, overlapping and dying, with the write-ahead log | |
| `ExitRules` | rule validation, predicates, `evaluate`, as operators | |
| `PositionWatch` | one position from day to day under its rules | `ExitRules` |
| `Health` | the health check beside imports and edits | `Ingest`, `ExitRules` |
| `Committee` | supersteps of nodes over the gateway, persistence | `LLMGateway` |
| `MarketData` | guards, cache, provider chain, memo | |
| `DebateGraph` | the engine's graph: nodes, routing, checkpoints, resuming | |
| `Agenda` | abstract: a meeting whose topic fixes who speaks when | |
| `MemoryLog` | the decision log's operations | `Subsequences` |
| `TradingGraph` | `propagate`, its files, crashes and days | `DebateGraph`, `MemoryLog`; `Agenda` as refined specification |
| `Display` | what the panel makes of the graph's state | `DebateGraph` |
| `Launch` | the questions, the client's address and key | `DebateGraph` |
| `Cli` | a session of the command line beside callers of `propagate` | `TradingGraph`, `Display`, `Launch` |
| `Vendors` | what each vendor function makes of a reply, as operators | |
| `Dataflows` | routing, the price file, parallel calls, configuration | `Vendors`, `Subsequences` |
| `Subsequences` | what a loop leaves of a list when it skips some items | |
| `LLMGateway_proofs`, `Committee_proofs`, `MarketData_proofs`, `PositionWatch_proofs`, `Dataflows_proofs` | theorems about the module they are named for | that module, `TLAPS` |
| `Spend_proofs` | theorems about the ledger file and the desk over it | `SpendLedger`, `MeteredDesk`, `TLAPS` |
| `Health_proofs` | theorems about the imports and the check beside them | `Health` (and so `Ingest`, `ExitRules`), `TLAPS` |
| `Engine_proofs` | theorems about the engine and its command line | `Cli` (and so `DebateGraph`, `MemoryLog`, `TradingGraph`, `Agenda`, `Display`, `Launch`), `TLAPS` |
| `MC...` | constant values for TLC | |

An operator marked "Slip:" stands before the definition it varies: it is a plausible
mistake in that place, named in `PROJECT.json` under `mutants`, and no specification
uses it. Each property is broken by one of them.

### Correspondence with the code

**Gateway.** `complete()` has five points where another thread can run: after the tier
lookup and the clock (`Enter`), at the ledger read and comparison (`Refuse`, `Admit`),
at the provider call (`ProviderFails`), at its answer, the pricing and the stamp
(`Answer`), and at the append (`Record`). `stamp` is the day a caller last read, which is
why a call admitted before midnight can be charged to the next day. Money is integer
micro-dollars, since both rows and totals are rounded to six places. `Crash` empties
all threads and writes nothing. Whether an unpriced answer is recorded as 0 is part of
the range of prices here and is told apart in `MeteredDesk`, where `billed` is what the
provider charges and the code never sees.

**Ledger.** A cell of the file is a whole JSON text, the beginning of one, or a newline.
A write is one step for a live process (one `write(2)` of at most 4096 bytes in append
mode); a process that dies inside it leaves a first part. A power failure keeps the
synced cells and any first part of the others. No code repairs the file. A total of the
file is the number of micro-dollars its readable rows hold, a set that proofs can reason
about; `TotalIsTheSum` in `MCMeteredDesk` compares it with the sum the code computes on
every file of up to four cells.

**Import.** `Load`, `Reconcile`, `Archive`, `Commit` or `RollBack`, and `Close` are the
statements of `ingest()` between which another process can act; the transaction is one
step, as SQLite makes it. `work` is what the import has read and may be stale.
`audited` keeps of the audit table only the last quantity it states for a key, `overlay`
of a position's row only which entry of `book.yaml` its stop, target and thesis came
from, and cost basis stands for market value too. `mainFile` is the database without
its log, which is all that a dry run copies; what a dry run prints has no property of
its own (see "Where code and words part").

**Exit rules.** Prices are integers and percentages hundredths, so comparisons of
fractions are exact; the code compares floating-point quotients, which can differ in
the last place at exact equality. The kinds that fire are a set, of which the strongest in
`PRECEDENCE` is `triggered` and the others are `also_fired`.

**Health.** The three reads of a check are steps of their own, `Begin` (the caller's
`book.yaml` and prices), `assert_fresh` and `Evaluate`; all actions of `Ingest` may come
between them. `Raise` is the exception that loses the whole report.

**Committee.** The runner (langgraph, external) starts the nodes of a superstep as
threads, waits for them, and goes on; after a failure it starts no further node, waits
for those under way and raises. `InGateway` runs a node through the gateway's own
actions, `Return` is `on_output` and the state update, `Break` is an exception outside
the gateway, before or after the call. Prose is sound or not. `Start` and `Finish` are
called by the program around the graph as `tests/test_committee_graph.py` has it.

**Market data.** A read goes through the look-ahead guard (`Read`, `LookAhead`), the
liveness memo (`Resolve`, `CheckLive`), the cache (`LookUp`), the provider chain
(`Answer`, `ProviderFails`) and the store (`Store`); reading `is_live` for the memo takes
the same path. An answer is identified by the tick it was seen at. Reading the memo
and filling it are apart, as are the answer and its storing, between which up to `MaxDelay`
ticks may pass and a midnight with them.

**Debate graph.** `at` is the node that runs next, `st` what the nodes have written of
their places in the state: who has said how much, which reports have text, who spoke
last. One action per node; a node and the edge out of it are one step, since langgraph
runs one of them per superstep and the routers are pure. `steps` counts towards
`max_recur_limit`. With a checkpointer the state is saved with every node under the
thread id of `checkpointer.py`. Two things langgraph decides are left open: `Abandon`
may come at any node (an exception, the recursion limit, the end of the process), and an
invocation that finds a saved state may go on from it or start over on top of it. A
channel the initial state does not name keeps its saved value in the second case
(`InitialState(old)`).

**Trading graph and memory log.** `Propagate` resolves the ticker's pending decisions (any
subset of those whose price can be had: the rest stays pending) and starts the graph; then
`LogState`, `Store` and `ClearAndReturn` are the writes in the code's order, and `Crash` may
come between any two. `log` is the markdown file as the list of its tags; an entry's `days`
is 0 while it is pending. `BatchUpdateWithOutcomes` is the whole rewrite, rotation included;
`Items` are the entries that rotation leaves, as they are the vendors that `route_to_vendor`
leaves of a chain. `Hold` is the number of days a return is taken over, 5 in the code.

**Command line.** `Cli` puts a session beside callers of `propagate`. `Launch` has the
questions and what the answers make of the client: addresses and keys are named by who
owns them. `Display` recomputes the panel from the graph's state after every node, one
chunk of the stream, as `run_analysis` does; `Finish` marks everything completed,
`SaveReport` writes the report's tree, which must have the
sections the last panel has words for. `run_analysis` streams the graph compiled without
a checkpointer, so its jobs have `checkpoint |-> FALSE` whatever was asked.

**Data tools.** A reply of a service is a kind (rows, rate limit, failure, missing key,
an odd body) and the days of its rows, of which one may be missing (`Undated`) or no date
(`Illegible`); an outcome of a vendor function is a text with the days of its figures, or
an exception as `errors.py` tells them apart. A row without a legible day that is shown
counts as of today, the latest it can be of. `Unset` is the date of a statement tool called
without one, its default: then nothing is cut (`Uncut`). `Route` is the body
of `route_to_vendor`'s loop, `GiveUp` what comes after it. The price file of a day is
absent, void (opened and not written: `read_csv` raises), or holds rows, a first part of
them while it is being written or after a crash. Asking a service, reading the file,
opening it and filling it are steps of their own, of threads that run in parallel.
`Snapshot` is the one tool that reads the prices without the router. `frame` holds the
ages of the rows a frame was last accepted with. `chosen`, `answered` and `unread` are
history: which vendors some graph was configured with, whether a service or a file has
answered a call, and which rows of its last reply had no legible day. `NoLookAhead` holds of
every tool that is asked about a day, except where the code itself gives up the cut
(`CutIsGivenUp`), and only for the very reply that made it do so.

## Runs

| Run | Asks | Bounds |
|---|---|---|
| `gateway` | ceiling with threads, midnight, crash; refinement of `Budget` | 3 threads of 2 runs + 1 unregistered, ceiling 2, price 0..2, 2 days |
| `gateway_parallel` (violation) | "cannot overshoot repeatedly", with two threads | 2 threads, 1 day |
| `ledger` | what survives deaths and power failures | 2 writers, 4 calls, 2 crashes |
| `desk` | ledger against invoice; totals read from the file implement the gateway until an append is torn | 2 threads + 1 unregistered, ceiling 1, 2 days, 2 crashes, 1 torn append, 1 unpriced answer |
| `book` | imports (exactness, stops, audit, archive) and the health check beside them (freshness, completeness, crossed stops) | 2 keys, 3 exports, 3 books, 1 importer, 2 imports, 2 days |
| `watch` | decisions from day to day | 12 rules, 2 at a time, 4 prices, 3 days |
| `committee` | merge, gate, ledger before output, DONE, overshoot; every run ends | 1 run: 3 analysts (1 silent), 2 debaters, a chain of 2; ceiling 4, price 0..2, 2 days |
| `market_data` | provenance, freshness, memo | 2 threads, 4 ticks over 2 days, TTLs of 1 and 2, a delay of 1, a chain of 2 |
| `engine` | everyone is heard, the agenda as abstract specification, the log and its outcomes, every run ends | 1 ticker typed in 2 ways, 3 shapes (rounds 0 and 1), 9 supersteps, a log of 1 outcome, the trade date and the day after, 2 faults |
| `cli` | the panel is true and only advances; keys go to their platform | every provider and environment answer; 3 shapes of up to 3 analysts and 2 rounds, silent analysts, 15 supersteps, 1 fault |
| `cli_log` (violation) | "each completed run appends its decision" | as `cli` |
| `vendors` | look-ahead, stale prices, outages, chosen vendors; every call ends | every tool; 2 threads, window of 2 days, 1 retry, 3 series of rows, 2 configurations, 3 days |

Why these bounds are enough to meet the interesting cases: two threads suffice for any
check-then-act race and the third shows the overshoot is per thread; ceilings are small
enough to be reached by the second call and prices include one that jumps past
them; two days hold one midnight. Two imports open a position, change it, drop it or
find it again in its new state, and the exports of `book` differ in quantity alone, in
the cost that is missing, and in what they hold; its quotes cross a stop, miss it, or
lack a ticker; its books have an entry that fails the foreign key and a rule that cannot
be built. Two rules hold every conflict of precedence and prices lie at, above and below
each threshold; three analysts hold a superstep with one under way, one failed and one
returned. Two runs on one ledger are in `gateway`, where a run is what its threads share.
In `market_data` a day has two ticks, the short TTL is one and the long one two, so that an
entry expires within its day, and an answer given before midnight and stored after it lives
longer than one stored at once; in the code the short TTL is 15 minutes and the long one 30
days. `VolatileDataExpires` fails there if the second bound is asked of every answer.

In `engine` the shapes differ in rounds alone, so a checkpoint of one must not be taken
for the other's; nine supersteps end a run with tools that goes round twice and let the
others reach their end; one ticker typed in two ways shares checkpoints and not
the log; a log of one outcome rotates at the second. Two faults are a crash and the crash
of the rerun, or a checkpoint that was not cleared and one of these. In `cli` three
analysts are needed for one who is silent between two who are not; a session ends before
the next begins, so one is enough. In `vendors` two threads share a file while one of
them fills it; the series hold a gap long enough to be stale, the days after the one
asked for, a row without a date and one whose date cannot be read, so that every path that
gives up the cut is taken; statement tools are called with and without a date; three days hold a backtest two days back with a row in
between; a retry, a window and a chain of two vendors all run out.

One constant switches off a disagreement that is listed below, so that the rest can be
checked: `SameSecond` lets two archives fall in one second (FALSE in `book`; with TRUE
`ArchiveReplaysHistory` fails). With two importers
`BookIsLastImport` fails, and with two rows of one key `AuditStatesTheQuantity`.

Deadlock checking is off where the bounds (imports, crashes, calls) or the end
of all runs let the system stop. `desk` and `market_data` use the symmetry of their
threads, which is sound for what they check: invariants and a property of steps.

**Fairness.** Three modules have it, each on what the program's own threads do. `Committee`:
weak fairness of each node's step (a thread that can go on does, and a provider's call
returns or fails, since litellm's calls time out) and of the runner. `TradingGraph`: weak
fairness of the step `propagate` is at, one thread that runs node after node, each of
which returns or raises. `Dataflows`: weak fairness of the threads' own work, since
requests are answered or time out. Starting a run, exceptions, crashes, midnights and
whoever calls the tools are not fair. `EveryRunEnds` shows that no superstep waits for a
node that was never started, `RunEnds` that nothing but the recursion limit is needed to
end an analyst who keeps calling tools, `CallsEnd` that retries, the days of a window and
the chain of vendors all run out.

### Where code and words part

Two violation runs each refute a sentence of the repository, quoted in `PROJECT.json`:
parallel calls overshoot the ceiling by more than one call (`gateway_parallel`), and a run
of the command line ends without an entry in the decision log (`cli_log`).

Others were met while modelling. They are in the models, or beside them where the last
column says so; most stand among the hazards.

| Where | What the code does | Model |
|---|---|---|
| `desk/spend.py:99` | a torn line swallows the row behind it too: two calls, not one | `AckedLossBounded` states the bound that holds |
| `desk/ingest.py:247` | a dry run copies the main file without the log, and may not see what was committed | `mainFile` |
| `desk/ingest.py:157` | two lots of one key are audited with a quantity that is not the one stored | `QtyLines` |
| `desk/ingest.py:258` | two archives of a file in one second overwrite each other | `SameSecond` |
| `desk/ingest.py:257` | overlapping imports can mix two exports | a second importer |
| `desk/ingest.py:185` | a position that comes back keeps its first `opened_at` and its time stop counts the days it was not held | `UpdatedRow` |
| `desk/ingest.py:261` | the age of the book is that of the import, not of the export; days are local in one column and UTC in others | `lastImport`; not the time zones |
| `desk/health.py:177` | an entry with a target and no stop is managed, and reported HOLD | `Evaluate` |
| `desk/exit_rules.py:148` | a take-profit of 100% or more is refused as one that would never fire | `ExitRules` |
| `desk/cache.py:132` | an answer that is stored after midnight is kept for a month, where the module says that today's expire in minutes (`cache.py:10`) | `MaxDelay`; `VolatileDataExpires` states the bound that holds |
| `desk/providers/yfinance_provider.py:152` | estimates and quotes are today's, whatever `as_of` | `MarketData` |
| `desk/runs.py:38` | run ids start again with a new database, while the ledger goes on | not modelled |
| `analysts/macro_analyst.py:60` | one metric drops its sources' degraded flags | not modelled |
| `graph/conditional_logic.py:55` | with no rounds one side speaks once and the other never | `HeardAll` |
| `graph/trading_graph.py:423` | a rerun of a day whose outcome is known is shown that outcome | not modelled: texts |
| `graph/trading_graph.py:469` | the log is keyed by the ticker as it was typed, checkpoints by upper case | `Canonical` |
| `agents/utils/memory.py:172` | a second process's entry is lost when the file is replaced | one process only |
| `engine/README.md:256` | `--checkpoint` changes nothing about a run of the command line | `JobOf` |
| `cli/utils.py:355` | GLM set in the environment talks to the mainland's address with the international key | `KeyFitsEndpoint` speaks of the menu |
| `cli/main.py:665` | one of the two model variables skips both questions | not modelled: models |
| `dataflows/stockstats_utils.py:156` | an empty price file raises, where the comment calls it a miss | `Void` |
| `dataflows/stockstats_utils.py:195` | statements are cut by the end of their fiscal period, not by the day they were published | `UpTo`, by that day |
| `dataflows/alpha_vantage_common.py:148` | prices in which a date cannot be read are returned whole, later days with them | `AlphaVantagePrices`, `CutIsGivenUp` |
| `dataflows/stockstats_utils.py:202`, `alpha_vantage_fundamentals.py:13` | without a date, the tools' default (`fundamental_data_tools.py:29`), statements are not cut | `Unset` |
| `dataflows/alpha_vantage_fundamentals.py:25` | a report without a day is kept, whatever day it is of: the empty text comes before every date | `ReportsUpTo`, `CutIsGivenUp` |
| `dataflows/y_finance.py:276` | fundamentals, insider transactions and open markets are those of now, whatever the date | `Timeless` |

## Proofs

Checked by TLAPS for every value of the constants, from the named assumptions on the
constants in each module and, where a theorem has an ASSUME of its own, from that. Every
invariant and every property of steps that a passing run checks is also a theorem.

*LLMGateway.* `SpendIsBounded` is not inductive: a caller in flight can be charged to a
day without another look at its total. `CommittedIsBounded` adds to each day's spend
`MaxCost` for every call that may still be charged to it (`Chargeable`), says that no day
has spend before it comes and that only registered callers are in flight. Admitting a
caller needs `spent < Ceiling`, so the N calls that fit at most are within the bound;
recording moves one share from committed to spent; midnight only removes days from
those that can be charged. From this: `SpendBounded`, `SequentialOvershoot` (for at most
one registered caller), `ExhaustionIsFinal`, and `GatewayImplementsBudget`.

*SpendLedger.* `Inv` says where rows can be: a process writes its own calls only, each
once, and a row that is on the disk has its newline behind it (`OwnCalls`, `WrittenOnce`,
`Landed`). It gives `NothingInvented` and `AckedRowsStay`. `AckedLossBounded` needs a count of
damage: a place where a text is not followed by a newline (`OpenEnds`) hides one row at
most, an append closes no such place and opens none, and a crash, which keeps a first part
of the file, opens one at most. So there are no more of them than there were crashes
(`EndsBounded`), and every row that cannot be read belongs to one of its own.

*MeteredDesk.* Billing comes before recording, so neither side of `InvoiceIsBounded` can be
followed alone. `DeskInv` holds the books of both: what was billed for a day is what is read
back, what is owed by calls that have been answered, and what failures explain (`Explained`),
where the row that the next append would spoil is counted as lost already (`Exposed`);
and what may still be billed is reserved in the day's bound (`Reserved`). An open end comes
from a torn append only (`EndsTorn`). The gateway reads a total that is too small by the same
explained amount, which is why it passes its bound by that much and no more. From it
`InvoiceStaysBounded`, `LedgerStaysHonest`, and `DeskImplementsGateway`: while nothing was torn,
the totals read from the file change as the gateway's do.

*Ingest.* `TypeCorrect` needs that a key's last row is a row of the export and that what an
import takes for existing is a table, kept in the invariant while an import is under way.
`StopsSurvive` follows step by step: only `Commit` changes `positions`, an inserted key is
new (`Insertable`), and an update or a close leaves the other columns. It holds for any
number of overlapping importers. The others assume that imports do not overlap, which
two importers show to be needed. `SerialImportsAreExact`: what an import reconciled against
is still what is there when it commits (the strengthening, `SInv`), and the result
describes the export. `AuditKeepsUp`, for exports of one row a key: a diff that is computed
on the table it is applied to writes the line the table needs. `ArchiveReplaysTheBook`, if no
two archives share a name: a replay of the history reads the first files of `imports/`,
and while an import is between archive and commit the last file is its own and no part of
the replay, so that a commit may add it and a death may leave it there.

*Health.* `ReportsAreFresh` is about importers that overlap in any way: between the two reads of a
check the history only grows, so the import whose age was taken is among those the rows
may be of (`AgeWithin`, kept by `CheckInv`). `ReportsAnswerForTheExport` and
`CrossedStopsAreReported` add `SInv`, and with it that imports do not overlap: at the
moment of the second read the rows are one export's, and a report does not change
afterwards. A crossed stop is reported because it outranks whatever else fires.
`ImportsAreUndisturbed`: every step of `Health` is a step of `Ingest` or leaves its variables.

*PositionWatch.* A decision is written as a function of the set of kinds that fire and of the
set that alert; each says "some rule of the book hits", which knows no order
(`OrderNeverMatters`). `ExitsDoNotHeal` compares these sets along a step: a day, a rule or a
deeper fall only adds to what fires, and `WatchInv` (the book holds accepted rules, quotes
are prices) excludes the rules that `_validate` refuses.

*Committee.* The invariant `CommitteeInv` says of every run and the superstep it is in whose
outputs are stored (`Stored`: all of the supersteps before, those of this one that have
returned), which reports are there and that the gate has graded each as it is (`Graded`),
that every call which came to its end, and so every stored output, has its row in the ledger
(`Paid`), and that a DONE run has ended, with every output and its total (`Closed`). The
names of the nodes tell supersteps apart (`NamesAssumption`). `DebateIsInformed`,
`OutputsArePaidFor` and `DoneRunsAreWhole` follow from its parts. `OvershootIsOneSuperstep` is
sharper than the gateway's own bound, which charges every agent: the calls in flight are
nodes of the superstep each run is in (`AllPlaced`), so they are no more than runs times
width (`FlightsAreFew`), and the gateway's accounting goes through with that number
(`Accounted`). `CommitteeCallsTheGateway`: the committee's steps are the gateway's or leave it alone.

*MarketData.* `LiveInv` follows a read: past the guard its ticker is in the memo for its day,
and the memo never forgets within a process. From it `OnlyLiveTickersAreEverQuoted`.
`VolatileDataAlwaysExpires` assumes nothing of the delay. `EntryFits` says of a cached answer
that was stored within its day that it has the short TTL, and of one that a midnight may
have overtaken that it has the long one at most, counted from a tick no more than `MaxDelay`
after it was seen; `AgesFit` carries this to what a read holds. `SourcesFit` says how
far along its chain a read is, and that only the first provider's answers are stored or
kept: `FallbacksAreVisible`.

*Dataflows.* One invariant for a call at every place it can be at: the rows it has collected
are not after its date (`NotLater`; once it is done, except where the cut was given up), its frame is fresh or empty, and it has noted that there is no data,
or holds figures, only after a service or a file has answered (`CallsAreSound`). Nothing is
assumed of the file, whoever filled it: the cut and the check come after the reading.
`AnswersAreChosen` is about the configuration, which other threads merge into: what a call has
left of its chain was named by a configuration of the process, now or when the chain was
made, and what was named once stays in the record of it (`ChosenInv`).

*DebateGraph.* `EveryoneIsHeard` speaks of the end only; `Place` says for every node what has
been said when it is next, and the invariant says so of the run under way and of every
saved state, under the configuration in its thread's id. A resumed run satisfies it because
the id holds the rounds. For the refinement of `Agenda` the whole agenda is written as five
parts, the panel, the debate, a judgement and a trade, the discussion and its judgement
(`HasFive`), and `MeetingInv` says that whoever is next has the seat the agenda gives him after what
has been said (`Seated`), also in a saved state, and that a checkpoint is of the run that
writes it. `GraphImplementsAgenda`: a node speaks at the next place of its own part or opens
the next part, and a resumed run goes on at its saved place.

*TradingGraph and MemoryLog.* Every step of `propagate` is a step of `GraphSpec` or leaves its
variables (`PropagateRunsTheGraph`), so `EveryoneIsHeard` holds of its runs too. `FilesInv`: every
entry of the log has its state file, is pending at most once, and so does the decision that is
about to be stored. It rests on two facts about a rewrite of the log: each pending entry is left
alone or given its outcome (`Decides`), and a rotation drops resolved entries only, and only from a
full log (`Rotates`). `LogStaysBacked` and `OutcomesStayFinal` follow.

*The command line.* Its steps are steps of `GraphSpec` or leave its variables
(`CommandLineRunsTheGraph`). `Ahead` says what is still to come when a node is next, `PanelFits` that
nothing the panel shows as done is among it, `ReportFits` that the last panel and the saved
report go by the same final state, and `Grows` that a node's work is only ever added
to the state: `ProgressStaysTruthful`, `ProgressNeverGoesBack`. `KeysFitEndpoints` goes through the
menu's answers, since a session's client is one of them.

Only model-checked: the three liveness properties under fairness, `EveryRunEnds`, `RunEnds`
and `CallsEnd`, which are out of the prover's reach (as is ENABLED), and the two violation
runs. The definitions the proofs use are free of recursion over data: chains and logs are read by
place (`Subsequences`), totals by counting, since induction over a sequence's items cannot be
done with the provers at hand.

## Not modelled

- *Texts*: formatting, logging, rendering, prompts, what agents write, `process_signal`, the
  parsing of ratings, reflections and the past context shown to agents. A judge's text is
  taken to have words; an analyst's may be empty.
- *The desk*: the LangChain bridge (it converts messages and forwards), first-party
  analysts, verdict schema, evaluation metrics (pure functions, none of which keeps state),
  parsing of the CSV and of `book.yaml` (their results are inputs), the grading of a report;
  `by_agent` and `by_model` (the same rows grouped for display); the tables `tickets` and
  `orders`, which nothing writes yet; `record_verdict`, which only tests call; `check()`'s
  `high_water` (`health.py:161`), which no program passes, so that the mark is absent; a
  provider that raises `TickerNotLive` past its chain (`data.py:253`), which none does; local time
  against UTC; a CSV that changes between parsing and archiving; a ledger that outlives
  its database.
- *The engine*: which models and efforts are chosen, payload adaptations and structured
  output of the clients; `reddit` and `stocktwits`, to which no route leads and which answer
  with what is there now; limits on counts, titles, duplicates and layout of data tools; the
  sleeps between retries; price files of past days, which stay on the disk and are not read
  again; a file two writers leave with a hole (first parts only); a date that is not
  `yyyy-mm-dd` (the text comparison of `alpha_vantage_fundamentals.py:25` would keep
  everything for a word); news of Alpha Vantage outside the window it was asked for, which
  is passed on as it comes; days before the first; a
  second process on the memory log; `update_with_outcome`, which nothing calls.
- *The vendoring script*, a build tool.

## Plan

Done: the gateway and its ledger, the import, exit rules and health, the committee, market
data; the engine's graph, checkpoints and log, its command line and data tools; the
theorems above, one for every safety invariant and every action property of the passing runs.

Left, in the order of what they would add:

1. `Analysts` over `MarketData`: metrics with their degraded flags, and `QualityGate` and
   `Canonical` (number and header parsing) as functions called by `Committee` and `Ingest`.
2. `Lifetimes`: run ids and the ledger across a new database; two processes on the memory log.
3. `Verdict` and `EvalMetrics` as functions against reference definitions.
4. Abstract specifications: a book that changes by whole exports only (what `Ingest` with
   one importer implements), and a run that is none, open, or closed whole.
