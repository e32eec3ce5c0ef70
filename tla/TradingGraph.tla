----------------------------- MODULE TradingGraph ---------------------------
(***************************************************************************)
(* TradingAgentsGraph.propagate, src/engine/tradingagents/graph/           *)
(* trading_graph.py: the debate graph between the two files that outlive a *)
(* run.  Before the graph runs, the outcomes of the ticker's pending       *)
(* decisions are written to the decision log; after it, the final state is *)
(* written out, the decision is appended to the log and the checkpoint is  *)
(* cleared, in this order, each a write of its own.  The process may die   *)
(* between any two of them.                                                *)
(***************************************************************************)
EXTENDS DebateGraph, MemoryLog

CONSTANTS
    Bookings,       \* the runs that are asked for
    Hold,           \* holding_days of _fetch_returns
    LastDay,        \* bound: the days of the model
    MaxFaults       \* bound: how often a process dies, a node raises, a thread is not cleared

ASSUME BookingsAssumption == Bookings \subseteq Jobs /\ Dates \subseteq Nat
ASSUME HoldAssumption == Hold \in Nat \ {0}

VARIABLES
    today,
    pc,             \* where propagate is: idle, running, logged, stored
    stateLogs,      \* full_states_log_<date>.json, by ticker and date
    faults          \* how often it has happened (for the bound)

engineVars == <<job, at, st, steps, saved, log, today, pc, stateLogs, faults>>

(***************************************************************************)
(* Outcomes of earlier decisions.  A return is known once there is a day   *)
(* after the trade date, and is then taken over the days there are, Hold   *)
(* at the most; a price that cannot be had leaves the entry pending.       *)
(***************************************************************************)
HoldingDays(date) == IF today - date < Hold THEN today - date ELSE Hold

ReturnsOf(ticker) == {d \in Dates : HasPending(d, ticker) /\ d < today}

ResolvePendingEntries(ticker) ==
    \E dates \in SUBSET ReturnsOf(ticker) :
        BatchUpdateWithOutcomes(ticker, [d \in dates |-> HoldingDays(d)])

(***************************************************************************)
(* propagate.                                                              *)
(***************************************************************************)
Propagate(j) ==
    /\ pc = "idle"
    /\ ResolvePendingEntries(j.ticker)
    /\ Invoke(j)
    /\ pc' = "running"
    /\ UNCHANGED <<today, stateLogs, faults>>

PropagateRaises(j) ==   \* after the outcomes are written, before the graph runs
    /\ pc = "idle"
    /\ ResolvePendingEntries(j.ticker)
    /\ UNCHANGED <<job, at, st, steps, saved, today, pc, stateLogs, faults>>

RunStep == pc = "running" /\ Node /\ UNCHANGED <<log, today, pc, stateLogs, faults>>

RecursionError == pc = "running" /\ OutOfSteps /\ pc' = "idle" /\ UNCHANGED <<log, today, stateLogs, faults>>

LogState ==
    /\ pc = "running" /\ at = END
    /\ stateLogs' = stateLogs \union {<<job.ticker, job.date>>}
    /\ pc' = "logged"
    /\ UNCHANGED <<job, at, st, steps, saved, log, today, faults>>

Store ==
    /\ pc = "logged"
    /\ StoreDecision(job.date, job.ticker)
    /\ pc' = "stored"
    /\ UNCHANGED <<job, at, st, steps, saved, today, stateLogs, faults>>

Fault == faults < MaxFaults /\ faults' = faults + 1

\* clear_checkpoint swallows what sqlite raises: the thread may stay.
ClearAndReturn ==
    /\ pc = "stored"
    /\ Return
    /\ \/ job.checkpoint /\ ClearThread(job) /\ UNCHANGED faults
       \/ job.checkpoint /\ saved' = saved /\ Fault
       \/ ~job.checkpoint /\ saved' = saved /\ UNCHANGED faults
    /\ pc' = "idle"
    /\ UNCHANGED <<log, today, stateLogs>>

Crash ==
    /\ pc # "idle" /\ Fault
    /\ Abandon
    /\ pc' = "idle"
    /\ UNCHANGED <<log, today, stateLogs>>

ClearCheckpoints ==     \* analyze --clear-checkpoints
    /\ pc = "idle"
    /\ ClearAllCheckpoints
    /\ UNCHANGED <<job, at, st, steps, log, today, pc, stateLogs, faults>>

NextDay ==
    /\ today < LastDay
    /\ today' = today + 1
    /\ UNCHANGED <<job, at, st, steps, saved, log, pc, stateLogs, faults>>

Init ==
    /\ GraphInit /\ job \in Bookings
    /\ log = <<>>
    /\ today = 1
    /\ pc = "idle"
    /\ stateLogs = {}
    /\ faults = 0

Progress == RunStep \/ RecursionError \/ LogState \/ Store \/ ClearAndReturn

Next ==
    \/ \E j \in Bookings : Propagate(j) \/ PropagateRaises(j)
    \/ Progress \/ Crash \/ ClearCheckpoints \/ NextDay

Spec == Init /\ [][Next]_engineVars /\ WF_engineVars(Progress)

(***************************************************************************)
(* The meeting (Agenda) that a run of the graph is.                        *)
(***************************************************************************)
Seat(c, a) == CHOOSE i \in DOMAIN c.analysts : c.analysts[i] = a

One(b) == IF b THEN 1 ELSE 0

AnalystKinds == {"agent", "tools", "clear"}

Reached(c, node, s) ==    \* how many have spoken when node is about to run
    IF node[1] \in AnalystKinds THEN Seat(c, node[2]) - One(node[1] # "clear")
    ELSE Len(c.analysts) + s.debate.count + One(s.debate.judged)
           + One(node[2] \in RiskTeam \union {"PortfolioManager", "end"})
           + s.risk.count + One(node = END)

Before(c, n) == IF n = 0 THEN "nobody" ELSE c.analysts[n]

LastSpeaker(c, node, s) ==
    IF node[1] \in AnalystKinds THEN Before(c, Reached(c, node, s))
    ELSE IF node = END THEN "PortfolioManager"
    ELSE IF s.risk.count > 0 THEN s.risk.latest
    ELSE IF node[2] = "Aggressive" THEN "Trader"
    ELSE IF s.debate.judged THEN "ResearchManager"
    ELSE IF s.debate.count > 0 THEN s.debate.current
    ELSE Before(c, Len(c.analysts))

Topics == {Thread(j) : j \in Bookings}

ConfOf(t) == CHOOSE c \in Confs : Signature(c) = t[3]

Meeting == INSTANCE Agenda WITH
    open <- at # Off,
    topic <- Thread(job),
    pos <- IF at = Off THEN 0 ELSE Reached(job.conf, at, st),
    last <- IF at = Off THEN "nobody" ELSE LastSpeaker(job.conf, at, st),
    minutes <- [t \in DOMAIN saved |-> Reached(ConfOf(t), saved[t].at, saved[t].st)]

\* The graph implements the agenda, whatever it is resumed from: nobody is
\* skipped and nobody speaks out of turn, and a checkpoint says how far the
\* meeting got.
ImplementsAgenda == Meeting!Spec

(***************************************************************************)
(* The files.                                                              *)
(***************************************************************************)
\* Every entry of the decision log has the file with the state it was made
\* from, and a decision is pending at most once however often its run is
\* repeated after a crash.
LogIsBacked ==
    /\ \A e \in Entries : <<e.ticker, e.date>> \in stateLogs
    /\ \A i, k \in DOMAIN log : IsPending(log[i]) /\ log[i] = log[k] => i = k

Undecided(e) == [e EXCEPT !.days = 0]

\* A pending decision leaves the log only for its outcome, which may at once
\* be rotated out when the log is full; an outcome is only ever given to a
\* decision that was pending, and an entry that has one never gets another.
OutcomesAreFinal ==
    [][/\ \A e \in Entries : IsPending(e) =>
              e \in Entries' \/ e \in {Undecided(r) : r \in Entries'} \/ NumResolved(log') = MaxEntries
       /\ \A r \in Entries' : IsResolved(r) => r \in Entries \/ Undecided(r) \in Entries]_engineVars

\* A run that has begun ends: an analyst that keeps calling its tools runs
\* into the recursion limit.
RunEnds == at # Off ~> at = Off
=============================================================================
