--------------------------------- MODULE Cli --------------------------------
(***************************************************************************)
(* The command line, src/engine/cli/main.py, beside the programs that call *)
(* propagate: the questions, the client, the debate graph streamed chunk   *)
(* by chunk into the progress panel, and the report at the end.  run_      *)
(* analysis streams the graph that was compiled without a checkpointer, so *)
(* --checkpoint changes nothing about its runs.                            *)
(***************************************************************************)
EXTENDS TradingGraph, Display, Launch

VARIABLES
    session,    \* the answers, while the client is built
    panel,      \* MessageBuffer and the wall time tracker
    tree        \* the parts of the report written to disk

shown == <<session, panel, tree>>
cliVars == <<job, at, st, steps, saved, log, today, pc, stateLogs, faults, session, panel, tree>>

Nothing == [client |-> "none"]

Api == pc \in {"idle", "running", "logged", "stored"} /\ Next /\ UNCHANGED shown

GetUserSelections ==
    /\ pc = "idle"
    /\ \E t \in Tickers, d \in Dates, c \in Confs, a \in Answers :
          /\ d <= today
          /\ Selectable(Canonical[t], c)
          /\ session' = [ticker |-> Canonical[t], date |-> d, conf |-> c, client |-> a]
    /\ pc' = "launched"
    /\ UNCHANGED <<job, at, st, steps, saved, log, today, stateLogs, faults, panel, tree>>

ClientRaises ==
    /\ pc = "launched" /\ GetLLMRaises(session.client)
    /\ session' = Nothing
    /\ pc' = "idle"
    /\ UNCHANGED <<job, at, st, steps, saved, log, today, stateLogs, faults, panel, tree>>

JobOf(s) == [ticker |-> s.ticker, date |-> s.date, conf |-> s.conf, checkpoint |-> FALSE]

RunAnalysis ==
    /\ pc = "launched" /\ GetLLM(session.client)
    /\ Invoke(JobOf(session))
    /\ panel' = AfterChunk(InitForAnalysis(session.conf), session.conf, st')
    /\ session' = Nothing
    /\ pc' = "streaming"
    /\ UNCHANGED <<log, today, stateLogs, faults, tree>>

Chunk ==
    /\ pc = "streaming"
    /\ Node
    /\ panel' = AfterChunk(panel, job.conf, st')
    /\ UNCHANGED <<log, today, pc, stateLogs, faults, session, tree>>

Finish ==
    /\ pc = "streaming" /\ at = END
    /\ panel' = Completed(panel, st)
    /\ pc' = "finished"
    /\ UNCHANGED <<job, at, st, steps, saved, log, today, stateLogs, faults, session, tree>>

SaveReport ==
    /\ pc = "finished" /\ tree = {}
    /\ tree' = ReportTree(st)
    /\ UNCHANGED <<job, at, st, steps, saved, log, today, pc, stateLogs, faults, session, panel>>

Leave(ends) ==  \* the process ends, and the panel with it
    /\ ends
    /\ pc' = "idle" /\ panel' = Nothing /\ tree' = {}
    /\ UNCHANGED <<log, today, stateLogs, session>>

Done == Leave(pc = "finished" /\ Return /\ saved' = saved /\ UNCHANGED faults)

StreamRaises ==
    \/ Leave(pc = "streaming" /\ OutOfSteps /\ UNCHANGED faults)
    \/ Leave(pc \in {"streaming", "finished"} /\ Fault /\ Abandon)

Midnight == pc \in {"launched", "streaming", "finished"} /\ NextDay /\ UNCHANGED shown

CliInit == Init /\ session = Nothing /\ panel = Nothing /\ tree = {}

CliNext ==
    \/ Api \/ GetUserSelections \/ ClientRaises \/ RunAnalysis \/ Chunk \/ Finish \/ SaveReport
    \/ Done \/ StreamRaises \/ Midnight

CliSpec == CliInit /\ [][CliNext]_cliVars

(***************************************************************************)
(* What the user is shown.                                                 *)
(***************************************************************************)
\* The panel, which guesses who is at work, never shows the agent that runs
\* next as completed; a report it counts as completed has the words of the
\* agent that finalizes it, not of the debate before; an analyst's time is
\* taken from its own start, unless an earlier analyst answered nothing.  And
\* the report on disk has exactly the sections the last panel has words for.
ProgressIsTruthful ==
    /\ pc = "streaming" =>
           /\ at # END /\ at[1] # "clear" => panel.status[at[2]] # "completed"
           /\ \A x \in CompletedReports(panel) : panel.section[x] = "final"
           /\ \A i \in DOMAIN job.conf.analysts : panel.timed[job.conf.analysts[i]] = "instant" =>
                  \E k \in 1..i - 1 : ~st.report[job.conf.analysts[k]]
    /\ pc = "finished" /\ tree # {} =>
           \A x \in DOMAIN panel.section : panel.section[x] = "final" <=> Finalizer(x) \in tree

\* Who is shown as completed stays so until the run is over, although the
\* panel marks the trader as at work again on every chunk after the judge's.
ProgressOnlyAdvances ==
    [][pc = "streaming" /\ pc' \in {"streaming", "finished"} =>
          \A a \in DOMAIN panel.status :
              panel.status[a] = "completed" => panel'.status[a] = "completed"]_cliVars

\* A key that was given for a provider picked in the menu goes to the platform
\* that issued it: the regions' keys are not interchangeable.
KeyFitsEndpoint ==
    pc = "launched" =>
        LET a == session.client IN
        a.asked /\ ~a.override /\ a.key # "none" /\ a.provider \notin Addressless =>
            AccountAt(ClientUrl(a)) = a.key

\* "The decision log is always on. Each completed run appends its decision"
\* (src/engine/README.md): a run that has come to its end is in the log.
CompletedRunsAreLogged == pc \in {"stored", "finished"} => HasPending(job.date, job.ticker)
=============================================================================
