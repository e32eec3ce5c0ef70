------------------------------- MODULE Display ------------------------------
(***************************************************************************)
(* The progress panel of the command line, src/engine/cli/main.py: who is  *)
(* pending, in progress or completed, and which report sections have text. *)
(* The panel is not told what runs: it works it out from the state of the  *)
(* debate graph after each node (a chunk of the stream), one team after    *)
(* the other.                                                              *)
(*                                                                         *)
(* A panel is a record of status (by agent), section (by report: none,     *)
(* empty, draft or final) and timed (by analyst: AnalystWallTimeTracker,   *)
(* instant when the start and the end were taken from the same chunk).     *)
(***************************************************************************)
EXTENDS DebateGraph

ResearchTeam == Researchers \union {"ResearchManager"}
FixedAgents == ResearchTeam \union {"Trader"} \union RiskTeam \union {"PortfolioManager"}
FixedSections == {"investment_plan", "trader_investment_plan", "final_trade_decision"}

Finalizer(section) ==
    CASE section = "investment_plan" -> "ResearchManager"
      [] section = "trader_investment_plan" -> "Trader"
      [] section = "final_trade_decision" -> "PortfolioManager"
      [] OTHER -> section      \* an analyst's report goes by the analyst's name

Selected(c) == {c.analysts[i] : i \in DOMAIN c.analysts}

Mark(status, agents, value) ==
    [a \in DOMAIN status |-> IF a \in agents THEN value ELSE status[a]]

\* init_for_analysis, and the first analyst set to work
InitForAnalysis(c) ==
    [status |-> [a \in Selected(c) \union FixedAgents |->
                    IF a = Head(c.analysts) THEN "in_progress" ELSE "pending"],
     section |-> [x \in Selected(c) \union FixedSections |-> "none"],
     timed |-> [a \in Selected(c) |-> IF a = Head(c.analysts) THEN "running" ELSE "no"]]

(***************************************************************************)
(* One chunk.                                                              *)
(***************************************************************************)
NoneSilentBefore(c, silent, a) ==
    \A i, k \in DOMAIN c.analysts : c.analysts[k] = a /\ i < k => c.analysts[i] \notin silent

SyncTracker(p, c, s) ==
    LET silent == {a \in Selected(c) : ~s.report[a]}
    IN  [p EXCEPT !.timed = [a \in Selected(c) |->
            IF a \notin silent THEN (IF @[a] = "no" THEN "instant"
                                     ELSE IF @[a] = "running" THEN "measured" ELSE @[a])
            ELSE IF @[a] = "no" /\ NoneSilentBefore(c, silent, a) THEN "running" ELSE @[a]]]

\* An analyst with a report is done, the first without one is at work.  The
\* sections keep what earlier chunks had.
UpdateAnalystStatuses(p, c, s) ==
    LET section == [x \in DOMAIN p.section |->
                       IF x \in AnalystKeys /\ s.report[x] THEN "final" ELSE p.section[x]]
        silent == {a \in Selected(c) : section[a] # "final"}
        status == [a \in DOMAIN p.status |->
                      IF a \notin Selected(c) THEN p.status[a]
                      ELSE IF a \notin silent THEN "completed"
                      ELSE IF NoneSilentBefore(c, silent, a) THEN "in_progress" ELSE "pending"]
    IN  [p EXCEPT !.section = section,
                  !.status = IF silent = {} /\ status["Bull"] = "pending"
                             THEN Mark(status, {"Bull"}, "in_progress") ELSE status]

\* Slip: the research team is done when both researchers have spoken.
ResearchOnSpeeches(p, d) ==
    IF d.said["Bull"] > 0 /\ d.said["Bear"] > 0
    THEN [p EXCEPT !.section["investment_plan"] = "final",
                   !.status = Mark(Mark(@, ResearchTeam, "completed"), {"Trader"}, "in_progress")]
    ELSE p

UpdateResearch(p, d) ==
    IF d.judged
    THEN [p EXCEPT !.section["investment_plan"] = "final",
                   !.status = Mark(Mark(@, ResearchTeam, "completed"), {"Trader"}, "in_progress")]
    ELSE IF d.said["Bull"] > 0 \/ d.said["Bear"] > 0
    THEN [p EXCEPT !.section["investment_plan"] = "draft",
                   !.status = Mark(@, ResearchTeam, "in_progress")]
    ELSE p

\* Slip: the trader's plan is handled once, although the judge's is not.
TradingOnce(p, written) ==
    IF written /\ p.section["trader_investment_plan"] = "none"
    THEN [p EXCEPT !.section["trader_investment_plan"] = "final",
                   !.status = Mark(Mark(@, {"Trader"}, "completed"), {"Aggressive"}, "in_progress")]
    ELSE p

UpdateTrading(p, written) ==
    IF ~written THEN p
    ELSE [p EXCEPT !.section["trader_investment_plan"] = "final",
                   !.status = IF @["Trader"] = "completed" THEN @
                              ELSE Mark(Mark(@, {"Trader"}, "completed"), {"Aggressive"}, "in_progress")]

UpdateRisk(p, r) ==
    LET spoke == {a \in RiskTeam : r.said[a] > 0}
        status == Mark(p.status, {a \in spoke : p.status[a] # "completed"}, "in_progress")
    IN  IF r.judged /\ status["PortfolioManager"] # "completed"
        THEN [p EXCEPT !.section["final_trade_decision"] = "final",
                       !.status = Mark(status, RiskTeam \union {"PortfolioManager"}, "completed")]
        ELSE [p EXCEPT !.section["final_trade_decision"] = IF spoke = {} THEN @ ELSE "draft",
                       !.status = status]

AfterChunk(p, c, s) ==
    UpdateRisk(UpdateTrading(UpdateResearch(
        UpdateAnalystStatuses(SyncTracker(p, c, s), c, s), s.debate), s.trader), s.risk)

\* The stream has ended: everyone is marked completed, and every section takes
\* what the final state has, an analyst's empty answer too.
Completed(p, s) ==
    [p EXCEPT !.status = [a \in DOMAIN @ |-> "completed"],
              !.section = [x \in DOMAIN @ |->
                              IF x \in AnalystKeys /\ ~s.report[x] THEN "empty" ELSE "final"]]

CompletedReports(p) ==
    {x \in DOMAIN p.section : p.section[x] # "none" /\ p.status[Finalizer(x)] = "completed"}

(***************************************************************************)
(* The report tree, src/engine/tradingagents/reporting.py: a file for each *)
(* part of the final state that has text.                                  *)
(***************************************************************************)
ReportTree(s) ==
    {a \in AnalystKeys : s.report[a]}
      \union {a \in Researchers : s.debate.said[a] > 0}
      \union {a \in {"ResearchManager"} : s.debate.judged}
      \union {a \in {"Trader"} : s.trader}
      \union {a \in RiskTeam : s.risk.said[a] > 0}
      \union {a \in {"PortfolioManager"} : s.risk.judged}
=============================================================================
