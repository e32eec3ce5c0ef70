------------------------------ MODULE Committee -----------------------------
(***************************************************************************)
(* The committee graph (src/engine/committee/graph.py) over the gateway,   *)
(* with the persistence of its outputs and its cost (src/desk/runs.py).    *)
(*                                                                         *)
(* The graph runner works in supersteps: it starts every node of the       *)
(* frontier in a thread of its own, waits for all of them, and goes on to  *)
(* their successors.  When a node raises it starts no other one, waits for *)
(* those under way, and raises.  Several runs share one spend ledger.      *)
(***************************************************************************)
EXTENDS Integers, Sequences, FiniteSets

CONSTANTS
    Runs,           \* run ids
    Analysts,       \* ANALYSTS
    Debate,         \* DEBATE
    Downstream,     \* DOWNSTREAM: a sequence, one node after the other
    Silent,         \* analysts that make no LLM call: news without a source
    Ceiling, MaxCost, LastDay   \* as in LLMGateway

Agents == Analysts \union Debate \union {Downstream[i] : i \in DOMAIN Downstream}

ASSUME GraphAssumption ==
    /\ IsFiniteSet(Runs) /\ IsFiniteSet(Agents)
    /\ Analysts # {} /\ Debate # {} /\ Len(Downstream) > 0
    /\ Silent \subseteq Analysts
ASSUME MoneyAssumption == Ceiling \in Nat \ {0} /\ MaxCost \in Nat /\ LastDay \in Nat
ASSUME NamesAssumption ==
    /\ Downstream \in Seq(Agents)
    /\ "quality_gate" \notin Agents
    /\ Analysts \intersect Debate = {}
    /\ \A i \in DOMAIN Downstream :
          /\ Downstream[i] \notin Analysts \union Debate
          /\ \A j \in DOMAIN Downstream : Downstream[i] = Downstream[j] => i = j

VARIABLES
    today, spent, runSpent, pc, cost, stamp,    \* the gateway's
    graph,      \* by run: what invoke() is doing, or how it ended
    frontier,   \* by run: the nodes of the current superstep
    returned,   \* by run: those of them that have returned
    broken,     \* by run: those that raised outside the gateway
    reports,    \* by run: state["reports"], each sound or not
    grades,     \* by run: state["grades"]: has the report passed?
    outputs,    \* by run: the agents with a row in agent_outputs
    status,     \* by run: runs.status
    tokenCost,  \* by run: runs.token_cost
    rows        \* history variable: the (run, agent) pairs in the ledger

gatewayVars == <<today, spent, runSpent, pc, cost, stamp>>
graphVars == <<graph, frontier, returned, broken, reports, grades>>
tables == <<outputs, status, tokenCost>>
vars == <<gatewayVars, graphVars, tables, rows>>

Callers == Runs \X Agents

G == INSTANCE LLMGateway WITH
        RunOf <- [c \in Callers |-> c[1]], Tiered <- Callers

NoReports == [a \in {} |-> "sound"]

Init ==
    /\ G!Init
    /\ graph = [r \in Runs |-> "off"]
    /\ frontier = [r \in Runs |-> {}]
    /\ returned = [r \in Runs |-> {}]
    /\ broken = [r \in Runs |-> {}]
    /\ reports = [r \in Runs |-> NoReports]
    /\ grades = [r \in Runs |-> NoReports]
    /\ outputs = [r \in Runs |-> {}]
    /\ status = [r \in Runs |-> "none"]
    /\ tokenCost = [r \in Runs |-> 0]
    /\ rows = {}

-----------------------------------------------------------------------------

\* The edges of build(), for a whole superstep; {} is END.
Successors(nodes) ==
    CASE nodes = Analysts         -> {"quality_gate"}
      [] nodes = {"quality_gate"} -> Debate
      [] nodes = Debate           -> {Downstream[1]}
      [] OTHER -> {Downstream[i + 1] : i \in {j \in 1..(Len(Downstream) - 1) :
                                                nodes = {Downstream[j]}}}

\* Slip: no reducer, so the last writer wins.
LastReport(left, right) == right

_merge(left, right) ==
    [a \in DOMAIN left \union DOMAIN right |->
        IF a \in DOMAIN right THEN right[a] ELSE left[a]]

\* _accepted: the analysts whose reports the debaters are given.
_accepted(r) ==
    {a \in DOMAIN reports[r] : a \notin DOMAIN grades[r] \/ grades[r][a]}

\* Node a of run r has left through an exception.
NodeRaised(r, a) == pc[<<r, a>>] \in {"refused", "failed"} \/ a \in broken[r]

\* The runner may still start a node of run r: none has raised.
Starting(r) == \A b \in frontier[r] \intersect Agents : ~NodeRaised(r, b)

\* Slip: the answer is handed back before its row is appended.
HasItsAnswer(r, a) ==
    IF a \in Silent THEN Starting(r) ELSE pc[<<r, a>>] \in {"answered", "completed"}

\* Slip: a node without a call has nothing to return.
HasItsCall(r, a) == pc[<<r, a>>] = "completed"

\* Node a is between its call and its return (or makes no call).
HasItsProse(r, a) ==
    IF a \in Silent THEN Starting(r) ELSE pc[<<r, a>>] = "completed"

\* start_run, and invoke() begins.
Start(r) ==
    /\ graph[r] = "off"
    /\ graph' = [graph EXCEPT ![r] = "running"]
    /\ frontier' = [frontier EXCEPT ![r] = Analysts]
    /\ status' = [status EXCEPT ![r] = "RUNNING"]
    /\ UNCHANGED <<gatewayVars, returned, broken, reports, grades, outputs, tokenCost, rows>>

\* A node inside the gateway; the runner starts no node once one has raised.
InGateway(r, a) ==
    /\ graph[r] = "running"
    /\ a \in frontier[r] \ Silent
    /\ \/ /\ pc[<<r, a>>] = "idle"
          /\ Starting(r)
          /\ G!Enter(<<r, a>>)
          /\ UNCHANGED rows
       \/ /\ \/ G!Refuse(<<r, a>>)
             \/ G!Admit(<<r, a>>)
             \/ G!ProviderFails(<<r, a>>)
             \/ \E price \in 0..MaxCost : G!Answer(<<r, a>>, price)
          /\ UNCHANGED rows
       \/ /\ G!Record(<<r, a>>)
          /\ rows' = rows \union {<<r, a>>}
    /\ UNCHANGED <<graphVars, tables>>

\* The node has its prose: on_output persists it, and it returns its update.
\* An analyst's report may be sound or not, whatever it was given.
Return(r, a) ==
    /\ graph[r] = "running"
    /\ a \in (frontier[r] \ returned[r]) \intersect Agents
    /\ a \notin broken[r]
    /\ HasItsProse(r, a)
    /\ outputs' = [outputs EXCEPT ![r] = @ \union {a}]
    /\ IF a \in Analysts
       THEN \E quality \in {"sound", "unsound"} :
               reports' = [reports EXCEPT ![r] = _merge(@, [x \in {a} |-> quality])]
       ELSE UNCHANGED reports
    /\ returned' = [returned EXCEPT ![r] = @ \union {a}]
    /\ UNCHANGED <<gatewayVars, graph, frontier, broken, grades, status, tokenCost, rows>>

\* The node raises outside the gateway: its source or its measurement before the
\* call, or, once the answer is paid for, the parse or on_output.
Break(r, a) ==
    /\ graph[r] = "running"
    /\ a \in (frontier[r] \ returned[r]) \intersect Agents
    /\ a \notin broken[r]
    /\ \/ a \in Analysts /\ pc[<<r, a>>] = "idle" /\ Starting(r)
       \/ HasItsProse(r, a)
    /\ broken' = [broken EXCEPT ![r] = @ \union {a}]
    /\ UNCHANGED <<gatewayVars, graph, frontier, returned, reports, grades, tables, rows>>

\* grade_all over every report that is there.
Gate(r) ==
    /\ graph[r] = "running"
    /\ frontier[r] = {"quality_gate"}
    /\ grades' = [grades EXCEPT ![r] =
                     [a \in DOMAIN reports[r] |-> reports[r][a] = "sound"]]
    /\ frontier' = [frontier EXCEPT ![r] = Successors(@)]
    /\ UNCHANGED <<gatewayVars, graph, returned, broken, reports, tables, rows>>

\* The superstep is over.
Advance(r) ==
    /\ graph[r] = "running"
    /\ frontier[r] = returned[r]
    /\ frontier' = [frontier EXCEPT ![r] = Successors(@)]
    /\ graph' = [graph EXCEPT ![r] = IF frontier'[r] = {} THEN "ended" ELSE @]
    /\ returned' = [returned EXCEPT ![r] = {}]
    /\ UNCHANGED <<gatewayVars, broken, reports, grades, tables, rows>>

\* Some node raised and none is under way: invoke() raises, and nobody closes
\* the run.
Raise(r) ==
    /\ graph[r] = "running"
    /\ \E a \in frontier[r] \intersect Agents : NodeRaised(r, a)
    /\ \A a \in frontier[r] :
          a \in returned[r] \/ NodeRaised(r, a) \/ pc[<<r, a>>] = "idle"
    /\ graph' = [graph EXCEPT ![r] = "raised"]
    /\ frontier' = [frontier EXCEPT ![r] = {}]
    /\ returned' = [returned EXCEPT ![r] = {}]
    /\ UNCHANGED <<gatewayVars, broken, reports, grades, tables, rows>>

\* Slip: a run whose graph raised is closed as DONE.
FinishAnyhow(r) ==
    /\ graph[r] \in {"ended", "raised"}
    /\ status[r] = "RUNNING"
    /\ tokenCost' = [tokenCost EXCEPT ![r] = runSpent[r]]
    /\ status' = [status EXCEPT ![r] = "DONE"]
    /\ UNCHANGED <<gatewayVars, graphVars, outputs, rows>>

\* finish_run.
Finish(r) ==
    /\ graph[r] = "ended"
    /\ status[r] = "RUNNING"
    /\ tokenCost' = [tokenCost EXCEPT ![r] = runSpent[r]]
    /\ status' = [status EXCEPT ![r] = "DONE"]
    /\ UNCHANGED <<gatewayVars, graphVars, outputs, rows>>

\* The process dies with all its runs; the ledger and the database stay.
Crash ==
    /\ G!Crash
    /\ graph' = [r \in Runs |-> IF graph[r] = "off" THEN "off" ELSE "lost"]
    /\ frontier' = [r \in Runs |-> {}]
    /\ returned' = [r \in Runs |-> {}]
    /\ UNCHANGED <<broken, reports, grades, tables, rows>>

Midnight == G!Midnight /\ UNCHANGED <<graphVars, tables, rows>>

Node(r, a) == InGateway(r, a) \/ Return(r, a) \/ Break(r, a)

Runner(r) == Gate(r) \/ Advance(r) \/ Raise(r) \/ Finish(r)

Next ==
    \/ \E r \in Runs : Start(r) \/ Runner(r) \/ \E a \in Agents : Node(r, a)
    \/ Crash
    \/ Midnight

\* Every thread that can go on does, the provider answers or fails, and the
\* runner goes on when its nodes have settled.  Nothing makes a run start, and
\* nothing relies on an exception to come.
Fairness ==
    \A r \in Runs :
        /\ WF_vars(Runner(r))
        /\ \A a \in Agents : WF_vars(InGateway(r, a) \/ Return(r, a))

Spec == Init /\ [][Next]_vars /\ Fairness

-----------------------------------------------------------------------------

\* Both debaters argue from all the analysts' sound reports and from nothing the
\* gate rejected, in whatever order the analysts' threads finish
\* (graph.py _merge, _accepted; quality_gate.py 9-11).
DebateReadsTheSoundReports ==
    \A r \in Runs :
        frontier[r] = Debate =>
            /\ DOMAIN reports[r] = Analysts
            /\ _accepted(r) = {a \in Analysts : reports[r][a] = "sound"}

\* No output is in the database whose call is not in the ledger, wherever the
\* process dies between the two stores, so what agent_outputs shows was paid for
\* is never more than what the totals count (llm.py 258-263, runs.py 41-60).
EveryOutputIsPaidFor ==
    \A r \in Runs : \A a \in outputs[r] \ Silent : <<r, a>> \in rows

\* A run that is DONE has every agent's output, each from a call in the ledger,
\* and its token_cost is all the ledger ever holds for it: no thread of the run
\* bills it later, whatever other runs do (runs.py 7-10 and 74-90, "runs.token_cost
\* == SpendLedger.total_for_run(run_id)").
DoneRunIsWhole ==
    \A r \in Runs :
        status[r] = "DONE" => /\ outputs[r] = Agents
                              /\ {r} \X (Agents \ Silent) \subseteq rows
                              /\ tokenCost[r] = runSpent[r]

\* How many nodes of one run may be in flight at once.
Width == IF Cardinality(Analysts \ Silent) > Cardinality(Debate)
         THEN Cardinality(Analysts \ Silent) ELSE Cardinality(Debate)

\* The runs together pass the ceiling by at most what their widest supersteps can
\* add, not by what all their agents could: seven calls for a committee of
\* thirteen (graph.py build over llm.py _check_budget).
OvershootByASuperstep ==
    \A d \in 0..LastDay :
        spent[d] <= (Ceiling - 1) + Cardinality(Runs) * Width * MaxCost

\* A run that is under way is finished and closed, raises, or dies with the
\* process: no superstep waits for a node that will not come, also when the
\* ceiling or the provider cuts some of its nodes off (graph.py build).
EveryRunEnds ==
    \A r \in Runs :
        graph[r] = "running" ~> \/ status[r] = "DONE"
                                \/ graph[r] \in {"raised", "lost"}
=============================================================================
