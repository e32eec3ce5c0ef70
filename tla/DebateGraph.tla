----------------------------- MODULE DebateGraph ----------------------------
(***************************************************************************)
(* The engine's debate graph, src/engine/tradingagents/graph/setup.py and  *)
(* conditional_logic.py: the analysts one after the other, each in a loop  *)
(* with its tools; the bull and the bear in turns and their judge; the     *)
(* trader; the three risk debaters in turns and theirs.                    *)
(*                                                                         *)
(* One node runs at a time.  What a node writes is its place in the state  *)
(* (who has spoken, how often, which reports have any text), never the     *)
(* text.  With a checkpointer the state is saved after every node, under   *)
(* an id made of the ticker, the date and the shape of the graph; a run    *)
(* that finds a saved state under its own id starts from it.               *)
(***************************************************************************)
EXTENDS Integers, Sequences, FiniteSets

CONSTANTS
    Tickers,        \* tickers as they are typed
    Canonical,      \* str.upper(): a function on Tickers
    Dates,          \* trade dates
    Confs,          \* [analysts, debate, risk, asset]: what shapes the graph
    Texts,          \* whether an analyst's last answer has text: TRUE, FALSE or either
    MaxRecur        \* max_recur_limit: supersteps an invocation may take

AnalystKeys == {"market", "social", "news", "fundamentals"}

ASSUME GraphAssumption ==
    /\ Canonical \in [Tickers -> Tickers]
    /\ \A c \in Confs : /\ c.analysts \in Seq(AnalystKeys) /\ Len(c.analysts) > 0
                        /\ \A i, j \in 1..Len(c.analysts) :
                              c.analysts[i] = c.analysts[j] => i = j
                        /\ c.debate \in Nat /\ c.risk \in Nat
    /\ Texts \subseteq BOOLEAN
    /\ MaxRecur \in Nat

Researchers == {"Bull", "Bear"}
RiskTeam == {"Aggressive", "Conservative", "Neutral"}

VARIABLES
    job,    \* [ticker, date, conf, checkpoint] of the invocation under way
    at,     \* the node that runs next, <<kind, name>>
    st,     \* AgentState
    steps,  \* supersteps of this invocation
    saved   \* the checkpoint databases: thread id -> [at, st]

graphVars == <<job, at, st, steps, saved>>

Off == <<"off", "off">>
END == <<"end", "end">>

Jobs == [ticker : Tickers, date : Dates, conf : Confs, checkpoint : BOOLEAN]

NoDebate == [said |-> [s \in Researchers |-> 0], current |-> "none", judged |-> FALSE, count |-> 0]
NoDiscussion == [said |-> [s \in RiskTeam |-> 0], latest |-> "none", judged |-> FALSE, count |-> 0]

\* create_initial_state names neither plan nor decision: a channel it does not
\* name keeps what a saved state has in it.
InitialState(old) ==
    [report |-> [a \in AnalystKeys |-> FALSE], debate |-> NoDebate, risk |-> NoDiscussion,
     plan |-> old.plan, trader |-> old.trader, decision |-> old.decision]

Blank == [plan |-> FALSE, trader |-> FALSE, decision |-> FALSE]

(***************************************************************************)
(* Where the graph goes next.                                              *)
(***************************************************************************)
FirstNode(c) == <<"agent", Head(c.analysts)>>

AfterClear(c, a) ==
    IF \E i \in 1..Len(c.analysts) - 1 : c.analysts[i] = a
    THEN <<"agent", c.analysts[1 + CHOOSE i \in 1..Len(c.analysts) - 1 : c.analysts[i] = a]>>
    ELSE <<"speaker", "Bull">>

ShouldContinueDebate(c, d) ==
    IF d.count >= 2 * c.debate THEN <<"judge", "ResearchManager">>
    ELSE IF d.current = "Bull" THEN <<"speaker", "Bear">> ELSE <<"speaker", "Bull">>

\* Slip: the neutral debater before the conservative one.
ShouldContinueUnordered(c, r) ==
    IF r.count >= 3 * c.risk THEN <<"judge", "PortfolioManager">>
    ELSE IF r.latest = "Aggressive" THEN <<"speaker", "Neutral">>
    ELSE IF r.latest = "Neutral" THEN <<"speaker", "Conservative">>
    ELSE <<"speaker", "Aggressive">>

ShouldContinueRiskAnalysis(c, r) ==
    IF r.count >= 3 * c.risk THEN <<"judge", "PortfolioManager">>
    ELSE IF r.latest = "Aggressive" THEN <<"speaker", "Conservative">>
    ELSE IF r.latest = "Conservative" THEN <<"speaker", "Neutral">>
    ELSE <<"speaker", "Aggressive">>

(***************************************************************************)
(* Checkpoints.                                                            *)
(***************************************************************************)
\* Slip: the rounds are left out of the id of a thread.
SignatureOfAnalysts(c) == <<c.analysts, 1, 1, c.asset>>

Signature(c) == <<c.analysts, c.debate, c.risk, c.asset>>

Thread(j) == <<Canonical[j.ticker], j.date, Signature(j.conf)>>

Put(f, k, v) == [x \in DOMAIN f \union {k} |-> IF x = k THEN v ELSE f[x]]
Without(f, K) == [x \in DOMAIN f \ K |-> f[x]]

Save(j, node, s) ==
    saved' = IF j.checkpoint THEN Put(saved, Thread(j), [at |-> node, st |-> s]) ELSE saved

(***************************************************************************)
(* An invocation.  It starts at the first analyst; when its thread has a   *)
(* saved state the graph runner either goes on from it or applies the      *)
(* initial state on top of it and starts over (which of the two is the     *)
(* library's choice, and both are allowed here).                           *)
(***************************************************************************)
Resumable(j) == j.checkpoint /\ Thread(j) \in DOMAIN saved

StartOver(j) ==
    /\ at' = FirstNode(j.conf)
    /\ st' = InitialState(IF Resumable(j) THEN saved[Thread(j)].st ELSE Blank)
    /\ Save(j, at', st')

GoOn(j) ==
    /\ Resumable(j)
    /\ at' = saved[Thread(j)].at
    /\ st' = saved[Thread(j)].st
    /\ UNCHANGED saved

Invoke(j) ==
    /\ at = Off
    /\ job' = j
    /\ steps' = 0
    /\ StartOver(j) \/ GoOn(j)

(***************************************************************************)
(* The nodes.                                                              *)
(***************************************************************************)
\* Slip: supersteps are not counted.
RunUncounted(node, next, s) ==
    /\ at = node
    /\ at' = next
    /\ st' = s
    /\ Save(job, next, s)
    /\ UNCHANGED <<job, steps>>

RunNode(node, next, s) ==
    /\ at = node
    /\ steps < MaxRecur
    /\ at' = next
    /\ st' = s
    /\ steps' = steps + 1
    /\ Save(job, next, s)
    /\ UNCHANGED job

\* An answer that calls tools leaves the report empty; one that calls none is
\* the report, and may be empty too.
Analyst(a, mayCall) ==
    \E calls \in mayCall, text \in Texts :
        RunNode(<<"agent", a>>,
                IF calls THEN <<"tools", a>> ELSE <<"clear", a>>,
                [st EXCEPT !.report[a] = ~calls /\ text])

MarketAnalyst == Analyst("market", BOOLEAN)
NewsAnalyst == Analyst("news", BOOLEAN)
FundamentalsAnalyst == Analyst("fundamentals", BOOLEAN)
SentimentAnalyst == Analyst("social", {FALSE})      \* its data is in the prompt

Tools == \E a \in AnalystKeys : RunNode(<<"tools", a>>, <<"agent", a>>, st)

MsgClear == \E a \in AnalystKeys : RunNode(<<"clear", a>>, AfterClear(job.conf, a), st)

Argue(s) ==
    LET d == [said |-> [st.debate.said EXCEPT ![s] = @ + 1], current |-> s,
              judged |-> FALSE, count |-> st.debate.count + 1]
    IN  RunNode(<<"speaker", s>>, ShouldContinueDebate(job.conf, d), [st EXCEPT !.debate = d])

BullResearcher == Argue("Bull")
BearResearcher == Argue("Bear")

ResearchManager ==
    RunNode(<<"judge", "ResearchManager">>, <<"trader", "Trader">>,
            [st EXCEPT !.debate.judged = TRUE, !.debate.current = "plan", !.plan = TRUE])

Trader == RunNode(<<"trader", "Trader">>, <<"speaker", "Aggressive">>, [st EXCEPT !.trader = TRUE])

Discuss(s) ==
    LET r == [said |-> [st.risk.said EXCEPT ![s] = @ + 1], latest |-> s,
              judged |-> FALSE, count |-> st.risk.count + 1]
    IN  RunNode(<<"speaker", s>>, ShouldContinueRiskAnalysis(job.conf, r), [st EXCEPT !.risk = r])

AggressiveDebator == Discuss("Aggressive")
ConservativeDebator == Discuss("Conservative")
NeutralDebator == Discuss("Neutral")

PortfolioManager ==
    RunNode(<<"judge", "PortfolioManager">>, END,
            [st EXCEPT !.risk.judged = TRUE, !.risk.latest = "Judge", !.decision = TRUE])

Node ==
    \/ MarketAnalyst \/ NewsAnalyst \/ FundamentalsAnalyst \/ SentimentAnalyst
    \/ Tools \/ MsgClear
    \/ BullResearcher \/ BearResearcher \/ ResearchManager \/ Trader
    \/ AggressiveDebator \/ ConservativeDebator \/ NeutralDebator \/ PortfolioManager

Ended == at' = Off /\ st' = InitialState(Blank) /\ steps' = 0 /\ UNCHANGED job

\* A node raises, the recursion limit is reached with a node still to run, or
\* the process dies: the invocation is gone and what was saved stays.
Abandon ==
    /\ at # Off
    /\ Ended
    /\ UNCHANGED saved

OutOfSteps == at \notin {Off, END} /\ steps = MaxRecur /\ Abandon

ClearThread(j) == saved' = Without(saved, {Thread(j)})

ClearAllCheckpoints == saved' = Without(saved, DOMAIN saved)

Return == \* invoke() returns; the caller clears the thread, or has not yet
    /\ at = END
    /\ Ended
    /\ ClearThread(job) \/ UNCHANGED saved

Forget ==   \* --clear-checkpoints, and the caller's clear_checkpoint
    /\ ClearAllCheckpoints \/ \E j \in Jobs : ClearThread(j)
    /\ UNCHANGED <<job, at, st, steps>>

GraphInit ==
    /\ job \in Jobs
    /\ at = Off
    /\ st = InitialState(Blank)
    /\ steps = 0
    /\ saved = [t \in {} |-> [at |-> Off, st |-> InitialState(Blank)]]

GraphNext == (\E j \in Jobs : Invoke(j)) \/ Node \/ Abandon \/ Return \/ Forget

GraphSpec == GraphInit /\ [][GraphNext]_graphVars

(***************************************************************************)
(* What a decision rests on.                                               *)
(***************************************************************************)
\* When the graph reaches its end, every debater has had as many turns as the
\* configuration gives it (one opening speech when it gives none), and the
\* investment plan, the trader's plan and the decision have all been written.
\* It is so too for a run that was resumed from a checkpoint: the state it
\* goes on from is of a graph of the same shape.
HeardAll(c, s) ==
    /\ c.debate > 0 => \A r \in Researchers : s.debate.said[r] = c.debate
    /\ c.debate = 0 => s.debate.said["Bull"] = 1 /\ s.debate.said["Bear"] = 0
    /\ c.risk > 0 => \A r \in RiskTeam : s.risk.said[r] = c.risk
    /\ c.risk = 0 => s.risk.said["Aggressive"] = 1 /\ s.risk.said["Neutral"] = 0
    /\ s.plan /\ s.trader /\ s.decision

EveryoneIsHeard == at = END => HeardAll(job.conf, st)
=============================================================================
