---------------------------- MODULE Engine_proofs ---------------------------
(***************************************************************************)
(* Proofs about the vendored engine, in four parts.  The debate graph: the *)
(* inductive invariant (GraphInv) says for every node what has been said   *)
(* when that node is the next to run, and of a saved state the same, for   *)
(* the rounds in its own thread id.  propagate: every step of it is a step *)
(* of the graph or leaves its variables alone, and the graph implements    *)
(* the agenda of its meeting (MeetingInv).  The decision log: what a       *)
(* rewrite of it decides, keeps and rotates out (FilesInv, Kept).  The     *)
(* command line: it runs the same graph, and its panel shows nothing that  *)
(* is still ahead (CliInv, PanelFits).                                     *)
(***************************************************************************)
EXTENDS Cli, TLAPS, FiniteSetTheorems, FunctionTheorems

DebateStates ==
    [said : [Researchers -> Nat], current : {"none", "plan"} \union Researchers, judged : BOOLEAN, count : Nat]
DiscussionStates ==
    [said : [RiskTeam -> Nat], latest : {"none", "Judge"} \union RiskTeam, judged : BOOLEAN, count : Nat]
AgentStates ==
    [report : [AnalystKeys -> BOOLEAN], debate : DebateStates, risk : DiscussionStates,
     plan : BOOLEAN, trader : BOOLEAN, decision : BOOLEAN]

Said(s, r) == IF r \in Researchers THEN s.debate.said[r] ELSE s.risk.said[r]

DebateHeard(d, s) ==
    IF d > 0 THEN Said(s, "Bull") = d /\ Said(s, "Bear") = d
             ELSE Said(s, "Bull") = 1 /\ Said(s, "Bear") = 0

RiskHeard(k, s) ==
    IF k > 0 THEN Said(s, "Aggressive") = k /\ Said(s, "Conservative") = k /\ Said(s, "Neutral") = k
             ELSE Said(s, "Aggressive") = 1 /\ Said(s, "Neutral") = 0

DebateCounts(s) == s.debate.count = Said(s, "Bull") + Said(s, "Bear")
RiskCounts(s) ==
    s.risk.count = Said(s, "Aggressive") + Said(s, "Conservative") + Said(s, "Neutral")

BullsTurn(d, s) ==
    /\ Said(s, "Bull") = Said(s, "Bear") /\ DebateCounts(s)
    /\ s.debate.count < 2 * d \/ s.debate.count = 0
BearsTurn(d, s) ==
    /\ Said(s, "Bull") = Said(s, "Bear") + 1 /\ DebateCounts(s)
    /\ s.debate.count < 2 * d

AggressivesTurn(k, s) ==
    /\ Said(s, "Aggressive") = Said(s, "Conservative") /\ Said(s, "Conservative") = Said(s, "Neutral")
    /\ RiskCounts(s)
    /\ s.risk.count < 3 * k \/ s.risk.count = 0
ConservativesTurn(k, s) ==
    /\ Said(s, "Aggressive") = Said(s, "Conservative") + 1 /\ Said(s, "Conservative") = Said(s, "Neutral")
    /\ RiskCounts(s) /\ s.risk.count < 3 * k
NeutralsTurn(k, s) ==
    /\ Said(s, "Aggressive") = Said(s, "Conservative") /\ Said(s, "Conservative") = Said(s, "Neutral") + 1
    /\ RiskCounts(s) /\ s.risk.count < 3 * k

\* What has been said in state s when node a is next, with d and k rounds.
Place(d, k, a, s) ==
    /\ s \in AgentStates
    /\ a[1] \in {"agent", "tools", "clear"} => s.debate = NoDebate
    /\ a[1] \in {"agent", "tools", "clear"} \/ a = <<"speaker", "Bull">> \/ a = <<"speaker", "Bear">>
         \/ a = <<"judge", "ResearchManager">> \/ a[1] = "trader" => s.risk = NoDiscussion
    /\ a = <<"speaker", "Bull">> => BullsTurn(d, s)
    /\ a = <<"speaker", "Bear">> => BearsTurn(d, s)
    /\ a = <<"judge", "ResearchManager">> => DebateHeard(d, s)
    /\ a[1] = "trader" => DebateHeard(d, s) /\ s.plan
    /\ a = <<"speaker", "Aggressive">> => DebateHeard(d, s) /\ s.plan /\ s.trader /\ AggressivesTurn(k, s)
    /\ a = <<"speaker", "Conservative">> => DebateHeard(d, s) /\ s.plan /\ s.trader /\ ConservativesTurn(k, s)
    /\ a = <<"speaker", "Neutral">> => DebateHeard(d, s) /\ s.plan /\ s.trader /\ NeutralsTurn(k, s)
    /\ a = <<"judge", "PortfolioManager">> => DebateHeard(d, s) /\ s.plan /\ s.trader /\ RiskHeard(k, s)
    /\ a = END => DebateHeard(d, s) /\ s.plan /\ s.trader /\ s.decision /\ RiskHeard(k, s)

JobFits == job \in Jobs /\ (at # Off => Place(job.conf.debate, job.conf.risk, at, st))
SavedFits ==
    \A t \in DOMAIN saved : Place(t[3][2], t[3][3], saved[t].at, saved[t].st)

GraphInv == JobFits /\ SavedFits

LEMMA ConfTypes ==
    ASSUME NEW j \in Jobs
    PROVE  /\ j.conf.debate \in Nat /\ j.conf.risk \in Nat /\ j.checkpoint \in BOOLEAN
           /\ Thread(j)[3][2] = j.conf.debate /\ Thread(j)[3][3] = j.conf.risk
BY GraphAssumption DEF Jobs, Thread, Signature

\* A state saved under the thread of its own job fits that thread.
LEMMA SaveFits ==
    ASSUME NEW j \in Jobs, NEW a, NEW s, SavedFits, Save(j, a, s),
           Place(j.conf.debate, j.conf.risk, a, s)
    PROVE  SavedFits'
<1>1. CASE j.checkpoint
    <2>1. saved' = [x \in DOMAIN saved \union {Thread(j)} |->
                        IF x = Thread(j) THEN [at |-> a, st |-> s] ELSE saved[x]]
        BY <1>1 DEF Save, Put
    <2>2. ASSUME NEW t \in DOMAIN saved'
          PROVE  Place(t[3][2], t[3][3], saved'[t].at, saved'[t].st)
        <3>1. CASE t = Thread(j)
            BY <2>1, <3>1, ConfTypes
        <3>2. CASE t # Thread(j)
            BY <2>1, <3>2 DEF SavedFits
        <3> QED BY <3>1, <3>2
    <2> QED BY <2>2 DEF SavedFits
<1>2. CASE ~j.checkpoint
    BY <1>2 DEF Save, SavedFits
<1> QED BY <1>1, <1>2

\* Running a node keeps the invariant when what it leaves fits the next node.
LEMMA RunFits ==
    ASSUME NEW n, NEW a, NEW s, GraphInv, RunNode(n, a, s),
           Place(job.conf.debate, job.conf.risk, a, s)
    PROVE  GraphInv'
<1>1. job \in Jobs /\ Save(job, a, s) /\ job' = job /\ at' = a /\ st' = s
    BY DEF GraphInv, JobFits, RunNode
<1>2. SavedFits'
    BY <1>1, SaveFits DEF GraphInv
<1> QED BY <1>1, <1>2 DEF GraphInv, JobFits

\* Forgetting threads keeps the ones that remain.
LEMMA WithoutFits ==
    ASSUME NEW K, SavedFits, saved' = Without(saved, K)
    PROVE  SavedFits'
BY DEF SavedFits, Without

LEMMA StartFits ==
    ASSUME NEW old, NEW d, NEW k, NEW x,
           old.plan \in BOOLEAN, old.trader \in BOOLEAN, old.decision \in BOOLEAN
    PROVE  Place(d, k, <<"agent", x>>, InitialState(old))
<1>1. InitialState(old) \in AgentStates
    <2>1. NoDebate \in DebateStates
        BY DEF NoDebate, DebateStates
    <2>2. NoDiscussion \in DiscussionStates
        BY DEF NoDiscussion, DiscussionStates
    <2>3. [a \in AnalystKeys |-> FALSE] \in [AnalystKeys -> BOOLEAN]
        OBVIOUS
    <2> QED BY <2>1, <2>2, <2>3 DEF InitialState, AgentStates
<1>2. InitialState(old).debate = NoDebate /\ InitialState(old).risk = NoDiscussion
    BY DEF InitialState
<1> QED BY <1>1, <1>2 DEF Place, END

LEMMA InvokeFits ==
    ASSUME GraphInv, NEW j \in Jobs, Invoke(j)
    PROVE  GraphInv'
<1>1. job' = j
    BY DEF Invoke
<1>2. CASE StartOver(j)
    <2> DEFINE old == IF Resumable(j) THEN saved[Thread(j)].st ELSE Blank
    <2>1. old.plan \in BOOLEAN /\ old.trader \in BOOLEAN /\ old.decision \in BOOLEAN
        BY DEF GraphInv, SavedFits, Place, AgentStates, Resumable, Blank
    <2>2. at' = <<"agent", Head(j.conf.analysts)>> /\ st' = InitialState(old) /\ Save(j, at', st')
        BY <1>2 DEF StartOver, FirstNode
    <2> HIDE DEF old
    <2>3. Place(j.conf.debate, j.conf.risk, at', st')
        BY <2>1, <2>2, StartFits
    <2>4. SavedFits'
        BY <2>2, <2>3, SaveFits DEF GraphInv
    <2> QED BY <1>1, <2>3, <2>4 DEF GraphInv, JobFits
<1>3. CASE GoOn(j)
    <2>1. Place(j.conf.debate, j.conf.risk, at', st')
        BY <1>3, ConfTypes DEF GoOn, Resumable, GraphInv, SavedFits
    <2>2. SavedFits'
        BY <1>3 DEF GoOn, GraphInv, SavedFits
    <2> QED BY <1>1, <2>1, <2>2 DEF GraphInv, JobFits
<1> QED BY <1>2, <1>3 DEF Invoke

LEMMA AnalystFits ==
    ASSUME GraphInv, NEW a \in AnalystKeys, NEW mayCall \in SUBSET BOOLEAN, Analyst(a, mayCall)
    PROVE  GraphInv'
<1>1. PICK calls \in mayCall, text \in BOOLEAN :
        RunNode(<<"agent", a>>, IF calls THEN <<"tools", a>> ELSE <<"clear", a>>,
                [st EXCEPT !.report[a] = ~calls /\ text])
    BY DEF Analyst
<1> DEFINE s == [st EXCEPT !.report[a] = ~calls /\ text]
           next == IF calls THEN <<"tools", a>> ELSE <<"clear", a>>
<1>2. Place(job.conf.debate, job.conf.risk, <<"agent", a>>, st)
    BY <1>1 DEF GraphInv, JobFits, RunNode, Off
<1>3. s \in AgentStates /\ s.debate = NoDebate /\ s.risk = NoDiscussion
    BY <1>2 DEF Place, AgentStates
<1> HIDE DEF s
<1>4. Place(job.conf.debate, job.conf.risk, <<"tools", a>>, s)
    BY <1>3 DEF Place, END
<1>5. Place(job.conf.debate, job.conf.risk, <<"clear", a>>, s)
    BY <1>3 DEF Place, END
<1>6. Place(job.conf.debate, job.conf.risk, next, s)
    BY <1>4, <1>5
<1> HIDE DEF next
<1> QED BY <1>1, <1>6, RunFits DEF s, next

LEMMA ToolsAndClearFit ==
    ASSUME GraphInv, Tools \/ MsgClear
    PROVE  GraphInv'
<1>1. PICK a \in AnalystKeys :
        \/ RunNode(<<"tools", a>>, <<"agent", a>>, st)
        \/ RunNode(<<"clear", a>>, AfterClear(job.conf, a), st)
    BY DEF Tools, MsgClear
<1>2. /\ st \in AgentStates /\ st.debate = NoDebate /\ st.risk = NoDiscussion
      /\ job.conf.debate \in Nat /\ job.conf.risk \in Nat
    <2>1. at = <<"tools", a>> \/ at = <<"clear", a>>
        BY <1>1 DEF RunNode
    <2>2. at[1] \in {"tools", "clear"}
        BY <2>1
    <2>3. at # Off
        BY <2>2 DEF Off
    <2>4. job \in Jobs /\ Place(job.conf.debate, job.conf.risk, at, st)
        BY <2>3 DEF GraphInv, JobFits
    <2> QED BY <2>2, <2>4, ConfTypes DEF Place
<1>3. ASSUME NEW x PROVE Place(job.conf.debate, job.conf.risk, <<"agent", x>>, st)
    BY <1>2 DEF Place, END
<1>4. Place(job.conf.debate, job.conf.risk, <<"speaker", "Bull">>, st)
    <2>0. st.debate.said = [r \in Researchers |-> 0] /\ st.debate.count = 0
        BY <1>2 DEF NoDebate
    <2>1. Said(st, "Bull") = 0 /\ Said(st, "Bear") = 0
        BY <2>0 DEF Said, Researchers
    <2>2. BullsTurn(job.conf.debate, st)
        BY <2>0, <2>1 DEF BullsTurn, DebateCounts
    <2> QED BY <1>2, <2>2 DEF Place, END
<1>5. Place(job.conf.debate, job.conf.risk, AfterClear(job.conf, a), st)
    BY <1>3, <1>4 DEF AfterClear
<1> QED BY <1>1, <1>3, <1>5, RunFits

LEMMA ArgueFits ==
    ASSUME GraphInv, NEW x \in Researchers, Argue(x)
    PROVE  GraphInv'
<1> DEFINE d == [said |-> [st.debate.said EXCEPT ![x] = @ + 1], current |-> x,
                 judged |-> FALSE, count |-> st.debate.count + 1]
           s == [st EXCEPT !.debate = d]
           next == ShouldContinueDebate(job.conf, d)
<1>1. RunNode(<<"speaker", x>>, next, s)
    BY DEF Argue
<1>2. /\ Place(job.conf.debate, job.conf.risk, <<"speaker", x>>, st)
      /\ job.conf.debate \in Nat /\ job.conf.risk \in Nat
    BY <1>1, ConfTypes DEF GraphInv, JobFits, RunNode, Off
<1>3. /\ s \in AgentStates /\ s.risk = NoDiscussion /\ s.debate.count = st.debate.count + 1
      /\ s.debate.current = x
      /\ \A r \in Researchers : Said(s, r) = IF r = x THEN Said(st, r) + 1 ELSE Said(st, r)
      /\ \A r \in Researchers : Said(st, r) \in Nat /\ Said(s, r) \in Nat
      /\ st.debate.count \in Nat
    <2>1. st \in AgentStates /\ st.risk = NoDiscussion
        BY <1>2 DEF Place, Researchers
    <2>2. st.debate \in DebateStates
        BY <2>1 DEF AgentStates
    <2>3. /\ d \in DebateStates /\ d.count = st.debate.count + 1 /\ d.current = x
          /\ \A r \in Researchers :
                d.said[r] = IF r = x THEN st.debate.said[r] + 1 ELSE st.debate.said[r]
        BY <2>2 DEF DebateStates
    <2>4. s \in AgentStates /\ s.debate = d /\ s.risk = st.risk
        BY <2>1, <2>3 DEF AgentStates
    <2>5. \A r \in Researchers : st.debate.said[r] \in Nat /\ d.said[r] \in Nat
        BY <2>2, <2>3 DEF DebateStates
    <2> HIDE DEF d, s
    <2> QED BY <2>1, <2>2, <2>3, <2>4, <2>5 DEF Said, DebateStates
<1>4. next = IF s.debate.count >= 2 * job.conf.debate THEN <<"judge", "ResearchManager">>
             ELSE IF s.debate.current = "Bull" THEN <<"speaker", "Bear">> ELSE <<"speaker", "Bull">>
    BY <1>2 DEF ShouldContinueDebate, Place, AgentStates
<1> HIDE DEF d, s, next
<1> SUFFICES Place(job.conf.debate, job.conf.risk, next, s)
    BY <1>1, RunFits
<1>5. ASSUME DebateHeard(job.conf.debate, s), s.debate.count >= 2 * job.conf.debate
      PROVE  Place(job.conf.debate, job.conf.risk, next, s)
    BY <1>3, <1>4, <1>5 DEF Place, END
<1>6. ASSUME BullsTurn(job.conf.debate, s) PROVE Place(job.conf.debate, job.conf.risk, <<"speaker", "Bull">>, s)
    BY <1>3, <1>6 DEF Place, END
<1>7. ASSUME BearsTurn(job.conf.debate, s) PROVE Place(job.conf.debate, job.conf.risk, <<"speaker", "Bear">>, s)
    BY <1>3, <1>7 DEF Place, END
<1>8. CASE x = "Bull"
    <2>1. BullsTurn(job.conf.debate, st)
        BY <1>2, <1>8 DEF Place
    <2>2. CASE s.debate.count >= 2 * job.conf.debate
        <3>1. DebateHeard(job.conf.debate, s)
            BY <1>2, <1>3, <1>8, <2>1, <2>2 DEF BullsTurn, DebateCounts, DebateHeard, Researchers
        <3> QED BY <1>5, <2>2, <3>1
    <2>3. CASE ~(s.debate.count >= 2 * job.conf.debate)
        <3>1. BearsTurn(job.conf.debate, s)
            BY <1>2, <1>3, <1>8, <2>1, <2>3 DEF BullsTurn, BearsTurn, DebateCounts, Researchers
        <3> QED BY <1>3, <1>4, <1>7, <1>8, <2>3, <3>1
    <2> QED BY <2>2, <2>3
<1>9. CASE x = "Bear"
    <2>1. BearsTurn(job.conf.debate, st)
        BY <1>2, <1>9 DEF Place
    <2>2. CASE s.debate.count >= 2 * job.conf.debate
        <3>1. DebateHeard(job.conf.debate, s)
            BY <1>2, <1>3, <1>9, <2>1, <2>2 DEF BearsTurn, DebateCounts, DebateHeard, Researchers
        <3> QED BY <1>5, <2>2, <3>1
    <2>3. CASE ~(s.debate.count >= 2 * job.conf.debate)
        <3>1. BullsTurn(job.conf.debate, s)
            BY <1>2, <1>3, <1>9, <2>1, <2>3 DEF BullsTurn, BearsTurn, DebateCounts, Researchers
        <3> QED BY <1>3, <1>4, <1>6, <1>9, <2>3, <3>1
    <2> QED BY <2>2, <2>3
<1> QED BY <1>8, <1>9 DEF Researchers

LEMMA ResearchManagerFits ==
    ASSUME GraphInv, ResearchManager
    PROVE  GraphInv'
<1> DEFINE s == [st EXCEPT !.debate.judged = TRUE, !.debate.current = "plan", !.plan = TRUE]
           n == <<"trader", "Trader">>
<1>1. RunNode(<<"judge", "ResearchManager">>, n, s)
    BY DEF ResearchManager
<1>2. Place(job.conf.debate, job.conf.risk, <<"judge", "ResearchManager">>, st)
    BY <1>1 DEF GraphInv, JobFits, RunNode, Off
<1>3. st \in AgentStates /\ st.risk = NoDiscussion /\ DebateHeard(job.conf.debate, st)
    BY <1>2 DEF Place
<1>4. st.debate \in DebateStates
    BY <1>3 DEF AgentStates
<1>5. /\ s \in AgentStates /\ s.risk = st.risk /\ s.plan
      /\ s.debate.said = st.debate.said
    BY <1>3, <1>4 DEF AgentStates, DebateStates
<1> HIDE DEF s
<1>6. DebateHeard(job.conf.debate, s)
    BY <1>3, <1>5 DEF DebateHeard, Said, Researchers
<1>7. Place(job.conf.debate, job.conf.risk, n, s)
    BY <1>3, <1>5, <1>6 DEF Place, END
<1> QED BY <1>1, <1>7, RunFits

LEMMA TraderFits ==
    ASSUME GraphInv, Trader
    PROVE  GraphInv'
<1> DEFINE s == [st EXCEPT !.trader = TRUE]
<1>1. RunNode(<<"trader", "Trader">>, <<"speaker", "Aggressive">>, s)
    BY DEF Trader
<1>2. Place(job.conf.debate, job.conf.risk, <<"trader", "Trader">>, st)
    BY <1>1 DEF GraphInv, JobFits, RunNode, Off
<1>3. /\ st \in AgentStates /\ st.risk = NoDiscussion /\ st.plan
      /\ DebateHeard(job.conf.debate, st)
    BY <1>2 DEF Place
<1>4. s \in AgentStates /\ s.plan /\ s.trader /\ s.debate = st.debate /\ s.risk = NoDiscussion
    BY <1>3 DEF AgentStates
<1> HIDE DEF s
<1>5. DebateHeard(job.conf.debate, s)
    BY <1>3, <1>4 DEF DebateHeard, Said, Researchers
<1>6. s.risk.count = 0 /\ \A r \in RiskTeam : s.risk.said[r] = 0
    BY <1>4 DEF NoDiscussion
<1>7. AggressivesTurn(job.conf.risk, s)
    BY <1>6 DEF AggressivesTurn, RiskCounts, Said, Researchers, RiskTeam
<1>8. Place(job.conf.debate, job.conf.risk, <<"speaker", "Aggressive">>, s)
    BY <1>4, <1>5, <1>7 DEF Place, END
<1> QED BY <1>1, <1>8, RunFits

LEMMA DiscussFits ==
    ASSUME GraphInv, NEW x \in RiskTeam, Discuss(x)
    PROVE  GraphInv'
<1> DEFINE r == [said |-> [st.risk.said EXCEPT ![x] = @ + 1], latest |-> x,
                 judged |-> FALSE, count |-> st.risk.count + 1]
           s == [st EXCEPT !.risk = r]
           next == ShouldContinueRiskAnalysis(job.conf, r)
           rounds == job.conf.risk
<1>1. RunNode(<<"speaker", x>>, next, s)
    BY DEF Discuss
<1>2. /\ Place(job.conf.debate, rounds, <<"speaker", x>>, st)
      /\ job.conf.debate \in Nat /\ rounds \in Nat
    BY <1>1, ConfTypes DEF GraphInv, JobFits, RunNode, Off
<1>3. /\ s \in AgentStates /\ s.risk.count = st.risk.count + 1 /\ s.risk.latest = x
      /\ s.plan /\ s.trader /\ DebateHeard(job.conf.debate, s)
      /\ \A y \in RiskTeam : Said(s, y) = IF y = x THEN Said(st, y) + 1 ELSE Said(st, y)
      /\ \A y \in RiskTeam : Said(st, y) \in Nat /\ Said(s, y) \in Nat
      /\ st.risk.count \in Nat
    <2>1. st \in AgentStates /\ st.plan /\ st.trader /\ DebateHeard(job.conf.debate, st)
        BY <1>2 DEF Place, RiskTeam
    <2>2. st.risk \in DiscussionStates
        BY <2>1 DEF AgentStates
    <2>3. /\ r \in DiscussionStates /\ r.count = st.risk.count + 1 /\ r.latest = x
          /\ \A y \in RiskTeam :
                r.said[y] = IF y = x THEN st.risk.said[y] + 1 ELSE st.risk.said[y]
        BY <2>2 DEF DiscussionStates
    <2>4. /\ s \in AgentStates /\ s.risk = r /\ s.debate = st.debate
          /\ s.plan = st.plan /\ s.trader = st.trader
        BY <2>1, <2>3 DEF AgentStates
    <2>5. \A y \in RiskTeam : st.risk.said[y] \in Nat /\ r.said[y] \in Nat
        BY <2>2, <2>3 DEF DiscussionStates
    <2> HIDE DEF r, s
    <2>6. DebateHeard(job.conf.debate, s)
        BY <2>1, <2>4 DEF DebateHeard, Said, Researchers
    <2>7. \A y \in RiskTeam : Said(s, y) = r.said[y] /\ Said(st, y) = st.risk.said[y]
        BY <2>4 DEF Said, Researchers, RiskTeam
    <2> QED BY <2>1, <2>2, <2>3, <2>4, <2>5, <2>6, <2>7 DEF DiscussionStates
<1>4. next = IF s.risk.count >= 3 * rounds THEN <<"judge", "PortfolioManager">>
             ELSE IF s.risk.latest = "Aggressive" THEN <<"speaker", "Conservative">>
             ELSE IF s.risk.latest = "Conservative" THEN <<"speaker", "Neutral">>
             ELSE <<"speaker", "Aggressive">>
    BY <1>2 DEF ShouldContinueRiskAnalysis, Place, AgentStates
<1> HIDE DEF r, s, next
<1> SUFFICES Place(job.conf.debate, rounds, next, s)
    BY <1>1, RunFits
<1> HIDE DEF rounds
<1>5. ASSUME RiskHeard(rounds, s), s.risk.count >= 3 * rounds
      PROVE  Place(job.conf.debate, rounds, next, s)
    BY <1>3, <1>4, <1>5 DEF Place, END
<1>6. ASSUME AggressivesTurn(rounds, s)
      PROVE  Place(job.conf.debate, rounds, <<"speaker", "Aggressive">>, s)
    BY <1>3, <1>6 DEF Place, END
<1>7. ASSUME ConservativesTurn(rounds, s)
      PROVE  Place(job.conf.debate, rounds, <<"speaker", "Conservative">>, s)
    BY <1>3, <1>7 DEF Place, END
<1>8. ASSUME NeutralsTurn(rounds, s)
      PROVE  Place(job.conf.debate, rounds, <<"speaker", "Neutral">>, s)
    BY <1>3, <1>8 DEF Place, END
<1>9. CASE x = "Aggressive"
    <2>1. AggressivesTurn(rounds, st)
        BY <1>2, <1>9 DEF Place
    <2>2. ASSUME s.risk.count >= 3 * rounds PROVE RiskHeard(rounds, s)
        BY <1>2, <1>3, <1>9, <2>1, <2>2 DEF AggressivesTurn, RiskCounts, RiskHeard, RiskTeam
    <2>3. ASSUME ~(s.risk.count >= 3 * rounds) PROVE ConservativesTurn(rounds, s)
        BY <1>2, <1>3, <1>9, <2>1, <2>3 DEF AggressivesTurn, ConservativesTurn, RiskCounts, RiskTeam
    <2> QED BY <1>3, <1>4, <1>5, <1>7, <1>9, <2>2, <2>3
<1>10. CASE x = "Conservative"
    <2>1. ConservativesTurn(rounds, st)
        BY <1>2, <1>10 DEF Place
    <2>2. ASSUME s.risk.count >= 3 * rounds PROVE RiskHeard(rounds, s)
        BY <1>2, <1>3, <1>10, <2>1, <2>2 DEF ConservativesTurn, RiskCounts, RiskHeard, RiskTeam
    <2>3. ASSUME ~(s.risk.count >= 3 * rounds) PROVE NeutralsTurn(rounds, s)
        BY <1>2, <1>3, <1>10, <2>1, <2>3 DEF ConservativesTurn, NeutralsTurn, RiskCounts, RiskTeam
    <2> QED BY <1>3, <1>4, <1>5, <1>8, <1>10, <2>2, <2>3
<1>11. CASE x = "Neutral"
    <2>1. NeutralsTurn(rounds, st)
        BY <1>2, <1>11 DEF Place
    <2>2. ASSUME s.risk.count >= 3 * rounds PROVE RiskHeard(rounds, s)
        BY <1>2, <1>3, <1>11, <2>1, <2>2 DEF NeutralsTurn, RiskCounts, RiskHeard, RiskTeam
    <2>3. ASSUME ~(s.risk.count >= 3 * rounds) PROVE AggressivesTurn(rounds, s)
        BY <1>2, <1>3, <1>11, <2>1, <2>3 DEF NeutralsTurn, AggressivesTurn, RiskCounts, RiskTeam
    <2> QED BY <1>3, <1>4, <1>5, <1>6, <1>11, <2>2, <2>3
<1> QED BY <1>9, <1>10, <1>11 DEF RiskTeam

LEMMA PortfolioManagerFits ==
    ASSUME GraphInv, PortfolioManager
    PROVE  GraphInv'
<1> DEFINE s == [st EXCEPT !.risk.judged = TRUE, !.risk.latest = "Judge", !.decision = TRUE]
<1>1. RunNode(<<"judge", "PortfolioManager">>, END, s)
    BY DEF PortfolioManager
<1>2. Place(job.conf.debate, job.conf.risk, <<"judge", "PortfolioManager">>, st)
    BY <1>1 DEF GraphInv, JobFits, RunNode, Off
<1>3. /\ st \in AgentStates /\ st.plan /\ st.trader
      /\ DebateHeard(job.conf.debate, st) /\ RiskHeard(job.conf.risk, st)
    BY <1>2 DEF Place
<1>4. st.risk \in DiscussionStates
    BY <1>3 DEF AgentStates
<1>5. /\ s \in AgentStates /\ s.plan /\ s.trader /\ s.decision /\ s.debate = st.debate
      /\ s.risk.said = st.risk.said
    BY <1>3, <1>4 DEF AgentStates, DiscussionStates
<1> HIDE DEF s
<1>6. DebateHeard(job.conf.debate, s) /\ RiskHeard(job.conf.risk, s)
    BY <1>3, <1>5 DEF DebateHeard, RiskHeard, Said
<1>7. Place(job.conf.debate, job.conf.risk, END, s)
    BY <1>3, <1>5, <1>6 DEF Place, END
<1> QED BY <1>1, <1>7, RunFits

LEMMA NodeFits ==
    ASSUME GraphInv, Node
    PROVE  GraphInv'
<1>1. CASE MarketAnalyst \/ NewsAnalyst \/ FundamentalsAnalyst \/ SentimentAnalyst
    BY <1>1, AnalystFits DEF MarketAnalyst, NewsAnalyst, FundamentalsAnalyst, SentimentAnalyst, AnalystKeys
<1>2. CASE BullResearcher \/ BearResearcher
    BY <1>2, ArgueFits DEF BullResearcher, BearResearcher, Researchers
<1>3. CASE AggressiveDebator \/ ConservativeDebator \/ NeutralDebator
    BY <1>3, DiscussFits DEF AggressiveDebator, ConservativeDebator, NeutralDebator, RiskTeam
<1> QED BY <1>1, <1>2, <1>3, ToolsAndClearFit, ResearchManagerFits, TraderFits,
           PortfolioManagerFits DEF Node

LEMMA GraphInvInit == GraphInit => GraphInv
BY DEF GraphInit, GraphInv, JobFits, SavedFits

LEMMA GraphInvNext == GraphInv /\ [GraphNext]_graphVars => GraphInv'
<1> SUFFICES ASSUME GraphInv, [GraphNext]_graphVars PROVE GraphInv'
    OBVIOUS
<1>1. CASE Abandon
    BY <1>1 DEF Abandon, Ended, GraphInv, JobFits, SavedFits
<1>2. CASE Return
    <2>1. job' = job /\ at' = Off
        BY <1>2 DEF Return, Ended
    <2>2. SavedFits'
        BY <1>2, WithoutFits DEF Return, ClearThread, GraphInv, SavedFits
    <2> QED BY <2>1, <2>2 DEF GraphInv, JobFits
<1>3. CASE Forget
    <2>1. JobFits'
        BY <1>3 DEF Forget, GraphInv, JobFits
    <2>2. SavedFits'
        BY <1>3, WithoutFits DEF Forget, ClearThread, ClearAllCheckpoints, GraphInv
    <2> QED BY <2>1, <2>2 DEF GraphInv
<1>4. CASE UNCHANGED graphVars
    BY <1>4 DEF graphVars, GraphInv, JobFits, SavedFits
<1> QED BY <1>1, <1>2, <1>3, <1>4, InvokeFits, NodeFits DEF GraphNext

\* At the end of every run everyone has been heard, whatever the analysts, the
\* rounds and the recursion limit are, and wherever the run was resumed.
THEOREM EveryoneIsHeardAlways == GraphSpec => []EveryoneIsHeard
<1>1. ASSUME GraphInv PROVE EveryoneIsHeard
    <2> SUFFICES ASSUME at = END PROVE HeardAll(job.conf, st)
        BY DEF EveryoneIsHeard
    <2>1. job \in Jobs /\ Place(job.conf.debate, job.conf.risk, END, st)
        BY <1>1 DEF GraphInv, JobFits, Off, END
    <2>2. job.conf.debate \in Nat /\ job.conf.risk \in Nat
        BY <2>1, ConfTypes
    <2>3. /\ DebateHeard(job.conf.debate, st) /\ RiskHeard(job.conf.risk, st)
          /\ st.plan /\ st.trader /\ st.decision
        BY <2>1 DEF Place
    <2> QED BY <2>2, <2>3 DEF HeardAll, DebateHeard, RiskHeard, Said, Researchers, RiskTeam
<1> QED BY <1>1, GraphInvInit, GraphInvNext, PTL DEF GraphSpec

(***************************************************************************)
(* propagate.                                                              *)
(***************************************************************************)
LEMMA StepIsGraphStep == [Next]_engineVars => [GraphNext]_graphVars
<1> SUFFICES ASSUME [Next]_engineVars PROVE GraphNext \/ UNCHANGED graphVars
    OBVIOUS
<1>1. ASSUME NEW j \in Bookings, Propagate(j) PROVE GraphNext
    BY <1>1, BookingsAssumption DEF Propagate, GraphNext
<1>2. ASSUME NEW j \in Bookings, PropagateRaises(j) PROVE UNCHANGED graphVars
    BY <1>2 DEF PropagateRaises, graphVars
<1>3. CASE RunStep
    BY <1>3 DEF RunStep, GraphNext
<1>4. CASE RecursionError
    BY <1>4 DEF RecursionError, OutOfSteps, GraphNext
<1>5. CASE LogState \/ Store \/ NextDay
    BY <1>5 DEF LogState, Store, NextDay, graphVars
<1>6. CASE ClearAndReturn
    BY <1>6 DEF ClearAndReturn, GraphNext
<1>7. CASE Crash
    BY <1>7 DEF Crash, GraphNext
<1>8. CASE ClearCheckpoints
    <2>1. Forget
        BY <1>8 DEF ClearCheckpoints, Forget
    <2> QED BY <2>1 DEF GraphNext
<1>9. CASE UNCHANGED engineVars
    BY <1>9 DEF engineVars, graphVars
<1> QED BY <1>1, <1>2, <1>3, <1>4, <1>5, <1>6, <1>7, <1>8, <1>9 DEF Next, Progress

\* A run of propagate is a run of the debate graph.
THEOREM PropagateRunsTheGraph == Spec => GraphSpec
<1>1. Init => GraphInit
    BY DEF Init
<1> QED BY <1>1, StepIsGraphStep, PTL DEF Spec, GraphSpec

\* At the end of every run that propagate starts, everyone has been heard:
\* for all bookings, shapes of the graph and limits, and however often a run
\* was abandoned and resumed.
THEOREM EveryoneIsHeardInEveryRun == Spec => []EveryoneIsHeard
BY PropagateRunsTheGraph, EveryoneIsHeardAlways, PTL

(***************************************************************************)
(* The refinement.  Seated says, for every node, what the counters and the *)
(* flags of the state tell about who spoke last; with Place it determines  *)
(* the place in the agenda.  It is needed of the saved states too, because *)
(* a run goes on from them; that the thread of a running job holds the     *)
(* state the job is in makes the minutes follow the meeting.               *)
(***************************************************************************)
InPanel(p, a) ==
    /\ a[1] \in AnalystKinds /\ a = <<a[1], a[2]>>
    /\ \E i \in 1..Len(p) : p[i] = a[2]

Turns(n) == IF n = 0 THEN 1 ELSE n

Debating(s) == ~s.debate.judged
Discussing(d, s) == s.debate.judged /\ s.debate.count = Turns(2 * d)

Seated(p, d, k, a, s) ==
    \/ InPanel(p, a)
    \/ a = <<"speaker", "Bull">> /\ Debating(s) /\ (s.debate.count > 0 => s.debate.current = "Bear")
    \/ a = <<"speaker", "Bear">> /\ Debating(s) /\ s.debate.current = "Bull"
    \/ /\ a = <<"judge", "ResearchManager">> /\ Debating(s)
       /\ s.debate.count = Turns(2 * d) /\ s.debate.current = IF d = 0 THEN "Bull" ELSE "Bear"
    \/ a = <<"trader", "Trader">> /\ Discussing(d, s)
    \/ /\ a = <<"speaker", "Aggressive">> /\ Discussing(d, s)
       /\ s.risk.count > 0 => s.risk.latest = "Neutral"
    \/ a = <<"speaker", "Conservative">> /\ Discussing(d, s) /\ s.risk.latest = "Aggressive"
    \/ a = <<"speaker", "Neutral">> /\ Discussing(d, s) /\ s.risk.latest = "Conservative"
    \/ /\ a = <<"judge", "PortfolioManager">> /\ Discussing(d, s)
       /\ s.risk.count = Turns(3 * k) /\ s.risk.latest = IF k = 0 THEN "Aggressive" ELSE "Neutral"
    \/ a = END /\ Discussing(d, s) /\ s.risk.count = Turns(3 * k)

SeatedFor(j, a, s) == Seated(j.conf.analysts, j.conf.debate, j.conf.risk, a, s)

SavedSeated ==
    \A t \in DOMAIN saved :
        /\ t \in {Thread(j) : j \in Jobs} /\ saved[t] = [at |-> saved[t].at, st |-> saved[t].st]
        /\ Seated(t[3][1], t[3][2], t[3][3], saved[t].at, saved[t].st)

JobSeated == at # Off => SeatedFor(job, at, st)

JobMinuted ==
    at # Off /\ job.checkpoint =>
        Thread(job) \in DOMAIN saved /\ saved[Thread(job)] = [at |-> at, st |-> st]

MeetingInv ==
    GraphInv /\ SavedSeated /\ JobSeated /\ JobMinuted /\ (pc = "idle" <=> at = Off)

LEMMA PanelTypes ==
    ASSUME NEW j \in Jobs
    PROVE  /\ j.conf.analysts \in Seq(AnalystKeys) /\ Len(j.conf.analysts) \in Nat \ {0}
           /\ \A i, k \in 1..Len(j.conf.analysts) :
                 j.conf.analysts[i] = j.conf.analysts[k] => i = k
           /\ j.conf.debate \in Nat /\ j.conf.risk \in Nat
           /\ Thread(j)[3][1] = j.conf.analysts
           /\ Thread(j)[3][2] = j.conf.debate /\ Thread(j)[3][3] = j.conf.risk
BY GraphAssumption DEF Jobs, Thread, Signature

\* A concatenation, by its parts.
Joins(S, p, m, q, l, r) ==
    /\ r \in Seq(S) /\ Len(r) = m + l /\ m + l \in Nat
    /\ \A i \in 1..m : r[i] = p[i]
    /\ \A i \in 1..l : r[m + i] = q[i]

LEMMA TwoParts ==
    \A S, p, q, m, l :
        p \in Seq(S) /\ Len(p) = m /\ q \in Seq(S) /\ Len(q) = l => Joins(S, p, m, q, l, p \o q)
BY DEF Joins

\* A sequence made of five parts, by its parts.
IsFive(S, P, n, D, d, M, K, k, E, A) ==
    /\ P \in Seq(S) /\ D \in Seq(S) /\ M \in Seq(S) /\ K \in Seq(S) /\ E \in Seq(S)
    /\ n \in Nat /\ d \in Nat /\ k \in Nat
    /\ Len(P) = n /\ Len(D) = d /\ Len(M) = 2 /\ Len(K) = k /\ Len(E) = 1
    /\ A = P \o D \o M \o K \o E

HasFive(P, n, D, d, M, K, k, E, A) ==
    /\ Len(A) = n + d + 2 + k + 1
    /\ \A i \in 1..n : A[i] = P[i]
    /\ \A i \in 1..d : A[n + i] = D[i]
    /\ A[n + d + 1] = M[1] /\ A[n + d + 2] = M[2]
    /\ \A i \in 1..k : A[n + d + 2 + i] = K[i]
    /\ A[n + d + 2 + k + 1] = E[1]

LEMMA FiveParts ==
    \A S, P, n, D, d, M, K, k, E, A :
        IsFive(S, P, n, D, d, M, K, k, E, A) => HasFive(P, n, D, d, M, K, k, E, A)
<1> SUFFICES ASSUME NEW S, NEW P, NEW n, NEW D, NEW d, NEW M, NEW K, NEW k, NEW E, NEW A,
                    IsFive(S, P, n, D, d, M, K, k, E, A)
             PROVE  HasFive(P, n, D, d, M, K, k, E, A)
    OBVIOUS
<1> USE DEF IsFive
<1>1. PICK F : F = P \o D
    OBVIOUS
<1>2. PICK G : G = F \o M
    OBVIOUS
<1>3. PICK H : H = G \o K
    OBVIOUS
<1>4. A = H \o E
    BY <1>1, <1>2, <1>3, Zenon
<1>5. Joins(S, P, n, D, d, F)
    BY <1>1, TwoParts, Zenon
<1>6. Joins(S, F, n + d, M, 2, G)
    <2>1. F \in Seq(S) /\ Len(F) = n + d
        BY <1>5, Zenon DEF Joins
    <2> QED BY <1>2, <2>1, TwoParts, Zenon
<1>7. Joins(S, G, n + d + 2, K, k, H)
    <2>1. G \in Seq(S) /\ Len(G) = n + d + 2
        BY <1>6, Zenon DEF Joins
    <2> QED BY <1>3, <2>1, TwoParts, Zenon
<1>8. Joins(S, H, n + d + 2 + k, E, 1, A)
    <2>1. H \in Seq(S) /\ Len(H) = n + d + 2 + k
        BY <1>7, Zenon DEF Joins
    <2> QED BY <1>4, <2>1, TwoParts, Zenon
<1>9. /\ \A i \in 1..n : i \in 1..n + d /\ i \in 1..n + d + 2 /\ i \in 1..n + d + 2 + k
      /\ \A i \in 1..d : n + i \in 1..n + d /\ n + i \in 1..n + d + 2 /\ n + i \in 1..n + d + 2 + k
      /\ \A i \in 1..2 : n + d + i \in 1..n + d + 2 /\ n + d + i \in 1..n + d + 2 + k
      /\ \A i \in 1..k : n + d + 2 + i \in 1..n + d + 2 + k
      /\ 1 \in 1..2 /\ 2 \in 1..2 /\ 1 \in 1..1
    <2>1. n \in Nat /\ d \in Nat /\ k \in Nat
        BY Zenon
    <2> QED BY ONLY <2>1
<1>10. ASSUME NEW i \in 1..n PROVE A[i] = P[i]
    <2>1. A[i] = H[i] /\ H[i] = G[i] /\ G[i] = F[i] /\ F[i] = P[i]
        BY <1>5, <1>6, <1>7, <1>8, <1>9, Zenon DEF Joins
    <2> QED BY <2>1, Zenon
<1>11. ASSUME NEW i \in 1..d PROVE A[n + i] = D[i]
    <2>1. A[n + i] = H[n + i] /\ H[n + i] = G[n + i] /\ G[n + i] = F[n + i] /\ F[n + i] = D[i]
        BY <1>5, <1>6, <1>7, <1>8, <1>9, Zenon DEF Joins
    <2> QED BY <2>1, Zenon
<1>12. ASSUME NEW i \in 1..2 PROVE A[n + d + i] = M[i]
    <2>1. A[n + d + i] = H[n + d + i] /\ H[n + d + i] = G[n + d + i] /\ G[n + d + i] = M[i]
        BY <1>6, <1>7, <1>8, <1>9, Zenon DEF Joins
    <2> QED BY <2>1, Zenon
<1>13. ASSUME NEW i \in 1..k PROVE A[n + d + 2 + i] = K[i]
    <2>1. A[n + d + 2 + i] = H[n + d + 2 + i] /\ H[n + d + 2 + i] = K[i]
        BY <1>7, <1>8, <1>9, Zenon DEF Joins
    <2> QED BY <2>1, Zenon
<1>14. A[n + d + 2 + k + 1] = E[1] /\ Len(A) = n + d + 2 + k + 1
    <2>1. \A i \in 1..1 : A[n + d + 2 + k + i] = E[i]
        BY <1>8, Zenon DEF Joins
    <2>2. Len(A) = n + d + 2 + k + 1
        BY <1>8, Zenon DEF Joins
    <2> QED BY <1>9, <2>1, <2>2, Zenon
<1> QED BY <1>9, <1>10, <1>11, <1>12, <1>13, <1>14, Zenon DEF HasFive

Speakers == AnalystKeys \union Researchers \union RiskTeam
              \union {"ResearchManager", "Trader", "PortfolioManager"}

\* Who has which turn on the agenda, with n analysts, d speeches in the debate
\* and k in the discussion.
LEMMA AgendaOrder ==
    ASSUME NEW j \in Jobs
    PROVE  LET n == Len(j.conf.analysts)
               d == Turns(2 * j.conf.debate)
               k == Turns(3 * j.conf.risk)
               A == Meeting!Agenda(Thread(j))
           IN  /\ Len(A) = n + d + 2 + k + 1
               /\ \A i \in 1..n : A[i] = j.conf.analysts[i]
               /\ \A i \in 1..d : A[n + i] = IF i % 2 = 1 THEN "Bull" ELSE "Bear"
               /\ A[n + d + 1] = "ResearchManager" /\ A[n + d + 2] = "Trader"
               /\ \A i \in 1..k : A[n + d + 2 + i] = Meeting!RiskTurns[1 + ((i - 1) % 3)]
               /\ A[n + d + 2 + k + 1] = "PortfolioManager"
<1> DEFINE n == Len(j.conf.analysts)
           d == Turns(2 * j.conf.debate)
           k == Turns(3 * j.conf.risk)
           A == Meeting!Agenda(Thread(j))
           P == j.conf.analysts
           D == [i \in 1..d |-> IF i % 2 = 1 THEN "Bull" ELSE "Bear"]
           M == <<"ResearchManager", "Trader">>
           K == [i \in 1..k |-> Meeting!RiskTurns[1 + ((i - 1) % 3)]]
           E == <<"PortfolioManager">>
<1>1. n \in Nat /\ d \in Nat /\ k \in Nat
    BY PanelTypes DEF Turns
<1>2. A = P \o D \o M \o K \o E
    <2>1. Meeting!Panel(Thread(j)) = P /\ Meeting!Debate(Thread(j)) = d /\ Meeting!Discussion(Thread(j)) = k
        BY PanelTypes DEF Meeting!Panel, Meeting!Debate, Meeting!Discussion, Meeting!AtLeastOne, Turns
    <2> QED BY <2>1 DEF Meeting!Agenda
<1>3. P \in Seq(Speakers)
    <2>1. P \in Seq(AnalystKeys) /\ AnalystKeys \subseteq Speakers
        BY PanelTypes DEF Speakers
    <2> QED BY ONLY <2>1
<1> HIDE DEF n, d, k
<1>4. D \in Seq(Speakers) /\ Len(D) = d
    BY <1>1 DEF Speakers, Researchers
<1>5. M \in Seq(Speakers) /\ Len(M) = 2 /\ M[1] = "ResearchManager" /\ M[2] = "Trader"
    BY DEF Speakers
<1>6. K \in Seq(Speakers) /\ Len(K) = k
    <2>1. \A i \in 1..k : 1 + ((i - 1) % 3) \in 1..3
        BY <1>1
    <2>2. \A x \in 1..3 : Meeting!RiskTurns[x] \in Speakers
        <3>1. Meeting!RiskTurns = <<"Aggressive", "Conservative", "Neutral">>
            BY DEF Meeting!RiskTurns
        <3>2. RiskTeam \subseteq Speakers
            BY DEF Speakers
        <3> QED BY ONLY <3>1, <3>2 DEF RiskTeam
    <2>3. \A i \in 1..k : Meeting!RiskTurns[1 + ((i - 1) % 3)] \in Speakers
        BY <2>1, <2>2
    <2> QED BY <1>1, <2>3
<1>7. E \in Seq(Speakers) /\ Len(E) = 1 /\ E[1] = "PortfolioManager"
    BY DEF Speakers
<1>8. /\ \A i \in 1..d : D[i] = IF i % 2 = 1 THEN "Bull" ELSE "Bear"
      /\ \A i \in 1..k : K[i] = Meeting!RiskTurns[1 + ((i - 1) % 3)]
    OBVIOUS
<1>9. Len(P) = n
    BY DEF n
<1> HIDE DEF A, P, D, M, K, E
<1>10. HasFive(P, n, D, d, M, K, k, E, A)
    <2>1. IsFive(Speakers, P, n, D, d, M, K, k, E, A)
        BY <1>1, <1>2, <1>3, <1>4, <1>5, <1>6, <1>7, <1>9, Zenon DEF IsFive
    <2> QED BY <2>1, FiveParts, Zenon
<1>11. /\ Len(A) = n + d + 2 + k + 1
       /\ \A i \in 1..n : A[i] = P[i]
       /\ \A i \in 1..d : A[n + i] = IF i % 2 = 1 THEN "Bull" ELSE "Bear"
       /\ A[n + d + 1] = "ResearchManager" /\ A[n + d + 2] = "Trader"
       /\ \A i \in 1..k : A[n + d + 2 + i] = Meeting!RiskTurns[1 + ((i - 1) % 3)]
       /\ A[n + d + 2 + k + 1] = "PortfolioManager"
    <2>1. ASSUME NEW i \in 1..d PROVE A[n + i] = IF i % 2 = 1 THEN "Bull" ELSE "Bear"
        <3>1. A[n + i] = D[i]
            BY <1>10, Zenon DEF HasFive
        <3>2. D[i] = IF i % 2 = 1 THEN "Bull" ELSE "Bear"
            BY <1>8, Zenon
        <3> QED BY ONLY <3>1, <3>2
    <2>2. ASSUME NEW i \in 1..k PROVE A[n + d + 2 + i] = Meeting!RiskTurns[1 + ((i - 1) % 3)]
        <3>1. A[n + d + 2 + i] = K[i]
            BY <1>10, Zenon DEF HasFive
        <3>2. K[i] = Meeting!RiskTurns[1 + ((i - 1) % 3)]
            BY <1>8, Zenon
        <3> QED BY <3>1, <3>2, Zenon
    <2> QED BY <1>5, <1>7, <1>10, <2>1, <2>2, Zenon DEF HasFive
<1> QED BY ONLY <1>11 DEF n, d, k, A, P

LEMMA SeatOf ==
    ASSUME NEW j \in Jobs, NEW i \in 1..Len(j.conf.analysts)
    PROVE  Seat(j.conf, j.conf.analysts[i]) = i
<1> DEFINE p == j.conf.analysts
<1>1. DOMAIN p = 1..Len(p) /\ \A x, y \in 1..Len(p) : p[x] = p[y] => x = y
    BY PanelTypes
<1> HIDE DEF p
<1>2. \E x \in DOMAIN p : p[x] = p[i]
    BY <1>1 DEF p
<1>3. (CHOOSE x \in DOMAIN p : p[x] = p[i]) = i
    BY <1>1, <1>2 DEF p
<1> QED BY <1>3 DEF Seat, p

LEMMA PlaceTypes ==
    ASSUME NEW d, NEW k, NEW a, NEW s, Place(d, k, a, s)
    PROVE  /\ s.debate.count \in Nat /\ s.risk.count \in Nat
           /\ s.debate.judged \in BOOLEAN
BY DEF Place, AgentStates, DebateStates, DiscussionStates

\* The place a state stands for is on the agenda, and whoever spoke last had
\* the turn that leads there.
LEMMA SpeakerHadTheTurn ==
    ASSUME NEW j \in Jobs, NEW a, NEW s,
           Place(j.conf.debate, j.conf.risk, a, s), SeatedFor(j, a, s)
    PROVE  /\ Reached(j.conf, a, s) \in 0..Len(Meeting!Agenda(Thread(j)))
           /\ LastSpeaker(j.conf, a, s) = Meeting!Turn(Thread(j), Reached(j.conf, a, s))
<1> DEFINE c == j.conf
           n == Len(j.conf.analysts)
           d == Turns(2 * j.conf.debate)
           k == Turns(3 * j.conf.risk)
           A == Meeting!Agenda(Thread(j))
           here == Reached(j.conf, a, s)
<1>1. n \in Nat \ {0} /\ d \in Nat \ {0} /\ k \in Nat \ {0} /\ c.debate \in Nat /\ c.risk \in Nat
    BY PanelTypes DEF Turns
<1>2. /\ Len(A) = n + d + 2 + k + 1
      /\ \A i \in 1..n : A[i] = c.analysts[i]
      /\ \A i \in 1..d : A[n + i] = IF i % 2 = 1 THEN "Bull" ELSE "Bear"
      /\ A[n + d + 1] = "ResearchManager" /\ A[n + d + 2] = "Trader"
      /\ \A i \in 1..k : A[n + d + 2 + i] = Meeting!RiskTurns[1 + ((i - 1) % 3)]
      /\ A[n + d + 2 + k + 1] = "PortfolioManager"
    BY AgendaOrder
<1>L. Len(A) = n + d + 2 + k + 1
    BY <1>2, Zenon
<1>P. ASSUME NEW i \in 1..n PROVE A[i] = c.analysts[i]
    BY <1>2, Zenon
<1>D. ASSUME NEW i \in 1..d PROVE A[n + i] = IF i % 2 = 1 THEN "Bull" ELSE "Bear"
    BY <1>2, Zenon
<1>M. A[n + d + 1] = "ResearchManager" /\ A[n + d + 2] = "Trader"
    BY <1>2, Zenon
<1>E. A[n + d + 2 + k + 1] = "PortfolioManager"
    BY <1>2, Zenon
<1>3. s.debate.count \in Nat /\ s.risk.count \in Nat
    BY PlaceTypes
<1> SUFFICES here \in 0..Len(A) /\ LastSpeaker(c, a, s) = IF here = 0 THEN "nobody" ELSE A[here]
    BY DEF Meeting!Turn
<1>4. CASE InPanel(c.analysts, a)
    <2>1. PICK i \in 1..n : c.analysts[i] = a[2]
        BY <1>4 DEF InPanel
    <2>2. Seat(c, a[2]) = i
        BY <2>1, SeatOf
    <2>3. here = i - One(a[1] # "clear") /\ LastSpeaker(c, a, s) = Before(c, here)
        BY <1>4, <2>2 DEF InPanel, Reached, LastSpeaker
    <2>4. here \in 0..n
        BY <1>1, <2>3 DEF One
    <2> HIDE DEF here, A, n, d, k
    <2>5. here # 0 => A[here] = c.analysts[here]
        BY <1>1, <1>P, <2>4
    <2>6. LastSpeaker(c, a, s) = IF here = 0 THEN "nobody" ELSE c.analysts[here]
        BY <2>3 DEF Before
    <2>7. here \in 0..Len(A)
        BY <1>1, <1>L, <2>4
    <2> QED BY <2>5, <2>6, <2>7, Zenon
<1>5. ASSUME a[1] \notin AnalystKinds
      PROVE  here = n + s.debate.count + One(s.debate.judged)
                      + One(a[2] \in RiskTeam \union {"PortfolioManager", "end"})
                      + s.risk.count + One(a = END)
    BY <1>5 DEF Reached
<1> HIDE DEF A, n, d, k, here
<1>6. CASE a = <<"speaker", "Bull">>
    <2>1. s.risk.count = 0 /\ BullsTurn(c.debate, s) /\ \A r \in Researchers : Said(s, r) \in Nat
        BY <1>6 DEF Place, NoDiscussion, AgentStates, DebateStates, Said
    <2>2. ~s.debate.judged /\ (s.debate.count > 0 => s.debate.current = "Bear")
        BY <1>6 DEF SeatedFor, Seated, Debating, InPanel, AnalystKinds, END
    <2>3. here = n + s.debate.count
        BY <1>1, <1>3, <1>5, <1>6, <2>1, <2>2 DEF One, RiskTeam, END, AnalystKinds
    <2>4. LastSpeaker(c, a, s) = IF s.debate.count > 0 THEN "Bear" ELSE c.analysts[n]
        BY <1>1, <1>6, <2>1, <2>2 DEF LastSpeaker, Before, AnalystKinds, END, n
    <2>5. s.debate.count % 2 = 0 /\ s.debate.count <= d
        BY <1>1, <2>1 DEF BullsTurn, DebateCounts, Researchers, Turns, d
    <2>6. CASE s.debate.count = 0
        BY <1>1, <1>L, <1>P, <2>3, <2>4, <2>6
    <2>7. CASE s.debate.count > 0
        <3>1. A[n + s.debate.count] = "Bear"
            BY <1>D, <1>3, <2>5, <2>7
        <3> QED BY <1>1, <1>L, <1>3, <2>3, <2>4, <2>5, <2>7, <3>1
    <2> QED BY <1>3, <2>6, <2>7
<1>7. CASE a = <<"speaker", "Bear">>
    <2>1. s.risk.count = 0 /\ BearsTurn(c.debate, s) /\ \A r \in Researchers : Said(s, r) \in Nat
        BY <1>7 DEF Place, NoDiscussion, AgentStates, DebateStates, Said
    <2>2. ~s.debate.judged /\ s.debate.current = "Bull"
        BY <1>7 DEF SeatedFor, Seated, Debating, InPanel, AnalystKinds, END
    <2>3. here = n + s.debate.count
        BY <1>1, <1>3, <1>5, <1>7, <2>1, <2>2 DEF One, RiskTeam, END, AnalystKinds
    <2>4. s.debate.count % 2 = 1 /\ s.debate.count <= d /\ s.debate.count > 0
        BY <1>1, <2>1 DEF BearsTurn, DebateCounts, Researchers, Turns, d
    <2>5. LastSpeaker(c, a, s) = "Bull"
        BY <1>7, <2>1, <2>2, <2>4 DEF LastSpeaker, AnalystKinds, END
    <2>6. A[n + s.debate.count] = "Bull"
        BY <1>D, <1>3, <2>4
    <2> QED BY <1>1, <1>L, <1>3, <2>3, <2>4, <2>5, <2>6
<1>8. CASE a = <<"judge", "ResearchManager">>
    <2>1. s.risk.count = 0
        <3>1. s.risk = NoDiscussion
            BY <1>8, Zenon DEF Place
        <3> QED BY <3>1 DEF NoDiscussion
    <2>2. /\ ~s.debate.judged /\ s.debate.count = d
          /\ s.debate.current = IF c.debate = 0 THEN "Bull" ELSE "Bear"
        BY <1>8 DEF SeatedFor, Seated, Debating, InPanel, AnalystKinds, END, d
    <2>0. /\ a[1] = "judge" /\ a[1] \notin AnalystKinds /\ a # END
          /\ a[2] \notin RiskTeam \union {"PortfolioManager", "end"} /\ a[2] # "Aggressive"
        BY <1>8, Zenon DEF AnalystKinds, END, RiskTeam
    <2>3. here = n + d
        <3>1. One(s.debate.judged) = 0 /\ One(a = END) = 0
            BY <2>0, <2>2, Zenon DEF One
        <3>2. One(a[2] \in RiskTeam \union {"PortfolioManager", "end"}) = 0
            BY <2>0, Zenon DEF One
        <3>3. here = n + s.debate.count + One(s.debate.judged)
                      + One(a[2] \in RiskTeam \union {"PortfolioManager", "end"})
                      + s.risk.count + One(a = END)
            BY <1>5, <2>0, Zenon
        <3>4. here = n + d + 0 + 0 + 0 + 0
            BY <2>1, <2>2, <3>1, <3>2, <3>3, Zenon
        <3> QED BY <1>1, <3>4
    <2>4. LastSpeaker(c, a, s) = IF c.debate = 0 THEN "Bull" ELSE "Bear"
        <3>1. s.debate.count > 0 /\ ~(s.risk.count > 0)
            BY <1>1, <2>1, <2>2
        <3> QED BY <2>0, <2>2, <3>1, Zenon DEF LastSpeaker
    <2>5. d % 2 = IF c.debate = 0 THEN 1 ELSE 0
        BY <1>1 DEF d, Turns
    <2>6. A[n + d] = IF d % 2 = 1 THEN "Bull" ELSE "Bear"
        BY <1>1, <1>D
    <2> QED BY <1>1, <1>L, <2>3, <2>4, <2>5, <2>6
<1>9. CASE a = <<"trader", "Trader">>
    <2>1. s.risk.count = 0
        BY <1>9 DEF Place, NoDiscussion
    <2>2. s.debate.judged /\ s.debate.count = d
        BY <1>9 DEF SeatedFor, Seated, Discussing, InPanel, AnalystKinds, END, d
    <2>3. here = n + d + 1
        BY <1>1, <1>5, <1>9, <2>1, <2>2 DEF One, RiskTeam, END, AnalystKinds
    <2>4. LastSpeaker(c, a, s) = "ResearchManager"
        BY <1>9, <2>1, <2>2 DEF LastSpeaker, AnalystKinds, END
    <2>5. here \in 0..Len(A) /\ here # 0
        BY <1>1, <1>L, <2>3
    <2> QED BY <1>M, <2>3, <2>4, <2>5, Zenon
<1>10. ASSUME NEW i \in 1..k
       PROVE  A[n + d + 2 + i] = IF i % 3 = 1 THEN "Aggressive" ELSE IF i % 3 = 2 THEN "Conservative"
                                 ELSE "Neutral"
    <2>1. A[n + d + 2 + i] = Meeting!RiskTurns[1 + ((i - 1) % 3)]
        BY <1>2, Zenon
    <2>2. /\ Meeting!RiskTurns[1] = "Aggressive" /\ Meeting!RiskTurns[2] = "Conservative"
          /\ Meeting!RiskTurns[3] = "Neutral"
        BY DEF Meeting!RiskTurns
    <2>3. 1 + ((i - 1) % 3) = IF i % 3 = 0 THEN 3 ELSE i % 3
        BY <1>1
    <2>4. i % 3 \in 0..2
        BY <1>1
    <2> QED BY <2>1, <2>2, <2>3, <2>4
<1>11. CASE a = <<"speaker", "Aggressive">>
    <2>1. AggressivesTurn(c.risk, s) /\ \A r \in RiskTeam : Said(s, r) \in Nat
        BY <1>11 DEF Place, AgentStates, DiscussionStates, Said, RiskTeam, Researchers
    <2>2. s.debate.judged /\ s.debate.count = d /\ (s.risk.count > 0 => s.risk.latest = "Neutral")
        BY <1>11 DEF SeatedFor, Seated, Discussing, InPanel, AnalystKinds, END, d
    <2>3. here = n + d + 2 + s.risk.count
        BY <1>1, <1>3, <1>5, <1>11, <2>2 DEF One, RiskTeam, END, AnalystKinds
    <2>4. LastSpeaker(c, a, s) = IF s.risk.count > 0 THEN "Neutral" ELSE "Trader"
        BY <1>11, <2>2 DEF LastSpeaker, AnalystKinds, END
    <2>5. s.risk.count % 3 = 0 /\ s.risk.count <= k
        BY <1>1, <2>1 DEF AggressivesTurn, RiskCounts, RiskTeam, Turns, k
    <2>6. CASE s.risk.count = 0
        <3>1. here = n + d + 2 /\ here \in 0..Len(A) /\ here # 0 /\ ~(s.risk.count > 0)
            BY <1>1, <1>L, <2>3, <2>6
        <3> QED BY <1>M, <2>4, <3>1, Zenon
    <2>7. CASE s.risk.count > 0
        <3>1. A[n + d + 2 + s.risk.count] = "Neutral"
            BY <1>3, <1>10, <2>5, <2>7
        <3> QED BY <1>1, <1>L, <1>3, <2>3, <2>4, <2>5, <2>7, <3>1
    <2> QED BY <1>3, <2>6, <2>7
<1>12. CASE a = <<"speaker", "Conservative">>
    <2>1. ConservativesTurn(c.risk, s) /\ \A r \in RiskTeam : Said(s, r) \in Nat
        BY <1>12 DEF Place, AgentStates, DiscussionStates, Said, RiskTeam, Researchers
    <2>2. s.debate.judged /\ s.debate.count = d /\ s.risk.latest = "Aggressive"
        BY <1>12 DEF SeatedFor, Seated, Discussing, InPanel, AnalystKinds, END, d
    <2>3. here = n + d + 2 + s.risk.count
        BY <1>1, <1>3, <1>5, <1>12, <2>2 DEF One, RiskTeam, END, AnalystKinds
    <2>4. s.risk.count % 3 = 1 /\ s.risk.count <= k /\ s.risk.count > 0
        BY <1>1, <2>1 DEF ConservativesTurn, RiskCounts, RiskTeam, Turns, k
    <2>5. LastSpeaker(c, a, s) = "Aggressive"
        BY <1>12, <2>2, <2>4 DEF LastSpeaker, AnalystKinds, END
    <2>6. A[n + d + 2 + s.risk.count] = "Aggressive"
        BY <1>3, <1>10, <2>4
    <2> QED BY <1>1, <1>L, <1>3, <2>3, <2>4, <2>5, <2>6
<1>13. CASE a = <<"speaker", "Neutral">>
    <2>1. NeutralsTurn(c.risk, s) /\ \A r \in RiskTeam : Said(s, r) \in Nat
        BY <1>13 DEF Place, AgentStates, DiscussionStates, Said, RiskTeam, Researchers
    <2>2. s.debate.judged /\ s.debate.count = d /\ s.risk.latest = "Conservative"
        BY <1>13 DEF SeatedFor, Seated, Discussing, InPanel, AnalystKinds, END, d
    <2>3. here = n + d + 2 + s.risk.count
        BY <1>1, <1>3, <1>5, <1>13, <2>2 DEF One, RiskTeam, END, AnalystKinds
    <2>4. s.risk.count % 3 = 2 /\ s.risk.count <= k /\ s.risk.count > 0
        BY <1>1, <2>1 DEF NeutralsTurn, RiskCounts, RiskTeam, Turns, k
    <2>5. LastSpeaker(c, a, s) = "Conservative"
        BY <1>13, <2>2, <2>4 DEF LastSpeaker, AnalystKinds, END
    <2>6. A[n + d + 2 + s.risk.count] = "Conservative"
        BY <1>3, <1>10, <2>4
    <2> QED BY <1>1, <1>L, <1>3, <2>3, <2>4, <2>5, <2>6
<1>14. CASE a = <<"judge", "PortfolioManager">>
    <2>1. /\ s.debate.judged /\ s.debate.count = d /\ s.risk.count = k
          /\ s.risk.latest = IF c.risk = 0 THEN "Aggressive" ELSE "Neutral"
        BY <1>14 DEF SeatedFor, Seated, Discussing, InPanel, AnalystKinds, END, d, k
    <2>0. /\ a[1] = "judge" /\ a[1] \notin AnalystKinds /\ a # END
          /\ a[2] \in RiskTeam \union {"PortfolioManager", "end"}
        BY <1>14, Zenon DEF AnalystKinds, END
    <2>2. here = n + d + 2 + k
        <3>1. One(s.debate.judged) = 1 /\ One(a = END) = 0
            BY <2>0, <2>1, Zenon DEF One
        <3>2. One(a[2] \in RiskTeam \union {"PortfolioManager", "end"}) = 1
            BY <2>0, Zenon DEF One
        <3>3. here = n + s.debate.count + One(s.debate.judged)
                      + One(a[2] \in RiskTeam \union {"PortfolioManager", "end"})
                      + s.risk.count + One(a = END)
            BY <1>5, <2>0, Zenon
        <3>4. here = n + d + 1 + 1 + k + 0
            BY <2>1, <3>1, <3>2, <3>3, Zenon
        <3> QED BY <1>1, <3>4
    <2>3. LastSpeaker(c, a, s) = IF c.risk = 0 THEN "Aggressive" ELSE "Neutral"
        <3>1. s.risk.count > 0
            BY <1>1, <2>1
        <3> QED BY <2>0, <2>1, <3>1, Zenon DEF LastSpeaker
    <2>4. k % 3 = IF c.risk = 0 THEN 1 ELSE 0
        BY <1>1 DEF k, Turns
    <2>5. A[n + d + 2 + k] = IF k % 3 = 1 THEN "Aggressive" ELSE IF k % 3 = 2 THEN "Conservative"
                             ELSE "Neutral"
        BY <1>1, <1>10
    <2> QED BY <1>1, <1>L, <2>2, <2>3, <2>4, <2>5
<1>15. CASE a = END
    <2>1. s.debate.judged /\ s.debate.count = d /\ s.risk.count = k
        BY <1>15 DEF SeatedFor, Seated, Discussing, InPanel, AnalystKinds, END, d, k
    <2>2. here = n + d + 2 + k + 1
        BY <1>1, <1>5, <1>15, <2>1 DEF One, RiskTeam, END, AnalystKinds
    <2>3. LastSpeaker(c, a, s) = "PortfolioManager"
        BY <1>15 DEF LastSpeaker, AnalystKinds, END
    <2>4. here \in 0..Len(A) /\ here # 0
        BY <1>1, <1>L, <2>2
    <2> QED BY <1>E, <2>2, <2>3, <2>4, Zenon
<1> QED BY <1>4, <1>6, <1>7, <1>8, <1>9, <1>11, <1>12, <1>13, <1>14, <1>15 DEF SeatedFor, Seated

(***************************************************************************)
(* Every node leaves somebody seated and moves the meeting by one turn or  *)
(* not at all.                                                             *)
(***************************************************************************)
DebateNodes ==
    {<<"speaker", "Bull">>, <<"speaker", "Bear">>, <<"judge", "ResearchManager">>, <<"trader", "Trader">>}
RiskNodes ==
    {<<"speaker", "Aggressive">>, <<"speaker", "Conservative">>, <<"speaker", "Neutral">>,
     <<"judge", "PortfolioManager">>}

LEMMA ReachedInDebate ==
    ASSUME NEW j \in Jobs, NEW a \in DebateNodes, NEW s, s.debate.count \in Nat, s.risk.count = 0
    PROVE  Reached(j.conf, a, s) = Len(j.conf.analysts) + s.debate.count + One(s.debate.judged)
<1>1. Len(j.conf.analysts) \in Nat /\ One(s.debate.judged) \in Nat
    BY PanelTypes DEF One
<1> DEFINE Early(x) == /\ x[1] \notin AnalystKinds /\ x # END
                        /\ x[2] \notin RiskTeam \union {"PortfolioManager", "end"}
<1>2. Early(a)
    <2>1. Early(<<"speaker", "Bull">>)
        BY Zenon DEF AnalystKinds, END, RiskTeam
    <2>2. Early(<<"speaker", "Bear">>)
        BY Zenon DEF AnalystKinds, END, RiskTeam
    <2>3. Early(<<"judge", "ResearchManager">>)
        BY Zenon DEF AnalystKinds, END, RiskTeam
    <2>4. Early(<<"trader", "Trader">>)
        BY Zenon DEF AnalystKinds, END, RiskTeam
    <2> HIDE DEF Early
    <2> QED BY <2>1, <2>2, <2>3, <2>4, Zenon DEF DebateNodes
<1>3. One(a[2] \in RiskTeam \union {"PortfolioManager", "end"}) = 0 /\ One(a = END) = 0
    BY <1>2, Zenon DEF One
<1>4. Reached(j.conf, a, s) = Len(j.conf.analysts) + s.debate.count + One(s.debate.judged) + 0 + 0 + 0
    BY <1>2, <1>3, Zenon DEF Reached
<1> QED BY <1>1, <1>4

LEMMA ReachedInDiscussion ==
    ASSUME NEW j \in Jobs, NEW a \in RiskNodes \union {END}, NEW s,
           s.debate.count \in Nat, s.risk.count \in Nat, s.debate.judged
    PROVE  Reached(j.conf, a, s) =
               Len(j.conf.analysts) + s.debate.count + 2 + s.risk.count + One(a = END)
<1>1. Len(j.conf.analysts) \in Nat /\ One(a = END) \in Nat
    BY PanelTypes DEF One
<1> DEFINE Late(x) == x[1] \notin AnalystKinds /\ x[2] \in RiskTeam \union {"PortfolioManager", "end"}
<1>2. Late(a)
    <2>1. Late(<<"speaker", "Aggressive">>)
        BY Zenon DEF AnalystKinds, RiskTeam
    <2>2. Late(<<"speaker", "Conservative">>)
        BY Zenon DEF AnalystKinds, RiskTeam
    <2>3. Late(<<"speaker", "Neutral">>)
        BY Zenon DEF AnalystKinds, RiskTeam
    <2>4. Late(<<"judge", "PortfolioManager">>)
        BY Zenon DEF AnalystKinds, RiskTeam
    <2>5. Late(END)
        BY Zenon DEF AnalystKinds, END
    <2> HIDE DEF Late
    <2> QED BY <2>1, <2>2, <2>3, <2>4, <2>5, Zenon DEF RiskNodes
<1>3. One(a[2] \in RiskTeam \union {"PortfolioManager", "end"}) = 1 /\ One(s.debate.judged) = 1
    BY <1>2, Zenon DEF One
<1>4. Reached(j.conf, a, s) =
          Len(j.conf.analysts) + s.debate.count + 1 + 1 + s.risk.count + One(a = END)
    BY <1>2, <1>3, Zenon DEF Reached
<1> QED BY <1>1, <1>4

LEMMA ReachedByAnalyst ==
    ASSUME NEW j \in Jobs, NEW i \in 1..Len(j.conf.analysts), NEW s, NEW kind \in AnalystKinds
    PROVE  Reached(j.conf, <<kind, j.conf.analysts[i]>>, s) = i - One(kind # "clear")
BY SeatOf DEF Reached

\* What a step to node a with state s must leave.
Advances(a, s) ==
    /\ SeatedFor(job, a, s)
    /\ \/ Reached(job.conf, a, s) = Reached(job.conf, at, st)
       \/ Reached(job.conf, a, s) = Reached(job.conf, at, st) + 1

LEMMA AtNode ==
    ASSUME MeetingInv, NEW n, n # Off, at = n
    PROVE  /\ job \in Jobs /\ Place(job.conf.debate, job.conf.risk, n, st) /\ SeatedFor(job, n, st)
           /\ st \in AgentStates /\ st.debate.count \in Nat /\ st.risk.count \in Nat
           /\ job.conf.debate \in Nat /\ job.conf.risk \in Nat
<1>1. job \in Jobs /\ Place(job.conf.debate, job.conf.risk, n, st) /\ SeatedFor(job, n, st)
    BY DEF MeetingInv, GraphInv, JobFits, JobSeated
<1>2. st \in AgentStates
    BY <1>1, Zenon DEF Place
<1> QED BY <1>1, <1>2, PlaceTypes, ConfTypes

LEMMA AnalystAdvances ==
    ASSUME MeetingInv, NEW x, NEW kind \in {"agent", "tools"}, at = <<kind, x>>,
           NEW next \in {"agent", "tools", "clear"}, NEW s
    PROVE  Advances(<<next, x>>, s)
<1>1. at # Off /\ InPanel(job.conf.analysts, at) /\ job \in Jobs
    <2>1. at # Off
        BY DEF Off
    <2>2. SeatedFor(job, at, st) /\ job \in Jobs
        BY <2>1, AtNode
    <2> QED BY <2>1, <2>2, Zenon DEF SeatedFor, Seated, END
<1>2. PICK i \in 1..Len(job.conf.analysts) : job.conf.analysts[i] = x
    BY <1>1 DEF InPanel
<1>3. Reached(job.conf, at, st) = i - 1
    BY <1>1, <1>2, ReachedByAnalyst DEF One, AnalystKinds
<1>4. Reached(job.conf, <<next, x>>, s) = i - One(next # "clear")
    BY <1>1, <1>2, ReachedByAnalyst DEF AnalystKinds
<1>5. SeatedFor(job, <<next, x>>, s)
    BY <1>2 DEF SeatedFor, Seated, InPanel, AnalystKinds
<1> QED BY <1>3, <1>4, <1>5 DEF Advances, One

LEMMA ClearAdvances ==
    ASSUME MeetingInv, NEW x, at = <<"clear", x>>
    PROVE  Advances(AfterClear(job.conf, x), st)
<1> DEFINE p == job.conf.analysts
           n == Len(p)
<1>1. at # Off /\ InPanel(p, at) /\ job \in Jobs
    <2>1. at # Off
        BY DEF Off
    <2>2. SeatedFor(job, at, st) /\ job \in Jobs
        BY <2>1, AtNode
    <2> QED BY <2>1, <2>2, Zenon DEF SeatedFor, Seated, END
<1>2. PICK i \in 1..n : p[i] = x
    BY <1>1 DEF InPanel
<1>3. Reached(job.conf, at, st) = i
    <2>1. Reached(job.conf, <<"clear", p[i]>>, st) = i - One("clear" # "clear")
        BY <1>1, <1>2, ReachedByAnalyst DEF AnalystKinds
    <2> QED BY <1>2, <2>1 DEF One
<1>4. n \in Nat \ {0} /\ \A y, z \in 1..n : p[y] = p[z] => y = z
    BY <1>1, PanelTypes
<1>5. CASE i < n
    <2>1. \E y \in 1..n - 1 : p[y] = x
        BY <1>2, <1>4, <1>5
    <2>2. (CHOOSE y \in 1..n - 1 : p[y] = x) = i
        BY <1>2, <1>4, <2>1
    <2>3. AfterClear(job.conf, x) = <<"agent", p[1 + i]>>
        BY <2>1, <2>2 DEF AfterClear
    <2>4. 1 + i \in 1..n
        BY <1>4, <1>5
    <2>5. Reached(job.conf, <<"agent", p[1 + i]>>, st) = i
        <3>1. Reached(job.conf, <<"agent", p[1 + i]>>, st) = (1 + i) - One("agent" # "clear")
            BY <1>1, <2>4, ReachedByAnalyst DEF AnalystKinds
        <3> QED BY <1>2, <3>1 DEF One
    <2>6. SeatedFor(job, <<"agent", p[1 + i]>>, st)
        BY <2>4 DEF SeatedFor, Seated, InPanel, AnalystKinds
    <2> QED BY <1>3, <2>3, <2>5, <2>6 DEF Advances
<1>6. CASE i = n
    <2>1. ~\E y \in 1..n - 1 : p[y] = x
        BY <1>2, <1>4, <1>6
    <2>2. AfterClear(job.conf, x) = <<"speaker", "Bull">>
        BY <2>1 DEF AfterClear
    <2>3. st.debate = NoDebate /\ st.risk = NoDiscussion
        <3>1. Place(job.conf.debate, job.conf.risk, at, st)
            BY <1>1, AtNode
        <3>2. at[1] \in {"agent", "tools", "clear"}
            OBVIOUS
        <3> QED BY <3>1, <3>2, Zenon DEF Place
    <2>4. st.debate.count = 0 /\ st.debate.judged = FALSE /\ st.risk.count = 0
        BY <2>3 DEF NoDebate, NoDiscussion
    <2>5. Reached(job.conf, <<"speaker", "Bull">>, st) = n
        <3>1. <<"speaker", "Bull">> \in DebateNodes
            BY Zenon DEF DebateNodes
        <3> QED BY <1>1, <1>4, <2>4, <3>1, ReachedInDebate DEF One
    <2>6. SeatedFor(job, <<"speaker", "Bull">>, st)
        <3>1. Debating(st) /\ ~(st.debate.count > 0)
            BY <2>4 DEF Debating
        <3> QED BY <3>1, Zenon DEF SeatedFor, Seated
    <2> QED BY <1>3, <1>6, <2>2, <2>5, <2>6 DEF Advances
<1> QED BY <1>2, <1>4, <1>5, <1>6

LEMMA ArgueAdvances ==
    ASSUME MeetingInv, NEW x \in Researchers, at = <<"speaker", x>>,
           NEW d, d.count = st.debate.count + 1, d.current = x, d.judged = FALSE,
           NEW s, s.debate = d, s.risk = st.risk
    PROVE  Advances(ShouldContinueDebate(job.conf, d), s)
<1> DEFINE rounds == job.conf.debate
           n == Len(job.conf.analysts)
           judge == <<"judge", "ResearchManager">>
<1>1. /\ job \in Jobs /\ Place(rounds, job.conf.risk, at, st) /\ SeatedFor(job, at, st)
      /\ st \in AgentStates /\ st.debate.count \in Nat /\ rounds \in Nat /\ n \in Nat
    <2>1. at # Off
        BY DEF Off, Researchers
    <2> QED BY <2>1, AtNode, PanelTypes
<1>2. /\ IF x = "Bull" THEN BullsTurn(rounds, st) ELSE BearsTurn(rounds, st)
      /\ st.risk = NoDiscussion
    BY <1>1, Zenon DEF Place, Researchers
<1>3. ~st.debate.judged
    BY <1>1 DEF SeatedFor, Seated, Debating, InPanel, Researchers, END, AnalystKinds
<1>4. Said(st, "Bull") \in Nat /\ Said(st, "Bear") \in Nat
    BY <1>1 DEF AgentStates, DebateStates, Said, Researchers
<1>5. s.debate.count = st.debate.count + 1 /\ s.risk.count = 0 /\ st.risk.count = 0
    BY <1>2 DEF NoDiscussion
<1>6. Reached(job.conf, at, st) = n + st.debate.count
    <2>1. at \in DebateNodes
        BY Zenon DEF DebateNodes, Researchers
    <2>2. One(st.debate.judged) = 0
        BY <1>3 DEF One
    <2> QED BY <1>1, <1>5, <2>1, <2>2, ReachedInDebate
<1>7. ASSUME NEW a \in DebateNodes PROVE Reached(job.conf, a, s) = n + st.debate.count + 1
    <2>1. One(s.debate.judged) = 0
        BY DEF One
    <2>2. s.debate.count \in Nat
        BY <1>1, <1>5
    <2>3. Reached(job.conf, a, s) = n + s.debate.count + One(s.debate.judged)
        BY <1>1, <1>5, <2>2, ReachedInDebate, Zenon
    <2> QED BY <1>1, <1>5, <2>1, <2>3
<1>8. Debating(s)
    BY DEF Debating
<1>9. CASE d.count >= 2 * rounds
    <2>1. ShouldContinueDebate(job.conf, d) = judge
        BY <1>9, Zenon DEF ShouldContinueDebate
    <2>2. x = "Bull" \/ x = "Bear"
        BY DEF Researchers
    <2>3. s.debate.count = Turns(2 * rounds) /\ x = IF rounds = 0 THEN "Bull" ELSE "Bear"
        BY <1>1, <1>2, <1>4, <1>5, <1>9, <2>2 DEF BullsTurn, BearsTurn, DebateCounts, Turns
    <2>4. SeatedFor(job, judge, s)
        BY <1>8, <2>3, Zenon DEF SeatedFor, Seated
    <2>5. judge \in DebateNodes
        BY Zenon DEF DebateNodes
    <2> HIDE DEF judge
    <2> QED BY <1>1, <1>6, <1>7, <2>1, <2>4, <2>5, Zenon DEF Advances
<1>10. CASE ~(d.count >= 2 * rounds) /\ x = "Bull"
    <2>1. ShouldContinueDebate(job.conf, d) = <<"speaker", "Bear">>
        BY <1>10, Zenon DEF ShouldContinueDebate
    <2>2. SeatedFor(job, <<"speaker", "Bear">>, s)
        BY <1>8, <1>10, Zenon DEF SeatedFor, Seated
    <2>3. <<"speaker", "Bear">> \in DebateNodes
        BY Zenon DEF DebateNodes
    <2> QED BY <1>6, <1>7, <2>1, <2>2, <2>3, Zenon DEF Advances
<1>11. CASE ~(d.count >= 2 * rounds) /\ x = "Bear"
    <2>1. ShouldContinueDebate(job.conf, d) = <<"speaker", "Bull">>
        BY <1>11, Zenon DEF ShouldContinueDebate
    <2>2. SeatedFor(job, <<"speaker", "Bull">>, s)
        BY <1>8, <1>11, Zenon DEF SeatedFor, Seated
    <2>3. <<"speaker", "Bull">> \in DebateNodes
        BY Zenon DEF DebateNodes
    <2> QED BY <1>6, <1>7, <2>1, <2>2, <2>3, Zenon DEF Advances
<1> QED BY <1>9, <1>10, <1>11 DEF Researchers

LEMMA DiscussAdvances ==
    ASSUME MeetingInv, NEW x \in RiskTeam, at = <<"speaker", x>>,
           NEW r, r.count = st.risk.count + 1, r.latest = x,
           NEW s, s.risk = r, s.debate = st.debate
    PROVE  Advances(ShouldContinueRiskAnalysis(job.conf, r), s)
<1> DEFINE rounds == job.conf.risk
           n == Len(job.conf.analysts)
           judge == <<"judge", "PortfolioManager">>
<1>1. /\ job \in Jobs /\ Place(job.conf.debate, rounds, at, st) /\ SeatedFor(job, at, st)
      /\ st \in AgentStates /\ st.debate.count \in Nat /\ st.risk.count \in Nat
      /\ rounds \in Nat /\ n \in Nat
    <2>1. at # Off
        BY DEF Off, RiskTeam
    <2> QED BY <2>1, AtNode, PanelTypes
<1>2. \/ x = "Aggressive" /\ AggressivesTurn(rounds, st)
      \/ x = "Conservative" /\ ConservativesTurn(rounds, st)
      \/ x = "Neutral" /\ NeutralsTurn(rounds, st)
    BY <1>1, Zenon DEF Place, RiskTeam
<1>3. Discussing(job.conf.debate, st) /\ Discussing(job.conf.debate, s)
    BY <1>1 DEF SeatedFor, Seated, Discussing, InPanel, RiskTeam, END, AnalystKinds
<1>4. \A y \in RiskTeam : Said(st, y) \in Nat
    BY <1>1 DEF AgentStates, DiscussionStates, Said, Researchers, RiskTeam
<1>5. s.risk.count = st.risk.count + 1 /\ s.risk.count \in Nat
    BY <1>1
<1>6. Reached(job.conf, at, st) = n + st.debate.count + 2 + st.risk.count
    <2>1. at \in RiskNodes
        BY Zenon DEF RiskNodes, RiskTeam
    <2>2. One(at = END) = 0
        BY DEF One, END
    <2>3. Reached(job.conf, at, st) = n + st.debate.count + 2 + st.risk.count + One(at = END)
        <3>1. st.debate.judged /\ at \in RiskNodes \union {END}
            BY <1>3, <2>1, Zenon DEF Discussing
        <3>2. ASSUME NEW a \in RiskNodes \union {END}
              PROVE  Reached(job.conf, a, st) = n + st.debate.count + 2 + st.risk.count + One(a = END)
            BY ONLY <1>1, <3>1, ReachedInDiscussion, a \in RiskNodes \union {END}
        <3> HIDE DEF n
        <3> QED BY <3>1, <3>2
    <2> QED BY <1>1, <2>2, <2>3
<1>7. ASSUME NEW a \in RiskNodes
      PROVE  Reached(job.conf, a, s) = n + st.debate.count + 2 + st.risk.count + 1
    <2>1. a # END
        <3>1. <<"speaker", "Aggressive">> # END /\ <<"speaker", "Conservative">> # END
            BY Zenon DEF END
        <3>2. <<"speaker", "Neutral">> # END /\ <<"judge", "PortfolioManager">> # END
            BY Zenon DEF END
        <3> QED BY <3>1, <3>2, Zenon DEF RiskNodes
    <2>2. One(a = END) = 0
        BY <2>1, Zenon DEF One
    <2>3. Reached(job.conf, a, s) = n + s.debate.count + 2 + s.risk.count + One(a = END)
        <3>1. s.debate.judged /\ s.debate.count \in Nat /\ a \in RiskNodes \union {END}
            BY <1>1, <1>3, Zenon DEF Discussing
        <3> QED BY <1>1, <1>5, <3>1, ReachedInDiscussion, Zenon
    <2>4. s.debate.count = st.debate.count
        OBVIOUS
    <2> HIDE DEF n
    <2> QED BY <1>1, <1>5, <2>2, <2>3, <2>4
<1>8. ASSUME NEW a \in RiskNodes, SeatedFor(job, a, s), ShouldContinueRiskAnalysis(job.conf, r) = a
      PROVE  Advances(ShouldContinueRiskAnalysis(job.conf, r), s)
    BY <1>6, <1>7, <1>8, Zenon DEF Advances
<1>9. CASE r.count >= 3 * rounds
    <2>1. ShouldContinueRiskAnalysis(job.conf, r) = judge
        BY <1>9, Zenon DEF ShouldContinueRiskAnalysis
    <2>2. s.risk.count = Turns(3 * rounds) /\ x = IF rounds = 0 THEN "Aggressive" ELSE "Neutral"
        <3> DEFINE A == Said(st, "Aggressive")
                   C == Said(st, "Conservative")
                   N == Said(st, "Neutral")
        <3>1. A \in Nat /\ C \in Nat /\ N \in Nat
            BY <1>4 DEF RiskTeam
        <3>2. \/ /\ x = "Aggressive" /\ A = C /\ C = N
                 /\ st.risk.count < 3 * rounds \/ st.risk.count = 0
              \/ x = "Conservative" /\ A = C + 1 /\ C = N /\ st.risk.count < 3 * rounds
              \/ x = "Neutral" /\ A = C /\ C = N + 1 /\ st.risk.count < 3 * rounds
            BY <1>2, Zenon DEF AggressivesTurn, ConservativesTurn, NeutralsTurn
        <3>3. st.risk.count = A + C + N
            BY <1>2, Zenon DEF AggressivesTurn, ConservativesTurn, NeutralsTurn, RiskCounts
        <3> HIDE DEF A, C, N, rounds
        <3> QED BY <1>1, <1>5, <1>9, <3>1, <3>2, <3>3 DEF Turns
    <2>3. SeatedFor(job, judge, s)
        BY <1>3, <2>2, Zenon DEF SeatedFor, Seated
    <2>4. judge \in RiskNodes
        BY Zenon DEF RiskNodes
    <2> QED BY <1>8, <2>1, <2>3, <2>4, Zenon
<1>10. CASE ~(r.count >= 3 * rounds) /\ x = "Aggressive"
    <2>1. ShouldContinueRiskAnalysis(job.conf, r) = <<"speaker", "Conservative">>
        BY <1>10, Zenon DEF ShouldContinueRiskAnalysis
    <2>2. SeatedFor(job, <<"speaker", "Conservative">>, s)
        BY <1>3, <1>10, Zenon DEF SeatedFor, Seated
    <2>3. <<"speaker", "Conservative">> \in RiskNodes
        BY Zenon DEF RiskNodes
    <2> QED BY <1>8, <2>1, <2>2, <2>3, Zenon
<1>11. CASE ~(r.count >= 3 * rounds) /\ x = "Conservative"
    <2>1. ShouldContinueRiskAnalysis(job.conf, r) = <<"speaker", "Neutral">>
        BY <1>11, Zenon DEF ShouldContinueRiskAnalysis
    <2>2. SeatedFor(job, <<"speaker", "Neutral">>, s)
        BY <1>3, <1>11, Zenon DEF SeatedFor, Seated
    <2>3. <<"speaker", "Neutral">> \in RiskNodes
        BY Zenon DEF RiskNodes
    <2> QED BY <1>8, <2>1, <2>2, <2>3, Zenon
<1>12. CASE ~(r.count >= 3 * rounds) /\ x = "Neutral"
    <2>1. ShouldContinueRiskAnalysis(job.conf, r) = <<"speaker", "Aggressive">>
        BY <1>12, Zenon DEF ShouldContinueRiskAnalysis
    <2>2. SeatedFor(job, <<"speaker", "Aggressive">>, s)
        BY <1>3, <1>12, Zenon DEF SeatedFor, Seated
    <2>3. <<"speaker", "Aggressive">> \in RiskNodes
        BY Zenon DEF RiskNodes
    <2> QED BY <1>8, <2>1, <2>2, <2>3, Zenon
<1> QED BY <1>9, <1>10, <1>11, <1>12 DEF RiskTeam

LEMMA ResearchManagerAdvances ==
    ASSUME MeetingInv, at = <<"judge", "ResearchManager">>,
           NEW s, s.debate.judged, s.debate.count = st.debate.count, s.risk = st.risk
    PROVE  Advances(<<"trader", "Trader">>, s)
<1> DEFINE n == Len(job.conf.analysts)
           next == <<"trader", "Trader">>
<1>1. /\ job \in Jobs /\ Place(job.conf.debate, job.conf.risk, at, st) /\ SeatedFor(job, at, st)
      /\ st.debate.count \in Nat /\ n \in Nat
    <2>1. at # Off
        BY Zenon DEF Off
    <2> QED BY ONLY MeetingInv, <2>1, AtNode, PanelTypes
<1>2. st.risk = NoDiscussion
    BY <1>1, Zenon DEF Place
<1>3. st.risk.count = 0
    BY ONLY <1>2 DEF NoDiscussion
<1>4. ~st.debate.judged /\ st.debate.count = Turns(2 * job.conf.debate)
    BY <1>1, Zenon DEF SeatedFor, Seated, Debating, InPanel, AnalystKinds, END
<1>5. Reached(job.conf, at, st) = n + st.debate.count
    <2>1. at \in DebateNodes
        BY Zenon DEF DebateNodes
    <2>2. One(st.debate.judged) = 0
        BY <1>4, Zenon DEF One
    <2> QED BY ONLY <1>1, <1>3, <2>1, <2>2, ReachedInDebate
<1>6. Reached(job.conf, next, s) = n + st.debate.count + 1
    <2>1. next \in DebateNodes
        BY Zenon DEF DebateNodes
    <2>2. One(s.debate.judged) = 1
        BY Zenon DEF One
    <2>3. s.risk.count = 0 /\ s.debate.count \in Nat
        BY <1>1, <1>3, Zenon
    <2> HIDE DEF next
    <2>4. Reached(job.conf, next, s) = n + s.debate.count + One(s.debate.judged)
        BY <1>1, <2>1, <2>3, ReachedInDebate, Zenon
    <2> QED BY <2>2, <2>4, Zenon
<1>7. SeatedFor(job, next, s)
    BY <1>4, Zenon DEF SeatedFor, Seated, Discussing
<1> QED BY <1>5, <1>6, <1>7, Zenon DEF Advances

LEMMA TraderAdvances ==
    ASSUME MeetingInv, at = <<"trader", "Trader">>, NEW s, s.debate = st.debate, s.risk = st.risk
    PROVE  Advances(<<"speaker", "Aggressive">>, s)
<1> DEFINE n == Len(job.conf.analysts)
           next == <<"speaker", "Aggressive">>
<1>1. /\ job \in Jobs /\ Place(job.conf.debate, job.conf.risk, at, st) /\ SeatedFor(job, at, st)
      /\ st.debate.count \in Nat /\ n \in Nat
    <2>1. at # Off
        BY DEF Off
    <2> QED BY <2>1, AtNode, PanelTypes
<1>2. st.risk = NoDiscussion
    BY <1>1, Zenon DEF Place
<1>3. st.risk.count = 0
    BY <1>2 DEF NoDiscussion
<1>4. Discussing(job.conf.debate, st)
    BY <1>1, Zenon DEF SeatedFor, Seated, Debating, InPanel, AnalystKinds, END
<1>5. Reached(job.conf, at, st) = n + st.debate.count + 1
    <2>1. at \in DebateNodes
        BY Zenon DEF DebateNodes
    <2>2. One(st.debate.judged) = 1
        BY <1>4, Zenon DEF One, Discussing
    <2> QED BY ONLY <1>1, <1>3, <2>1, <2>2, ReachedInDebate
<1>6. Reached(job.conf, next, s) = n + st.debate.count + 2
    <2>1. next \in RiskNodes \union {END}
        BY Zenon DEF RiskNodes
    <2>2. One(next = END) = 0
        BY DEF One, END
    <2>3. s.risk.count = 0 /\ s.debate.count \in Nat /\ s.debate.judged /\ s.debate.count = st.debate.count
        BY <1>1, <1>3, <1>4, Zenon DEF Discussing
    <2>5. s.risk.count \in Nat
        BY <2>3
    <2> HIDE DEF next
    <2>4. Reached(job.conf, next, s) = n + s.debate.count + 2 + s.risk.count + One(next = END)
        BY <1>1, <2>1, <2>3, <2>5, ReachedInDiscussion, Zenon
    <2> QED BY ONLY <1>1, <2>2, <2>3, <2>4
<1>7. SeatedFor(job, next, s)
    <2>1. ~(s.risk.count > 0) /\ Discussing(job.conf.debate, s)
        BY <1>3, <1>4 DEF Discussing
    <2> QED BY <2>1, Zenon DEF SeatedFor, Seated
<1> HIDE DEF n, next
<1>8. Reached(job.conf, next, s) = Reached(job.conf, at, st) + 1
    BY <1>1, <1>5, <1>6 DEF n
<1> QED BY <1>7, <1>8, Zenon DEF Advances, next

LEMMA PortfolioManagerAdvances ==
    ASSUME MeetingInv, at = <<"judge", "PortfolioManager">>,
           NEW s, s.debate = st.debate, s.risk.count = st.risk.count
    PROVE  Advances(END, s)
<1> DEFINE n == Len(job.conf.analysts)
<1>1. /\ job \in Jobs /\ SeatedFor(job, at, st)
      /\ st.debate.count \in Nat /\ st.risk.count \in Nat /\ n \in Nat
    <2>1. at # Off
        BY Zenon DEF Off
    <2> QED BY ONLY MeetingInv, <2>1, AtNode, PanelTypes
<1>2. Discussing(job.conf.debate, st) /\ st.risk.count = Turns(3 * job.conf.risk)
    BY <1>1, Zenon DEF SeatedFor, Seated, Debating, InPanel, AnalystKinds, END
<1>3. st.debate.judged
    BY <1>2 DEF Discussing
<1>4. Reached(job.conf, at, st) = n + st.debate.count + 2 + st.risk.count
    <2>1. at \in RiskNodes \union {END}
        BY Zenon DEF RiskNodes
    <2>2. One(at = END) = 0
        BY Zenon DEF One, END
    <2> HIDE DEF n
    <2>3. Reached(job.conf, at, st) = n + st.debate.count + 2 + st.risk.count + One(at = END)
        BY ONLY <1>1, <1>3, <2>1, ReachedInDiscussion DEF n
    <2> QED BY ONLY <1>1, <2>2, <2>3
<1>5. Reached(job.conf, END, s) = n + st.debate.count + 2 + st.risk.count + 1
    <2>1. One(END = END) = 1
        BY Zenon DEF One
    <2>2. s.debate.count \in Nat /\ s.risk.count \in Nat /\ s.debate.judged
        BY <1>1, <1>3, Zenon
    <2>3. Reached(job.conf, END, s) = n + s.debate.count + 2 + s.risk.count + One(END = END)
        BY <1>1, <2>2, ReachedInDiscussion, Zenon
    <2> QED BY <2>1, <2>3, Zenon
<1>6. SeatedFor(job, END, s)
    BY <1>2, Zenon DEF SeatedFor, Seated, Discussing
<1> QED BY <1>4, <1>5, <1>6, Zenon DEF Advances

\* What a node writes, as far as its place in the meeting depends on it.
LEMMA NodeAdvances ==
    ASSUME MeetingInv, Node
    PROVE  /\ at # Off /\ at' # Off /\ job' = job /\ Save(job, at', st')
           /\ Advances(at', st')
<1>1. ASSUME NEW n, NEW a, NEW s, RunNode(n, a, s), n # Off, a # Off, Advances(a, s)
      PROVE  at # Off /\ at' # Off /\ job' = job /\ Save(job, at', st') /\ Advances(at', st')
    BY <1>1, Zenon DEF RunNode
<1>2. ASSUME NEW x \in AnalystKeys, NEW mayCall, Analyst(x, mayCall)
      PROVE  \E n, a, s : RunNode(n, a, s) /\ n # Off /\ a # Off /\ Advances(a, s)
    <2>1. PICK calls \in mayCall, text \in Texts :
            RunNode(<<"agent", x>>, IF calls THEN <<"tools", x>> ELSE <<"clear", x>>,
                    [st EXCEPT !.report[x] = ~calls /\ text])
        BY <1>2 DEF Analyst
    <2> DEFINE s == [st EXCEPT !.report[x] = ~calls /\ text]
               a == IF calls THEN <<"tools", x>> ELSE <<"clear", x>>
    <2> HIDE DEF s
    <2>2. at = <<"agent", x>>
        BY <2>1 DEF RunNode
    <2>3. Advances(<<"tools", x>>, s) /\ Advances(<<"clear", x>>, s)
        BY <2>2, AnalystAdvances
    <2>4. <<"agent", x>> # Off /\ <<"tools", x>> # Off /\ <<"clear", x>> # Off
        BY DEF Off
    <2> QED BY <2>1, <2>3, <2>4, Zenon DEF s
<1>3. ASSUME Tools
      PROVE  \E n, a, s : RunNode(n, a, s) /\ n # Off /\ a # Off /\ Advances(a, s)
    <2>1. PICK x \in AnalystKeys : RunNode(<<"tools", x>>, <<"agent", x>>, st)
        BY <1>3 DEF Tools
    <2>2. at = <<"tools", x>>
        BY <2>1 DEF RunNode
    <2>3. Advances(<<"agent", x>>, st)
        BY <2>2, AnalystAdvances
    <2>4. <<"tools", x>> # Off /\ <<"agent", x>> # Off
        BY DEF Off
    <2> QED BY <2>1, <2>3, <2>4, Zenon
<1>4. ASSUME MsgClear
      PROVE  \E n, a, s : RunNode(n, a, s) /\ n # Off /\ a # Off /\ Advances(a, s)
    <2>1. PICK x \in AnalystKeys : RunNode(<<"clear", x>>, AfterClear(job.conf, x), st)
        BY <1>4 DEF MsgClear
    <2>2. at = <<"clear", x>>
        BY <2>1 DEF RunNode
    <2>3. Advances(AfterClear(job.conf, x), st)
        BY <2>2, ClearAdvances
    <2>4. <<"clear", x>> # Off /\ AfterClear(job.conf, x) # Off
        BY DEF Off, AfterClear
    <2> QED BY <2>1, <2>3, <2>4, Zenon
<1>5. ASSUME NEW x \in Researchers, Argue(x)
      PROVE  \E n, a, s : RunNode(n, a, s) /\ n # Off /\ a # Off /\ Advances(a, s)
    <2> DEFINE d == [said |-> [st.debate.said EXCEPT ![x] = @ + 1], current |-> x,
                     judged |-> FALSE, count |-> st.debate.count + 1]
               s == [st EXCEPT !.debate = d]
               a == ShouldContinueDebate(job.conf, d)
    <2>1. RunNode(<<"speaker", x>>, a, s)
        BY <1>5 DEF Argue
    <2>2. at = <<"speaker", x>> /\ at # Off
        BY <2>1 DEF RunNode, Off
    <2>3. d.count = st.debate.count + 1 /\ d.current = x /\ d.judged = FALSE
        OBVIOUS
    <2>4. st \in AgentStates
        BY <2>2, AtNode
    <2> HIDE DEF d
    <2>5. s.debate = d /\ s.risk = st.risk
        BY <2>4 DEF AgentStates
    <2> HIDE DEF s
    <2>6. Advances(a, s)
        BY <2>2, <2>3, <2>5, ArgueAdvances
    <2>7. a # Off
        BY Zenon DEF ShouldContinueDebate, Off
    <2> HIDE DEF a
    <2> QED BY <2>1, <2>2, <2>6, <2>7, Zenon
<1>6. ASSUME NEW x \in RiskTeam, Discuss(x)
      PROVE  \E n, a, s : RunNode(n, a, s) /\ n # Off /\ a # Off /\ Advances(a, s)
    <2> DEFINE r == [said |-> [st.risk.said EXCEPT ![x] = @ + 1], latest |-> x,
                     judged |-> FALSE, count |-> st.risk.count + 1]
               s == [st EXCEPT !.risk = r]
               a == ShouldContinueRiskAnalysis(job.conf, r)
    <2>1. RunNode(<<"speaker", x>>, a, s)
        BY <1>6 DEF Discuss
    <2>2. at = <<"speaker", x>> /\ at # Off
        BY <2>1 DEF RunNode, Off
    <2>3. r.count = st.risk.count + 1 /\ r.latest = x
        OBVIOUS
    <2>4. st \in AgentStates
        BY <2>2, AtNode
    <2> HIDE DEF r
    <2>5. s.risk = r /\ s.debate = st.debate
        BY <2>4 DEF AgentStates
    <2> HIDE DEF s
    <2>6. Advances(a, s)
        BY <2>2, <2>3, <2>5, DiscussAdvances
    <2>7. a # Off
        BY Zenon DEF ShouldContinueRiskAnalysis, Off
    <2> HIDE DEF a
    <2> QED BY <2>1, <2>2, <2>6, <2>7, Zenon
<1>7. ASSUME ResearchManager
      PROVE  \E n, a, s : RunNode(n, a, s) /\ n # Off /\ a # Off /\ Advances(a, s)
    <2> DEFINE s == [st EXCEPT !.debate.judged = TRUE, !.debate.current = "plan", !.plan = TRUE]
    <2>1. RunNode(<<"judge", "ResearchManager">>, <<"trader", "Trader">>, s)
        BY <1>7, Zenon DEF ResearchManager
    <2>2. at = <<"judge", "ResearchManager">> /\ at # Off
        BY <2>1, Zenon DEF RunNode, Off
    <2>3. st \in AgentStates
        BY <2>2, AtNode, Zenon
    <2>4. st.debate \in DebateStates
        BY <2>3 DEF AgentStates
    <2>5. s.debate.judged /\ s.debate.count = st.debate.count /\ s.risk = st.risk
        BY <2>3, <2>4 DEF AgentStates, DebateStates
    <2> HIDE DEF s
    <2>6. Advances(<<"trader", "Trader">>, s)
        BY <2>2, <2>5, ResearchManagerAdvances, Zenon
    <2>7. <<"trader", "Trader">> # Off
        BY DEF Off
    <2> QED BY <2>1, <2>2, <2>6, <2>7, Zenon
<1>8. ASSUME Trader
      PROVE  \E n, a, s : RunNode(n, a, s) /\ n # Off /\ a # Off /\ Advances(a, s)
    <2> DEFINE s == [st EXCEPT !.trader = TRUE]
    <2>1. RunNode(<<"trader", "Trader">>, <<"speaker", "Aggressive">>, s)
        BY <1>8, Zenon DEF Trader
    <2>2. at = <<"trader", "Trader">> /\ at # Off
        BY <2>1 DEF RunNode, Off
    <2>3. st \in AgentStates
        BY <2>2, AtNode, Zenon
    <2>4. s.debate = st.debate /\ s.risk = st.risk
        BY <2>3 DEF AgentStates
    <2> HIDE DEF s
    <2>5. Advances(<<"speaker", "Aggressive">>, s)
        BY <2>2, <2>4, TraderAdvances, Zenon
    <2>6. <<"speaker", "Aggressive">> # Off
        BY DEF Off
    <2> QED BY <2>1, <2>2, <2>5, <2>6, Zenon
<1>9. ASSUME PortfolioManager
      PROVE  \E n, a, s : RunNode(n, a, s) /\ n # Off /\ a # Off /\ Advances(a, s)
    <2> DEFINE s == [st EXCEPT !.risk.judged = TRUE, !.risk.latest = "Judge", !.decision = TRUE]
    <2>1. RunNode(<<"judge", "PortfolioManager">>, END, s)
        BY <1>9, Zenon DEF PortfolioManager
    <2>2. at = <<"judge", "PortfolioManager">> /\ at # Off
        BY <2>1, Zenon DEF RunNode, Off
    <2>3. st \in AgentStates
        BY <2>2, AtNode, Zenon
    <2>4. st.risk \in DiscussionStates
        BY <2>3 DEF AgentStates
    <2>5. s.debate = st.debate /\ s.risk.count = st.risk.count
        BY <2>3, <2>4 DEF AgentStates, DiscussionStates
    <2> HIDE DEF s
    <2>6. Advances(END, s)
        BY <2>2, <2>5, PortfolioManagerAdvances, Zenon
    <2>7. END # Off
        BY DEF Off, END
    <2> QED BY <2>1, <2>2, <2>6, <2>7, Zenon
<1>10. \E n, a, s : RunNode(n, a, s) /\ n # Off /\ a # Off /\ Advances(a, s)
    <2>1. \A x \in {"market", "social", "news", "fundamentals"} : x \in AnalystKeys
        BY DEF AnalystKeys
    <2>2. \A x \in {"Bull", "Bear"} : x \in Researchers
        BY DEF Researchers
    <2>3. \A x \in {"Aggressive", "Conservative", "Neutral"} : x \in RiskTeam
        BY DEF RiskTeam
    <2> QED BY <1>2, <1>3, <1>4, <1>5, <1>6, <1>7, <1>8, <1>9, <2>1, <2>2, <2>3, ZenonT(30)
           DEF Node, MarketAnalyst, NewsAnalyst, FundamentalsAnalyst, SentimentAnalyst,
               BullResearcher, BearResearcher, AggressiveDebator, ConservativeDebator, NeutralDebator
<1> QED BY <1>1, <1>10, Zenon

(***************************************************************************)
(* The invariant of the refinement, and the steps of the meeting.          *)
(***************************************************************************)
LEMMA NodeKeepsSavedSeated ==
    ASSUME SavedSeated, NEW j \in Jobs, NEW a, NEW s, Save(j, a, s), SeatedFor(j, a, s)
    PROVE  SavedSeated'
<1>1. CASE j.checkpoint
    <2>1. saved' = [x \in DOMAIN saved \union {Thread(j)} |->
                        IF x = Thread(j) THEN [at |-> a, st |-> s] ELSE saved[x]]
        BY <1>1 DEF Save, Put
    <2>2. ASSUME NEW t \in DOMAIN saved'
          PROVE  /\ t \in {Thread(i) : i \in Jobs}
                 /\ saved'[t] = [at |-> saved'[t].at, st |-> saved'[t].st]
                 /\ Seated(t[3][1], t[3][2], t[3][3], saved'[t].at, saved'[t].st)
        <3>1. CASE t = Thread(j)
            <4>1. saved'[t].at = a /\ saved'[t].st = s
                BY <2>1, <3>1
            <4>2. Seated(t[3][1], t[3][2], t[3][3], a, s)
                BY <3>1, PanelTypes DEF SeatedFor
            <4>3. saved'[t] = [at |-> a, st |-> s]
                BY <2>1, <3>1
            <4> QED BY <3>1, <4>1, <4>2, <4>3, Zenon
        <3>2. CASE t # Thread(j)
            BY <2>1, <3>2 DEF SavedSeated
        <3> QED BY <3>1, <3>2
    <2> QED BY <2>2 DEF SavedSeated
<1>2. CASE ~j.checkpoint
    BY <1>2 DEF Save, SavedSeated
<1> QED BY <1>1, <1>2

LEMMA WithoutKeepsSavedSeated ==
    ASSUME NEW K, SavedSeated, saved' = Without(saved, K)
    PROVE  SavedSeated'
BY DEF SavedSeated, Without

LEMMA SaveMinutesTheJob ==
    ASSUME NEW j \in Jobs, NEW a, NEW s, Save(j, a, s), j.checkpoint
    PROVE  Thread(j) \in DOMAIN saved' /\ saved'[Thread(j)] = [at |-> a, st |-> s]
BY DEF Save, Put

LEMMA OffIsNoSeat == \A p, d, k, s : ~Seated(p, d, k, Off, s)
<1>1. Off[1] = "off" /\ Off[2] = "off" /\ Off[1] \notin AnalystKinds
    BY DEF Off, AnalystKinds
<1>2. \A x, y : Off = <<x, y>> => x = "off"
    BY <1>1
<1> QED BY <1>1, <1>2, Zenon DEF Seated, InPanel, END

LEMMA InvokeIsSeated ==
    ASSUME MeetingInv, NEW j \in Jobs, Invoke(j)
    PROVE  SavedSeated' /\ JobSeated' /\ JobMinuted' /\ at' # Off
<1>1. job' = j
    BY DEF Invoke
<1>2. CASE StartOver(j)
    <2>1. at' = <<"agent", j.conf.analysts[1]>> /\ Save(j, at', st')
        BY <1>2, PanelTypes DEF StartOver, FirstNode
    <2>2. at' # Off
        BY <2>1 DEF Off
    <2>3. SeatedFor(j, at', st')
        BY <2>1, PanelTypes DEF SeatedFor, Seated, InPanel, AnalystKinds
    <2>4. SavedSeated'
        BY <2>1, <2>3, NodeKeepsSavedSeated DEF MeetingInv
    <2>5. JobMinuted'
        BY <1>1, <2>1, SaveMinutesTheJob DEF JobMinuted
    <2> QED BY <1>1, <2>2, <2>3, <2>4, <2>5 DEF JobSeated
<1>3. CASE GoOn(j)
    <2>1. /\ Thread(j) \in DOMAIN saved /\ saved' = saved
          /\ at' = saved[Thread(j)].at /\ st' = saved[Thread(j)].st
        BY <1>3 DEF GoOn, Resumable
    <2>2. SeatedFor(j, at', st')
        <3>1. Seated(Thread(j)[3][1], Thread(j)[3][2], Thread(j)[3][3], at', st')
            BY <2>1 DEF MeetingInv, SavedSeated
        <3> QED BY <3>1, PanelTypes DEF SeatedFor
    <2>3. at' # Off
        BY <2>2, OffIsNoSeat, Zenon DEF SeatedFor
    <2>4. SavedSeated'
        BY <2>1 DEF MeetingInv, SavedSeated
    <2>5. saved[Thread(j)] = [at |-> at', st |-> st']
        BY <2>1 DEF MeetingInv, SavedSeated
    <2>6. JobMinuted'
        BY <1>1, <2>1, <2>5 DEF JobMinuted
    <2> QED BY <1>1, <2>2, <2>3, <2>4, <2>6 DEF JobSeated
<1> QED BY <1>2, <1>3 DEF Invoke

LEMMA MeetingInvInit == Init => MeetingInv
BY GraphInvInit DEF Init, GraphInit, MeetingInv, SavedSeated, JobSeated, JobMinuted

LEMMA MeetingInvNext == MeetingInv /\ [Next]_engineVars => MeetingInv'
<1> SUFFICES ASSUME MeetingInv, [Next]_engineVars PROVE MeetingInv'
    OBVIOUS
<1>1. GraphInv'
    BY StepIsGraphStep, GraphInvNext DEF MeetingInv
<1>2. ASSUME NEW j \in Bookings, Propagate(j) PROVE MeetingInv'
    <2>1. Invoke(j) /\ pc' = "running" /\ j \in Jobs
        BY <1>2, BookingsAssumption DEF Propagate
    <2>2. SavedSeated' /\ JobSeated' /\ JobMinuted' /\ at' # Off
        BY <2>1, InvokeIsSeated
    <2> QED BY <1>1, <2>1, <2>2 DEF MeetingInv
<1>3. CASE RunStep
    <2>1. Node /\ pc' = pc /\ pc = "running"
        BY <1>3 DEF RunStep
    <2>2. at # Off /\ at' # Off /\ job' = job /\ Save(job, at', st') /\ SeatedFor(job, at', st')
        BY <2>1, NodeAdvances DEF Advances
    <2>3. job \in Jobs
        BY DEF MeetingInv, GraphInv, JobFits
    <2>4. SavedSeated'
        BY <2>2, <2>3, NodeKeepsSavedSeated DEF MeetingInv
    <2>5. JobMinuted'
        BY <2>2, <2>3, SaveMinutesTheJob DEF JobMinuted
    <2> QED BY <1>1, <2>1, <2>2, <2>4, <2>5 DEF MeetingInv, JobSeated
<1>4. ASSUME at' = Off, pc' = "idle", SavedSeated' PROVE MeetingInv'
    BY <1>1, <1>4 DEF MeetingInv, JobSeated, JobMinuted
<1>5. CASE RecursionError \/ Crash
    <2>1. at' = Off /\ pc' = "idle" /\ saved' = saved
        BY <1>5 DEF RecursionError, OutOfSteps, Crash, Abandon, Ended
    <2> QED BY <1>4, <2>1 DEF MeetingInv, SavedSeated
<1>6. CASE ClearAndReturn
    <2>1. at' = Off /\ pc' = "idle"
        BY <1>6 DEF ClearAndReturn, Return, Ended
    <2>2. SavedSeated'
        BY <1>6, WithoutKeepsSavedSeated DEF ClearAndReturn, ClearThread, MeetingInv, SavedSeated
    <2> QED BY <1>4, <2>1, <2>2
<1>7. CASE ClearCheckpoints
    <2>1. at' = at /\ at = Off /\ pc' = "idle"
        BY <1>7 DEF ClearCheckpoints, MeetingInv
    <2>2. SavedSeated'
        BY <1>7, WithoutKeepsSavedSeated DEF ClearCheckpoints, ClearAllCheckpoints, MeetingInv
    <2> QED BY <1>4, <2>1, <2>2
<1>8. ASSUME UNCHANGED <<job, at, st, saved>>, pc' = "idle" <=> pc = "idle" PROVE MeetingInv'
    BY <1>1, <1>8 DEF MeetingInv, SavedSeated, JobSeated, JobMinuted
<1>9. CASE LogState \/ Store \/ NextDay \/ UNCHANGED engineVars
    BY <1>8, <1>9 DEF LogState, Store, NextDay, engineVars
<1>10. ASSUME NEW j \in Bookings, PropagateRaises(j) PROVE MeetingInv'
    BY <1>8, <1>10 DEF PropagateRaises
<1> QED BY <1>2, <1>3, <1>5, <1>6, <1>7, <1>9, <1>10 DEF Next, Progress

LEMMA ConfOfThread ==
    ASSUME NEW j \in Jobs, NEW a, NEW s
    PROVE  Reached(ConfOf(Thread(j)), a, s) = Reached(j.conf, a, s)
<1>1. j.conf \in Confs /\ Signature(j.conf) = Thread(j)[3]
    BY DEF Jobs, Thread
<1>2. Signature(ConfOf(Thread(j))) = Signature(j.conf)
    BY <1>1 DEF ConfOf
<1>3. ConfOf(Thread(j)).analysts = j.conf.analysts
    BY <1>2 DEF Signature
<1> QED BY <1>3 DEF Reached, Seat

Minutes(sv) == [t \in DOMAIN sv |-> Reached(ConfOf(t), sv[t].at, sv[t].st)]

MinutedAs(t, p) ==
    \/ Minutes(saved') = Minutes(saved)
    \/ Minutes(saved') =
          [x \in DOMAIN Minutes(saved) \union {t} |-> IF x = t THEN p ELSE Minutes(saved)[x]]

\* What is saved after a node is minuted.
LEMMA SaveIsMinuted ==
    ASSUME NEW j \in Jobs, NEW a, NEW s, Save(j, a, s)
    PROVE  MinutedAs(Thread(j), Reached(j.conf, a, s))
<1>1. CASE j.checkpoint
    <2>1. saved' = [x \in DOMAIN saved \union {Thread(j)} |->
                        IF x = Thread(j) THEN [at |-> a, st |-> s] ELSE saved[x]]
        BY <1>1 DEF Save, Put
    <2>2. Reached(ConfOf(Thread(j)), a, s) = Reached(j.conf, a, s)
        BY ConfOfThread
    <2> QED BY <2>1, <2>2 DEF Minutes, MinutedAs
<1>2. CASE ~j.checkpoint
    BY <1>2 DEF Save, MinutedAs
<1> QED BY <1>1, <1>2

LEMMA WithoutIsForgotten ==
    ASSUME NEW K, saved' = Without(saved, K)
    PROVE  \E T \in SUBSET DOMAIN Minutes(saved) : Minutes(saved') = [t \in T |-> Minutes(saved)[t]]
<1>1. DOMAIN saved \ K \in SUBSET DOMAIN Minutes(saved)
    BY DEF Minutes
<1>2. Minutes(saved') = [t \in DOMAIN saved \ K |-> Minutes(saved)[t]]
    BY DEF Minutes, Without
<1> QED BY <1>1, <1>2

LEMMA TurnAtPlace ==
    ASSUME MeetingInv, at # Off
    PROVE  /\ job \in Jobs
           /\ Reached(job.conf, at, st) \in 0..Len(Meeting!Agenda(Thread(job)))
           /\ LastSpeaker(job.conf, at, st) = Meeting!Turn(Thread(job), Reached(job.conf, at, st))
<1>1. job \in Jobs /\ Place(job.conf.debate, job.conf.risk, at, st) /\ SeatedFor(job, at, st)
    BY DEF MeetingInv, GraphInv, JobFits, JobSeated
<1> QED BY <1>1, SpeakerHadTheTurn

\* Running a node is the next turn on the agenda, or nothing.
LEMMA NodeSpeaks ==
    ASSUME MeetingInv, MeetingInv', Node
    PROVE  Meeting!Speak \/ UNCHANGED Meeting!agendaVars
<1> DEFINE here == Reached(job.conf, at, st)
           there == Reached(job'.conf, at', st')
           T == Thread(job)
<1>1. at # Off /\ at' # Off /\ job' = job /\ Save(job, at', st') /\ Advances(at', st')
    BY NodeAdvances
<1>2. /\ job \in Jobs /\ here \in 0..Len(Meeting!Agenda(T))
      /\ LastSpeaker(job.conf, at, st) = Meeting!Turn(T, here)
    BY <1>1, TurnAtPlace
<1>3. /\ there \in 0..Len(Meeting!Agenda(T))
      /\ LastSpeaker(job'.conf, at', st') = Meeting!Turn(T, there)
    BY <1>1, <1>2, SpeakerHadTheTurn DEF MeetingInv, GraphInv, JobFits, JobSeated
<1>4. MinutedAs(T, there)
    BY <1>1, <1>2, SaveIsMinuted
<1>5. CASE there = here + 1
    <2>1. here < Len(Meeting!Agenda(T))
        BY <1>2, <1>3, <1>5
    <2>2. Meeting!Minuted(T, here + 1)
        BY <1>4, <1>5, Zenon DEF Meeting!Minuted, Minutes, MinutedAs
    <2> QED BY <1>1, <1>3, <1>5, <2>1, <2>2, Zenon DEF Meeting!Speak
<1>6. CASE there = here
    <2>1. LastSpeaker(job'.conf, at', st') = LastSpeaker(job.conf, at, st)
        BY <1>2, <1>3, <1>6, Zenon
    <2>2. Minutes(saved') = Minutes(saved)
        <3>1. CASE job.checkpoint
            <4>1. /\ T \in DOMAIN saved /\ saved[T] = [at |-> at, st |-> st]
                  /\ saved'[T] = [at |-> at', st |-> st'] /\ DOMAIN saved' = DOMAIN saved
                BY <1>1, <3>1 DEF MeetingInv, JobMinuted, Save, Put
            <4>2. \A x \in DOMAIN saved : x # T => saved'[x] = saved[x]
                BY <1>1, <3>1 DEF Save, Put
            <4>3. Reached(ConfOf(T), at', st') = Reached(ConfOf(T), at, st)
                BY <1>1, <1>2, <1>6, ConfOfThread
            <4> QED BY <4>1, <4>2, <4>3 DEF Minutes
        <3>2. CASE ~job.checkpoint
            BY <1>1, <3>2 DEF Save
        <3> QED BY <3>1, <3>2
    <2> QED BY <1>1, <1>6, <2>1, <2>2, Zenon DEF Meeting!agendaVars, Minutes
<1> QED BY <1>1, <1>5, <1>6 DEF Advances

\* Starting a run opens the meeting: from the top, or where its minutes say.
LEMMA InvokeOpens ==
    ASSUME MeetingInv, MeetingInv', NEW j \in Bookings, Invoke(j)
    PROVE  Meeting!Open
<1> DEFINE there == Reached(job'.conf, at', st')
           T == Thread(job')
<1>1. j \in Jobs /\ job' = j /\ at = Off
    BY BookingsAssumption DEF Invoke
<1>2. at' # Off
    BY <1>1, InvokeIsSeated
<1>3. T \in Topics
    BY <1>1 DEF Topics
<1>4. /\ there \in 0..Len(Meeting!Agenda(T))
      /\ LastSpeaker(job'.conf, at', st') = Meeting!Turn(T, there)
    BY <1>1, <1>2, SpeakerHadTheTurn DEF MeetingInv, GraphInv, JobFits, JobSeated
<1>5. CASE StartOver(j)
    <2>1. at' = <<"agent", j.conf.analysts[1]>> /\ Save(j, at', st')
        BY <1>1, <1>5, PanelTypes DEF StartOver, FirstNode
    <2>2. there = 0
        <3>1. 1 \in 1..Len(j.conf.analysts) /\ "agent" \in AnalystKinds
            BY <1>1, PanelTypes DEF AnalystKinds
        <3>2. Reached(j.conf, <<"agent", j.conf.analysts[1]>>, st') = 1 - One("agent" # "clear")
            BY <1>1, <3>1, ReachedByAnalyst
        <3> QED BY <1>1, <2>1, <3>2 DEF One
    <2>3. MinutedAs(T, there)
        BY <1>1, <2>1, SaveIsMinuted
    <2>4. Meeting!Minuted(T, there)
        BY <2>3, Zenon DEF Meeting!Minuted, Minutes, MinutedAs
    <2> QED BY <1>1, <1>2, <1>3, <1>4, <2>2, <2>4, Zenon DEF Meeting!Open
<1>6. CASE GoOn(j)
    <2>1. /\ T \in DOMAIN saved /\ saved' = saved
          /\ at' = saved[T].at /\ st' = saved[T].st
        BY <1>1, <1>6 DEF GoOn, Resumable
    <2>2. there = Reached(ConfOf(T), saved[T].at, saved[T].st)
        BY <1>1, <2>1, ConfOfThread
    <2>3. T \in DOMAIN Minutes(saved) /\ there = Minutes(saved)[T]
        BY <2>1, <2>2 DEF Minutes
    <2>4. Meeting!Minuted(T, there)
        BY <2>1, Zenon DEF Meeting!Minuted
    <2> QED BY <1>1, <1>2, <1>3, <1>4, <2>3, <2>4, Zenon DEF Meeting!Open, Minutes
<1> QED BY <1>5, <1>6 DEF Invoke

\* However a run ends, the meeting closes; the minutes may lose topics.
LEMMA EndCloses ==
    ASSUME at # Off, at' = Off, job' = job,
           saved' = saved \/ \E K : saved' = Without(saved, K)
    PROVE  Meeting!Close
<1>1. \E S \in SUBSET DOMAIN Minutes(saved) : Minutes(saved') = [t \in S |-> Minutes(saved)[t]]
    <2>1. CASE saved' = saved
        <3>1. Minutes(saved') = [t \in DOMAIN Minutes(saved) |-> Minutes(saved)[t]]
            BY <2>1 DEF Minutes
        <3> QED BY <3>1
    <2> QED BY <2>1, WithoutIsForgotten
<1> QED BY <1>1, Zenon DEF Meeting!Close, Meeting!Forgotten, Minutes

LEMMA MeetingStep ==
    ASSUME MeetingInv, MeetingInv', [Next]_engineVars
    PROVE  [Meeting!Next]_Meeting!agendaVars
<1>1. ASSUME NEW j \in Bookings, Propagate(j) PROVE Meeting!Open
    BY <1>1, InvokeOpens DEF Propagate
<1>2. CASE RunStep
    BY <1>2, NodeSpeaks DEF RunStep, Meeting!Next
<1>3. CASE RecursionError \/ Crash
    <2>1. at # Off /\ at' = Off /\ job' = job /\ saved' = saved
        BY <1>3 DEF RecursionError, OutOfSteps, Crash, Abandon, Ended
    <2> QED BY <2>1, EndCloses DEF Meeting!Next
<1>4. CASE ClearAndReturn
    <2>1. at # Off /\ at' = Off /\ job' = job
        BY <1>4 DEF ClearAndReturn, Return, Ended, END, Off
    <2>2. saved' = saved \/ \E K : saved' = Without(saved, K)
        BY <1>4 DEF ClearAndReturn, ClearThread
    <2> QED BY <2>1, <2>2, EndCloses DEF Meeting!Next
<1>5. CASE ClearCheckpoints
    <2>1. at = Off /\ UNCHANGED <<job, at, st>> /\ \E K : saved' = Without(saved, K)
        BY <1>5 DEF ClearCheckpoints, ClearAllCheckpoints, MeetingInv
    <2>2. \E S \in SUBSET DOMAIN Minutes(saved) : Minutes(saved') = [t \in S |-> Minutes(saved)[t]]
        BY <2>1, WithoutIsForgotten
    <2>3. Meeting!Forget
        BY <2>1, <2>2, Zenon DEF Meeting!Forget, Meeting!Forgotten, Minutes
    <2> QED BY <2>3 DEF Meeting!Next
<1>6. ASSUME UNCHANGED <<job, at, st, saved>> PROVE UNCHANGED Meeting!agendaVars
    BY <1>6, Zenon DEF Meeting!agendaVars
<1>7. CASE LogState \/ Store \/ NextDay \/ UNCHANGED engineVars
    BY <1>6, <1>7 DEF LogState, Store, NextDay, engineVars
<1>8. ASSUME NEW j \in Bookings, PropagateRaises(j) PROVE UNCHANGED Meeting!agendaVars
    BY <1>6, <1>8 DEF PropagateRaises
<1> QED BY <1>1, <1>2, <1>3, <1>4, <1>5, <1>7, <1>8 DEF Next, Progress, Meeting!Next

LEMMA MeetingStarts == Init => Meeting!Init
<1> SUFFICES ASSUME Init PROVE Meeting!Init
    OBVIOUS
<1>1. job \in Bookings /\ at = Off /\ DOMAIN saved = {}
    BY DEF Init, GraphInit
<1>2. Minutes(saved) = [t \in {} |-> 0]
    BY <1>1 DEF Minutes
<1>3. Thread(job) \in Topics
    BY <1>1 DEF Topics
<1> QED BY <1>1, <1>2, <1>3, Zenon DEF Meeting!Init, Minutes

\* The graph implements the agenda (graph/setup.py and conditional_logic.py
\* under trading_graph.py): for all panels, rounds, bookings and limits, and
\* from whatever checkpoint a run goes on, nobody is skipped, nobody speaks
\* out of turn, and what a checkpoint says of a run is how far it has come.
THEOREM GraphImplementsAgenda == Spec => ImplementsAgenda
<1>1. Spec => []MeetingInv
    BY MeetingInvInit, MeetingInvNext, PTL DEF Spec
<1>2. MeetingInv /\ MeetingInv' /\ [Next]_engineVars => [Meeting!Next]_Meeting!agendaVars
    BY MeetingStep
<1> QED BY <1>1, <1>2, MeetingStarts, PTL DEF Spec, ImplementsAgenda, Meeting!Spec

-----------------------------------------------------------------------------
(* The items of a sequence at some of its places. *)

\* The places of a finite set of integers are ranked without gaps: the k-th is in
\* the set and is its k-th.
LEMMA RankRises ==
    ASSUME NEW S \in SUBSET Int, IsFiniteSet(S)
    PROVE  /\ Cardinality(S) \in Nat
           /\ \A i \in S : Rank(S, i) \in 1..Cardinality(S)
           /\ \A i, j \in S : i < j => Rank(S, i) < Rank(S, j)
<1> DEFINE Upto(i) == {j \in S : j <= i}
<1>1. Cardinality(S) \in Nat
    BY FS_CardinalityType
<1>2. \A i \in S : /\ IsFiniteSet(Upto(i)) /\ Cardinality(Upto(i)) \in Nat
                   /\ Cardinality(Upto(i)) <= Cardinality(S)
    BY FS_Subset, FS_CardinalityType
<1>3. \A i \in S : Upto(i) # {}
    OBVIOUS
<1>4. ASSUME NEW i \in S, NEW j \in S, i < j
      PROVE  Upto(i) \in SUBSET Upto(j) /\ Upto(i) # Upto(j)
    <2>1. j \in Upto(j) /\ j \notin Upto(i)
        BY <1>4
    <2>2. \A k \in Upto(i) : k \in Upto(j)
        BY <1>4
    <2> QED BY <2>1, <2>2
<1>5. \A i \in S : Rank(S, i) = Cardinality(Upto(i))
    BY DEF Rank
<1> HIDE DEF Upto
<1>6. \A i \in S : Cardinality(Upto(i)) # 0
    BY <1>2, <1>3, FS_EmptySet
<1>7. ASSUME NEW i \in S, NEW j \in S, i < j
      PROVE  Cardinality(Upto(i)) < Cardinality(Upto(j))
    <2>1. Cardinality(Upto(i)) <= Cardinality(Upto(j)) /\ Cardinality(Upto(i)) # Cardinality(Upto(j))
        BY <1>2, <1>4, <1>7, FS_Subset
    <2> QED BY <2>1, <1>2
<1> QED BY <1>1, <1>2, <1>5, <1>6, <1>7

LEMMA NthHasItsRank ==
    ASSUME NEW S \in SUBSET Int, IsFiniteSet(S), NEW k \in 1..Cardinality(S)
    PROVE  Nth(S, k) \in S /\ Rank(S, Nth(S, k)) = k
<1> DEFINE f == [i \in S |-> Rank(S, i)]
           n == Cardinality(S)
<1>1. /\ n \in Nat
      /\ \A i \in S : Rank(S, i) \in 1..n
      /\ \A i, j \in S : i < j => Rank(S, i) < Rank(S, j)
    BY RankRises
<1>2. f \in [S -> 1..n]
    BY <1>1
<1>3. \A i, j \in S : f[i] = f[j] => i = j
    BY <1>1
<1>4. f \in Injection(S, 1..n)
    BY <1>2, <1>3 DEF Injection, IsInjective
<1>5. IsFiniteSet(1..n) /\ Cardinality(1..n) = n
    BY <1>1, FS_Interval
<1>6. f \in Surjection(S, 1..n)
    BY <1>4, <1>5, FS_Injection
<1>7. \E i \in S : f[i] = k
    BY <1>6 DEF Surjection
<1>8. \E i \in S : Rank(S, i) = k
    BY <1>7
<1> QED BY <1>8 DEF Nth

\* What is kept of a sequence: one item for each place, each place's own.
LEMMA ItemsArePlaced ==
    ASSUME NEW seq, NEW S \in SUBSET Int, IsFiniteSet(S)
    PROVE  /\ Cardinality(S) \in Nat
           /\ DOMAIN Items(seq, S) = 1..Cardinality(S)
           /\ \A k \in 1..Cardinality(S) : Nth(S, k) \in S /\ Items(seq, S)[k] = seq[Nth(S, k)]
           /\ \A i \in S : Rank(S, i) \in 1..Cardinality(S) /\ Nth(S, Rank(S, i)) = i
           /\ \A k, l \in 1..Cardinality(S) : Nth(S, k) = Nth(S, l) => k = l
<1> DEFINE n == Cardinality(S)
<1>1. /\ n \in Nat
      /\ \A i \in S : Rank(S, i) \in 1..n
      /\ \A i, j \in S : i < j => Rank(S, i) < Rank(S, j)
    BY RankRises
<1>2. \A k \in 1..n : Nth(S, k) \in S /\ Rank(S, Nth(S, k)) = k
    BY NthHasItsRank
<1>3. \A k \in 1..n : Items(seq, S)[k] = seq[Nth(S, k)]
    BY DEF Items
<1>4. DOMAIN Items(seq, S) = 1..n
    BY DEF Items
<1>5. \A i \in S : Nth(S, Rank(S, i)) = i
    <2>1. TAKE i \in S
    <2> DEFINE j == Nth(S, Rank(S, i))
    <2>2. j \in S /\ Rank(S, j) = Rank(S, i)
        BY <1>1, <1>2
    <2> HIDE DEF j
    <2>3. i \in Int /\ j \in Int /\ Rank(S, i) \in Int /\ ~(i < j) /\ ~(j < i)
        BY <2>2, <1>1
    <2> QED BY <2>3 DEF j
<1> QED BY <1>1, <1>2, <1>3, <1>4, <1>5

-----------------------------------------------------------------------------
(***************************************************************************)
(* The decision log.  What the operations make of its entries, and the     *)
(* invariant that ties them to the files the states are written to.        *)
(***************************************************************************)

Records == [date : Dates, ticker : Tickers, days : Nat]

Backed(entries, files) == \A i \in DOMAIN entries : <<entries[i].ticker, entries[i].date>> \in files
OncePending(entries) == \A i, k \in DOMAIN entries : IsPending(entries[i]) /\ entries[i] = entries[k] => i = k

FilesInv ==
    /\ log \in Seq(Records)
    /\ Backed(log, stateLogs)
    /\ OncePending(log)
    /\ job \in Bookings
    /\ pc = "logged" => <<job.ticker, job.date>> \in stateLogs
    /\ today \in Nat

\* Each pending entry is left alone or given its outcome; the others are left alone.
Decides(entries, marked) ==
    /\ marked \in Seq(Records) /\ DOMAIN marked = DOMAIN entries
    /\ \A i \in DOMAIN entries :
          \/ marked[i] = entries[i]
          \/ IsPending(entries[i]) /\ IsResolved(marked[i]) /\ Undecided(marked[i]) = entries[i]

\* Every pending entry stays, nothing is added, and what is left is full if any
\* resolved entry is gone.
Rotates(entries, left) ==
    /\ left \in Seq(Records)
    /\ \A k \in DOMAIN left : \E i \in DOMAIN entries : left[k] = entries[i]
    /\ \A i \in DOMAIN entries : IsPending(entries[i]) => \E k \in DOMAIN left : left[k] = entries[i]
    /\ OncePending(entries) => OncePending(left)
    /\ \/ \A i \in DOMAIN entries : \E k \in DOMAIN left : left[k] = entries[i]
       \/ NumResolved(left) = MaxEntries

LEMMA OutcomesDecide ==
    ASSUME log \in Seq(Records), NEW ticker, NEW held, \A d \in DOMAIN held : held[d] \in Nat \ {0}
    PROVE  Decides(log, WithOutcomes(ticker, held))
<1> DEFINE marked == WithOutcomes(ticker, held)
<1>1. DOMAIN marked = DOMAIN log /\ \A i \in DOMAIN log : log[i] \in Records
    BY DEF WithOutcomes
<1>2. ASSUME NEW i \in DOMAIN log
      PROVE  \/ marked[i] = log[i]
             \/ /\ IsPending(log[i]) /\ log[i].date \in DOMAIN held
                /\ marked[i] = [log[i] EXCEPT !.days = held[log[i].date]]
    BY <1>2 DEF WithOutcomes
<1> HIDE DEF marked
<1>3. ASSUME NEW i \in DOMAIN log
      PROVE  /\ marked[i] \in Records
             /\ \/ marked[i] = log[i]
                \/ IsPending(log[i]) /\ IsResolved(marked[i]) /\ Undecided(marked[i]) = log[i]
    <2>1. log[i] \in Records
        BY <1>1
    <2>2. CASE marked[i] = log[i]
        BY <2>1, <2>2
    <2>3. CASE /\ IsPending(log[i]) /\ log[i].date \in DOMAIN held
               /\ marked[i] = [log[i] EXCEPT !.days = held[log[i].date]]
        <3> DEFINE e == log[i]
                   n == held[e.date]
        <3>1. e \in Records /\ n \in Nat /\ n # 0 /\ marked[i] = [e EXCEPT !.days = n] /\ e.days = 0
            BY <2>1, <2>3 DEF IsPending
        <3> HIDE DEF e, n
        <3>2. marked[i] \in Records /\ marked[i].days = n /\ [marked[i] EXCEPT !.days = 0] = e
            BY <3>1 DEF Records
        <3> QED BY <3>1, <3>2 DEF IsPending, IsResolved, Undecided, e
    <2> QED BY <1>2, <2>2, <2>3
<1>4. marked \in Seq(Records)
    <2>1. Len(log) \in Nat /\ DOMAIN log = 1..Len(log)
        OBVIOUS
    <2>2. marked = [i \in 1..Len(log) |-> marked[i]]
        BY <1>1, <2>1 DEF marked, WithOutcomes
    <2>3. marked \in [1..Len(log) -> Records]
        BY <1>3, <2>1, <2>2
    <2> QED BY <2>1, <2>3
<1> QED BY <1>1, <1>3, <1>4 DEF Decides, marked

\* The rotated log has MaxEntries resolved entries: their places, by their rank
\* among the resolved ones, are the last MaxEntries.
LEMMA RotationFills ==
    ASSUME NEW entries, NEW resolved, NEW kept, NEW to_drop \in Nat,
           IsFiniteSet(DOMAIN entries), DOMAIN entries \subseteq Int,
           resolved = {i \in DOMAIN entries : IsResolved(entries[i])},
           kept = {i \in DOMAIN entries : i \in resolved => Rank(resolved, i) > to_drop},
           to_drop = Cardinality(resolved) - MaxEntries
    PROVE  NumResolved(Items(entries, kept)) = MaxEntries
<1> DEFINE left == Items(entries, kept)
           n == Cardinality(resolved)
           R == {k \in DOMAIN left : IsResolved(left[k])}
           T == to_drop + 1..n
           g == [k \in R |-> Rank(resolved, Nth(kept, k))]
<1>1. resolved \in SUBSET Int /\ IsFiniteSet(resolved) /\ kept \in SUBSET Int /\ IsFiniteSet(kept)
    BY FS_Subset
<1>2. /\ n \in Nat
      /\ \A i \in resolved : Rank(resolved, i) \in 1..n /\ Nth(resolved, Rank(resolved, i)) = i
      /\ \A v \in 1..n : Nth(resolved, v) \in resolved /\ Rank(resolved, Nth(resolved, v)) = v
    BY <1>1, ItemsArePlaced, NthHasItsRank
<1>3. /\ Cardinality(kept) \in Nat /\ DOMAIN left = 1..Cardinality(kept)
      /\ \A k \in DOMAIN left : Nth(kept, k) \in kept /\ left[k] = entries[Nth(kept, k)]
      /\ \A i \in kept : Rank(kept, i) \in DOMAIN left /\ Nth(kept, Rank(kept, i)) = i
      /\ \A k, l \in DOMAIN left : Nth(kept, k) = Nth(kept, l) => k = l
    BY <1>1, ItemsArePlaced
<1>4. MaxEntries \in Nat
    BY MaxEntriesAssumption
<1> HIDE DEF left, n
<1>5. ASSUME NEW k \in R
      PROVE  Nth(kept, k) \in resolved /\ g[k] \in T
    <2>1. Nth(kept, k) \in kept /\ IsResolved(entries[Nth(kept, k)])
        BY <1>3
    <2>2. Nth(kept, k) \in resolved /\ Rank(resolved, Nth(kept, k)) > to_drop
        BY <2>1
    <2> QED BY <2>2, <1>2
<1>6. g \in [R -> T]
    BY <1>5
<1>7. \A k, l \in R : g[k] = g[l] => k = l
    <2>1. TAKE k, l \in R
    <2>2. HAVE g[k] = g[l]
    <2>3. Rank(resolved, Nth(kept, k)) = Rank(resolved, Nth(kept, l))
        BY <2>2
    <2>4. Nth(kept, k) = Nth(kept, l)
        BY <1>2, <1>5, <2>3
    <2> QED BY <1>3, <2>4
<1>8. \A v \in T : \E k \in R : g[k] = v
    <2>1. TAKE v \in T
    <2>2. v \in 1..n /\ v > to_drop
        BY <1>2
    <2> DEFINE i == Nth(resolved, v)
               k == Rank(kept, i)
    <2>3. i \in resolved /\ Rank(resolved, i) = v
        BY <1>2, <2>2
    <2> HIDE DEF i
    <2>4. i \in kept /\ IsResolved(entries[i])
        BY <2>2, <2>3
    <2>5. k \in DOMAIN left /\ Nth(kept, k) = i /\ left[k] = entries[i]
        BY <1>3, <2>4
    <2> HIDE DEF k
    <2>6. k \in R /\ g[k] = v
        BY <2>3, <2>4, <2>5
    <2> QED BY <2>6
<1> HIDE DEF g
<1>9. g \in Bijection(R, T)
    BY <1>6, <1>7, <1>8 DEF Bijection, Injection, Surjection, IsInjective
<1>10. IsFiniteSet(R)
    <2>1. IsFiniteSet(DOMAIN left)
        BY <1>3, FS_Interval
    <2> QED BY <2>1, FS_Subset
<1>11. Cardinality(T) = Cardinality(R)
    <2> HIDE DEF R, T
    <2>1. ExistsBijection(R, T)
        BY <1>9 DEF ExistsBijection
    <2> QED BY <1>10, <2>1, FS_Bijection
<1>12. Cardinality(T) = MaxEntries
    <2>1. to_drop + 1 \in Int /\ n \in Int /\ n - to_drop = MaxEntries
        BY <1>2, <1>4 DEF n
    <2>2. Cardinality(T) = IF to_drop + 1 > n THEN 0 ELSE n - (to_drop + 1) + 1
        BY <2>1, FS_Interval
    <2> QED BY <1>4, <2>1, <2>2
<1> QED BY <1>11, <1>12 DEF NumResolved, left

LEMMA RotationRotates ==
    ASSUME NEW entries \in Seq(Records)
    PROVE  Rotates(entries, ApplyRotation(entries))
<1> DEFINE resolved == {i \in DOMAIN entries : IsResolved(entries[i])}
           to_drop == Cardinality(resolved) - MaxEntries
           kept == {i \in DOMAIN entries : i \in resolved => Rank(resolved, i) > to_drop}
           left == Items(entries, kept)
<1>1. /\ Len(entries) \in Nat /\ DOMAIN entries = 1..Len(entries)
      /\ \A i \in DOMAIN entries : entries[i] \in Records
    OBVIOUS
<1>2. ApplyRotation(entries) = IF MaxEntries = 0 \/ to_drop <= 0 THEN entries ELSE left
    BY DEF ApplyRotation
<1>3. IsFiniteSet(DOMAIN entries) /\ DOMAIN entries \subseteq Int
    BY <1>1, FS_Interval
<1>4. kept \in SUBSET Int /\ IsFiniteSet(kept) /\ IsFiniteSet(resolved)
    BY <1>3, FS_Subset
<1>5. to_drop \in Int
    BY <1>4, FS_CardinalityType, MaxEntriesAssumption
<1>6. CASE MaxEntries = 0 \/ to_drop <= 0
    BY <1>2, <1>6 DEF Rotates
<1>7. /\ resolved = {i \in DOMAIN entries : IsResolved(entries[i])}
      /\ kept = {i \in DOMAIN entries : i \in resolved => Rank(resolved, i) > to_drop}
    OBVIOUS
<1> HIDE DEF resolved, kept
<1>8. CASE ~(MaxEntries = 0 \/ to_drop <= 0)
    <2>1. /\ Cardinality(kept) \in Nat /\ DOMAIN left = 1..Cardinality(kept)
          /\ \A k \in DOMAIN left : Nth(kept, k) \in kept /\ left[k] = entries[Nth(kept, k)]
          /\ \A i \in kept : Rank(kept, i) \in DOMAIN left /\ Nth(kept, Rank(kept, i)) = i
          /\ \A k, l \in DOMAIN left : Nth(kept, k) = Nth(kept, l) => k = l
        BY <1>4, ItemsArePlaced
    <2>2. \A i \in DOMAIN entries : IsPending(entries[i]) => i \in kept
        BY <1>7 DEF IsResolved
    <2>3. kept \subseteq DOMAIN entries
        BY <1>7
    <2>4. NumResolved(left) = MaxEntries
        <3>1. to_drop \in Nat
            BY <1>5, <1>8
        <3> QED BY <1>3, <1>7, <3>1, RotationFills
    <2>5. left = [k \in 1..Cardinality(kept) |-> left[k]]
        BY DEF Items
    <2>6. ApplyRotation(entries) = left
        BY <1>2, <1>8
    <2> HIDE DEF left
    <2>7. left \in Seq(Records)
        <3>1. left \in [1..Cardinality(kept) -> Records]
            BY <1>1, <2>1, <2>3, <2>5
        <3> QED BY <2>1, <3>1
    <2>8. \A k \in DOMAIN left : Nth(kept, k) \in DOMAIN entries /\ left[k] = entries[Nth(kept, k)]
        BY <2>1, <2>3
    <2>9. \A i \in kept : \E k \in DOMAIN left : left[k] = entries[i]
        BY <2>1
    <2>10. OncePending(entries) => OncePending(left)
        BY <2>1, <2>8 DEF OncePending
    <2> QED BY <2>2, <2>4, <2>6, <2>7, <2>8, <2>9, <2>10 DEF Rotates
<1> QED BY <1>6, <1>8

\* One rewrite of the file: the outcomes, then the rotation.
Rewritten == \E marked : Decides(log, marked) /\ (log' = log \/ Rotates(marked, log'))

LEMMA ResolvingRewrites ==
    ASSUME FilesInv, NEW ticker, ResolvePendingEntries(ticker)
    PROVE  Rewritten
<1>1. PICK dates \in SUBSET ReturnsOf(ticker) :
          BatchUpdateWithOutcomes(ticker, [d \in dates |-> HoldingDays(d)])
    BY DEF ResolvePendingEntries
<1> DEFINE held == [d \in dates |-> HoldingDays(d)]
           marked == WithOutcomes(ticker, held)
<1>2. \A d \in DOMAIN held : held[d] \in Nat \ {0}
    <2>1. ASSUME NEW d \in dates
          PROVE  HoldingDays(d) \in Nat \ {0}
        <3>1. d \in Nat /\ d < today /\ today \in Nat
            BY BookingsAssumption DEF ReturnsOf, FilesInv
        <3> QED BY <3>1, HoldAssumption DEF HoldingDays
    <2> QED BY <2>1
<1>3. log' = log \/ log' = ApplyRotation(marked)
    BY <1>1 DEF BatchUpdateWithOutcomes
<1> HIDE DEF held
<1>4. Decides(log, marked)
    BY <1>2, OutcomesDecide DEF FilesInv
<1> HIDE DEF marked
<1>5. Rotates(marked, ApplyRotation(marked))
    BY <1>4, RotationRotates DEF Decides
<1> QED BY <1>3, <1>4, <1>5 DEF Rewritten

LEMMA RewritingKeepsTheLog ==
    ASSUME FilesInv, Rewritten
    PROVE  log' \in Seq(Records) /\ Backed(log', stateLogs) /\ OncePending(log')
<1>1. PICK marked : Decides(log, marked) /\ (log' = log \/ Rotates(marked, log'))
    BY DEF Rewritten
<1>2. CASE log' = log
    BY <1>2 DEF FilesInv, Backed, OncePending
<1>3. CASE Rotates(marked, log')
    <2>1. \A i \in DOMAIN log : log[i] \in Records
        BY DEF FilesInv
    <2>2. \A i \in DOMAIN log : marked[i].ticker = log[i].ticker /\ marked[i].date = log[i].date
        <3>1. ASSUME NEW i \in DOMAIN log
              PROVE  marked[i].ticker = log[i].ticker /\ marked[i].date = log[i].date
            <4>1. CASE marked[i] = log[i]
                BY <4>1
            <4>2. CASE Undecided(marked[i]) = log[i]
                <5>1. marked[i] \in Records
                    BY <1>1 DEF Decides
                <5> DEFINE e == marked[i]
                <5>2. e \in Records /\ log[i] = [e EXCEPT !.days = 0]
                    BY <4>2, <5>1 DEF Undecided
                <5> HIDE DEF e
                <5>3. log[i].ticker = e.ticker /\ log[i].date = e.date
                    BY <5>2 DEF Records
                <5> QED BY <5>3 DEF e
            <4> QED BY <1>1, <4>1, <4>2 DEF Decides
        <3> QED BY <3>1
    <2>3. Backed(marked, stateLogs)
        BY <1>1, <2>2 DEF Decides, Backed, FilesInv
    <2>4. OncePending(marked)
        <3>1. \A i \in DOMAIN marked : IsPending(marked[i]) => i \in DOMAIN log /\ marked[i] = log[i]
            BY <1>1 DEF Decides, IsResolved
        <3> QED BY <3>1 DEF FilesInv, OncePending
    <2>5. Backed(log', stateLogs)
        BY <1>3, <2>3 DEF Rotates, Backed
    <2> QED BY <1>3, <2>4, <2>5 DEF Rotates
<1> QED BY <1>1, <1>2, <1>3

Kept ==
    /\ \A e \in Entries : IsPending(e) =>
          e \in Entries' \/ e \in {Undecided(r) : r \in Entries'} \/ NumResolved(log') = MaxEntries
    /\ \A r \in Entries' : IsResolved(r) => r \in Entries \/ Undecided(r) \in Entries

LEMMA RewritingIsFinal ==
    ASSUME FilesInv, Rewritten
    PROVE  Kept
<1>1. PICK marked : Decides(log, marked) /\ (log' = log \/ Rotates(marked, log'))
    BY DEF Rewritten
<1>2. CASE log' = log
    BY <1>2 DEF Entries, Kept
<1>3. CASE Rotates(marked, log')
    <2>1. DOMAIN marked = DOMAIN log
        BY <1>1 DEF Decides
    <2>2. ASSUME NEW i \in DOMAIN log, IsPending(log[i])
          PROVE  log[i] \in Entries' \/ log[i] \in {Undecided(r) : r \in Entries'} \/ NumResolved(log') = MaxEntries
        <3>1. CASE marked[i] = log[i]
            <4>1. \E k \in DOMAIN log' : log'[k] = log[i]
                BY <1>3, <2>1, <2>2, <3>1 DEF Rotates
            <4> QED BY <4>1 DEF Entries
        <3>2. CASE Undecided(marked[i]) = log[i]
            <4>1. NumResolved(log') = MaxEntries \/ \E k \in DOMAIN log' : log'[k] = marked[i]
                BY <1>3, <2>1 DEF Rotates
            <4> QED BY <3>2, <4>1 DEF Entries
        <3> QED BY <1>1, <2>2, <3>1, <3>2 DEF Decides
    <2>3. ASSUME NEW k \in DOMAIN log', IsResolved(log'[k])
          PROVE  log'[k] \in Entries \/ Undecided(log'[k]) \in Entries
        <3>1. PICK i \in DOMAIN log : log'[k] = marked[i]
            BY <1>3, <2>1 DEF Rotates
        <3>2. marked[i] = log[i] \/ Undecided(marked[i]) = log[i]
            BY <1>1 DEF Decides
        <3> QED BY <3>1, <3>2 DEF Entries
    <2> QED BY <2>2, <2>3 DEF Kept, Entries
<1> QED BY <1>1, <1>2, <1>3

LEMMA FilesInvInit == Init => FilesInv
BY DEF Init, FilesInv, Backed, OncePending

LEMMA StoreKeepsTheLog ==
    ASSUME FilesInv, Store
    PROVE  FilesInv' /\ Kept
<1> DEFINE e == [date |-> job.date, ticker |-> job.ticker, days |-> 0]
<1>1. job.date \in Dates /\ job.ticker \in Tickers
    BY BookingsAssumption DEF FilesInv, Jobs
<1>2. e \in Records /\ e.date = job.date /\ e.ticker = job.ticker /\ IsPending(e)
    BY <1>1 DEF Records, IsPending
<1>3. log' = log \/ (log' = Append(log, e) /\ ~HasPending(job.date, job.ticker))
    BY DEF Store, StoreDecision
<1>4. <<e.ticker, e.date>> \in stateLogs /\ UNCHANGED <<job, today, stateLogs>> /\ pc' = "stored"
    BY <1>2 DEF Store, FilesInv
<1>5. ~HasPending(job.date, job.ticker) => e \notin Entries
    BY <1>2 DEF HasPending, PendingOf
<1> HIDE DEF e
<1>6. CASE log' = log
    BY <1>4, <1>6 DEF FilesInv, Backed, OncePending, Kept, Entries
<1>7. CASE log' = Append(log, e) /\ ~HasPending(job.date, job.ticker)
    <2>1. /\ Len(log) \in Nat /\ DOMAIN log = 1..Len(log)
          /\ log' \in Seq(Records) /\ DOMAIN log' = 1..Len(log) + 1
          /\ \A i \in DOMAIN log : log'[i] = log[i]
          /\ log'[Len(log) + 1] = e
        BY <1>2, <1>7 DEF FilesInv
    <2>2. \A i \in DOMAIN log : log[i] # e
        BY <1>5, <1>7 DEF Entries
    <2>3. \A i \in DOMAIN log' : i \in DOMAIN log \/ (i = Len(log) + 1 /\ log'[i] = e)
        BY <2>1
    <2>4. \A i \in DOMAIN log : i \in DOMAIN log'
        BY <2>1
    <2>5. Backed(log', stateLogs)
        BY <1>4, <2>1, <2>3 DEF FilesInv, Backed
    <2>6. OncePending(log')
        BY <2>1, <2>2, <2>3 DEF FilesInv, OncePending
    <2>7. Entries \subseteq Entries' /\ \A r \in Entries' : r \in Entries \/ r = e
        BY <2>1, <2>3, <2>4 DEF Entries
    <2>8. Kept
        BY <1>2, <2>7 DEF Kept, IsResolved
    <2> QED BY <1>4, <2>1, <2>5, <2>6, <2>8 DEF FilesInv
<1> QED BY <1>3, <1>6, <1>7

LEMMA NothingWritten ==
    ASSUME FilesInv, UNCHANGED log
    PROVE  Kept
BY DEF Kept, Entries

LEMMA NodeKeepsTheJob == ASSUME Node PROVE UNCHANGED job
BY DEF Node, MarketAnalyst, NewsAnalyst, FundamentalsAnalyst, SentimentAnalyst, Analyst, Tools, MsgClear,
       BullResearcher, BearResearcher, Argue, ResearchManager, Trader, AggressiveDebator,
       ConservativeDebator, NeutralDebator, Discuss, PortfolioManager, RunNode

LEMMA FilesInvNext ==
    ASSUME FilesInv, [Next]_engineVars
    PROVE  FilesInv' /\ Kept
<1>1. ASSUME NEW j \in Bookings, Propagate(j) \/ PropagateRaises(j)
      PROVE  FilesInv' /\ Kept
    <2>1. Rewritten
        BY <1>1, ResolvingRewrites DEF Propagate, PropagateRaises
    <2>2. log' \in Seq(Records) /\ Backed(log', stateLogs) /\ OncePending(log') /\ Kept
        BY <2>1, RewritingKeepsTheLog, RewritingIsFinal
    <2>3. job' \in Bookings /\ UNCHANGED <<today, stateLogs>> /\ pc' # "logged"
        BY <1>1 DEF Propagate, PropagateRaises, Invoke, FilesInv
    <2> QED BY <2>2, <2>3 DEF FilesInv
<1>2. CASE RunStep
    <2>1. UNCHANGED <<job, log, today, pc, stateLogs>>
        BY <1>2, NodeKeepsTheJob DEF RunStep
    <2> QED BY <2>1, NothingWritten DEF FilesInv, Backed, OncePending
<1>3. CASE LogState
    <2>1. /\ UNCHANGED <<job, log, today>> /\ pc' = "logged"
          /\ stateLogs' = stateLogs \union {<<job.ticker, job.date>>}
        BY <1>3 DEF LogState
    <2> QED BY <2>1, NothingWritten DEF FilesInv, Backed, OncePending
<1>4. CASE Store
    BY <1>4, StoreKeepsTheLog
<1>5. CASE RecursionError \/ ClearAndReturn \/ Crash
    <2>1. UNCHANGED <<job, log, today, stateLogs>> /\ pc' = "idle"
        BY <1>5 DEF RecursionError, ClearAndReturn, Crash, OutOfSteps, Abandon, Return, Ended
    <2> QED BY <2>1, NothingWritten DEF FilesInv, Backed, OncePending
<1>6. CASE NextDay
    <2>1. UNCHANGED <<job, log, pc, stateLogs>> /\ today' = today + 1
        BY <1>6 DEF NextDay
    <2> QED BY <2>1, NothingWritten DEF FilesInv, Backed, OncePending
<1>7. CASE ClearCheckpoints \/ UNCHANGED engineVars
    <2>1. UNCHANGED <<job, log, today, pc, stateLogs>>
        BY <1>7 DEF ClearCheckpoints, engineVars
    <2> QED BY <2>1, NothingWritten DEF FilesInv, Backed, OncePending
<1> QED BY <1>1, <1>2, <1>3, <1>4, <1>5, <1>6, <1>7 DEF Next, Progress

\* Every decision in the log has the file of the state it was made from, and is
\* pending at most once, however often its run dies and is repeated, whatever is
\* resolved and rotated in between (memory.py 37-46, trading_graph.py 398-409).
THEOREM LogStaysBacked == Spec => []LogIsBacked
<1>1. FilesInv /\ [Next]_engineVars => FilesInv'
    BY FilesInvNext
<1>2. FilesInv => LogIsBacked
    BY DEF FilesInv, LogIsBacked, Backed, OncePending, Entries
<1> QED BY <1>1, <1>2, FilesInvInit, PTL DEF Spec

\* A pending decision leaves the log for its outcome alone, and an outcome is given
\* once, for every limit on the log and whatever the runs, days and crashes
\* (memory.py 146-207, 220-255).
THEOREM OutcomesStayFinal == Spec => OutcomesAreFinal
<1>1. FilesInv /\ [Next]_engineVars => FilesInv' /\ Kept
    BY FilesInvNext
<1>2. Kept => [/\ \A e \in Entries : IsPending(e) =>
                     e \in Entries' \/ e \in {Undecided(r) : r \in Entries'} \/ NumResolved(log') = MaxEntries
               /\ \A r \in Entries' : IsResolved(r) => r \in Entries \/ Undecided(r) \in Entries]_engineVars
    BY DEF Kept
<1> QED BY <1>1, <1>2, FilesInvInit, PTL DEF Spec, OutcomesAreFinal

(***************************************************************************)
(* The command line.                                                       *)
(***************************************************************************)

\* What is still to come in state s when node a is next: the panel must not
\* show it.  An analyst that has a report does not speak again.
Ahead(p, a, s) ==
    \/ /\ a[1] \in AnalystKinds /\ a = <<a[1], a[2]>>
       /\ \E j \in 1..Len(p) :
             /\ p[j] = a[2]
             /\ \A i \in 1..Len(p) : j < i \/ (j = i /\ a[1] # "clear") => ~s.report[p[i]]
       /\ ~s.debate.judged /\ ~s.trader /\ ~s.risk.judged
    \/ /\ a \in {<<"speaker", "Bull">>, <<"speaker", "Bear">>, <<"judge", "ResearchManager">>}
       /\ ~s.debate.judged /\ ~s.trader /\ ~s.risk.judged
    \/ a = <<"trader", "Trader">> /\ s.debate.judged /\ ~s.trader /\ ~s.risk.judged
    \/ /\ a \in {<<"speaker", r>> : r \in RiskTeam} \union {<<"judge", "PortfolioManager">>}
       /\ s.debate.judged /\ s.trader /\ ~s.risk.judged
    \/ a = END /\ s.debate.judged /\ s.trader /\ s.risk.judged

Framed(p, c) ==
    /\ DOMAIN p = {"status", "section", "timed"}
    /\ DOMAIN p.status = Selected(c) \union FixedAgents
    /\ DOMAIN p.section = Selected(c) \union FixedSections
    /\ DOMAIN p.timed = Selected(c)

AnalystsFit(p, c, s) ==
    \A a \in Selected(c) :
        /\ p.status[a] = "completed" => p.section[a] = "final"
        /\ p.section[a] \in {"none", "final"}
        /\ p.section[a] = "final" => s.report[a]

ResearchFits(p, s) ==
    /\ \A a \in ResearchTeam : p.status[a] = "completed" => s.debate.judged
    /\ s.debate.judged => p.section["investment_plan"] = "final"

TradingFits(p, s) ==
    /\ p.status["Trader"] = "completed" => s.trader
    /\ s.trader => p.section["trader_investment_plan"] = "final"

RiskFits(p, s) ==
    /\ \A a \in RiskTeam \union {"PortfolioManager"} : p.status[a] = "completed" => s.risk.judged
    /\ p.status["PortfolioManager"] = "completed" => p.section["final_trade_decision"] = "final"

Waited(as, i, s) == \E k \in 1..i - 1 : ~s.report[as[k]]

TimesFit(p, as, s) ==
    \A i \in 1..Len(as) :
        /\ p.timed[as[i]] = "no" => Waited(as, i, s)
        /\ p.timed[as[i]] = "instant" => Waited(as, i, s) /\ s.report[as[i]]

PanelFits(p, c, s) ==
    /\ Framed(p, c)
    /\ AnalystsFit(p, c, s) /\ ResearchFits(p, s) /\ TradingFits(p, s) /\ RiskFits(p, s)
    /\ TimesFit(p, c.analysts, s)

SessionFits ==
    pc = "launched" =>
        session.client \in Answers /\ session.conf \in Confs /\ session.ticker \in Tickers /\ session.date \in Dates

\* The last panel has words where the final state has, and so has the report.
ReportFits ==
    /\ tree # {} => tree = ReportTree(st)
    /\ DOMAIN panel.section = Selected(job.conf) \union FixedSections
    /\ \A x \in DOMAIN panel.section : panel.section[x] = "final" <=> (x \in AnalystKeys => st.report[x])

CliInv ==
    /\ GraphInv
    /\ SessionFits
    /\ pc \in {"streaming", "finished"} => at # Off /\ Ahead(job.conf.analysts, at, st)
    /\ pc = "streaming" => PanelFits(panel, job.conf, st)
    /\ pc = "finished" => at = END /\ ReportFits
    /\ pc # "finished" => tree = {}

-----------------------------------------------------------------------------
(* One chunk, one team after the other. *)

LEMMA SyncedPanel ==
    ASSUME NEW p, NEW c, NEW s, Framed(p, c)
    PROVE  LET q == SyncTracker(p, c, s)
               silent == {a \in Selected(c) : ~s.report[a]}
           IN  /\ Framed(q, c) /\ q.status = p.status /\ q.section = p.section
               /\ \A a \in Selected(c) :
                     q.timed[a] = IF a \notin silent
                                  THEN (IF p.timed[a] = "no" THEN "instant"
                                        ELSE IF p.timed[a] = "running" THEN "measured" ELSE p.timed[a])
                                  ELSE IF p.timed[a] = "no" /\ NoneSilentBefore(c, silent, a) THEN "running"
                                  ELSE p.timed[a]
BY DEF SyncTracker, Framed

LEMMA AnalystsPanel ==
    ASSUME NEW p, NEW c, NEW s, Framed(p, c), Selected(c) \subseteq AnalystKeys
    PROVE  LET q == UpdateAnalystStatuses(p, c, s)
           IN  /\ Framed(q, c) /\ q.timed = p.timed
               /\ \A x \in FixedSections : q.section[x] = p.section[x]
               /\ \A a \in Selected(c) :
                     /\ q.section[a] = IF s.report[a] THEN "final" ELSE p.section[a]
                     /\ q.status[a] = "completed" <=> q.section[a] = "final"
               /\ \A a \in FixedAgents :
                     q.status[a] = p.status[a] \/ (q.status[a] = "in_progress" /\ p.status[a] = "pending")
<1> DEFINE section == [x \in DOMAIN p.section |->
                          IF x \in AnalystKeys /\ s.report[x] THEN "final" ELSE p.section[x]]
           silent == {a \in Selected(c) : section[a] # "final"}
           status == [a \in DOMAIN p.status |->
                        IF a \notin Selected(c) THEN p.status[a]
                        ELSE IF a \notin silent THEN "completed"
                        ELSE IF NoneSilentBefore(c, silent, a) THEN "in_progress" ELSE "pending"]
           marked == IF silent = {} /\ status["Bull"] = "pending"
                     THEN Mark(status, {"Bull"}, "in_progress") ELSE status
           q == [p EXCEPT !.section = section, !.status = marked]
<1>1. UpdateAnalystStatuses(p, c, s) = q
    BY DEF UpdateAnalystStatuses
<1>2. DOMAIN section = Selected(c) \union FixedSections /\ DOMAIN status = Selected(c) \union FixedAgents
    BY DEF Framed
<1>3. \A x \in FixedSections : x \notin AnalystKeys /\ section[x] = p.section[x]
    BY DEF Framed, FixedSections, AnalystKeys
<1>4. \A a \in FixedAgents : a \notin Selected(c) /\ status[a] = p.status[a]
    BY DEF Framed, FixedAgents, ResearchTeam, Researchers, RiskTeam, AnalystKeys
<1>5. "Bull" \in FixedAgents /\ "Bull" \notin Selected(c)
    BY <1>4 DEF FixedAgents, ResearchTeam, Researchers
<1>6. \A a \in Selected(c) : section[a] = IF s.report[a] THEN "final" ELSE p.section[a]
    BY DEF Framed
<1>7. \A a \in Selected(c) : status[a] = "completed" <=> section[a] = "final"
    BY DEF Framed
<1> HIDE DEF section, status
<1>8. /\ DOMAIN marked = DOMAIN status
      /\ \A a \in DOMAIN status : marked[a] = status[a]
                                  \/ (a = "Bull" /\ marked[a] = "in_progress" /\ status[a] = "pending")
    BY DEF Mark
<1> HIDE DEF marked
<1>9. /\ DOMAIN q = {"status", "section", "timed"}
      /\ q.section = section /\ q.status = marked /\ q.timed = p.timed
    BY DEF Framed
<1> HIDE DEF q
<1>10. Framed(q, c)
    BY <1>2, <1>8, <1>9 DEF Framed
<1>11. \A a \in FixedAgents : a \in DOMAIN status
    BY <1>2
<1>12. \A a \in Selected(c) : a \in DOMAIN status /\ a # "Bull"
    BY <1>2, <1>5
<1> QED BY <1>1, <1>3, <1>4, <1>6, <1>7, <1>8, <1>9, <1>10, <1>11, <1>12

ResearchShown(p, c, d, q) ==
    /\ Framed(q, c) /\ q.timed = p.timed
    /\ \A x \in DOMAIN p.section : x # "investment_plan" => q.section[x] = p.section[x]
    /\ d.judged => q.section["investment_plan"] = "final"
    /\ \A a \in DOMAIN p.status : a \notin ResearchTeam \union {"Trader"} => q.status[a] = p.status[a]
    /\ \A a \in ResearchTeam :
          IF d.judged THEN q.status[a] = "completed" ELSE q.status[a] \in {p.status[a], "in_progress"}
    /\ q.status["Trader"] = IF d.judged THEN "in_progress" ELSE p.status["Trader"]

LEMMA ResearchPanel ==
    ASSUME NEW p, NEW c, NEW d, Framed(p, c), Selected(c) \subseteq AnalystKeys
    PROVE  ResearchShown(p, c, d, UpdateResearch(p, d))
<1>1. \A a \in ResearchTeam : a \in DOMAIN p.status /\ a # "Trader"
    BY DEF Framed, FixedAgents, ResearchTeam, Researchers
<1>2. "Trader" \in DOMAIN p.status /\ "Trader" \notin ResearchTeam
    BY DEF Framed, FixedAgents, ResearchTeam, Researchers
<1>3. "investment_plan" \in DOMAIN p.section
    BY DEF Framed, FixedSections
<1>4. CASE d.judged
    <2> DEFINE q == [p EXCEPT !.section["investment_plan"] = "final",
                              !.status = Mark(Mark(@, ResearchTeam, "completed"), {"Trader"}, "in_progress")]
    <2>1. UpdateResearch(p, d) = q
        BY <1>4 DEF UpdateResearch
    <2>2. /\ DOMAIN q = DOMAIN p /\ q.timed = p.timed
          /\ q.section = [p.section EXCEPT !["investment_plan"] = "final"]
          /\ q.status = Mark(Mark(p.status, ResearchTeam, "completed"), {"Trader"}, "in_progress")
        BY DEF Framed
    <2> HIDE DEF q
    <2>3. /\ DOMAIN q.status = DOMAIN p.status
          /\ \A a \in DOMAIN p.status :
                q.status[a] = IF a = "Trader" THEN "in_progress"
                              ELSE IF a \in ResearchTeam THEN "completed" ELSE p.status[a]
        BY <2>2 DEF Mark
    <2>4. Framed(q, c)
        BY <2>2, <2>3 DEF Framed
    <2> QED BY <1>1, <1>2, <1>3, <1>4, <2>1, <2>2, <2>3, <2>4 DEF ResearchShown
<1>5. CASE ~d.judged /\ (d.said["Bull"] > 0 \/ d.said["Bear"] > 0)
    <2> DEFINE q == [p EXCEPT !.section["investment_plan"] = "draft",
                              !.status = Mark(@, ResearchTeam, "in_progress")]
    <2>1. UpdateResearch(p, d) = q
        BY <1>5 DEF UpdateResearch
    <2>2. /\ DOMAIN q = DOMAIN p /\ q.timed = p.timed
          /\ q.section = [p.section EXCEPT !["investment_plan"] = "draft"]
          /\ q.status = Mark(p.status, ResearchTeam, "in_progress")
        BY DEF Framed
    <2> HIDE DEF q
    <2>3. /\ DOMAIN q.status = DOMAIN p.status
          /\ \A a \in DOMAIN p.status : q.status[a] = IF a \in ResearchTeam THEN "in_progress" ELSE p.status[a]
        BY <2>2 DEF Mark
    <2>4. Framed(q, c)
        BY <2>2, <2>3 DEF Framed
    <2> QED BY <1>1, <1>2, <1>3, <1>5, <2>1, <2>2, <2>3, <2>4 DEF ResearchShown
<1>6. CASE ~d.judged /\ ~(d.said["Bull"] > 0 \/ d.said["Bear"] > 0)
    <2>1. UpdateResearch(p, d) = p
        BY <1>6 DEF UpdateResearch
    <2> QED BY <1>6, <2>1 DEF ResearchShown
<1> QED BY <1>4, <1>5, <1>6

TradingShown(p, c, written, q) ==
    /\ Framed(q, c) /\ q.timed = p.timed
    /\ \A x \in DOMAIN p.section : x # "trader_investment_plan" => q.section[x] = p.section[x]
    /\ written => q.section["trader_investment_plan"] = "final" /\ q.status["Trader"] = "completed"
    /\ ~written => q = p
    /\ \A a \in DOMAIN p.status : a # "Trader" =>
          q.status[a] = p.status[a] \/ (a = "Aggressive" /\ q.status[a] = "in_progress")

LEMMA TradingPanel ==
    ASSUME NEW p, NEW c, NEW written, Framed(p, c), Selected(c) \subseteq AnalystKeys
    PROVE  TradingShown(p, c, written, UpdateTrading(p, written))
<1>1. "Trader" \in DOMAIN p.status /\ "Aggressive" \in DOMAIN p.status
    BY DEF Framed, FixedAgents, RiskTeam
<1>2. "trader_investment_plan" \in DOMAIN p.section
    BY DEF Framed, FixedSections
<1>3. CASE ~written
    BY <1>3 DEF UpdateTrading, TradingShown
<1>4. CASE written
    <2> DEFINE status == IF p.status["Trader"] = "completed" THEN p.status
                         ELSE Mark(Mark(p.status, {"Trader"}, "completed"), {"Aggressive"}, "in_progress")
               q == [p EXCEPT !.section["trader_investment_plan"] = "final", !.status = status]
    <2>1. UpdateTrading(p, written) = q
        BY <1>4 DEF UpdateTrading, Framed
    <2>2. /\ DOMAIN status = DOMAIN p.status /\ status["Trader"] = "completed"
          /\ \A a \in DOMAIN p.status : a # "Trader" =>
                status[a] = p.status[a] \/ (a = "Aggressive" /\ status[a] = "in_progress")
        BY <1>1 DEF Mark
    <2> HIDE DEF status
    <2>3. /\ DOMAIN q = DOMAIN p /\ q.timed = p.timed /\ q.status = status
          /\ q.section = [p.section EXCEPT !["trader_investment_plan"] = "final"]
        BY DEF Framed
    <2> HIDE DEF q
    <2>4. Framed(q, c)
        BY <2>2, <2>3 DEF Framed
    <2> QED BY <1>2, <1>4, <2>1, <2>2, <2>3, <2>4 DEF TradingShown
<1> QED BY <1>3, <1>4

LEMMA RiskPanel ==
    ASSUME NEW p, NEW c, NEW r, Framed(p, c), Selected(c) \subseteq AnalystKeys
    PROVE  LET q == UpdateRisk(p, r)
               team == RiskTeam \union {"PortfolioManager"}
           IN  /\ Framed(q, c) /\ q.timed = p.timed
               /\ \A x \in DOMAIN p.section : x # "final_trade_decision" => q.section[x] = p.section[x]
               /\ \A a \in DOMAIN p.status : a \notin team => q.status[a] = p.status[a]
               /\ (\A a \in team : p.status[a] # "completed") =>
                     /\ \A a \in team : q.status[a] = "completed" => r.judged
                     /\ q.status["PortfolioManager"] = "completed" => q.section["final_trade_decision"] = "final"
<1> DEFINE team == RiskTeam \union {"PortfolioManager"}
           spoke == {a \in RiskTeam : r.said[a] > 0}
           status == Mark(p.status, {a \in spoke : p.status[a] # "completed"}, "in_progress")
<1>1. team \subseteq DOMAIN p.status /\ "PortfolioManager" \notin RiskTeam
    BY DEF Framed, FixedAgents, RiskTeam
<1>2. "final_trade_decision" \in DOMAIN p.section
    BY DEF Framed, FixedSections
<1>3. /\ DOMAIN status = DOMAIN p.status
      /\ \A a \in DOMAIN p.status : a \notin team => status[a] = p.status[a]
      /\ \A a \in team : status[a] \in {p.status[a], "in_progress"}
    BY <1>1 DEF Mark
<1>4. CASE r.judged /\ status["PortfolioManager"] # "completed"
    <2> DEFINE q == [p EXCEPT !.section["final_trade_decision"] = "final",
                              !.status = Mark(status, team, "completed")]
    <2>1. UpdateRisk(p, r) = q
        BY <1>4 DEF UpdateRisk
    <2> HIDE DEF status, team
    <2>2. /\ DOMAIN q = DOMAIN p /\ q.timed = p.timed /\ q.status = Mark(status, team, "completed")
          /\ q.section = [p.section EXCEPT !["final_trade_decision"] = "final"]
        BY DEF Framed
    <2> HIDE DEF q
    <2>3. /\ DOMAIN q.status = DOMAIN p.status
          /\ \A a \in DOMAIN p.status : a \notin team => q.status[a] = p.status[a]
        BY <1>3, <2>2 DEF Mark
    <2>4. Framed(q, c)
        BY <2>2, <2>3 DEF Framed
    <2> QED BY <1>2, <1>4, <2>1, <2>2, <2>3, <2>4 DEF team
<1>5. CASE ~(r.judged /\ status["PortfolioManager"] # "completed")
    <2> DEFINE q == [p EXCEPT !.section["final_trade_decision"] = IF spoke = {} THEN @ ELSE "draft",
                              !.status = status]
    <2>1. UpdateRisk(p, r) = q
        BY <1>5 DEF UpdateRisk
    <2> HIDE DEF status, team, spoke
    <2>2. /\ DOMAIN q = DOMAIN p /\ q.timed = p.timed /\ q.status = status
          /\ q.section = [p.section EXCEPT !["final_trade_decision"] =
                              IF spoke = {} THEN p.section["final_trade_decision"] ELSE "draft"]
        BY DEF Framed
    <2> HIDE DEF q
    <2>3. Framed(q, c)
        BY <1>3, <2>2 DEF Framed
    <2>4. (\A a \in team : p.status[a] # "completed") => \A a \in team : q.status[a] # "completed"
        BY <1>3, <2>2
    <2>5. "PortfolioManager" \in team
        BY DEF team
    <2> QED BY <1>3, <2>1, <2>2, <2>3, <2>4, <2>5 DEF team
<1> QED BY <1>4, <1>5

(***************************************************************************)
(* From one chunk to the next only the analyst whose turn it was may have  *)
(* got a report, and the portfolio manager has not spoken before.          *)
(***************************************************************************)
Grows(as, s, t) ==
    /\ ~s.risk.judged
    /\ s.debate.judged => t.debate.judged
    /\ s.trader => t.trader
    /\ \E j \in 1..Len(as) + 1 :
          \A i \in 1..Len(as) : /\ i # j => t.report[as[i]] = s.report[as[i]]
                                /\ i >= j => ~s.report[as[i]]

LEMMA ChunkTimes ==
    ASSUME NEW c \in Confs, NEW p, NEW q, NEW s, NEW t,
           Framed(p, c), TimesFit(p, c.analysts, s), Grows(c.analysts, s, t),
           q.timed = SyncTracker(p, c, t).timed
    PROVE  TimesFit(q, c.analysts, t)
<1> DEFINE as == c.analysts
           n == Len(as)
           silent == {a \in Selected(c) : ~t.report[a]}
<1>1. /\ n \in Nat /\ DOMAIN as = 1..n
      /\ \A i, k \in 1..n : as[i] = as[k] => i = k
    BY GraphAssumption
<1>2. PICK j \in 1..n + 1 : \A i \in 1..n : /\ i # j => t.report[as[i]] = s.report[as[i]]
                                            /\ i >= j => ~s.report[as[i]]
    BY DEF Grows
<1>3. \A a \in Selected(c) :
          q.timed[a] = IF a \notin silent
                       THEN (IF p.timed[a] = "no" THEN "instant"
                             ELSE IF p.timed[a] = "running" THEN "measured" ELSE p.timed[a])
                       ELSE IF p.timed[a] = "no" /\ NoneSilentBefore(c, silent, a) THEN "running"
                       ELSE p.timed[a]
    BY SyncedPanel
<1>4. ASSUME NEW i \in 1..n, Waited(as, i, s), ~t.report[as[i]] \/ s.report[as[i]] \/ t.report[as[i]] # s.report[as[i]],
             s.report[as[i]] \/ t.report[as[i]]
      PROVE  Waited(as, i, t)
    <2>1. PICK k \in 1..i - 1 : ~s.report[as[k]]
        BY <1>4 DEF Waited
    <2>2. k \in 1..n /\ k # i /\ k < i
        BY <1>1, <2>1
    <2>3. k # j
        BY <1>2, <1>4, <2>2
    <2>4. ~t.report[as[k]]
        BY <1>2, <2>1, <2>2, <2>3
    <2> QED BY <2>4 DEF Waited
<1>5. ASSUME NEW i \in 1..n
      PROVE  /\ q.timed[as[i]] = "no" => Waited(as, i, t)
             /\ q.timed[as[i]] = "instant" => Waited(as, i, t) /\ t.report[as[i]]
    <2> DEFINE a == as[i]
    <2>1. a \in Selected(c)
        BY <1>1 DEF Selected
    <2>2. /\ p.timed[a] = "no" => Waited(as, i, s)
          /\ p.timed[a] = "instant" => Waited(as, i, s) /\ s.report[a]
        BY DEF TimesFit
    <2>3. CASE t.report[a]
        <3>1. q.timed[a] = IF p.timed[a] = "no" THEN "instant"
                           ELSE IF p.timed[a] = "running" THEN "measured" ELSE p.timed[a]
            BY <1>3, <2>1, <2>3
        <3>2. q.timed[a] # "no"
            BY <3>1
        <3>3. q.timed[a] = "instant" => Waited(as, i, s)
            BY <2>2, <3>1
        <3>4. Waited(as, i, s) => Waited(as, i, t)
            BY <1>2, <1>4, <2>3
        <3> QED BY <2>3, <3>2, <3>3, <3>4
    <2>4. CASE ~t.report[a]
        <3>1. q.timed[a] = IF p.timed[a] = "no" /\ NoneSilentBefore(c, silent, a) THEN "running" ELSE p.timed[a]
            BY <1>3, <2>1, <2>4
        <3>2. ~s.report[a]
            BY <1>1, <1>2, <2>4
        <3>3. q.timed[a] # "instant"
            BY <2>2, <3>1, <3>2
        <3>4. ASSUME q.timed[a] = "no"
              PROVE  Waited(as, i, t)
            <4>1. ~NoneSilentBefore(c, silent, a)
                BY <3>1, <3>4
            <4>2. PICK k \in 1..n, l \in 1..n : as[l] = a /\ k < l /\ as[k] \in silent
                BY <1>1, <4>1 DEF NoneSilentBefore
            <4>3. l = i
                BY <1>1, <4>2
            <4>4. k \in 1..i - 1 /\ ~t.report[as[k]]
                BY <1>1, <4>2, <4>3
            <4> QED BY <4>4 DEF Waited
        <3> QED BY <3>3, <3>4
    <2> QED BY <2>3, <2>4
<1> QED BY <1>5 DEF TimesFit

LEMMA ChunkFits ==
    ASSUME NEW c \in Confs, NEW p, NEW s, NEW t, PanelFits(p, c, s), Grows(c.analysts, s, t)
    PROVE  LET q == AfterChunk(p, c, t)
           IN  /\ PanelFits(q, c, t)
               /\ \A a \in DOMAIN p.status : p.status[a] = "completed" => q.status[a] = "completed"
<1> DEFINE p1 == SyncTracker(p, c, t)
           p2 == UpdateAnalystStatuses(p1, c, t)
           p3 == UpdateResearch(p2, t.debate)
           p4 == UpdateTrading(p3, t.trader)
           q == UpdateRisk(p4, t.risk)
           judges == RiskTeam \union {"PortfolioManager"}
<1>1. q = AfterChunk(p, c, t)
    BY DEF AfterChunk
<1>2. Selected(c) \subseteq AnalystKeys
    BY GraphAssumption DEF Selected
<1>3. Framed(p, c)
    BY DEF PanelFits
<1>4. Framed(p1, c) /\ p1.status = p.status /\ p1.section = p.section
    BY <1>3, SyncedPanel
<1>5. p1.timed = SyncTracker(p, c, t).timed
    OBVIOUS
<1> HIDE DEF p1
<1>6. /\ Framed(p2, c) /\ p2.timed = p1.timed
      /\ \A x \in FixedSections : p2.section[x] = p.section[x]
      /\ \A a \in Selected(c) : /\ p2.section[a] = IF t.report[a] THEN "final" ELSE p.section[a]
                                /\ p2.status[a] = "completed" <=> p2.section[a] = "final"
      /\ \A a \in FixedAgents :
            p2.status[a] = p.status[a] \/ (p2.status[a] = "in_progress" /\ p.status[a] = "pending")
    BY <1>2, <1>4, AnalystsPanel
<1> HIDE DEF p2
<1>7. /\ Framed(p3, c) /\ p3.timed = p2.timed
      /\ \A x \in DOMAIN p2.section : x # "investment_plan" => p3.section[x] = p2.section[x]
      /\ t.debate.judged => p3.section["investment_plan"] = "final"
      /\ \A a \in DOMAIN p2.status : a \notin ResearchTeam \union {"Trader"} => p3.status[a] = p2.status[a]
      /\ \A a \in ResearchTeam :
            IF t.debate.judged THEN p3.status[a] = "completed" ELSE p3.status[a] \in {p2.status[a], "in_progress"}
      /\ p3.status["Trader"] = IF t.debate.judged THEN "in_progress" ELSE p2.status["Trader"]
    <2>1. ResearchShown(p2, c, t.debate, p3)
        BY <1>2, <1>6, ResearchPanel
    <2> QED BY <2>1 DEF ResearchShown
<1> HIDE DEF p3
<1>8. /\ Framed(p4, c) /\ p4.timed = p3.timed
      /\ \A x \in DOMAIN p3.section : x # "trader_investment_plan" => p4.section[x] = p3.section[x]
      /\ t.trader => p4.section["trader_investment_plan"] = "final" /\ p4.status["Trader"] = "completed"
      /\ ~t.trader => p4 = p3
      /\ \A a \in DOMAIN p3.status : a # "Trader" =>
            p4.status[a] = p3.status[a] \/ (a = "Aggressive" /\ p4.status[a] = "in_progress")
    <2>1. TradingShown(p3, c, t.trader, p4)
        BY <1>2, <1>7, TradingPanel
    <2> QED BY <2>1 DEF TradingShown
<1> HIDE DEF p4
<1>9. /\ Framed(q, c) /\ q.timed = p4.timed
      /\ \A x \in DOMAIN p4.section : x # "final_trade_decision" => q.section[x] = p4.section[x]
      /\ \A a \in DOMAIN p4.status : a \notin judges => q.status[a] = p4.status[a]
      /\ (\A a \in judges : p4.status[a] # "completed") =>
            /\ \A a \in judges : q.status[a] = "completed" => t.risk.judged
            /\ q.status["PortfolioManager"] = "completed" => q.section["final_trade_decision"] = "final"
    BY <1>2, <1>8, RiskPanel
<1> HIDE DEF q
<1>10. \A a \in Selected(c) : a \notin FixedAgents /\ a \notin FixedSections
    BY <1>2 DEF FixedAgents, FixedSections, ResearchTeam, Researchers, RiskTeam, AnalystKeys
<1>11. \A a \in Selected(c) : s.report[a] => t.report[a]
    <2>1. ASSUME NEW i \in 1..Len(c.analysts), s.report[c.analysts[i]]
          PROVE  t.report[c.analysts[i]]
        BY <2>1 DEF Grows
    <2>2. DOMAIN c.analysts = 1..Len(c.analysts)
        BY GraphAssumption
    <2> QED BY <2>1, <2>2 DEF Selected
<1>12. ASSUME NEW a \in Selected(c)
       PROVE  q.section[a] = p2.section[a] /\ q.status[a] = p2.status[a]
    <2>1. a \in DOMAIN p2.section /\ a \in DOMAIN p3.section /\ a \in DOMAIN p4.section
          /\ a \in DOMAIN p2.status /\ a \in DOMAIN p3.status /\ a \in DOMAIN p4.status
        BY <1>6, <1>7, <1>8 DEF Framed
    <2>2. a \notin ResearchTeam \union {"Trader"} /\ a # "Aggressive" /\ a \notin judges
          /\ a \notin {"investment_plan", "trader_investment_plan", "final_trade_decision"}
        BY <1>10 DEF FixedAgents, FixedSections, RiskTeam
    <2>3. p3.section[a] = p2.section[a] /\ p3.status[a] = p2.status[a]
        BY <1>7, <2>1, <2>2
    <2>4. p4.section[a] = p3.section[a] /\ p4.status[a] = p3.status[a]
        BY <1>8, <2>1, <2>2
    <2>5. q.section[a] = p4.section[a] /\ q.status[a] = p4.status[a]
        BY <1>9, <2>1, <2>2
    <2> QED BY <2>3, <2>4, <2>5
<1>13. AnalystsFit(q, c, t)
    BY <1>6, <1>11, <1>12 DEF PanelFits, AnalystsFit
<1>14. ASSUME NEW a \in ResearchTeam
       PROVE  q.status[a] = p3.status[a] /\ a \in FixedAgents
    <2>1. a \in FixedAgents /\ a \notin judges /\ a # "Trader" /\ a # "Aggressive"
        BY DEF FixedAgents, ResearchTeam, Researchers, RiskTeam
    <2>2. a \in DOMAIN p3.status /\ a \in DOMAIN p4.status
        BY <1>7, <1>8, <2>1 DEF Framed
    <2> QED BY <1>8, <1>9, <2>1, <2>2
<1>15. ResearchFits(q, t)
    <2>1. \A a \in ResearchTeam : q.status[a] = "completed" => t.debate.judged
        BY <1>6, <1>7, <1>14 DEF PanelFits, ResearchFits, Grows
    <2>2. q.section["investment_plan"] = p3.section["investment_plan"]
        BY <1>7, <1>8, <1>9 DEF Framed, FixedSections
    <2> QED BY <1>7, <2>1, <2>2 DEF ResearchFits
<1>16. q.status["Trader"] = p4.status["Trader"]
    BY <1>8, <1>9 DEF Framed, FixedAgents, RiskTeam
<1>17. ~t.trader => p4.status["Trader"] # "completed"
    <2>1. ~t.trader => p.status["Trader"] # "completed"
        BY DEF PanelFits, TradingFits, Grows
    <2>2. "Trader" \in FixedAgents
        BY DEF FixedAgents
    <2> QED BY <1>6, <1>7, <1>8, <2>1, <2>2
<1>18. TradingFits(q, t)
    <2>1. q.section["trader_investment_plan"] = p4.section["trader_investment_plan"]
        BY <1>8, <1>9 DEF Framed, FixedSections
    <2> QED BY <1>8, <1>16, <1>17, <2>1 DEF TradingFits
<1>19. \A a \in judges : p.status[a] # "completed" /\ p4.status[a] # "completed"
    <2>1. ASSUME NEW a \in judges
          PROVE  p.status[a] # "completed" /\ p4.status[a] # "completed"
        <3>1. p.status[a] # "completed"
            BY DEF PanelFits, RiskFits, Grows
        <3>2. a \in FixedAgents /\ a \notin ResearchTeam \union {"Trader"}
            BY DEF FixedAgents, ResearchTeam, Researchers, RiskTeam
        <3>3. a \in DOMAIN p2.status /\ a \in DOMAIN p3.status
            BY <1>6, <1>7, <3>2 DEF Framed
        <3>4. p2.status[a] # "completed"
            BY <1>6, <3>1, <3>2
        <3>5. p3.status[a] # "completed"
            BY <1>7, <3>2, <3>3, <3>4
        <3>6. p4.status[a] # "completed"
            BY <1>8, <3>2, <3>3, <3>5
        <3> QED BY <3>1, <3>6
    <2> QED BY <2>1
<1>20. RiskFits(q, t)
    BY <1>9, <1>19 DEF RiskFits
<1>21. TimesFit(q, c.analysts, t)
    <2>1. q.timed = SyncTracker(p, c, t).timed
        BY <1>5, <1>6, <1>7, <1>8, <1>9
    <2>2. TimesFit(p, c.analysts, s)
        BY DEF PanelFits
    <2> QED BY ONLY c \in Confs, <1>3, <2>1, <2>2, Grows(c.analysts, s, t), ChunkTimes
<1>22. ASSUME NEW a \in DOMAIN p.status, p.status[a] = "completed"
       PROVE  q.status[a] = "completed"
    <2>1. CASE a \in Selected(c)
        <3>1. p.section[a] = "final"
            BY <1>22, <2>1 DEF PanelFits, AnalystsFit
        <3> QED BY <1>6, <1>12, <2>1, <3>1
    <2>2. CASE a \in ResearchTeam
        <3>1. t.debate.judged
            BY <1>22, <2>2 DEF PanelFits, ResearchFits, Grows
        <3> QED BY <1>7, <1>14, <2>2, <3>1
    <2>3. CASE a = "Trader"
        <3>1. t.trader
            BY <1>22, <2>3 DEF PanelFits, TradingFits, Grows
        <3> QED BY <1>8, <1>16, <2>3, <3>1
    <2>4. a \notin judges
        BY <1>19, <1>22
    <2> QED BY <1>3, <2>1, <2>2, <2>3, <2>4 DEF Framed, FixedAgents
<1> QED BY <1>1, <1>9, <1>13, <1>15, <1>18, <1>20, <1>21, <1>22 DEF PanelFits

(***************************************************************************)
(* The stream: one node, one chunk.                                        *)
(***************************************************************************)
LEMMA PanelOrder ==
    ASSUME NEW c \in Confs
    PROVE  /\ Len(c.analysts) \in Nat \ {0} /\ DOMAIN c.analysts = 1..Len(c.analysts)
           /\ \A i \in 1..Len(c.analysts) : c.analysts[i] \in AnalystKeys
           /\ \A i, k \in 1..Len(c.analysts) : c.analysts[i] = c.analysts[k] => i = k
BY GraphAssumption

LEMMA AtAnalyst ==
    ASSUME NEW as, NEW kind \in AnalystKinds, NEW a, NEW s, Ahead(as, <<kind, a>>, s)
    PROVE  /\ \E j \in 1..Len(as) :
                 /\ as[j] = a
                 /\ \A i \in 1..Len(as) : j < i \/ (j = i /\ kind # "clear") => ~s.report[as[i]]
           /\ ~s.debate.judged /\ ~s.trader /\ ~s.risk.judged
BY DEF Ahead, AnalystKinds, END

\* A step that writes no report.
LEMMA NoReportGrows ==
    ASSUME NEW c \in Confs, NEW s, NEW t, ~s.risk.judged,
           s.debate.judged => t.debate.judged, s.trader => t.trader, t.report = s.report
    PROVE  Grows(c.analysts, s, t)
<1>1. Len(c.analysts) + 1 \in 1..Len(c.analysts) + 1
    BY PanelOrder
<1>2. \A i \in 1..Len(c.analysts) : ~(i >= Len(c.analysts) + 1)
    BY PanelOrder
<1> QED BY <1>1, <1>2 DEF Grows

Streams(as, a, t) == a # Off /\ Ahead(as, a, t) /\ Grows(as, st, t)

LEMMA AnalystStreams ==
    ASSUME NEW c \in Confs, st \in AgentStates, NEW a, NEW text \in BOOLEAN, NEW calls \in BOOLEAN,
           Ahead(c.analysts, <<"agent", a>>, st)
    PROVE  Streams(c.analysts, IF calls THEN <<"tools", a>> ELSE <<"clear", a>>,
                   [st EXCEPT !.report[a] = ~calls /\ text])
<1> DEFINE as == c.analysts
           n == Len(as)
           t == [st EXCEPT !.report[a] = ~calls /\ text]
<1>1. PICK j \in 1..n : /\ as[j] = a
                        /\ \A i \in 1..n : j < i \/ j = i => ~st.report[as[i]]
    BY AtAnalyst DEF AnalystKinds
<1>2. ~st.debate.judged /\ ~st.trader /\ ~st.risk.judged
    BY AtAnalyst DEF AnalystKinds
<1>3. /\ t.debate = st.debate /\ t.trader = st.trader /\ t.risk = st.risk
      /\ t.report[a] = (~calls /\ text)
      /\ \A i \in 1..n : i # j => t.report[as[i]] = st.report[as[i]]
    BY <1>1, PanelOrder DEF AgentStates
<1> HIDE DEF t
<1>4. n \in Nat
    BY PanelOrder
<1>5. Grows(as, st, t)
    BY <1>1, <1>2, <1>3, <1>4 DEF Grows
<1>6. CASE calls
    <2>1. \A i \in 1..n : j < i \/ j = i => ~t.report[as[i]]
        BY <1>1, <1>3, <1>6
    <2>2. Ahead(as, <<"tools", a>>, t)
        BY <1>1, <1>2, <1>3, <2>1 DEF Ahead, AnalystKinds
    <2> QED BY <1>5, <1>6, <2>2 DEF Streams, Off, t
<1>7. CASE ~calls
    <2>1. \A i \in 1..n : j < i => ~t.report[as[i]]
        BY <1>1, <1>3, <1>4
    <2>2. Ahead(as, <<"clear", a>>, t)
        BY <1>1, <1>2, <1>3, <2>1 DEF Ahead, AnalystKinds
    <2> QED BY <1>5, <1>7, <2>2 DEF Streams, Off, t
<1> QED BY <1>6, <1>7

LEMMA ToolsStream ==
    ASSUME NEW c \in Confs, NEW a, Ahead(c.analysts, <<"tools", a>>, st)
    PROVE  Streams(c.analysts, <<"agent", a>>, st)
<1>1. Ahead(c.analysts, <<"agent", a>>, st)
    BY AtAnalyst DEF Ahead, AnalystKinds
<1>2. ~st.risk.judged
    BY AtAnalyst DEF AnalystKinds
<1> QED BY <1>1, <1>2, NoReportGrows DEF Streams, Off

LEMMA ClearStreams ==
    ASSUME NEW c \in Confs, NEW a, Ahead(c.analysts, <<"clear", a>>, st)
    PROVE  Streams(c.analysts, AfterClear(c, a), st)
<1> DEFINE as == c.analysts
           n == Len(as)
<1>1. PICK j \in 1..n : as[j] = a /\ \A i \in 1..n : j < i => ~st.report[as[i]]
    BY AtAnalyst DEF AnalystKinds
<1>2. ~st.debate.judged /\ ~st.trader /\ ~st.risk.judged
    BY AtAnalyst DEF AnalystKinds
<1>3. Grows(as, st, st)
    BY <1>2, NoReportGrows
<1>4. n \in Nat /\ \A i, k \in 1..n : as[i] = as[k] => i = k
    BY PanelOrder
<1>5. CASE j < n
    <2>1. j \in 1..n - 1 /\ j + 1 \in 1..n
        BY <1>4, <1>5
    <2>2. \A i \in 1..n - 1 : as[i] = a => i = j
        BY <1>1, <1>4
    <2>3. (CHOOSE i \in 1..n - 1 : as[i] = a) = j
        BY <1>1, <2>1, <2>2
    <2>4. AfterClear(c, a) = <<"agent", as[j + 1]>>
        <3>1. AfterClear(c, a) = <<"agent", as[1 + j]>>
            BY <1>1, <2>1, <2>3 DEF AfterClear
        <3>2. 1 + j = j + 1
            OBVIOUS
        <3> QED BY <3>1, <3>2
    <2>5. \A i \in 1..n : j + 1 < i \/ j + 1 = i => ~st.report[as[i]]
        BY <1>1, <1>4
    <2>6. Ahead(as, <<"agent", as[j + 1]>>, st)
        BY <1>2, <2>1, <2>5 DEF Ahead, AnalystKinds
    <2> QED BY <1>3, <2>4, <2>6 DEF Streams, Off
<1>6. CASE j = n
    <2>1. \A i \in 1..n - 1 : as[i] # a
        BY <1>1, <1>4, <1>6
    <2>2. AfterClear(c, a) = <<"speaker", "Bull">>
        BY <2>1 DEF AfterClear
    <2> QED BY <1>2, <1>3, <2>2 DEF Streams, Off, Ahead
<1> QED BY <1>4, <1>5, <1>6

LEMMA ArgueStreams ==
    ASSUME NEW c \in Confs, NEW s \in Researchers, NEW t, NEW d,
           Ahead(c.analysts, <<"speaker", s>>, st), ~d.judged,
           t.debate = d, t.report = st.report, t.trader = st.trader, t.risk = st.risk
    PROVE  Streams(c.analysts, ShouldContinueDebate(c, d), t)
<1>1. ~st.debate.judged /\ ~st.trader /\ ~st.risk.judged
    BY DEF Ahead, AnalystKinds, Researchers, RiskTeam, END
<1>2. Grows(c.analysts, st, t)
    BY <1>1, NoReportGrows
<1>3. ShouldContinueDebate(c, d) \in
          {<<"speaker", "Bull">>, <<"speaker", "Bear">>, <<"judge", "ResearchManager">>}
    BY DEF ShouldContinueDebate
<1> QED BY <1>1, <1>2, <1>3 DEF Streams, Off, Ahead

LEMMA DiscussStreams ==
    ASSUME NEW c \in Confs, NEW s \in RiskTeam, NEW t, NEW r,
           Ahead(c.analysts, <<"speaker", s>>, st), ~r.judged,
           t.risk = r, t.report = st.report, t.trader = st.trader, t.debate = st.debate
    PROVE  Streams(c.analysts, ShouldContinueRiskAnalysis(c, r), t)
<1>1. st.debate.judged /\ st.trader /\ ~st.risk.judged
    BY DEF Ahead, AnalystKinds, Researchers, RiskTeam, END
<1>2. Grows(c.analysts, st, t)
    BY <1>1, NoReportGrows
<1>3. ShouldContinueRiskAnalysis(c, r) \in
          {<<"speaker", x>> : x \in RiskTeam} \union {<<"judge", "PortfolioManager">>}
    BY DEF ShouldContinueRiskAnalysis, RiskTeam
<1> QED BY <1>1, <1>2, <1>3 DEF Streams, Off, Ahead

LEMMA ManagersStream ==
    ASSUME NEW c \in Confs, NEW t, t.report = st.report
    PROVE  /\ /\ Ahead(c.analysts, <<"judge", "ResearchManager">>, st)
              /\ t.debate.judged /\ t.trader = st.trader /\ t.risk = st.risk
              => Streams(c.analysts, <<"trader", "Trader">>, t)
           /\ /\ Ahead(c.analysts, <<"trader", "Trader">>, st)
              /\ t.trader /\ t.debate = st.debate /\ t.risk = st.risk
              => Streams(c.analysts, <<"speaker", "Aggressive">>, t)
           /\ /\ Ahead(c.analysts, <<"judge", "PortfolioManager">>, st)
              /\ t.debate = st.debate /\ t.trader = st.trader /\ t.risk.judged
              => Streams(c.analysts, END, t)
<1>1. ASSUME Ahead(c.analysts, <<"judge", "ResearchManager">>, st),
             t.debate.judged, t.trader = st.trader, t.risk = st.risk
      PROVE  Streams(c.analysts, <<"trader", "Trader">>, t)
    <2>1. ~st.debate.judged /\ ~st.trader /\ ~st.risk.judged
        BY <1>1 DEF Ahead, AnalystKinds, RiskTeam, END
    <2>2. Grows(c.analysts, st, t)
        BY <1>1, <2>1, NoReportGrows
    <2> QED BY <1>1, <2>1, <2>2 DEF Streams, Off, Ahead
<1>2. ASSUME Ahead(c.analysts, <<"trader", "Trader">>, st),
             t.trader, t.debate = st.debate, t.risk = st.risk
      PROVE  Streams(c.analysts, <<"speaker", "Aggressive">>, t)
    <2>1. st.debate.judged /\ ~st.trader /\ ~st.risk.judged
        BY <1>2 DEF Ahead, AnalystKinds, RiskTeam, END
    <2>2. Grows(c.analysts, st, t)
        BY <1>2, <2>1, NoReportGrows
    <2> QED BY <1>2, <2>1, <2>2 DEF Streams, Off, Ahead, RiskTeam
<1>3. ASSUME Ahead(c.analysts, <<"judge", "PortfolioManager">>, st),
             t.debate = st.debate, t.trader = st.trader, t.risk.judged
      PROVE  Streams(c.analysts, END, t)
    <2>1. st.debate.judged /\ st.trader /\ ~st.risk.judged
        BY <1>3 DEF Ahead, AnalystKinds, RiskTeam, END
    <2>2. Grows(c.analysts, st, t)
        BY <1>3, <2>1, NoReportGrows
    <2> QED BY <1>3, <2>1, <2>2 DEF Streams, Off, Ahead, END
<1> QED BY <1>1, <1>2, <1>3

LEMMA NodeStreams ==
    ASSUME GraphInv, at # Off, Ahead(job.conf.analysts, at, st), Node
    PROVE  Streams(job.conf.analysts, at', st')
<1>1. job.conf \in Confs /\ st \in AgentStates
    BY DEF GraphInv, JobFits, Jobs, Place
<1>2. /\ DOMAIN st = {"report", "debate", "risk", "plan", "trader", "decision"}
      /\ DOMAIN st.debate = {"said", "current", "judged", "count"}
      /\ DOMAIN st.risk = {"said", "latest", "judged", "count"}
    BY <1>1 DEF AgentStates, DebateStates, DiscussionStates
<1>3. CASE MarketAnalyst \/ NewsAnalyst \/ FundamentalsAnalyst \/ SentimentAnalyst
    <2>1. PICK a \in AnalystKeys, calls \in BOOLEAN, text \in BOOLEAN :
            RunNode(<<"agent", a>>, IF calls THEN <<"tools", a>> ELSE <<"clear", a>>,
                    [st EXCEPT !.report[a] = ~calls /\ text])
        BY <1>3, GraphAssumption
           DEF MarketAnalyst, NewsAnalyst, FundamentalsAnalyst, SentimentAnalyst, Analyst, AnalystKeys
    <2>2. /\ at = <<"agent", a>> /\ at' = (IF calls THEN <<"tools", a>> ELSE <<"clear", a>>)
          /\ st' = [st EXCEPT !.report[a] = ~calls /\ text]
        BY <2>1 DEF RunNode
    <2> QED BY <1>1, <2>2, AnalystStreams
<1>4. CASE Tools
    BY <1>1, <1>4, ToolsStream DEF Tools, RunNode
<1>5. CASE MsgClear
    BY <1>1, <1>5, ClearStreams DEF MsgClear, RunNode
<1>6. ASSUME NEW s \in Researchers, Argue(s)
      PROVE  Streams(job.conf.analysts, at', st')
    <2> DEFINE d == [said |-> [st.debate.said EXCEPT ![s] = @ + 1], current |-> s,
                     judged |-> FALSE, count |-> st.debate.count + 1]
               t == [st EXCEPT !.debate = d]
    <2>1. at = <<"speaker", s>> /\ at' = ShouldContinueDebate(job.conf, d) /\ st' = t
        BY <1>6 DEF Argue, RunNode
    <2>2. ~d.judged
        OBVIOUS
    <2> HIDE DEF d
    <2>3. t.debate = d /\ t.report = st.report /\ t.trader = st.trader /\ t.risk = st.risk
        BY <1>2
    <2> HIDE DEF t
    <2> QED BY <1>1, <2>1, <2>2, <2>3, ArgueStreams
<1>7. ASSUME NEW s \in RiskTeam, Discuss(s)
      PROVE  Streams(job.conf.analysts, at', st')
    <2> DEFINE r == [said |-> [st.risk.said EXCEPT ![s] = @ + 1], latest |-> s,
                     judged |-> FALSE, count |-> st.risk.count + 1]
               t == [st EXCEPT !.risk = r]
    <2>1. at = <<"speaker", s>> /\ at' = ShouldContinueRiskAnalysis(job.conf, r) /\ st' = t
        BY <1>7 DEF Discuss, RunNode
    <2>2. ~r.judged
        OBVIOUS
    <2> HIDE DEF r
    <2>3. t.risk = r /\ t.report = st.report /\ t.trader = st.trader /\ t.debate = st.debate
        BY <1>2
    <2> HIDE DEF t
    <2> QED BY <1>1, <2>1, <2>2, <2>3, DiscussStreams
<1>8. CASE ResearchManager
    <2> DEFINE t == [st EXCEPT !.debate.judged = TRUE, !.debate.current = "plan", !.plan = TRUE]
    <2>1. at = <<"judge", "ResearchManager">> /\ at' = <<"trader", "Trader">> /\ st' = t
        BY <1>8 DEF ResearchManager, RunNode
    <2>2. t.debate.judged /\ t.report = st.report /\ t.trader = st.trader /\ t.risk = st.risk
        BY <1>2
    <2> HIDE DEF t
    <2> QED BY <1>1, <2>1, <2>2, ManagersStream
<1>9. CASE Trader
    <2> DEFINE t == [st EXCEPT !.trader = TRUE]
    <2>1. at = <<"trader", "Trader">> /\ at' = <<"speaker", "Aggressive">> /\ st' = t
        BY <1>9 DEF Trader, RunNode
    <2>2. t.trader /\ t.report = st.report /\ t.debate = st.debate /\ t.risk = st.risk
        BY <1>2
    <2> HIDE DEF t
    <2> QED BY <1>1, <2>1, <2>2, ManagersStream
<1>10. CASE PortfolioManager
    <2> DEFINE t == [st EXCEPT !.risk.judged = TRUE, !.risk.latest = "Judge", !.decision = TRUE]
    <2>1. at = <<"judge", "PortfolioManager">> /\ at' = END /\ st' = t
        BY <1>10 DEF PortfolioManager, RunNode
    <2>2. t.report = st.report /\ t.debate = st.debate /\ t.trader = st.trader /\ t.risk.judged
        BY <1>2
    <2> HIDE DEF t
    <2> QED BY <1>1, <2>1, <2>2, ManagersStream
<1> QED BY <1>3, <1>4, <1>5, <1>6, <1>7, <1>8, <1>9, <1>10
        DEF Node, BullResearcher, BearResearcher, AggressiveDebator, ConservativeDebator, NeutralDebator,
            Researchers, RiskTeam

(***************************************************************************)
(* The steps of the command line.                                          *)
(***************************************************************************)
LEMMA FirstPanel ==
    ASSUME NEW c \in Confs, NEW s, s = InitialState(Blank)
    PROVE  PanelFits(InitForAnalysis(c), c, s) /\ Grows(c.analysts, s, s)
<1> DEFINE as == c.analysts
           n == Len(as)
           p == InitForAnalysis(c)
<1>1. /\ n \in Nat \ {0} /\ DOMAIN as = 1..n /\ Head(as) = as[1]
      /\ \A i \in 1..n : as[i] \in AnalystKeys
    BY PanelOrder, GraphAssumption
<1>2. /\ \A a \in AnalystKeys : ~s.report[a]
      /\ ~s.debate.judged /\ ~s.trader /\ ~s.risk.judged
    BY DEF InitialState, Blank, NoDebate, NoDiscussion
<1>3. Framed(p, c)
    BY DEF Framed, InitForAnalysis
<1>4. /\ \A a \in Selected(c) \union FixedAgents : p.status[a] \in {"in_progress", "pending"}
      /\ \A x \in Selected(c) \union FixedSections : p.section[x] = "none"
      /\ \A a \in Selected(c) : p.timed[a] = IF a = Head(as) THEN "running" ELSE "no"
    BY DEF InitForAnalysis
<1> HIDE DEF p
<1>5. AnalystsFit(p, c, s)
    BY <1>4 DEF AnalystsFit
<1>6. ResearchFits(p, s) /\ TradingFits(p, s) /\ RiskFits(p, s)
    BY <1>2, <1>4 DEF ResearchFits, TradingFits, RiskFits, FixedAgents
<1>7. ASSUME NEW i \in 1..n
      PROVE  /\ p.timed[as[i]] = "no" => Waited(as, i, s)
             /\ p.timed[as[i]] # "instant"
    <2>1. as[i] \in Selected(c)
        BY <1>1 DEF Selected
    <2>2. p.timed[as[i]] = IF as[i] = as[1] THEN "running" ELSE "no"
        BY <1>1, <1>4, <2>1
    <2>3. p.timed[as[i]] = "no" => 1 \in 1..i - 1 /\ 1 \in 1..n
        BY <1>1, <2>2
    <2>4. 1 \in 1..n => ~s.report[as[1]]
        BY <1>1, <1>2
    <2> QED BY <2>2, <2>3, <2>4 DEF Waited
<1>8. TimesFit(p, as, s)
    BY <1>7 DEF TimesFit
<1>9. Grows(as, s, s)
    BY <1>2, NoReportGrows
<1> QED BY <1>3, <1>5, <1>6, <1>8, <1>9 DEF PanelFits, p

\* A run of the command line is invoked without a checkpointer and starts over.
LEMMA AnalysisStarts ==
    ASSUME SessionFits, RunAnalysis
    PROVE  /\ job' \in Jobs /\ Invoke(job') /\ at' # Off
           /\ Ahead(job'.conf.analysts, at', st') /\ PanelFits(panel', job'.conf, st')
<1> DEFINE c == session.conf
           as == c.analysts
<1>1. pc = "launched" /\ Invoke(JobOf(session)) /\ panel' = AfterChunk(InitForAnalysis(c), c, st')
    BY DEF RunAnalysis
<1>2. c \in Confs /\ JobOf(session) \in Jobs
    BY <1>1 DEF SessionFits, JobOf, Jobs
<1>3. job' = JobOf(session) /\ job'.conf = c /\ ~job'.checkpoint
    BY <1>1 DEF Invoke, JobOf
<1>4. StartOver(job') /\ ~Resumable(job')
    BY <1>1, <1>3 DEF Invoke, GoOn, Resumable
<1>5. at' = <<"agent", Head(as)>> /\ st' = InitialState(Blank)
    BY <1>3, <1>4 DEF StartOver, FirstNode
<1> HIDE DEF c
<1>6. PanelFits(InitForAnalysis(c), c, st') /\ Grows(as, st', st')
    BY <1>2, <1>5, FirstPanel
<1>7. PanelFits(panel', c, st')
    BY <1>1, <1>2, <1>6, ChunkFits
<1>8. /\ Len(as) \in Nat \ {0} /\ Head(as) = as[1] /\ 1 \in 1..Len(as)
      /\ \A i \in 1..Len(as) : as[i] \in AnalystKeys
    BY <1>2, PanelOrder, GraphAssumption
<1>9. /\ \A a \in AnalystKeys : ~(st')["report"][a]
      /\ ~st'.debate.judged /\ ~st'.trader /\ ~st'.risk.judged
    BY <1>5 DEF InitialState, Blank, NoDebate, NoDiscussion
<1>10. Ahead(as, at', st')
    BY <1>5, <1>8, <1>9 DEF Ahead, AnalystKinds
<1> QED BY <1>1, <1>2, <1>3, <1>5, <1>7, <1>10 DEF Off

LEMMA CliStepIsGraphStep ==
    ASSUME SessionFits, [CliNext]_cliVars
    PROVE  [GraphNext]_graphVars
<1>1. CASE Api
    BY <1>1, StepIsGraphStep DEF Api
<1>2. CASE GetUserSelections \/ ClientRaises \/ Finish \/ SaveReport \/ Midnight
    BY <1>2 DEF GetUserSelections, ClientRaises, Finish, SaveReport, Midnight, NextDay, graphVars
<1>3. CASE RunAnalysis
    BY <1>3, AnalysisStarts DEF GraphNext
<1>4. CASE Chunk
    BY <1>4 DEF Chunk, GraphNext
<1>5. CASE Done
    BY <1>5 DEF Done, Leave, GraphNext
<1>6. CASE StreamRaises
    BY <1>6 DEF StreamRaises, Leave, OutOfSteps, GraphNext
<1>7. CASE UNCHANGED cliVars
    BY <1>7 DEF cliVars, graphVars
<1> QED BY <1>1, <1>2, <1>3, <1>4, <1>5, <1>6, <1>7 DEF CliNext

LEMMA CliInvInit == CliInit => CliInv
BY GraphInvInit DEF CliInit, Init, CliInv, SessionFits

\* The panel after a step of the stream, and what a step may not take back.
Advanced ==
    pc = "streaming" /\ pc' \in {"streaming", "finished"} =>
        \A a \in DOMAIN panel.status : panel.status[a] = "completed" => panel'.status[a] = "completed"

LEMMA CliInvNext ==
    ASSUME CliInv, [CliNext]_cliVars
    PROVE  CliInv' /\ Advanced
<1>1. SessionFits /\ GraphInv
    BY DEF CliInv
<1>2. GraphInv'
    BY <1>1, CliStepIsGraphStep, GraphInvNext
<1>3. ASSUME pc' \notin {"launched", "streaming", "finished"}, tree' = {}
      PROVE  CliInv' /\ Advanced
    BY <1>2, <1>3 DEF CliInv, SessionFits, Advanced
<1>4. CASE Api
    <2>1. pc' \in {"idle", "running", "logged", "stored"}
        BY <1>4 DEF Api, Next, Propagate, PropagateRaises, Progress, RunStep, RecursionError, LogState,
                    Store, ClearAndReturn, Crash, ClearCheckpoints, NextDay
    <2>2. tree' = {}
        BY <1>4 DEF Api, shown, CliInv
    <2> QED BY <1>3, <2>1, <2>2
<1>5. CASE GetUserSelections
    <2>1. PICK t \in Tickers, d \in Dates, c \in Confs, a \in Answers :
            session' = [ticker |-> Canonical[t], date |-> d, conf |-> c, client |-> a]
        BY <1>5 DEF GetUserSelections
    <2>2. SessionFits'
        BY <2>1, GraphAssumption DEF SessionFits
    <2>3. pc = "idle" /\ pc' = "launched" /\ tree' = tree
        BY <1>5 DEF GetUserSelections
    <2> QED BY <1>2, <2>2, <2>3 DEF CliInv, Advanced
<1>6. CASE ClientRaises \/ Done \/ StreamRaises
    <2>1. pc' = "idle" /\ tree' = {}
        BY <1>6 DEF ClientRaises, Done, StreamRaises, Leave, CliInv
    <2> QED BY <1>3, <2>1
<1>7. CASE RunAnalysis
    <2>1. pc = "launched" /\ pc' = "streaming" /\ tree' = tree
        BY <1>7 DEF RunAnalysis
    <2> QED BY <1>1, <1>2, <1>7, <2>1, AnalysisStarts DEF CliInv, SessionFits, Advanced
<1>8. CASE Chunk
    <2>1. /\ pc = "streaming" /\ pc' = "streaming" /\ Node /\ tree' = tree
          /\ panel' = AfterChunk(panel, job.conf, st')
        BY <1>8 DEF Chunk
    <2>2. at # Off /\ Ahead(job.conf.analysts, at, st) /\ PanelFits(panel, job.conf, st)
        BY <2>1 DEF CliInv
    <2>3. Streams(job.conf.analysts, at', st') /\ job' = job /\ job.conf \in Confs
        BY <1>1, <2>1, <2>2, NodeStreams, NodeKeepsTheJob DEF GraphInv, JobFits, Jobs
    <2>4. /\ PanelFits(panel', job.conf, st')
          /\ \A a \in DOMAIN panel.status : panel.status[a] = "completed" => panel'.status[a] = "completed"
        BY <2>1, <2>2, <2>3, ChunkFits DEF Streams
    <2> QED BY <1>2, <2>1, <2>3, <2>4 DEF CliInv, SessionFits, Advanced, Streams
<1>9. CASE Finish
    <2>1. /\ pc = "streaming" /\ pc' = "finished" /\ panel' = Completed(panel, st)
          /\ at = END /\ tree = {} /\ UNCHANGED <<job, at, st, tree>>
        BY <1>9 DEF Finish, CliInv
    <2>2. /\ DOMAIN panel = {"status", "section", "timed"}
          /\ DOMAIN panel.section = Selected(job.conf) \union FixedSections
        BY <2>1 DEF CliInv, PanelFits, Framed
    <2>3. \A a \in DOMAIN panel.status : panel'.status[a] = "completed"
        BY <2>1, <2>2 DEF Completed
    <2>4. panel'.section = [x \in DOMAIN panel.section |->
                               IF x \in AnalystKeys /\ ~st.report[x] THEN "empty" ELSE "final"]
        BY <2>1, <2>2 DEF Completed
    <2>5. ReportFits'
        BY <2>1, <2>2, <2>4 DEF ReportFits
    <2> QED BY <1>2, <2>1, <2>3, <2>5 DEF CliInv, SessionFits, Advanced
<1>10. CASE SaveReport
    <2>1. pc = "finished" /\ tree' = ReportTree(st) /\ UNCHANGED <<job, at, st, pc, session, panel>>
        BY <1>10 DEF SaveReport
    <2>2. ReportFits /\ at = END /\ at # Off /\ Ahead(job.conf.analysts, at, st)
        BY <2>1 DEF CliInv
    <2>3. ReportTree(st)' = ReportTree(st)
        BY <2>1 DEF ReportTree
    <2>4. ReportFits'
        BY <2>1, <2>2, <2>3 DEF ReportFits
    <2> QED BY <1>2, <2>1, <2>2, <2>4 DEF CliInv, SessionFits, Advanced
<1>11. CASE Midnight \/ UNCHANGED cliVars
    <2>1. UNCHANGED <<job, at, st, pc, session, panel, tree>>
        BY <1>11 DEF Midnight, NextDay, shown, cliVars
    <2> QED BY <1>2, <2>1 DEF CliInv, ReportFits, SessionFits, Advanced
<1> QED BY <1>4, <1>5, <1>6, <1>7, <1>8, <1>9, <1>10, <1>11 DEF CliNext

\* The command line, beside callers of propagate, does nothing to the graph that
\* its own specification does not allow: every promise of the graph holds for
\* streamed runs too (cli/main.py 991-1119).
THEOREM CommandLineRunsTheGraph == CliSpec => GraphSpec
<1>1. CliInv /\ [CliNext]_cliVars => CliInv'
    BY CliInvNext
<1>2. CliInv /\ [CliNext]_cliVars => [GraphNext]_graphVars
    BY CliStepIsGraphStep DEF CliInv
<1>3. CliInit => GraphInit
    BY DEF CliInit, Init
<1> QED BY <1>1, <1>2, <1>3, CliInvInit, PTL DEF CliSpec, GraphSpec

\* Everyone is heard in the runs of the command line as well.
COROLLARY EveryoneIsHeardInTheStream == CliSpec => []EveryoneIsHeard
BY CommandLineRunsTheGraph, EveryoneIsHeardAlways, PTL

LEMMA AnalystIsNotDone ==
    ASSUME NEW c \in Confs, NEW p, NEW s, NEW kind \in {"agent", "tools"}, NEW a,
           PanelFits(p, c, s), Ahead(c.analysts, <<kind, a>>, s)
    PROVE  p.status[a] # "completed"
<1>1. PICK j \in 1..Len(c.analysts) : c.analysts[j] = a /\ ~s.report[c.analysts[j]]
    <2>1. kind \in AnalystKinds /\ kind # "clear"
        BY DEF AnalystKinds
    <2>2. PICK j \in 1..Len(c.analysts) :
            /\ c.analysts[j] = a
            /\ \A i \in 1..Len(c.analysts) : j < i \/ (j = i /\ kind # "clear") => ~s.report[c.analysts[i]]
        BY <2>1, AtAnalyst
    <2> QED BY <2>1, <2>2
<1>2. a \in Selected(c) /\ ~s.report[a]
    BY <1>1, PanelOrder DEF Selected
<1> QED BY <1>2 DEF PanelFits, AnalystsFit

LEMMA NextIsNotDone ==
    ASSUME NEW c \in Confs, NEW p, NEW s, NEW a, a # END, a[1] # "clear",
           PanelFits(p, c, s), Ahead(c.analysts, a, s)
    PROVE  p.status[a[2]] # "completed"
<1>1. CASE a[1] \in AnalystKinds /\ a = <<a[1], a[2]>>
    <2>1. a[1] \in {"agent", "tools"}
        BY <1>1 DEF AnalystKinds
    <2> DEFINE kind == a[1]
               x == a[2]
    <2>2. Ahead(c.analysts, <<kind, x>>, s)
        BY <1>1
    <2> HIDE DEF kind, x
    <2>3. kind \in {"agent", "tools"}
        BY <2>1 DEF kind
    <2>4. p.status[x] # "completed"
        BY <2>2, <2>3, AnalystIsNotDone
    <2> QED BY <2>4 DEF x
<1>2. CASE /\ a \in {<<"speaker", "Bull">>, <<"speaker", "Bear">>, <<"judge", "ResearchManager">>}
           /\ ~s.debate.judged
    BY <1>2 DEF PanelFits, ResearchFits, ResearchTeam, Researchers
<1>3. CASE a = <<"trader", "Trader">> /\ ~s.trader
    BY <1>3 DEF PanelFits, TradingFits
<1>4. CASE /\ a \in {<<"speaker", r>> : r \in RiskTeam} \union {<<"judge", "PortfolioManager">>}
           /\ ~s.risk.judged
    <2>1. a[2] \in RiskTeam \union {"PortfolioManager"}
        BY <1>4
    <2> QED BY <1>4, <2>1 DEF PanelFits, RiskFits
<1> QED BY <1>1, <1>2, <1>3, <1>4 DEF Ahead

LEMMA CompletedIsFinal ==
    ASSUME NEW c \in Confs, NEW p, NEW s, PanelFits(p, c, s), NEW x \in CompletedReports(p)
    PROVE  p.section[x] = "final"
<1>1. /\ x \in Selected(c) \union FixedSections
      /\ p.status[Finalizer(x)] = "completed"
    BY DEF CompletedReports, PanelFits, Framed
<1>2. CASE x \in Selected(c)
    <2>1. x \in AnalystKeys
        BY <1>2, GraphAssumption DEF Selected
    <2>2. Finalizer(x) = x
        BY <2>1 DEF Finalizer, AnalystKeys
    <2> QED BY <1>1, <1>2, <2>2 DEF PanelFits, AnalystsFit
<1>3. CASE x = "investment_plan"
    <2>1. Finalizer(x) = "ResearchManager" /\ "ResearchManager" \in ResearchTeam
        BY <1>3 DEF Finalizer, ResearchTeam
    <2> QED BY <1>1, <1>3, <2>1 DEF PanelFits, ResearchFits
<1>4. CASE x = "trader_investment_plan"
    <2>1. Finalizer(x) = "Trader"
        BY <1>4 DEF Finalizer
    <2> QED BY <1>1, <1>4, <2>1 DEF PanelFits, TradingFits
<1>5. CASE x = "final_trade_decision"
    <2>1. Finalizer(x) = "PortfolioManager"
        BY <1>5 DEF Finalizer
    <2> QED BY <1>1, <1>5, <2>1 DEF PanelFits, RiskFits
<1> QED BY <1>1, <1>2, <1>3, <1>4, <1>5 DEF FixedSections

\* A section of the last panel has words exactly if its author's part is in the
\* report: at the end both managers have judged and the trader has written.
LEMMA SavedIsShown ==
    ASSUME NEW c \in Confs, Ahead(c.analysts, END, st), NEW x \in Selected(c) \union FixedSections
    PROVE  Finalizer(x) \in ReportTree(st) <=> (x \in AnalystKeys => st.report[x])
<1>1. st.debate.judged /\ st.trader /\ st.risk.judged
    BY DEF Ahead, AnalystKinds, RiskTeam, END
<1>2. CASE x \in Selected(c)
    <2>1. x \in AnalystKeys
        BY <1>2, GraphAssumption DEF Selected
    <2>2. Finalizer(x) = x
        BY <2>1 DEF Finalizer, AnalystKeys
    <2>3. x \notin Researchers \union RiskTeam \union {"ResearchManager", "Trader", "PortfolioManager"}
        BY <2>1 DEF AnalystKeys, Researchers, RiskTeam
    <2> QED BY <2>1, <2>2, <2>3 DEF ReportTree
<1>3. CASE x \in FixedSections
    <2>1. x \notin AnalystKeys
        BY <1>3 DEF FixedSections, AnalystKeys
    <2>2. Finalizer(x) \in {"ResearchManager", "Trader", "PortfolioManager"}
        BY <1>3 DEF FixedSections, Finalizer
    <2> QED BY <1>1, <2>1, <2>2 DEF ReportTree
<1> QED BY <1>2, <1>3

LEMMA CliInvTells == CliInv => ProgressIsTruthful
<1> SUFFICES ASSUME CliInv PROVE ProgressIsTruthful
    OBVIOUS
<1>1. job.conf \in Confs
    BY DEF CliInv, GraphInv, JobFits, Jobs
<1>2. ASSUME pc = "streaming"
      PROVE  /\ at # END /\ at[1] # "clear" => panel.status[at[2]] # "completed"
             /\ \A x \in CompletedReports(panel) : panel.section[x] = "final"
             /\ \A i \in DOMAIN job.conf.analysts : panel.timed[job.conf.analysts[i]] = "instant" =>
                    \E k \in 1..i - 1 : ~st.report[job.conf.analysts[k]]
    <2>1. Ahead(job.conf.analysts, at, st) /\ PanelFits(panel, job.conf, st)
        BY <1>2 DEF CliInv
    <2>2. at # END /\ at[1] # "clear" => panel.status[at[2]] # "completed"
        BY <1>1, <2>1, NextIsNotDone
    <2>3. \A x \in CompletedReports(panel) : panel.section[x] = "final"
        BY <1>1, <2>1, CompletedIsFinal
    <2>4. \A i \in DOMAIN job.conf.analysts : panel.timed[job.conf.analysts[i]] = "instant" =>
              \E k \in 1..i - 1 : ~st.report[job.conf.analysts[k]]
        BY <1>1, <2>1, PanelOrder DEF PanelFits, TimesFit, Waited
    <2> QED BY <2>2, <2>3, <2>4
<1>3. ASSUME pc = "finished", tree # {}, NEW x \in DOMAIN panel.section
      PROVE  panel.section[x] = "final" <=> Finalizer(x) \in tree
    <2>1. Ahead(job.conf.analysts, END, st) /\ ReportFits
        BY <1>3 DEF CliInv
    <2>2. tree = ReportTree(st) /\ x \in Selected(job.conf) \union FixedSections
        BY <1>3, <2>1 DEF ReportFits
    <2>3. panel.section[x] = "final" <=> (x \in AnalystKeys => st.report[x])
        BY <1>3, <2>1 DEF ReportFits
    <2> QED BY <1>1, <2>1, <2>2, <2>3, SavedIsShown
<1> QED BY <1>2, <1>3 DEF ProgressIsTruthful

\* The panel, which guesses who is at work from the state alone, never shows the
\* agent that runs next as done, counts no draft as a report and times no analyst
\* from a chunk it had not reached, and the saved report has the sections the last
\* panel has words for: for every choice and order of analysts, every number of
\* rounds, and whatever the analysts leave empty (cli/main.py 824-884, 1144-1241).
THEOREM ProgressStaysTruthful == CliSpec => []ProgressIsTruthful
<1>1. CliInv /\ [CliNext]_cliVars => CliInv'
    BY CliInvNext
<1> QED BY <1>1, CliInvTells, CliInvInit, PTL DEF CliSpec

\* Who is shown as completed stays so until the run is over, although every chunk
\* is worked through anew (cli/main.py 1119-1241).
THEOREM ProgressNeverGoesBack == CliSpec => ProgressOnlyAdvances
<1>1. CliInv /\ [CliNext]_cliVars => CliInv' /\ Advanced
    BY CliInvNext
<1>2. Advanced => [pc = "streaming" /\ pc' \in {"streaming", "finished"} =>
          \A a \in DOMAIN panel.status :
              panel.status[a] = "completed" => panel'.status[a] = "completed"]_cliVars
    BY DEF Advanced
<1> QED BY <1>1, <1>2, CliInvInit, PTL DEF CliSpec, ProgressOnlyAdvances

(***************************************************************************)
(* The key and the address.                                                *)
(***************************************************************************)
LEMMA FirstOfTwo == ASSUME NEW u, NEW v, u # "none" PROVE FirstUrl(<<u, v>>) = u
<1> DEFINE urls == <<u, v>>
           First(i) == urls[i] # "none" /\ \A k \in 1..i - 1 : urls[k] = "none"
<1>1. DOMAIN urls = 1..2 /\ urls[1] = u
    OBVIOUS
<1>2. First(1)
    BY <1>1
<1>3. \A i \in DOMAIN urls : First(i) => i = 1
    BY <1>1
<1>4. (CHOOSE i \in DOMAIN urls : First(i)) = 1
    BY <1>1, <1>2, <1>3
<1> QED BY <1>1, <1>4 DEF FirstUrl

LEMMA SecondOfThree == ASSUME NEW u, NEW v, u # "none" PROVE FirstUrl(<<"none", u, v>>) = u
<1> DEFINE urls == <<"none", u, v>>
           First(i) == urls[i] # "none" /\ \A k \in 1..i - 1 : urls[k] = "none"
<1>1. DOMAIN urls = 1..3 /\ urls[1] = "none" /\ urls[2] = u
    OBVIOUS
<1>2. First(2)
    BY <1>1
<1>3. \A i \in DOMAIN urls : First(i) => i = 2
    BY <1>1
<1>4. (CHOOSE i \in DOMAIN urls : First(i)) = 2
    BY <1>1, <1>2, <1>3
<1> QED BY <1>1, <1>4 DEF FirstUrl

LEMMA MenuFits ==
    ASSUME NEW m \in SelectLLMProvider, m[1] \notin Addressless, m[1] # "ollama"
    PROVE  m[2] # "none" /\ AccountAt(m[2]) = m[1]
<1>1. CASE m[1] \in Hosted
    <2>1. m = <<m[1], ProviderDefaultUrl(m[1])>>
        BY <1>1 DEF SelectLLMProvider, AskRegion, Menu, Hosted, Regional, Addressless
    <2>2. m[2] = m[1]
        BY <1>1, <2>1 DEF ProviderDefaultUrl, Hosted
    <2> QED BY <1>1, <2>2 DEF Hosted, AccountAt
<1>2. CASE m[1] \notin Hosted
    <2>1. m \in AskRegion("qwen") \union AskRegion("glm") \union AskRegion("minimax")
        BY <1>2 DEF SelectLLMProvider, Menu, Regional, Hosted, Addressless
    <2>2. m \in {<<"qwen", "dashscope-intl">>, <<"qwen-cn", "dashscope">>, <<"glm", "z.ai">>,
                 <<"glm-cn", "bigmodel">>, <<"minimax", "minimax.io">>, <<"minimax-cn", "minimaxi">>}
        BY <2>1 DEF AskRegion
    <2> QED BY <2>2 DEF AccountAt
<1> QED BY <1>1, <1>2

LEMMA AnswersFit ==
    ASSUME NEW a \in Answers, a.asked, ~a.override, a.key # "none", a.provider \notin Addressless
    PROVE  AccountAt(ClientUrl(a)) = a.key
<1>1. PICK m \in SelectLLMProvider, env \in EnvUrls :
          a \in Answer(TRUE, m[1], PromptUrl(m[1], ResolveBackendUrl(m[1], m[2], env)), env)
    <2>1. \/ \E m \in SelectLLMProvider, env \in EnvUrls :
                a \in Answer(TRUE, m[1], PromptUrl(m[1], ResolveBackendUrl(m[1], m[2], env)), env)
          \/ \E p \in Menu \union Mainland, env \in EnvUrls :
                a \in Answer(FALSE, p, ResolveBackendUrl(p, "none", env), env)
        <3>1. PICK env \in EnvUrls : a \in FromMenu(env) \/ a \in FromEnvironment(env)
            BY DEF Answers
        <3>2. a \in FromMenu(env) => \E m \in SelectLLMProvider :
                  a \in Answer(TRUE, m[1], PromptUrl(m[1], ResolveBackendUrl(m[1], m[2], env)), env)
            BY DEF FromMenu
        <3>3. a \in FromEnvironment(env) => \E p \in Menu \union Mainland :
                  a \in Answer(FALSE, p, ResolveBackendUrl(p, "none", env), env)
            BY DEF FromEnvironment
        <3> QED BY <3>1, <3>2, <3>3
    <2>2. \A p, u, e : a \notin Answer(FALSE, p, u, e)
        BY DEF Answer
    <2> QED BY <2>1, <2>2
<1>2. /\ env = "none" /\ a.provider = m[1] /\ a.key \in EnsureApiKey(m[1])
      /\ a.url = PromptUrl(m[1], ResolveBackendUrl(m[1], m[2], env))
    <2> DEFINE p == m[1]
               u == PromptUrl(m[1], ResolveBackendUrl(m[1], m[2], env))
    <2>1. a \in Answer(TRUE, p, u, env)
        BY <1>1
    <2> HIDE DEF p, u
    <2>2. PICK k \in EnsureApiKey(p) :
            a = [asked |-> TRUE, override |-> env # "none", provider |-> p, url |-> u, key |-> k]
        BY <2>1 DEF Answer
    <2>3. a.provider = p /\ a.url = u /\ a.key \in EnsureApiKey(p)
        BY <2>2
    <2>4. a.override <=> env # "none"
        BY <2>2
    <2> QED BY <2>3, <2>4 DEF p, u
<1>3. m[1] \notin Keyless /\ a.key = m[1] /\ m[1] \notin Addressless
    BY <1>2 DEF EnsureApiKey
<1>4. m[2] # "none" /\ AccountAt(m[2]) = m[1]
    BY <1>3, MenuFits DEF Keyless
<1>5. ResolveBackendUrl(m[1], m[2], env) = m[2]
    BY <1>2, <1>4, SecondOfThree DEF ResolveBackendUrl
<1>6. a.url = m[2]
    BY <1>2, <1>3, <1>5 DEF PromptUrl, Addressless
<1>7. ClientUrl(a) = m[2]
    BY <1>4, <1>6, FirstOfTwo DEF ClientUrl
<1> QED BY <1>3, <1>4, <1>7

\* A key given for a provider picked in the menu is used at the platform that
\* issued it, for every provider and region (cli/utils.py 378-650,
\* llm_clients/openai_client.py 283-297).
THEOREM KeysFitEndpoints == CliSpec => []KeyFitsEndpoint
<1>1. CliInv /\ [CliNext]_cliVars => CliInv'
    BY CliInvNext
<1>2. CliInv => KeyFitsEndpoint
    BY AnswersFit DEF CliInv, SessionFits, KeyFitsEndpoint
<1> QED BY <1>1, <1>2, CliInvInit, PTL DEF CliSpec
=============================================================================
