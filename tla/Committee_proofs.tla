--------------------------- MODULE Committee_proofs -------------------------
(***************************************************************************)
(* Proofs about the committee.  The invariant says, for every superstep a  *)
(* run can be in, whose outputs are already stored and what the gate has   *)
(* made of the reports.  For the ceiling, it says which nodes can be inside *)
(* the gateway, and charges each of them its dearest call in advance.       *)
(***************************************************************************)
EXTENDS Committee, FiniteSetTheorems, FunctionTheorems, TLAPS

Typed ==
    /\ DOMAIN graph = Runs /\ DOMAIN frontier = Runs /\ DOMAIN returned = Runs
    /\ DOMAIN reports = Runs /\ DOMAIN grades = Runs /\ DOMAIN outputs = Runs
    /\ DOMAIN status = Runs /\ DOMAIN tokenCost = Runs
    /\ DOMAIN pc = Callers /\ DOMAIN runSpent = Runs

Gated == {"quality_gate"}

Supersteps ==
    {Analysts, Gated, Debate} \union {{Downstream[i]} : i \in DOMAIN Downstream}

\* Every call that came to its end is in the ledger, and so is what is stored.
Paid(r) ==
    /\ \A a \in Agents \ Silent : pc[<<r, a>>] = "completed" => <<r, a>> \in rows
    /\ \A a \in outputs[r] \ Silent : <<r, a>> \in rows

\* Whose outputs are stored when a superstep is under way.
Stored(r) ==
    /\ outputs[r] \subseteq Agents
    /\ returned[r] \subseteq frontier[r] \intersect outputs[r]
    /\ graph[r] = "running" => frontier[r] \in Supersteps
    /\ graph[r] # "running" => frontier[r] = {}
    /\ frontier[r] \in Supersteps \ {Analysts} => Analysts \subseteq outputs[r]
    /\ \A i \in DOMAIN Downstream :
          frontier[r] = {Downstream[i]} =>
              /\ Debate \subseteq outputs[r]
              /\ \A j \in DOMAIN Downstream : j < i => Downstream[j] \in outputs[r]
    /\ graph[r] = "ended" => outputs[r] = Agents

\* What the reports are like then.
Graded(r) ==
    /\ DOMAIN reports[r] \subseteq Analysts
    /\ frontier[r] = Analysts => returned[r] \subseteq DOMAIN reports[r]
    /\ frontier[r] \in {Gated, Debate} => DOMAIN reports[r] = Analysts
    /\ frontier[r] = Debate => grades[r] = [a \in Analysts |-> reports[r][a] = "sound"]

Closed(r) ==
    status[r] = "DONE" => /\ graph[r] \in {"ended", "lost"}
                          /\ outputs[r] = Agents
                          /\ tokenCost[r] = runSpent[r]

RunFits(r) == Paid(r) /\ Stored(r) /\ Graded(r) /\ Closed(r)

CommitteeInv == Typed /\ \A r \in Runs : RunFits(r)

-----------------------------------------------------------------------------

\* The supersteps are told apart by their nodes.
LEMMA SuperstepsDiffer ==
    /\ {} \notin Supersteps
    /\ Analysts # Gated /\ Analysts # Debate /\ Gated # Debate
    /\ \A i \in DOMAIN Downstream :
          /\ {Downstream[i]} \notin {Analysts, Gated, Debate}
          /\ \A j \in DOMAIN Downstream : {Downstream[i]} = {Downstream[j]} => i = j
<1>1. Analysts # {} /\ Debate # {} /\ Analysts \subseteq Agents /\ Debate \subseteq Agents
    BY GraphAssumption DEF Agents
<1>2. \A i \in DOMAIN Downstream : Downstream[i] \in Agents
    BY DEF Agents
<1> QED BY <1>1, <1>2, NamesAssumption DEF Supersteps, Gated

LEMMA ChainIndices == DOMAIN Downstream = 1..Len(Downstream) /\ Len(Downstream) \in Nat \ {0}
BY GraphAssumption, NamesAssumption

\* What comes after each superstep.
LEMMA SuccessorsAre ==
    /\ Successors(Analysts) = Gated
    /\ Successors(Gated) = Debate
    /\ Successors(Debate) = {Downstream[1]}
    /\ \A i \in DOMAIN Downstream :
          Successors({Downstream[i]}) =
              IF i = Len(Downstream) THEN {} ELSE {Downstream[i + 1]}
<1>1. Successors(Analysts) = Gated
    BY SuperstepsDiffer DEF Successors, Gated
<1>2. Successors(Gated) = Debate
    BY SuperstepsDiffer DEF Successors, Gated
<1>3. Successors(Debate) = {Downstream[1]}
    BY SuperstepsDiffer DEF Successors, Gated
<1>4. ASSUME NEW i \in DOMAIN Downstream
      PROVE  Successors({Downstream[i]}) =
                 IF i = Len(Downstream) THEN {} ELSE {Downstream[i + 1]}
    <2>1. Successors({Downstream[i]}) =
              {Downstream[k + 1] : k \in {j \in 1..(Len(Downstream) - 1) :
                                            {Downstream[i]} = {Downstream[j]}}}
        BY SuperstepsDiffer DEF Successors, Gated
    <2>2. \A j \in 1..(Len(Downstream) - 1) : {Downstream[i]} = {Downstream[j]} <=> j = i
        BY SuperstepsDiffer, ChainIndices
    <2>3. i \in 1..Len(Downstream)
        BY ChainIndices
    <2>4. CASE i = Len(Downstream)
        <3>1. {j \in 1..(Len(Downstream) - 1) : {Downstream[i]} = {Downstream[j]}} = {}
            BY <2>2, <2>4, ChainIndices
        <3> QED BY <2>1, <2>4, <3>1
    <2>5. CASE i # Len(Downstream)
        <3>1. {j \in 1..(Len(Downstream) - 1) : {Downstream[i]} = {Downstream[j]}} = {i}
            BY <2>2, <2>3, <2>5, ChainIndices
        <3>2. Successors({Downstream[i]}) = {Downstream[k + 1] : k \in {i}}
            BY <2>1, <3>1
        <3>3. {Downstream[k + 1] : k \in {i}} = {Downstream[i + 1]}
            OBVIOUS
        <3> QED BY <2>5, <3>2, <3>3
    <2> QED BY <2>4, <2>5
<1> QED BY <1>1, <1>2, <1>3, <1>4

\* A run of which nothing changes keeps its invariant when the ledger grows.
LEMMA OthersFit ==
    ASSUME NEW q \in Runs, RunFits(q), rows \subseteq rows',
           graph'[q] = graph[q], frontier'[q] = frontier[q], returned'[q] = returned[q],
           reports'[q] = reports[q], grades'[q] = grades[q], outputs'[q] = outputs[q],
           status'[q] = status[q], tokenCost'[q] = tokenCost[q], runSpent'[q] = runSpent[q],
           \A a \in Agents : pc'[<<q, a>>] = pc[<<q, a>>]
    PROVE  RunFits(q)'
<1>1. Paid(q)'
    BY DEF RunFits, Paid
<1>2. Stored(q)'
    BY DEF RunFits, Stored
<1>3. Graded(q)'
    BY DEF RunFits, Graded
<1>4. Closed(q)'
    BY DEF RunFits, Closed
<1> QED BY <1>1, <1>2, <1>3, <1>4 DEF RunFits

-----------------------------------------------------------------------------
(* The steps of a run. *)

LEMMA InitFits == Init => CommitteeInv
<1>1. {} \notin Supersteps /\ Analysts # {} /\ Debate # {}
    BY SuperstepsDiffer, GraphAssumption
<1>2. ASSUME Init, NEW r \in Runs
      PROVE  RunFits(r)
    <2>1. Paid(r)
        BY <1>2 DEF Init, Paid, G!Init, Callers
    <2>2. Stored(r)
        BY <1>1, <1>2 DEF Init, Stored, Supersteps
    <2>3. Graded(r)
        BY <1>1, <1>2 DEF Init, Graded, NoReports, Gated
    <2>4. Closed(r)
        BY <1>2 DEF Init, Closed
    <2> QED BY <2>1, <2>2, <2>3, <2>4 DEF RunFits
<1>3. Init => Typed
    BY DEF Init, Typed, G!Init
<1> QED BY <1>2, <1>3 DEF CommitteeInv

LEMMA StartFits ==
    ASSUME CommitteeInv, NEW r \in Runs, Start(r)
    PROVE  CommitteeInv'
<1>1. Typed'
    BY DEF CommitteeInv, Typed, Start, gatewayVars
<1>2. RunFits(r)'
    <2>1. Paid(r)'
        BY DEF CommitteeInv, RunFits, Paid, Start, gatewayVars
    <2>2. Stored(r)'
        BY SuperstepsDiffer DEF CommitteeInv, Typed, RunFits, Stored, Start, Supersteps
    <2>3. Graded(r)'
        BY SuperstepsDiffer DEF CommitteeInv, Typed, RunFits, Graded, Stored, Start
    <2>4. Closed(r)'
        BY DEF CommitteeInv, Typed, Closed, Start
    <2> QED BY <2>1, <2>2, <2>3, <2>4 DEF RunFits
<1>3. ASSUME NEW q \in Runs, q # r
      PROVE  RunFits(q)'
    BY <1>3, OthersFit DEF CommitteeInv, Typed, Start, gatewayVars
<1> QED BY <1>1, <1>2, <1>3 DEF CommitteeInv

LEMMA InGatewayFits ==
    ASSUME CommitteeInv, NEW r \in Runs, NEW a \in Agents, InGateway(r, a)
    PROVE  CommitteeInv'
<1> DEFINE c == <<r, a>>
<1>1. c \in Callers
    BY DEF Callers
<1>2. /\ UNCHANGED <<graph, frontier, returned, reports, grades, outputs, status, tokenCost>>
      /\ graph[r] = "running" /\ a \notin Silent /\ rows \subseteq rows'
    BY DEF InGateway, graphVars, tables
<1>3. \/ /\ \E place \in {"checking", "refused", "calling", "failed", "answered"} :
              pc' = [pc EXCEPT ![c] = place]
         /\ runSpent' = runSpent
      \/ /\ pc' = [pc EXCEPT ![c] = "completed"]
         /\ DOMAIN runSpent' = DOMAIN runSpent
         /\ \A q \in Runs : q # r => runSpent'[q] = runSpent[q]
         /\ c \in rows'
    BY <1>1 DEF InGateway, G!Enter, G!Refuse, G!Admit, G!ProviderFails, G!Answer, G!Record, CommitteeInv, Typed
<1>4. Typed'
    BY <1>2, <1>3 DEF CommitteeInv, Typed
<1>5. RunFits(r)'
    <2>1. Paid(r)'
        <3>1. Paid(r) /\ DOMAIN pc = Callers
            BY DEF CommitteeInv, Typed, RunFits
        <3>2. pc'[c] = "completed" => c \in rows'
            BY <1>1, <1>3, <3>1
        <3>3. ASSUME NEW b \in Agents, b # a
              PROVE  pc'[<<r, b>>] = pc[<<r, b>>]
            <4>1. <<r, b>> \in Callers /\ <<r, b>> # c
                BY <3>3 DEF Callers
            <4> HIDE DEF c
            <4> QED BY <1>3, <3>1, <4>1
        <3> QED BY <1>2, <3>1, <3>2, <3>3 DEF Paid
    <2>2. Stored(r)' /\ Graded(r)'
        BY <1>2 DEF CommitteeInv, RunFits, Stored, Graded
    <2>3. Closed(r)'
        BY <1>2 DEF CommitteeInv, RunFits, Closed
    <2> QED BY <2>1, <2>2, <2>3 DEF RunFits
<1>6. ASSUME NEW q \in Runs, q # r
      PROVE  RunFits(q)'
    <2>1. \A b \in Agents : pc'[<<q, b>>] = pc[<<q, b>>]
        BY <1>3, <1>6 DEF CommitteeInv, Typed, Callers
    <2>2. runSpent'[q] = runSpent[q]
        BY <1>3, <1>6
    <2> QED BY <1>2, <2>1, <2>2, OthersFit DEF CommitteeInv
<1> QED BY <1>4, <1>5, <1>6 DEF CommitteeInv

LEMMA ReturnFits ==
    ASSUME CommitteeInv, NEW r \in Runs, NEW a \in Agents, Return(r, a)
    PROVE  CommitteeInv'
<1>1. /\ UNCHANGED <<runSpent, pc, graph, frontier, grades, status, tokenCost, rows>>
      /\ graph[r] = "running" /\ a \in frontier[r]
      /\ outputs' = [outputs EXCEPT ![r] = @ \union {a}]
      /\ returned' = [returned EXCEPT ![r] = @ \union {a}]
    BY DEF Return, gatewayVars
<1>2. \/ a \notin Analysts /\ reports' = reports
      \/ /\ a \in Analysts
         /\ \E quality \in {"sound", "unsound"} :
               reports' = [reports EXCEPT ![r] = _merge(@, [x \in {a} |-> quality])]
    BY DEF Return
<1>3. a \in Silent \/ pc[<<r, a>>] = "completed"
    BY DEF Return, HasItsProse
<1>4. Typed'
    BY <1>1, <1>2 DEF CommitteeInv, Typed
<1>5. RunFits(r)'
    <2>1. Paid(r)'
        BY <1>1, <1>3 DEF CommitteeInv, Typed, RunFits, Paid
    <2>2. Stored(r)'
        BY <1>1 DEF CommitteeInv, Typed, RunFits, Stored
    <2>3. Graded(r)'
        <3>1. CASE a \notin Analysts
            BY <1>1, <1>2, <3>1 DEF CommitteeInv, Typed, RunFits, Graded
        <3>2. CASE a \in Analysts
            <4>1. frontier[r] = Analysts
                BY <1>1, <3>2, NamesAssumption DEF CommitteeInv, RunFits, Stored, Supersteps, Gated
            <4>2. DOMAIN reports'[r] = DOMAIN reports[r] \union {a}
                BY <1>2, <3>2 DEF CommitteeInv, Typed, _merge
            <4> QED BY <1>1, <3>2, <4>1, <4>2, SuperstepsDiffer DEF CommitteeInv, Typed, RunFits, Graded
        <3> QED BY <3>1, <3>2
    <2>4. Closed(r)'
        BY <1>1 DEF CommitteeInv, RunFits, Closed
    <2> QED BY <2>1, <2>2, <2>3, <2>4 DEF RunFits
<1>6. ASSUME NEW q \in Runs, q # r
      PROVE  RunFits(q)'
    BY <1>1, <1>2, <1>6, OthersFit DEF CommitteeInv, Typed
<1> QED BY <1>4, <1>5, <1>6 DEF CommitteeInv

LEMMA BreakFits ==
    ASSUME CommitteeInv, NEW r \in Runs, NEW a \in Agents, Break(r, a)
    PROVE  CommitteeInv'
<1>1. UNCHANGED <<runSpent, pc, graph, frontier, returned, reports, grades, outputs, status, tokenCost, rows>>
    BY DEF Break, gatewayVars, tables
<1> QED BY <1>1, OthersFit DEF CommitteeInv, Typed

LEMMA GateFits ==
    ASSUME CommitteeInv, NEW r \in Runs, Gate(r)
    PROVE  CommitteeInv'
<1>1. /\ UNCHANGED <<runSpent, pc, graph, returned, reports, outputs, status, tokenCost, rows>>
      /\ graph[r] = "running" /\ frontier[r] = Gated
      /\ grades' = [grades EXCEPT ![r] = [a \in DOMAIN reports[r] |-> reports[r][a] = "sound"]]
      /\ frontier' = [frontier EXCEPT ![r] = Debate]
    BY SuccessorsAre DEF Gate, gatewayVars, tables, Gated
<1>2. Typed'
    BY <1>1 DEF CommitteeInv, Typed
<1>3. RunFits(r)'
    <2>1. returned[r] = {}
        BY <1>1, NamesAssumption DEF CommitteeInv, RunFits, Stored, Gated
    <2>2. Paid(r)'
        BY <1>1 DEF CommitteeInv, RunFits, Paid
    <2>3. Stored(r)'
        BY <1>1, <2>1, SuperstepsDiffer DEF CommitteeInv, Typed, RunFits, Stored, Supersteps
    <2>4. Graded(r)'
        BY <1>1, SuperstepsDiffer DEF CommitteeInv, Typed, RunFits, Graded
    <2>5. Closed(r)'
        BY <1>1 DEF CommitteeInv, RunFits, Closed
    <2> QED BY <2>2, <2>3, <2>4, <2>5 DEF RunFits
<1>4. ASSUME NEW q \in Runs, q # r
      PROVE  RunFits(q)'
    BY <1>1, <1>4, OthersFit DEF CommitteeInv, Typed
<1> QED BY <1>2, <1>3, <1>4 DEF CommitteeInv

LEMMA AdvanceFits ==
    ASSUME CommitteeInv, NEW r \in Runs, Advance(r)
    PROVE  CommitteeInv'
<1>1. /\ UNCHANGED <<runSpent, pc, reports, grades, outputs, status, tokenCost, rows>>
      /\ graph[r] = "running" /\ frontier[r] = returned[r]
      /\ frontier' = [frontier EXCEPT ![r] = Successors(frontier[r])]
      /\ graph' = [graph EXCEPT ![r] = IF frontier'[r] = {} THEN "ended" ELSE graph[r]]
      /\ returned' = [returned EXCEPT ![r] = {}]
    BY DEF Advance, gatewayVars, tables
<1>2. Typed'
    BY <1>1 DEF CommitteeInv, Typed
<1>3. RunFits(r) /\ frontier'[r] = Successors(frontier[r]) /\ returned'[r] = {}
      /\ graph'[r] = (IF frontier'[r] = {} THEN "ended" ELSE "running")
    BY <1>1 DEF CommitteeInv, Typed
<1>4. frontier[r] \in Supersteps /\ frontier[r] \subseteq outputs[r] /\ frontier[r] \subseteq Agents
    BY <1>1, <1>3 DEF RunFits, Stored
<1>5. Paid(r)'
    BY <1>1, <1>3 DEF RunFits, Paid
<1>6. Closed(r)'
    BY <1>1, <1>3 DEF RunFits, Closed
<1>7. Stored(r)' /\ Graded(r)'
    <2>1. CASE frontier[r] = Analysts
        <3>1. frontier'[r] = Gated /\ graph'[r] = "running" /\ Analysts \subseteq outputs'[r]
            BY <1>1, <1>3, <1>4, <2>1, SuccessorsAre DEF Gated
        <3>2. Stored(r)'
            BY <1>1, <1>3, <3>1, SuperstepsDiffer DEF RunFits, Stored, Supersteps
        <3>3. Graded(r)'
            BY <1>1, <1>3, <2>1, <3>1, SuperstepsDiffer DEF RunFits, Graded
        <3> QED BY <3>2, <3>3
    <2>2. CASE frontier[r] = Gated
        BY <1>4, <2>2, NamesAssumption DEF Gated
    <2>3. CASE frontier[r] = Debate
        <3>1. 1 \in DOMAIN Downstream /\ \A j \in DOMAIN Downstream : ~(j < 1)
            BY ChainIndices
        <3>2. frontier'[r] = {Downstream[1]} /\ graph'[r] = "running" /\ Debate \subseteq outputs'[r]
              /\ Analysts \subseteq outputs'[r]
            <4>1. frontier'[r] = {Downstream[1]}
                BY <1>3, <2>3, SuccessorsAre
            <4>2. graph'[r] = "running"
                BY <1>3, <4>1
            <4>3. Debate \subseteq outputs'[r]
                BY <1>1, <1>4, <2>3
            <4>4. Analysts \subseteq outputs'[r]
                BY <1>1, <1>3, <1>4, <2>3, SuperstepsDiffer DEF RunFits, Stored
            <4> QED BY <4>1, <4>2, <4>3, <4>4
        <3>3. \A i \in DOMAIN Downstream : frontier'[r] = {Downstream[i]} => i = 1
            BY <3>1, <3>2, SuperstepsDiffer
        <3>4. {Downstream[1]} \in Supersteps /\ {Downstream[1]} # {}
            BY <3>1 DEF Supersteps
        <3>5. Stored(r)'
            BY <1>1, <1>3, <3>1, <3>2, <3>3, <3>4 DEF RunFits, Stored
        <3>6. Graded(r)'
            BY <1>1, <1>3, <3>1, <3>2, SuperstepsDiffer DEF RunFits, Graded
        <3> QED BY <3>5, <3>6
    <2>4. ASSUME NEW i \in DOMAIN Downstream, frontier[r] = {Downstream[i]}
          PROVE  Stored(r)' /\ Graded(r)'
        <3>1. /\ Analysts \subseteq outputs'[r] /\ Debate \subseteq outputs'[r]
              /\ \A j \in DOMAIN Downstream : j <= i => Downstream[j] \in outputs'[r]
            <4>1. Analysts \subseteq outputs[r] /\ Debate \subseteq outputs[r]
                  /\ \A j \in DOMAIN Downstream : j < i => Downstream[j] \in outputs[r]
                BY <1>3, <1>4, <2>4, SuperstepsDiffer DEF RunFits, Stored
            <4>2. Downstream[i] \in outputs[r]
                BY <1>4, <2>4
            <4>3. \A j \in DOMAIN Downstream : j <= i => j < i \/ j = i
                BY <2>4, ChainIndices
            <4> QED BY <1>1, <4>1, <4>2, <4>3
        <3>2. CASE i = Len(Downstream)
            <4>1. frontier'[r] = {} /\ graph'[r] = "ended"
                BY <1>3, <2>4, <3>2, SuccessorsAre
            <4>2. \A j \in DOMAIN Downstream : j <= i
                BY <3>2, ChainIndices
            <4>3. Agents \subseteq outputs'[r]
                BY <3>1, <4>2 DEF Agents
            <4>4. Stored(r)'
                BY <1>1, <1>3, <4>1, <4>3, SuperstepsDiffer DEF RunFits, Stored
            <4>5. Graded(r)'
                BY <1>1, <1>3, <4>1, SuperstepsDiffer, GraphAssumption DEF RunFits, Graded, Gated
            <4> QED BY <4>4, <4>5
        <3>3. CASE i # Len(Downstream)
            <4>1. i + 1 \in DOMAIN Downstream /\ \A j \in DOMAIN Downstream : j < i + 1 => j <= i
                BY <2>4, <3>3, ChainIndices
            <4>2. frontier'[r] = {Downstream[i + 1]} /\ graph'[r] = "running"
                <5>1. frontier'[r] = {Downstream[i + 1]}
                    BY <1>3, <2>4, <3>3, SuccessorsAre
                <5> QED BY <1>3, <5>1
            <4>3. \A k \in DOMAIN Downstream : frontier'[r] = {Downstream[k]} => k = i + 1
                BY <4>1, <4>2, SuperstepsDiffer
            <4>4. {Downstream[i + 1]} \in Supersteps
                BY <4>1 DEF Supersteps
            <4>5. Stored(r)'
                BY <1>1, <1>3, <3>1, <4>1, <4>2, <4>3, <4>4 DEF RunFits, Stored
            <4>6. Graded(r)'
                BY <1>1, <1>3, <4>1, <4>2, SuperstepsDiffer DEF RunFits, Graded
            <4> QED BY <4>5, <4>6
        <3> QED BY <3>2, <3>3
    <2> QED BY <1>4, <2>1, <2>2, <2>3, <2>4 DEF Supersteps
<1>8. ASSUME NEW q \in Runs, q # r
      PROVE  RunFits(q)'
    BY <1>1, <1>8, OthersFit DEF CommitteeInv, Typed
<1> QED BY <1>2, <1>5, <1>6, <1>7, <1>8 DEF CommitteeInv, RunFits

\* A run that raises or is lost has no superstep any more.
LEMMA StoppedFits ==
    ASSUME NEW q \in Runs, RunFits(q), frontier'[q] = {}, returned'[q] = {},
           graph'[q] \in {"off", "raised", "lost"}, status[q] = "DONE" => graph'[q] = "lost",
           UNCHANGED <<reports, grades, outputs, status, tokenCost, runSpent, rows>>,
           \A a \in Agents : pc'[<<q, a>>] \in {pc[<<q, a>>], "idle"}
    PROVE  RunFits(q)'
<1>1. Paid(q)'
    BY DEF RunFits, Paid
<1>2. Stored(q)'
    BY SuperstepsDiffer DEF RunFits, Stored
<1>3. Graded(q)'
    BY GraphAssumption DEF RunFits, Graded, Gated
<1>4. Closed(q)'
    BY DEF RunFits, Closed
<1> QED BY <1>1, <1>2, <1>3, <1>4 DEF RunFits

LEMMA RaiseFits ==
    ASSUME CommitteeInv, NEW r \in Runs, Raise(r)
    PROVE  CommitteeInv'
<1>1. /\ UNCHANGED <<runSpent, pc, reports, grades, outputs, status, tokenCost, rows>>
      /\ graph[r] = "running"
      /\ graph' = [graph EXCEPT ![r] = "raised"]
      /\ frontier' = [frontier EXCEPT ![r] = {}]
      /\ returned' = [returned EXCEPT ![r] = {}]
    BY DEF Raise, gatewayVars, tables
<1>2. Typed'
    BY <1>1 DEF CommitteeInv, Typed
<1>3. RunFits(r)'
    BY <1>1, StoppedFits DEF CommitteeInv, Typed, RunFits, Closed
<1>4. ASSUME NEW q \in Runs, q # r
      PROVE  RunFits(q)'
    BY <1>1, <1>4, OthersFit DEF CommitteeInv, Typed
<1> QED BY <1>2, <1>3, <1>4 DEF CommitteeInv

LEMMA FinishFits ==
    ASSUME CommitteeInv, NEW r \in Runs, Finish(r)
    PROVE  CommitteeInv'
<1>1. /\ UNCHANGED <<runSpent, pc, graph, frontier, returned, reports, grades, outputs, rows>>
      /\ graph[r] = "ended"
      /\ tokenCost' = [tokenCost EXCEPT ![r] = runSpent[r]]
      /\ status' = [status EXCEPT ![r] = "DONE"]
    BY DEF Finish, gatewayVars, graphVars
<1>2. Typed'
    BY <1>1 DEF CommitteeInv, Typed
<1>3. RunFits(r)'
    <2>1. Paid(r)'
        BY <1>1 DEF CommitteeInv, RunFits, Paid
    <2>2. Stored(r)' /\ Graded(r)'
        BY <1>1 DEF CommitteeInv, RunFits, Stored, Graded
    <2>3. Closed(r)'
        BY <1>1 DEF CommitteeInv, Typed, RunFits, Stored, Closed
    <2> QED BY <2>1, <2>2, <2>3 DEF RunFits
<1>4. ASSUME NEW q \in Runs, q # r
      PROVE  RunFits(q)'
    BY <1>1, <1>4, OthersFit DEF CommitteeInv, Typed
<1> QED BY <1>2, <1>3, <1>4 DEF CommitteeInv

LEMMA CrashFits ==
    ASSUME CommitteeInv, Crash
    PROVE  CommitteeInv'
<1>1. /\ UNCHANGED <<runSpent, reports, grades, outputs, status, tokenCost, rows>>
      /\ pc' = [c \in Callers |-> "idle"]
      /\ graph' = [q \in Runs |-> IF graph[q] = "off" THEN "off" ELSE "lost"]
      /\ frontier' = [q \in Runs |-> {}]
      /\ returned' = [q \in Runs |-> {}]
    BY DEF Crash, G!Crash, tables
<1>2. Typed'
    BY <1>1 DEF CommitteeInv, Typed
<1>3. ASSUME NEW q \in Runs
      PROVE  RunFits(q)'
    BY <1>1, StoppedFits DEF CommitteeInv, RunFits, Closed, Callers
<1> QED BY <1>2, <1>3 DEF CommitteeInv

LEMMA MidnightFits ==
    ASSUME CommitteeInv, UNCHANGED <<runSpent, pc, graphVars, tables, rows>>
    PROVE  CommitteeInv'
<1>1. Typed'
    BY DEF CommitteeInv, Typed, graphVars, tables
<1>2. ASSUME NEW q \in Runs
      PROVE  RunFits(q)'
    BY OthersFit DEF CommitteeInv, graphVars, tables
<1> QED BY <1>1, <1>2 DEF CommitteeInv

-----------------------------------------------------------------------------
(* The theorems. *)

LEMMA StepFits ==
    ASSUME CommitteeInv, [Next]_vars
    PROVE  CommitteeInv'
<1>1. CASE \E r \in Runs : Start(r) \/ Runner(r) \/ \E a \in Agents : Node(r, a)
    <2>1. PICK r \in Runs : Start(r) \/ Runner(r) \/ \E a \in Agents : Node(r, a)
        BY <1>1
    <2>2. CASE Start(r)
        BY <2>2, StartFits
    <2>3. CASE Runner(r)
        BY <2>3, GateFits, AdvanceFits, RaiseFits, FinishFits DEF Runner
    <2>4. CASE \E a \in Agents : Node(r, a)
        BY <2>4, InGatewayFits, ReturnFits, BreakFits DEF Node
    <2> QED BY <2>1, <2>2, <2>3, <2>4
<1>2. CASE Crash
    BY <1>2, CrashFits
<1>3. CASE Midnight
    BY <1>3, MidnightFits DEF Midnight, G!Midnight
<1>4. CASE UNCHANGED vars
    BY <1>4, MidnightFits DEF vars, gatewayVars
<1> QED BY <1>1, <1>2, <1>3, <1>4 DEF Next

\* Every run fits its superstep at every step (graph.py build).
THEOREM RunsAreInOrder == Spec => []CommitteeInv
<1>1. Init => CommitteeInv
    BY InitFits
<1>2. CommitteeInv /\ [Next]_vars => CommitteeInv'
    BY StepFits
<1> QED BY <1>1, <1>2, PTL DEF Spec

\* The debaters argue from all the sound reports and no others, for any analysts
\* and any number of runs (graph.py _merge, _accepted).
THEOREM DebateIsInformed == Spec => []DebateReadsTheSoundReports
<1>1. CommitteeInv => DebateReadsTheSoundReports
    BY DEF CommitteeInv, RunFits, Graded, DebateReadsTheSoundReports, _accepted
<1> QED BY <1>1, RunsAreInOrder, PTL

\* What is stored was paid for, wherever the process dies (llm.py 258-263).
THEOREM OutputsArePaidFor == Spec => []EveryOutputIsPaidFor
<1>1. CommitteeInv => EveryOutputIsPaidFor
    BY DEF CommitteeInv, RunFits, Paid, EveryOutputIsPaidFor
<1> QED BY <1>1, RunsAreInOrder, PTL

\* A DONE run has every output and all of its cost (runs.py 74-90).
THEOREM DoneRunsAreWhole == Spec => []DoneRunIsWhole
<1>1. CommitteeInv => DoneRunIsWhole
    BY DEF CommitteeInv, RunFits, Paid, Closed, DoneRunIsWhole
<1> QED BY <1>1, RunsAreInOrder, PTL

-----------------------------------------------------------------------------
(* How far the runs together pass the ceiling. *)

InFlight(r) == {a \in Agents : pc[<<r, a>>] \in {"checking", "calling", "answered"}}

\* Only nodes of the superstep are inside the gateway, and neither those that have
\* returned nor those that broke are.
Placed(r) ==
    /\ InFlight(r) \subseteq frontier[r] \ Silent
    /\ \A a \in returned[r] \ Silent : pc[<<r, a>>] = "completed"
    /\ broken[r] \subseteq Agents
    /\ \A a \in broken[r] \ Silent : pc[<<r, a>>] \in {"idle", "completed"}

AllPlaced == DOMAIN broken = Runs /\ \A r \in Runs : Placed(r)

\* The most a day can cost.
Cap == (Ceiling - 1) + Cardinality(Runs) * Width * MaxCost

\* What a day has cost and the calls in flight can still charge to it.
Fits(d) == spent[d] + Cardinality(G!Chargeable(d)) * MaxCost <= Cap

Accounted ==
    /\ G!TypeOK
    /\ \A d \in G!Days : d > today => spent[d] = 0
    /\ \A c \in Callers : stamp[c] <= today
    /\ \A d \in G!Days : Fits(d)

\* At most Width nodes of a run are inside the gateway.
LEMMA SuperstepsAreNarrow ==
    /\ Width \in Nat
    /\ \A S \in Supersteps \union {{}} : \A T : T \subseteq Agents /\ T \subseteq S \ Silent =>
          IsFiniteSet(T) /\ Cardinality(T) \in Nat /\ Cardinality(T) <= Width
<1>1. /\ IsFiniteSet(Analysts \ Silent) /\ IsFiniteSet(Debate)
      /\ Cardinality(Analysts \ Silent) \in Nat /\ Cardinality(Debate) \in Nat
      /\ Cardinality(Debate) # 0
    <2>1. IsFiniteSet(Agents) /\ Analysts \ Silent \subseteq Agents /\ Debate \subseteq Agents
        BY GraphAssumption DEF Agents
    <2>2. IsFiniteSet(Analysts \ Silent) /\ IsFiniteSet(Debate)
        BY <2>1, FS_Subset
    <2> QED BY <2>2, FS_CardinalityType, FS_EmptySet, GraphAssumption
<1>2. /\ Width \in Nat /\ 1 <= Width
      /\ Cardinality(Analysts \ Silent) <= Width /\ Cardinality(Debate) <= Width
    BY <1>1 DEF Width
<1>3. ASSUME NEW S, NEW T, T \subseteq S, IsFiniteSet(S), Cardinality(S) \in Nat, Cardinality(S) <= Width
      PROVE  IsFiniteSet(T) /\ Cardinality(T) \in Nat /\ Cardinality(T) <= Width
    <2>1. IsFiniteSet(T) /\ Cardinality(T) <= Cardinality(S)
        BY <1>3, FS_Subset
    <2>2. Cardinality(T) \in Nat
        BY <2>1, FS_CardinalityType
    <2> QED BY <1>2, <1>3, <2>1, <2>2
<1>4. ASSUME NEW S \in Supersteps \union {{}}, NEW T, T \subseteq Agents, T \subseteq S \ Silent
      PROVE  IsFiniteSet(T) /\ Cardinality(T) \in Nat /\ Cardinality(T) <= Width
    <2>1. CASE S = Analysts
        BY <1>1, <1>2, <1>3, <1>4, <2>1
    <2>2. CASE S = Debate
        BY <1>1, <1>2, <1>3, <1>4, <2>2
    <2>3. CASE S = Gated \/ S = {}
        <3>1. T = {}
            BY <1>4, <2>3, NamesAssumption DEF Gated
        <3> QED BY <1>2, <3>1, FS_EmptySet
    <2>4. ASSUME NEW x, S = {x}
          PROVE  IsFiniteSet(T) /\ Cardinality(T) \in Nat /\ Cardinality(T) <= Width
        <3>1. IsFiniteSet(S) /\ Cardinality(S) = 1
            BY <2>4, FS_Singleton
        <3> QED BY <1>2, <1>3, <1>4, <3>1
    <2> QED BY <2>1, <2>2, <2>3, <2>4 DEF Supersteps
<1> QED BY <1>2, <1>4

\* A set of callers with at most w of each run has at most w for every run.
LEMMA CallersByRun ==
    ASSUME NEW w \in Nat, NEW S, S \subseteq Callers,
           \A r \in Runs : /\ IsFiniteSet({a \in Agents : <<r, a>> \in S})
                           /\ Cardinality({a \in Agents : <<r, a>> \in S}) \in Nat
                           /\ Cardinality({a \in Agents : <<r, a>> \in S}) <= w
    PROVE  IsFiniteSet(S) /\ Cardinality(S) \in Nat /\ Cardinality(S) <= Cardinality(Runs) * w
<1> DEFINE Of(r) == {a \in Agents : <<r, a>> \in S}
           place == [r \in Runs |-> CHOOSE f : f \in Injection(Of(r), 1..w)]
           seat == [c \in S |-> <<c[1], place[c[1]][c[2]]>>]
<1>1. ASSUME NEW r \in Runs
      PROVE  place[r] \in Injection(Of(r), 1..w)
    <2>1. IsFiniteSet(Of(r)) /\ Cardinality(Of(r)) \in Nat /\ Cardinality(Of(r)) <= w
        OBVIOUS
    <2> HIDE DEF Of
    <2>2. ExistsBijection(1..Cardinality(Of(r)), Of(r))
        BY <2>1, FS_CardinalityType
    <2>3. ExistsBijection(Of(r), 1..Cardinality(Of(r)))
        BY <2>2, Fun_ExistsBijSymmetric
    <2>4. PICK f : f \in Bijection(Of(r), 1..Cardinality(Of(r)))
        BY <2>3 DEF ExistsBijection
    <2>5. f \in Injection(Of(r), 1..w)
        BY <2>1, <2>4 DEF Bijection, Injection, IsInjective
    <2>6. (CHOOSE g : g \in Injection(Of(r), 1..w)) \in Injection(Of(r), 1..w)
        BY <2>5
    <2> QED BY <2>6
<1>2. seat \in Injection(S, Runs \X (1..w))
    <2>1. \A c \in S : c = <<c[1], c[2]>> /\ c[1] \in Runs /\ c[2] \in Of(c[1])
        BY DEF Callers
    <2>2. \A r \in Runs : \A a \in Of(r) : place[r][a] \in 1..w
        <3> HIDE DEF place, Of
        <3> QED BY <1>1 DEF Injection
    <2>3. \A r \in Runs : \A a, b \in Of(r) : place[r][a] = place[r][b] => a = b
        <3> HIDE DEF place, Of
        <3> QED BY <1>1 DEF Injection, IsInjective
    <2> HIDE DEF place, Of
    <2>4. seat \in [S -> Runs \X (1..w)]
        BY <2>1, <2>2
    <2>5. ASSUME NEW c \in S, NEW k \in S, seat[c] = seat[k]
          PROVE  c = k
        <3>1. c[1] = k[1] /\ place[c[1]][c[2]] = place[k[1]][k[2]]
            BY <2>5
        <3>2. c[2] = k[2]
            BY <3>1, <2>1, <2>3
        <3> QED BY <3>1, <3>2, <2>1
    <2> HIDE DEF seat
    <2> QED BY <2>4, <2>5 DEF Injection, IsInjective
<1>3. /\ IsFiniteSet(Runs) /\ IsFiniteSet(1..w) /\ Cardinality(1..w) = w
    BY GraphAssumption, FS_Interval
<1>4. IsFiniteSet(Runs \X (1..w)) /\ Cardinality(Runs \X (1..w)) = Cardinality(Runs) * w
    BY <1>3, FS_Product
<1> HIDE DEF seat
<1>5. IsFiniteSet(S) /\ Cardinality(S) <= Cardinality(Runs) * w
    BY <1>2, <1>4, FS_Injection
<1> QED BY <1>5, FS_CardinalityType

\* No more calls are in flight than the runs' widest supersteps hold.
FewFlights ==
    \A S \in SUBSET Callers :
        (\A c \in S : pc[c] \in {"checking", "calling", "answered"}) =>
            /\ IsFiniteSet(S) /\ Cardinality(S) \in Nat
            /\ Cardinality(S) <= Cardinality(Runs) * Width

LEMMA FlightsAreFew == CommitteeInv /\ AllPlaced => FewFlights
<1> SUFFICES ASSUME CommitteeInv, AllPlaced, NEW S \in SUBSET Callers,
                    \A c \in S : pc[c] \in {"checking", "calling", "answered"}
             PROVE  /\ IsFiniteSet(S) /\ Cardinality(S) \in Nat
                    /\ Cardinality(S) <= Cardinality(Runs) * Width
    BY DEF FewFlights
<1>1. ASSUME NEW r \in Runs
      PROVE  /\ IsFiniteSet({a \in Agents : <<r, a>> \in S})
             /\ Cardinality({a \in Agents : <<r, a>> \in S}) \in Nat
             /\ Cardinality({a \in Agents : <<r, a>> \in S}) <= Width
    <2>1. {a \in Agents : <<r, a>> \in S} \subseteq frontier[r] \ Silent
        BY DEF AllPlaced, Placed, InFlight
    <2>2. frontier[r] \in Supersteps \union {{}}
        BY DEF CommitteeInv, RunFits, Stored
    <2>3. {a \in Agents : <<r, a>> \in S} \subseteq Agents
        OBVIOUS
    <2> QED BY <2>1, <2>2, <2>3, SuperstepsAreNarrow
<1> QED BY <1>1, SuperstepsAreNarrow, CallersByRun

LEMMA OthersPlaced ==
    ASSUME NEW q \in Runs, Placed(q),
           frontier'[q] = frontier[q], returned'[q] = returned[q], broken'[q] = broken[q],
           \A a \in Agents : pc'[<<q, a>>] = pc[<<q, a>>],
           returned[q] \subseteq Agents
    PROVE  Placed(q)'
<1>1. InFlight(q)' = InFlight(q)
    BY DEF InFlight
<1> QED BY <1>1 DEF Placed

\* Whoever returned or broke is out of the gateway, so when the runner goes on to
\* another superstep, raises or is lost, nobody is inside.
LEMMA NobodyInside ==
    ASSUME NEW q \in Runs, broken'[q] = broken[q], Placed(q), returned'[q] = {},
           InFlight(q)' = {},
           \A a \in Agents : pc'[<<q, a>>] \in {pc[<<q, a>>], "idle"}
    PROVE  Placed(q)'
BY DEF Placed

LEMMA PlacedInGateway ==
    ASSUME CommitteeInv, AllPlaced, NEW r \in Runs, NEW a \in Agents, InGateway(r, a)
    PROVE  AllPlaced'
<1> DEFINE c == <<r, a>>
<1>1. c \in Callers /\ DOMAIN pc = Callers
    BY DEF Callers, CommitteeInv, Typed
<1>2. /\ UNCHANGED <<frontier, returned, broken>>
      /\ a \in frontier[r] \ Silent
    BY DEF InGateway, graphVars
<1>3. /\ pc[c] # "completed"
      /\ a \notin broken[r]
      /\ \E place \in {"checking", "refused", "calling", "failed", "answered", "completed"} :
              pc' = [pc EXCEPT ![c] = place]
    <2>1. CASE pc[c] = "idle" /\ Starting(r) /\ G!Enter(c)
        <3>1. a \notin broken[r]
            BY <1>2, <2>1 DEF Starting, NodeRaised
        <3> QED BY <2>1, <3>1 DEF G!Enter
    <2>2. CASE \/ G!Refuse(c) \/ G!Admit(c) \/ G!ProviderFails(c)
               \/ \E price \in 0..MaxCost : G!Answer(c, price)
               \/ G!Record(c)
        <3>1. pc[c] \in {"checking", "calling", "answered"}
            BY <2>2 DEF G!Refuse, G!Admit, G!ProviderFails, G!Answer, G!Record
        <3>2. a \notin broken[r]
            BY <1>2, <3>1 DEF AllPlaced, Placed
        <3> QED BY <2>2, <3>1, <3>2 DEF G!Refuse, G!Admit, G!ProviderFails, G!Answer, G!Record
    <2> QED BY <2>1, <2>2 DEF InGateway
<1>4. \A k \in Callers : k # c => pc'[k] = pc[k]
    BY <1>1, <1>3
<1>5. \A b \in Agents : b # a => pc'[<<r, b>>] = pc[<<r, b>>]
    <2>1. \A b \in Agents : b # a => <<r, b>> \in Callers /\ <<r, b>> # <<r, a>>
        BY DEF Callers
    <2> QED BY <1>4, <2>1
<1>6. a \notin returned[r] /\ returned[r] \subseteq Agents
    BY <1>2, <1>3 DEF AllPlaced, Placed, CommitteeInv, RunFits, Stored
<1>7. Placed(r)'
    <2>1. InFlight(r)' \subseteq InFlight(r) \union {a}
        BY <1>5 DEF InFlight
    <2>2. \A b \in returned[r] \ Silent : pc'[<<r, b>>] = "completed"
        BY <1>5, <1>6 DEF AllPlaced, Placed
    <2>3. \A b \in broken[r] \ Silent : pc'[<<r, b>>] \in {"idle", "completed"}
        BY <1>3, <1>5 DEF AllPlaced, Placed
    <2> QED BY <1>2, <2>1, <2>2, <2>3 DEF AllPlaced, Placed
<1>8. ASSUME NEW q \in Runs, q # r
      PROVE  Placed(q)'
    <2>1. \A b \in Agents : <<q, b>> \in Callers /\ <<q, b>> # <<r, a>>
        BY <1>8 DEF Callers
    <2>2. \A b \in Agents : pc'[<<q, b>>] = pc[<<q, b>>]
        BY <1>4, <2>1
    <2>3. returned[q] \subseteq Agents
        BY DEF CommitteeInv, RunFits, Stored
    <2> QED BY <1>2, <2>2, <2>3, OthersPlaced DEF AllPlaced
<1> QED BY <1>2, <1>7, <1>8 DEF AllPlaced

LEMMA PlacedStep ==
    ASSUME CommitteeInv, AllPlaced, [Next]_vars
    PROVE  AllPlaced'
<1>1. \A q \in Runs : Placed(q) /\ returned[q] \subseteq Agents /\ returned[q] \subseteq frontier[q]
    BY DEF AllPlaced, CommitteeInv, RunFits, Stored
<1>2. ASSUME NEW r \in Runs,
             UNCHANGED pc,
             \A q \in Runs \ {r} : /\ frontier'[q] = frontier[q] /\ returned'[q] = returned[q]
                                   /\ broken'[q] = broken[q],
             DOMAIN broken' = Runs, Placed(r)'
      PROVE  AllPlaced'
    BY <1>1, <1>2, OthersPlaced DEF AllPlaced
<1>3. ASSUME NEW r \in Runs, Start(r)
      PROVE  AllPlaced'
    <2>1. /\ UNCHANGED <<pc, returned, broken>> /\ graph[r] = "off"
          /\ frontier' = [frontier EXCEPT ![r] = Analysts]
        BY <1>3 DEF Start, gatewayVars
    <2>2. InFlight(r)' = {} /\ returned[r] = {}
        BY <1>1, <2>1 DEF CommitteeInv, RunFits, Stored, Placed, InFlight
    <2>3. Placed(r)'
        BY <1>1, <2>1, <2>2 DEF Placed
    <2> QED BY <1>2, <2>1, <2>3 DEF AllPlaced, CommitteeInv, Typed
<1>4. ASSUME NEW r \in Runs, NEW a \in Agents, Return(r, a)
      PROVE  AllPlaced'
    <2>1. /\ UNCHANGED <<pc, frontier, broken>>
          /\ returned' = [returned EXCEPT ![r] = returned[r] \union {a}]
          /\ a \in Silent \/ pc[<<r, a>>] = "completed"
        BY <1>4 DEF Return, gatewayVars, HasItsProse
    <2>2. InFlight(r)' = InFlight(r) /\ returned'[r] = returned[r] \union {a}
        BY <2>1 DEF InFlight, CommitteeInv, Typed
    <2>3. Placed(r)'
        BY <1>1, <2>1, <2>2 DEF Placed
    <2> QED BY <1>2, <2>1, <2>3 DEF AllPlaced, CommitteeInv, Typed
<1>5. ASSUME NEW r \in Runs, NEW a \in Agents, Break(r, a)
      PROVE  AllPlaced'
    <2>1. /\ UNCHANGED <<pc, frontier, returned>>
          /\ broken' = [broken EXCEPT ![r] = broken[r] \union {a}]
          /\ a \in frontier[r]
          /\ a \in Silent \/ pc[<<r, a>>] \in {"idle", "completed"}
        BY <1>5 DEF Break, gatewayVars, HasItsProse
    <2>2. InFlight(r)' = InFlight(r) /\ broken'[r] = broken[r] \union {a}
        BY <2>1 DEF InFlight, AllPlaced
    <2>3. Placed(r)'
        BY <1>1, <2>1, <2>2 DEF Placed
    <2> QED BY <1>2, <2>1, <2>3 DEF AllPlaced, CommitteeInv, Typed

<1>6. ASSUME NEW r \in Runs, UNCHANGED <<pc, broken>>, InFlight(r) = {}, returned'[r] = {},
             \A q \in Runs \ {r} : frontier'[q] = frontier[q] /\ returned'[q] = returned[q]
      PROVE  AllPlaced'
    <2>1. InFlight(r)' = {}
        BY <1>6 DEF InFlight
    <2>2. Placed(r)'
        BY <1>1, <1>6, <2>1, NobodyInside
    <2> QED BY <1>2, <1>6, <2>2 DEF AllPlaced
<1>7. ASSUME NEW r \in Runs, Gate(r)
      PROVE  AllPlaced'
    <2>1. /\ UNCHANGED <<pc, broken, returned>> /\ frontier[r] = Gated
          /\ \A q \in Runs \ {r} : frontier'[q] = frontier[q]
        BY <1>7 DEF Gate, gatewayVars, Gated, CommitteeInv, Typed
    <2>2. InFlight(r) = {} /\ returned[r] = {}
        BY <1>1, <2>1, NamesAssumption DEF Placed, InFlight, Gated
    <2> QED BY <1>6, <2>1, <2>2
<1>8. ASSUME NEW r \in Runs, Advance(r)
      PROVE  AllPlaced'
    <2>1. /\ UNCHANGED <<pc, broken>> /\ frontier[r] = returned[r]
          /\ returned' = [returned EXCEPT ![r] = {}]
          /\ \A q \in Runs \ {r} : frontier'[q] = frontier[q]
        BY <1>8 DEF Advance, gatewayVars, CommitteeInv, Typed
    <2>2. InFlight(r) = {}
        BY <1>1, <2>1 DEF Placed, InFlight
    <2> QED BY <1>6, <2>1, <2>2 DEF CommitteeInv, Typed
<1>9. ASSUME NEW r \in Runs, Raise(r)
      PROVE  AllPlaced'
    <2>1. /\ UNCHANGED <<pc, broken>>
          /\ returned' = [returned EXCEPT ![r] = {}]
          /\ frontier' = [frontier EXCEPT ![r] = {}]
          /\ \A a \in frontier[r] : a \in returned[r] \/ NodeRaised(r, a) \/ pc[<<r, a>>] = "idle"
        BY <1>9 DEF Raise, gatewayVars
    <2>2. ASSUME NEW a \in InFlight(r)
          PROVE  FALSE
        <3>1. /\ pc[<<r, a>>] \in {"checking", "calling", "answered"}
              /\ a \in frontier[r] /\ a \notin Silent
            BY <1>1 DEF Placed, InFlight
        <3>2. a \notin returned[r] /\ a \notin broken[r]
            BY <1>1, <3>1 DEF Placed
        <3> QED BY <2>1, <3>1, <3>2 DEF NodeRaised
    <2> QED BY <1>6, <2>1, <2>2 DEF CommitteeInv, Typed
<1>10. CASE Crash
    <2>1. /\ UNCHANGED broken /\ pc' = [c \in Callers |-> "idle"]
          /\ frontier' = [q \in Runs |-> {}] /\ returned' = [q \in Runs |-> {}]
        BY <1>10 DEF Crash, G!Crash
    <2>2. ASSUME NEW q \in Runs
          PROVE  Placed(q)'
        <3>1. \A a \in Agents : pc'[<<q, a>>] = "idle"
            BY <2>1 DEF Callers
        <3>2. InFlight(q)' = {}
            BY <3>1 DEF InFlight
        <3> QED BY <1>1, <2>1, <3>1, <3>2, NobodyInside
    <2> QED BY <2>1, <2>2 DEF AllPlaced
<1>11. ASSUME UNCHANGED <<pc, frontier, returned, broken>>
       PROVE  AllPlaced'
    BY <1>1, <1>11, OthersPlaced DEF AllPlaced
<1>12. ASSUME NEW r \in Runs, Finish(r)
       PROVE  AllPlaced'
    BY <1>11, <1>12 DEF Finish, gatewayVars, graphVars
<1>13. CASE Midnight \/ UNCHANGED vars
    BY <1>11, <1>13 DEF Midnight, G!Midnight, graphVars, vars, gatewayVars
<1> QED BY <1>3, <1>4, <1>5, <1>7, <1>8, <1>9, <1>10, <1>12, <1>13, PlacedInGateway
        DEF Next, Runner, Node

-----------------------------------------------------------------------------
(* The accounts. *)

GatewayCall(c) ==
    \/ G!Enter(c)
    \/ G!Refuse(c)
    \/ G!Admit(c)
    \/ G!ProviderFails(c)
    \/ \E price \in 0..MaxCost : G!Answer(c, price)
    \/ G!Record(c)

\* A step of the committee is a step of its gateway, or leaves it alone.
LEMMA GatewayStep ==
    [Next]_vars => \/ \E c \in Callers : GatewayCall(c)
                   \/ G!Crash
                   \/ G!Midnight
                   \/ UNCHANGED gatewayVars
<1>1. ASSUME NEW r \in Runs, NEW a \in Agents, InGateway(r, a)
      PROVE  \E c \in Callers : GatewayCall(c)
    <2>1. <<r, a>> \in Callers
        BY DEF Callers
    <2>2. GatewayCall(<<r, a>>)
        BY <1>1 DEF InGateway, GatewayCall
    <2> QED BY <2>1, <2>2
<1>2. ASSUME NEW r \in Runs, Start(r) \/ Runner(r) \/ \E a \in Agents : Return(r, a) \/ Break(r, a)
      PROVE  UNCHANGED gatewayVars
    BY <1>2 DEF Start, Runner, Gate, Advance, Raise, Finish, Return, Break
<1> QED BY <1>1, <1>2 DEF Next, Node, Crash, Midnight, vars

LEMMA CapIsANumber ==
    /\ Cardinality(Runs) \in Nat /\ Width \in Nat
    /\ Cardinality(Runs) * Width \in Nat
    /\ Cardinality(Runs) * Width * MaxCost \in Nat
<1>1. Cardinality(Runs) \in Nat /\ Width \in Nat
    BY GraphAssumption, FS_CardinalityType, SuperstepsAreNarrow
<1>2. \A m, n \in Nat : m * n \in Nat
    OBVIOUS
<1> QED BY <1>1, <1>2, MoneyAssumption

LEMMA ProductsGrow ==
    ASSUME NEW m \in Nat, NEW n \in Nat, NEW k \in Nat, m <= n
    PROVE  m * k <= n * k /\ m * k \in Nat /\ n * k \in Nat
OBVIOUS

\* The types, and the days that have not come.
LEMMA BooksStep ==
    ASSUME Accounted, [Next]_vars
    PROVE  /\ G!TypeOK'
           /\ \A d \in G!Days : d > today' => spent'[d] = 0
           /\ \A c \in Callers : stamp'[c] <= today'
<1> USE MoneyAssumption DEF G!TypeOK, G!Days, G!Outside
<1>1. /\ G!TypeOK
      /\ \A d \in G!Days : d > today => spent[d] = 0
      /\ \A c \in Callers : stamp[c] <= today
    BY DEF Accounted
<1>2. ASSUME NEW c \in Callers, G!Enter(c)
      PROVE  /\ G!TypeOK'
             /\ \A d \in G!Days : d > today' => spent'[d] = 0
             /\ \A k \in Callers : stamp'[k] <= today'
    BY <1>1, <1>2 DEF G!Enter
<1>3. ASSUME NEW c \in Callers, G!Refuse(c) \/ G!Admit(c) \/ G!ProviderFails(c)
      PROVE  /\ G!TypeOK'
             /\ \A d \in G!Days : d > today' => spent'[d] = 0
             /\ \A k \in Callers : stamp'[k] <= today'
    <2>1. /\ UNCHANGED <<today, spent, runSpent, cost>>
          /\ \E place \in {"refused", "calling", "failed"} : pc' = [pc EXCEPT ![c] = place]
          /\ stamp' = stamp \/ stamp' = [stamp EXCEPT ![c] = 0]
        BY <1>3 DEF G!Refuse, G!Admit, G!ProviderFails
    <2>2. /\ pc' \in [Callers -> G!Outside \union {"checking", "calling", "answered"}]
          /\ stamp' \in [Callers -> 0..LastDay]
        BY <1>1, <2>1
    <2>3. \A k \in Callers : stamp'[k] \in {stamp[k], 0}
        BY <1>1, <2>1
    <2>4. 0 <= today /\ today' = today
        BY <1>1, <2>1
    <2>5. \A k \in Callers : stamp'[k] <= today'
        BY <1>1, <2>3, <2>4
    <2> QED BY <1>1, <2>1, <2>2, <2>5
<1>4. ASSUME NEW c \in Callers, NEW price \in 0..MaxCost, G!Answer(c, price)
      PROVE  /\ G!TypeOK'
             /\ \A d \in G!Days : d > today' => spent'[d] = 0
             /\ \A k \in Callers : stamp'[k] <= today'
    BY <1>1, <1>4 DEF G!Answer
<1>5. ASSUME NEW c \in Callers, G!Record(c)
      PROVE  /\ G!TypeOK'
             /\ \A d \in G!Days : d > today' => spent'[d] = 0
             /\ \A k \in Callers : stamp'[k] <= today'
    <2>1. /\ cost[c] \in Nat /\ stamp[c] \in 0..LastDay /\ stamp[c] <= today /\ c[1] \in Runs
          /\ spent' = [spent EXCEPT ![stamp[c]] = spent[stamp[c]] + cost[c]]
          /\ runSpent' = [runSpent EXCEPT ![c[1]] = runSpent[c[1]] + cost[c]]
          /\ pc' = [pc EXCEPT ![c] = "completed"]
          /\ cost' = [cost EXCEPT ![c] = 0]
          /\ stamp' = [stamp EXCEPT ![c] = 0]
          /\ today' = today
        BY <1>1, <1>5 DEF G!Record, Callers
    <2>2. spent' \in [0..LastDay -> Nat]
        BY <1>1, <2>1
    <2>3. runSpent' \in [Runs -> Nat]
        BY <1>1, <2>1
    <2>4. /\ pc' \in [Callers -> G!Outside \union {"checking", "calling", "answered"}]
          /\ cost' \in [Callers -> 0..MaxCost] /\ stamp' \in [Callers -> 0..LastDay]
        BY <1>1, <2>1
    <2>5. \A d \in G!Days : d > today' => spent'[d] = 0
        BY <1>1, <2>1
    <2>6. \A k \in Callers : stamp'[k] <= today'
        BY <1>1, <2>1
    <2> QED BY <1>1, <2>1, <2>2, <2>3, <2>4, <2>5, <2>6
<1>6. CASE G!Crash
    BY <1>1, <1>6 DEF G!Crash
<1>7. CASE G!Midnight
    BY <1>1, <1>7 DEF G!Midnight
<1>8. CASE UNCHANGED gatewayVars
    BY <1>1, <1>8 DEF gatewayVars
<1> QED BY <1>2, <1>3, <1>4, <1>5, <1>6, <1>7, <1>8, GatewayStep DEF GatewayCall

\* A day whose total is the same and that fewer calls can be charged to still fits.
LEMMA FewerFit ==
    ASSUME CommitteeInv, AllPlaced, Accounted, NEW d \in G!Days, NEW S, S \subseteq G!Chargeable(d)
    PROVE  spent[d] + Cardinality(S) * MaxCost <= Cap
<1>1. G!Chargeable(d) \subseteq Callers
      /\ \A c \in G!Chargeable(d) : pc[c] \in {"checking", "calling", "answered"}
    BY DEF G!Chargeable
<1>2. IsFiniteSet(G!Chargeable(d)) /\ Cardinality(G!Chargeable(d)) \in Nat
    BY <1>1, FlightsAreFew DEF FewFlights
<1>3. IsFiniteSet(S) /\ Cardinality(S) <= Cardinality(G!Chargeable(d))
    BY <1>2, FS_Subset
<1>4. Cardinality(S) \in Nat
    BY <1>3, FS_CardinalityType
<1>5. /\ Cardinality(S) * MaxCost <= Cardinality(G!Chargeable(d)) * MaxCost
      /\ Cardinality(S) * MaxCost \in Nat
      /\ Cardinality(G!Chargeable(d)) * MaxCost \in Nat
    BY <1>2, <1>3, <1>4, ProductsGrow, MoneyAssumption
<1>6. spent[d] + Cardinality(G!Chargeable(d)) * MaxCost <= Cap /\ spent[d] \in Nat /\ Cap \in Int
    BY CapIsANumber, MoneyAssumption DEF Accounted, Fits, G!TypeOK, Cap
<1> QED BY <1>5, <1>6

\* A day below the ceiling fits, whatever is in flight.
LEMMA BelowTheCeilingFits ==
    ASSUME CommitteeInv', AllPlaced', NEW d \in G!Days, NEW s \in Nat, s <= Ceiling - 1
    PROVE  s + Cardinality(G!Chargeable(d)') * MaxCost <= Cap
<1>1. G!Chargeable(d)' \subseteq Callers
      /\ \A c \in G!Chargeable(d)' : pc'[c] \in {"checking", "calling", "answered"}
    BY DEF G!Chargeable
<1>2. FewFlights'
    BY FlightsAreFew, PTL
<1>3. /\ Cardinality(G!Chargeable(d)') \in Nat
      /\ Cardinality(G!Chargeable(d)') <= Cardinality(Runs) * Width
    BY <1>1, <1>2 DEF FewFlights
<1>4. /\ Cardinality(G!Chargeable(d)') * MaxCost <= Cardinality(Runs) * Width * MaxCost
      /\ Cardinality(G!Chargeable(d)') * MaxCost \in Nat
    BY <1>3, CapIsANumber, ProductsGrow, MoneyAssumption
<1> QED BY <1>4, CapIsANumber, MoneyAssumption DEF Cap

\* Every step keeps what is charged in advance within the cap: it takes a call away,
\* or admits one to a day whose total is below the ceiling, or turns a call into
\* spend.
LEMMA AccountsStep ==
    ASSUME CommitteeInv, CommitteeInv', AllPlaced, AllPlaced', Accounted, [Next]_vars
    PROVE  Accounted'
<1>1. /\ G!TypeOK
      /\ \A d \in G!Days : d > today => spent[d] = 0
      /\ \A c \in Callers : stamp[c] <= today
    BY DEF Accounted
<1>2. ASSUME NEW d \in G!Days
      PROVE  Fits(d)'
    <2>1. ASSUME spent'[d] = spent[d], G!Chargeable(d)' \subseteq G!Chargeable(d)
          PROVE  Fits(d)'
        BY <2>1, FewerFit DEF Fits, Cap
    <2>2. ASSUME spent'[d] = spent[d], spent[d] <= Ceiling - 1
          PROVE  Fits(d)'
        <3>1. spent[d] \in Nat
            BY <1>1 DEF G!TypeOK
        <3>2. spent[d] + Cardinality(G!Chargeable(d)') * MaxCost <= Cap
            BY <2>2, <3>1, BelowTheCeilingFits
        <3> QED BY <2>2, <3>2 DEF Fits, Cap
    <2> USE DEF G!Chargeable, G!TypeOK, G!Outside
    <2>3. ASSUME NEW c \in Callers, G!Enter(c)
          PROVE  Fits(d)'
        <3>1. CASE d > today
            BY <1>1, <2>2, <2>3, <3>1, MoneyAssumption DEF G!Enter
        <3>2. CASE ~(d > today)
            BY <1>1, <2>1, <2>3, <3>2 DEF G!Enter, G!Days
        <3> QED BY <3>1, <3>2
    <2>4. ASSUME NEW c \in Callers, G!Refuse(c)
          PROVE  Fits(d)'
        BY <1>1, <2>1, <2>4 DEF G!Refuse
    <2>5. ASSUME NEW c \in Callers, G!Admit(c)
          PROVE  Fits(d)'
        <3>1. CASE stamp[c] = d
            BY <1>1, <2>2, <2>5, <3>1, MoneyAssumption DEF G!Admit, G!Exhausted
        <3>2. CASE stamp[c] # d /\ d > today
            BY <1>1, <2>2, <2>5, <3>2, MoneyAssumption DEF G!Admit
        <3>3. CASE stamp[c] # d /\ ~(d > today)
            BY <1>1, <2>1, <2>5, <3>3 DEF G!Admit, G!Days
        <3> QED BY <3>1, <3>2, <3>3
    <2>6. ASSUME NEW c \in Callers, G!ProviderFails(c)
          PROVE  Fits(d)'
        BY <1>1, <2>1, <2>6 DEF G!ProviderFails
    <2>7. ASSUME NEW c \in Callers, NEW price \in 0..MaxCost, G!Answer(c, price)
          PROVE  Fits(d)'
        BY <1>1, <2>1, <2>7 DEF G!Answer, G!Days
    <2>8. ASSUME NEW c \in Callers, G!Record(c)
          PROVE  Fits(d)'
        <3>1. CASE stamp[c] # d
            BY <1>1, <2>1, <2>8, <3>1 DEF G!Record
        <3>2. CASE stamp[c] = d
            <4>1. c \in G!Chargeable(d) /\ G!Chargeable(d)' = G!Chargeable(d) \ {c}
                BY <1>1, <2>8, <3>2 DEF G!Record
            <4>2. IsFiniteSet(G!Chargeable(d)) /\ Cardinality(G!Chargeable(d)) \in Nat
                BY FlightsAreFew DEF FewFlights
            <4> HIDE DEF G!Chargeable
            <4>3. Cardinality(G!Chargeable(d)') = Cardinality(G!Chargeable(d)) - 1
                BY ONLY <4>1, <4>2, FS_RemoveElement
            <4>4. \A n \in Nat : (n - 1) * MaxCost = n * MaxCost - MaxCost /\ n * MaxCost \in Nat
                BY MoneyAssumption
            <4>5. /\ Cardinality(G!Chargeable(d)') * MaxCost
                        = Cardinality(G!Chargeable(d)) * MaxCost - MaxCost
                  /\ Cardinality(G!Chargeable(d)) * MaxCost \in Nat
                BY <4>2, <4>3, <4>4
            <4>6. /\ spent'[d] = spent[d] + cost[c]
                  /\ cost[c] \in 0..MaxCost /\ spent[d] \in Nat
                BY <1>1, <2>8, <3>2 DEF G!Record
            <4>7. spent[d] + Cardinality(G!Chargeable(d)) * MaxCost <= Cap
                BY DEF Accounted, Fits
            <4>8. Cap \in Int
                BY CapIsANumber, MoneyAssumption DEF Cap
            <4>9. spent'[d] + Cardinality(G!Chargeable(d)') * MaxCost <= Cap
                BY <4>5, <4>6, <4>7, <4>8, MoneyAssumption
            <4> QED BY <4>9 DEF Fits, Cap
        <3> QED BY <3>1, <3>2
    <2>9. CASE G!Crash
        BY <1>1, <2>1, <2>9 DEF G!Crash
    <2>10. CASE G!Midnight
        <3>1. CASE d > today
            BY <1>1, <2>2, <2>10, <3>1, MoneyAssumption DEF G!Midnight
        <3>2. CASE ~(d > today)
            BY <1>1, <2>1, <2>10, <3>2 DEF G!Midnight, G!Days
        <3> QED BY <3>1, <3>2
    <2>11. CASE UNCHANGED gatewayVars
        BY <2>1, <2>11 DEF gatewayVars
    <2> QED BY <2>3, <2>4, <2>5, <2>6, <2>7, <2>8, <2>9, <2>10, <2>11, GatewayStep DEF GatewayCall
<1> QED BY <1>2, BooksStep DEF Accounted

LEMMA InitAccounted == Init => AllPlaced /\ Accounted
<1> SUFFICES ASSUME Init PROVE AllPlaced /\ Accounted
    OBVIOUS
<1>1. G!TypeOK
    BY MoneyAssumption DEF Init, G!Init, G!TypeOK, G!Days, G!Outside
<1>2. \A d \in G!Days : spent[d] = 0 /\ G!Chargeable(d) = {}
    BY DEF Init, G!Init, G!Chargeable
<1>3. Cardinality({}) = 0 /\ 0 * MaxCost = 0
    BY FS_EmptySet, MoneyAssumption
<1>4. ASSUME NEW d \in G!Days
      PROVE  Fits(d)
    <2>1. Cardinality(G!Chargeable(d)) = 0 /\ spent[d] = 0
        BY <1>2, <1>3
    <2>2. 0 <= Cap
        BY CapIsANumber, MoneyAssumption DEF Cap
    <2> QED BY <1>3, <2>1, <2>2 DEF Fits
<1>5. (\A d \in G!Days : d > today => spent[d] = 0) /\ \A c \in Callers : stamp[c] <= today
    BY <1>2 DEF Init, G!Init
<1>6. \A r \in Runs, a \in Agents : pc[<<r, a>>] = "idle"
    BY DEF Init, G!Init, Callers
<1>7. AllPlaced
    BY <1>6 DEF Init, AllPlaced, Placed, InFlight
<1> QED BY <1>1, <1>4, <1>5, <1>7 DEF Accounted

\* The ceiling of a day is passed by less than what the widest supersteps of all the
\* runs can add, and not by what all their agents could: at most Width nodes of a run
\* are inside the gateway at once, and each of them is charged its dearest call in
\* advance (graph.py build over llm.py _check_budget).
THEOREM OvershootIsOneSuperstep == Spec => []OvershootByASuperstep
<1>1. Init => AllPlaced /\ Accounted
    BY InitAccounted
<1>2. CommitteeInv /\ CommitteeInv' /\ AllPlaced /\ Accounted /\ [Next]_vars
        => AllPlaced' /\ Accounted'
    BY PlacedStep, AccountsStep
<1>3. CommitteeInv /\ AllPlaced /\ Accounted => OvershootByASuperstep
    <2> SUFFICES ASSUME CommitteeInv, AllPlaced, Accounted, NEW d \in G!Days
                 PROVE  spent[d] <= Cap
        BY DEF OvershootByASuperstep, Cap, G!Days
    <2>1. spent[d] + Cardinality({}) * MaxCost <= Cap
        BY FewerFit
    <2>2. Cardinality({}) = 0 /\ 0 * MaxCost = 0 /\ spent[d] \in Nat
        BY FS_EmptySet, MoneyAssumption DEF Accounted, G!TypeOK
    <2> QED BY <2>1, <2>2, CapIsANumber, MoneyAssumption DEF Cap
<1> QED BY <1>1, <1>2, <1>3, RunsAreInOrder, PTL DEF Spec

\* Seen from its gateway, a committee is any set of callers: whatever the superstep
\* scheduler does, the calls it makes are a behaviour of the gateway, so what is true
\* of the gateway for every caller is true of it here (graph.py build, llm.py).
THEOREM CommitteeCallsTheGateway == Spec => G!Spec
<1>1. Init => G!Init
    BY DEF Init
<1>2. [Next]_vars => [G!Next]_(G!vars)
    BY GatewayStep DEF GatewayCall, G!Next, G!Call, gatewayVars, G!vars
<1> QED BY <1>1, <1>2, PTL DEF Spec, G!Spec
=============================================================================
