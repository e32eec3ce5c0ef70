------------------------ MODULE PositionWatch_proofs ------------------------
(***************************************************************************)
(* Proofs about the exit rules and a position under them, for any rules    *)
(* the operator may write, any prices and any days: the order of book.yaml *)
(* decides nothing, and an exit does not heal.                             *)
(***************************************************************************)
EXTENDS PositionWatch, FiniteSetTheorems, SequenceTheorems, TLAPS

USE WatchAssumption, WritableAssumption

-----------------------------------------------------------------------------
(* What a decision is made of.                                               *)

Fired(s, book) == {kind \in Range(PRECEDENCE) : Hits(s, book, kind) # {}}
Alerts(s, book) == {kind \in ALERT_ONLY : Hits(s, book, kind) # {}}

LEMMA DecisionFields ==
  \A s, book :
     /\ evaluate(s, book).action = IF Fired(s, book) = {} THEN "HOLD" ELSE "EXIT"
     /\ evaluate(s, book).triggered = Strongest(Fired(s, book))
     /\ evaluate(s, book).also_fired = Fired(s, book) \ {Strongest(Fired(s, book))}
     /\ evaluate(s, book).alerts = Alerts(s, book)
BY DEF evaluate, Fired, Alerts

(* PRECEDENCE orders five kinds.                                             *)
LEMMA Ranks ==
  /\ Range(PRECEDENCE) = {"fixed_stop", "trailing_stop", "take_profit", "time_stop",
                          "thesis_invalidation"}
  /\ Rank("fixed_stop") = 1 /\ Rank("trailing_stop") = 2 /\ Rank("take_profit") = 3
  /\ Rank("time_stop") = 4 /\ Rank("thesis_invalidation") = 5
<1>1. DOMAIN PRECEDENCE = 1..5
  BY DEF PRECEDENCE
<1>2. /\ PRECEDENCE[1] = "fixed_stop" /\ PRECEDENCE[2] = "trailing_stop"
      /\ PRECEDENCE[3] = "take_profit" /\ PRECEDENCE[4] = "time_stop"
      /\ PRECEDENCE[5] = "thesis_invalidation"
  BY DEF PRECEDENCE
<1>3. Range(PRECEDENCE) = {"fixed_stop", "trailing_stop", "take_profit", "time_stop",
                           "thesis_invalidation"}
  BY <1>1, <1>2 DEF Range
<1>4. \A n \in 1..5 : Rank(PRECEDENCE[n]) = n
  BY <1>1, <1>2 DEF Rank
<1>5. QED
  BY <1>2, <1>3, <1>4

(* A kind that fires is not outranked by what evaluate reports.              *)
LEMMA StrongestLeads ==
  ASSUME NEW kinds \in SUBSET Range(PRECEDENCE), NEW kind \in kinds
  PROVE  /\ Strongest(kinds) \in kinds
         /\ Rank(Strongest(kinds)) <= Rank(kind)
<1>1. \E best \in kinds : \A other \in kinds : Rank(best) <= Rank(other)
  <2>1. CASE "fixed_stop" \in kinds
    BY <2>1, Ranks
  <2>2. CASE "fixed_stop" \notin kinds /\ "trailing_stop" \in kinds
    BY <2>2, Ranks
  <2>3. CASE /\ "fixed_stop" \notin kinds /\ "trailing_stop" \notin kinds
             /\ "take_profit" \in kinds
    BY <2>3, Ranks
  <2>4. CASE /\ "fixed_stop" \notin kinds /\ "trailing_stop" \notin kinds
             /\ "take_profit" \notin kinds /\ "time_stop" \in kinds
    BY <2>4, Ranks
  <2>5. CASE kinds = {"thesis_invalidation"}
    BY <2>5, Ranks
  <2>6. QED
    BY <2>1, <2>2, <2>3, <2>4, <2>5, Ranks
<1>2. QED
  BY <1>1 DEF Strongest

-----------------------------------------------------------------------------
(* The invariant: the book holds accepted rules, the market quotes prices.   *)

Accepted == {r \in Writable : ~RuleConfigError(r)}

WatchInv ==
  /\ rules \in Seq(Accepted)
  /\ price \in Prices
  /\ high \in Prices \union {None}
  /\ today \in Nat

(* Arming a rule or disarming it does not change whether it is accepted.     *)
LEMMA ToggledIsAccepted ==
  ASSUME NEW r \in Accepted, [r EXCEPT !.armed = ~@] \in Writable
  PROVE  [r EXCEPT !.armed = ~@] \in Accepted
<1> DEFINE q == [r EXCEPT !.armed = ~@]
<1>1. r \in Rule
  BY DEF Accepted
<1>2. q.kind = r.kind /\ q.unit = r.unit /\ q.threshold = r.threshold /\ q \in Rule
  BY <1>1 DEF Rule
<1>3. \A x \in Rule :
         /\ Resolved(x).kind = x.kind /\ Resolved(x).threshold = x.threshold
         /\ Resolved(x).unit = IF x.unit = None THEN DEFAULT_UNITS[x.kind] ELSE x.unit
  BY DEF Rule, Resolved
<1>4. /\ Resolved(q).kind = Resolved(r).kind /\ Resolved(q).unit = Resolved(r).unit
      /\ Resolved(q).threshold = Resolved(r).threshold
  <2> HIDE DEF q
  <2> QED BY <1>1, <1>2, <1>3
<1>5. RuleConfigError(q) <=> RuleConfigError(r)
  <2> HIDE DEF q
  <2> QED BY <1>4 DEF RuleConfigError
<1>6. QED
  BY <1>5 DEF Accepted

LEMMA HigherOfTwo ==
  ASSUME NEW a \in Int, NEW b \in Int
  PROVE  Max({a, b}) \in {a, b}
<1>1. \E x \in {a, b} : \A y \in {a, b} : x >= y
  OBVIOUS
<1>2. QED
  BY <1>1 DEF Max

LEMMA WatchInvInductive ==
  /\ Init => WatchInv
  /\ WatchInv /\ [Next]_vars => WatchInv'
<1>1. Init => WatchInv
  BY DEF Init, WatchInv
<1>2. ASSUME WatchInv, [Next]_vars PROVE WatchInv'
  <2>1. ASSUME NEW rule \in Writable, AddRule(rule) PROVE WatchInv'
    <3>1. rule \in Accepted
      BY <2>1 DEF AddRule, Accepted
    <3>2. rules' \in Seq(Accepted)
      BY <1>2, <2>1, <3>1, AppendProperties DEF WatchInv, AddRule
    <3>3. QED
      BY <1>2, <2>1, <3>2 DEF WatchInv, AddRule
  <2>2. ASSUME NEW i \in DOMAIN rules, Toggle(i) PROVE WatchInv'
    <3>1. rules[i] \in Accepted /\ i \in 1..Len(rules)
      BY <1>2, ElementOfSeq, LenProperties DEF WatchInv
    <3>2. [rules[i] EXCEPT !.armed = ~@] \in Accepted
      BY <2>2, <3>1, ToggledIsAccepted DEF Toggle
    <3>3. rules' = [rules EXCEPT ![i] = [rules[i] EXCEPT !.armed = ~@]]
      BY <2>2 DEF Toggle
    <3>4. rules' \in Seq(Accepted)
      BY <1>2, <3>1, <3>2, <3>3, ExceptSeq DEF WatchInv
    <3>5. QED
      BY <1>2, <2>2, <3>4 DEF WatchInv, Toggle
  <2>3. ASSUME NEW p \in Prices, Quote(p) PROVE WatchInv'
    <3>1. high # None => Max({high, p}) \in {high, p}
      BY <1>2, HigherOfTwo DEF WatchInv
    <3>2. high' \in Prices \union {None}
      BY <1>2, <2>3, <3>1 DEF WatchInv, Quote
    <3>3. QED
      BY <1>2, <2>3, <3>2 DEF WatchInv, Quote
  <2>4. CASE Invalidate \/ NextDay \/ UNCHANGED vars
    BY <1>2, <2>4 DEF WatchInv, Invalidate, NextDay, vars
  <2>5. QED
    BY <1>2, <2>1, <2>2, <2>3, <2>4 DEF Next
<1>3. QED
  BY <1>1, <1>2

-----------------------------------------------------------------------------
(* The order of the book.                                                    *)

(* A book that holds the same rules at other places fires the same kinds.    *)
LEMMA SameRulesSameKinds ==
  ASSUME NEW s, NEW a, NEW b,
         \A i \in DOMAIN a : \E j \in DOMAIN b : b[j] = a[i],
         \A j \in DOMAIN b : \E i \in DOMAIN a : a[i] = b[j]
  PROVE  Fired(s, a) = Fired(s, b) /\ Alerts(s, a) = Alerts(s, b)
<1>1. \A kind : Hits(s, a, kind) # {} <=> Hits(s, b, kind) # {}
  BY DEF Hits
<1>2. QED
  BY <1>1 DEF Fired, Alerts

(* evaluate groups the armed rules by kind and takes the kinds in PRECEDENCE   *)
(* order, so a permutation of book.yaml changes neither the exit, nor its      *)
(* reason, nor what else fired, nor the alerts (exit_rules.py 310-344).        *)
THEOREM OrderNeverMatters == Spec => []OrderDoesNotMatter
<1>1. WatchInv => OrderDoesNotMatter
  <2> SUFFICES ASSUME WatchInv,
                      NEW order \in [DOMAIN rules -> DOMAIN rules],
                      \A i, j \in DOMAIN rules : order[i] = order[j] => i = j,
                      NEW shuffled, shuffled = [i \in DOMAIN rules |-> rules[order[i]]]
               PROVE  /\ evaluate(State, shuffled).triggered = Decision.triggered
                      /\ evaluate(State, shuffled).also_fired = Decision.also_fired
                      /\ evaluate(State, shuffled).alerts = Decision.alerts
    BY DEF OrderDoesNotMatter
  <2> DEFINE D == DOMAIN rules
  <2>1. IsFiniteSet(D)
    <3>1. D = 1..Len(rules) /\ Len(rules) \in Nat
      BY LenProperties DEF WatchInv
    <3>2. QED
      BY <3>1, FS_Interval
  <2>2. order \in Injection(D, D)
    BY DEF Injection, IsInjective
  <2>3. order \in Surjection(D, D)
    <3> HIDE DEF D
    <3> QED BY <2>1, <2>2, FS_Injection
  <2>4. \A j \in D : \E i \in D : order[i] = j
    <3> HIDE DEF D
    <3> QED BY <2>3 DEF Surjection
  <2>5. /\ Fired(State, shuffled) = Fired(State, rules)
        /\ Alerts(State, shuffled) = Alerts(State, rules)
    <3>1. DOMAIN shuffled = D /\ \A i \in D : shuffled[i] = rules[order[i]] /\ order[i] \in D
      OBVIOUS
    <3>2. \A i \in DOMAIN shuffled : \E j \in DOMAIN rules : rules[j] = shuffled[i]
      BY <3>1
    <3>3. \A j \in DOMAIN rules : \E i \in DOMAIN shuffled : shuffled[i] = rules[j]
      BY <2>4, <3>1
    <3>4. QED
      BY ONLY <3>2, <3>3, SameRulesSameKinds
  <2>6. QED
    BY ONLY <2>5, DecisionFields DEF Decision
<1>2. QED
  BY <1>1, WatchInvInductive, PTL DEF Spec

-----------------------------------------------------------------------------
(* An exit does not heal.                                                    *)

(* What the predicates ask of an accepted rule.                              *)
LEMMA AcceptedRule ==
  ASSUME NEW r \in Accepted
  PROVE  /\ Resolved(r).kind = r.kind /\ r.kind \in DOMAIN VALID_UNITS
         /\ Resolved(r).unit \in VALID_UNITS[r.kind]
         /\ Resolved(r).unit # "flag" => Resolved(r).threshold \in Int
         /\ Resolved(r).unit = "pct" => Resolved(r).threshold < 100
<1>1. r \in Rule /\ ~RuleConfigError(r)
  BY DEF Accepted
<1>2. /\ Resolved(r).kind = r.kind /\ r.kind \in DOMAIN VALID_UNITS
      /\ Resolved(r).threshold \in Int \union {None}
  BY <1>1 DEF Rule, Resolved
<1>3. QED
  BY <1>1, <1>2 DEF RuleConfigError, Whole

LEMMA KindsAndUnits ==
  /\ VALID_UNITS["trailing_stop"] = {"pct"} /\ VALID_UNITS["time_stop"] = {"days"}
  /\ VALID_UNITS["fixed_stop"] = {"price", "pct"}
BY DEF VALID_UNITS

(* Which predicate decides about a rule.                                     *)
LEMMA FiresByKind ==
  ASSUME NEW s, NEW r, Resolved(r).kind = r.kind
  PROVE  /\ r.kind = "fixed_stop" => (Fires(s, r) <=> _fixed_stop(s, Resolved(r)))
         /\ r.kind = "trailing_stop" => (Fires(s, r) <=> _trailing_stop(s, Resolved(r)))
         /\ r.kind = "take_profit" => (Fires(s, r) <=> _take_profit(s, Resolved(r)))
         /\ r.kind = "time_stop" => (Fires(s, r) <=> _time_stop(s, Resolved(r)))
         /\ r.kind = "thesis_invalidation" => (Fires(s, r) <=> s.invalidated)
BY DEF Fires

(* It is enough that the reason of the exit fires again.                     *)
LEMMA ReasonFiresAgain ==
  ASSUME WatchInv, Decision.action = "EXIT",
         Hits(State, rules, Decision.triggered) # {}
            => Hits(State', rules', Decision.triggered) # {}
  PROVE  ExitStands
<1> DEFINE k == Decision.triggered
           F == Fired(State, rules)
           F2 == Fired(State', rules')
<1>1. F # {} /\ k = Strongest(F)
  <2> HIDE DEF F
  <2> QED BY DecisionFields DEF Decision, F
<1>2. F \in SUBSET Range(PRECEDENCE) /\ F2 \in SUBSET Range(PRECEDENCE)
  BY DEF Fired
<1>3. k \in F
  <2> HIDE DEF F, k
  <2> QED BY <1>1, <1>2, StrongestLeads
<1>4. k \in F2
  <2> HIDE DEF k
  <2> QED BY <1>3 DEF Fired, k
<1>5. F2 # {} /\ Rank(Strongest(F2)) <= Rank(k)
  <2> HIDE DEF F2, k
  <2> QED BY <1>2, <1>4, StrongestLeads
<1>6. Decision'.action = "EXIT" /\ Decision'.triggered = Strongest(F2)
  <2>1. Decision' = evaluate(State', rules')
    BY DEF Decision
  <2> HIDE DEF F2
  <2>2. QED
    BY <1>5, <2>1, DecisionFields DEF F2
<1>7. QED
  BY <1>5, <1>6 DEF ExitStands

LEMMA TriggeredKind ==
  ASSUME Decision.action = "EXIT"
  PROVE  Decision.triggered \in Range(PRECEDENCE)
<1> DEFINE F == Fired(State, rules)
<1>1. F # {} /\ Decision.triggered = Strongest(F)
  <2> HIDE DEF F
  <2> QED BY DecisionFields DEF Decision, F
<1>2. F \in SUBSET Range(PRECEDENCE)
  BY DEF Fired
<1>3. QED
  <2> HIDE DEF F
  <2> QED BY <1>1, <1>2, StrongestLeads

LEMMA StateFields ==
  /\ State.price = price /\ State.cost = Cost /\ State.high = high
  /\ State.held = DaysSince(OpenedAt) /\ State.invalidated = invalidated
  /\ State'.price = price' /\ State'.cost = Cost /\ State'.high = high'
  /\ State'.held = DaysSince(OpenedAt)' /\ State'.invalidated = invalidated'
BY DEF State

LEMMA MoreRulesKeepIt ==
  ASSUME WatchInv, WatchInv', Decision.action = "EXIT", MoreRules
  PROVE  ExitStands
<1>1. State' = State
  BY DEF MoreRules, State, DaysSince, DaysTo
<1>2. ASSUME NEW k, NEW i \in Hits(State, rules, k) PROVE i \in Hits(State', rules', k)
  <2>1. /\ i \in DOMAIN rules /\ rules[i].armed /\ rules[i].kind = k
        /\ Fires(State, rules[i])
    BY <1>2 DEF Hits
  <2>2. rules[i] \in Accepted
    BY <2>1, ElementOfSeq, LenProperties DEF WatchInv
  <2>3. rules[i] \in Rule
    BY <2>2 DEF Accepted
  <2>4. [rules[i] EXCEPT !.armed = TRUE] = rules[i]
    <3> DEFINE r == rules[i]
    <3>1. r \in Rule /\ r.armed = TRUE
      BY <2>1, <2>3 DEF Rule
    <3> HIDE DEF r
    <3>2. [r EXCEPT !.armed = TRUE] = r
      BY <3>1 DEF Rule
    <3>3. QED
      BY <3>2 DEF r
  <2>5. i \in DOMAIN rules' /\ rules'[i] = rules[i]
    BY <2>1, <2>4 DEF MoreRules
  <2>6. QED
    BY <1>1, <2>1, <2>5 DEF Hits
<1>3. QED
  BY <1>2, ReasonFiresAgain

LEMMA DayKeepsIt ==
  ASSUME WatchInv, Decision.action = "EXIT", NextDay
  PROVE  ExitStands
<1> DEFINE k == Decision.triggered
<1>1. k \in {"fixed_stop", "trailing_stop", "take_profit", "time_stop",
             "thesis_invalidation"}
  BY TriggeredKind, Ranks
<1>2. /\ rules' = rules /\ price' = price /\ high' = high
      /\ invalidated' = invalidated /\ today' = today + 1 /\ today \in Nat
  BY DEF NextDay, WatchInv
<1>3. high_water_mark(State') = high_water_mark(State)
  BY <1>2, StateFields DEF high_water_mark
<1>4. ASSUME NEW i \in Hits(State, rules, k) PROVE i \in Hits(State', rules', k)
  <2> DEFINE r == rules[i]
  <2>1. i \in DOMAIN rules /\ r.armed /\ r.kind = k /\ Fires(State, r)
    BY <1>4 DEF Hits
  <2>2. r \in Accepted
    BY <2>1, ElementOfSeq, LenProperties DEF WatchInv
  <2> HIDE DEF r, k
  <2>3. Fires(State', r)
    <3>1. CASE k = "fixed_stop"
      BY <1>2, <2>1, <2>2, <3>1, AcceptedRule, FiresByKind, StateFields DEF _fixed_stop
    <3>2. CASE k = "trailing_stop"
      BY <1>2, <1>3, <2>1, <2>2, <3>2, AcceptedRule, FiresByKind, StateFields
      DEF _trailing_stop
    <3>3. CASE k = "take_profit"
      BY <1>2, <2>1, <2>2, <3>3, AcceptedRule, FiresByKind, StateFields DEF _take_profit
    <3>4. CASE k = "time_stop"
      <4>1. Resolved(r).threshold \in Int
        BY <2>1, <2>2, <3>4, AcceptedRule, KindsAndUnits
      <4>2. _time_stop(State, Resolved(r))
        BY <2>1, <2>2, <3>4, AcceptedRule, FiresByKind
      <4>3. _time_stop(State', Resolved(r))
        BY <1>2, <4>1, <4>2, StateFields DEF _time_stop, DaysSince
      <4>4. QED
        BY <2>1, <2>2, <3>4, <4>3, AcceptedRule, FiresByKind
    <3>5. CASE k = "thesis_invalidation"
      BY <1>2, <2>1, <2>2, <3>5, AcceptedRule, FiresByKind, StateFields
    <3>6. QED
      BY <1>1, <3>1, <3>2, <3>3, <3>4, <3>5 DEF k
  <2>4. QED
    BY <1>2, <2>1, <2>3 DEF Hits, r
<1>5. QED
  BY <1>4, ReasonFiresAgain

(* A fall from a higher mark is at least as deep a share of it.              *)
LEMMA DeeperFall ==
  ASSUME NEW t \in Int, t < 100,
         NEW h \in Int, NEW p \in Int, NEW h2 \in Int, NEW p2 \in Int,
         h2 >= h, p2 <= p, (h - p) * 100 >= t * h
  PROVE  (h2 - p2) * 100 >= t * h2
<1> DEFINE up == h2 - h
           gap == 100 - t
<1>1. up \in Nat /\ gap \in Nat
  OBVIOUS
<1>2. up * gap >= 0
  <2> HIDE DEF up, gap
  <2> QED BY <1>1
<1>3. up * gap = 100 * h2 - 100 * h - t * h2 + t * h
  OBVIOUS
<1>4. QED
  BY <1>2, <1>3

LEMMA FallKeepsIt ==
  ASSUME WatchInv, WatchInv', StoppedPriceFalls
  PROVE  ExitStands
<1> DEFINE k == Decision.triggered
<1>1. k \in {"fixed_stop", "trailing_stop"} /\ Decision.action = "EXIT"
  BY DEF StoppedPriceFalls
<1>2. /\ rules' = rules /\ invalidated' = invalidated /\ today' = today
      /\ price \in Nat /\ price' \in Nat /\ price' <= price /\ Cost \in Nat
  BY DEF StoppedPriceFalls, WatchInv
<1>3. /\ high_water_mark(State) \in Int /\ high_water_mark(State') \in Int
      /\ high_water_mark(State') >= high_water_mark(State)
  <2>1. high_water_mark(State) \in Int /\ high_water_mark(State') \in Int
    BY StateFields DEF high_water_mark, WatchInv
  <2>2. QED
    BY <2>1 DEF StoppedPriceFalls
<1>4. ASSUME NEW i \in Hits(State, rules, k) PROVE i \in Hits(State', rules', k)
  <2> DEFINE r == rules[i]
             t == Resolved(r).threshold
  <2>1. i \in DOMAIN rules /\ r.armed /\ r.kind = k /\ Fires(State, r)
    BY <1>4 DEF Hits
  <2>2. r \in Accepted
    BY <2>1, ElementOfSeq, LenProperties DEF WatchInv
  <2> HIDE DEF r, k
  <2>3. t \in Int /\ Resolved(r).unit \in {"price", "pct"}
        /\ (Resolved(r).unit = "pct" => t < 100)
        /\ (k = "trailing_stop" => Resolved(r).unit = "pct")
    BY <1>1, <2>1, <2>2, AcceptedRule, KindsAndUnits DEF k
  <2>4. Fires(State', r)
    <3>1. CASE k = "fixed_stop"
      <4>1. _fixed_stop(State, Resolved(r))
        BY <2>1, <2>2, <3>1, AcceptedRule, FiresByKind
      <4>2. CASE Resolved(r).unit = "price"
        <5>1. price' <= t
          BY <1>2, <2>3, <4>1, <4>2, StateFields DEF _fixed_stop
        <5>2. QED
          BY <2>1, <2>2, <3>1, <4>2, <5>1, AcceptedRule, FiresByKind, StateFields
          DEF _fixed_stop
      <4>3. CASE Resolved(r).unit = "pct"
        <5>1. (Cost - price) * 100 >= t * Cost
          BY <4>1, <4>3, StateFields DEF _fixed_stop, Whole
        <5>2. (Cost - price') * 100 >= t * Cost
          <6>1. t * Cost \in Int
            BY <1>2, <2>3
          <6>2. QED
            BY <1>2, <5>1, <6>1
        <5>3. QED
          BY <2>1, <2>2, <3>1, <4>3, <5>2, AcceptedRule, FiresByKind, StateFields
          DEF _fixed_stop, Whole
      <4>4. QED
        BY <2>3, <4>2, <4>3
    <3>2. CASE k = "trailing_stop"
      <4> DEFINE h == high_water_mark(State)
                 h2 == high_water_mark(State')
      <4>1. _trailing_stop(State, Resolved(r))
        BY <2>1, <2>2, <3>2, AcceptedRule, FiresByKind
      <4>2. (h - price) * 100 >= t * h
        BY <4>1, StateFields DEF _trailing_stop, Whole
      <4>3. (h2 - price') * 100 >= t * h2
        <5> HIDE DEF h, h2, t
        <5> QED BY <1>2, <1>3, <2>3, <3>2, <4>2, DeeperFall DEF h, h2
      <4>4. QED
        BY <2>1, <2>2, <3>2, <4>3, AcceptedRule, FiresByKind, StateFields
        DEF _trailing_stop, Whole
    <3>3. QED
      BY <1>1, <3>1, <3>2 DEF k
  <2>5. QED
    BY <1>2, <2>1, <2>4 DEF Hits, r
<1>5. QED
  BY <1>1, <1>4, ReasonFiresAgain

(* One more rule, another day, or a deeper fall under a high-water mark that   *)
(* does not go down: an exit stands, on grounds at least as strong             *)
(* (exit_rules.py 226-344).                                                    *)
THEOREM ExitsDoNotHeal == Spec => ExitDoesNotHeal
<1>1. ASSUME WatchInv, [Next]_vars
      PROVE  [MoreRules \/ DayGoesBy \/ StoppedPriceFalls => ExitStands]_vars
  <2>1. WatchInv'
    BY <1>1, WatchInvInductive
  <2>2. Decision.action # "EXIT" => ExitStands
    BY DEF ExitStands
  <2>3. ASSUME MoreRules PROVE ExitStands
    BY <1>1, <2>1, <2>2, <2>3, MoreRulesKeepIt
  <2>4. ASSUME DayGoesBy PROVE ExitStands
    <3>1. NextDay
      <4>1. today' # today
        BY <1>1, <2>4 DEF DayGoesBy, WatchInv
      <4>2. QED
        BY <1>1, <4>1 DEF Next, AddRule, Toggle, Invalidate, Quote, vars
    <3>2. QED
      BY <1>1, <2>2, <3>1, DayKeepsIt
  <2>5. ASSUME StoppedPriceFalls PROVE ExitStands
    BY <1>1, <2>1, <2>5, FallKeepsIt
  <2>6. QED
    BY <2>3, <2>4, <2>5
<1>2. WatchInv /\ [Next]_vars
         => [MoreRules \/ DayGoesBy \/ StoppedPriceFalls => ExitStands]_vars
  BY <1>1
<1>3. QED
  BY <1>2, WatchInvInductive, PTL DEF Spec, ExitDoesNotHeal
=============================================================================
