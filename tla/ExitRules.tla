------------------------------ MODULE ExitRules -----------------------------
(***************************************************************************)
(* Exit-rule evaluation (src/desk/exit_rules.py), a pure function of a     *)
(* position's state and its rules.                                         *)
(*                                                                         *)
(* A rule is [kind, unit, threshold, armed]; a position's state is [price, *)
(* cost, high, held, invalidated, earnings]: the current price, the        *)
(* average cost, the high-water mark, the days held and the days to the    *)
(* next earnings date, each of the last three possibly None.               *)
(* Prices are integers and pct thresholds are integer hundredths, so that  *)
(* a comparison of fractions is exact.                                     *)
(***************************************************************************)
EXTENDS Integers, Sequences, FiniteSetsExt, Functions

CONSTANT None   \* Python's None

PRECEDENCE == <<"fixed_stop", "trailing_stop", "take_profit", "time_stop",
                "thesis_invalidation">>

ALERT_ONLY == {"earnings_proximity"}

VALID_UNITS ==
    [fixed_stop          |-> {"price", "pct"},
     trailing_stop       |-> {"pct"},
     take_profit         |-> {"price", "pct"},
     time_stop           |-> {"days"},
     thesis_invalidation |-> {"flag"},
     earnings_proximity  |-> {"days"}]

DEFAULT_UNITS ==
    [fixed_stop          |-> "price",
     trailing_stop       |-> "pct",
     take_profit         |-> "price",
     time_stop           |-> "days",
     thesis_invalidation |-> "flag",
     earnings_proximity  |-> "days"]

\* A rule as the operator writes it: its unit may be left out.
Rule == [kind : DOMAIN VALID_UNITS, unit : (UNION Range(VALID_UNITS)) \union {None},
         threshold : Int \union {None}, armed : BOOLEAN]

Whole == 100    \* the pct threshold that is the whole of its base

Resolved(rule) ==
    IF rule.unit = None THEN [rule EXCEPT !.unit = DEFAULT_UNITS[rule.kind]] ELSE rule

\* Rule.__post_init__ raises RuleConfigError, whether the rule is armed or not.
RuleConfigError(rule) ==
    LET r == Resolved(rule) IN
    \/ r.unit \notin VALID_UNITS[r.kind]
    \/ /\ r.unit # "flag"
       /\ \/ r.threshold = None
          \/ r.threshold <= 0
          \/ r.unit = "pct" /\ r.threshold >= Whole

\* PositionState.__post_init__ raises BadPositionState.
BadPositionState(s) == s.price <= 0 \/ s.cost <= 0 \/ (s.high # None /\ s.high <= 0)

high_water_mark(s) == IF s.high = None THEN s.cost ELSE s.high

-----------------------------------------------------------------------------
(* The predicates: r is a resolved, accepted rule.                            *)

\* Slip: the stop fires at its price and not below.
FixedStopAtPrice(s, r) ==
    IF r.unit = "price" THEN s.price = r.threshold
    ELSE (s.cost - s.price) * Whole >= r.threshold * s.cost

_fixed_stop(s, r) ==
    IF r.unit = "price" THEN s.price <= r.threshold
    ELSE (s.cost - s.price) * Whole >= r.threshold * s.cost

_trailing_stop(s, r) ==
    (high_water_mark(s) - s.price) * Whole >= r.threshold * high_water_mark(s)

_take_profit(s, r) ==
    IF r.unit = "price" THEN s.price >= r.threshold
    ELSE (s.price - s.cost) * Whole >= r.threshold * s.cost

_time_stop(s, r) == s.held # None /\ s.held >= r.threshold

_earnings_proximity(s, r) == s.earnings # None /\ s.earnings \in 0..r.threshold

Fires(s, rule) ==
    LET r == Resolved(rule) IN
    CASE r.kind = "fixed_stop"          -> _fixed_stop(s, r)
      [] r.kind = "trailing_stop"       -> _trailing_stop(s, r)
      [] r.kind = "take_profit"         -> _take_profit(s, r)
      [] r.kind = "time_stop"           -> _time_stop(s, r)
      [] r.kind = "thesis_invalidation" -> s.invalidated
      [] r.kind = "earnings_proximity"  -> _earnings_proximity(s, r)

-----------------------------------------------------------------------------
(* evaluate().                                                                *)

\* Slip: of several armed rules of a kind only the last is kept.
HitsOfTheLast(s, rules, kind) ==
    {i \in DOMAIN rules :
        /\ rules[i].armed /\ rules[i].kind = kind /\ Fires(s, rules[i])
        /\ \A j \in DOMAIN rules : rules[j].armed /\ rules[j].kind = kind => j <= i}

\* The armed rules of a kind that fire; of several the first in book order is
\* the one reported.
Hits(s, rules, kind) ==
    {i \in DOMAIN rules :
        rules[i].armed /\ rules[i].kind = kind /\ Fires(s, rules[i])}

\* How strongly a kind claims the exit: its place in PRECEDENCE.
Rank(kind) == CHOOSE n \in DOMAIN PRECEDENCE : PRECEDENCE[n] = kind

\* Of the kinds that fire, the one fired[0] names.
Strongest(kinds) ==
    IF kinds = {} THEN None
    ELSE CHOOSE kind \in kinds : \A other \in kinds : Rank(kind) <= Rank(other)

\* `also_fired` is a set: its order is PRECEDENCE's.  `reported` gives the rule
\* each trigger or alert is reported for.
evaluate(s, rules) ==
    LET fired  == {kind \in Range(PRECEDENCE) : Hits(s, rules, kind) # {}}
        alerts == {kind \in ALERT_ONLY : Hits(s, rules, kind) # {}}
    IN  [action     |-> IF fired = {} THEN "HOLD" ELSE "EXIT",
         triggered  |-> Strongest(fired),
         also_fired |-> fired \ {Strongest(fired)},
         alerts     |-> alerts,
         reported   |-> [kind \in fired \union alerts |-> Min(Hits(s, rules, kind))]]
=============================================================================
