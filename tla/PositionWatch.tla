---------------------------- MODULE PositionWatch ---------------------------
(***************************************************************************)
(* One position under its exit rules from day to day: the market moves,    *)
(* days pass, and the operator edits book.yaml (adds a rule, arms or       *)
(* disarms one, marks the thesis invalid).  Each day's decision is         *)
(* evaluate() of what is there (src/desk/exit_rules.py), and the           *)
(* properties relate one decision to the next.                             *)
(***************************************************************************)
EXTENDS ExitRules

CONSTANTS
    Writable,     \* the rules the operator may write, good and bad
    Prices,       \* the prices the market may quote
    Cost,         \* avg_cost
    OpenedAt,     \* opened_at: a day, or None
    NextEarnings, \* next_earnings: a day, or None
    MaxRules,     \* bound: rules in the book
    LastDay       \* bound: last day

ASSUME WatchAssumption ==
    /\ Prices \subseteq Nat \ {0} /\ Cost \in Nat \ {0}
    /\ {OpenedAt, NextEarnings} \subseteq Int \union {None}
    /\ MaxRules \in Nat /\ LastDay \in Nat
    /\ None \notin Int

ASSUME WritableAssumption == Writable \subseteq Rule

VARIABLES
    rules,        \* the accepted rules of the position, in book order
    price,
    high,         \* high-water mark the caller keeps: None, or the highest price
    invalidated,  \* thesis_invalidated
    today

vars == <<rules, price, high, invalidated, today>>

DaysSince(day) == IF day = None THEN None ELSE today - day
DaysTo(day) == IF day = None THEN None ELSE day - today

State ==
    [price |-> price, cost |-> Cost, high |-> high, held |-> DaysSince(OpenedAt),
     invalidated |-> invalidated, earnings |-> DaysTo(NextEarnings)]

Decision == evaluate(State, rules)

Init ==
    /\ rules = <<>>
    /\ price \in Prices
    /\ high = None
    /\ invalidated = FALSE
    /\ today = 0

\* The operator adds a rule that Rule.__post_init__ accepts.
AddRule(rule) ==
    /\ Len(rules) < MaxRules
    /\ ~RuleConfigError(rule)
    /\ rules' = Append(rules, rule)
    /\ UNCHANGED <<price, high, invalidated, today>>

Toggle(i) ==
    /\ rules' = [rules EXCEPT ![i].armed = ~@]
    /\ [rules[i] EXCEPT !.armed = ~@] \in Writable
    /\ UNCHANGED <<price, high, invalidated, today>>

Invalidate ==
    /\ invalidated' = TRUE
    /\ UNCHANGED <<rules, price, high, today>>

\* A quote; the caller may or may not keep a high-water mark.
Quote(p) ==
    /\ price' = p
    /\ high' \in {high, IF high = None THEN p ELSE Max({high, p})}
    /\ UNCHANGED <<rules, invalidated, today>>

NextDay ==
    /\ today < LastDay
    /\ today' = today + 1
    /\ UNCHANGED <<rules, price, high, invalidated>>

Next ==
    \/ \E rule \in Writable : AddRule(rule)
    \/ \E i \in DOMAIN rules : Toggle(i)
    \/ Invalidate
    \/ \E p \in Prices : Quote(p)
    \/ NextDay

Spec == Init /\ [][Next]_vars

-----------------------------------------------------------------------------

\* The position's exit stands, on grounds at least as strong.
ExitStands ==
    Decision.action = "EXIT" =>
        /\ Decision'.action = "EXIT"
        /\ Rank(Decision'.triggered) <= Rank(Decision.triggered)

\* tests/test_exit_rules.py 260 "Precedence comes from PRECEDENCE, not from
\* however book.yaml happens to be written": reordering the book's rules
\* changes neither what is decided, nor why, nor what else fired.
OrderDoesNotMatter ==
    \A order \in {p \in [DOMAIN rules -> DOMAIN rules] :
                     \A i, j \in DOMAIN rules : p[i] = p[j] => i = j} :
        LET reordered == evaluate(State, [i \in DOMAIN rules |-> rules[order[i]]])
        IN  /\ reordered.triggered = Decision.triggered
            /\ reordered.also_fired = Decision.also_fired
            /\ reordered.alerts = Decision.alerts

MoreRules ==
    /\ \A i \in DOMAIN rules :
          i \in DOMAIN rules' /\ rules'[i] \in {rules[i], [rules[i] EXCEPT !.armed = TRUE]}
    /\ UNCHANGED <<price, high, invalidated, today>>

DayGoesBy == today' > today

StoppedPriceFalls ==
    /\ Decision.action = "EXIT"
    /\ Decision.triggered \in {"fixed_stop", "trailing_stop"}
    /\ price' <= price /\ high_water_mark(State') >= high_water_mark(State)
    /\ UNCHANGED <<rules, invalidated, today>>

\* An exit does not heal.  Writing one more rule, or arming one, never clears it
\* and never hides its reason behind a weaker one; a day that goes by at the same
\* price does not (_time_stop; the earnings date going past decides nothing); and
\* a stop that has triggered is not cleared by a deeper fall, whatever mix of
\* price, pct and trailing rules the book holds, unless the caller's high-water
\* mark goes down with the price -- as its first one may, because until there is
\* one the cost stands in for it (exit_rules.py _fixed_stop, _trailing_stop,
\* PositionState.__post_init__).
ExitDoesNotHeal == [][MoreRules \/ DayGoesBy \/ StoppedPriceFalls => ExitStands]_vars
=============================================================================
