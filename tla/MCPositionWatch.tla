--------------------------- MODULE MCPositionWatch --------------------------
(* Constant values for TLC: a position bought at 100 and every kind of rule,  *)
(* some of them at the price, the percentage or the day where they just fire. *)
EXTENDS PositionWatch

R(kind, unit, threshold, armed) ==
    [kind |-> kind, unit |-> unit, threshold |-> threshold, armed |-> armed]

SomePrices == {85, 90, 108, 200}

ManyRules ==
    {R("fixed_stop", None, 90, TRUE), R("fixed_stop", None, 90, FALSE),
     R("fixed_stop", "pct", 15, TRUE),
     R("trailing_stop", None, 10, TRUE),
     R("take_profit", "pct", 8, TRUE),
     R("take_profit", "pct", 100, TRUE),
     R("take_profit", "price", 90, TRUE),
     R("time_stop", None, 1, TRUE),
     R("thesis_invalidation", None, None, TRUE),
     R("earnings_proximity", None, 1, TRUE),
     R("fixed_stop", "days", 3, TRUE), R("trailing_stop", None, 0, TRUE)}
=============================================================================
