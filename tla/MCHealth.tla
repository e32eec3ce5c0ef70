------------------------------ MODULE MCHealth ------------------------------
(* Constant values for TLC: two positions of one ticker and one of another,   *)
(* quotes that cross a stop, miss it, or are missing, entries with a stop,    *)
(* with a rule that cannot be built, with a time stop, and with the thesis of *)
(* a run that is not in the database.                                         *)
EXTENDS Health, TLC

CONSTANTS a, b, p1, tickA, tickB

R(key, qty, cost) == [key |-> key, qty |-> qty, cost |-> cost]
Entry(stop, target, rules) ==
    [stop |-> stop, target |-> target, exit_rules |-> rules,
     invalidated |-> FALSE, earnings |-> None]

TwoKeys == {a, b}
OneImporter == {p1}
Ticker == (a :> tickA) @@ (b :> tickB)

HealthCSVs == {<<R(a, 1, 10)>>, <<R(b, 2, 20), R(a, 1, None)>>, <<R(b, 0, 20)>>}
HealthQuotes == {(tickA :> 9), (tickA :> 8) @@ (tickB :> 8)}

Stopped == (a :> Entry(8, None, <<>>))
StoppedBoth ==
    (a :> Entry(9, 8, <<>>)) @@ (b :> Entry(8, None, <<rule("time_stop", None, 2)>>))
Orphan == Entry(7, None, <<>>)
BadRule ==
    (a :> Entry(8, None, <<[rule("trailing_stop", "price", 5) EXCEPT !.armed = FALSE]>>))
    @@ (b :> Orphan)

SomeBooks == {Stopped, StoppedBoth, BadRule}
NoRunOf == {Orphan}
=============================================================================
