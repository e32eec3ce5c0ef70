---------------------------- MODULE MCMeteredDesk ---------------------------
(* Constant values for TLC: two threads of one run, and an agent without a   *)
(* tier.                                                                    *)
EXTENDS MeteredDesk, TLC

LOCAL INSTANCE FiniteSetsExt

CONSTANTS c1, c2, unregistered, r1

TwoCallers == {c1, c2}
ThreeCallers == TwoCallers \union {unregistered}
OneRun == {r1}
RunOfTwo == [c \in TwoCallers |-> r1]
RunOfThree == [c \in ThreeCallers |-> r1]

\* Total adds the costs up: on files of up to four cells it is the sum.
Cells == {Newline} \union {Row([run |-> r1, day |-> 0, cost |-> k]) : k \in 0..2}

ASSUME TotalIsTheSum ==
    \A f \in UNION {[1..n -> Cells] : n \in 0..4} :
        total_for_day(f, 0) =
            MapThenSumSet(LAMBDA i : f[i].call.cost, ReadablePositions(f))

\* The two threads are interchangeable: same run, same ceiling.
Symmetry == Permutations(TwoCallers)
=============================================================================
