------------------------------- MODULE Budget -------------------------------
(***************************************************************************)
(* What the spend ceiling promises whoever pays the bill, with nothing of  *)
(* how it is enforced: per-day totals that only grow, one day at a time,   *)
(* and never beyond a bound.                                               *)
(***************************************************************************)
EXTENDS Integers

CONSTANTS Days, Bound

VARIABLE spent

Init == spent = [d \in Days |-> 0]

Charge(d) ==
    /\ spent'[d] \in spent[d]..Bound
    /\ spent' = [spent EXCEPT ![d] = spent'[d]]

Next == \E d \in Days : Charge(d)

Spec == Init /\ [][Next]_spent

=============================================================================
