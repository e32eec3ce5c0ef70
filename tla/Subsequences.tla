---------------------------- MODULE Subsequences ----------------------------
(***************************************************************************)
(* The items of a sequence at some of its places, in their order: what a   *)
(* Python loop leaves that keeps some items and skips the others.  It is   *)
(* written with cardinalities and not with SelectSeq, so that it can be    *)
(* reasoned about.                                                         *)
(***************************************************************************)
EXTENDS Integers, FiniteSets

\* How many of the places of S are up to place i, and the k-th place of S.
Rank(S, i) == Cardinality({j \in S : j <= i})
Nth(S, k) == CHOOSE i \in S : Rank(S, i) = k

Items(seq, S) == [k \in 1..Cardinality(S) |-> seq[Nth(S, k)]]
=============================================================================
