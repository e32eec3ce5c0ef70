--------------------------- MODULE MCLLMGateway -----------------------------
(* Constant values for TLC: three threads with a tier and one without, two   *)
(* runs that share the ledger.                                              *)
EXTENDS LLMGateway, TLC

CONSTANTS c1, c2, c3, unregistered, r1, r2

ThreeTiered == {c1, c2, c3}
FourCallers == ThreeTiered \union {unregistered}
TwoRuns == {r1, r2}
RunOfCaller == (c1 :> r1) @@ (c2 :> r1) @@ (c3 :> r2) @@ (unregistered :> r2)

TwoCallers == {c1, c2}
RunOfTwo == (c1 :> r1) @@ (c2 :> r1)
=============================================================================
