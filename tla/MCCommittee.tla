----------------------------- MODULE MCCommittee ----------------------------
(* Constant values for TLC: a committee of three analysts, one of which makes *)
(* no call, two debaters and a chain of two.                                  *)
EXTENDS Committee

CONSTANTS tech, macro, news, bull, bear, trader, boss, r1

OneRun == {r1}
ThreeAnalysts == {tech, macro, news}
Debaters == {bull, bear}
Chain == <<trader, boss>>
News == {news}
=============================================================================
