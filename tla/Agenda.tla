-------------------------------- MODULE Agenda ------------------------------
(***************************************************************************)
(* What the debate graph promises: a meeting with an agenda.  The topic    *)
(* fixes who speaks and when: every analyst once, the researchers in       *)
(* turns, their manager, the trader, the risk team in turns, and the       *)
(* portfolio manager.  Nobody is skipped, nobody speaks out of turn.  A    *)
(* meeting that breaks up may be taken up again at the place its minutes   *)
(* say, or from the top.                                                   *)
(***************************************************************************)
EXTENDS Integers, Sequences

CONSTANTS
    Topics      \* <<ticker, date, <<analysts, debate rounds, risk rounds, asset>>>>

VARIABLES
    open,       \* is a meeting under way?
    topic,      \* what it is about
    pos,        \* how many have spoken
    last,       \* who spoke last
    minutes     \* by topic, the place a meeting about it had reached

agendaVars == <<open, topic, pos, last, minutes>>

AtLeastOne(n) == IF n = 0 THEN 1 ELSE n

Panel(t) == t[3][1]
Debate(t) == AtLeastOne(2 * t[3][2])
Discussion(t) == AtLeastOne(3 * t[3][3])

RiskTurns == <<"Aggressive", "Conservative", "Neutral">>

Agenda(t) ==
    Panel(t)
      \o [i \in 1..Debate(t) |-> IF i % 2 = 1 THEN "Bull" ELSE "Bear"]
      \o <<"ResearchManager", "Trader">>
      \o [i \in 1..Discussion(t) |-> RiskTurns[1 + ((i - 1) % 3)]]
      \o <<"PortfolioManager">>

Turn(t, p) == IF p = 0 THEN "nobody" ELSE Agenda(t)[p]

Forgotten(m) == \E T \in SUBSET DOMAIN m : minutes' = [t \in T |-> m[t]]

Minuted(t, p) ==
    \/ UNCHANGED minutes
    \/ minutes' = [x \in DOMAIN minutes \union {t} |-> IF x = t THEN p ELSE minutes[x]]

Open ==
    /\ ~open /\ open'
    /\ topic' \in Topics
    /\ pos' = 0 \/ (topic' \in DOMAIN minutes /\ pos' = minutes[topic'])
    /\ last' = Turn(topic', pos')
    /\ Minuted(topic', pos')

Speak ==
    /\ open
    /\ pos < Len(Agenda(topic))
    /\ pos' = pos + 1
    /\ last' = Turn(topic, pos + 1)
    /\ Minuted(topic, pos + 1)
    /\ UNCHANGED <<open, topic>>

Close ==
    /\ open /\ ~open'
    /\ pos' = 0 /\ last' = "nobody"
    /\ Forgotten(minutes)
    /\ UNCHANGED topic

Forget == ~open /\ Forgotten(minutes) /\ UNCHANGED <<open, topic, pos, last>>

Init ==
    /\ ~open /\ topic \in Topics /\ pos = 0 /\ last = "nobody"
    /\ minutes = [t \in {} |-> 0]

Next == Open \/ Speak \/ Close \/ Forget

Spec == Init /\ [][Next]_agendaVars
=============================================================================
