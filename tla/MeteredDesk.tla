----------------------------- MODULE MeteredDesk ----------------------------
(***************************************************************************)
(* The gateway working on a real ledger file: LLMGateway's callers append  *)
(* the cells of SpendFile, every total is read back from the file, and a   *)
(* crash may leave a fragment behind (src/desk/llm.py over                 *)
(* src/desk/spend.py).  `billed` is what the provider's invoice says, which *)
(* the code never sees: it is here to ask how far the ledger may drift from *)
(* it.                                                                     *)
(***************************************************************************)
EXTENDS SpendFile, FiniteSets

CONSTANTS
    Callers, Runs, RunOf, Tiered, Ceiling, MaxCost, LastDay,  \* as in LLMGateway
    MaxTorn,        \* bound: deaths that leave a fragment in the file
    MaxUnpriced     \* bound: answers that litellm cannot price

ASSUME CallersAssumption ==
    IsFiniteSet(Callers) /\ Tiered \subseteq Callers /\ RunOf \in [Callers -> Runs]
ASSUME MoneyAssumption == Ceiling \in Nat \ {0} /\ MaxCost \in Nat
ASSUME BoundsAssumption == {LastDay, MaxTorn, MaxUnpriced} \subseteq Nat

VARIABLES
    today, pc, cost, stamp,     \* as in LLMGateway
    billed,                     \* what the provider charged, by day
    torn, unpriced              \* how often each failure has happened

vars == <<today, pc, cost, stamp, file, billed, crashes, torn, unpriced>>

G == INSTANCE LLMGateway WITH
        spent    <- [d \in 0..LastDay |-> total_for_day(file, d)],
        runSpent <- [r \in Runs |-> total_for_run(file, r)]

\* Slip: the row is stamped when it is appended.
RowOfToday(c) == [run |-> RunOf[c], day |-> today, cost |-> cost[c]]

RowOf(c) == [run |-> RunOf[c], day |-> stamp[c], cost |-> cost[c]]

Init ==
    /\ file = <<>>
    /\ G!Init
    /\ billed = [d \in G!Days |-> 0]
    /\ crashes = 0
    /\ torn = 0
    /\ unpriced = 0

\* The steps of complete() that only read the ledger.
BeforeAnswer(c) ==
    /\ UNCHANGED <<file, billed, crashes, torn, unpriced>>
    /\ \/ G!Unknown(c)
       \/ G!Enter(c)
       \/ G!Refuse(c)
       \/ G!Admit(c)
       \/ G!ProviderFails(c)

\* The provider answers and bills `price`; the row carries it, or 0 when
\* completion_cost raises.
Answer(c, price) ==
    /\ UNCHANGED <<file, crashes, torn>>
    /\ billed' = [billed EXCEPT ![today] = @ + price]
    /\ \/ G!Answer(c, price) /\ UNCHANGED unpriced
       \/ /\ unpriced < MaxUnpriced
          /\ G!Answer(c, 0)
          /\ unpriced' = unpriced + 1

\* The row is appended to whatever the file ends with.
Record(c) ==
    /\ pc[c] = "answered"
    /\ file' = file \o Line(RowOf(c))
    /\ pc' = [pc EXCEPT ![c] = "completed"]
    /\ cost' = [cost EXCEPT ![c] = 0]
    /\ stamp' = [stamp EXCEPT ![c] = 0]
    /\ UNCHANGED <<today, billed, crashes, torn, unpriced>>

\* The process dies with all its threads; at most one was inside the append.
Crash ==
    /\ crashes < MaxCrashes
    /\ crashes' = crashes + 1
    /\ \/ UNCHANGED <<file, torn>>
       \/ /\ torn < MaxTorn
          /\ torn' = torn + 1
          /\ \E c \in Callers :
                /\ pc[c] = "answered"
                /\ \E fragment \in Fragments(RowOf(c)) : file' = file \o fragment
    /\ pc' = [c \in Callers |-> "idle"]
    /\ cost' = [c \in Callers |-> 0]
    /\ stamp' = [c \in Callers |-> 0]
    /\ UNCHANGED <<today, billed, unpriced>>

Midnight ==
    /\ UNCHANGED <<file, billed, crashes, torn, unpriced>>
    /\ G!Midnight

Next ==
    \/ \E c \in Callers :
          \/ BeforeAnswer(c)
          \/ \E price \in 1..MaxCost : Answer(c, price)
          \/ Record(c)
    \/ Crash
    \/ Midnight

Spec == Init /\ [][Next]_vars

-----------------------------------------------------------------------------

\* As long as no append was torn, reading the totals back from the file gives
\* exactly the gateway's behaviour, through crashes and unpriced answers too: every
\* step is one of LLMGateway or leaves its variables alone (spend.py
\* total_for_day, total_for_run under llm.py complete).
ImplementsGateway == G!Init /\ [][torn' = 0 => [G!Next]_(G!vars)]_vars

\* The provider's invoice for a day passes the gateway's bound by no more than
\* the failures explain: a crash loses the rows of the calls in flight and
\* spoils one later append, an unpriced answer is recorded as 0
\* (llm.py 256-288, spend.py 78-102).
InvoiceIsBounded ==
    \A d \in G!Days :
        billed[d] <= G!Bound + MaxCost * (crashes * G!N + torn + unpriced)

\* The ledger never claims more for a day than the provider billed for it.
LedgerNeverOverstates == \A d \in G!Days : total_for_day(file, d) <= billed[d]
=============================================================================
