----------------------------- MODULE LLMGateway -----------------------------
(***************************************************************************)
(* The gateway every agent call goes through (src/desk/llm.py) and what it *)
(* writes to the spend ledger (src/desk/spend.py).                         *)
(*                                                                         *)
(* LLMGateway.complete reads the clock, then that day's total from the     *)
(* ledger, compares it with the daily ceiling, calls the provider, reads   *)
(* the clock again to stamp the row, and only then appends it.  No lock    *)
(* spans those steps, and the committee runs its seven analysts in         *)
(* parallel threads, so a step of another caller, or midnight, can fall    *)
(* between any two of them.                                                *)
(*                                                                         *)
(* Money is an integer number of micro-dollars: cost_usd is rounded to six *)
(* places before it is stored and so is every total.                       *)
(***************************************************************************)
EXTENDS Integers, FiniteSets

CONSTANTS
    Callers,    \* the threads that may be inside complete() at one time
    Runs,       \* run ids
    RunOf,      \* the run each caller works for
    Tiered,     \* the callers whose agent is registered in AGENT_TIERS
    Ceiling,    \* daily_ceiling_usd
    MaxCost,    \* the dearest single call the provider can bill
    LastDay     \* bound: the last UTC day of a behaviour

ASSUME CallersAssumption == IsFiniteSet(Callers)
ASSUME TieredAssumption == Tiered \subseteq Callers
ASSUME RunsAssumption == RunOf \in [Callers -> Runs]
ASSUME MoneyAssumption == Ceiling \in Nat \ {0} /\ MaxCost \in Nat
ASSUME DayAssumption == LastDay \in Nat

Days == 0..LastDay

VARIABLES
    today,      \* the UTC day the one clock shows
    spent,      \* total_for_day, for every day
    runSpent,   \* total_for_run, for every run
    pc,         \* where each caller is inside complete(), or how it left
    cost,       \* cost_usd of a call that is answered but not yet recorded
    stamp       \* the day each caller last read: to check, then for the row's `ts`

vars == <<today, spent, runSpent, pc, cost, stamp>>

\* A caller outside complete(): not called yet, answered, refused
\* (UnknownAgent, BudgetExceeded), or failed with the provider's error.
Outside == {"idle", "completed", "refused", "failed"}

TypeOK ==
    /\ today \in Days
    /\ spent \in [Days -> Nat]
    /\ runSpent \in [Runs -> Nat]
    /\ pc \in [Callers -> Outside \union {"checking", "calling", "answered"}]
    /\ cost \in [Callers -> 0..MaxCost]
    /\ stamp \in [Callers -> Days]

Init ==
    /\ today = 0
    /\ spent = [d \in Days |-> 0]
    /\ runSpent = [r \in Runs |-> 0]
    /\ pc = [c \in Callers |-> "idle"]
    /\ cost = [c \in Callers |-> 0]
    /\ stamp = [c \in Callers |-> 0]

-----------------------------------------------------------------------------
(* complete(), from the tier lookup to the append.                         *)

\* Slip: the ceiling is compared with > instead of >=.
ExhaustedPast(d) == spent[d] > Ceiling

\* _check_budget: the day's total has reached the ceiling.
Exhausted(d) == spent[d] >= Ceiling

\* model_for raises UnknownAgent: the agent has no tier.
Unknown(c) ==
    /\ pc[c] \in Outside
    /\ c \notin Tiered
    /\ pc' = [pc EXCEPT ![c] = "refused"]
    /\ UNCHANGED <<today, spent, runSpent, cost, stamp>>

\* model_for succeeds and spent_today reads the clock.
Enter(c) ==
    /\ pc[c] \in Outside
    /\ c \in Tiered
    /\ pc' = [pc EXCEPT ![c] = "checking"]
    /\ stamp' = [stamp EXCEPT ![c] = today]
    /\ UNCHANGED <<today, spent, runSpent, cost>>

\* That day's total, read from the ledger now, has reached the ceiling:
\* BudgetExceeded.
Refuse(c) ==
    /\ pc[c] = "checking"
    /\ Exhausted(stamp[c])
    /\ pc' = [pc EXCEPT ![c] = "refused"]
    /\ stamp' = [stamp EXCEPT ![c] = 0]
    /\ UNCHANGED <<today, spent, runSpent, cost>>

\* Slip: the provider is called without the comparison.
AdmitUnchecked(c) ==
    /\ pc[c] = "checking"
    /\ pc' = [pc EXCEPT ![c] = "calling"]
    /\ stamp' = [stamp EXCEPT ![c] = 0]
    /\ UNCHANGED <<today, spent, runSpent, cost>>

\* It has not: the provider call starts.
Admit(c) ==
    /\ pc[c] = "checking"
    /\ ~Exhausted(stamp[c])
    /\ pc' = [pc EXCEPT ![c] = "calling"]
    /\ stamp' = [stamp EXCEPT ![c] = 0]
    /\ UNCHANGED <<today, spent, runSpent, cost>>

\* The provider raises: complete() propagates it and writes no row.
ProviderFails(c) ==
    /\ pc[c] = "calling"
    /\ pc' = [pc EXCEPT ![c] = "failed"]
    /\ UNCHANGED <<today, spent, runSpent, cost, stamp>>

\* The provider answers and the row is built: priced (0 when _cost_of cannot
\* price the answer) and stamped with the day the clock shows NOW.
Answer(c, price) ==
    /\ pc[c] = "calling"
    /\ pc' = [pc EXCEPT ![c] = "answered"]
    /\ cost' = [cost EXCEPT ![c] = price]
    /\ stamp' = [stamp EXCEPT ![c] = today]
    /\ UNCHANGED <<today, spent, runSpent>>

\* Slip: the ledger is opened with "w", so a row replaces what the day had.
RecordTruncating(c) ==
    /\ pc[c] = "answered"
    /\ spent' = [spent EXCEPT ![stamp[c]] = cost[c]]
    /\ runSpent' = [runSpent EXCEPT ![RunOf[c]] = cost[c]]
    /\ pc' = [pc EXCEPT ![c] = "completed"]
    /\ cost' = [cost EXCEPT ![c] = 0]
    /\ stamp' = [stamp EXCEPT ![c] = 0]
    /\ UNCHANGED today

\* The row is appended, then the content is handed back.
Record(c) ==
    /\ pc[c] = "answered"
    /\ spent' = [spent EXCEPT ![stamp[c]] = @ + cost[c]]
    /\ runSpent' = [runSpent EXCEPT ![RunOf[c]] = @ + cost[c]]
    /\ pc' = [pc EXCEPT ![c] = "completed"]
    /\ cost' = [cost EXCEPT ![c] = 0]
    /\ stamp' = [stamp EXCEPT ![c] = 0]
    /\ UNCHANGED today

\* The process dies: every call in flight is gone, and no row was written.
Crash ==
    /\ pc' = [c \in Callers |-> "idle"]
    /\ cost' = [c \in Callers |-> 0]
    /\ stamp' = [c \in Callers |-> 0]
    /\ UNCHANGED <<today, spent, runSpent>>

Midnight ==
    /\ today < LastDay
    /\ today' = today + 1
    /\ UNCHANGED <<spent, runSpent, pc, cost, stamp>>

Call(c) ==
    \/ Unknown(c)
    \/ Enter(c)
    \/ Refuse(c)
    \/ Admit(c)
    \/ ProviderFails(c)
    \/ \E price \in 0..MaxCost : Answer(c, price)
    \/ Record(c)

Next ==
    \/ \E c \in Callers : Call(c)
    \/ Crash
    \/ Midnight

Spec == Init /\ [][Next]_vars

-----------------------------------------------------------------------------
(* What holds of the ceiling.                                              *)

\* How many calls can be in flight at once: one per registered caller.
N == Cardinality(Tiered)

\* The most a day can cost: every caller passed the check one micro-dollar
\* short of the ceiling and each is billed the dearest call.
Bound == (Ceiling - 1) + N * MaxCost

\* The calls that may still be charged to day d without a look at its total:
\* those stamped with it, and, while d is today or later, those the provider has
\* not answered and those being checked against an earlier day.
Chargeable(d) ==
    {c \in Callers : \/ pc[c] = "answered" /\ stamp[c] = d
                     \/ pc[c] = "calling" /\ d >= today
                     \/ pc[c] = "checking" /\ stamp[c] < d /\ d >= today}

\* No day's recorded spend passes the ceiling by more than what the calls in
\* flight can add, although the check and the append are separate steps, calls
\* run in parallel, and a call admitted before midnight is charged to the next
\* day (llm.py complete / _check_budget).
SpendIsBounded == \A d \in Days : spent[d] <= Bound

\* The strengthening that makes SpendIsBounded inductive: the money that calls in
\* flight can still charge to a day is already inside that day's bound, and a
\* day that has not come has no spend (llm.py 213-264).
CommittedIsBounded ==
    /\ \A d \in Days : spent[d] + Cardinality(Chargeable(d)) * MaxCost <= Bound
    /\ \A d \in Days : d > today => spent[d] = 0
    /\ \A c \in Callers : stamp[c] <= today
    /\ \A c \in Callers : pc[c] \notin Outside => c \in Tiered

\* Once a day is exhausted it stays so, and the calls that can still be charged
\* to it only become fewer: whatever the callers and the clock do, it is passed
\* only by calls that were under way when it was reached (BudgetExceeded,
\* llm.py 80-87, "hard-stops the cron").
ExhaustedDayStaysShut ==
    [][\A d \in Days : Exhausted(d) =>
          /\ Exhausted(d)'
          /\ Chargeable(d)' \subseteq Chargeable(d)]_vars

\* What the BudgetExceeded message says: "the last call may overshoot it by one
\* call's cost; it cannot overshoot repeatedly".
OvershootByOneCall == \A d \in Days : spent[d] < Ceiling + MaxCost

\* The ledger totals, seen as the abstract budget, only ever grow, one day per
\* step, and never past Bound: the gateway implements Budget (llm.py complete,
\* spend.py record).
B == INSTANCE Budget

ImplementsBudget == B!Spec

=============================================================================
