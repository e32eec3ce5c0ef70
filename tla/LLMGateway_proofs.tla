------------------------- MODULE LLMGateway_proofs --------------------------
(***************************************************************************)
(* Proofs about LLMGateway, for any number of callers, any ceiling and any *)
(* price: its types, the bound on a day's recorded spend, the exhausted    *)
(* day that stays shut, and the refinement of Budget.                      *)
(***************************************************************************)
EXTENDS LLMGateway, FiniteSetTheorems, TLAPS

USE CallersAssumption, TieredAssumption, RunsAssumption, MoneyAssumption,
    DayAssumption

(* Every reachable state is well typed (the state complete() and the ledger    *)
(* keep, llm.py 213-264).                                                      *)
THEOREM TypeCorrect == Spec => []TypeOK
<1>1. Init => TypeOK
  BY DEF Init, TypeOK, Days, Outside
<1>2. TypeOK /\ [Next]_vars => TypeOK'
  <2> SUFFICES ASSUME TypeOK, [Next]_vars PROVE TypeOK'
    OBVIOUS
  <2> USE DEF TypeOK, Days, Outside
  <2>1. ASSUME NEW c \in Callers, Unknown(c) PROVE TypeOK'
    BY <2>1 DEF Unknown
  <2>2. ASSUME NEW c \in Callers, Enter(c) PROVE TypeOK'
    BY <2>2 DEF Enter
  <2>3. ASSUME NEW c \in Callers, Refuse(c) PROVE TypeOK'
    BY <2>3 DEF Refuse
  <2>4. ASSUME NEW c \in Callers, Admit(c) PROVE TypeOK'
    BY <2>4 DEF Admit
  <2>5. ASSUME NEW c \in Callers, ProviderFails(c) PROVE TypeOK'
    BY <2>5 DEF ProviderFails
  <2>6. ASSUME NEW c \in Callers, NEW price \in 0..MaxCost, Answer(c, price)
        PROVE TypeOK'
    BY <2>6 DEF Answer
  <2>7. ASSUME NEW c \in Callers, Record(c) PROVE TypeOK'
    <3>1. cost[c] \in Nat /\ stamp[c] \in Days /\ RunOf[c] \in Runs
      OBVIOUS
    <3>2. spent' \in [Days -> Nat] /\ runSpent' \in [Runs -> Nat]
      BY <2>7, <3>1 DEF Record
    <3>3. QED
      BY <2>7, <3>2 DEF Record
  <2>8. CASE Crash
    BY <2>8 DEF Crash
  <2>9. CASE Midnight
    BY <2>9 DEF Midnight
  <2>10. CASE UNCHANGED vars
    BY <2>10 DEF vars
  <2>11. QED
    BY <2>1, <2>2, <2>3, <2>4, <2>5, <2>6, <2>7, <2>8, <2>9, <2>10
    DEF Next, Call
<1>3. QED
  BY <1>1, <1>2, PTL DEF Spec

-----------------------------------------------------------------------------
(* The inductive invariant.                                                  *)

IInv == TypeOK /\ CommittedIsBounded

\* The share of the bound that day d may use: CommittedIsBounded's first part.
Fits(d) == spent[d] + Cardinality(Chargeable(d)) * MaxCost <= Bound

LEMMA MulMonotone ==
  ASSUME NEW a \in Nat, NEW b \in Nat, NEW k \in Nat, a <= b
  PROVE  a * k <= b * k /\ a * k \in Nat /\ b * k \in Nat
OBVIOUS

LEMMA MulPredecessor ==
  ASSUME NEW a \in Int, NEW k \in Nat
  PROVE  (a - 1) * k = a * k - k
OBVIOUS

\* Only registered callers hold a share, so there are at most N shares.
LEMMA ChargeableIsSmall ==
  ASSUME IInv, NEW d \in Days
  PROVE  /\ Chargeable(d) \subseteq Tiered
         /\ IsFiniteSet(Chargeable(d))
         /\ Cardinality(Chargeable(d)) \in Nat
         /\ N \in Nat
         /\ Cardinality(Chargeable(d)) <= N
<1>1. Chargeable(d) \subseteq Tiered
  BY DEF IInv, CommittedIsBounded, Chargeable, Outside
<1>2. IsFiniteSet(Tiered)
  BY FS_Subset
<1>3. QED
  BY <1>1, <1>2, FS_Subset, FS_CardinalityType DEF N

\* A day below its ceiling fits, whoever holds a share of it.
LEMMA BelowCeilingFits ==
  ASSUME NEW S, S \subseteq Tiered, NEW s \in Nat, s <= Ceiling - 1
  PROVE  s + Cardinality(S) * MaxCost <= Bound
<1>1. IsFiniteSet(Tiered)
  BY FS_Subset
<1>2. Cardinality(S) \in Nat /\ N \in Nat /\ Cardinality(S) <= N
  BY <1>1, FS_Subset, FS_CardinalityType DEF N
<1>3. Cardinality(S) * MaxCost <= N * MaxCost /\ N * MaxCost \in Nat
  /\ Cardinality(S) * MaxCost \in Nat
  BY <1>2, MulMonotone
<1>4. QED
  BY <1>3 DEF Bound

\* A day whose spend is the same and whose shares only went away still fits.
LEMMA FewerSharesFit ==
  ASSUME IInv, NEW d \in Days, NEW S, S \subseteq Chargeable(d)
  PROVE  spent[d] + Cardinality(S) * MaxCost <= Bound
<1>1. /\ Cardinality(S) \in Nat
      /\ Cardinality(Chargeable(d)) \in Nat
      /\ Cardinality(S) <= Cardinality(Chargeable(d))
  BY ChargeableIsSmall, FS_Subset, FS_CardinalityType
<1>2. Cardinality(S) * MaxCost <= Cardinality(Chargeable(d)) * MaxCost
      /\ Cardinality(S) * MaxCost \in Nat
      /\ Cardinality(Chargeable(d)) * MaxCost \in Nat
  BY <1>1, MulMonotone
<1>3. spent[d] + Cardinality(Chargeable(d)) * MaxCost <= Bound
  BY DEF IInv, CommittedIsBounded
<1>4. N * MaxCost \in Nat
  BY ChargeableIsSmall, MulMonotone
<1>5. QED
  BY <1>2, <1>3, <1>4 DEF IInv, TypeOK, Bound

(* Each step keeps the inductive invariant.  A step either only takes shares    *)
(* of a day away (answers, errors, crashes), or gives shares of a day whose      *)
(* total is below the ceiling (Admit after the check; Enter and Midnight of a    *)
(* day with no spend yet), or turns a share into spend (Record).                 *)
LEMMA StepKeepsIInv == IInv /\ TypeOK' /\ [Next]_vars => CommittedIsBounded'
<1> SUFFICES ASSUME IInv, TypeOK', [Next]_vars PROVE CommittedIsBounded'
  OBVIOUS
<1>1. /\ \A d \in Days : d > today => spent[d] = 0
      /\ \A c \in Callers : stamp[c] <= today
      /\ \A c \in Callers : pc[c] \notin Outside => c \in Tiered
      /\ TypeOK
  BY DEF IInv, CommittedIsBounded
<1>2. /\ \A d \in Days : d > today' => spent'[d] = 0
      /\ \A c \in Callers : stamp'[c] <= today'
      /\ \A c \in Callers : pc'[c] \notin Outside => c \in Tiered
  <2> USE <1>1 DEF TypeOK, Days, Outside
  <2>1. CASE \E c \in Callers : Unknown(c)
    BY <2>1 DEF Unknown
  <2>2. CASE \E c \in Callers : Enter(c)
    BY <2>2 DEF Enter
  <2>3. CASE \E c \in Callers : Refuse(c)
    BY <2>3 DEF Refuse
  <2>4. CASE \E c \in Callers : Admit(c)
    BY <2>4 DEF Admit
  <2>5. CASE \E c \in Callers : ProviderFails(c)
    BY <2>5 DEF ProviderFails
  <2>6. CASE \E c \in Callers, price \in 0..MaxCost : Answer(c, price)
    BY <2>6 DEF Answer
  <2>7. CASE \E c \in Callers : Record(c)
    <3> SUFFICES ASSUME NEW c \in Callers, Record(c)
                 PROVE  /\ \A d \in Days : d > today' => spent'[d] = 0
                        /\ \A k \in Callers : stamp'[k] <= today'
                        /\ \A k \in Callers : pc'[k] \notin Outside => k \in Tiered
      BY <2>7
    <3>1. stamp[c] <= today /\ today' = today
      BY DEF Record
    <3>2. \A d \in Days : d > today' => spent'[d] = 0
      BY <3>1 DEF Record
    <3>3. QED
      BY <3>2 DEF Record
  <2>8. CASE Crash
    BY <2>8 DEF Crash
  <2>9. CASE Midnight
    BY <2>9 DEF Midnight
  <2>10. CASE UNCHANGED vars
    BY <2>10 DEF vars
  <2>11. QED
    BY <2>1, <2>2, <2>3, <2>4, <2>5, <2>6, <2>7, <2>8, <2>9, <2>10
    DEF Next, Call
<1>3. ASSUME NEW d \in Days PROVE Fits(d)'
  <2>1. Chargeable(d)' \subseteq Callers
    BY DEF Chargeable
  <2>2. Chargeable(d)' \subseteq Tiered
    BY <1>2, <2>1 DEF Chargeable, Outside
  <2>3. ASSUME spent'[d] = spent[d], Chargeable(d)' \subseteq Chargeable(d)
        PROVE  Fits(d)'
    BY <2>3, FewerSharesFit DEF Fits, Bound
  <2>4. ASSUME spent'[d] = spent[d], spent[d] <= Ceiling - 1
        PROVE  Fits(d)'
    <3>1. spent[d] \in Nat
      BY <1>1 DEF TypeOK
    <3>2. spent[d] + Cardinality(Chargeable(d)') * MaxCost <= Bound
      BY <3>1, <2>2, <2>4, BelowCeilingFits
    <3>3. QED
      BY <3>2, <2>4 DEF Fits, Bound
  <2>5. CASE \E c \in Callers : Unknown(c)
    BY <1>1, <2>5, <2>3 DEF Unknown, Chargeable, TypeOK, Outside
  <2>6. CASE \E c \in Callers : Enter(c)
    <3> PICK c \in Callers : Enter(c)
      BY <2>6
    <3>1. CASE d > today
      BY <3>1, <1>1, <2>4 DEF Enter
    <3>2. CASE ~(d > today)
      BY <3>2, <1>1, <2>3 DEF Enter, Chargeable, TypeOK, Outside, Days
    <3>3. QED
      BY <3>1, <3>2
  <2>7. CASE \E c \in Callers : Refuse(c)
    BY <1>1, <2>7, <2>3 DEF Refuse, Chargeable, TypeOK, Outside
  <2>8. CASE \E c \in Callers : Admit(c)
    <3> PICK c \in Callers : Admit(c)
      BY <2>8
    <3>1. CASE stamp[c] = d
      BY <3>1, <1>1, <2>4 DEF Admit, Exhausted, TypeOK
    <3>2. CASE stamp[c] # d /\ d > today
      BY <3>2, <1>1, <2>4 DEF Admit
    <3>3. CASE stamp[c] # d /\ ~(d > today)
      BY <3>3, <1>1, <2>3 DEF Admit, Chargeable, TypeOK, Outside, Days
    <3>4. QED
      BY <3>1, <3>2, <3>3
  <2>9. CASE \E c \in Callers : ProviderFails(c)
    BY <1>1, <2>9, <2>3 DEF ProviderFails, Chargeable, TypeOK, Outside
  <2>10. CASE \E c \in Callers, price \in 0..MaxCost : Answer(c, price)
    BY <1>1, <2>10, <2>3 DEF Answer, Chargeable, TypeOK, Outside, Days
  <2>11. CASE \E c \in Callers : Record(c)
    <3> PICK c \in Callers : Record(c)
      BY <2>11
    <3>1. CASE stamp[c] # d
      BY <3>1, <1>1, <2>3 DEF Record, Chargeable, TypeOK, Outside
    <3>2. CASE stamp[c] = d
      <4>1. c \in Chargeable(d)
        BY <3>2 DEF Record, Chargeable
      <4>2. Chargeable(d)' = Chargeable(d) \ {c}
        BY <3>2, <1>1 DEF Record, Chargeable, TypeOK, Outside
      <4>3. /\ Cardinality(Chargeable(d)') = Cardinality(Chargeable(d)) - 1
            /\ Cardinality(Chargeable(d)) \in Nat
        <5>1. IsFiniteSet(Chargeable(d)) /\ Cardinality(Chargeable(d)) \in Nat
          BY ChargeableIsSmall
        <5>2. Cardinality(Chargeable(d) \ {c}) = Cardinality(Chargeable(d)) - 1
          BY ONLY <4>1, <5>1, FS_RemoveElement
        <5>3. QED
          BY ONLY <4>2, <5>1, <5>2
      <4>4. Cardinality(Chargeable(d)') * MaxCost
              = Cardinality(Chargeable(d)) * MaxCost - MaxCost
        BY <4>3, MulPredecessor
      <4>5. /\ spent'[d] = spent[d] + cost[c]
            /\ cost[c] \in 0..MaxCost
            /\ spent[d] \in Nat
        BY <3>2, <1>1 DEF Record, TypeOK
      <4>6. /\ Cardinality(Chargeable(d)) * MaxCost \in Nat
            /\ N * MaxCost \in Nat
        BY <4>3, ChargeableIsSmall, MulMonotone
      <4>7. spent[d] + Cardinality(Chargeable(d)) * MaxCost <= Bound
        BY DEF IInv, CommittedIsBounded
      <4>8. spent'[d] + Cardinality(Chargeable(d)') * MaxCost <= Bound
        BY <4>4, <4>5, <4>6, <4>7 DEF Bound
      <4>9. QED
        BY <4>8 DEF Fits, Bound
    <3>3. QED
      BY <3>1, <3>2
  <2>12. CASE Crash
    BY <1>1, <2>12, <2>3 DEF Crash, Chargeable, TypeOK, Outside
  <2>13. CASE Midnight
    <3>1. CASE d > today
      BY <3>1, <1>1, <2>13, <2>4 DEF Midnight
    <3>2. CASE ~(d > today)
      BY <3>2, <1>1, <2>13, <2>3 DEF Midnight, Chargeable, TypeOK, Days
    <3>3. QED
      BY <3>1, <3>2
  <2>14. CASE UNCHANGED vars
    BY <2>14, <2>3 DEF vars, Chargeable
  <2>15. QED
    BY <2>5, <2>6, <2>7, <2>8, <2>9, <2>10, <2>11, <2>12, <2>13, <2>14
    DEF Next, Call
<1>4. QED
  BY <1>2, <1>3 DEF CommittedIsBounded, Fits

(* The money that calls in flight can still charge to a day is always inside     *)
(* that day's bound (complete() between its check and its append).               *)
THEOREM CommittedSpendBounded == Spec => []CommittedIsBounded
<1>1. Init => CommittedIsBounded
  <2> SUFFICES ASSUME Init PROVE CommittedIsBounded
    OBVIOUS
  <2>1. \A d \in Days : Chargeable(d) = {}
    BY DEF Init, Chargeable
  <2>2. Cardinality({}) = 0
    BY FS_EmptySet
  <2>3. N * MaxCost \in Nat
    BY FS_Subset, FS_CardinalityType, MulMonotone DEF N
  <2>4. \A d \in Days : spent[d] + Cardinality(Chargeable(d)) * MaxCost <= Bound
    BY <2>1, <2>2, <2>3 DEF Init, Bound
  <2>5. QED
    BY <2>4 DEF Init, CommittedIsBounded, Outside
<1>2. TypeOK /\ TypeOK' /\ CommittedIsBounded /\ [Next]_vars => CommittedIsBounded'
  BY StepKeepsIInv DEF IInv
<1>3. QED
  BY <1>1, <1>2, TypeCorrect, PTL DEF Spec

LEMMA IInvBoundsSpend == IInv => SpendIsBounded
<1> SUFFICES ASSUME IInv, NEW d \in Days PROVE spent[d] <= Bound
  BY DEF SpendIsBounded
<1>1. Cardinality(Chargeable(d)) * MaxCost \in Nat
  BY ChargeableIsSmall, MulMonotone
<1>2. N * MaxCost \in Nat
  BY ChargeableIsSmall, MulMonotone
<1>3. spent[d] + Cardinality(Chargeable(d)) * MaxCost <= Bound
  BY DEF IInv, CommittedIsBounded
<1>4. QED
  BY <1>1, <1>2, <1>3 DEF IInv, TypeOK, Bound

(* A day's recorded spend passes the ceiling by less than one dearest call per   *)
(* registered caller, whatever the interleaving, the midnights and the crashes   *)
(* (llm.py _check_budget and complete).                                          *)
THEOREM SpendBounded == Spec => []SpendIsBounded
BY TypeCorrect, CommittedSpendBounded, IInvBoundsSpend, PTL DEF IInv

(* With one caller at a time the message of BudgetExceeded is right: a day is    *)
(* overshot by less than one call's cost (llm.py 194-199).                       *)
THEOREM SequentialOvershoot ==
  ASSUME Cardinality(Tiered) = 1
  PROVE  Spec => []OvershootByOneCall
<1>1. TypeOK /\ SpendIsBounded => OvershootByOneCall
  BY DEF TypeOK, SpendIsBounded, OvershootByOneCall, Bound, N
<1>2. QED
  BY <1>1, TypeCorrect, SpendBounded, PTL

-----------------------------------------------------------------------------
(* What a step may never do.                                                 *)

\* A recorded row only adds to its day's total, and every other step leaves the
\* totals alone.
LEMMA TotalsOnlyGrow ==
  ASSUME TypeOK, [Next]_vars
  PROVE  \/ spent' = spent
         \/ \E d \in Days, m \in 0..MaxCost :
               spent' = [spent EXCEPT ![d] = spent[d] + m]
<1>1. CASE \E c \in Callers : Record(c)
  BY <1>1 DEF Record, TypeOK
<1>2. CASE ~ \E c \in Callers : Record(c)
  BY <1>2 DEF Next, Call, vars, Unknown, Enter, Refuse, Admit, ProviderFails,
              Answer, Crash, Midnight
<1>3. QED
  BY <1>1, <1>2

LEMMA ShutDayStep ==
  ASSUME IInv, [Next]_vars, NEW d \in Days, Exhausted(d)
  PROVE  Exhausted(d)' /\ Chargeable(d)' \subseteq Chargeable(d)
<1>1. /\ TypeOK
      /\ \A e \in Days : e > today => spent[e] = 0
      /\ \A c \in Callers : stamp[c] <= today
  BY DEF IInv, CommittedIsBounded
<1>2. d <= today
  BY <1>1 DEF Exhausted, TypeOK, Days
<1>3. Exhausted(d)'
  BY <1>1, TotalsOnlyGrow DEF Exhausted, TypeOK
<1>4. Chargeable(d)' \subseteq Chargeable(d)
  <2> USE <1>1, <1>2 DEF Chargeable, TypeOK, Outside, Days
  <2>1. CASE \E c \in Callers : Unknown(c)
    BY <2>1 DEF Unknown
  <2>2. CASE \E c \in Callers : Enter(c)
    BY <2>2 DEF Enter
  <2>3. CASE \E c \in Callers : Refuse(c)
    BY <2>3 DEF Refuse
  <2>4. CASE \E c \in Callers : Admit(c)
    BY <2>4 DEF Admit, Exhausted
  <2>5. CASE \E c \in Callers : ProviderFails(c)
    BY <2>5 DEF ProviderFails
  <2>6. CASE \E c \in Callers, price \in 0..MaxCost : Answer(c, price)
    BY <2>6 DEF Answer
  <2>7. CASE \E c \in Callers : Record(c)
    BY <2>7 DEF Record
  <2>8. CASE Crash
    BY <2>8 DEF Crash
  <2>9. CASE Midnight
    BY <2>9 DEF Midnight
  <2>10. CASE UNCHANGED vars
    BY <2>10 DEF vars
  <2>11. QED
    BY <2>1, <2>2, <2>3, <2>4, <2>5, <2>6, <2>7, <2>8, <2>9, <2>10
    DEF Next, Call
<1>5. QED
  BY <1>3, <1>4

(* An exhausted day is never reopened, and only the calls already under way can  *)
(* still be charged to it ("hard-stops the cron", llm.py 80-87).                 *)
THEOREM ExhaustionIsFinal == Spec => ExhaustedDayStaysShut
<1>1. TypeOK /\ CommittedIsBounded /\ [Next]_vars
        => [\A d \in Days : Exhausted(d) =>
              /\ Exhausted(d)'
              /\ Chargeable(d)' \subseteq Chargeable(d)]_vars
  BY ShutDayStep DEF IInv
<1>2. QED
  BY <1>1, TypeCorrect, CommittedSpendBounded, PTL DEF Spec, ExhaustedDayStaysShut

(* The gateway over its ledger implements the abstract budget: totals only grow, *)
(* one day a step, and never past the bound (spend.py record and total_for_day). *)
THEOREM GatewayImplementsBudget == Spec => ImplementsBudget
<1>1. Init => B!Init
  BY DEF Init, B!Init
<1>2. TypeOK /\ SpendIsBounded' /\ [Next]_vars => [B!Next]_spent
  <2> SUFFICES ASSUME TypeOK, SpendIsBounded', [Next]_vars, spent' # spent
               PROVE  B!Next
    OBVIOUS
  <2>1. PICK d \in Days, m \in 0..MaxCost :
               spent' = [spent EXCEPT ![d] = spent[d] + m]
    BY TotalsOnlyGrow
  <2>2. spent'[d] = spent[d] + m /\ spent[d] \in Nat
    BY <2>1 DEF TypeOK
  <2>3. spent'[d] <= Bound
    BY DEF SpendIsBounded, Bound, N
  <2>4. Bound \in Int
    BY FS_Subset, FS_CardinalityType, MulMonotone DEF Bound, N
  <2>5. B!Charge(d)
    <3>1. spent'[d] \in Int /\ spent[d] <= spent'[d]
      BY <2>2
    <3>2. spent'[d] \in spent[d]..Bound
      BY <2>2, <2>3, <2>4, <3>1
    <3>3. spent' = [spent EXCEPT ![d] = spent'[d]]
      BY <2>1, <2>2
    <3>4. QED
      BY <3>2, <3>3 DEF B!Charge
  <2>6. QED
    BY <2>5 DEF B!Next
<1>3. QED
  BY <1>1, <1>2, TypeCorrect, SpendBounded, PTL DEF Spec, B!Spec, ImplementsBudget

=============================================================================
