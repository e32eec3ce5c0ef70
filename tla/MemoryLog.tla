------------------------------ MODULE MemoryLog -----------------------------
(***************************************************************************)
(* The engine's decision log, src/engine/tradingagents/agents/utils/       *)
(* memory.py: one markdown file of entries, appended to at the end of a    *)
(* run and rewritten, by a temporary file and a rename, when outcomes are  *)
(* known.  An entry is its tag, [date, ticker, days]: days is 0 while the  *)
(* outcome is pending.  The rating, the returns and the prose are left out.*)
(***************************************************************************)
EXTENDS Integers, Sequences, FiniteSets, Subsequences

CONSTANTS
    MaxEntries      \* memory_log_max_entries: 0 when rotation is disabled

ASSUME MaxEntriesAssumption == MaxEntries \in Nat

VARIABLES
    log             \* the entries of the file, oldest first

IsPending(e) == e.days = 0
IsResolved(e) == ~IsPending(e)

Entries == {log[i] : i \in DOMAIN log}
PendingOf(ticker) == {e \in Entries : IsPending(e) /\ e.ticker = ticker}

(***************************************************************************)
(* A decision that is pending for this date and ticker is not stored a     *)
(* second time; one whose outcome is known does not stand in the way.      *)
(***************************************************************************)
HasPending(date, ticker) == \E e \in PendingOf(ticker) : e.date = date

\* Slip: a decision that is pending already is appended again.
StoreAgain(date, ticker) == log' = Append(log, [date |-> date, ticker |-> ticker, days |-> 0])

StoreDecision(date, ticker) ==
    log' = IF HasPending(date, ticker) THEN log
           ELSE Append(log, [date |-> date, ticker |-> ticker, days |-> 0])

(***************************************************************************)
(* Outcomes of several decisions on one ticker, applied in one rewrite of  *)
(* the file: each goes to the first pending entry of its date.  Then the   *)
(* oldest resolved entries go when there are more than MaxEntries.         *)
(***************************************************************************)
WithOutcomes(ticker, held) ==   \* held: trade date -> trading days held
    [i \in DOMAIN log |->
        IF /\ IsPending(log[i]) /\ log[i].ticker = ticker /\ log[i].date \in DOMAIN held
           /\ \A j \in 1..i - 1 : log[j] # log[i]
        THEN [log[i] EXCEPT !.days = held[log[i].date]] ELSE log[i]]

NumResolved(entries) == Cardinality({i \in DOMAIN entries : IsResolved(entries[i])})

\* Slip: the oldest entries go, whatever their state.
KeepNewest(entries) ==
    IF NumResolved(entries) <= MaxEntries THEN entries
    ELSE SubSeq(entries, 1 + NumResolved(entries) - MaxEntries, Len(entries))

ApplyRotation(entries) ==
    LET resolved == {i \in DOMAIN entries : IsResolved(entries[i])}
        to_drop == Cardinality(resolved) - MaxEntries
        kept == {i \in DOMAIN entries : i \in resolved => Rank(resolved, i) > to_drop}
    IN  IF MaxEntries = 0 \/ to_drop <= 0 THEN entries ELSE Items(entries, kept)

BatchUpdateWithOutcomes(ticker, held) ==
    log' = IF DOMAIN held = {} THEN log ELSE ApplyRotation(WithOutcomes(ticker, held))
=============================================================================
