-------------------------- MODULE MarketData_proofs -------------------------
(***************************************************************************)
(* Proofs about reading market data.  The invariant follows an answer from *)
(* the provider to the cache and from the cache to a reader: how old it    *)
(* may be at each place, and that the reader's day was found live.         *)
(***************************************************************************)
EXTENDS MarketData, TLAPS

IsWork(w) == DOMAIN w = {"as_of", "method", "index", "first_error", "answer"} /\ w.as_of \in Int

Typed ==
    /\ now \in Nat
    /\ DOMAIN pc = Readers /\ DOMAIN result = Readers /\ DOMAIN work = Readers
    /\ \A r \in Readers : IsWork(work[r])

\* What the memo says is live was found live, and so was the day of every read
\* of the metric that has passed the guard.
Guarded ==
    /\ \A d \in DOMAIN _liveness : _liveness[d] => d \in held
    /\ \A r \in Readers : pc[r] = "guarding" => work[r].method = "is_live"
    /\ \A r \in Readers : pc[r] = "checking" => work[r].as_of \in DOMAIN _liveness
    /\ \A r \in Readers :
          pc[r] \in {"looking", "asking", "storing"} /\ work[r].method # "is_live" => work[r].as_of \in held

LiveInv == Typed /\ Guarded /\ OnlyLiveTickersAreQuoted

-----------------------------------------------------------------------------

LEMMA NewReadIs ==
    ASSUME NEW as_of \in Int, NEW method
    PROVE  LET w == NewRead(as_of, method) IN
           IsWork(w) /\ w.as_of = as_of /\ w.method = method
BY DEF NewRead, IsWork

LEMMA GotoFits ==
    ASSUME Typed, NEW r \in Readers, NEW place, NEW w,
           IsWork(w),
           Goto(r, place, w)
    PROVE  /\ DOMAIN pc' = Readers /\ DOMAIN work' = Readers
           /\ \A q \in Readers : IsWork(work'[q])
           /\ pc'[r] = place /\ work'[r] = w
           /\ \A q \in Readers : q # r => pc'[q] = pc[q] /\ work'[q] = work[q]
BY DEF Typed, Goto

LEMMA FailFits ==
    ASSUME LiveInv, NEW r \in Readers, NEW kind, kind # "value", NEW source, Fail(r, kind, source),
           UNCHANGED <<now, _liveness, held>>
    PROVE  LiveInv'
<1>1. Goto(r, "idle", NewRead(0, Metric))
    BY DEF Fail
<1>2. /\ DOMAIN result' = Readers /\ result'[r].kind = kind
      /\ \A q \in Readers : q # r => result'[q] = result[q]
    BY DEF Fail, LiveInv, Typed, NoResult
<1>3. Typed'
    BY <1>1, <1>2, GotoFits, NewReadIs DEF LiveInv, Typed
<1>4. Guarded'
    BY <1>1, GotoFits, NewReadIs DEF LiveInv, Guarded
<1>5. OnlyLiveTickersAreQuoted'
    BY <1>2 DEF LiveInv, OnlyLiveTickersAreQuoted, Got
<1> QED BY <1>3, <1>4, <1>5 DEF LiveInv

LEMMA DeliverFits ==
    ASSUME LiveInv, NEW r \in Readers, pc[r] \in {"looking", "asking", "storing"},
           NEW answer, NEW degraded, Deliver(r, answer, degraded), now' = now
    PROVE  LiveInv'
<1>1. CASE work[r].method = "is_live"
    <2>1. /\ _liveness' = [d \in DOMAIN _liveness \union {work[r].as_of} |->
                             IF d = work[r].as_of THEN answer.live ELSE _liveness[d]]
          /\ held' = IF answer.live THEN held \union {work[r].as_of} ELSE held
          /\ Goto(r, "checking", work[r])
          /\ UNCHANGED result
        BY <1>1 DEF Deliver
    <2>2. Typed'
        BY <2>1, GotoFits DEF LiveInv, Typed
    <2>3. Guarded'
        <3>1. ASSUME NEW d \in DOMAIN _liveness', _liveness'[d]
              PROVE  d \in held'
            BY <2>1, <3>1 DEF LiveInv, Guarded
        <3>2. ASSUME NEW q \in Readers, pc'[q] \in {"looking", "asking", "storing"}, work'[q].method # "is_live"
              PROVE  work'[q].as_of \in held'
            BY <2>1, <3>2, GotoFits DEF LiveInv, Typed, Guarded
        <3>3. ASSUME NEW q \in Readers, pc'[q] = "checking"
              PROVE  work'[q].as_of \in DOMAIN _liveness'
            BY <2>1, <3>3, GotoFits DEF LiveInv, Typed, Guarded
        <3>4. ASSUME NEW q \in Readers, pc'[q] = "guarding"
              PROVE  work'[q].method = "is_live"
            BY <2>1, <3>4, GotoFits DEF LiveInv, Typed, Guarded
        <3> QED BY <3>1, <3>2, <3>3, <3>4 DEF Guarded
    <2>4. OnlyLiveTickersAreQuoted'
        BY <2>1 DEF LiveInv, OnlyLiveTickersAreQuoted, Got
    <2> QED BY <2>2, <2>3, <2>4 DEF LiveInv
<1>2. CASE work[r].method # "is_live"
    <2>1. /\ Goto(r, "idle", NewRead(0, Metric))
          /\ UNCHANGED <<_liveness, held>>
          /\ result' = [result EXCEPT ![r] =
                          [kind |-> "value", method |-> Metric, as_of |-> work[r].as_of,
                           source |-> answer.source, degraded |-> degraded,
                           seen |-> answer.seen, at |-> now]]
        BY <1>2 DEF Deliver
    <2>2. Typed'
        BY <2>1, GotoFits, NewReadIs DEF LiveInv, Typed
    <2>3. Guarded'
        BY <2>1, GotoFits, NewReadIs DEF LiveInv, Guarded
    <2>4. OnlyLiveTickersAreQuoted'
        BY <1>2, <2>1 DEF LiveInv, Typed, Guarded, OnlyLiveTickersAreQuoted, Got
    <2> QED BY <2>2, <2>3, <2>4 DEF LiveInv
<1> QED BY <1>1, <1>2

\* A step that only moves one thread, to where its read still fits.
LEMMA MoveFits ==
    ASSUME LiveInv, NEW r \in Readers, NEW place, NEW w,
           IsWork(w),
           Goto(r, place, w),
           place \in {"looking", "asking", "storing"} /\ w.method # "is_live" => w.as_of \in held,
           place = "checking" => w.as_of \in DOMAIN _liveness,
           place = "guarding" => w.method = "is_live",
           UNCHANGED <<now, _liveness, held>>,
           result' = result \/ (DOMAIN result' = Readers /\ result'[r].kind # "value"
                                /\ \A q \in Readers : q # r => result'[q] = result[q])
    PROVE  LiveInv'
<1>1. Typed'
    BY GotoFits DEF LiveInv, Typed
<1>2. Guarded'
    BY GotoFits DEF LiveInv, Guarded
<1>3. OnlyLiveTickersAreQuoted'
    BY DEF LiveInv, OnlyLiveTickersAreQuoted, Got
<1> QED BY <1>1, <1>2, <1>3 DEF LiveInv

LEMMA WorkIs ==
    ASSUME Typed, NEW r \in Readers
    PROVE  IsWork(work[r])
BY DEF Typed

LEMMA StepKeepsLive ==
    ASSUME LiveInv, NEW r \in Readers, Step(r)
    PROVE  LiveInv'
<1>1. CASE \E as_of \in Days : Read(r, as_of) \/ LookAhead(r, as_of)
    <2>1. PICK as_of \in Days : Read(r, as_of) \/ LookAhead(r, as_of)
        BY <1>1
    <2>2. as_of \in Int
        BY DEF Days
    <2>3. CASE Read(r, as_of)
        <3>1. Goto(r, "guarding", NewRead(as_of, "is_live"))
            BY <2>3 DEF Read
        <3>2. DOMAIN result' = Readers /\ result'[r].kind # "value"
              /\ \A q \in Readers : q # r => result'[q] = result[q]
            BY <2>3 DEF Read, LiveInv, Typed, NoResult
        <3> QED BY <2>2, <2>3, <3>1, <3>2, NewReadIs, MoveFits DEF Read
    <2>4. CASE LookAhead(r, as_of)
        <3>1. result' = [result EXCEPT ![r] = [NoResult EXCEPT !.kind = "LookAheadError"]]
            BY <2>4 DEF LookAhead
        <3>2. [NoResult EXCEPT !.kind = "LookAheadError"].kind # "value"
            BY DEF NoResult
        <3> QED BY <2>4, <3>1, <3>2 DEF LookAhead, LiveInv, Typed, Guarded, OnlyLiveTickersAreQuoted, Got
    <2> QED BY <2>1, <2>3, <2>4
<1>2. CASE Resolve(r)
    <2>1. IsWork(work[r])
        BY WorkIs DEF LiveInv
    <2>2. CASE work[r].as_of \in DOMAIN _liveness
        <3>1. Goto(r, "checking", work[r])
            BY <1>2, <2>2 DEF Resolve
        <3> QED BY <1>2, <2>1, <2>2, <3>1, MoveFits DEF Resolve
    <2>3. CASE work[r].as_of \notin DOMAIN _liveness
        <3>1. Goto(r, "looking", work[r]) /\ work[r].method = "is_live"
            BY <1>2, <2>3 DEF Resolve, LiveInv, Guarded
        <3> QED BY <1>2, <2>1, <3>1, MoveFits DEF Resolve
    <2> QED BY <2>2, <2>3
<1>3. CASE CheckLive(r)
    <2>1. IsWork(work[r]) /\ work[r].as_of \in Int
        BY WorkIs DEF LiveInv, IsWork
    <2>2. CASE _liveness[work[r].as_of]
        <3>1. Goto(r, "looking", NewRead(work[r].as_of, Metric)) /\ UNCHANGED <<now, _liveness, held, result>>
            BY <1>3, <2>2 DEF CheckLive
        <3>2. work[r].as_of \in held
            BY <1>3, <2>2 DEF CheckLive, LiveInv, Guarded
        <3> QED BY <2>1, <3>1, <3>2, NewReadIs, MoveFits
    <2>3. CASE ~_liveness[work[r].as_of]
        BY <1>3, <2>3, FailFits DEF CheckLive
    <2> QED BY <2>2, <2>3
<1>4. CASE LookUp(r)
    <2>1. pc[r] = "looking" /\ now' = now
        BY <1>4 DEF LookUp
    <2>2. \/ Fail(r, "NoProvider", None) /\ UNCHANGED <<_liveness, held>>
          \/ Deliver(r, cache[<<work[r].method, work[r].as_of>>].answer, FALSE)
          \/ Goto(r, "asking", work[r]) /\ UNCHANGED <<_liveness, result, held>>
        BY <1>4 DEF LookUp
    <2>3. CASE Fail(r, "NoProvider", None) /\ UNCHANGED <<_liveness, held>>
        BY <2>1, <2>3, FailFits
    <2>4. CASE Deliver(r, cache[<<work[r].method, work[r].as_of>>].answer, FALSE)
        BY <2>1, <2>4, DeliverFits
    <2>5. CASE Goto(r, "asking", work[r]) /\ UNCHANGED <<_liveness, result, held>>
        BY <2>1, <2>5, MoveFits, WorkIs DEF LiveInv, Guarded
    <2> QED BY <2>2, <2>3, <2>4, <2>5
<1>5. CASE \E live \in BOOLEAN : Answer(r, live)
    <2>1. PICK live \in BOOLEAN : Answer(r, live)
        BY <1>5
    <2> DEFINE answer == [live |-> live, source |-> Asked(r), seen |-> now]
               w == [work[r] EXCEPT !.answer = answer]
    <2>2. pc[r] = "asking" /\ now' = now
        BY <2>1 DEF Answer
    <2>3. CASE work[r].index = 1
        <3>1. Goto(r, "storing", w) /\ UNCHANGED <<_liveness, result, held>>
            BY <2>1, <2>3 DEF Answer
        <3>2. IsWork(w) /\ w.method = work[r].method /\ w.as_of = work[r].as_of
            BY WorkIs DEF LiveInv, IsWork
        <3> HIDE DEF w
        <3> QED BY <2>2, <3>1, <3>2, MoveFits DEF LiveInv, Guarded
    <2>4. CASE work[r].index # 1
        <3>1. Deliver(r, answer, TRUE)
            BY <2>1, <2>4 DEF Answer
        <3> QED BY <2>2, <3>1, DeliverFits
    <2> QED BY <2>3, <2>4
<1>6. CASE ProviderFails(r)
    <2> DEFINE first == IF work[r].first_error = None THEN Asked(r) ELSE work[r].first_error
               w == [work[r] EXCEPT !.index = @ + 1, !.first_error = first]
    <2>1. pc[r] = "asking" /\ UNCHANGED <<now, _liveness, held>>
        BY <1>6 DEF ProviderFails
    <2>2. (Goto(r, "asking", w) /\ UNCHANGED result) \/ Fail(r, "failed", first)
        BY <1>6 DEF ProviderFails
    <2>3. IsWork(w) /\ w.method = work[r].method /\ w.as_of = work[r].as_of
        BY WorkIs DEF LiveInv, IsWork
    <2> HIDE DEF w, first
    <2>4. Goto(r, "asking", w) /\ UNCHANGED result => LiveInv'
        BY <2>1, <2>3, MoveFits DEF LiveInv, Guarded
    <2>5. Fail(r, "failed", first) => LiveInv'
        BY <2>1, FailFits
    <2> QED BY <2>2, <2>4, <2>5
<1>7. CASE Store(r)
    BY <1>7, DeliverFits DEF Store
<1> QED BY <1>1, <1>2, <1>3, <1>4, <1>5, <1>6, <1>7 DEF Step

\* Every read has passed the guard before it sees the metric (data.py 115-140).
THEOREM ReadsAreGuarded == Spec => []LiveInv
<1>1. Init => LiveInv
    <2>1. Init => Typed
        BY NewReadIs DEF Init, Typed
    <2>2. Init => Guarded
        BY DEF Init, Guarded, NoEntries
    <2>3. Init => OnlyLiveTickersAreQuoted
        BY DEF Init, OnlyLiveTickersAreQuoted, Got, NoResult
    <2> QED BY <2>1, <2>2, <2>3 DEF LiveInv
<1>2. LiveInv /\ [Next]_vars => LiveInv'
    <2> SUFFICES ASSUME LiveInv, [Next]_vars
                 PROVE  LiveInv'
        OBVIOUS
    <2>1. CASE \E r \in Readers : Step(r)
        BY <2>1, StepKeepsLive
    <2>2. CASE Restart
        <3>1. Typed'
            BY <2>2, NewReadIs DEF Restart, LiveInv, Typed
        <3>2. Guarded'
            BY <2>2 DEF Restart, Guarded, NoEntries
        <3>3. OnlyLiveTickersAreQuoted'
            BY <2>2 DEF Restart, OnlyLiveTickersAreQuoted, Got, NoResult
        <3> QED BY <3>1, <3>2, <3>3 DEF LiveInv
    <2>3. CASE Tick
        BY <2>3 DEF Tick, LiveInv, Typed, Guarded, OnlyLiveTickersAreQuoted, Got
    <2>4. CASE UNCHANGED vars
        BY <2>4 DEF vars, LiveInv, Typed, Guarded, OnlyLiveTickersAreQuoted, Got
    <2> QED BY <2>1, <2>2, <2>3, <2>4 DEF Next
<1> QED BY <1>1, <1>2, PTL DEF Spec

\* No value for a day the process has not found the ticker live on, for any
\* readers, providers and times to live (data.py 33-37).
THEOREM OnlyLiveTickersAreEverQuoted == Spec => []OnlyLiveTickersAreQuoted
<1>1. LiveInv => OnlyLiveTickersAreQuoted
    BY DEF LiveInv
<1> QED BY <1>1, ReadsAreGuarded, PTL

-----------------------------------------------------------------------------
(* How old an answer may be, for whatever delay before it is stored: what was *)
(* stored while its day lasted expires within the short time to live.         *)

Young(seen, at, as_of) ==
    /\ at - seen < HISTORICAL_TTL + MaxDelay
    /\ Day(seen + MaxDelay) <= as_of => at - seen < TODAY_TTL + MaxDelay

EntryFits(entry, as_of) ==
    /\ entry.answer.seen \in Int /\ entry.expires_at \in Int
    /\ entry.expires_at - entry.answer.seen <= HISTORICAL_TTL + MaxDelay
    /\ Day(entry.answer.seen + MaxDelay) <= as_of =>
          entry.expires_at - entry.answer.seen <= TODAY_TTL + MaxDelay

CacheFits == \A k \in DOMAIN cache : EntryFits(cache[k], k[2])

\* An answer on its way to the cache.
Waits(w) == w.answer.seen \in Nat /\ w.answer.seen <= now /\ now - w.answer.seen <= MaxDelay

AgesFit ==
    /\ CacheFits
    /\ \A r \in Readers : pc[r] = "storing" => Waits(work[r])
    /\ \A r \in Readers : Got(r) => Young(result[r].seen, result[r].at, result[r].as_of)

\* An earlier tick is not of a later day.
LEMMA DaysPass ==
    ASSUME NEW a \in Nat, NEW b \in Nat, a <= b
    PROVE  Day(a) \in Int /\ Day(b) \in Int /\ Day(a) <= Day(b)
<1>1. DayLength \in Nat /\ DayLength > 0
    BY ClockAssumption
<1> QED BY <1>1 DEF Day

\* A thread that moves on without storing, and fails or says nothing.
LEMMA MoveKeepsAges ==
    ASSUME LiveInv, AgesFit, NEW r \in Readers, NEW place, NEW w, Goto(r, place, w),
           place = "storing" => Waits(w),
           UNCHANGED <<now, cache>>,
           result' = result \/ (result'[r].kind # "value" /\ \A q \in Readers : q # r => result'[q] = result[q])
    PROVE  AgesFit'
<1>1. ASSUME NEW q \in Readers, pc'[q] = "storing"
      PROVE  Waits(work'[q])
    <2>1. CASE q = r
        BY <1>1, <2>1 DEF Goto, LiveInv, Typed
    <2>2. CASE q # r
        BY <1>1, <2>2 DEF Goto, LiveInv, Typed, AgesFit
    <2> QED BY <2>1, <2>2
<1>2. ASSUME NEW q \in Readers, Got(q)'
      PROVE  Young(result'[q].seen, result'[q].at, result'[q].as_of)
    BY <1>2 DEF AgesFit, Got
<1> QED BY <1>1, <1>2 DEF AgesFit, CacheFits, EntryFits, Waits, Young, Day

LEMMA FailKeepsAges ==
    ASSUME LiveInv, AgesFit, NEW r \in Readers, NEW kind, kind # "value", NEW source, Fail(r, kind, source),
           UNCHANGED <<now, cache>>
    PROVE  AgesFit'
<1>1. result'[r].kind = kind /\ \A q \in Readers : q # r => result'[q] = result[q]
    BY DEF Fail, LiveInv, Typed, NoResult
<1> QED BY <1>1, MoveKeepsAges DEF Fail

LEMMA DeliverKeepsAges ==
    ASSUME LiveInv, AgesFit, NEW r \in Readers, NEW answer, NEW degraded, Deliver(r, answer, degraded),
           Young(answer.seen, now, work[r].as_of), now' = now, CacheFits'
    PROVE  AgesFit'
<1>1. \E place, w : place # "storing" /\ Goto(r, place, w)
    BY DEF Deliver
<1>2. \A q \in Readers : pc'[q] = "storing" => pc[q] = "storing" /\ work'[q] = work[q]
    BY <1>1 DEF Goto, LiveInv, Typed
<1>3. ASSUME NEW q \in Readers, Got(q)'
      PROVE  Young(result'[q].seen, result'[q].at, result'[q].as_of)
    <2>1. CASE result' = result
        BY <1>3, <2>1 DEF AgesFit, Got
    <2>2. CASE result' = [result EXCEPT ![r] =
                          [kind |-> "value", method |-> Metric, as_of |-> work[r].as_of,
                           source |-> answer.source, degraded |-> degraded,
                           seen |-> answer.seen, at |-> now]]
        <3>1. CASE q = r
            BY <2>2, <3>1 DEF LiveInv, Typed
        <3>2. CASE q # r
            BY <1>3, <2>2, <3>2 DEF AgesFit, Got, LiveInv, Typed
        <3> QED BY <3>1, <3>2
    <2> QED BY <2>1, <2>2 DEF Deliver
<1> QED BY <1>2, <1>3 DEF AgesFit, Waits, Young, Day

LEMMA StepKeepsAges ==
    ASSUME LiveInv, AgesFit, NEW r \in Readers, Step(r)
    PROVE  AgesFit'
<1>0. ClockAssumption /\ now \in Nat /\ work[r].as_of \in Int
    BY ClockAssumption, WorkIs DEF LiveInv, Typed, IsWork
<1>1. CASE \E as_of \in Days : Read(r, as_of) \/ LookAhead(r, as_of)
    <2>1. PICK as_of \in Days : Read(r, as_of) \/ LookAhead(r, as_of)
        BY <1>1
    <2>2. CASE Read(r, as_of)
        <3>1. Goto(r, "guarding", NewRead(as_of, "is_live"))
            BY <2>2 DEF Read
        <3>2. result'[r].kind # "value" /\ \A q \in Readers : q # r => result'[q] = result[q]
            BY <2>2 DEF Read, LiveInv, Typed, NoResult
        <3> QED BY <2>2, <3>1, <3>2, MoveKeepsAges DEF Read
    <2>3. CASE LookAhead(r, as_of)
        <3>1. /\ result' = [result EXCEPT ![r] = [NoResult EXCEPT !.kind = "LookAheadError"]]
              /\ UNCHANGED <<now, cache, pc, work>>
            BY <2>3 DEF LookAhead
        <3>2. [NoResult EXCEPT !.kind = "LookAheadError"].kind # "value"
            BY DEF NoResult
        <3> QED BY <3>1, <3>2 DEF LiveInv, Typed, AgesFit, CacheFits, EntryFits, Waits, Got, Young, Day
    <2> QED BY <2>1, <2>2, <2>3
<1>2. CASE Resolve(r)
    <2>1. PICK place \in {"checking", "looking"} : Goto(r, place, work[r])
        BY <1>2 DEF Resolve
    <2> QED BY <1>2, <2>1, MoveKeepsAges DEF Resolve
<1>3. CASE CheckLive(r)
    <2>1. UNCHANGED <<now, cache>>
        BY <1>3 DEF CheckLive
    <2>2. (Goto(r, "looking", NewRead(work[r].as_of, Metric)) /\ UNCHANGED result)
          \/ Fail(r, "TickerNotLive", None)
        BY <1>3 DEF CheckLive
    <2> QED BY <2>1, <2>2, MoveKeepsAges, FailKeepsAges
<1>4. CASE LookUp(r)
    <2> DEFINE k == <<work[r].method, work[r].as_of>>
    <2>1. UNCHANGED <<now, cache>>
        BY <1>4 DEF LookUp
    <2>2. \/ Fail(r, "NoProvider", None)
          \/ Cached(work[r].method, work[r].as_of) /\ Deliver(r, cache[k].answer, FALSE)
          \/ Goto(r, "asking", work[r]) /\ UNCHANGED result
        BY <1>4 DEF LookUp
    <2>3. CASE Cached(work[r].method, work[r].as_of) /\ Deliver(r, cache[k].answer, FALSE)
        <3>1. k \in DOMAIN cache /\ now < cache[k].expires_at /\ k[2] = work[r].as_of
            BY <2>3 DEF Cached
        <3> DEFINE seen == cache[k].answer.seen
        <3>2. EntryFits(cache[k], work[r].as_of)
            BY <3>1 DEF AgesFit, CacheFits
        <3>3. Young(seen, now, work[r].as_of)
            BY <1>0, <3>1, <3>2, ClockAssumption DEF Young, EntryFits
        <3>4. CacheFits'
            BY <2>1 DEF AgesFit, CacheFits, EntryFits, Day
        <3> QED BY <2>1, <2>3, <3>3, <3>4, DeliverKeepsAges
    <2> QED BY <2>1, <2>2, <2>3, MoveKeepsAges, FailKeepsAges
<1>5. CASE \E live \in BOOLEAN : Answer(r, live)
    <2>1. PICK live \in BOOLEAN : Answer(r, live)
        BY <1>5
    <2> DEFINE answer == [live |-> live, source |-> Asked(r), seen |-> now]
               w == [work[r] EXCEPT !.answer = answer]
    <2>2. UNCHANGED <<now, cache>>
        BY <2>1 DEF Answer
    <2>3. CASE work[r].index = 1
        <3>1. Goto(r, "storing", w) /\ UNCHANGED result
            BY <2>1, <2>3 DEF Answer
        <3>2. w.answer.seen = now
            BY WorkIs DEF LiveInv, IsWork
        <3>3. Waits(w)
            BY <1>0, <3>2, ClockAssumption DEF Waits
        <3> HIDE DEF w
        <3> QED BY <2>2, <3>1, <3>3, MoveKeepsAges
    <2>4. CASE work[r].index # 1
        <3>1. Deliver(r, answer, TRUE)
            BY <2>1, <2>4 DEF Answer
        <3>2. Young(answer.seen, now, work[r].as_of)
            BY <1>0, ClockAssumption DEF Young
        <3>3. CacheFits'
            BY <2>2 DEF AgesFit, CacheFits, EntryFits, Day
        <3> HIDE DEF answer
        <3> QED BY <2>2, <3>1, <3>2, <3>3, DeliverKeepsAges
    <2> QED BY <2>3, <2>4
<1>6. CASE ProviderFails(r)
    <2>1. UNCHANGED <<now, cache>>
        BY <1>6 DEF ProviderFails
    <2>2. (\E w : Goto(r, "asking", w) /\ UNCHANGED result)
          \/ (\E source : Fail(r, "failed", source))
        BY <1>6 DEF ProviderFails
    <2> QED BY <2>1, <2>2, MoveKeepsAges, FailKeepsAges
<1>7. CASE Store(r)
    <2> DEFINE k == <<work[r].method, work[r].as_of>>
               seen == work[r].answer.seen
               entry == [answer |-> work[r].answer, expires_at |-> now + ttl_for(work[r].as_of)]
    <2>1. /\ Waits(work[r]) /\ now' = now
          /\ cache' = [x \in DOMAIN cache \union {k} |-> IF x = k THEN entry ELSE cache[x]]
          /\ Deliver(r, work[r].answer, FALSE)
        BY <1>7 DEF Store, With, AgesFit
    <2>2. seen \in Nat /\ seen <= now /\ now - seen <= MaxDelay
        BY <2>1 DEF Waits
    <2>3. entry.answer.seen = seen /\ entry.expires_at = now + ttl_for(work[r].as_of) /\ k[2] = work[r].as_of
        OBVIOUS
    <2>4. ttl_for(work[r].as_of) \in Nat /\ ttl_for(work[r].as_of) <= HISTORICAL_TTL
        BY ClockAssumption DEF ttl_for
    <2>5. Day(seen + MaxDelay) <= work[r].as_of => ttl_for(work[r].as_of) = TODAY_TTL
        <3>1. Day(now) \in Int /\ Day(seen + MaxDelay) \in Int /\ Day(now) <= Day(seen + MaxDelay)
            BY <1>0, <2>2, ClockAssumption, DaysPass
        <3> QED BY <1>0, <3>1 DEF ttl_for, today
    <2> HIDE DEF k, entry, seen
    <2>6. EntryFits(entry, work[r].as_of)
        BY <1>0, <2>2, <2>3, <2>4, <2>5, ClockAssumption DEF EntryFits
    <2>7. CacheFits'
        <3>1. ASSUME NEW x \in DOMAIN cache'
              PROVE  EntryFits(cache'[x], x[2])
            <4>1. CASE x = k
                BY <2>1, <2>3, <2>6, <4>1
            <4>2. CASE x # k
                BY <2>1, <4>2 DEF AgesFit, CacheFits
            <4> QED BY <4>1, <4>2
        <3> QED BY <3>1 DEF CacheFits, EntryFits, Day
    <2>8. Young(work[r].answer.seen, now, work[r].as_of)
        BY <1>0, <2>2, ClockAssumption DEF Young, seen
    <2> QED BY <2>1, <2>7, <2>8, DeliverKeepsAges
<1> QED BY <1>1, <1>2, <1>3, <1>4, <1>5, <1>6, <1>7 DEF Step

\* What is stored while its day lasts expires within the short time to live, and
\* everything else within the long one, for any times to live, days, threads and
\* delays between an answer and its storing (cache.py 9, 132).
THEOREM VolatileDataAlwaysExpires == Spec => []VolatileDataExpires
<1>1. Init => AgesFit
    BY DEF Init, AgesFit, CacheFits, NoEntries, Got, NoResult
<1>2. LiveInv /\ AgesFit /\ [Next]_vars => AgesFit'
    <2> SUFFICES ASSUME LiveInv, AgesFit, [Next]_vars
                 PROVE  AgesFit'
        OBVIOUS
    <2>1. CASE \E r \in Readers : Step(r)
        BY <2>1, StepKeepsAges
    <2>2. CASE Restart
        BY <2>2 DEF Restart, AgesFit, CacheFits, EntryFits, Day, Got, NoResult
    <2>3. CASE Tick
        <3>1. UNCHANGED <<cache, pc, work, result>> /\ now' = now + 1 /\ now \in Nat
            BY <2>3 DEF Tick, LiveInv, Typed
        <3>2. ASSUME NEW r \in Readers, pc[r] = "storing"
              PROVE  Waits(work[r])'
            <4>1. Waits(work[r]) /\ now - work[r].answer.seen < MaxDelay
                BY <2>3, <3>2 DEF Tick, AgesFit
            <4> QED BY <3>1, <4>1, ClockAssumption DEF Waits
        <3> QED BY <3>1, <3>2 DEF AgesFit, CacheFits, EntryFits, Day, Got, Young
    <2>4. CASE UNCHANGED vars
        BY <2>4 DEF vars, AgesFit, CacheFits, EntryFits, Waits, Day, Got, Young
    <2> QED BY <2>1, <2>2, <2>3, <2>4 DEF Next
<1>3. AgesFit => VolatileDataExpires
    BY DEF AgesFit, VolatileDataExpires, Young
<1> QED BY <1>1, <1>2, <1>3, ReadsAreGuarded, PTL DEF Spec

-----------------------------------------------------------------------------
(* Which provider an answer is from. *)

Primary(method) == _chain(method)[1]

\* Where a thread is along its chain, and whose answers are kept.
SourcesFit ==
    /\ \A r \in Readers : work[r].method \in Methods
    /\ \A r \in Readers : pc[r] \in {"guarding", "looking"} => work[r].index = 1
    /\ \A r \in Readers : pc[r] = "asking" => work[r].index \in DOMAIN _chain(work[r].method)
    /\ \A r \in Readers : pc[r] = "storing" => work[r].answer.source = Primary(work[r].method)
    /\ \A k \in DOMAIN cache : cache[k].answer.source = Primary(k[1])
    /\ FallbackIsVisible

\* A piece of work fits the place it is at.
SourceFits(place, w) ==
    /\ w.method \in Methods
    /\ place \in {"guarding", "looking"} => w.index = 1
    /\ place = "asking" => w.index \in DOMAIN _chain(w.method)
    /\ place = "storing" => w.answer.source = Primary(w.method)

LEMMA NewReadFits ==
    ASSUME NEW as_of, NEW method \in Methods, NEW place, place \notin {"asking", "storing"}
    PROVE  SourceFits(place, NewRead(as_of, method))
BY DEF SourceFits, NewRead

\* A thread goes on, the cache keeps whose answers it has, and what is given out says
\* whose it is.
LEMMA MoveKeepsSources ==
    ASSUME LiveInv, SourcesFit, NEW r \in Readers, NEW place, NEW w, Goto(r, place, w),
           SourceFits(place, w),
           \A k \in DOMAIN cache' : cache'[k].answer.source = Primary(k[1]),
           FallbackIsVisible'
    PROVE  SourcesFit'
<1>1. /\ pc'[r] = place /\ work'[r] = w
      /\ \A q \in Readers : q # r => pc'[q] = pc[q] /\ work'[q] = work[q]
    BY DEF Goto, LiveInv, Typed
<1>2. \A q \in Readers : SourceFits(pc'[q], work'[q])
    BY <1>1 DEF SourcesFit, SourceFits
<1> QED BY <1>2 DEF SourcesFit, SourceFits

LEMMA SilentIsVisible ==
    ASSUME LiveInv, SourcesFit, NEW r \in Readers,
           result' = result \/ (result'[r].kind # "value" /\ \A q \in Readers : q # r => result'[q] = result[q])
    PROVE  FallbackIsVisible'
BY DEF SourcesFit, FallbackIsVisible, Got

LEMMA FailKeepsSources ==
    ASSUME LiveInv, SourcesFit, NEW r \in Readers, NEW kind, kind # "value", NEW source,
           Fail(r, kind, source), cache' = cache
    PROVE  SourcesFit'
<1>1. result'[r].kind = kind /\ \A q \in Readers : q # r => result'[q] = result[q]
    BY DEF Fail, LiveInv, Typed, NoResult
<1>2. FallbackIsVisible'
    BY <1>1, SilentIsVisible
<1>3. SourceFits("idle", NewRead(0, Metric))
    BY NewReadFits DEF Methods
<1> QED BY <1>2, <1>3, MoveKeepsSources DEF Fail, SourcesFit

LEMMA DeliverKeepsSources ==
    ASSUME LiveInv, SourcesFit, NEW r \in Readers, NEW answer, NEW degraded \in BOOLEAN,
           Deliver(r, answer, degraded),
           degraded <=> answer.source # Primary(work[r].method),
           \A k \in DOMAIN cache' : cache'[k].answer.source = Primary(k[1])
    PROVE  SourcesFit'
<1>1. work[r].method \in Methods
    BY DEF SourcesFit
<1>2. CASE work[r].method = "is_live"
    <2>1. Goto(r, "checking", work[r]) /\ UNCHANGED result
        BY <1>2 DEF Deliver
    <2>2. SourceFits("checking", work[r])
        BY <1>1 DEF SourceFits
    <2> QED BY <2>1, <2>2, SilentIsVisible, MoveKeepsSources
<1>3. CASE work[r].method # "is_live"
    <2>1. /\ Goto(r, "idle", NewRead(0, Metric))
          /\ result' = [result EXCEPT ![r] =
                          [kind |-> "value", method |-> Metric, as_of |-> work[r].as_of,
                           source |-> answer.source, degraded |-> degraded,
                           seen |-> answer.seen, at |-> now]]
        BY <1>3 DEF Deliver
    <2>2. work[r].method = Metric
        BY <1>1, <1>3 DEF Methods
    <2>3. /\ result'[r].source = answer.source /\ result'[r].degraded = degraded
          /\ \A q \in Readers : q # r => result'[q] = result[q]
        BY <2>1 DEF LiveInv, Typed
    <2>4. FallbackIsVisible'
        BY <2>2, <2>3 DEF SourcesFit, FallbackIsVisible, Got, Primary
    <2>5. SourceFits("idle", NewRead(0, Metric))
        BY NewReadFits DEF Methods
    <2> QED BY <2>1, <2>4, <2>5, MoveKeepsSources
<1> QED BY <1>2, <1>3

\* The first of a chain that has any member is in it.
LEMMA ChainsStart ==
    ASSUME NEW method \in Methods
    PROVE  /\ _chain(method) # <<>> => 1 \in DOMAIN _chain(method)
           /\ \A i \in DOMAIN _chain(method) :
                 /\ i \in Nat
                 /\ i < Len(_chain(method)) => i + 1 \in DOMAIN _chain(method)
                 /\ _chain(method)[i] = Primary(method) => i = 1
<1>1. PICK c : c = _chain(method)
    OBVIOUS
<1>2. c \in Seq(Registered) /\ \A i, j \in DOMAIN c : c[i] = c[j] => i = j
    BY <1>1, ChainsAssumption
<1>3. DOMAIN c = 1..Len(c) /\ Len(c) \in Nat /\ (c # <<>> => Len(c) # 0)
    BY <1>2
<1>4. c # <<>> => 1 \in DOMAIN c
    BY <1>3
<1>5. \A i \in DOMAIN c : i \in Nat /\ 1 \in DOMAIN c /\ (i < Len(c) => i + 1 \in DOMAIN c)
    BY <1>3
<1> QED BY <1>1, <1>2, <1>4, <1>5 DEF Primary

LEMMA StepKeepsSources ==
    ASSUME LiveInv, SourcesFit, NEW r \in Readers, Step(r)
    PROVE  SourcesFit'
<1> DEFINE kept == \A k \in DOMAIN cache' : cache'[k].answer.source = Primary(k[1])
<1>1. IsWork(work[r]) /\ work[r].method \in Methods
    BY WorkIs DEF LiveInv, SourcesFit
<1>2. cache' = cache => kept
    BY DEF SourcesFit
<1>3. CASE \E as_of \in Days : Read(r, as_of) \/ LookAhead(r, as_of)
    <2>1. PICK as_of \in Days : Read(r, as_of) \/ LookAhead(r, as_of)
        BY <1>3
    <2>2. CASE Read(r, as_of)
        <3>1. Goto(r, "guarding", NewRead(as_of, "is_live")) /\ cache' = cache
            BY <2>2 DEF Read
        <3>2. result'[r].kind # "value" /\ \A q \in Readers : q # r => result'[q] = result[q]
            BY <2>2 DEF Read, LiveInv, Typed, NoResult
        <3>3. SourceFits("guarding", NewRead(as_of, "is_live"))
            BY NewReadFits DEF Methods
        <3> QED BY <1>2, <3>1, <3>2, <3>3, SilentIsVisible, MoveKeepsSources
    <2>3. CASE LookAhead(r, as_of)
        <3>1. /\ result' = [result EXCEPT ![r] = [NoResult EXCEPT !.kind = "LookAheadError"]]
              /\ UNCHANGED <<cache, pc, work>>
            BY <2>3 DEF LookAhead
        <3>2. result'[r].kind # "value" /\ \A q \in Readers : q # r => result'[q] = result[q]
            BY <3>1 DEF LiveInv, Typed, NoResult
        <3>3. FallbackIsVisible'
            BY <3>2, SilentIsVisible
        <3> QED BY <3>1, <3>3 DEF SourcesFit
    <2> QED BY <2>1, <2>2, <2>3
<1>4. CASE Resolve(r)
    <2>1. PICK place \in {"checking", "looking"} : Goto(r, place, work[r])
        BY <1>4 DEF Resolve
    <2>2. UNCHANGED <<cache, result>> /\ work[r].index = 1
        BY <1>4 DEF Resolve, SourcesFit
    <2>3. SourceFits(place, work[r])
        BY <1>1, <2>2 DEF SourceFits
    <2> QED BY <1>2, <2>1, <2>2, <2>3, SilentIsVisible, MoveKeepsSources
<1>5. CASE CheckLive(r)
    <2>1. cache' = cache
        BY <1>5 DEF CheckLive
    <2>2. (Goto(r, "looking", NewRead(work[r].as_of, Metric)) /\ UNCHANGED result)
          \/ Fail(r, "TickerNotLive", None)
        BY <1>5 DEF CheckLive
    <2>3. SourceFits("looking", NewRead(work[r].as_of, Metric))
        BY NewReadFits DEF Methods
    <2>4. CASE Goto(r, "looking", NewRead(work[r].as_of, Metric)) /\ UNCHANGED result
        BY <1>2, <2>1, <2>3, <2>4, SilentIsVisible, MoveKeepsSources
    <2> QED BY <2>1, <2>2, <2>4, FailKeepsSources
<1>6. CASE LookUp(r)
    <2> DEFINE k == <<work[r].method, work[r].as_of>>
    <2>1. cache' = cache /\ pc[r] = "looking" /\ work[r].index = 1
        BY <1>6 DEF LookUp, SourcesFit
    <2>2. \/ Fail(r, "NoProvider", None)
          \/ k \in DOMAIN cache /\ Deliver(r, cache[k].answer, FALSE)
          \/ _chain(work[r].method) # <<>> /\ Goto(r, "asking", work[r]) /\ UNCHANGED result
        BY <1>6 DEF LookUp, Cached
    <2>3. CASE k \in DOMAIN cache /\ Deliver(r, cache[k].answer, FALSE)
        <3>1. cache[k].answer.source = Primary(work[r].method)
            BY <2>3 DEF SourcesFit
        <3> HIDE DEF k
        <3> QED BY <1>2, <2>1, <2>3, <3>1, DeliverKeepsSources
    <2>4. CASE _chain(work[r].method) # <<>> /\ Goto(r, "asking", work[r]) /\ UNCHANGED result
        <3>1. SourceFits("asking", work[r])
            BY <1>1, <2>1, <2>4, ChainsStart DEF SourceFits
        <3> QED BY <1>2, <2>1, <2>4, <3>1, SilentIsVisible, MoveKeepsSources
    <2> QED BY <2>1, <2>2, <2>3, <2>4, FailKeepsSources
<1>7. CASE \E live \in BOOLEAN : Answer(r, live)
    <2>1. PICK live \in BOOLEAN : Answer(r, live)
        BY <1>7
    <2> DEFINE answer == [live |-> live, source |-> Asked(r), seen |-> now]
               w == [work[r] EXCEPT !.answer = answer]
    <2>2. cache' = cache /\ work[r].index \in DOMAIN _chain(work[r].method)
        BY <2>1 DEF Answer, SourcesFit
    <2>3. answer.source = _chain(work[r].method)[work[r].index]
        BY DEF Asked
    <2>4. CASE work[r].index = 1
        <3>1. Goto(r, "storing", w) /\ UNCHANGED result
            BY <2>1, <2>4 DEF Answer
        <3>2. w.answer = answer /\ w.method = work[r].method
            BY <1>1 DEF IsWork
        <3>3. SourceFits("storing", w)
            <4> HIDE DEF w, answer
            <4> QED BY <1>1, <2>3, <2>4, <3>2 DEF SourceFits, Primary
        <3> HIDE DEF w
        <3> QED BY <1>2, <2>2, <3>1, <3>3, SilentIsVisible, MoveKeepsSources
    <2>5. CASE work[r].index # 1
        <3>1. Deliver(r, answer, TRUE)
            BY <2>1, <2>5 DEF Answer
        <3> HIDE DEF answer
        <3>2. answer.source # Primary(work[r].method)
            BY <1>1, <2>2, <2>3, <2>5, ChainsStart
        <3> QED BY <1>2, <2>2, <3>1, <3>2, DeliverKeepsSources
    <2> QED BY <2>4, <2>5
<1>8. CASE ProviderFails(r)
    <2> DEFINE first == IF work[r].first_error = None THEN Asked(r) ELSE work[r].first_error
               w == [work[r] EXCEPT !.index = @ + 1, !.first_error = first]
    <2>1. cache' = cache /\ work[r].index \in DOMAIN _chain(work[r].method)
        BY <1>8 DEF ProviderFails, SourcesFit
    <2>2. \/ /\ Goto(r, "asking", w) /\ UNCHANGED result
             /\ work[r].index < Len(_chain(work[r].method))
          \/ Fail(r, "failed", first)
        BY <1>8 DEF ProviderFails
    <2>3. w.index = work[r].index + 1 /\ w.method = work[r].method
        BY <1>1 DEF IsWork
    <2> HIDE DEF w, first
    <2>4. CASE Goto(r, "asking", w) /\ UNCHANGED result /\ work[r].index < Len(_chain(work[r].method))
        <3>1. SourceFits("asking", w)
            BY <1>1, <2>1, <2>3, <2>4, ChainsStart DEF SourceFits
        <3> QED BY <1>2, <2>1, <2>4, <3>1, SilentIsVisible, MoveKeepsSources
    <2> QED BY <2>1, <2>2, <2>4, FailKeepsSources
<1>9. CASE Store(r)
    <2> DEFINE k == <<work[r].method, work[r].as_of>>
               entry == [answer |-> work[r].answer, expires_at |-> now + ttl_for(work[r].as_of)]
    <2>1. /\ work[r].answer.source = Primary(work[r].method)
          /\ cache' = [x \in DOMAIN cache \union {k} |-> IF x = k THEN entry ELSE cache[x]]
          /\ Deliver(r, work[r].answer, FALSE)
        BY <1>9 DEF Store, With, SourcesFit
    <2>2. entry.answer = work[r].answer /\ k[1] = work[r].method
        OBVIOUS
    <2> HIDE DEF k, entry
    <2>3. kept
        BY <2>1, <2>2 DEF SourcesFit
    <2> QED BY <2>1, <2>3, DeliverKeepsSources
<1> QED BY <1>3, <1>4, <1>5, <1>6, <1>7, <1>8, <1>9 DEF Step

\* A fallback never passes for the primary, nor the primary for a fallback: a value is
\* marked degraded exactly when another provider than the first of its chain gave it,
\* for any chains that name no provider twice, any readers, times to live and
\* restarts, and also when it comes from the cache (data.py 39-42).
THEOREM FallbacksAreVisible == Spec => []FallbackIsVisible
<1>1. Init => SourcesFit
    BY DEF Init, SourcesFit, FallbackIsVisible, Got, NoResult, NoEntries, NewRead, Methods
<1>2. LiveInv /\ SourcesFit /\ [Next]_vars => SourcesFit'
    <2> SUFFICES ASSUME LiveInv, SourcesFit, [Next]_vars
                 PROVE  SourcesFit'
        OBVIOUS
    <2>1. CASE \E r \in Readers : Step(r)
        BY <2>1, StepKeepsSources
    <2>2. CASE Restart
        <3>1. \A r \in Readers : pc'[r] = "idle" /\ work'[r].method = Metric /\ result'[r].kind = "none"
            BY <2>2 DEF Restart, NewRead, NoResult
        <3> QED BY <2>2, <3>1 DEF Restart, SourcesFit, FallbackIsVisible, Got, Methods
    <2>3. CASE Tick
        BY <2>3 DEF Tick, SourcesFit, FallbackIsVisible, Got
    <2>4. CASE UNCHANGED vars
        BY <2>4 DEF vars, SourcesFit, FallbackIsVisible, Got
    <2> QED BY <2>1, <2>2, <2>3, <2>4 DEF Next
<1>3. SourcesFit => FallbackIsVisible
    BY DEF SourcesFit
<1> QED BY <1>1, <1>2, <1>3, ReadsAreGuarded, PTL DEF Spec
=============================================================================
