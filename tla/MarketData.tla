------------------------------ MODULE MarketData ----------------------------
(***************************************************************************)
(* Reading one metric of one ticker through MarketDataService              *)
(* (src/desk/data.py) and its TTL cache (src/desk/cache.py).               *)
(*                                                                         *)
(* The readers are the analysts' threads of one process: they share the    *)
(* memo of which tickers are live.  The cache is on disk and survives the  *)
(* process.  A read rejects the future, makes sure the ticker is live,     *)
(* looks in the cache, and walks the provider chain; asking the provider   *)
(* and storing its answer are two steps, and midnight or another thread    *)
(* may come between any two.                                               *)
(*                                                                         *)
(* The providers' quotes take no notice of the as_of they are given        *)
(* (yfinance .info): an answer is identified by the tick it was seen at.   *)
(***************************************************************************)
EXTENDS Integers, Sequences

CONSTANTS
    Readers,        \* the threads
    Metric,         \* the method read, besides is_live
    FALLBACK_POLICY,\* the providers of each method, in order
    Capabilities,   \* the methods each registered provider declares
    DayLength,      \* ticks in a day
    TODAY_TTL, HISTORICAL_TTL,  \* in ticks
    LastTick,       \* bound: last tick of a behaviour
    MaxDelay,       \* bound: ticks between an answer and its storing
    None            \* no error yet

Methods == {"is_live", Metric}
Registered == DOMAIN Capabilities

ASSUME PolicyAssumption == DOMAIN FALLBACK_POLICY = Methods
ASSUME ClockAssumption ==
    /\ DayLength \in Nat \ {0} /\ LastTick \in Nat
    /\ TODAY_TTL \in Nat \ {0} /\ HISTORICAL_TTL \in Nat /\ TODAY_TTL <= HISTORICAL_TTL
    /\ MaxDelay \in Nat

VARIABLES
    now,        \* the clock, in ticks
    _liveness,  \* the process's memo: by as_of, is the ticker live?
    cache,      \* by <<method, as_of>>, the stored answers
    pc,         \* where each thread is in its read
    work,       \* what it knows so far
    result,     \* what its last read came to
    held        \* history variable: the days the process has held it to be live on

vars == <<now, _liveness, cache, pc, work, result, held>>

Day(tick) == tick \div DayLength
today == Day(now)
Days == 0..(Day(LastTick) + 1)

\* _chain: the policy's providers that are registered and declare the method.
_chain(method) ==
    SelectSeq(FALLBACK_POLICY[method],
              LAMBDA p : p \in Registered /\ method \in Capabilities[p])

\* FALLBACK_POLICY names no provider twice for a method.
ASSUME ChainsAssumption ==
    \A method \in Methods :
        /\ _chain(method) \in Seq(Registered)
        /\ \A i, j \in DOMAIN _chain(method) : _chain(method)[i] = _chain(method)[j] => i = j

NoAnswer == [live |-> FALSE, source |-> None, seen |-> 0]
NoResult == [kind |-> "none", method |-> Metric, as_of |-> 0, source |-> None,
             degraded |-> FALSE, seen |-> 0, at |-> 0]

NewRead(as_of, method) ==
    [as_of |-> as_of, method |-> method, index |-> 1, first_error |-> None,
     answer |-> NoAnswer]

NoEntries == [k \in {} |-> None]

Init ==
    /\ now = 0
    /\ _liveness = NoEntries
    /\ held = {}
    /\ cache = NoEntries
    /\ pc = [r \in Readers |-> "idle"]
    /\ work = [r \in Readers |-> NewRead(0, Metric)]
    /\ result = [r \in Readers |-> NoResult]

-----------------------------------------------------------------------------
(* The cache.                                                                 *)

\* Slip: today counts as the past.
ttl_for_every_day(as_of) == IF as_of > today THEN TODAY_TTL ELSE HISTORICAL_TTL

ttl_for(as_of) == IF as_of >= today THEN TODAY_TTL ELSE HISTORICAL_TTL

Cached(method, as_of) ==
    /\ <<method, as_of>> \in DOMAIN cache
    /\ now < cache[<<method, as_of>>].expires_at

\* cache.set, with the file replaced atomically.
With(method, as_of, answer) ==
    [k \in DOMAIN cache \union {<<method, as_of>>} |->
        IF k = <<method, as_of>>
        THEN [answer |-> answer, expires_at |-> now + ttl_for(as_of)]
        ELSE cache[k]]

(* What a step does to its own thread.                                        *)

Goto(r, place, w) ==
    /\ pc' = [pc EXCEPT ![r] = place]
    /\ work' = [work EXCEPT ![r] = w]

\* The read leaves through an exception raised by `source`.
Fail(r, kind, source) ==
    /\ result' = [result EXCEPT ![r] =
                     [NoResult EXCEPT !.kind = kind, !.method = work[r].method,
                                      !.as_of = work[r].as_of, !.source = source]]
    /\ Goto(r, "idle", NewRead(0, Metric))

\* _attempt returns an answer: is_live's goes into the memo, the metric's out.
Deliver(r, answer, degraded) ==
    IF work[r].method = "is_live"
    THEN /\ _liveness' = [d \in DOMAIN _liveness \union {work[r].as_of} |->
                             IF d = work[r].as_of THEN answer.live ELSE _liveness[d]]
         /\ held' = IF answer.live THEN held \union {work[r].as_of} ELSE held
         /\ Goto(r, "checking", work[r])
         /\ UNCHANGED result
    ELSE /\ result' = [result EXCEPT ![r] =
                          [kind |-> "value", method |-> Metric, as_of |-> work[r].as_of,
                           source |-> answer.source, degraded |-> degraded,
                           seen |-> answer.seen, at |-> now]]
         /\ Goto(r, "idle", NewRead(0, Metric))
         /\ UNCHANGED <<_liveness, held>>

-----------------------------------------------------------------------------
(* A read, from _preflight to the answer.                                     *)

\* reject_lookahead, and on to the guard.
Read(r, as_of) ==
    /\ pc[r] = "idle"
    /\ as_of <= today
    /\ Goto(r, "guarding", NewRead(as_of, "is_live"))
    /\ result' = [result EXCEPT ![r] = NoResult]
    /\ UNCHANGED <<now, _liveness, cache, held>>

LookAhead(r, as_of) ==
    /\ pc[r] = "idle"
    /\ as_of > today
    /\ result' = [result EXCEPT ![r] = [NoResult EXCEPT !.kind = "LookAheadError"]]
    /\ UNCHANGED <<now, _liveness, cache, pc, work, held>>

\* _guard_live: is the answer in the memo?
Resolve(r) ==
    /\ pc[r] = "guarding"
    /\ Goto(r, IF work[r].as_of \in DOMAIN _liveness THEN "checking" ELSE "looking", work[r])
    /\ UNCHANGED <<now, _liveness, cache, result, held>>

\* Slip: the verdict of the memo is not looked at.
CheckNothing(r) ==
    /\ pc[r] = "checking"
    /\ Goto(r, "looking", NewRead(work[r].as_of, Metric))
    /\ UNCHANGED <<now, _liveness, cache, result, held>>

\* _guard_live raises TickerNotLive, or the metric itself is read.
CheckLive(r) ==
    /\ pc[r] = "checking"
    /\ IF _liveness[work[r].as_of]
       THEN Goto(r, "looking", NewRead(work[r].as_of, Metric)) /\ UNCHANGED result
       ELSE Fail(r, "TickerNotLive", None)
    /\ UNCHANGED <<now, _liveness, cache, held>>

\* _attempt: an empty chain, a cache hit, or a miss.
LookUp(r) ==
    LET w == work[r] IN
    /\ pc[r] = "looking"
    /\ IF _chain(w.method) = <<>> THEN Fail(r, "NoProvider", None) /\ UNCHANGED <<_liveness, held>>
       ELSE IF Cached(w.method, w.as_of)
       THEN Deliver(r, cache[<<w.method, w.as_of>>].answer, FALSE)
       ELSE Goto(r, "asking", w) /\ UNCHANGED <<_liveness, result, held>>
    /\ UNCHANGED <<now, cache>>

Asked(r) == _chain(work[r].method)[work[r].index]

\* Slip: a fallback's answer is stored like a primary's.
AnswerAlwaysStored(r, live) ==
    /\ pc[r] = "asking"
    /\ Goto(r, "storing", [work[r] EXCEPT !.answer =
                              [live |-> live, source |-> Asked(r), seen |-> now]])
    /\ UNCHANGED <<now, _liveness, cache, result, held>>

\* The provider answers; only the first one's answer goes on to be stored.
Answer(r, live) ==
    LET answer == [live |-> live, source |-> Asked(r), seen |-> now] IN
    /\ pc[r] = "asking"
    /\ IF work[r].index = 1
       THEN Goto(r, "storing", [work[r] EXCEPT !.answer = answer])
            /\ UNCHANGED <<_liveness, result, held>>
       ELSE Deliver(r, answer, TRUE)
    /\ UNCHANGED <<now, cache>>

\* ProviderUnavailable or DataQualityError: the next one, or the first error.
\* (data.py 253 would let a TickerNotLive through, but no provider raises it: it is
\* _guard_live's alone.)
ProviderFails(r) ==
    LET first == IF work[r].first_error = None THEN Asked(r) ELSE work[r].first_error IN
    /\ pc[r] = "asking"
    /\ IF work[r].index < Len(_chain(work[r].method))
       THEN /\ Goto(r, "asking", [work[r] EXCEPT !.index = @ + 1, !.first_error = first])
            /\ UNCHANGED result
       ELSE Fail(r, "failed", first)
    /\ UNCHANGED <<now, _liveness, cache, held>>

\* The clean answer is stored, then returned.
Store(r) ==
    /\ pc[r] = "storing"
    /\ cache' = With(work[r].method, work[r].as_of, work[r].answer)
    /\ Deliver(r, work[r].answer, FALSE)
    /\ UNCHANGED now

\* The process ends and another starts; the cache stays.
Restart ==
    /\ _liveness' = NoEntries
    /\ held' = {}
    /\ pc' = [r \in Readers |-> "idle"]
    /\ work' = [r \in Readers |-> NewRead(0, Metric)]
    /\ result' = [r \in Readers |-> NoResult]
    /\ UNCHANGED <<now, cache>>

Tick ==
    /\ now < LastTick
    /\ \A r \in Readers : pc[r] = "storing" => now - work[r].answer.seen < MaxDelay
    /\ now' = now + 1
    /\ UNCHANGED <<_liveness, cache, pc, work, result, held>>

Step(r) ==
    \/ \E as_of \in Days : Read(r, as_of) \/ LookAhead(r, as_of)
    \/ Resolve(r)
    \/ CheckLive(r)
    \/ LookUp(r)
    \/ \E live \in BOOLEAN : (work[r].method = Metric => live) /\ Answer(r, live)
    \/ ProviderFails(r)
    \/ Store(r)

Next ==
    \/ \E r \in Readers : Step(r)
    \/ Restart
    \/ Tick

Spec == Init /\ [][Next]_vars

-----------------------------------------------------------------------------

Got(r) == result[r].kind = "value"

\* A value that a fallback gave is marked degraded and one of the primary is not,
\* whether it was fetched now, or read back from the cache by another thread or a
\* later process (data.py 39-42 "a forced failure surfaces a visible fallback,
\* never silent").
FallbackIsVisible ==
    \A r \in Readers :
        Got(r) => (result[r].degraded <=> result[r].source # _chain(Metric)[1])

\* cache.py 9 "TODAY is volatile and must expire in minutes", as far as the code
\* keeps it: ttl_for is asked when an answer is stored (cache.py 132), MaxDelay after
\* it was seen at the latest.  So what a read returns is no older than the short TTL
\* and that delay if its day was not over by then; an answer of the last moments of
\* its day may be stored after midnight, as a thing of the past, and is kept for the
\* long TTL, but for no more.  No other thread, restart or midnight makes it older.
VolatileDataExpires ==
    \A r \in Readers :
        LET age == result[r].at - result[r].seen
        IN  Got(r) => /\ age < HISTORICAL_TTL + MaxDelay
                      /\ Day(result[r].seen + MaxDelay) <= result[r].as_of => age < TODAY_TTL + MaxDelay

\* A value is returned only for a day on which this process has held the ticker to
\* be live, whatever was cached before it started and whichever thread's verdict is
\* in the memo by now (data.py 33-37).
OnlyLiveTickersAreQuoted ==
    \A r \in Readers : Got(r) => result[r].as_of \in held
=============================================================================
