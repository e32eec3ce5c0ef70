----------------------------- MODULE SpendLedger ----------------------------
(***************************************************************************)
(* Appending to the spend ledger from several processes that may die, on a *)
(* machine that may lose power (src/desk/spend.py record, rows).           *)
(*                                                                         *)
(* record() opens the file for appending, writes the line in one write,    *)
(* flushes and fsyncs, and only then returns.  Nothing ever repairs the    *)
(* file: a fragment left by a dead writer stays where it is, and the next  *)
(* append, by whatever process, lands right behind it.                     *)
(***************************************************************************)
EXTENDS SpendFile, FiniteSets

CONSTANTS
    Writers,      \* processes that append to the file
    Calls         \* the calls to be recorded; each is recorded once

ASSUME WritersAssumption == IsFiniteSet(Writers) /\ IsFiniteSet(Calls)

VARIABLES
    synced,     \* how many cells are known to be on the disk
    place,      \* where each writer is inside record()
    row,        \* the call it is recording
    begun,      \* the calls for which record() was called
    acked       \* the calls for which record() returned

ledgerVars == <<file, synced, place, row, begun, acked, crashes>>

LedgerInit ==
    /\ file = <<>>
    /\ synced = 0
    /\ place = [w \in Writers |-> "idle"]
    /\ row \in [Writers -> {CHOOSE c \in Calls : TRUE}]
    /\ begun = {}
    /\ acked = {}
    /\ crashes = 0

\* record(call) is entered and the file is opened.
Open(w, c) ==
    /\ place[w] = "idle"
    /\ c \notin begun
    /\ begun' = begun \union {c}
    /\ row' = [row EXCEPT ![w] = c]
    /\ place' = [place EXCEPT ![w] = "writing"]
    /\ UNCHANGED <<file, synced, acked, crashes>>

\* fh.write and fh.flush: the line is at the end of the file.
Write(w) ==
    /\ place[w] = "writing"
    /\ file' = file \o Line(row[w])
    /\ place' = [place EXCEPT ![w] = "flushed"]
    /\ UNCHANGED <<synced, row, begun, acked, crashes>>

\* Slip: no fsync.
SyncNothing(w) ==
    /\ place[w] = "flushed"
    /\ acked' = acked \union {row[w]}
    /\ place' = [place EXCEPT ![w] = "idle"]
    /\ UNCHANGED <<file, synced, row, begun, crashes>>

\* Slip: fsync reports an error and the append is tried again.
SyncAndRetry(w) ==
    /\ place[w] = "flushed"
    /\ synced' = Len(file)
    /\ place' = [place EXCEPT ![w] = "writing"]
    /\ UNCHANGED <<file, acked, row, begun, crashes>>

\* os.fsync, and record() returns.
Sync(w) ==
    /\ place[w] = "flushed"
    /\ synced' = Len(file)
    /\ acked' = acked \union {row[w]}
    /\ place' = [place EXCEPT ![w] = "idle"]
    /\ UNCHANGED <<file, row, begun, crashes>>

\* A process dies inside record(); what it had written stays, whole or not.
Die(w) ==
    /\ crashes < MaxCrashes
    /\ place[w] # "idle"
    /\ \/ UNCHANGED file
       \/ place[w] = "writing" /\ \E part \in Fragments(row[w]) : file' = file \o part
    /\ place' = [place EXCEPT ![w] = "idle"]
    /\ crashes' = crashes + 1
    /\ UNCHANGED <<synced, row, begun, acked>>

\* What the disk may hold after a power failure: the synced cells and some part
\* of what follows, its last row possibly cut short.
Surviving ==
    LET prefixes == {SubSeq(file, 1, n) : n \in synced..Len(file)}
        cut(f) == [f EXCEPT ![Len(f)] = Torn(f[Len(f)].call)]
    IN  prefixes \union
        {cut(f) : f \in {g \in prefixes : Len(g) > synced /\ g[Len(g)].kind = "row"}}

PowerFails ==
    /\ crashes < MaxCrashes
    /\ file' \in Surviving
    /\ synced' = Len(file')
    /\ place' = [w \in Writers |-> "idle"]
    /\ crashes' = crashes + 1
    /\ UNCHANGED <<row, begun, acked>>

LedgerNext ==
    \/ \E w \in Writers :
          \/ \E c \in Calls : Open(w, c)
          \/ Write(w)
          \/ Sync(w)
          \/ Die(w)
    \/ PowerFails

LedgerSpec == LedgerInit /\ [][LedgerNext]_ledgerVars

-----------------------------------------------------------------------------

\* A call whose record() returned is read back, unless a fragment left by a
\* crash swallowed it: no more returned calls are missing than there were
\* crashes, however many processes append (spend.py record and rows).
AckedLossBounded == Cardinality(acked \ rows(file)) <= crashes

\* Once a returned call has been read back it is read back for ever: neither a
\* later append, nor a later crash or power failure, takes it out of the totals
\* (spend.py 83-86: append, flush, fsync).
AckedRowsStay ==
    [][\A c \in acked : c \in rows(file) => c \in rows(file')]_ledgerVars

\* A call that was never handed to record() is never read, and no call is read
\* twice, whatever the fragments look like: the totals never count money that
\* was not billed.
NothingInvented ==
    /\ rows(file) \subseteq begun
    /\ \A i, j \in ReadablePositions(file) : file[i].call = file[j].call => i = j
=============================================================================
