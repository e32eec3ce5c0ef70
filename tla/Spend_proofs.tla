----------------------------- MODULE Spend_proofs ---------------------------
(***************************************************************************)
(* Proofs about the spend ledger file, for any number of writers, callers, *)
(* calls and crashes.  SpendLedger: nothing is read back that was not      *)
(* billed, what is read back of a call whose record() returned stays       *)
(* readable, and no more returned calls are missing from the totals than   *)
(* there were crashes.  MeteredDesk, the gateway over that file: the       *)
(* provider's invoice passes the gateway's bound by no more than the       *)
(* failures explain, the ledger never overstates a day, and without torn   *)
(* appends the desk is the gateway.                                        *)
(***************************************************************************)
EXTENDS SpendLedger, MeteredDesk, FiniteSetTheorems, SequenceTheorems, TLAPS

USE WritersAssumption, CrashAssumption

-----------------------------------------------------------------------------
(* The cells of the file, and what a step can do to them.                    *)

Cell == {Row(c) : c \in Calls} \union {Torn(c) : c \in Calls} \union {Newline}

\* A cell that holds JSON text, whole or cut short.
Text(cell) == cell.kind # "newline"

LEMMA CellKinds ==
  /\ Newline \in Cell /\ ~Text(Newline)
  /\ \A c \in Calls : /\ Row(c) \in Cell /\ Torn(c) \in Cell
                      /\ Text(Row(c)) /\ Text(Torn(c))
                      /\ Row(c).kind = "row" /\ Torn(c).kind = "torn"
                      /\ Row(c).call = c /\ Torn(c).call = c
  /\ \A x \in Cell : /\ Text(x) => x.call \in Calls
                     /\ x.kind = "row" => x = Row(x.call) /\ Text(x)
                     /\ ~Text(x) => x.kind = "newline"
<1>1. Newline \in Cell /\ ~Text(Newline)
  BY DEF Cell, Text, Newline
<1>2. ASSUME NEW c \in Calls
      PROVE  /\ Row(c) \in Cell /\ Torn(c) \in Cell
             /\ Text(Row(c)) /\ Text(Torn(c))
             /\ Row(c).kind = "row" /\ Torn(c).kind = "torn"
             /\ Row(c).call = c /\ Torn(c).call = c
  <2>1. Row(c) \in Cell /\ Torn(c) \in Cell
    BY DEF Cell
  <2>2. /\ Row(c).kind = "row" /\ Torn(c).kind = "torn"
        /\ Row(c).call = c /\ Torn(c).call = c
    BY DEF Row, Torn
  <2>3. QED
    BY <2>1, <2>2 DEF Text
<1>3. ASSUME NEW x \in Cell
      PROVE  /\ Text(x) => x.call \in Calls
             /\ x.kind = "row" => x = Row(x.call) /\ Text(x)
             /\ ~Text(x) => x.kind = "newline"
  <2>1. CASE \E c \in Calls : x = Row(c)
    BY <1>2, <2>1 DEF Text
  <2>2. CASE \E c \in Calls : x = Torn(c)
    BY <1>2, <2>2 DEF Text
  <2>3. CASE x = Newline
    BY <2>3 DEF Text, Newline
  <2>4. QED
    BY <2>1, <2>2, <2>3 DEF Cell
<1>4. QED
  BY <1>1, <1>2, <1>3

-----------------------------------------------------------------------------
(* The inductive invariant.                                                  *)

TypeOK ==
  /\ file \in Seq(Cell)
  /\ synced \in 0..Len(file)
  /\ DOMAIN row = Writers
  /\ place \in [Writers -> {"idle", "writing", "flushed"}]
  /\ begun \in SUBSET Calls
  /\ acked \in SUBSET begun
  /\ crashes \in Nat

\* Writers inside record() are recording different calls, each of them begun.
OwnCalls ==
  /\ \A w \in Writers : place[w] # "idle" => row[w] \in begun
  /\ \A w, v \in Writers :
        place[w] # "idle" /\ place[v] # "idle" /\ row[w] = row[v] => w = v

\* The file holds text of begun calls only, of each call in one cell at most,
\* and none of a call that is about to be written.
WrittenOnce ==
  /\ \A i \in DOMAIN file : Text(file[i]) => file[i].call \in begun
  /\ \A i, j \in DOMAIN file :
        Text(file[i]) /\ Text(file[j]) /\ file[i].call = file[j].call => i = j
  /\ \A w \in Writers : place[w] = "writing" =>
        \A i \in DOMAIN file : Text(file[i]) => file[i].call # row[w]

\* The line of call c, row and newline, lies within the first n cells.
LineWithin(c, n) ==
  \E i \in DOMAIN file : i + 1 <= n /\ file[i] = Row(c) /\ file[i + 1] = Newline

\* A writer that has flushed finds its line in the file; a call whose record()
\* returned has its line on the disk.
Landed ==
  /\ \A w \in Writers : place[w] = "flushed" => LineWithin(row[w], Len(file))
  /\ \A c \in acked : LineWithin(c, synced)

\* Where a text is followed by something else than a newline.  Only a crash
\* leaves such a place, and an append closes none and opens none.
OpenEnds(f) ==
  {i \in DOMAIN f : Text(f[i]) /\ (i + 1 \in DOMAIN f => Text(f[i + 1]))}

EndsBounded ==
  IsFiniteSet(OpenEnds(file)) /\ Cardinality(OpenEnds(file)) <= crashes

Inv == TypeOK /\ OwnCalls /\ WrittenOnce /\ Landed
IInv == Inv /\ EndsBounded

-----------------------------------------------------------------------------
(* What each step leaves of the file.                                        *)

\* g begins with the first n cells of f.
KeepsFirst(f, g, n) ==
  n <= Len(g) /\ \A i \in 1..n : g[i] = f[i]

LEMMA WrittenFile ==
  ASSUME TypeOK, NEW c \in Calls, file' = file \o Line(c)
  PROVE  /\ file' \in Seq(Cell)
         /\ Len(file') = Len(file) + 2
         /\ KeepsFirst(file, file', Len(file))
         /\ file'[Len(file) + 1] = Row(c)
         /\ file'[Len(file) + 2] = Newline
<1>1. Row(c) \in Cell /\ Newline \in Cell
  BY CellKinds
<1>2. file \in Seq(Cell) /\ Len(file) \in Nat
  BY LenProperties DEF TypeOK
<1>3. <<Row(c), Newline>> \in Seq(Cell) /\ Len(<<Row(c), Newline>>) = 2
  BY <1>1
<1>4. file' \in Seq(Cell) /\ Len(file') = Len(file) + 2
  BY <1>2, <1>3, ConcatProperties DEF Line
<1>5. \A i \in 1..(Len(file) + 2) :
          file'[i] = IF i <= Len(file) THEN file[i]
                                       ELSE <<Row(c), Newline>>[i - Len(file)]
  BY <1>2, <1>3, ConcatProperties DEF Line
<1>6. QED
  BY <1>2, <1>4, <1>5 DEF KeepsFirst

LEMMA TornFile ==
  ASSUME TypeOK, NEW c \in Calls,
         NEW part \in Fragments(c), file' = file \o part
  PROVE  /\ file' \in Seq(Cell)
         /\ Len(file') = Len(file) + 1
         /\ KeepsFirst(file, file', Len(file))
         /\ file'[Len(file) + 1] \in {Row(c), Torn(c)}
<1>1. Row(c) \in Cell /\ Torn(c) \in Cell
  BY CellKinds
<1>2. file \in Seq(Cell) /\ Len(file) \in Nat
  BY LenProperties DEF TypeOK
<1>3. PICK x \in {Row(c), Torn(c)} : part = <<x>>
  BY DEF Fragments
<1>4. <<x>> \in Seq(Cell) /\ Len(<<x>>) = 1
  BY <1>1
<1>5. file' \in Seq(Cell) /\ Len(file') = Len(file) + 1
  BY <1>2, <1>3, <1>4, ConcatProperties
<1>6. \A i \in 1..(Len(file) + 1) :
          file'[i] = IF i <= Len(file) THEN file[i] ELSE <<x>>[i - Len(file)]
  BY <1>2, <1>3, <1>4, ConcatProperties
<1>7. QED
  BY <1>2, <1>5, <1>6, <1>3 DEF KeepsFirst

\* What is left of the file after a power failure: a first part that holds all
\* that was synced, its last row possibly cut short.
LEMMA SurvivingFile ==
  ASSUME TypeOK, NEW f \in Surviving
  PROVE  /\ f \in Seq(Cell)
         /\ Len(f) \in synced..Len(file)
         /\ KeepsFirst(file, f, synced)
         /\ \A i \in 1..Len(f) :
               /\ Text(f[i]) <=> Text(file[i])
               /\ Text(f[i]) => f[i].call = file[i].call
<1>1. file \in Seq(Cell) /\ Len(file) \in Nat /\ synced \in 0..Len(file)
  BY LenProperties DEF TypeOK
<1>2. \A n \in synced..Len(file) :
         /\ SubSeq(file, 1, n) \in Seq(Cell)
         /\ Len(SubSeq(file, 1, n)) = n
         /\ \A i \in 1..n : SubSeq(file, 1, n)[i] = file[i]
  BY <1>1, SubSeqProperties
<1>3. CASE \E n \in synced..Len(file) : f = SubSeq(file, 1, n)
  BY <1>1, <1>2, <1>3 DEF KeepsFirst
<1>4. CASE \E n \in synced..Len(file) :
             /\ n > synced
             /\ SubSeq(file, 1, n)[n].kind = "row"
             /\ f = [SubSeq(file, 1, n) EXCEPT
                        ![n] = Torn(SubSeq(file, 1, n)[n].call)]
  <2>1. PICK n \in synced..Len(file) :
             /\ n > synced
             /\ SubSeq(file, 1, n)[n].kind = "row"
             /\ f = [SubSeq(file, 1, n) EXCEPT
                        ![n] = Torn(SubSeq(file, 1, n)[n].call)]
    BY <1>4
  <2> DEFINE g == SubSeq(file, 1, n)
  <2>2. g \in Seq(Cell) /\ Len(g) = n /\ \A i \in 1..n : g[i] = file[i]
    BY <1>2
  <2>3. n \in 1..n /\ g[n] \in Cell /\ g[n] = file[n]
    BY <1>1, <2>1, <2>2, ElementOfSeq
  <2>4. /\ Text(g[n]) /\ g[n].call \in Calls
        /\ Torn(g[n].call) \in Cell /\ Text(Torn(g[n].call))
        /\ Torn(g[n].call).call = g[n].call
    BY <2>1, <2>3, CellKinds
  <2> HIDE DEF g
  <2>5. /\ f \in Seq(Cell) /\ Len(f) = n
        /\ \A i \in 1..n : f[i] = IF i = n THEN Torn(g[n].call) ELSE g[i]
    <3>1. f = [g EXCEPT ![n] = Torn(g[n].call)]
      BY <2>1 DEF g
    <3>2. QED
      BY <3>1, <2>2, <2>3, <2>4, ExceptSeq
  <2>6. QED
    BY <1>1, <2>1, <2>2, <2>3, <2>4, <2>5 DEF KeepsFirst
<1>5. \/ \E n \in synced..Len(file) : f = SubSeq(file, 1, n)
      \/ \E g \in {SubSeq(file, 1, n) : n \in synced..Len(file)} :
             /\ Len(g) > synced /\ g[Len(g)].kind = "row"
             /\ f = [g EXCEPT ![Len(g)] = Torn(g[Len(g)].call)]
  BY Zenon DEF Surviving
<1>6. ASSUME NEW n \in synced..Len(file), NEW g, g = SubSeq(file, 1, n),
             Len(g) > synced, g[Len(g)].kind = "row",
             f = [g EXCEPT ![Len(g)] = Torn(g[Len(g)].call)]
      PROVE  /\ n > synced
             /\ SubSeq(file, 1, n)[n].kind = "row"
             /\ f = [SubSeq(file, 1, n) EXCEPT
                        ![n] = Torn(SubSeq(file, 1, n)[n].call)]
  <2>1. Len(g) = n
    BY <1>2, <1>6
  <2>2. QED
    BY <2>1, <1>6
<1>7. QED
  BY <1>3, <1>4, <1>5, <1>6

-----------------------------------------------------------------------------

LEMMA InitInv == LedgerInit => IInv
<1> SUFFICES ASSUME LedgerInit PROVE IInv
  OBVIOUS
<1>1. file = <<>> /\ file \in Seq(Cell) /\ Len(file) = 0 /\ DOMAIN file = {}
  BY DEF LedgerInit
<1>2. TypeOK
  BY <1>1 DEF LedgerInit, TypeOK
<1>3. OwnCalls /\ WrittenOnce /\ Landed
  BY <1>1 DEF LedgerInit, OwnCalls, WrittenOnce, Landed
<1>4. OpenEnds(file) = {}
  BY <1>1 DEF OpenEnds
<1>5. EndsBounded
  BY <1>4, FS_EmptySet DEF EndsBounded, LedgerInit
<1>6. QED
  BY <1>2, <1>3, <1>5 DEF IInv, Inv

-----------------------------------------------------------------------------
(* One step for each action: the invariant.                                  *)

LEMMA LineSurvives ==
  ASSUME TypeOK, TypeOK', NEW c, NEW n \in 0..Len(file), NEW m \in Nat, n <= m,
         KeepsFirst(file, file', n), LineWithin(c, n)
  PROVE  \E i \in DOMAIN file' : /\ i + 1 <= m
                                 /\ file'[i] = Row(c) /\ file'[i + 1] = Newline
<1>1. PICK i \in DOMAIN file :
         i + 1 <= n /\ file[i] = Row(c) /\ file[i + 1] = Newline
  BY DEF LineWithin
<1>2. DOMAIN file = 1..Len(file) /\ DOMAIN file' = 1..Len(file')
      /\ Len(file') \in Nat /\ Len(file) \in Nat
  BY LenProperties DEF TypeOK
<1>3. i \in DOMAIN file' /\ file'[i] = file[i] /\ file'[i + 1] = file[i + 1]
  BY <1>1, <1>2 DEF KeepsFirst
<1>4. QED
  BY <1>1, <1>3

LEMMA OpenStep ==
  ASSUME Inv, NEW w \in Writers, NEW c \in Calls, Open(w, c)
  PROVE  Inv'
<1>1. TypeOK'
  BY DEF Inv, TypeOK, Open
<1>2. OwnCalls'
  BY DEF Inv, TypeOK, OwnCalls, Open
<1>3. WrittenOnce'
  BY DEF Inv, TypeOK, WrittenOnce, Open
<1>4. Landed'
  BY DEF Inv, TypeOK, Landed, LineWithin, Open
<1>5. QED
  BY <1>1, <1>2, <1>3, <1>4 DEF Inv

LEMMA WriteStep ==
  ASSUME Inv, NEW w \in Writers, Write(w)
  PROVE  Inv'
<1> DEFINE c == row[w]
<1>1. place[w] = "writing" /\ c \in begun /\ c \in Calls
  BY DEF Inv, TypeOK, OwnCalls, Write
<1>2. /\ file' \in Seq(Cell)
      /\ Len(file') = Len(file) + 2
      /\ KeepsFirst(file, file', Len(file))
      /\ file'[Len(file) + 1] = Row(c)
      /\ file'[Len(file) + 2] = Newline
  <2> HIDE DEF c
  <2>1. file' = file \o Line(c)
    BY DEF Write, c
  <2>2. QED
    BY <1>1, <2>1, WrittenFile DEF Inv
<1>3. /\ Len(file) \in Nat /\ DOMAIN file = 1..Len(file)
      /\ DOMAIN file' = 1..(Len(file) + 2)
  BY <1>2, LenProperties DEF Inv, TypeOK
<1>4. /\ \A i \in 1..Len(file) : file'[i] = file[i]
      /\ Text(file'[Len(file) + 1]) /\ file'[Len(file) + 1].call = c
      /\ ~Text(file'[Len(file) + 2])
  BY <1>1, <1>2, CellKinds DEF KeepsFirst
<1>5. TypeOK'
  BY <1>2, <1>3 DEF Inv, TypeOK, Write
<1>6. OwnCalls'
  BY DEF Inv, TypeOK, OwnCalls, Write
<1>7. WrittenOnce'
  <2>1. \A i \in DOMAIN file' : Text(file'[i]) =>
           \/ i \in DOMAIN file /\ file'[i] = file[i] /\ file[i].call # c
           \/ i = Len(file) + 1 /\ file'[i].call = c
    BY <1>1, <1>3, <1>4 DEF Inv, WrittenOnce
  <2>2. (\A i \in DOMAIN file : Text(file[i]) => file[i].call \in begun)'
    BY <1>1, <2>1 DEF Inv, WrittenOnce, Write
  <2>3. (\A i, j \in DOMAIN file :
          Text(file[i]) /\ Text(file[j]) /\ file[i].call = file[j].call => i = j)'
    BY <2>1 DEF Inv, WrittenOnce
  <2>4. (\A v \in Writers : place[v] = "writing" =>
          \A i \in DOMAIN file : Text(file[i]) => file[i].call # row[v])'
    <3>1. ASSUME NEW v \in Writers, place'[v] = "writing"
          PROVE  place[v] = "writing" /\ row[v] # c /\ row'[v] = row[v]
      BY <1>1, <3>1 DEF Inv, TypeOK, OwnCalls, Write
    <3>2. QED
      BY <2>1, <3>1 DEF Inv, WrittenOnce
  <2>5. QED
    BY <2>2, <2>3, <2>4 DEF WrittenOnce
<1>8. Landed'
  <2>1. ASSUME NEW v \in Writers, place'[v] = "flushed"
        PROVE  LineWithin(row[v], Len(file))'
    <3>1. CASE v = w
      <4>1. row'[v] = c
        BY <3>1 DEF Write
      <4>2. Len(file) + 1 \in DOMAIN file' /\ (Len(file) + 1) + 1 = Len(file')
        BY <1>2, <1>3
      <4>3. (Len(file) + 1) + 1 = Len(file) + 2 /\ Len(file') <= Len(file')
        BY <1>2, <1>3
      <4>4. QED
        BY <1>2, <4>1, <4>2, <4>3 DEF LineWithin
    <3>2. CASE v # w
      <4>1. LineWithin(row[v], Len(file))
        BY <2>1, <3>2 DEF Inv, TypeOK, Landed, Write
      <4>2. QED
        BY <4>1, <1>2, <1>3, <1>5, LineSurvives DEF Inv, LineWithin, Write
    <3>3. QED
      BY <3>1, <3>2
  <2>2. ASSUME NEW d \in acked'
        PROVE  LineWithin(d, synced)'
    <3>1. LineWithin(d, synced) /\ synced \in 0..Len(file) /\ synced' = synced
      BY <2>2 DEF Inv, TypeOK, Landed, Write
    <3>2. KeepsFirst(file, file', synced)
      BY <1>2, <1>3, <3>1 DEF KeepsFirst
    <3>3. QED
      BY <3>1, <3>2, <1>5, LineSurvives DEF Inv, LineWithin
  <2>3. QED
    BY <2>1, <2>2 DEF Landed
<1>9. QED
  BY <1>5, <1>6, <1>7, <1>8 DEF Inv

LEMMA SyncStep ==
  ASSUME Inv, NEW w \in Writers, Sync(w)
  PROVE  Inv'
<1>1. /\ place[w] = "flushed" /\ row[w] \in begun /\ file' = file
      /\ LineWithin(row[w], Len(file)) /\ synced' = Len(file)
      /\ Len(file) \in Nat /\ synced \in 0..Len(file)
  BY LenProperties DEF Inv, TypeOK, OwnCalls, Landed, Sync
<1>2. TypeOK'
  BY <1>1 DEF Inv, TypeOK, Sync
<1>3. OwnCalls'
  BY DEF Inv, TypeOK, OwnCalls, Sync
<1>4. WrittenOnce'
  BY DEF Inv, TypeOK, WrittenOnce, Sync
<1>5. Landed'
  <2>1. ASSUME NEW v \in Writers, place'[v] = "flushed"
        PROVE  LineWithin(row[v], Len(file))'
    BY <2>1 DEF Inv, TypeOK, Landed, Sync, LineWithin
  <2>2. ASSUME NEW d \in acked'
        PROVE  LineWithin(d, synced)'
    <3>1. LineWithin(d, Len(file))
      <4>1. CASE d = row[w]
        BY <1>1, <4>1
      <4>2. CASE d \in acked
        BY <1>1, <4>2 DEF Inv, Landed, LineWithin
      <4>3. QED
        BY <2>2, <4>1, <4>2 DEF Sync
    <3>2. QED
      BY <1>1, <3>1 DEF LineWithin
  <2>3. QED
    BY <2>1, <2>2 DEF Landed
<1>6. QED
  BY <1>2, <1>3, <1>4, <1>5 DEF Inv

LEMMA DieStep ==
  ASSUME Inv, NEW w \in Writers, Die(w)
  PROVE  /\ Inv'
         /\ OpenEnds(file)' \subseteq OpenEnds(file) \union {Len(file')}
<1> DEFINE c == row[w]
<1>1. /\ place[w] # "idle" /\ place' = [place EXCEPT ![w] = "idle"]
      /\ row' = row /\ begun' = begun /\ acked' = acked /\ synced' = synced
      /\ c \in begun /\ c \in Calls
      /\ crashes \in Nat /\ crashes' = crashes + 1
  BY DEF Inv, TypeOK, OwnCalls, Die
<1>2. /\ Len(file) \in Nat /\ DOMAIN file = 1..Len(file)
      /\ synced \in 0..Len(file)
  BY LenProperties DEF Inv, TypeOK
<1>3. OwnCalls'
  BY <1>1 DEF Inv, TypeOK, OwnCalls
<1>4. CASE file' = file
  <2>1. TypeOK'
    BY <1>1, <1>4 DEF Inv, TypeOK
  <2>2. WrittenOnce'
    BY <1>1, <1>4 DEF Inv, TypeOK, WrittenOnce
  <2>3. Landed'
    BY <1>1, <1>4 DEF Inv, TypeOK, Landed, LineWithin
  <2>4. OpenEnds(file)' = OpenEnds(file)
    BY <1>4 DEF OpenEnds
  <2>5. QED
    BY <1>3, <2>1, <2>2, <2>3, <2>4 DEF Inv
<1>5. CASE place[w] = "writing" /\ \E part \in Fragments(row[w]) : file' = file \o part
  <2>1. /\ file' \in Seq(Cell)
        /\ Len(file') = Len(file) + 1
        /\ KeepsFirst(file, file', Len(file))
        /\ file'[Len(file) + 1] \in {Row(c), Torn(c)}
    <3>1. PICK part \in Fragments(c) : file' = file \o part
      BY <1>5
    <3> HIDE DEF c
    <3>2. QED
      BY <1>1, <3>1, TornFile DEF Inv
  <2>2. /\ \A i \in 1..Len(file) : file'[i] = file[i]
        /\ Text(file'[Len(file) + 1]) /\ file'[Len(file) + 1].call = c
        /\ DOMAIN file' = 1..(Len(file) + 1)
    BY <1>1, <2>1, CellKinds DEF KeepsFirst
  <2>3. TypeOK'
    BY <1>1, <1>2, <2>1 DEF Inv, TypeOK
  <2>4. WrittenOnce'
    <3>1. \A i \in DOMAIN file' : Text(file'[i]) =>
             \/ i \in DOMAIN file /\ file'[i] = file[i] /\ file[i].call # c
             \/ i = Len(file) + 1 /\ file'[i].call = c
      BY <1>2, <1>5, <2>2 DEF Inv, WrittenOnce
    <3>2. (\A i \in DOMAIN file : Text(file[i]) => file[i].call \in begun)'
      BY <1>1, <3>1 DEF Inv, WrittenOnce
    <3>3. (\A i, j \in DOMAIN file :
          Text(file[i]) /\ Text(file[j]) /\ file[i].call = file[j].call => i = j)'
      BY <3>1 DEF Inv, WrittenOnce
    <3>4. (\A v \in Writers : place[v] = "writing" =>
          \A i \in DOMAIN file : Text(file[i]) => file[i].call # row[v])'
      <4>1. ASSUME NEW v \in Writers, place'[v] = "writing"
            PROVE  place[v] = "writing" /\ row[v] # c /\ row'[v] = row[v]
        BY <1>1, <1>5, <4>1 DEF Inv, TypeOK, OwnCalls
      <4>2. QED
        BY <3>1, <4>1 DEF Inv, WrittenOnce
    <3>5. QED
      BY <3>2, <3>3, <3>4 DEF WrittenOnce
  <2>5. Landed'
    <3>1. ASSUME NEW v \in Writers, place'[v] = "flushed"
          PROVE  LineWithin(row[v], Len(file))'
      <4>1. LineWithin(row[v], Len(file))
        BY <1>1, <3>1 DEF Inv, TypeOK, Landed
      <4>2. Len(file) \in 0..Len(file) /\ Len(file') \in Nat /\ Len(file) <= Len(file')
        BY <1>2, <2>1
      <4>3. KeepsFirst(file, file', Len(file)) /\ row'[v] = row[v] /\ TypeOK
        BY <1>1, <2>1 DEF Inv
      <4>4. \E i \in DOMAIN file' : /\ i + 1 <= Len(file')
                                   /\ file'[i] = Row(row[v]) /\ file'[i + 1] = Newline
        BY <2>3, <4>1, <4>2, <4>3, LineSurvives
      <4>5. QED
        BY <4>3, <4>4 DEF LineWithin
    <3>2. ASSUME NEW d \in acked'
          PROVE  LineWithin(d, synced)'
      <4>1. LineWithin(d, synced)
        BY <1>1, <3>2 DEF Inv, Landed
      <4>2. KeepsFirst(file, file', synced)
        BY <1>2, <2>1 DEF KeepsFirst
      <4>3. QED
        BY <4>1, <4>2, <1>1, <1>2, <2>3, LineSurvives DEF Inv, LineWithin
    <3>3. QED
      BY <3>1, <3>2 DEF Landed
  <2>6. OpenEnds(file)' \subseteq OpenEnds(file) \union {Len(file')}
    BY <1>2, <2>1, <2>2 DEF OpenEnds
  <2>7. QED
    BY <1>3, <2>3, <2>4, <2>5, <2>6 DEF Inv
<1>6. QED
  BY <1>4, <1>5 DEF Die

LEMMA PowerFailsStep ==
  ASSUME Inv, PowerFails
  PROVE  /\ Inv'
         /\ OpenEnds(file)' \subseteq OpenEnds(file) \union {Len(file')}
<1>1. /\ row' = row /\ begun' = begun /\ acked' = acked /\ synced' = Len(file')
      /\ place' = [w \in Writers |-> "idle"]
      /\ crashes \in Nat /\ crashes' = crashes + 1
  BY DEF Inv, TypeOK, PowerFails
<1>2. /\ Len(file) \in Nat /\ DOMAIN file = 1..Len(file)
      /\ synced \in 0..Len(file)
  BY LenProperties DEF Inv, TypeOK
<1>3. /\ file' \in Seq(Cell)
      /\ Len(file') \in synced..Len(file)
      /\ KeepsFirst(file, file', synced)
      /\ \A i \in 1..Len(file') :
            /\ Text(file'[i]) <=> Text(file[i])
            /\ Text(file'[i]) => file'[i].call = file[i].call
  BY SurvivingFile DEF Inv, PowerFails
<1>4. DOMAIN file' = 1..Len(file') /\ Len(file') \in Nat
  BY <1>3, LenProperties
<1>5. TypeOK'
  BY <1>1, <1>2, <1>3, <1>4 DEF Inv, TypeOK
<1>6. OwnCalls'
  BY <1>1 DEF OwnCalls
<1>7. WrittenOnce'
  BY <1>1, <1>2, <1>3, <1>4 DEF Inv, WrittenOnce
<1>8. Landed'
  <2>1. ASSUME NEW d \in acked'
        PROVE  LineWithin(d, synced)'
    <3>1. LineWithin(d, synced)
      BY <1>1, <2>1 DEF Inv, Landed
    <3>2. QED
      BY <3>1, <1>1, <1>2, <1>3, <1>4, <1>5, LineSurvives DEF Inv, LineWithin
  <2>2. QED
    BY <1>1, <2>1 DEF Landed
<1>9. OpenEnds(file)' \subseteq OpenEnds(file) \union {Len(file')}
  BY <1>2, <1>3, <1>4 DEF OpenEnds
<1>10. QED
  BY <1>5, <1>6, <1>7, <1>8, <1>9 DEF Inv

LEMMA InvStep == Inv /\ [LedgerNext]_ledgerVars => Inv'
<1> SUFFICES ASSUME Inv, [LedgerNext]_ledgerVars PROVE Inv'
  OBVIOUS
<1>1. ASSUME NEW w \in Writers, NEW c \in Calls, Open(w, c) PROVE Inv'
  BY <1>1, OpenStep
<1>2. ASSUME NEW w \in Writers, Write(w) PROVE Inv'
  BY <1>2, WriteStep
<1>3. ASSUME NEW w \in Writers, Sync(w) PROVE Inv'
  BY <1>3, SyncStep
<1>4. ASSUME NEW w \in Writers, Die(w) PROVE Inv'
  BY <1>4, DieStep
<1>5. CASE PowerFails
  BY <1>5, PowerFailsStep
<1>6. CASE UNCHANGED ledgerVars
  BY <1>6 DEF ledgerVars, Inv, TypeOK, OwnCalls, WrittenOnce, Landed, LineWithin
<1>7. QED
  BY <1>1, <1>2, <1>3, <1>4, <1>5, <1>6 DEF LedgerNext

-----------------------------------------------------------------------------
(* What is read back.                                                        *)

\* The positions rows() reads are texts with a newline, or an edge of the file,
\* on either side.
LEMMA ReadableCells ==
  ASSUME TypeOK, NEW i \in ReadablePositions(file)
  PROVE  /\ i \in DOMAIN file /\ Text(file[i]) /\ file[i].call \in Calls
         /\ file[i] = Row(file[i].call)
         /\ i - 1 \in DOMAIN file => ~Text(file[i - 1])
         /\ i + 1 \in DOMAIN file => ~Text(file[i + 1])
<1>1. i \in DOMAIN file /\ file[i].kind = "row"
  BY DEF ReadablePositions
<1>2. file[i] \in Cell
  BY <1>1, ElementOfSeq, LenProperties DEF TypeOK
<1>3. QED
  BY <1>1, <1>2, CellKinds DEF ReadablePositions, IsNewline, Text

THEOREM NothingInventedIsInvariant == LedgerSpec => []NothingInvented
<1>1. Inv => NothingInvented
  <2> SUFFICES ASSUME Inv PROVE NothingInvented
    OBVIOUS
  <2>1. \A i \in ReadablePositions(file) :
           i \in DOMAIN file /\ Text(file[i]) /\ file[i].call \in begun
    BY ReadableCells DEF Inv, WrittenOnce
  <2>2. rows(file) \subseteq begun
    BY <2>1 DEF rows
  <2>3. \A i, j \in ReadablePositions(file) : file[i].call = file[j].call => i = j
    BY <2>1 DEF Inv, WrittenOnce
  <2>4. QED
    BY <2>2, <2>3 DEF NothingInvented
<1>2. LedgerInit => Inv
  BY InitInv DEF IInv
<1>3. QED
  BY <1>1, <1>2, InvStep, PTL DEF LedgerSpec

\* Where the line of a call is decided once and for all: within what is on the
\* disk a step changes nothing.
LEMMA SyncedPartStays ==
  ASSUME Inv, [LedgerNext]_ledgerVars
  PROVE  KeepsFirst(file, file', synced)
<1>1. /\ synced \in 0..Len(file) /\ Len(file) \in Nat
  BY LenProperties DEF Inv, TypeOK
<1>2. ASSUME file' = file PROVE KeepsFirst(file, file', synced)
  BY <1>1, <1>2 DEF KeepsFirst
<1>3. ASSUME KeepsFirst(file, file', Len(file)) PROVE KeepsFirst(file, file', synced)
  <2>1. Len(file') \in Nat
    <3>1. file' \in Seq(Cell)
      BY InvStep DEF Inv, TypeOK
    <3>2. QED
      BY <3>1, LenProperties
  <2>2. QED
    BY <1>1, <1>3, <2>1 DEF KeepsFirst
<1>4. ASSUME NEW w \in Writers, Write(w) PROVE KeepsFirst(file, file', synced)
  <2>1. row[w] \in Calls /\ file' = file \o Line(row[w])
    BY <1>4 DEF Inv, TypeOK, OwnCalls, Write
  <2>2. QED
    BY <1>3, <2>1, WrittenFile DEF Inv
<1>5. ASSUME NEW w \in Writers, Die(w) PROVE KeepsFirst(file, file', synced)
  <2>1. row[w] \in Calls
    BY <1>5 DEF Inv, TypeOK, OwnCalls, Die
  <2>2. CASE \E part \in Fragments(row[w]) : file' = file \o part
    BY <1>3, <2>1, <2>2, TornFile DEF Inv
  <2>3. QED
    BY <1>2, <1>5, <2>2 DEF Die
<1>6. ASSUME PowerFails PROVE KeepsFirst(file, file', synced)
  BY <1>6, SurvivingFile DEF Inv, PowerFails
<1>7. QED
  BY <1>2, <1>4, <1>5, <1>6 DEF LedgerNext, Open, Sync, ledgerVars

THEOREM AckedRowsStayIsGuaranteed == LedgerSpec => AckedRowsStay
<1>1. ASSUME Inv, [LedgerNext]_ledgerVars, NEW c \in acked, c \in rows(file)
      PROVE  c \in rows(file')
  <2>1. PICK i \in ReadablePositions(file) : file[i].call = c
    BY <1>1 DEF rows
  <2>2. /\ i \in DOMAIN file /\ Text(file[i]) /\ c \in Calls
        /\ file[i] = Row(c) /\ Row(c).call = c /\ Row(c).kind = "row"
        /\ i - 1 \in DOMAIN file => ~Text(file[i - 1])
    BY <1>1, <2>1, ReadableCells, CellKinds DEF Inv
  <2>3. i + 1 <= synced /\ ~Text(file[i + 1])
    <3>1. PICK j \in DOMAIN file :
              j + 1 <= synced /\ file[j] = Row(c) /\ file[j + 1] = Newline
      BY <1>1 DEF Inv, Landed, LineWithin
    <3>2. j = i
      BY <1>1, <2>2, <3>1 DEF Inv, WrittenOnce
    <3>3. QED
      BY <3>1, <3>2, CellKinds
  <2>4. /\ DOMAIN file = 1..Len(file) /\ DOMAIN file' = 1..Len(file')
        /\ Len(file) \in Nat /\ Len(file') \in Nat /\ synced \in 0..Len(file)
    BY <1>1, InvStep, LenProperties DEF Inv, TypeOK
  <2>5. synced <= Len(file') /\ \A j \in 1..synced : file'[j] = file[j]
    BY <1>1, SyncedPartStays DEF KeepsFirst
  <2>6. i \in DOMAIN file' /\ file'[i] = Row(c)
    BY <2>2, <2>3, <2>4, <2>5
  <2>7. IsNewline(file', i - 1) /\ IsNewline(file', i + 1)
    BY <2>2, <2>3, <2>4, <2>5 DEF IsNewline, Text
  <2>8. i \in ReadablePositions(file')
    BY <2>2, <2>6, <2>7 DEF ReadablePositions
  <2>9. QED
    BY <2>2, <2>6, <2>8 DEF rows
<1>2. Inv /\ [LedgerNext]_ledgerVars
         => [\A c \in acked : c \in rows(file) => c \in rows(file')]_ledgerVars
  BY <1>1
<1>3. LedgerInit => Inv
  BY InitInv DEF IInv
<1>4. QED
  BY <1>2, <1>3, InvStep, PTL DEF LedgerSpec, AckedRowsStay

-----------------------------------------------------------------------------
(* Counting what is lost.                                                    *)

\* A returned call that is not read back sits behind an open end.
LEMMA LostBehindOpenEnd ==
  ASSUME Inv, NEW c \in acked \ rows(file)
  PROVE  \E e \in OpenEnds(file) : e + 1 \in DOMAIN file /\ file[e + 1] = Row(c)
<1>1. PICK i \in DOMAIN file :
         i + 1 <= synced /\ file[i] = Row(c) /\ file[i + 1] = Newline
  BY DEF Inv, Landed, LineWithin
<1>2. /\ c \in Calls /\ Row(c).kind = "row" /\ Row(c).call = c /\ Text(Row(c))
      /\ Newline.kind = "newline"
  BY CellKinds DEF Inv, TypeOK, Text
<1>3. DOMAIN file = 1..Len(file) /\ Len(file) \in Nat
  BY LenProperties DEF Inv, TypeOK
<1>4. i - 1 \in DOMAIN file /\ Text(file[i - 1])
  <2>1. IsNewline(file, i + 1)
    BY <1>1, <1>2 DEF IsNewline
  <2>2. i \notin ReadablePositions(file)
    BY <1>1, <1>2 DEF rows
  <2>3. ~IsNewline(file, i - 1)
    BY <1>1, <1>2, <2>1, <2>2 DEF ReadablePositions
  <2>4. QED
    BY <2>3 DEF IsNewline, Text
<1>5. i - 1 \in OpenEnds(file) /\ (i - 1) + 1 = i
  BY <1>1, <1>2, <1>3, <1>4 DEF OpenEnds
<1>6. QED
  BY <1>1, <1>5

LEMMA LossIsCounted == IInv => AckedLossBounded
<1> SUFFICES ASSUME IInv PROVE AckedLossBounded
  OBVIOUS
<1> DEFINE Lost == acked \ rows(file)
           Ends == OpenEnds(file)
           Behind(c) == CHOOSE e \in Ends : e + 1 \in DOMAIN file /\ file[e + 1] = Row(c)
           behind == [c \in Lost |-> Behind(c)]
<1>1. \A c \in Lost : /\ behind[c] \in Ends
                     /\ file[behind[c] + 1] = Row(c)
                     /\ Row(c).call = c
  <2>1. ASSUME NEW c \in Lost
        PROVE  /\ behind[c] \in Ends /\ file[behind[c] + 1] = Row(c)
               /\ Row(c).call = c
    <3>1. \E e \in Ends : e + 1 \in DOMAIN file /\ file[e + 1] = Row(c)
      BY LostBehindOpenEnd DEF IInv
    <3>2. Row(c).call = c
      BY DEF Row
    <3>3. QED
      BY <3>1, <3>2
  <2>2. QED
    BY <2>1
<1>2. behind \in [Lost -> Ends]
  BY <1>1
<1>3. \A c, d \in Lost : behind[c] = behind[d] => c = d
  <2> HIDE DEF behind, Lost
  <2> QED BY <1>1
<1>4. behind \in Injection(Lost, Ends)
  <2> HIDE DEF behind, Lost, Ends
  <2> QED BY <1>2, <1>3 DEF Injection, IsInjective
<1>5. IsFiniteSet(Ends) /\ Cardinality(Ends) <= crashes /\ crashes \in Nat
  BY DEF IInv, Inv, TypeOK, EndsBounded
<1>6. IsFiniteSet(Lost) /\ Cardinality(Lost) <= Cardinality(Ends)
  <2> HIDE DEF behind, Lost, Ends
  <2> QED BY <1>4, <1>5, FS_Injection
<1>7. Cardinality(Lost) \in Nat /\ Cardinality(Ends) \in Nat
  <2> HIDE DEF behind, Lost, Ends
  <2> QED BY <1>5, <1>6, FS_CardinalityType
<1>8. Cardinality(Lost) <= crashes
  <2> HIDE DEF behind, Lost, Ends
  <2> QED BY <1>5, <1>6, <1>7
<1>9. QED
  BY <1>8 DEF AckedLossBounded

LEMMA EndsStep == IInv /\ [LedgerNext]_ledgerVars => EndsBounded'
<1> SUFFICES ASSUME IInv, [LedgerNext]_ledgerVars PROVE EndsBounded'
  OBVIOUS
<1>1. /\ Inv /\ IsFiniteSet(OpenEnds(file))
      /\ Cardinality(OpenEnds(file)) <= crashes /\ crashes \in Nat
  BY DEF IInv, Inv, TypeOK, EndsBounded
<1>2. ASSUME OpenEnds(file)' = OpenEnds(file), crashes' = crashes
      PROVE  EndsBounded'
  BY <1>1, <1>2 DEF EndsBounded
<1>3. ASSUME OpenEnds(file)' \subseteq OpenEnds(file) \union {Len(file')},
             crashes' = crashes + 1
      PROVE  EndsBounded'
  <2> DEFINE Old == OpenEnds(file)
             New == OpenEnds(file)'
             More == Old \union {Len(file')}
  <2>1. /\ IsFiniteSet(More) /\ Cardinality(Old) \in Nat
        /\ Cardinality(More) <= Cardinality(Old) + 1
    <3> HIDE DEF Old
    <3>1. IsFiniteSet(Old)
      BY <1>1 DEF Old
    <3>2. Cardinality(Old) \in Nat
      BY <3>1, FS_CardinalityType
    <3>3. /\ IsFiniteSet(More)
          /\ Cardinality(More) = IF Len(file') \in Old THEN Cardinality(Old)
                                                       ELSE Cardinality(Old) + 1
      BY <3>1, FS_AddElement
    <3>4. QED
      BY <3>2, <3>3
  <2>2. /\ IsFiniteSet(New) /\ Cardinality(New) <= Cardinality(More)
    <3>1. New \in SUBSET More
      BY <1>3
    <3> HIDE DEF New, More
    <3>2. QED
      BY <2>1, <3>1, FS_Subset
  <2>3. Cardinality(New) \in Nat /\ Cardinality(More) \in Nat
    <3> HIDE DEF New, More
    <3> QED BY <2>1, <2>2, FS_CardinalityType
  <2>4. Cardinality(New) <= crashes'
    <3> HIDE DEF New, More
    <3> QED BY <1>1, <1>3, <2>1, <2>2, <2>3
  <2>5. QED
    BY <2>2, <2>4 DEF EndsBounded
<1>4. ASSUME NEW w \in Writers, Write(w) PROVE EndsBounded'
  <2>1. row[w] \in Calls /\ file' = file \o Line(row[w])
    BY <1>1, <1>4 DEF Inv, TypeOK, OwnCalls, Write
  <2>2. /\ file' \in Seq(Cell) /\ Len(file') = Len(file) + 2
        /\ \A i \in 1..Len(file) : file'[i] = file[i]
        /\ file'[Len(file) + 1] = Row(row[w]) /\ file'[Len(file) + 2] = Newline
    BY <1>1, <2>1, WrittenFile DEF Inv, KeepsFirst
  <2>3. Text(file'[Len(file) + 1]) /\ ~Text(file'[Len(file) + 2])
    BY <2>1, <2>2, CellKinds
  <2>4. /\ DOMAIN file = 1..Len(file) /\ Len(file) \in Nat
        /\ DOMAIN file' = 1..(Len(file) + 2)
    BY <1>1, <2>2, LenProperties DEF Inv, TypeOK
  <2>5. \A i \in DOMAIN file' : i \in OpenEnds(file)' <=> i \in OpenEnds(file)
    BY <2>2, <2>3, <2>4 DEF OpenEnds
  <2>6. OpenEnds(file)' = OpenEnds(file)
    BY <2>4, <2>5 DEF OpenEnds
  <2>7. QED
    BY <1>2, <1>4, <2>6 DEF Write
<1>5. ASSUME NEW w \in Writers, Die(w) PROVE EndsBounded'
  BY <1>1, <1>3, <1>5, DieStep DEF Die
<1>6. CASE PowerFails
  BY <1>1, <1>3, <1>6, PowerFailsStep DEF PowerFails
<1>7. CASE file' = file /\ crashes' = crashes
  BY <1>2, <1>7 DEF OpenEnds
<1>8. QED
  BY <1>4, <1>5, <1>6, <1>7 DEF LedgerNext, Open, Sync, ledgerVars

THEOREM AckedLossIsBounded == LedgerSpec => []AckedLossBounded
<1>1. IInv /\ [LedgerNext]_ledgerVars => IInv'
  BY InvStep, EndsStep DEF IInv
<1>2. QED
  BY <1>1, InitInv, LossIsCounted, PTL DEF LedgerSpec

-----------------------------------------------------------------------------
(* The gateway over the file: what its cells can be, and the calls they hold. *)

Priced == [run : Runs, day : 0..LastDay, cost : 0..MaxCost]

DeskCell == {Row(r) : r \in Priced} \union {Torn(r) : r \in Priced} \union {Newline}

\* The money that the rows of a set of calls add up to.
Spent(f, S) == Total(f, {i \in ReadablePositions(f) : f[i].call \in S})

OfDay(d) == {r \in Priced : r.day = d}
OfRun(k) == {r \in Priced : r.run = k}

\* What a row adds to the money of S.
Share(r, S) == IF r \in S THEN r.cost ELSE 0

\* The file ends with a newline, or is empty: the next append is a line of its own.
Closed(f) == IsNewline(f, Len(f))

\* The money of S that the next append takes out of the totals: it lands on the
\* line of the row the file ends with.
Exposed(f, S) ==
  IF Len(f) \in ReadablePositions(f) /\ f[Len(f)].call \in S
  THEN f[Len(f)].call.cost ELSE 0

\* The answered calls of a day, and their money, one pair for each micro-dollar.
Answered(d) == {c \in Callers : pc[c] = "answered" /\ stamp[c] = d}
Bills(A, k) == UNION {{c} \X (1..k[c]) : c \in A}
Owed(d) == Bills(Answered(d), cost)

\* The calls the provider may still bill to day d without a look at its total.
Unbilled(d) ==
  {c \in Callers : \/ pc[c] = "calling" /\ d >= today
                   \/ pc[c] = "checking" /\ stamp[c] < d /\ d >= today}

\* The money that the failures so far explain.
SlackOf(n, t, u) == MaxCost * (n * G!N + t + u)
Slack == SlackOf(crashes, torn, unpriced)

DeskTypeOK ==
  /\ today \in G!Days
  /\ pc \in [Callers -> G!Outside \union {"checking", "calling", "answered"}]
  /\ cost \in [Callers -> 0..MaxCost]
  /\ stamp \in [Callers -> G!Days]
  /\ file \in Seq(DeskCell)
  /\ billed \in [G!Days -> Nat]
  /\ {crashes, torn, unpriced} \subseteq Nat

\* The clock and the callers: no day is billed or stamped before it comes.
InTime ==
  /\ \A d \in G!Days : d > today => billed[d] = 0
  /\ \A c \in Callers : stamp[c] <= today
  /\ \A c \in Callers : pc[c] \notin G!Outside => c \in Tiered

\* Only a torn append leaves the file without its last newline.
EndsTorn == ~Closed(file) => torn > 0

\* What was billed for a day was recorded, is about to be, or is explained by a
\* failure, one that has happened or the one the next append will meet.
ExplainedFor(d) ==
  /\ Spent(file, OfDay(d)) + Cardinality(Owed(d)) <= billed[d]
  /\ billed[d] + Exposed(file, OfDay(d)) + (IF Closed(file) THEN 0 ELSE MaxCost)
       <= Spent(file, OfDay(d)) + Cardinality(Owed(d)) + Slack

Explained == \A d \in G!Days : ExplainedFor(d)

\* The money the provider may still bill to a day is inside that day's bound.
Reserved ==
  \A d \in G!Days : billed[d] + Cardinality(Unbilled(d)) * MaxCost <= G!Bound + Slack

DeskInv == DeskTypeOK /\ InTime /\ EndsTorn /\ Explained /\ Reserved

-----------------------------------------------------------------------------
(* Cells and their calls.                                                    *)

LEMMA DeskCells ==
  /\ Newline \in DeskCell /\ Newline.kind = "newline"
  /\ \A r \in Priced : /\ Row(r) \in DeskCell /\ Row(r).kind = "row" /\ Row(r).call = r
                       /\ Torn(r) \in DeskCell /\ Torn(r).kind = "torn"
  /\ \A x \in DeskCell : x.kind = "row" => x.call \in Priced
<1>1. Newline \in DeskCell /\ Newline.kind = "newline"
  BY DEF DeskCell, Newline
<1>2. ASSUME NEW r \in Priced
      PROVE  /\ Row(r) \in DeskCell /\ Row(r).kind = "row" /\ Row(r).call = r
             /\ Torn(r) \in DeskCell /\ Torn(r).kind = "torn"
  <2>1. Row(r) \in DeskCell /\ Torn(r) \in DeskCell
    BY DEF DeskCell
  <2>2. Row(r).kind = "row" /\ Row(r).call = r /\ Torn(r).kind = "torn"
    BY DEF Row, Torn
  <2>3. QED
    BY <2>1, <2>2
<1>3. ASSUME NEW x \in DeskCell, x.kind = "row" PROVE x.call \in Priced
  <2>1. CASE \E r \in Priced : x = Row(r)
    BY <1>2, <2>1
  <2>2. CASE \E r \in Priced : x = Torn(r)
    BY <1>2, <1>3, <2>2
  <2>3. CASE x = Newline
    BY <1>1, <1>3, <2>3
  <2>4. QED
    BY <2>1, <2>2, <2>3 DEF DeskCell
<1>4. QED
  BY <1>1, <1>2, <1>3

LEMMA PricedFields ==
  \A r \in Priced : r.run \in Runs /\ r.day \in 0..LastDay /\ r.cost \in 0..MaxCost
BY DEF Priced

\* What a readable position holds.
LEMMA ReadableRow ==
  ASSUME NEW f \in Seq(DeskCell), NEW i \in ReadablePositions(f)
  PROVE  /\ i \in 1..Len(f)
         /\ f[i].kind = "row"
         /\ f[i].call \in Priced
         /\ f[i].call.cost \in 0..MaxCost
<1>1. i \in DOMAIN f /\ f[i].kind = "row"
  BY DEF ReadablePositions
<1>2. DOMAIN f = 1..Len(f) /\ f[i] \in DeskCell
  BY <1>1, LenProperties, ElementOfSeq
<1>3. f[i].call \in Priced
  BY <1>1, <1>2, DeskCells
<1>4. QED
  BY <1>1, <1>2, <1>3, PricedFields

-----------------------------------------------------------------------------
(* Sums: how Total changes with the positions it adds up.                    *)

LEMMA TotalIsNat ==
  ASSUME NEW f \in Seq(DeskCell), NEW P, P \subseteq ReadablePositions(f)
  PROVE  IsFiniteSet(MicroDollars(f, P)) /\ Total(f, P) \in Nat
<1>1. Len(f) \in Nat
  BY LenProperties
<1>2. IsFiniteSet((1..Len(f)) \X (1..MaxCost))
  <2>1. IsFiniteSet(1..Len(f)) /\ IsFiniteSet(1..MaxCost)
    BY <1>1, FS_Interval, MoneyAssumption
  <2>2. QED
    BY <2>1, FS_Product
<1>3. MicroDollars(f, P) \subseteq (1..Len(f)) \X (1..MaxCost)
  <2> SUFFICES ASSUME NEW i \in P
               PROVE  {i} \X (1..f[i].call.cost) \subseteq (1..Len(f)) \X (1..MaxCost)
    BY DEF MicroDollars
  <2>1. i \in 1..Len(f) /\ f[i].call.cost \in 0..MaxCost
    BY ReadableRow
  <2>2. 1..f[i].call.cost \subseteq 1..MaxCost
    BY <2>1, MoneyAssumption
  <2>3. QED
    BY <2>1, <2>2
<1>4. QED
  BY <1>2, <1>3, FS_Subset, FS_CardinalityType DEF Total

LEMMA OwnMoney ==
  ASSUME NEW x, NEW n \in Nat
  PROVE  IsFiniteSet({x} \X (1..n)) /\ Cardinality({x} \X (1..n)) = n
<1>1. IsFiniteSet({x}) /\ Cardinality({x}) = 1
  BY FS_Singleton
<1>2. IsFiniteSet(1..n) /\ Cardinality(1..n) = n
  BY FS_Interval
<1>3. Cardinality({x} \X (1..n)) = Cardinality({x}) * Cardinality(1..n)
  BY <1>1, <1>2, FS_Product
<1>4. IsFiniteSet({x} \X (1..n))
  BY <1>1, <1>2, FS_Product
<1>5. QED
  BY <1>1, <1>2, <1>3, <1>4

LEMMA TotalAddsOne ==
  ASSUME NEW f \in Seq(DeskCell), NEW P, P \subseteq ReadablePositions(f),
         NEW i \in ReadablePositions(f), i \notin P
  PROVE  Total(f, P \union {i}) = Total(f, P) + f[i].call.cost
<1> DEFINE own == {i} \X (1..f[i].call.cost)
<1>1. f[i].call.cost \in 0..MaxCost
  BY ReadableRow
<1>2. MicroDollars(f, P \union {i}) = MicroDollars(f, P) \union own
  BY DEF MicroDollars
<1>3. MicroDollars(f, P) \intersect own = {}
  <2>1. \A m \in MicroDollars(f, P) : m[1] \in P
    BY DEF MicroDollars
  <2>2. \A m \in own : m[1] = i
    OBVIOUS
  <2>3. QED
    BY <2>1, <2>2
<1>4. IsFiniteSet(own) /\ Cardinality(own) = f[i].call.cost
  <2>1. f[i].call.cost \in Nat
    BY <1>1, MoneyAssumption
  <2>2. QED
    BY <2>1, OwnMoney
<1>5. IsFiniteSet(MicroDollars(f, P)) /\ Total(f, P) \in Nat
  BY TotalIsNat
<1> HIDE DEF own
<1>6. Cardinality(MicroDollars(f, P) \union own)
        = Cardinality(MicroDollars(f, P)) + Cardinality(own)
            - Cardinality(MicroDollars(f, P) \intersect own)
  BY <1>4, <1>5, FS_Union
<1>7. Cardinality(MicroDollars(f, P) \intersect own) = 0
  BY <1>3, FS_EmptySet
<1>8. Total(f, P \union {i}) = Cardinality(MicroDollars(f, P) \union own)
  BY <1>2 DEF Total
<1>9. Total(f, P) = Cardinality(MicroDollars(f, P))
  BY DEF Total
<1>10. f[i].call.cost \in Nat
  BY <1>1, MoneyAssumption
<1>11. QED
  BY <1>4, <1>5, <1>6, <1>7, <1>8, <1>9, <1>10

LEMMA TotalOfTheSame ==
  ASSUME NEW f, NEW g, NEW P, \A i \in P : f[i] = g[i]
  PROVE  Total(f, P) = Total(g, P)
<1>1. MicroDollars(f, P) = MicroDollars(g, P)
  BY DEF MicroDollars
<1>2. QED
  BY <1>1 DEF Total

-----------------------------------------------------------------------------
(* What an append does to the rows that can be read, and to the totals.      *)

\* A position of f inside f reads in g as it does in f if its right neighbour
\* does: the left neighbours are the same.
LEMMA SameInside ==
  ASSUME NEW f \in Seq(DeskCell), NEW g \in Seq(DeskCell), Len(f) <= Len(g),
         \A i \in 1..Len(f) : g[i] = f[i], NEW i \in 1..Len(f)
  PROVE  /\ IsNewline(g, i) <=> IsNewline(f, i)
         /\ IsNewline(g, i - 1) <=> IsNewline(f, i - 1)
         /\ (IsNewline(g, i + 1) <=> IsNewline(f, i + 1))
              => (i \in ReadablePositions(g) <=> i \in ReadablePositions(f))
<1>1. /\ DOMAIN f = 1..Len(f) /\ DOMAIN g = 1..Len(g)
      /\ Len(f) \in Nat /\ Len(g) \in Nat
  BY LenProperties
<1>2. IsNewline(g, i) <=> IsNewline(f, i)
  BY <1>1 DEF IsNewline
<1>3. IsNewline(g, i - 1) <=> IsNewline(f, i - 1)
  <2>1. CASE i = 1
    BY <1>1, <2>1 DEF IsNewline
  <2>2. CASE i # 1
    <3>1. i - 1 \in 1..Len(f) /\ i - 1 \in 1..Len(g)
      BY <1>1, <2>2
    <3>2. QED
      BY <1>1, <3>1 DEF IsNewline
  <2>3. QED
    BY <2>1, <2>2
<1>4. i \in DOMAIN f /\ i \in DOMAIN g /\ g[i] = f[i]
  BY <1>1
<1>5. QED
  BY <1>2, <1>3, <1>4 DEF ReadablePositions

\* What a sequence of cells looks like behind f.
LEMMA AppendedCells ==
  ASSUME NEW f \in Seq(DeskCell), NEW t \in Seq(DeskCell)
  PROVE  /\ f \o t \in Seq(DeskCell)
         /\ Len(f \o t) = Len(f) + Len(t)
         /\ Len(f) \in Nat
         /\ \A i \in 1..Len(f) : (f \o t)[i] = f[i]
         /\ \A i \in 1..Len(t) : (f \o t)[Len(f) + i] = t[i]
<1>1. Len(f) \in Nat /\ Len(t) \in Nat
  BY LenProperties
<1>2. /\ f \o t \in Seq(DeskCell) /\ Len(f \o t) = Len(f) + Len(t)
      /\ \A i \in 1..(Len(f) + Len(t)) :
            (f \o t)[i] = IF i <= Len(f) THEN f[i] ELSE t[i - Len(f)]
  BY ConcatProperties
<1>3. \A i \in 1..Len(f) : (f \o t)[i] = f[i]
  BY <1>1, <1>2
<1>4. \A i \in 1..Len(t) : (f \o t)[Len(f) + i] = t[i]
  BY <1>1, <1>2
<1>5. QED
  BY <1>1, <1>2, <1>3, <1>4

\* A line: on a closed file it is a row more, on an open one it spoils the row
\* the file ends with, if that is one, and is not read itself.
ReadsLine(f, r, g) ==
  /\ g \in Seq(DeskCell)
  /\ Closed(g)
  /\ \A i \in 1..Len(f) : g[i] = f[i]
  /\ Closed(f) => /\ ReadablePositions(g) = ReadablePositions(f) \union {Len(f) + 1}
                  /\ g[Len(f) + 1].call = r
                  /\ Len(f) + 1 \notin ReadablePositions(f)
  /\ ~Closed(f) => ReadablePositions(g) = ReadablePositions(f) \ {Len(f)}

LEMMA LineAppended ==
  ASSUME NEW f \in Seq(DeskCell), NEW r \in Priced, NEW g, g = f \o Line(r)
  PROVE  ReadsLine(f, r, g)
<1>1. Line(r) \in Seq(DeskCell) /\ Len(Line(r)) = 2
      /\ Line(r)[1] = Row(r) /\ Line(r)[2] = Newline
  BY DeskCells DEF Line
<1>2. /\ g \in Seq(DeskCell) /\ Len(g) = Len(f) + 2 /\ Len(f) \in Nat
      /\ \A i \in 1..Len(f) : g[i] = f[i]
      /\ g[Len(f) + 1] = Row(r) /\ g[Len(f) + 2] = Newline
  <2>1. /\ f \o Line(r) \in Seq(DeskCell)
        /\ Len(f \o Line(r)) = Len(f) + Len(Line(r))
        /\ Len(f) \in Nat
        /\ \A i \in 1..Len(f) : (f \o Line(r))[i] = f[i]
        /\ \A i \in 1..Len(Line(r)) : (f \o Line(r))[Len(f) + i] = Line(r)[i]
    BY <1>1, AppendedCells
  <2>2. QED
    BY <1>1, <2>1
<1>3. \A i \in 1..Len(f) :
          /\ IsNewline(g, i) <=> IsNewline(f, i)
          /\ (IsNewline(g, i + 1) <=> IsNewline(f, i + 1))
               => (i \in ReadablePositions(g) <=> i \in ReadablePositions(f))
  <2>1. Len(f) <= Len(g)
    BY <1>2
  <2>2. QED
    BY <1>2, <2>1, SameInside
<1>4. DOMAIN f = 1..Len(f) /\ DOMAIN g = 1..(Len(f) + 2)
  BY <1>2, LenProperties
<1> HIDE DEF Row, Newline
<1>5. /\ Newline.kind = "newline" /\ Row(r).kind = "row" /\ Row(r).call = r
  BY DeskCells
<1>6. Closed(g) /\ IsNewline(g, Len(f) + 2) /\ ~IsNewline(g, Len(f) + 1)
  BY <1>2, <1>4, <1>5 DEF Closed, IsNewline
<1>7. \A i \in 1..Len(f) :
         /\ i # Len(f) => (i \in ReadablePositions(g) <=> i \in ReadablePositions(f))
         /\ i = Len(f) => i \notin ReadablePositions(g)
  <2> TAKE i \in 1..Len(f)
  <2>1. ASSUME i # Len(f)
        PROVE  i \in ReadablePositions(g) <=> i \in ReadablePositions(f)
    <3>1. i + 1 \in 1..Len(f)
      BY <1>2, <2>1
    <3>2. IsNewline(g, i + 1) <=> IsNewline(f, i + 1)
      BY <1>3, <3>1
    <3>3. QED
      BY <1>3, <3>2
  <2>2. ASSUME i = Len(f) PROVE i \notin ReadablePositions(g)
    BY <1>6, <2>2 DEF ReadablePositions
  <2>3. QED
    BY <2>1, <2>2
<1>8. Len(f) + 1 \in ReadablePositions(g) <=> Closed(f)
  <2>1. IsNewline(g, Len(f)) <=> Closed(f)
    <3>1. CASE Len(f) = 0
      BY <1>4, <3>1 DEF Closed, IsNewline
    <3>2. CASE Len(f) # 0
      <4>1. Len(f) \in 1..Len(f)
        BY <1>2, <3>2
      <4>2. QED
        BY <1>3, <4>1 DEF Closed
    <3>3. QED
      BY <3>1, <3>2
  <2>2. (Len(f) + 1) - 1 = Len(f) /\ (Len(f) + 1) + 1 = Len(f) + 2
        /\ Len(f) + 1 \in 1..(Len(f) + 2)
    BY <1>2
  <2>3. QED
    BY <1>2, <1>4, <1>5, <1>6, <2>1, <2>2 DEF ReadablePositions
<1>9. Len(f) + 2 \notin ReadablePositions(g)
  BY <1>2, <1>5 DEF ReadablePositions
<1>10. ReadablePositions(f) \subseteq 1..Len(f)
      /\ ReadablePositions(g) \subseteq 1..(Len(f) + 2)
  BY <1>4 DEF ReadablePositions
<1>11. Closed(f) => Len(f) \notin ReadablePositions(f)
  BY DEF Closed, IsNewline, ReadablePositions
<1>12. \A i \in 1..(Len(f) + 2) : i \in 1..Len(f) \/ i = Len(f) + 1 \/ i = Len(f) + 2
  BY <1>2
<1>13. Len(f) + 1 \notin 1..Len(f) /\ Len(f) + 2 \notin 1..Len(f)
       /\ Len(f) + 1 \in 1..(Len(f) + 2)
  BY <1>2
<1>14. ASSUME Closed(f)
       PROVE  ReadablePositions(g) = ReadablePositions(f) \union {Len(f) + 1}
  <2>1. \A i : i \in ReadablePositions(g) => i \in ReadablePositions(f) \union {Len(f) + 1}
    BY <1>7, <1>9, <1>10, <1>12
  <2>2. \A i : i \in ReadablePositions(f) => i \in ReadablePositions(g)
    BY <1>7, <1>10, <1>11, <1>14
  <2>3. QED
    BY <1>8, <1>14, <2>1, <2>2
<1>15. ASSUME ~Closed(f)
       PROVE  ReadablePositions(g) = ReadablePositions(f) \ {Len(f)}
  <2>1. \A i : i \in ReadablePositions(g) => i \in ReadablePositions(f) \ {Len(f)}
    BY <1>7, <1>8, <1>9, <1>10, <1>12, <1>15
  <2>2. \A i : i \in ReadablePositions(f) \ {Len(f)} => i \in ReadablePositions(g)
    BY <1>7, <1>10
  <2>3. QED
    BY <2>1, <2>2
<1>16. Len(f) + 1 \notin ReadablePositions(f)
  BY <1>10, <1>13
<1>17. QED
  BY <1>2, <1>5, <1>6, <1>14, <1>15, <1>16 DEF ReadsLine

\* A fragment: on a closed file it is a row more or nothing, on an open one it
\* spoils the row the file ends with; it leaves the file open.
ReadsFragment(f, r, g) ==
  /\ g \in Seq(DeskCell)
  /\ ~Closed(g)
  /\ Len(g) = Len(f) + 1
  /\ \A i \in 1..Len(f) : g[i] = f[i]
  /\ Closed(f) => \/ ReadablePositions(g) = ReadablePositions(f)
                  \/ /\ ReadablePositions(g) = ReadablePositions(f) \union {Len(f) + 1}
                     /\ g[Len(f) + 1].call = r
  /\ ~Closed(f) => ReadablePositions(g) = ReadablePositions(f) \ {Len(f)}
  /\ Len(f) + 1 \notin ReadablePositions(f)

LEMMA FragmentAppended ==
  ASSUME NEW f \in Seq(DeskCell), NEW r \in Priced,
         NEW part \in Fragments(r), NEW g, g = f \o part
  PROVE  ReadsFragment(f, r, g)
<1>1. PICK x \in {Row(r), Torn(r)} : part = <<x>>
  BY DEF Fragments
<1>2. x \in DeskCell /\ x.kind # "newline" /\ (x.kind = "row" => x.call = r)
  BY DeskCells
<1>3. part \in Seq(DeskCell) /\ Len(part) = 1 /\ part[1] = x
  BY <1>1, <1>2
<1>4. /\ g \in Seq(DeskCell) /\ Len(g) = Len(f) + 1 /\ Len(f) \in Nat
      /\ \A i \in 1..Len(f) : g[i] = f[i]
      /\ g[Len(f) + 1] = x
  <2>1. /\ f \o part \in Seq(DeskCell)
        /\ Len(f \o part) = Len(f) + Len(part)
        /\ Len(f) \in Nat
        /\ \A i \in 1..Len(f) : (f \o part)[i] = f[i]
        /\ \A i \in 1..Len(part) : (f \o part)[Len(f) + i] = part[i]
    BY <1>3, AppendedCells
  <2>2. QED
    BY <1>3, <2>1
<1>5. DOMAIN f = 1..Len(f) /\ DOMAIN g = 1..(Len(f) + 1)
  BY <1>4, LenProperties
<1>6. ~IsNewline(g, Len(f) + 1) /\ ~Closed(g)
  BY <1>2, <1>4, <1>5 DEF IsNewline, Closed
<1>7. \A i \in 1..Len(f) :
         /\ IsNewline(g, i) <=> IsNewline(f, i)
         /\ (IsNewline(g, i + 1) <=> IsNewline(f, i + 1))
              => (i \in ReadablePositions(g) <=> i \in ReadablePositions(f))
  <2>1. Len(f) <= Len(g)
    BY <1>4
  <2>2. QED
    BY <1>4, <2>1, SameInside
<1>8. \A i \in 1..Len(f) :
         /\ i # Len(f) => (i \in ReadablePositions(g) <=> i \in ReadablePositions(f))
         /\ i = Len(f) => i \notin ReadablePositions(g)
  <2> TAKE i \in 1..Len(f)
  <2>1. ASSUME i # Len(f)
        PROVE  i \in ReadablePositions(g) <=> i \in ReadablePositions(f)
    <3>1. i + 1 \in 1..Len(f)
      BY <1>4, <2>1
    <3>2. IsNewline(g, i + 1) <=> IsNewline(f, i + 1)
      BY <1>7, <3>1
    <3>3. QED
      BY <1>7, <3>2
  <2>2. ASSUME i = Len(f) PROVE i \notin ReadablePositions(g)
    BY <1>6, <2>2 DEF ReadablePositions
  <2>3. QED
    BY <2>1, <2>2
<1>9. Len(f) + 1 \in ReadablePositions(g) => Closed(f) /\ x.kind = "row"
  <2>1. IsNewline(g, Len(f)) <=> Closed(f)
    <3>1. CASE Len(f) = 0
      BY <1>5, <3>1 DEF Closed, IsNewline
    <3>2. CASE Len(f) # 0
      <4>1. Len(f) \in 1..Len(f)
        BY <1>4, <3>2
      <4>2. QED
        BY <1>7, <4>1 DEF Closed
    <3>3. QED
      BY <3>1, <3>2
  <2>2. (Len(f) + 1) - 1 = Len(f)
    BY <1>4
  <2>3. QED
    BY <1>4, <2>1, <2>2 DEF ReadablePositions
<1>10. ReadablePositions(f) \subseteq 1..Len(f)
       /\ ReadablePositions(g) \subseteq 1..(Len(f) + 1)
  BY <1>5 DEF ReadablePositions
<1>11. Closed(f) => Len(f) \notin ReadablePositions(f)
  BY DEF Closed, IsNewline, ReadablePositions
<1>12. /\ \A i \in 1..(Len(f) + 1) : i \in 1..Len(f) \/ i = Len(f) + 1
       /\ Len(f) + 1 \notin 1..Len(f)
  BY <1>4
<1>13. \A i : i \in ReadablePositions(f) \ {Len(f)} => i \in ReadablePositions(g)
  BY <1>8, <1>10
<1>14. \A i : i \in ReadablePositions(g) =>
                i \in ReadablePositions(f) \ {Len(f)} \/ i = Len(f) + 1
  BY <1>8, <1>10, <1>12
<1>15. ASSUME ~Closed(f)
       PROVE  ReadablePositions(g) = ReadablePositions(f) \ {Len(f)}
  BY <1>9, <1>13, <1>14, <1>15
<1>16. ASSUME Closed(f)
       PROVE  \/ ReadablePositions(g) = ReadablePositions(f)
              \/ /\ ReadablePositions(g) = ReadablePositions(f) \union {Len(f) + 1}
                 /\ g[Len(f) + 1].call = r
  <2>1. CASE Len(f) + 1 \in ReadablePositions(g)
    BY <1>2, <1>4, <1>9, <1>11, <1>13, <1>14, <1>16, <2>1
  <2>2. CASE Len(f) + 1 \notin ReadablePositions(g)
    <3>1. \A i : i \in ReadablePositions(g) <=> i \in ReadablePositions(f)
      BY <1>11, <1>13, <1>14, <1>16, <2>2
    <3>2. QED
      BY <3>1
  <2>3. QED
    BY <2>1, <2>2
<1>17. QED
  BY <1>4, <1>6, <1>10, <1>12, <1>15, <1>16 DEF ReadsFragment

-----------------------------------------------------------------------------
(* The totals after an append.                                               *)

LEMMA SpentIsNat ==
  ASSUME NEW f \in Seq(DeskCell), NEW S
  PROVE  Spent(f, S) \in Nat
BY TotalIsNat DEF Spent

LEMMA ExposedIsSmall ==
  ASSUME NEW f \in Seq(DeskCell), NEW S
  PROVE  /\ Exposed(f, S) \in 0..MaxCost
         /\ Closed(f) => Exposed(f, S) = 0
<1>1. Exposed(f, S) \in 0..MaxCost
  <2>1. CASE Len(f) \in ReadablePositions(f)
    BY <2>1, ReadableRow, MoneyAssumption DEF Exposed
  <2>2. CASE Len(f) \notin ReadablePositions(f)
    BY <2>2, MoneyAssumption DEF Exposed
  <2>3. QED
    BY <2>1, <2>2
<1>2. Closed(f) => Len(f) \notin ReadablePositions(f)
  BY DEF Closed, IsNewline, ReadablePositions
<1>3. QED
  BY <1>1, <1>2 DEF Exposed

\* The same rows are read, and the same money.
LEMMA SameRows ==
  ASSUME NEW f \in Seq(DeskCell), NEW g \in Seq(DeskCell), NEW S,
         \A i \in 1..Len(f) : g[i] = f[i],
         ReadablePositions(g) = ReadablePositions(f)
  PROVE  Spent(g, S) = Spent(f, S)
<1> DEFINE P == {i \in ReadablePositions(f) : f[i].call \in S}
<1>1. \A i \in ReadablePositions(f) : g[i] = f[i]
  BY ReadableRow
<1>2. {i \in ReadablePositions(g) : g[i].call \in S} = P
  BY <1>1
<1>3. \A i \in P : g[i] = f[i]
  BY <1>1
<1> HIDE DEF P
<1>4. Total(g, P) = Total(f, P)
  BY <1>3, TotalOfTheSame
<1>5. QED
  BY <1>2, <1>4 DEF Spent, P

\* A row more is its cost more.
LEMMA OneRowMore ==
  ASSUME NEW f \in Seq(DeskCell), NEW g \in Seq(DeskCell), NEW r \in Priced, NEW S,
         \A i \in 1..Len(f) : g[i] = f[i],
         ReadablePositions(g) = ReadablePositions(f) \union {Len(f) + 1},
         Len(f) + 1 \notin ReadablePositions(f), g[Len(f) + 1].call = r
  PROVE  Spent(g, S) = Spent(f, S) + Share(r, S)
<1> DEFINE n == Len(f) + 1
           P == {i \in ReadablePositions(f) : f[i].call \in S}
<1>1. \A i \in ReadablePositions(f) : g[i] = f[i]
  BY ReadableRow
<1>2. {i \in ReadablePositions(g) : g[i].call \in S} = IF r \in S THEN P \union {n} ELSE P
  BY <1>1
<1>3. /\ \A i \in P : g[i] = f[i]
      /\ P \subseteq ReadablePositions(g) /\ n \notin P /\ n \in ReadablePositions(g)
  BY <1>1
<1>4. Spent(f, S) = Total(f, P) /\ Spent(f, S) \in Nat
  BY SpentIsNat DEF Spent
<1>5. g[n].call = r
  OBVIOUS
<1> HIDE DEF P, n
<1>6. Total(g, P) = Total(f, P)
  BY <1>3, TotalOfTheSame
<1>7. CASE r \in S
  <2>1. Spent(g, S) = Total(g, P \union {n})
    BY <1>2, <1>7 DEF Spent
  <2>2. Total(g, P \union {n}) = Total(g, P) + g[n].call.cost
    BY <1>3, TotalAddsOne
  <2>3. QED
    BY <1>4, <1>6, <1>7, <1>5, <2>1, <2>2 DEF Share
<1>8. CASE r \notin S
  <2>1. Spent(g, S) = Total(g, P)
    BY <1>2, <1>8 DEF Spent
  <2>2. QED
    BY <1>4, <1>6, <1>8, <2>1 DEF Share
<1>9. QED
  BY <1>7, <1>8

\* The row the file ends with, taken out, takes what is exposed with it.
LEMMA LastRowSpoilt ==
  ASSUME NEW f \in Seq(DeskCell), NEW g \in Seq(DeskCell), NEW S,
         \A i \in 1..Len(f) : g[i] = f[i],
         ReadablePositions(g) = ReadablePositions(f) \ {Len(f)}
  PROVE  Spent(f, S) = Spent(g, S) + Exposed(f, S)
<1> DEFINE n == Len(f)
           P == {i \in ReadablePositions(f) : f[i].call \in S}
<1>1. \A i \in ReadablePositions(f) : g[i] = f[i]
  BY ReadableRow
<1>2. {i \in ReadablePositions(g) : g[i].call \in S} = P \ {n}
  BY <1>1
<1>3. /\ \A i \in P \ {n} : g[i] = f[i]
      /\ P \ {n} \subseteq ReadablePositions(f) /\ n \notin P \ {n}
  BY <1>1
<1>4. n \in P => n \in ReadablePositions(f) /\ Exposed(f, S) = f[n].call.cost
  BY DEF Exposed
<1>5. n \notin P => Exposed(f, S) = 0
  BY DEF Exposed
<1>6. Spent(f, S) = Total(f, P) /\ Spent(g, S) \in Nat
  BY SpentIsNat DEF Spent
<1>7. Spent(g, S) = Total(g, P \ {n})
  BY <1>2 DEF Spent
<1> HIDE DEF P, n
<1>8. Total(g, P \ {n}) = Total(f, P \ {n})
  BY <1>3, TotalOfTheSame
<1>9. CASE n \in P
  <2>1. Total(f, (P \ {n}) \union {n}) = Total(f, P \ {n}) + f[n].call.cost
    BY <1>3, <1>4, <1>9, TotalAddsOne
  <2>2. (P \ {n}) \union {n} = P
    BY <1>9
  <2>3. QED
    BY <1>4, <1>6, <1>7, <1>8, <1>9, <2>1, <2>2
<1>10. CASE n \notin P
  <2>1. P \ {n} = P
    BY <1>10
  <2>2. Total(g, P \ {n}) = Total(f, P)
    BY <1>8, <2>1
  <2>3. Spent(g, S) = Spent(f, S)
    BY <1>6, <1>7, <2>2
  <2>4. QED
    BY <1>5, <1>6, <1>10, <2>3
<1>11. QED
  BY <1>9, <1>10

\* After a line: its money is added to a closed file; from an open one the
\* exposed money goes, and the line is not read.
LEMMA LineTotals ==
  ASSUME NEW f \in Seq(DeskCell), NEW r \in Priced, NEW g, ReadsLine(f, r, g), NEW S
  PROVE  /\ Exposed(g, S) = 0
         /\ Closed(f) => Spent(g, S) = Spent(f, S) + Share(r, S)
         /\ ~Closed(f) => Spent(f, S) = Spent(g, S) + Exposed(f, S)
<1>1. g \in Seq(DeskCell) /\ Closed(g) /\ \A i \in 1..Len(f) : g[i] = f[i]
  BY DEF ReadsLine
<1>2. ASSUME Closed(f)
      PROVE  Spent(g, S) = Spent(f, S) + Share(r, S)
  <2>1. /\ ReadablePositions(g) = ReadablePositions(f) \union {Len(f) + 1}
        /\ g[Len(f) + 1].call = r
        /\ Len(f) + 1 \notin ReadablePositions(f)
    BY <1>2 DEF ReadsLine
  <2>2. QED
    BY <1>1, <2>1, OneRowMore
<1>3. ASSUME ~Closed(f)
      PROVE  Spent(f, S) = Spent(g, S) + Exposed(f, S)
  <2>1. ReadablePositions(g) = ReadablePositions(f) \ {Len(f)}
    BY <1>3 DEF ReadsLine
  <2>2. QED
    BY <1>1, <2>1, LastRowSpoilt
<1>4. Exposed(g, S) = 0
  BY <1>1, ExposedIsSmall
<1>5. QED
  BY <1>2, <1>3, <1>4

\* After a fragment of a closed file: what is read in addition is exposed to the
\* next append, and it is the fragment's row or nothing.  Of an open file: the
\* exposed money goes.
LEMMA FragmentTotals ==
  ASSUME NEW f \in Seq(DeskCell), NEW r \in Priced,
         NEW g, ReadsFragment(f, r, g), NEW S
  PROVE  /\ Closed(f) => /\ Spent(g, S) = Spent(f, S) + Exposed(g, S)
                         /\ Exposed(g, S) \in {0, Share(r, S)}
         /\ ~Closed(f) => /\ Spent(f, S) = Spent(g, S) + Exposed(f, S)
                          /\ Exposed(g, S) = 0
<1>1. /\ g \in Seq(DeskCell) /\ ~Closed(g) /\ \A i \in 1..Len(f) : g[i] = f[i]
      /\ Len(g) = Len(f) + 1 /\ Len(f) + 1 \notin ReadablePositions(f)
  BY DEF ReadsFragment
<1>2. ASSUME Closed(f)
      PROVE  /\ Spent(g, S) = Spent(f, S) + Exposed(g, S)
             /\ Exposed(g, S) \in {0, Share(r, S)}
  <2>1. CASE ReadablePositions(g) = ReadablePositions(f)
    <3>1. Spent(g, S) = Spent(f, S)
      BY <1>1, <2>1, SameRows
    <3>2. Exposed(g, S) = 0
      BY <1>1, <2>1 DEF Exposed
    <3>3. QED
      BY <3>1, <3>2, SpentIsNat
  <2>2. CASE /\ ReadablePositions(g) = ReadablePositions(f) \union {Len(f) + 1}
             /\ g[Len(f) + 1].call = r
    <3>1. Spent(g, S) = Spent(f, S) + Share(r, S)
      <4>1. /\ ReadablePositions(g) = ReadablePositions(f) \union {Len(f) + 1}
            /\ g[Len(f) + 1].call = r
            /\ Len(f) + 1 \notin ReadablePositions(f)
        BY <1>1, <2>2
      <4>2. g \in Seq(DeskCell) /\ \A i \in 1..Len(f) : g[i] = f[i]
        BY <1>1
      <4>3. QED
        BY <4>1, <4>2, OneRowMore
    <3>2. Exposed(g, S) = Share(r, S)
      <4>1. Len(g) \in ReadablePositions(g) /\ g[Len(g)].call = r
        BY <1>1, <2>2
      <4>2. QED
        BY <4>1 DEF Exposed, Share
    <3>3. QED
      BY <3>1, <3>2
  <2>3. QED
    BY <1>2, <2>1, <2>2 DEF ReadsFragment
<1>3. ASSUME ~Closed(f)
      PROVE  Spent(f, S) = Spent(g, S) + Exposed(f, S) /\ Exposed(g, S) = 0
  <2>1. ReadablePositions(g) = ReadablePositions(f) \ {Len(f)}
    BY <1>3 DEF ReadsFragment
  <2>2. Spent(f, S) = Spent(g, S) + Exposed(f, S)
    BY <1>1, <2>1, LastRowSpoilt
  <2>3. Exposed(g, S) = 0
    BY <1>1, <2>1 DEF Exposed
  <2>4. QED
    BY <2>2, <2>3
<1>4. QED
  BY <1>2, <1>3

\* The totals the code reads are those of the rows of a day and of a run.
LEMMA TotalsAreSpent ==
  ASSUME NEW f \in Seq(DeskCell)
  PROVE  /\ \A d : total_for_day(f, d) = Spent(f, OfDay(d))
         /\ \A k : total_for_run(f, k) = Spent(f, OfRun(k))
<1>1. \A i \in ReadablePositions(f) : f[i].call \in Priced
  BY ReadableRow
<1>2. ASSUME NEW d PROVE total_for_day(f, d) = Spent(f, OfDay(d))
  <2>1. {i \in ReadablePositions(f) : f[i].call.day = d}
          = {i \in ReadablePositions(f) : f[i].call \in OfDay(d)}
    BY <1>1 DEF OfDay
  <2>2. QED
    BY <2>1 DEF total_for_day, Spent
<1>3. ASSUME NEW k PROVE total_for_run(f, k) = Spent(f, OfRun(k))
  <2>1. {i \in ReadablePositions(f) : f[i].call.run = k}
          = {i \in ReadablePositions(f) : f[i].call \in OfRun(k)}
    BY <1>1 DEF OfRun
  <2>2. QED
    BY <2>1 DEF total_for_run, Spent
<1>4. QED
  BY <1>2, <1>3
-----------------------------------------------------------------------------
(* The money of calls in flight, and the money that failures explain.        *)

LEMMA TimesDistributes ==
  /\ \A m, a, b \in Nat : m * (a + b) = m * a + m * b
  /\ \A m, a \in Nat : m * a \in Nat /\ m * a = a * m
  /\ \A m, a, b \in Nat : a <= b => a * m <= b * m
OBVIOUS

LEMMA CallersAreFinite ==
  /\ \A A : A \subseteq Callers => IsFiniteSet(A) /\ Cardinality(A) \in Nat
  /\ \A A : A \subseteq Tiered => Cardinality(A) <= G!N
  /\ G!N \in Nat
<1>1. ASSUME NEW A, A \subseteq Callers
      PROVE  IsFiniteSet(A) /\ Cardinality(A) \in Nat
  BY <1>1, CallersAssumption, FS_Subset, FS_CardinalityType
<1>2. IsFiniteSet(Tiered) /\ Cardinality(Tiered) \in Nat
  BY <1>1, CallersAssumption
<1>3. ASSUME NEW A, A \subseteq Tiered PROVE Cardinality(A) <= Cardinality(Tiered)
  BY <1>2, <1>3, FS_Subset
<1>4. G!N = Cardinality(Tiered)
  BY DEF G!N, G!Cardinality, Cardinality
<1>5. \A A : A \subseteq Tiered => Cardinality(A) <= G!N
  BY <1>3, <1>4
<1>6. QED
  BY <1>1, <1>2, <1>4, <1>5

LEMMA BillsAreSmall ==
  ASSUME NEW A, A \subseteq Callers, NEW k \in [Callers -> 0..MaxCost]
  PROVE  /\ IsFiniteSet(Bills(A, k))
         /\ Cardinality(Bills(A, k)) \in Nat
         /\ Cardinality(Bills(A, k)) <= Cardinality(A) * MaxCost
<1>1. IsFiniteSet(A) /\ Cardinality(A) \in Nat
  BY CallersAreFinite
<1>2. IsFiniteSet(1..MaxCost) /\ Cardinality(1..MaxCost) = MaxCost
  BY MoneyAssumption, FS_Interval
<1>3. /\ IsFiniteSet(A \X (1..MaxCost))
      /\ Cardinality(A \X (1..MaxCost)) = Cardinality(A) * Cardinality(1..MaxCost)
  BY <1>1, <1>2, FS_Product
<1>4. Bills(A, k) \subseteq A \X (1..MaxCost)
  <2> SUFFICES ASSUME NEW c \in A
               PROVE  {c} \X (1..k[c]) \subseteq A \X (1..MaxCost)
    BY DEF Bills
  <2>1. k[c] \in 0..MaxCost
    OBVIOUS
  <2>2. 1..k[c] \subseteq 1..MaxCost
    BY <2>1, MoneyAssumption
  <2>3. QED
    BY <2>2
<1>5. /\ IsFiniteSet(Bills(A, k))
      /\ Cardinality(Bills(A, k)) <= Cardinality(A \X (1..MaxCost))
  BY <1>3, <1>4, FS_Subset
<1>6. QED
  BY <1>2, <1>3, <1>5, FS_CardinalityType

LEMMA BillsOfNobody ==
  ASSUME NEW k
  PROVE  Cardinality(Bills({}, k)) = 0
<1>1. Bills({}, k) = {}
  BY DEF Bills
<1>2. QED
  BY <1>1, FS_EmptySet

LEMMA BillsOfOneMore ==
  ASSUME NEW A, A \subseteq Callers, NEW k \in [Callers -> 0..MaxCost],
         NEW c \in Callers, c \notin A
  PROVE  Cardinality(Bills(A \union {c}, k)) = Cardinality(Bills(A, k)) + k[c]
<1> DEFINE own == {c} \X (1..k[c])
<1>1. k[c] \in Nat
  BY MoneyAssumption
<1>2. Bills(A \union {c}, k) = Bills(A, k) \union own
  BY DEF Bills
<1>3. Bills(A, k) \intersect own = {}
  <2>1. \A m \in Bills(A, k) : m[1] \in A
    BY DEF Bills
  <2>2. \A m \in own : m[1] = c
    OBVIOUS
  <2>3. QED
    BY <2>1, <2>2
<1>4. IsFiniteSet(own) /\ Cardinality(own) = k[c]
  BY <1>1, OwnMoney
<1>5. IsFiniteSet(Bills(A, k)) /\ Cardinality(Bills(A, k)) \in Nat
  BY BillsAreSmall
<1> HIDE DEF own
<1>6. Cardinality(Bills(A, k) \union own)
        = Cardinality(Bills(A, k)) + Cardinality(own)
            - Cardinality(Bills(A, k) \intersect own)
  BY <1>4, <1>5, FS_Union
<1>7. Cardinality(Bills(A, k) \intersect own) = 0
  BY <1>3, FS_EmptySet
<1>8. Cardinality(Bills(A \union {c}, k)) = Cardinality(Bills(A, k) \union own)
  BY <1>2
<1>9. QED
  BY <1>1, <1>4, <1>5, <1>6, <1>7, <1>8

LEMMA BillsOfTheSame ==
  ASSUME NEW A, NEW k, NEW m, \A c \in A : k[c] = m[c]
  PROVE  Bills(A, k) = Bills(A, m)
BY DEF Bills

LEMMA SlackGrows ==
  ASSUME NEW n \in Nat, NEW t \in Nat, NEW u \in Nat
  PROVE  /\ SlackOf(n, t, u) \in Nat
         /\ SlackOf(n + 1, t, u) = SlackOf(n, t, u) + G!N * MaxCost
         /\ SlackOf(n, t + 1, u) = SlackOf(n, t, u) + MaxCost
         /\ SlackOf(n, t, u + 1) = SlackOf(n, t, u) + MaxCost
<1>1. G!N \in Nat /\ MaxCost \in Nat
  BY CallersAreFinite, MoneyAssumption
<1>2. n * G!N \in Nat /\ (n + 1) * G!N = n * G!N + G!N
  BY <1>1, TimesDistributes
<1> DEFINE w == n * G!N
<1>3. w \in Nat /\ w + t + u \in Nat
  BY <1>2
<1>4. SlackOf(n, t, u) = MaxCost * (w + t + u) /\ MaxCost * (w + t + u) \in Nat
  BY <1>1, <1>3, TimesDistributes DEF SlackOf
<1>5. SlackOf(n + 1, t, u) = MaxCost * ((w + t + u) + G!N)
  BY <1>1, <1>2 DEF SlackOf
<1>6. /\ SlackOf(n, t + 1, u) = MaxCost * ((w + t + u) + 1)
      /\ SlackOf(n, t, u + 1) = MaxCost * ((w + t + u) + 1)
  BY <1>1, <1>3 DEF SlackOf
<1>7. MaxCost * ((w + t + u) + 1) = MaxCost * (w + t + u) + MaxCost
  BY <1>1, <1>3, TimesDistributes
<1>8. MaxCost * ((w + t + u) + G!N) = MaxCost * (w + t + u) + G!N * MaxCost
  BY <1>1, <1>3, TimesDistributes
<1>9. QED
  BY <1>4, <1>5, <1>6, <1>7, <1>8

-----------------------------------------------------------------------------
(* Types, the clock, and how the file ends.                                  *)

Inside == {"checking", "calling", "answered"}

LEMMA RowIsPriced ==
  ASSUME DeskTypeOK, NEW c \in Callers
  PROVE  /\ RowOf(c) \in Priced
         /\ RowOf(c).day = stamp[c] /\ RowOf(c).cost = cost[c] /\ RowOf(c).run = RunOf[c]
<1>1. stamp[c] \in 0..LastDay /\ cost[c] \in 0..MaxCost /\ RunOf[c] \in Runs
  BY CallersAssumption DEF DeskTypeOK, G!Days
<1>2. QED
  BY <1>1 DEF RowOf, Priced

LEMMA TypeStep == DeskTypeOK /\ [Next]_vars => DeskTypeOK'
<1> SUFFICES ASSUME DeskTypeOK, [Next]_vars PROVE DeskTypeOK'
  OBVIOUS
<1> USE MoneyAssumption, BoundsAssumption
<1>1. /\ today \in G!Days
      /\ pc \in [Callers -> G!Outside \union Inside]
      /\ cost \in [Callers -> 0..MaxCost]
      /\ stamp \in [Callers -> G!Days]
      /\ file \in Seq(DeskCell)
      /\ billed \in [G!Days -> Nat]
      /\ crashes \in Nat /\ torn \in Nat /\ unpriced \in Nat
  BY DEF DeskTypeOK, Inside
<1>2. /\ {"idle", "completed", "refused", "failed", "checking", "calling", "answered"}
           \subseteq G!Outside \union Inside
      /\ 0 \in G!Days
  BY DEF G!Outside, Inside, G!Days
<1>3. ASSUME /\ today' \in G!Days
             /\ pc' \in [Callers -> G!Outside \union Inside]
             /\ cost' \in [Callers -> 0..MaxCost]
             /\ stamp' \in [Callers -> G!Days]
             /\ file' \in Seq(DeskCell)
             /\ billed' \in [G!Days -> Nat]
             /\ crashes' \in Nat /\ torn' \in Nat /\ unpriced' \in Nat
      PROVE  DeskTypeOK'
  BY <1>3 DEF DeskTypeOK, Inside
<1>4. ASSUME NEW c \in Callers, BeforeAnswer(c) PROVE DeskTypeOK'
  <2>1. /\ today' = today /\ file' = file /\ billed' = billed /\ cost' = cost
        /\ crashes' = crashes /\ torn' = torn /\ unpriced' = unpriced
    BY <1>4 DEF BeforeAnswer, G!Unknown, G!Enter, G!Refuse, G!Admit, G!ProviderFails
  <2>2. \E p \in {"refused", "checking", "calling", "failed"} : pc' = [pc EXCEPT ![c] = p]
    BY <1>4 DEF BeforeAnswer, G!Unknown, G!Enter, G!Refuse, G!Admit, G!ProviderFails
  <2>3. stamp' = stamp \/ stamp' = [stamp EXCEPT ![c] = today]
        \/ stamp' = [stamp EXCEPT ![c] = 0]
    BY <1>4 DEF BeforeAnswer, G!Unknown, G!Enter, G!Refuse, G!Admit, G!ProviderFails
  <2>4. pc' \in [Callers -> G!Outside \union Inside]
    BY <1>1, <1>2, <2>2
  <2>5. stamp' \in [Callers -> G!Days]
    BY <1>1, <1>2, <2>3
  <2>6. QED
    BY <1>1, <1>3, <2>1, <2>4, <2>5
<1>5. ASSUME NEW c \in Callers, NEW price \in 1..MaxCost, Answer(c, price)
      PROVE  DeskTypeOK'
  <2>1. /\ today' = today /\ file' = file /\ crashes' = crashes /\ torn' = torn
        /\ unpriced' = unpriced \/ unpriced' = unpriced + 1
        /\ billed' = [billed EXCEPT ![today] = @ + price]
        /\ pc' = [pc EXCEPT ![c] = "answered"]
        /\ stamp' = [stamp EXCEPT ![c] = today]
        /\ cost' = [cost EXCEPT ![c] = price] \/ cost' = [cost EXCEPT ![c] = 0]
    BY <1>5 DEF Answer, G!Answer
  <2>2. billed' \in [G!Days -> Nat]
    <3>1. billed[today] + price \in Nat
      BY <1>1
    <3>2. QED
      BY <1>1, <2>1, <3>1
  <2>3. price \in 0..MaxCost /\ 0 \in 0..MaxCost
    OBVIOUS
  <2>4. cost' \in [Callers -> 0..MaxCost]
    BY <1>1, <2>1, <2>3
  <2>5. pc' \in [Callers -> G!Outside \union Inside] /\ stamp' \in [Callers -> G!Days]
    BY <1>1, <1>2, <2>1
  <2>6. unpriced' \in Nat
    BY <1>1, <2>1
  <2>7. QED
    BY <1>1, <1>3, <2>1, <2>2, <2>4, <2>5, <2>6
<1>6. ASSUME NEW c \in Callers, Record(c) PROVE DeskTypeOK'
  <2>1. file' \in Seq(DeskCell)
    <3>1. RowOf(c) \in Priced
      BY RowIsPriced
    <3>2. file' = file \o Line(RowOf(c))
      BY <1>6 DEF Record
    <3>3. QED
      BY <1>1, <3>1, <3>2, LineAppended DEF ReadsLine
  <2>2. pc' \in [Callers -> G!Outside \union Inside]
    BY <1>1, <1>2, <1>6 DEF Record
  <2>3. cost' \in [Callers -> 0..MaxCost] /\ stamp' \in [Callers -> G!Days]
    BY <1>1, <1>2, <1>6 DEF Record
  <2>4. QED
    BY <1>1, <1>3, <1>6, <2>1, <2>2, <2>3 DEF Record
<1>7. CASE Crash
  <2>1. file' \in Seq(DeskCell)
    <3>1. CASE file' = file
      BY <1>1, <3>1
    <3>2. CASE \E c \in Callers : \E fragment \in Fragments(RowOf(c)) :
                  file' = file \o fragment
      <4>1. PICK c \in Callers : \E fragment \in Fragments(RowOf(c)) :
                  file' = file \o fragment
        BY <3>2
      <4>2. RowOf(c) \in Priced
        BY RowIsPriced
      <4>3. QED
        BY <1>1, <4>1, <4>2, FragmentAppended DEF ReadsFragment
    <3>3. QED
      BY <1>7, <3>1, <3>2 DEF Crash
  <2>2. /\ today' = today /\ billed' = billed /\ unpriced' = unpriced
        /\ crashes' \in Nat /\ torn' \in Nat
    BY <1>1, <1>7 DEF Crash
  <2>3. /\ pc' \in [Callers -> G!Outside \union Inside]
        /\ cost' \in [Callers -> 0..MaxCost]
        /\ stamp' \in [Callers -> G!Days]
    BY <1>2, <1>7 DEF Crash
  <2>4. QED
    BY <1>1, <1>3, <2>1, <2>2, <2>3
<1>8. CASE Midnight
  <2>1. today' \in G!Days
    BY <1>1, <1>8 DEF Midnight, G!Midnight, G!Days
  <2>2. QED
    BY <1>1, <1>3, <1>8, <2>1 DEF Midnight, G!Midnight
<1>9. CASE UNCHANGED vars
  BY <1>1, <1>3, <1>9 DEF vars
<1>10. QED
  BY <1>4, <1>5, <1>6, <1>7, <1>8, <1>9 DEF Next

LEMMA InTimeStep == DeskTypeOK /\ InTime /\ [Next]_vars => InTime'
<1> SUFFICES ASSUME DeskTypeOK, InTime, [Next]_vars PROVE InTime'
  OBVIOUS
<1>1. /\ today \in Int /\ billed \in [G!Days -> Nat] /\ stamp \in [Callers -> G!Days]
      /\ pc \in [Callers -> G!Outside \union Inside] /\ today \in G!Days
  BY BoundsAssumption DEF DeskTypeOK, Inside, G!Days
<1>2. /\ \A d \in G!Days : d > today => billed[d] = 0
      /\ \A c \in Callers : stamp[c] <= today
      /\ \A c \in Callers : pc[c] \notin G!Outside => c \in Tiered
  BY DEF InTime
<1>3. {"idle", "completed", "refused", "failed"} = G!Outside /\ 0 <= today
  BY <1>1, BoundsAssumption DEF G!Outside, G!Days
<1>4. ASSUME NEW c \in Callers, BeforeAnswer(c) PROVE InTime'
  <2>1. today' = today /\ billed' = billed
    BY <1>4 DEF BeforeAnswer, G!Unknown, G!Enter, G!Refuse, G!Admit, G!ProviderFails
  <2>2. stamp' = stamp \/ stamp' = [stamp EXCEPT ![c] = today]
        \/ stamp' = [stamp EXCEPT ![c] = 0]
    BY <1>4 DEF BeforeAnswer, G!Unknown, G!Enter, G!Refuse, G!Admit, G!ProviderFails
  <2>3. \A k \in Callers : stamp'[k] <= today
    BY <1>1, <1>2, <1>3, <2>2
  <2>4. \/ \E p \in G!Outside : pc' = [pc EXCEPT ![c] = p]
        \/ c \in Tiered /\ \E p \in Inside : pc' = [pc EXCEPT ![c] = p]
    <3>1. CASE G!Unknown(c) \/ G!Refuse(c) \/ G!ProviderFails(c)
      BY <1>3, <3>1 DEF G!Unknown, G!Refuse, G!ProviderFails
    <3>2. CASE G!Enter(c)
      BY <3>2 DEF G!Enter, Inside
    <3>3. CASE G!Admit(c)
      <4>1. pc[c] = "checking"
        BY <3>3 DEF G!Admit
      <4>2. c \in Tiered
        BY <1>2, <4>1 DEF G!Outside
      <4>3. QED
        BY <3>3, <4>2 DEF G!Admit, Inside
    <3>4. QED
      BY <1>4, <3>1, <3>2, <3>3 DEF BeforeAnswer
  <2>5. \A k \in Callers : pc'[k] \notin G!Outside => k \in Tiered
    BY <1>1, <1>2, <2>4
  <2>6. QED
    BY <1>2, <2>1, <2>3, <2>5 DEF InTime
<1>5. ASSUME NEW c \in Callers, NEW price \in 1..MaxCost, Answer(c, price) PROVE InTime'
  <2>1. /\ today' = today
        /\ billed' = [billed EXCEPT ![today] = @ + price]
        /\ pc' = [pc EXCEPT ![c] = "answered"] /\ pc[c] = "calling"
        /\ stamp' = [stamp EXCEPT ![c] = today]
    BY <1>5 DEF Answer, G!Answer
  <2>2. \A d \in G!Days : d > today => billed'[d] = 0
    <3>1. \A d \in G!Days : d # today => billed'[d] = billed[d]
      BY <1>1, <2>1
    <3>2. \A d \in G!Days : d > today => d # today
      BY <1>1
    <3>3. QED
      BY <1>2, <3>1, <3>2
  <2>3. \A k \in Callers : stamp'[k] <= today
    BY <1>1, <1>2, <2>1
  <2>4. c \in Tiered
    BY <1>2, <2>1 DEF G!Outside
  <2>5. \A k \in Callers : pc'[k] \notin G!Outside => k \in Tiered
    BY <1>1, <1>2, <2>1, <2>4
  <2>6. QED
    BY <2>1, <2>2, <2>3, <2>5 DEF InTime
<1>6. ASSUME NEW c \in Callers, Record(c) PROVE InTime'
  <2>1. /\ today' = today /\ billed' = billed
        /\ pc' = [pc EXCEPT ![c] = "completed"]
        /\ stamp' = [stamp EXCEPT ![c] = 0]
    BY <1>6 DEF Record
  <2>2. \A k \in Callers : stamp'[k] <= today
    BY <1>1, <1>2, <1>3, <2>1
  <2>3. \A k \in Callers : pc'[k] \notin G!Outside => k \in Tiered
    BY <1>1, <1>2, <1>3, <2>1
  <2>4. QED
    BY <1>2, <2>1, <2>2, <2>3 DEF InTime
<1>7. CASE Crash
  <2>1. /\ today' = today /\ billed' = billed
        /\ pc' = [k \in Callers |-> "idle"] /\ stamp' = [k \in Callers |-> 0]
    BY <1>7 DEF Crash
  <2>2. QED
    BY <1>2, <1>3, <2>1 DEF InTime
<1>8. CASE Midnight
  <2>1. today' = today + 1 /\ billed' = billed /\ stamp' = stamp /\ pc' = pc
    BY <1>8 DEF Midnight, G!Midnight
  <2>2. \A d \in G!Days : d > today' => d > today
    BY <1>1, <2>1, BoundsAssumption DEF G!Days
  <2>3. \A k \in Callers : stamp[k] <= today'
    <3>1. \A k \in Callers : stamp[k] \in Int
      BY <1>1, BoundsAssumption DEF G!Days
    <3>2. QED
      BY <1>1, <1>2, <2>1, <3>1
  <2>4. QED
    BY <1>2, <2>1, <2>2, <2>3 DEF InTime
<1>9. CASE UNCHANGED vars
  BY <1>2, <1>9 DEF vars, InTime
<1>10. QED
  BY <1>4, <1>5, <1>6, <1>7, <1>8, <1>9 DEF Next

LEMMA EndsTornStep == DeskTypeOK /\ EndsTorn /\ [Next]_vars => EndsTorn'
<1> SUFFICES ASSUME DeskTypeOK, EndsTorn, [Next]_vars PROVE EndsTorn'
  OBVIOUS
<1>1. file \in Seq(DeskCell) /\ torn \in Nat
  BY DEF DeskTypeOK
<1>2. ASSUME file' = file, torn' = torn PROVE EndsTorn'
  BY <1>2 DEF EndsTorn
<1>3. ASSUME NEW c \in Callers, Record(c) PROVE EndsTorn'
  <2>1. RowOf(c) \in Priced /\ file' = file \o Line(RowOf(c))
    BY <1>3, RowIsPriced DEF Record
  <2>2. Closed(file')
    BY <1>1, <2>1, LineAppended DEF ReadsLine
  <2>3. QED
    BY <2>2 DEF EndsTorn
<1>4. ASSUME torn' = torn + 1 PROVE EndsTorn'
  BY <1>1, <1>4 DEF EndsTorn
<1>5. CASE Crash
  BY <1>2, <1>4, <1>5 DEF Crash
<1>6. CASE Midnight
  BY <1>2, <1>6 DEF Midnight
<1>7. CASE UNCHANGED vars
  BY <1>2, <1>7 DEF vars
<1>8. ASSUME NEW c \in Callers, BeforeAnswer(c) PROVE EndsTorn'
  BY <1>2, <1>8 DEF BeforeAnswer
<1>9. ASSUME NEW c \in Callers, NEW price \in 1..MaxCost, Answer(c, price) PROVE EndsTorn'
  BY <1>2, <1>9 DEF Answer
<1>10. QED
  BY <1>3, <1>5, <1>6, <1>7, <1>8, <1>9 DEF Next

-----------------------------------------------------------------------------
(* What is billed is recorded, owed or explained.                            *)

LEMMA OwedStays ==
  ASSUME NEW d,
         \A c \in Callers : pc'[c] = "answered" <=> pc[c] = "answered",
         \A c \in Callers : pc[c] = "answered" => stamp'[c] = stamp[c] /\ cost'[c] = cost[c]
  PROVE  Owed(d)' = Owed(d)
<1>1. Answered(d)' = Answered(d)
  BY DEF Answered
<1>2. \A c \in Answered(d) : cost'[c] = cost[c]
  BY DEF Answered
<1>3. Bills(Answered(d), cost') = Bills(Answered(d), cost)
  BY <1>2, BillsOfTheSame
<1>4. QED
  BY <1>1, <1>3 DEF Owed

LEMMA OwedByOneMore ==
  ASSUME DeskTypeOK, DeskTypeOK', NEW c \in Callers, NEW d, NEW k \in 0..MaxCost,
         pc[c] # "answered",
         pc' = [pc EXCEPT ![c] = "answered"],
         stamp' = [stamp EXCEPT ![c] = today],
         cost' = [cost EXCEPT ![c] = k]
  PROVE  Cardinality(Owed(d)') = Cardinality(Owed(d)) + (IF d = today THEN k ELSE 0)
<1>1. /\ pc \in [Callers -> G!Outside \union Inside]
      /\ stamp \in [Callers -> G!Days]
      /\ cost \in [Callers -> 0..MaxCost] /\ cost' \in [Callers -> 0..MaxCost]
  BY DEF DeskTypeOK, Inside
<1>2. Answered(d)' = IF d = today THEN Answered(d) \union {c} ELSE Answered(d)
  BY <1>1 DEF Answered
<1>3. c \notin Answered(d) /\ Answered(d) \subseteq Callers
  BY DEF Answered
<1>4. Bills(Answered(d), cost') = Bills(Answered(d), cost)
  <2>1. \A b \in Answered(d) : cost'[b] = cost[b]
    BY <1>1, <1>3
  <2>2. QED
    BY <2>1, BillsOfTheSame
<1>5. Cardinality(Bills(Answered(d), cost)) \in Nat
  BY <1>1, <1>3, BillsAreSmall
<1>6. CASE d = today
  <2>1. Cardinality(Bills(Answered(d) \union {c}, cost'))
          = Cardinality(Bills(Answered(d), cost')) + cost'[c]
    BY <1>1, <1>3, BillsOfOneMore
  <2>2. cost'[c] = k
    BY <1>1
  <2>3. QED
    BY <1>2, <1>4, <1>6, <2>1, <2>2 DEF Owed
<1>7. CASE d # today
  <2>1. Owed(d)' = Owed(d)
    BY <1>2, <1>4, <1>7 DEF Owed
  <2>2. QED
    BY <1>5, <1>7, <2>1 DEF Owed
<1>8. QED
  BY <1>6, <1>7

LEMMA OwedByOneLess ==
  ASSUME DeskTypeOK, DeskTypeOK', NEW c \in Callers, NEW d,
         pc[c] = "answered",
         pc' = [pc EXCEPT ![c] = "completed"],
         stamp' = [stamp EXCEPT ![c] = 0],
         cost' = [cost EXCEPT ![c] = 0]
  PROVE  Cardinality(Owed(d)) = Cardinality(Owed(d)') + (IF d = stamp[c] THEN cost[c] ELSE 0)
<1>1. /\ pc \in [Callers -> G!Outside \union Inside]
      /\ stamp \in [Callers -> G!Days]
      /\ cost \in [Callers -> 0..MaxCost] /\ cost' \in [Callers -> 0..MaxCost]
  BY DEF DeskTypeOK, Inside
<1>2. Answered(d)' = Answered(d) \ {c}
  BY <1>1 DEF Answered
<1>3. c \in Answered(d) <=> d = stamp[c]
  BY DEF Answered
<1>4. Answered(d) \subseteq Callers /\ Answered(d) \ {c} \subseteq Callers
  BY DEF Answered
<1>5. Bills(Answered(d) \ {c}, cost') = Bills(Answered(d) \ {c}, cost)
  <2>1. \A b \in Answered(d) \ {c} : cost'[b] = cost[b]
    BY <1>1, <1>4
  <2>2. QED
    BY <2>1, BillsOfTheSame
<1>6. Owed(d)' = Bills(Answered(d) \ {c}, cost)
  BY <1>2, <1>5 DEF Owed
<1>7. Cardinality(Bills(Answered(d) \ {c}, cost)) \in Nat
  BY <1>1, <1>4, BillsAreSmall
<1>8. CASE d = stamp[c]
  <2>1. Cardinality(Bills((Answered(d) \ {c}) \union {c}, cost))
          = Cardinality(Bills(Answered(d) \ {c}, cost)) + cost[c]
    BY <1>1, <1>4, BillsOfOneMore
  <2>2. (Answered(d) \ {c}) \union {c} = Answered(d)
    BY <1>3, <1>8
  <2>3. QED
    BY <1>6, <1>8, <2>1, <2>2 DEF Owed
<1>9. CASE d # stamp[c]
  <2>1. Answered(d) \ {c} = Answered(d)
    BY <1>3, <1>9
  <2>2. Owed(d)' = Owed(d)
    BY <1>6, <2>1 DEF Owed
  <2>3. Cardinality(Owed(d)') \in Nat
    BY <1>6, <1>7
  <2>4. QED
    BY <1>9, <2>2, <2>3
<1>10. QED
  BY <1>8, <1>9

\* What is owed fits what one crash explains, and covers each answered call.
LEMMA OwedIsSmall ==
  ASSUME DeskTypeOK, InTime, NEW d
  PROVE  /\ Cardinality(Owed(d)) \in Nat
         /\ Cardinality(Owed(d)) <= Cardinality(Answered(d)) * MaxCost
         /\ Cardinality(Owed(d)) <= G!N * MaxCost
         /\ Answered(d) \subseteq Tiered
         /\ \A c \in Answered(d) : cost[c] <= Cardinality(Owed(d))
<1>1. cost \in [Callers -> 0..MaxCost] /\ Answered(d) \subseteq Callers
  BY DEF DeskTypeOK, Answered
<1>2. Answered(d) \subseteq Tiered
  BY DEF InTime, Answered, G!Outside
<1>3. /\ Cardinality(Owed(d)) \in Nat
      /\ Cardinality(Owed(d)) <= Cardinality(Answered(d)) * MaxCost
  BY <1>1, BillsAreSmall DEF Owed
<1>4. Cardinality(Answered(d)) \in Nat /\ G!N \in Nat /\ MaxCost \in Nat
      /\ Cardinality(Answered(d)) <= G!N
  BY <1>1, <1>2, CallersAreFinite, MoneyAssumption
<1>5. /\ Cardinality(Answered(d)) * MaxCost <= G!N * MaxCost
      /\ Cardinality(Answered(d)) * MaxCost \in Nat /\ G!N * MaxCost \in Nat
  BY <1>4, TimesDistributes
<1>6. ASSUME NEW c \in Answered(d) PROVE cost[c] <= Cardinality(Owed(d))
  <2>1. cost[c] \in Nat
    BY <1>1, MoneyAssumption
  <2>2. {c} \X (1..cost[c]) \subseteq Owed(d)
    BY DEF Owed, Bills
  <2>3. IsFiniteSet(Owed(d))
    BY <1>1, BillsAreSmall DEF Owed
  <2>4. Cardinality({c} \X (1..cost[c])) <= Cardinality(Owed(d))
    BY <2>2, <2>3, FS_Subset
  <2>5. QED
    BY <2>1, <2>4, OwnMoney
<1>7. QED
  BY <1>2, <1>3, <1>5, <1>6

\* What the parts of ExplainedFor are.
LEMMA ExplainedParts ==
  ASSUME DeskTypeOK, InTime, NEW d \in G!Days
  PROVE  /\ Spent(file, OfDay(d)) \in Nat
         /\ Cardinality(Owed(d)) \in Nat
         /\ Exposed(file, OfDay(d)) \in 0..MaxCost
         /\ Closed(file) => Exposed(file, OfDay(d)) = 0
         /\ billed[d] \in Nat /\ Slack \in Nat
         /\ MaxCost \in Nat /\ G!N * MaxCost \in Nat
<1>1. /\ file \in Seq(DeskCell) /\ billed \in [G!Days -> Nat]
      /\ crashes \in Nat /\ torn \in Nat /\ unpriced \in Nat
  BY DEF DeskTypeOK
<1>2. MaxCost \in Nat /\ G!N * MaxCost \in Nat
  BY MoneyAssumption, CallersAreFinite, TimesDistributes
<1>3. /\ Spent(file, OfDay(d)) \in Nat
      /\ Exposed(file, OfDay(d)) \in 0..MaxCost
      /\ Closed(file) => Exposed(file, OfDay(d)) = 0
  BY <1>1, SpentIsNat, ExposedIsSmall
<1>4. Cardinality(Owed(d)) \in Nat
  BY OwedIsSmall
<1>5. Slack \in Nat
  BY <1>1, SlackGrows DEF Slack
<1>6. QED
  BY <1>1, <1>2, <1>3, <1>4, <1>5

LEMMA ExplainedStep == DeskInv /\ DeskTypeOK' /\ InTime' /\ [Next]_vars => Explained'
<1> SUFFICES ASSUME DeskInv, DeskTypeOK', InTime', [Next]_vars, NEW d \in G!Days
             PROVE  ExplainedFor(d)'
  BY DEF Explained, G!Days
<1> DEFINE s == Spent(file, OfDay(d))
           o == Cardinality(Owed(d))
           e == Exposed(file, OfDay(d))
           x == IF Closed(file) THEN 0 ELSE MaxCost
           s1 == Spent(file', OfDay(d))
           o1 == Cardinality(Owed(d)')
           e1 == Exposed(file', OfDay(d))
           x1 == IF Closed(file') THEN 0 ELSE MaxCost
<1>1. DeskTypeOK /\ InTime /\ ExplainedFor(d)
  BY DEF DeskInv, Explained
<1>2. /\ s \in Nat /\ o \in Nat /\ e \in 0..MaxCost /\ x \in 0..MaxCost
      /\ Closed(file) => e = 0
      /\ billed[d] \in Nat /\ Slack \in Nat
      /\ MaxCost \in Nat /\ G!N * MaxCost \in Nat
      /\ s + o <= billed[d] /\ billed[d] + e + x <= s + o + Slack
  BY <1>1, ExplainedParts DEF ExplainedFor
<1>3. /\ file \in Seq(DeskCell) /\ billed \in [G!Days -> Nat]
      /\ crashes \in Nat /\ torn \in Nat /\ unpriced \in Nat
      /\ cost \in [Callers -> 0..MaxCost] /\ stamp \in [Callers -> G!Days]
      /\ pc \in [Callers -> G!Outside \union Inside]
  BY <1>1 DEF DeskTypeOK, Inside
<1>4. ASSUME s1 + o1 <= billed'[d] /\ billed'[d] + e1 + x1 <= s1 + o1 + Slack'
      PROVE  ExplainedFor(d)'
  BY <1>4 DEF ExplainedFor, OfDay
<1>5. ASSUME file' = file, Slack' = Slack, billed' = billed, Owed(d)' = Owed(d)
      PROVE  ExplainedFor(d)'
  BY <1>2, <1>4, <1>5
<1> HIDE DEF s, o, e, x, s1, o1, e1, x1
<1>6. ASSUME NEW c \in Callers, BeforeAnswer(c) PROVE ExplainedFor(d)'
  <2>1. file' = file /\ billed' = billed /\ Slack' = Slack
    BY <1>6 DEF BeforeAnswer, Slack, SlackOf
  <2>2. \A k \in Callers : pc'[k] = "answered" <=> pc[k] = "answered"
    BY <1>3, <1>6 DEF BeforeAnswer, G!Unknown, G!Enter, G!Refuse, G!Admit,
                      G!ProviderFails, G!Outside
  <2>3. pc[c] # "answered" /\ cost' = cost
    BY <1>6 DEF BeforeAnswer, G!Unknown, G!Enter, G!Refuse, G!Admit,
                G!ProviderFails, G!Outside
  <2>4. \A k \in Callers : k # c => stamp'[k] = stamp[k]
    BY <1>3, <1>6 DEF BeforeAnswer, G!Unknown, G!Enter, G!Refuse, G!Admit, G!ProviderFails
  <2>5. Owed(d)' = Owed(d)
    BY <2>2, <2>3, <2>4, OwedStays
  <2>6. QED
    BY <1>5, <2>1, <2>5
<1>7. ASSUME NEW c \in Callers, NEW price \in 1..MaxCost, Answer(c, price)
      PROVE  ExplainedFor(d)'
  <2>1. /\ file' = file /\ crashes' = crashes /\ torn' = torn
        /\ billed' = [billed EXCEPT ![today] = @ + price]
        /\ pc[c] # "answered"
        /\ pc' = [pc EXCEPT ![c] = "answered"]
        /\ stamp' = [stamp EXCEPT ![c] = today]
        /\ \/ cost' = [cost EXCEPT ![c] = price] /\ unpriced' = unpriced
           \/ cost' = [cost EXCEPT ![c] = 0] /\ unpriced' = unpriced + 1
    BY <1>7 DEF Answer, G!Answer
  <2>2. s1 = s /\ e1 = e /\ x1 = x
    BY <2>1 DEF s, e, x, s1, e1, x1
  <2>3. billed'[d] = billed[d] + (IF d = today THEN price ELSE 0)
    BY <1>2, <1>3, <2>1
  <2>4. price \in 0..MaxCost /\ 0 \in 0..MaxCost /\ price <= MaxCost /\ price \in Nat
    BY <1>2
  <2>5. CASE cost' = [cost EXCEPT ![c] = price] /\ unpriced' = unpriced
    <3>1. o1 = o + (IF d = today THEN price ELSE 0)
      BY <1>1, <2>1, <2>4, <2>5, OwedByOneMore DEF o, o1
    <3>2. Slack' = Slack
      BY <2>1, <2>5 DEF Slack, SlackOf
    <3>3. QED
      BY <1>2, <1>4, <2>2, <2>3, <2>4, <3>1, <3>2
  <2>6. CASE cost' = [cost EXCEPT ![c] = 0] /\ unpriced' = unpriced + 1
    <3>1. o1 = o + (IF d = today THEN 0 ELSE 0)
      BY <1>1, <2>1, <2>4, <2>6, OwedByOneMore DEF o, o1
    <3>2. Slack' = Slack + MaxCost
      <4>1. Slack' = SlackOf(crashes, torn, unpriced + 1)
        BY <2>1, <2>6 DEF Slack, SlackOf
      <4>2. QED
        BY <1>3, <4>1, SlackGrows DEF Slack
    <3>3. QED
      BY <1>2, <1>4, <2>2, <2>3, <2>4, <3>1, <3>2
  <2>7. QED
    BY <2>1, <2>5, <2>6
<1>8. ASSUME NEW c \in Callers, Record(c) PROVE ExplainedFor(d)'
  <2>1. /\ billed' = billed /\ Slack' = Slack
        /\ pc[c] = "answered" /\ pc' = [pc EXCEPT ![c] = "completed"]
        /\ cost' = [cost EXCEPT ![c] = 0] /\ stamp' = [stamp EXCEPT ![c] = 0]
        /\ file' = file \o Line(RowOf(c))
    BY <1>8 DEF Record, Slack, SlackOf
  <2> DEFINE share == Share(RowOf(c), OfDay(d))
  <2>2. /\ RowOf(c) \in Priced
        /\ share = IF d = stamp[c] THEN cost[c] ELSE 0
    BY <1>1, RowIsPriced DEF Share, OfDay
  <2>3. o = o1 + share
    BY <1>1, <2>1, <2>2, OwedByOneLess DEF o, o1
  <2>4. ReadsLine(file, RowOf(c), file')
    BY <1>3, <2>1, <2>2, LineAppended
  <2>5. e1 = 0 /\ x1 = 0
    BY <1>3, <2>2, <2>4, LineTotals DEF e1, x1, ReadsLine
  <2>6. /\ Closed(file) => s1 = s + share
        /\ ~Closed(file) => s = s1 + e
    BY <1>3, <2>2, <2>4, LineTotals DEF s, s1, e
  <2>7. s1 \in Nat /\ o1 \in Nat /\ share \in Nat /\ share <= MaxCost
    <3>1. s1 \in Nat
      BY <2>4, SpentIsNat DEF s1, ReadsLine
    <3>2. o1 \in Nat
      <4>1. cost' \in [Callers -> 0..MaxCost] /\ Answered(d)' \subseteq Callers
        BY DEF DeskTypeOK, Answered
      <4>2. QED
        BY <4>1, BillsAreSmall DEF o1, Owed
    <3>3. cost[c] \in 0..MaxCost
      BY <1>3
    <3>4. QED
      BY <1>2, <3>1, <3>2, <3>3, <2>2
  <2> HIDE DEF share
  <2>8. CASE Closed(file)
    <3>1. s1 + o1 = s + o
      BY <1>2, <2>3, <2>6, <2>7, <2>8
    <3>2. QED
      BY <1>2, <1>4, <2>1, <2>5, <3>1
  <2>9. CASE ~Closed(file)
    <3>1. x = MaxCost
      BY <2>9 DEF x
    <3>2. s = s1 + e /\ o = o1 + share
      BY <2>3, <2>6, <2>9
    <3>3. s1 + o1 <= billed[d]
      BY <1>2, <2>7, <3>2
    <3>4. billed[d] <= s1 + o1 + Slack
      BY <1>2, <2>7, <3>1, <3>2
    <3>5. QED
      BY <1>2, <1>4, <2>1, <2>5, <3>3, <3>4
  <2>10. QED
    BY <2>8, <2>9
<1>9. CASE Crash
  <2>1. /\ billed' = billed /\ unpriced' = unpriced /\ crashes' = crashes + 1
        /\ pc' = [c \in Callers |-> "idle"]
    BY <1>9 DEF Crash
  <2>2. o1 = 0
    <3>1. Answered(d)' = {}
      BY <2>1 DEF Answered
    <3>2. QED
      BY <3>1, BillsOfNobody DEF o1, Owed
  <2>3. o <= G!N * MaxCost
    BY <1>1, OwedIsSmall DEF o
  <2>4. CASE file' = file /\ torn' = torn
    <3>1. Slack' = Slack + G!N * MaxCost
      <4>1. Slack' = SlackOf(crashes + 1, torn, unpriced)
        BY <2>1, <2>4 DEF Slack, SlackOf
      <4>2. QED
        BY <1>3, <4>1, SlackGrows DEF Slack
    <3>2. s1 = s /\ e1 = e /\ x1 = x
      BY <2>4 DEF s, e, x, s1, e1, x1
    <3>3. QED
      BY <1>2, <1>4, <2>1, <2>2, <2>3, <3>1, <3>2
  <2>5. ASSUME torn' = torn + 1, NEW c \in Callers, pc[c] = "answered",
               NEW fragment \in Fragments(RowOf(c)), file' = file \o fragment
        PROVE  ExplainedFor(d)'
    <3> DEFINE share == Share(RowOf(c), OfDay(d))
    <3>1. Slack' = Slack + G!N * MaxCost + MaxCost
      <4>1. Slack' = SlackOf(crashes + 1, torn + 1, unpriced)
        BY <2>1, <2>5 DEF Slack, SlackOf
      <4>2. crashes + 1 \in Nat
        BY <1>3
      <4>3. SlackOf(crashes + 1, torn + 1, unpriced)
              = SlackOf(crashes + 1, torn, unpriced) + MaxCost
        BY <1>3, <4>2, SlackGrows
      <4>4. SlackOf(crashes + 1, torn, unpriced) = Slack + G!N * MaxCost
        BY <1>3, SlackGrows DEF Slack
      <4>5. QED
        BY <4>1, <4>3, <4>4
    <3>2. /\ RowOf(c) \in Priced
          /\ share = IF d = stamp[c] THEN cost[c] ELSE 0
      BY <1>1, RowIsPriced DEF Share, OfDay
    <3>3. share \in Nat /\ share <= MaxCost /\ share <= o
      <4>1. cost[c] \in 0..MaxCost
        BY <1>3
      <4>2. d = stamp[c] => cost[c] <= o
        BY <1>1, <2>5, OwedIsSmall DEF Answered, o
      <4>3. QED
        BY <1>2, <3>2, <4>1, <4>2
    <3>4. ReadsFragment(file, RowOf(c), file')
      BY <1>3, <2>5, <3>2, FragmentAppended
    <3>5. /\ Closed(file) => s1 = s + e1 /\ e1 \in {0, share}
          /\ ~Closed(file) => s = s1 + e /\ e1 = 0
      BY <1>3, <3>2, <3>4, FragmentTotals DEF s, e, s1, e1
    <3>6. x1 = MaxCost /\ s1 \in Nat
      BY <3>4, SpentIsNat DEF x1, s1, ReadsFragment
    <3> HIDE DEF share
    <3>7. CASE Closed(file)
      <4>1. e1 \in Nat /\ e1 <= o /\ s1 = s + e1
        BY <1>2, <3>3, <3>5, <3>7
      <4>2. s1 + o1 <= billed[d]
        BY <1>2, <2>2, <4>1
      <4>3. billed[d] + e1 + x1 <= s1 + o1 + Slack'
        BY <1>2, <2>2, <2>3, <3>1, <3>6, <4>1
      <4>4. QED
        BY <1>4, <2>1, <4>2, <4>3
    <3>8. CASE ~Closed(file)
      <4>1. e1 = 0 /\ s = s1 + e /\ x = MaxCost
        BY <3>5, <3>8 DEF x
      <4>2. s1 + o1 <= billed[d]
        BY <1>2, <2>2, <3>6, <4>1
      <4>3. billed[d] + e1 + x1 <= s1 + o1 + Slack'
        BY <1>2, <2>2, <2>3, <3>1, <3>6, <4>1
      <4>4. QED
        BY <1>4, <2>1, <4>2, <4>3
    <3>9. QED
      BY <3>7, <3>8
  <2>6. QED
    BY <1>9, <2>4, <2>5 DEF Crash
<1>10. CASE Midnight \/ UNCHANGED vars
  <2>1. /\ file' = file /\ billed' = billed /\ Slack' = Slack
        /\ pc' = pc /\ stamp' = stamp /\ cost' = cost
    BY <1>10 DEF Midnight, G!Midnight, vars, Slack, SlackOf
  <2>2. Owed(d)' = Owed(d)
    BY <2>1, OwedStays
  <2>3. QED
    BY <1>5, <2>1, <2>2
<1>11. QED
  BY <1>6, <1>7, <1>8, <1>9, <1>10 DEF Next

-----------------------------------------------------------------------------
(* What may still be billed to a day stays inside its bound.                 *)

LEMMA SharesAreSmall ==
  ASSUME NEW A, A \subseteq Tiered
  PROVE  /\ Cardinality(A) * MaxCost \in Nat /\ G!N * MaxCost \in Nat
         /\ Cardinality(A) * MaxCost <= G!N * MaxCost
         /\ G!Bound = (Ceiling - 1) + G!N * MaxCost
         /\ Ceiling - 1 \in Nat /\ MaxCost \in Nat
<1>1. Cardinality(A) \in Nat /\ G!N \in Nat /\ Cardinality(A) <= G!N
  BY CallersAreFinite, CallersAssumption
<1>2. MaxCost \in Nat /\ Ceiling - 1 \in Nat
  BY MoneyAssumption
<1>3. /\ Cardinality(A) * MaxCost \in Nat /\ G!N * MaxCost \in Nat
      /\ Cardinality(A) * MaxCost <= G!N * MaxCost
  BY <1>1, <1>2, TimesDistributes
<1>4. QED
  BY <1>2, <1>3 DEF G!Bound

LEMMA FewerShares ==
  ASSUME NEW A, A \subseteq Tiered, NEW B, B \subseteq A
  PROVE  Cardinality(B) * MaxCost <= Cardinality(A) * MaxCost
<1>1. IsFiniteSet(A) /\ Cardinality(A) \in Nat /\ Cardinality(B) \in Nat
  BY CallersAreFinite, CallersAssumption
<1>2. Cardinality(B) <= Cardinality(A)
  BY <1>1, FS_Subset
<1>3. QED
  BY <1>1, <1>2, TimesDistributes, MoneyAssumption

LEMMA OneShareMore ==
  ASSUME NEW A, A \subseteq Tiered, NEW c \in Tiered, c \notin A
  PROVE  Cardinality(A \union {c}) * MaxCost = Cardinality(A) * MaxCost + MaxCost
<1>1. IsFiniteSet(A) /\ Cardinality(A) \in Nat /\ MaxCost \in Nat
  BY CallersAreFinite, CallersAssumption, MoneyAssumption
<1>2. Cardinality(A \union {c}) = Cardinality(A) + 1
  BY <1>1, FS_AddElement
<1>3. /\ MaxCost * (Cardinality(A) + 1) = MaxCost * Cardinality(A) + MaxCost * 1
      /\ MaxCost * (Cardinality(A) + 1) = (Cardinality(A) + 1) * MaxCost
      /\ MaxCost * Cardinality(A) = Cardinality(A) * MaxCost
  BY <1>1, TimesDistributes
<1>4. QED
  BY <1>1, <1>2, <1>3

LEMMA DisjointShares ==
  ASSUME NEW A, A \subseteq Tiered, NEW B, B \subseteq Tiered, A \intersect B = {}
  PROVE  Cardinality(A) * MaxCost + Cardinality(B) * MaxCost <= G!N * MaxCost
<1>1. /\ IsFiniteSet(A) /\ IsFiniteSet(B) /\ MaxCost \in Nat
      /\ Cardinality(A) \in Nat /\ Cardinality(B) \in Nat
  BY CallersAreFinite, CallersAssumption, MoneyAssumption
<1>2. Cardinality(A \union B) = Cardinality(A) + Cardinality(B)
  <2>1. Cardinality(A \union B)
          = Cardinality(A) + Cardinality(B) - Cardinality(A \intersect B)
    BY <1>1, FS_Union
  <2>2. Cardinality(A \intersect B) = 0
    BY FS_EmptySet
  <2>3. QED
    BY <1>1, <2>1, <2>2
<1>3. Cardinality(A \union B) * MaxCost <= G!N * MaxCost
  <2>1. A \union B \subseteq Tiered
    OBVIOUS
  <2>2. QED
    BY <2>1, SharesAreSmall
<1>4. MaxCost * (Cardinality(A) + Cardinality(B))
        = MaxCost * Cardinality(A) + MaxCost * Cardinality(B)
  BY <1>1, TimesDistributes
<1>5. /\ MaxCost * (Cardinality(A) + Cardinality(B)) = Cardinality(A \union B) * MaxCost
      /\ MaxCost * Cardinality(A) = Cardinality(A) * MaxCost
      /\ MaxCost * Cardinality(B) = Cardinality(B) * MaxCost
  <2>1. Cardinality(A) + Cardinality(B) \in Nat
    BY <1>1
  <2>2. QED
    BY <1>1, <1>2, <2>1, TimesDistributes
<1>6. QED
  BY <1>3, <1>4, <1>5

LEMMA ReservedStep ==
  DeskInv /\ DeskTypeOK' /\ InTime' /\ [Next]_vars => Reserved'
<1> SUFFICES ASSUME DeskInv, DeskTypeOK', InTime', [Next]_vars, NEW d \in G!Days
             PROVE  billed'[d] + Cardinality(Unbilled(d)') * MaxCost <= G!Bound + Slack'
  BY DEF Reserved, G!Days, G!Bound, G!N
<1> DEFINE U == Unbilled(d)
           V == Unbilled(d)'
           Goal == billed'[d] + Cardinality(V) * MaxCost <= G!Bound + Slack'
<1>1. DeskTypeOK /\ InTime /\ ExplainedFor(d)
  BY DEF DeskInv, Explained
<1>2. billed[d] + Cardinality(U) * MaxCost <= G!Bound + Slack
  BY DEF DeskInv, Reserved
<1>3. U \subseteq Tiered /\ V \subseteq Tiered
  <2>1. U \subseteq Tiered
    BY <1>1 DEF Unbilled, InTime, G!Outside
  <2>2. \A c \in Callers : pc'[c] \notin G!Outside => c \in Tiered
    BY DEF InTime, G!Outside
  <2>3. V \subseteq Tiered
    BY <2>2 DEF Unbilled, G!Outside
  <2>4. QED
    BY <2>1, <2>3
<1>4. /\ Cardinality(U) * MaxCost \in Nat /\ Cardinality(V) * MaxCost \in Nat
      /\ Cardinality(V) * MaxCost <= G!N * MaxCost /\ G!N * MaxCost \in Nat
      /\ G!Bound = (Ceiling - 1) + G!N * MaxCost
      /\ Ceiling - 1 \in Nat /\ MaxCost \in Nat
  BY <1>3, SharesAreSmall
<1>5. billed[d] \in Nat /\ Slack \in Nat
  BY <1>1, ExplainedParts
<1>6. /\ billed \in [G!Days -> Nat] /\ stamp \in [Callers -> G!Days]
      /\ pc \in [Callers -> G!Outside \union Inside]
      /\ today \in Int /\ d \in Int /\ \A c \in Callers : stamp[c] \in Int
      /\ crashes \in Nat /\ torn \in Nat /\ unpriced \in Nat
  BY <1>1, BoundsAssumption DEF DeskTypeOK, Inside, G!Days
<1>7. \A c \in Callers : c \in U <=> \/ pc[c] = "calling" /\ d >= today
                                     \/ pc[c] = "checking" /\ stamp[c] < d /\ d >= today
  BY DEF Unbilled
<1>8. \A c \in Callers : c \in V <=> \/ pc'[c] = "calling" /\ d >= today'
                                     \/ pc'[c] = "checking" /\ stamp'[c] < d /\ d >= today'
  BY DEF Unbilled
<1>9. U \subseteq Callers /\ V \subseteq Callers
  BY DEF Unbilled
<1> HIDE DEF U, V
<1>10. ASSUME V \subseteq U, billed' = billed, Slack' \in Nat, Slack' >= Slack
       PROVE  Goal
  <2>1. Cardinality(V) * MaxCost <= Cardinality(U) * MaxCost
    BY <1>3, <1>10, FewerShares
  <2>2. QED
    BY <1>2, <1>4, <1>5, <1>10, <2>1
<1>11. ASSUME UNCHANGED <<crashes, torn, unpriced>> PROVE Slack' = Slack
  BY <1>11 DEF Slack, SlackOf, G!N
<1>12. ASSUME NEW c \in Callers, BeforeAnswer(c) PROVE Goal
  <2>1. Slack' = Slack /\ billed' = billed /\ today' = today
    BY <1>11, <1>12 DEF BeforeAnswer, G!Unknown, G!Enter, G!Refuse, G!Admit,
                        G!ProviderFails
  <2>2. CASE G!Unknown(c) \/ G!Refuse(c) \/ G!ProviderFails(c)
    <3>1. \A k \in Callers : /\ pc'[k] \in {"calling", "checking"} => pc'[k] = pc[k]
                             /\ pc'[k] \in {"calling", "checking"} => stamp'[k] = stamp[k]
      BY <1>6, <2>2 DEF G!Unknown, G!Refuse, G!ProviderFails
    <3>2. V \subseteq U
      BY <1>7, <1>8, <1>9, <2>1, <3>1
    <3>3. QED
      BY <1>5, <1>10, <2>1, <3>2
  <2>3. CASE G!Enter(c)
    <3>1. /\ pc' = [pc EXCEPT ![c] = "checking"] /\ stamp' = [stamp EXCEPT ![c] = today]
      BY <2>3 DEF G!Enter
    <3>2. CASE d > today
      <4>1. billed[d] = 0
        BY <1>1, <3>2 DEF InTime
      <4>2. QED
        BY <1>4, <1>5, <2>1, <4>1
    <3>3. CASE ~(d > today)
      <4>1. \A k \in Callers : k \in V => k # c
        BY <1>6, <1>8, <2>1, <3>1, <3>3
      <4>2. \A k \in Callers : k # c => pc'[k] = pc[k] /\ stamp'[k] = stamp[k]
        BY <1>6, <3>1
      <4>3. V \subseteq U
        BY <1>7, <1>8, <1>9, <2>1, <4>1, <4>2
      <4>4. QED
        BY <1>5, <1>10, <2>1, <4>3
    <3>4. QED
      BY <3>2, <3>3
  <2>4. CASE G!Admit(c)
    <3>1. /\ pc[c] = "checking" /\ ~G!Exhausted(stamp[c])
          /\ pc' = [pc EXCEPT ![c] = "calling"] /\ stamp' = [stamp EXCEPT ![c] = 0]
      BY <2>4 DEF G!Admit
    <3>2. \A k \in Callers : k # c => pc'[k] = pc[k] /\ stamp'[k] = stamp[k]
      BY <1>6, <3>1
    <3>3. CASE stamp[c] < d \/ d < today
      <4>1. c \in V => c \in U
        BY <1>6, <1>7, <1>8, <2>1, <3>1, <3>3
      <4>2. V \subseteq U
        BY <1>7, <1>8, <1>9, <2>1, <3>2, <4>1
      <4>3. QED
        BY <1>5, <1>10, <2>1, <4>2
    <3>4. CASE ~(stamp[c] < d \/ d < today)
      <4>1. stamp[c] = d /\ d = today
        BY <1>1, <1>6, <3>4 DEF InTime
      <4>2. Spent(file, OfDay(d)) <= Ceiling - 1
        <5>1. ~(total_for_day(file, d) >= Ceiling)
          BY <3>1, <4>1 DEF G!Exhausted, G!Days
        <5>2. total_for_day(file, d) = Spent(file, OfDay(d))
          BY <1>1, TotalsAreSpent DEF DeskTypeOK
        <5>3. Spent(file, OfDay(d)) \in Nat
          BY <1>1, ExplainedParts
        <5>4. QED
          BY <5>1, <5>2, <5>3, MoneyAssumption
      <4>3. /\ Cardinality(Owed(d)) <= Cardinality(Answered(d)) * MaxCost
            /\ Cardinality(Owed(d)) \in Nat
            /\ Answered(d) \subseteq Tiered
        BY <1>1, OwedIsSmall
      <4>4. Answered(d) \intersect V = {}
        <5>1. \A k \in Answered(d) : k \in Callers /\ pc[k] = "answered" /\ k # c
          BY <3>1 DEF Answered
        <5>2. \A k \in Answered(d) : k \in Callers /\ pc'[k] = "answered"
          BY <3>2, <5>1
        <5>3. \A k \in Answered(d) : k \notin V
          BY <1>8, <5>2
        <5>4. QED
          BY <5>3
      <4>5. Cardinality(Answered(d)) * MaxCost + Cardinality(V) * MaxCost <= G!N * MaxCost
        BY <1>3, <4>3, <4>4, DisjointShares
      <4>6. Cardinality(Answered(d)) * MaxCost \in Nat
        BY <4>3, SharesAreSmall
      <4>7. billed[d] <= Spent(file, OfDay(d)) + Cardinality(Owed(d)) + Slack
        <5>1. billed[d] + Exposed(file, OfDay(d)) + (IF Closed(file) THEN 0 ELSE MaxCost)
                <= Spent(file, OfDay(d)) + Cardinality(Owed(d)) + Slack
          BY <1>1 DEF ExplainedFor
        <5>2. QED
          BY <1>1, <5>1, ExplainedParts
      <4>8. Spent(file, OfDay(d)) \in Nat
        BY <1>1, ExplainedParts
      <4>9. QED
        BY <1>4, <1>5, <2>1, <4>2, <4>3, <4>5, <4>6, <4>7, <4>8
    <3>5. QED
      BY <3>3, <3>4
  <2>5. QED
    BY <1>12, <2>2, <2>3, <2>4 DEF BeforeAnswer
<1>13. ASSUME NEW c \in Callers, NEW price \in 1..MaxCost, Answer(c, price) PROVE Goal
  <2>1. /\ crashes' = crashes /\ torn' = torn /\ today' = today
        /\ billed' = [billed EXCEPT ![today] = @ + price]
        /\ pc[c] = "calling"
        /\ pc' = [pc EXCEPT ![c] = "answered"]
        /\ stamp' = [stamp EXCEPT ![c] = today]
        /\ unpriced' = unpriced \/ unpriced' = unpriced + 1
    BY <1>13 DEF Answer, G!Answer
  <2>2. Slack' \in Nat /\ Slack' >= Slack
    <3>1. CASE unpriced' = unpriced
      BY <1>5, <1>11, <2>1, <3>1
    <3>2. CASE unpriced' = unpriced + 1
      <4>1. Slack' = SlackOf(crashes, torn, unpriced + 1)
        BY <2>1, <3>2 DEF Slack, SlackOf, G!N
      <4>2. Slack' = Slack + MaxCost
        BY <1>6, <4>1, SlackGrows DEF Slack
      <4>3. QED
        BY <1>4, <1>5, <4>2
    <3>3. QED
      BY <2>1, <3>1, <3>2
  <2>3. \A k \in Callers : k # c => pc'[k] = pc[k] /\ stamp'[k] = stamp[k]
    BY <1>6, <2>1
  <2>4. c \notin V
    BY <1>6, <1>8, <2>1
  <2>5. V \subseteq U
    BY <1>7, <1>8, <1>9, <2>1, <2>3, <2>4
  <2>6. CASE d = today
    <3>1. c \in U
      BY <1>6, <1>7, <2>1, <2>6
    <3>2. c \in Tiered
      BY <1>3, <3>1
    <3>3. Cardinality(V \union {c}) * MaxCost = Cardinality(V) * MaxCost + MaxCost
      BY <1>3, <2>4, <3>2, OneShareMore
    <3>4. Cardinality(V \union {c}) * MaxCost <= Cardinality(U) * MaxCost
      <4>1. V \union {c} \subseteq U
        BY <2>5, <3>1
      <4>2. QED
        BY <1>3, <4>1, FewerShares
    <3>5. billed'[d] = billed[d] + price /\ price \in Nat /\ price <= MaxCost
      BY <1>4, <1>6, <2>1, <2>6
    <3>6. QED
      BY <1>2, <1>4, <1>5, <2>2, <3>3, <3>4, <3>5
  <2>7. CASE d # today
    <3>1. billed'[d] = billed[d]
      BY <1>6, <2>1, <2>7
    <3>2. Cardinality(V) * MaxCost <= Cardinality(U) * MaxCost
      BY <1>3, <2>5, FewerShares
    <3>3. QED
      BY <1>2, <1>4, <1>5, <2>2, <3>1, <3>2
  <2>8. QED
    BY <2>6, <2>7
<1>14. ASSUME NEW c \in Callers, Record(c) PROVE Goal
  <2>1. /\ Slack' = Slack /\ billed' = billed /\ today' = today
        /\ pc' = [pc EXCEPT ![c] = "completed"] /\ stamp' = [stamp EXCEPT ![c] = 0]
    BY <1>11, <1>14 DEF Record
  <2>2. /\ \A k \in Callers : k # c => pc'[k] = pc[k] /\ stamp'[k] = stamp[k]
        /\ pc'[c] = "completed"
    BY <1>6, <2>1
  <2>3. V \subseteq U
    BY <1>7, <1>8, <1>9, <2>1, <2>2
  <2>4. QED
    BY <1>5, <1>10, <2>1, <2>3
<1>15. ASSUME Crash PROVE Goal
  <2>1. /\ billed' = billed /\ unpriced' = unpriced /\ crashes' = crashes + 1
        /\ torn' = torn \/ torn' = torn + 1
        /\ pc' = [c \in Callers |-> "idle"]
    BY <1>15 DEF Crash
  <2>2. V \subseteq U
    BY <1>8, <1>9, <2>1
  <2>3. Slack' \in Nat /\ Slack' >= Slack
    <3>1. SlackOf(crashes + 1, torn, unpriced) = Slack + G!N * MaxCost
      BY <1>6, SlackGrows DEF Slack
    <3>2. SlackOf(crashes + 1, torn + 1, unpriced)
            = SlackOf(crashes + 1, torn, unpriced) + MaxCost
      <4>1. crashes + 1 \in Nat
        BY <1>6
      <4>2. QED
        BY <1>6, <4>1, SlackGrows
    <3>3. \/ Slack' = SlackOf(crashes + 1, torn, unpriced)
          \/ Slack' = SlackOf(crashes + 1, torn + 1, unpriced)
      BY <2>1 DEF Slack, SlackOf, G!N
    <3>4. QED
      BY <1>4, <1>5, <3>1, <3>2, <3>3
  <2>4. billed' = billed
    BY <2>1
  <2>5. QED
    BY <1>10, <2>2, <2>3, <2>4
<1>16. ASSUME Midnight PROVE Goal
  <2>1. /\ Slack' = Slack /\ billed' = billed /\ today' = today + 1
        /\ pc' = pc /\ stamp' = stamp
    BY <1>11, <1>16 DEF Midnight, G!Midnight
  <2>2. V \subseteq U
    BY <1>6, <1>7, <1>8, <1>9, <2>1
  <2>3. billed' = billed /\ Slack' \in Nat /\ Slack' >= Slack
    BY <1>5, <2>1
  <2>4. QED
    BY <1>10, <2>2, <2>3
<1>17. ASSUME UNCHANGED vars PROVE Goal
  <2>1. Slack' = Slack /\ billed' = billed
    BY <1>11, <1>17 DEF vars
  <2>2. V \subseteq U
    BY <1>7, <1>8, <1>9, <1>17 DEF vars
  <2>3. Slack' \in Nat /\ Slack' >= Slack
    BY <1>5, <2>1
  <2>4. QED
    BY <1>10, <2>1, <2>2, <2>3
<1>18. Goal
  <2>1. CASE Crash
    BY <1>15, <2>1
  <2>2. CASE Midnight
    BY <1>16, <2>2
  <2>3. CASE UNCHANGED vars
    BY <1>17, <2>3
  <2>4. QED
    BY <1>12, <1>13, <2>1, <2>2, <2>3, <1>14 DEF Next
<1>19. QED
  BY <1>18 DEF V

-----------------------------------------------------------------------------
(* The theorems.                                                             *)

LEMMA DeskInit == Init => DeskInv /\ G!Init
<1> SUFFICES ASSUME Init PROVE DeskInv /\ G!Init
  OBVIOUS
<1>1. G!Init /\ file = <<>> /\ crashes = 0 /\ torn = 0 /\ unpriced = 0
      /\ billed = [d \in G!Days |-> 0]
  BY DEF Init
<1>2. /\ today = 0 /\ pc = [c \in Callers |-> "idle"]
      /\ cost = [c \in Callers |-> 0] /\ stamp = [c \in Callers |-> 0]
  BY <1>1 DEF G!Init
<1>3. DeskTypeOK
  BY <1>1, <1>2, MoneyAssumption, BoundsAssumption DEF DeskTypeOK, G!Days, G!Outside
<1>4. InTime
  BY <1>1, <1>2 DEF InTime, G!Outside
<1>5. Closed(file) /\ ReadablePositions(file) = {}
  BY <1>1 DEF Closed, IsNewline, ReadablePositions
<1>6. ASSUME NEW d \in G!Days
      PROVE  /\ ExplainedFor(d)
             /\ billed[d] + Cardinality(Unbilled(d)) * MaxCost <= G!Bound + Slack
  <2>1. Spent(file, OfDay(d)) = 0
    <3>1. {i \in ReadablePositions(file) : file[i].call \in OfDay(d)} = {}
      BY <1>5
    <3>2. MicroDollars(file, {}) = {}
      BY DEF MicroDollars
    <3>3. QED
      BY <3>1, <3>2, FS_EmptySet DEF Spent, Total
  <2>2. Cardinality(Owed(d)) = 0
    <3>1. Answered(d) = {}
      BY <1>2 DEF Answered
    <3>2. QED
      BY <3>1, BillsOfNobody DEF Owed
  <2>3. billed[d] = 0
    BY <1>1
  <2>4. Exposed(file, OfDay(d)) = 0 /\ Slack \in Nat
    BY <1>3, <1>4, <1>5, ExplainedParts
  <2>5. ExplainedFor(d)
    BY <1>5, <2>1, <2>2, <2>3, <2>4 DEF ExplainedFor
  <2>6. Unbilled(d) = {}
    BY <1>2 DEF Unbilled
  <2>7. Cardinality(Unbilled(d)) * MaxCost <= G!Bound + Slack
    BY <2>4, <2>6, SharesAreSmall
  <2>8. Cardinality(Unbilled(d)) * MaxCost \in Nat
    BY <2>6, SharesAreSmall
  <2>9. QED
    BY <2>3, <2>5, <2>7, <2>8
<1>7. EndsTorn
  BY <1>5 DEF EndsTorn
<1>8. QED
  BY <1>1, <1>3, <1>4, <1>6, <1>7 DEF DeskInv, Explained, Reserved

LEMMA DeskInvStep == DeskInv /\ [Next]_vars => DeskInv'
<1> SUFFICES ASSUME DeskInv, [Next]_vars PROVE DeskInv'
  OBVIOUS
<1>1. DeskTypeOK /\ InTime /\ EndsTorn
  BY DEF DeskInv
<1>2. DeskTypeOK'
  BY <1>1, TypeStep
<1>3. InTime'
  BY <1>1, InTimeStep
<1>4. EndsTorn'
  BY <1>1, EndsTornStep
<1>5. Explained' /\ Reserved'
  BY <1>2, <1>3, ExplainedStep, ReservedStep
<1>6. QED
  BY <1>2, <1>3, <1>4, <1>5 DEF DeskInv

LEMMA DeskInvHolds == Spec => []DeskInv
BY DeskInit, DeskInvStep, PTL DEF Spec

(* However many callers, crashes, torn appends and unpriced answers there are:   *)
(* the provider's invoice for a day passes the gateway's bound by no more than    *)
(* one dearest call for every call in flight at a crash, every torn append and    *)
(* every unpriced answer (llm.py 213-288 complete, spend.py 78-102 record, rows). *)
THEOREM InvoiceStaysBounded == Spec => []InvoiceIsBounded
<1>1. DeskInv => InvoiceIsBounded
  <2> SUFFICES ASSUME DeskInv, NEW d \in G!Days
               PROVE  billed[d] <= G!Bound + Slack
    BY DEF InvoiceIsBounded, Slack, SlackOf
  <2>1. DeskTypeOK /\ InTime
        /\ billed[d] + Cardinality(Unbilled(d)) * MaxCost <= G!Bound + Slack
    BY DEF DeskInv, Reserved
  <2>2. Unbilled(d) \subseteq Tiered
    BY <2>1 DEF Unbilled, InTime, G!Outside
  <2>3. QED
    BY <2>1, <2>2, SharesAreSmall, ExplainedParts
<1>2. QED
  BY <1>1, DeskInvHolds, PTL

(* What is read back for a day is never more than the provider billed for it:     *)
(* no line is counted twice and none is invented, whatever a crash leaves in the  *)
(* file (spend.py 88-102 rows, total_for_day).                                   *)
THEOREM LedgerStaysHonest == Spec => []LedgerNeverOverstates
<1>1. DeskInv => LedgerNeverOverstates
  <2> SUFFICES ASSUME DeskInv, NEW d \in G!Days
               PROVE  total_for_day(file, d) <= billed[d]
    BY DEF LedgerNeverOverstates
  <2>1. DeskTypeOK /\ InTime /\ ExplainedFor(d) /\ file \in Seq(DeskCell)
    BY DEF DeskInv, Explained, DeskTypeOK
  <2>2. total_for_day(file, d) = Spent(file, OfDay(d))
    BY <2>1, TotalsAreSpent
  <2>3. QED
    BY <2>1, <2>2, ExplainedParts DEF ExplainedFor
<1>2. QED
  BY <1>1, DeskInvHolds, PTL

\* Appending a line to a file that was never torn adds its cost to its day's total
\* and to its run's.
LEMMA RecordAddsItsCost ==
  ASSUME DeskInv, torn = 0, NEW c \in Callers, Record(c)
  PROVE  G!Record(c)
<1>1. DeskTypeOK /\ Closed(file) /\ file \in Seq(DeskCell)
  BY DEF DeskInv, EndsTorn, DeskTypeOK
<1>2. RowOf(c) \in Priced /\ file' = file \o Line(RowOf(c))
      /\ RowOf(c).day = stamp[c] /\ RowOf(c).cost = cost[c] /\ RowOf(c).run = RunOf[c]
  BY <1>1, RowIsPriced DEF Record
<1>3. ReadsLine(file, RowOf(c), file')
  BY <1>1, <1>2, LineAppended
<1>4. \A S : Spent(file', S) = Spent(file, S) + Share(RowOf(c), S)
  BY <1>1, <1>2, <1>3, LineTotals
<1>5. file' \in Seq(DeskCell)
  BY <1>3 DEF ReadsLine
<1>6. ASSUME NEW d
      PROVE  total_for_day(file', d)
               = total_for_day(file, d) + (IF d = stamp[c] THEN cost[c] ELSE 0)
  <2>1. /\ total_for_day(file', d) = Spent(file', OfDay(d))
        /\ total_for_day(file, d) = Spent(file, OfDay(d))
    BY <1>1, <1>5, TotalsAreSpent
  <2>2. Share(RowOf(c), OfDay(d)) = IF d = stamp[c] THEN cost[c] ELSE 0
    BY <1>2 DEF Share, OfDay
  <2>3. QED
    BY <1>4, <2>1, <2>2
<1>7. ASSUME NEW k
      PROVE  total_for_run(file', k)
               = total_for_run(file, k) + (IF k = RunOf[c] THEN cost[c] ELSE 0)
  <2>1. /\ total_for_run(file', k) = Spent(file', OfRun(k))
        /\ total_for_run(file, k) = Spent(file, OfRun(k))
    BY <1>1, <1>5, TotalsAreSpent
  <2>2. Share(RowOf(c), OfRun(k)) = IF k = RunOf[c] THEN cost[c] ELSE 0
    BY <1>2 DEF Share, OfRun
  <2>3. QED
    BY <1>4, <2>1, <2>2
<1>8. /\ \A d : total_for_day(file, d) \in Nat
      /\ \A k : total_for_run(file, k) \in Nat
  BY <1>1, TotalsAreSpent, SpentIsNat
<1> DEFINE days == [d \in 0..LastDay |-> total_for_day(file, d)]
           runs == [k \in Runs |-> total_for_run(file, k)]
<1>9. [d \in 0..LastDay |-> total_for_day(file', d)]
        = [days EXCEPT ![stamp[c]] = @ + cost[c]]
  <2>1. \A d \in 0..LastDay :
           total_for_day(file', d) = [days EXCEPT ![stamp[c]] = @ + cost[c]][d]
    BY <1>6, <1>8
  <2>2. QED
    BY <2>1
<1>10. [k \in Runs |-> total_for_run(file', k)]
        = [runs EXCEPT ![RunOf[c]] = @ + cost[c]]
  <2>1. \A k \in Runs :
           total_for_run(file', k) = [runs EXCEPT ![RunOf[c]] = @ + cost[c]][k]
    BY <1>7, <1>8
  <2>2. QED
    BY <2>1
<1>11. QED
  BY <1>9, <1>10 DEF Record, G!Record

LEMMA SameFileSameTotals ==
  ASSUME file' = file
  PROVE  /\ [d \in 0..LastDay |-> total_for_day(file', d)]
              = [d \in 0..LastDay |-> total_for_day(file, d)]
         /\ [k \in Runs |-> total_for_run(file', k)]
              = [k \in Runs |-> total_for_run(file, k)]
OBVIOUS

LEMMA GatewayStep == DeskInv /\ [Next]_vars => (torn' = 0 => [G!Next]_(G!vars))
<1> SUFFICES ASSUME DeskInv, [Next]_vars, torn' = 0 PROVE [G!Next]_(G!vars)
  OBVIOUS
<1>1. torn \in Nat
  BY DEF DeskInv, DeskTypeOK
<1>2. ASSUME NEW c \in Callers, G!Call(c) PROVE G!Next
  BY <1>2 DEF G!Next
<1>3. ASSUME NEW c \in Callers, BeforeAnswer(c) PROVE G!Next
  BY <1>2, <1>3 DEF BeforeAnswer, G!Call
<1>4. ASSUME NEW c \in Callers, NEW price \in 1..MaxCost, Answer(c, price) PROVE G!Next
  <2>1. G!Answer(c, price) \/ G!Answer(c, 0)
    BY <1>4 DEF Answer
  <2>2. price \in 0..MaxCost /\ 0 \in 0..MaxCost
    BY MoneyAssumption
  <2>3. G!Call(c)
    BY <2>1, <2>2 DEF G!Call
  <2>4. QED
    BY <1>2, <2>3
<1>5. ASSUME NEW c \in Callers, Record(c) PROVE G!Next
  <2>1. torn = 0
    BY <1>5 DEF Record
  <2>2. G!Record(c)
    BY <1>5, <2>1, RecordAddsItsCost
  <2>3. QED
    BY <1>2, <2>2 DEF G!Call
<1>6. CASE Crash
  <2>1. file' = file
    BY <1>1, <1>6 DEF Crash
  <2>2. G!Crash
    BY <1>6, <2>1, SameFileSameTotals DEF Crash, G!Crash
  <2>3. QED
    BY <2>2 DEF G!Next
<1>7. CASE Midnight
  BY <1>7 DEF Midnight, G!Next
<1>8. CASE UNCHANGED vars
  <2>1. file' = file /\ UNCHANGED <<today, pc, cost, stamp>>
    BY <1>8 DEF vars
  <2>2. UNCHANGED G!vars
    BY <2>1, SameFileSameTotals DEF G!vars
  <2>3. QED
    BY <2>2
<1>9. QED
  BY <1>3, <1>4, <1>5, <1>6, <1>7, <1>8 DEF Next

(* As long as no append was torn, the callers, reading their totals back from     *)
(* the file, take the gateway's steps and no others, through crashes that tear     *)
(* nothing and answers that cannot be priced (llm.py 213-288 complete over         *)
(* spend.py 78-124).                                                             *)
THEOREM DeskImplementsGateway == Spec => ImplementsGateway
<1>1. Spec => G!Init
  BY DeskInit DEF Spec
<1>2. DeskInv /\ [Next]_vars => [torn' = 0 => [G!Next]_(G!vars)]_vars
  BY GatewayStep
<1>3. QED
  BY <1>1, <1>2, DeskInvHolds, PTL DEF Spec, ImplementsGateway
=============================================================================
