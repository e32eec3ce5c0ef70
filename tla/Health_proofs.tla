---------------------------- MODULE Health_proofs ---------------------------
(***************************************************************************)
(* Proofs about Ingest and Health, for any exports, any contents of        *)
(* book.yaml and any quotes.  Of any number of importers that overlap in   *)
(* any way: the types, that no import disturbs the book-owned columns of a *)
(* position it finds, and that a report is as fresh as it says.  Of        *)
(* imports that do not overlap: the book is the last export, the audit     *)
(* trail keeps up with it, the archive replays it, and a report answers    *)
(* for all of it, crossed stops first.                                     *)
(***************************************************************************)
EXTENDS Health, WellFoundedInduction, SequenceTheorems, TLAPS

(* Appending to a sequence, or replacing its last member, gives a sequence.    *)
LEMMA ArchivedSeq ==
  \A S : \A s \in Seq(S), e \in S :
     /\ Append(s, e) \in Seq(S) /\ Append(s, e) # <<>>
     /\ Append(s, e)[Len(Append(s, e))] = e
     /\ s # <<>> => [s EXCEPT ![Len(s)] = e] \in Seq(S)
<1> SUFFICES ASSUME NEW S, NEW s \in Seq(S), NEW e \in S
             PROVE  /\ Append(s, e) \in Seq(S) /\ Append(s, e) # <<>>
                    /\ Append(s, e)[Len(Append(s, e))] = e
                    /\ s # <<>> => [s EXCEPT ![Len(s)] = e] \in Seq(S)
  OBVIOUS
<1>1. /\ Append(s, e) \in Seq(S) /\ Append(s, e) # <<>>
      /\ Append(s, e)[Len(Append(s, e))] = e
  BY AppendProperties
<1>2. ASSUME s # <<>> PROVE [s EXCEPT ![Len(s)] = e] \in Seq(S)
  <2>1. Len(s) \in 1..Len(s)
    BY <1>2, EmptySeq
  <2>2. QED
    BY <2>1, ExceptSeq
<1>3. QED
  BY <1>1, <1>2

USE CSVAssumption, BookAssumption, NoneAssumption, BoundAssumption

-----------------------------------------------------------------------------
(* Of the rows with one key there is a last one.                             *)

(* WFMin as one formula.                                                     *)
LEMMA WellFoundedMin ==
  \A R, S, T : IsWellFoundedOn(R, S) /\ T \subseteq S /\ T # {}
                 => \E x \in T : \A y \in T : ~ (<<y, x>> \in R)
<1> SUFFICES ASSUME NEW R, NEW S, NEW T, IsWellFoundedOn(R, S), T \subseteq S, T # {}
             PROVE  \E x \in T : \A y \in T : ~ (<<y, x>> \in R)
  OBVIOUS
<1> QED
  BY WFMin, Zenon

(* A set of naturals that is not empty has a least member.                   *)
LEMMA LeastOne ==
  \A T \in SUBSET Nat : T # {} => \E m \in T : \A y \in T : ~ (y < m)
<1> SUFFICES ASSUME NEW T \in SUBSET Nat, T # {}
             PROVE  \E m \in T : \A y \in T : ~ (y < m)
  OBVIOUS
<1>1. PICK R : /\ IsWellFoundedOn(R, Nat)
               /\ \A x, y \in Nat : <<x, y>> \in R <=> x < y
  BY NatLessThanWellFounded DEF OpToRel
<1>2. T \subseteq Nat /\ T # {}
  OBVIOUS
<1>3. \E m \in T : \A y \in T : ~ (<<y, m>> \in R)
  <2>1. IsWellFoundedOn(R, Nat)
    BY <1>1
  <2>2. QED
    BY ONLY <2>1, <1>2, WellFoundedMin, Zenon
<1>4. QED
  BY <1>1, <1>3

(* Of some places of a sequence of rows one comes last (by_key, and the last   *)
(* audit line: apply_changes keeps the later of two).                          *)
LEMMA LastOne ==
  ASSUME NEW n \in Nat, NEW S \in SUBSET (1..n), S # {}
  PROVE  \E i \in S : \A j \in S : j <= i
<1> DEFINE T == {m \in Nat : n - m \in S}
<1>1. \A j \in S : n - j \in T
  OBVIOUS
<1>2. T \in SUBSET Nat /\ T # {}
  BY <1>1
<1>3. PICK m \in T : \A y \in T : ~ (y < m)
  <2> HIDE DEF T
  <2> QED BY <1>2, LeastOne
<1>4. m \in Nat /\ n - m \in S
  BY <1>3
<1>5. \A j \in S : ~ (n - j < m)
  <2> HIDE DEF T
  <2> QED BY <1>1, <1>3
<1>6. QED
  BY <1>4, <1>5

(* by_key returns a row of the export that has the key it was asked for.       *)
LEMMA ByKeyIsARow ==
  ASSUME NEW csv \in CSVs, NEW k \in KeysOf(csv)
  PROVE  /\ by_key(csv, k) \in CSVRow
         /\ \E i \in DOMAIN csv : by_key(csv, k) = csv[i] /\ csv[i].key = k
<1> DEFINE S == {i \in DOMAIN csv : csv[i].key = k}
<1>1. csv \in Seq(CSVRow)
  OBVIOUS
<1>2. Len(csv) \in Nat /\ S \in SUBSET (1..Len(csv)) /\ S # {}
  BY <1>1 DEF KeysOf
<1>3. PICK i \in S : \A j \in S : j <= i
  <2> HIDE DEF S
  <2> QED BY <1>2, LastOne
<1> DEFINE P(x) == csv[x].key = k /\ \A j \in DOMAIN csv : csv[j].key = k => j <= x
<1> DEFINE last == CHOOSE x \in DOMAIN csv : P(x)
<1>4. i \in DOMAIN csv /\ P(i)
  BY <1>3
<1>5. last \in DOMAIN csv /\ P(last)
  <2> HIDE DEF P
  <2> QED BY <1>4
<1>6. by_key(csv, k) = csv[last]
  BY DEF by_key
<1>7. csv[last] \in CSVRow
  BY <1>1, <1>5
<1>8. QED
  BY <1>5, <1>6, <1>7

-----------------------------------------------------------------------------
(* What a transaction writes is a table again.                               *)

(* Keys that an import inserts or updates come from its export.               *)
LEMMA TouchedKeys ==
  ASSUME NEW w, w.csv \in CSVs
  PROVE  /\ NewKeys(w) \subseteq KeysOf(w.csv) /\ UpdatedKeys(w) \subseteq KeysOf(w.csv)
         /\ KeysOf(w.csv) \subseteq Keys
<1>1. w.csv \in Seq(CSVRow)
  OBVIOUS
<1>2. \A i \in DOMAIN w.csv : w.csv[i] \in CSVRow
  BY <1>1
<1>3. \A i \in DOMAIN w.csv : w.csv[i].key \in Keys
  BY <1>2 DEF CSVRow
<1>4. QED
  BY <1>3 DEF NewKeys, UpdatedKeys, New, Updated, KeysOf

(* An entry of the book.yaml that was read, or None, is an overlay.           *)
LEMMA OverlayIsTyped ==
  ASSUME NEW bk \in Books, NEW k
  PROVE  (IF k \in DOMAIN bk THEN bk[k] ELSE None) \in Entries \union {None}
BY DEF Entries

(* apply_changes leaves every position well typed and drops none.             *)
LEMMA AppliedIsTable ==
  ASSUME NEW w, NEW t, w.csv \in CSVs, w.book \in Books, IsTable(t),
         today \in 0..LastDay
  PROVE  IsTable(Applied(w, t)) /\ DOMAIN Applied(w, t) = DOMAIN t \union NewKeys(w)
<1>1. DOMAIN Applied(w, t) = DOMAIN t \union NewKeys(w)
  BY DEF Applied
<1>2. DOMAIN t \union NewKeys(w) \subseteq Keys
  BY TouchedKeys DEF IsTable
<1>3. ASSUME NEW k \in DOMAIN t \union NewKeys(w)
      PROVE  Applied(w, t)[k] \in Position
  <2>1. CASE k \in NewKeys(w)
    <3>1. by_key(w.csv, k) \in CSVRow
      BY <2>1, TouchedKeys, ByKeyIsARow
    <3>2. Applied(w, t)[k] = Inserted(w, k)
      BY <2>1 DEF Applied
    <3>3. (IF k \in DOMAIN w.book THEN w.book[k] ELSE None) \in Entries \union {None}
      BY OverlayIsTyped
    <3>4. Inserted(w, k) \in Position
      BY <3>1, <3>3 DEF Inserted, Position, CSVRow, Statuses, _status_for
    <3>5. QED
      BY <3>2, <3>4
  <2>2. CASE k \notin NewKeys(w) /\ k \in UpdatedKeys(w)
    <3>1. by_key(w.csv, k) \in CSVRow
      BY <2>2, TouchedKeys, ByKeyIsARow
    <3>2. Applied(w, t)[k] = UpdatedRow(w, k, t[k]) /\ t[k] \in Position
      BY <2>2, <1>3 DEF Applied, IsTable
    <3>3. UpdatedRow(w, k, t[k]) \in Position
      BY <3>1, <3>2 DEF UpdatedRow, Position, CSVRow, Statuses, _status_for
    <3>4. QED
      BY <3>2, <3>3
  <2>3. CASE k \notin NewKeys(w) /\ k \notin UpdatedKeys(w)
    <3>1. t[k] \in Position
      BY <2>3, <1>3 DEF IsTable
    <3>2. Applied(w, t)[k] = t[k] \/ Applied(w, t)[k] = [t[k] EXCEPT !.status = "CLOSED"]
      BY <2>3, <1>3 DEF Applied
    <3>3. [t[k] EXCEPT !.status = "CLOSED"] \in Position
      BY <3>1 DEF Position, Statuses
    <3>4. QED
      BY <3>1, <3>2, <3>3
  <2>4. QED
    BY <2>1, <2>2, <2>3
<1>4. QED
  BY <1>1, <1>2, <1>3 DEF IsTable

(* The audit trail has a quantity for every position.                         *)
LEMMA AuditedIsTyped ==
  ASSUME NEW w, NEW D, NEW trail \in [D -> Int], w.csv \in CSVs
  PROVE  Audited(w, trail) \in [D \union NewKeys(w) -> Int]
<1> SUFFICES ASSUME NEW k \in D \union NewKeys(w)
             PROVE  Audited(w, trail)[k] \in Int
  BY DEF Audited
<1>1. CASE k \in NewKeys(w)
  <2>1. by_key(w.csv, k) \in CSVRow
    BY <1>1, TouchedKeys, ByKeyIsARow
  <2>2. QED
    BY <1>1, <2>1 DEF Audited, CSVRow
<1>2. CASE k \notin NewKeys(w) /\ k \in DOMAIN w.existing /\ QtyLines(w, k) # {}
  <2>1. w.csv \in Seq(CSVRow)
    OBVIOUS
  <2>2. Len(w.csv) \in Nat /\ QtyLines(w, k) \in SUBSET (1..Len(w.csv))
    BY <2>1 DEF QtyLines, Updated
  <2> DEFINE P(x) == \A j \in QtyLines(w, k) : j <= x
  <2> DEFINE last == CHOOSE x \in QtyLines(w, k) : P(x)
  <2>3. \E x \in QtyLines(w, k) : P(x)
    BY <1>2, <2>2, LastOne
  <2>4. last \in QtyLines(w, k)
    <3> HIDE DEF P
    <3> QED BY <2>3
  <2>5. w.csv[last] \in CSVRow
    BY <2>1, <2>2, <2>4
  <2>6. Audited(w, trail)[k] = w.csv[last].qty
    BY <1>2 DEF Audited
  <2>7. QED
    BY <2>5, <2>6 DEF CSVRow
<1>3. CASE k \notin NewKeys(w) /\ ~ (k \in DOMAIN w.existing /\ QtyLines(w, k) # {})
  BY <1>3 DEF Audited
<1>4. QED
  BY <1>1, <1>2, <1>3

-----------------------------------------------------------------------------
(* The invariant: the types, and that `work` holds a record for each importer. *)

WorkShape ==
    work = [p \in Importers |-> [csv      |-> work[p].csv,
                                 book     |-> work[p].book,
                                 existing |-> work[p].existing]]

IInv == TypeOK /\ WorkShape

LEMMA InitIInv == Init => IInv
<1> SUFFICES ASSUME Init PROVE IInv
  OBVIOUS
<1>1. IsTable(NoRows) /\ NoRows \in [{} -> Int]
  BY DEF IsTable, NoRows
<1>2. <<>> \in Seq(CSVs)
  OBVIOUS
<1>3. QED
  BY <1>1, <1>2 DEF Init, IInv, TypeOK, WorkShape, NoWork

(* Every step of the import code, of the operator and of the clock keeps it.   *)
LEMMA StepKeepsIInv == IInv /\ [Next]_vars => IInv'
<1> SUFFICES ASSUME IInv, [Next]_vars PROVE IInv'
  OBVIOUS
<1>1. TypeOK /\ WorkShape
  BY DEF IInv
<1>2. ASSUME NEW p \in Importers, NEW csv \in CSVs, Load(p, csv) PROVE IInv'
  <2>1. begun' \in 0..MaxImports
    BY <1>1, <1>2 DEF Load, TypeOK
  <2>2. QED
    BY <1>1, <1>2, <2>1 DEF IInv, Load, TypeOK, WorkShape, db, IsTable, NoRows
<1>3. ASSUME NEW p \in Importers, Reconcile(p) PROVE IInv'
  <2>1. DOMAIN work = Importers /\ DOMAIN work[p] = {"csv", "book", "existing"}
    BY <1>1 DEF WorkShape
  <2>2. /\ DOMAIN work' = Importers
        /\ work'[p] = [csv |-> work[p].csv, book |-> work[p].book, existing |-> positions]
        /\ \A q \in Importers : q # p => work'[q] = work[q]
    BY <1>1, <1>3, <2>1 DEF Reconcile, WorkShape
  <2>3. WorkShape'
    BY <1>1, <1>3, <2>2 DEF WorkShape, Reconcile
  <2>4. UNCHANGED <<db, archive, book, today, begun, history>>
    BY <1>3 DEF Reconcile
  <2>5. /\ pc' \in [Importers -> {"idle", "loaded", "reconciled", "archived", "closing"}]
        /\ pc[p] # "idle" /\ \A q \in Importers : q # p => pc'[q] = pc[q]
    BY <1>1, <1>3 DEF Reconcile, TypeOK
  <2>6. \A q \in Importers :
           pc'[q] # "idle" => /\ work'[q].csv \in CSVs
                              /\ work'[q].book \in Books
                              /\ IsTable(work'[q].existing)
    BY <1>1, <2>2, <2>5 DEF TypeOK, IsTable
  <2>7. TypeOK'
    BY <1>1, <2>4, <2>5, <2>6 DEF TypeOK, db, IsTable
  <2>8. QED
    BY <2>3, <2>7 DEF IInv
<1>4. ASSUME NEW p \in Importers, Archive(p) PROVE IInv'
  <2>1. work[p].csv \in CSVs
    BY <1>1, <1>4 DEF Archive, TypeOK
  <2>2. archive \in Seq(CSVs)
    BY <1>1 DEF TypeOK
  <2>3. /\ Append(archive, work[p].csv) \in Seq(CSVs)
        /\ archive # <<>> => [archive EXCEPT ![Len(archive)] = work[p].csv] \in Seq(CSVs)
    BY ONLY <2>1, <2>2, ArchivedSeq, Zenon
  <2>4. archive' \in Seq(CSVs)
    BY ONLY <1>4, <2>3 DEF Archive, Archived
  <2>5. QED
    BY <1>1, <1>4, <2>4 DEF IInv, Archive, TypeOK, WorkShape, db, IsTable
<1>5. ASSUME NEW p \in Importers, Commit(p) PROVE IInv'
  <2>1. /\ work[p].csv \in CSVs /\ work[p].book \in Books
        /\ IsTable(positions) /\ IsTable(mainFile)
        /\ today \in 0..LastDay /\ audited \in [DOMAIN positions -> Int]
    BY <1>1, <1>5 DEF Commit, TypeOK
  <2>2. /\ IsTable(positions)'
        /\ DOMAIN positions' = DOMAIN positions \union NewKeys(work[p])
    BY <1>5, <2>1, AppliedIsTable DEF Commit, IsTable
  <2>3. audited' \in [DOMAIN positions' -> Int]
    BY <1>5, <2>1, <2>2, AuditedIsTyped DEF Commit
  <2>4. IsTable(mainFile)'
    BY <1>5, <2>1, <2>2 DEF Commit, IsTable
  <2>5. QED
    BY <1>1, <1>5, <2>1, <2>2, <2>3, <2>4
    DEF IInv, Commit, TypeOK, WorkShape, IsTable
<1>6. ASSUME NEW p \in Importers, RollBack(p) PROVE IInv'
  BY <1>1, <1>6 DEF IInv, RollBack, TypeOK, WorkShape, db, IsTable
<1>7. ASSUME NEW p \in Importers, Close(p) PROVE IInv'
  BY <1>1, <1>7 DEF IInv, Close, TypeOK, WorkShape, IsTable, NoWork
<1>8. ASSUME NEW p \in Importers, Crash(p) PROVE IInv'
  BY <1>1, <1>8 DEF IInv, Crash, TypeOK, WorkShape, db, IsTable, NoWork
<1>9. CASE EditBook
  BY <1>1, <1>9 DEF IInv, EditBook, TypeOK, WorkShape, db, IsTable
<1>10. CASE Tomorrow
  BY <1>1, <1>10 DEF IInv, Tomorrow, TypeOK, WorkShape, db, IsTable
<1>11. CASE UNCHANGED vars
  BY <1>1, <1>11 DEF IInv, vars, TypeOK, WorkShape, db, IsTable
<1>12. QED
  BY <1>2, <1>3, <1>4, <1>5, <1>6, <1>7, <1>8, <1>9, <1>10, <1>11 DEF Next, Import

(* Every reachable state is well typed: what one importer has read, and what   *)
(* it writes over another's commits, keep to the schema (ingest.py, db.py).    *)
THEOREM TypeCorrect == Spec => []TypeOK
<1>1. IInv => TypeOK
  BY DEF IInv
<1>2. QED
  BY <1>1, InitIInv, StepKeepsIInv, PTL DEF Spec

-----------------------------------------------------------------------------
(* The book-owned columns.                                                   *)

(* The positions a step finds keep their row, their overlay and their opening  *)
(* day.                                                                        *)
Untouched ==
    \A k \in DOMAIN positions :
        /\ k \in DOMAIN positions'
        /\ positions'[k].overlay = positions[k].overlay
        /\ positions'[k].opened_at = positions[k].opened_at

(* Only Commit writes the table, and its INSERTs are for other keys, its       *)
(* UPDATEs set three columns and the status (apply_changes, ingest.py 150-204).*)
LEMMA StepLeavesBookColumns == TypeOK /\ [Next]_vars => Untouched
<1> SUFFICES ASSUME TypeOK, [Next]_vars PROVE Untouched
  OBVIOUS
<1>1. ASSUME UNCHANGED positions PROVE Untouched
  BY <1>1 DEF Untouched
<1>2. ASSUME NEW p \in Importers, Commit(p) PROVE Untouched
  <2> SUFFICES ASSUME NEW k \in DOMAIN positions
               PROVE  /\ k \in DOMAIN positions'
                      /\ positions'[k].overlay = positions[k].overlay
                      /\ positions'[k].opened_at = positions[k].opened_at
    BY DEF Untouched
  <2>1. positions' = Applied(work[p], positions) /\ k \notin NewKeys(work[p])
    BY <1>2 DEF Commit, Insertable
  <2>2. positions[k] \in Position
    BY DEF TypeOK, IsTable
  <2>3. k \in DOMAIN positions'
    BY <2>1 DEF Applied
  <2>4. \/ positions'[k] = UpdatedRow(work[p], k, positions[k])
        \/ positions'[k] = [positions[k] EXCEPT !.status = "CLOSED"]
        \/ positions'[k] = positions[k]
    BY <2>1 DEF Applied
  <2>5. /\ UpdatedRow(work[p], k, positions[k]).overlay = positions[k].overlay
        /\ UpdatedRow(work[p], k, positions[k]).opened_at = positions[k].opened_at
    BY <2>2 DEF UpdatedRow, Position
  <2>6. QED
    BY <2>2, <2>3, <2>4, <2>5 DEF Position
<1>3. QED
  BY <1>1, <1>2
  DEF Next, Import, Load, Reconcile, Archive, RollBack, Close, Crash, EditBook,
      Tomorrow, vars, db

(* Whatever imports overlap, die or fail, each position keeps the stop, the    *)
(* target, the thesis and the opening day it was inserted with, and no         *)
(* position is deleted (ingest.py 3-8).                                        *)
THEOREM StopsSurvive == Spec => StopsSurviveImports
<1>1. IInv /\ [Next]_vars => [Untouched]_vars
  BY StepLeavesBookColumns DEF IInv
<1>2. QED
  BY <1>1, InitIInv, StepKeepsIInv, PTL DEF Spec, StopsSurviveImports, Untouched

-----------------------------------------------------------------------------
(* One import at a time: the book is the last export.                        *)

(* A diff computed on the table it is applied to leaves exactly the export:    *)
(* reconcile and apply_changes together (ingest.py 99-204).                    *)
LEMMA AppliedDescribes ==
  ASSUME NEW w, NEW t, w.csv \in CSVs, w.existing = t, IsTable(t),
         Insertable(w, t)
  PROVE  /\ Describes(w.csv, Applied(w, t))
         /\ \A k \in Held(Applied(w, t)) :
               Applied(w, t)[k].status = _status_for(k, w.book)
<1> DEFINE A == Applied(w, t)
<1> DEFINE Current(k) == /\ A[k].qty = by_key(w.csv, k).qty
                         /\ A[k].cost = by_key(w.csv, k).cost
                         /\ A[k].status = _status_for(k, w.book)
<1>1. DOMAIN A = DOMAIN t \union NewKeys(w)
  BY DEF Applied
<1>2. KeysOf(w.csv) \subseteq DOMAIN A
  BY <1>1 DEF KeysOf, NewKeys, New
<1>3. \A k : _status_for(k, w.book) # "CLOSED"
  BY DEF _status_for
<1>4. ASSUME NEW k \in KeysOf(w.csv) PROVE Current(k)
  <2>1. CASE k \in NewKeys(w)
    BY <1>1, <2>1 DEF Applied, Inserted
  <2>2. CASE k \notin NewKeys(w) /\ k \in UpdatedKeys(w)
    <3>1. A[k] = UpdatedRow(w, k, t[k]) /\ t[k] \in Position
      BY <1>1, <1>2, <2>2, <1>4 DEF Applied, IsTable
    <3>2. QED
      BY <3>1 DEF UpdatedRow, Position
  <2>3. CASE k \notin NewKeys(w) /\ k \notin UpdatedKeys(w)
    <3>1. k \in DOMAIN t
      BY <1>1, <1>2, <1>4, <2>3
    <3>2. A[k] = t[k]
      BY <1>1, <3>1, <2>3, <1>4 DEF Applied, Closed
    <3>3. PICK i \in DOMAIN w.csv : by_key(w.csv, k) = w.csv[i] /\ w.csv[i].key = k
      BY <1>4, ByKeyIsARow
    <3>4. i \notin Updated(w)
      BY <2>3, <3>3 DEF UpdatedKeys
    <3>5. QED
      BY <3>1, <3>2, <3>3, <3>4 DEF Updated
  <2>4. QED
    BY <2>1, <2>2, <2>3
<1>5. ASSUME NEW k \in DOMAIN A, k \notin KeysOf(w.csv) PROVE A[k].status = "CLOSED"
  <2>1. k \notin NewKeys(w) /\ k \notin UpdatedKeys(w) /\ k \in DOMAIN t
    BY <1>1, <1>5, TouchedKeys
  <2>2. t[k] \in Position
    BY <2>1 DEF IsTable
  <2>3. CASE t[k].status = "CLOSED"
    <3>1. A[k] = t[k]
      BY <1>1, <2>1, <2>3 DEF Applied, Closed
    <3>2. QED
      BY <2>3, <3>1
  <2>4. CASE t[k].status # "CLOSED"
    <3>1. A[k] = [t[k] EXCEPT !.status = "CLOSED"]
      BY <1>1, <1>5, <2>1, <2>4 DEF Applied, Closed
    <3>2. QED
      BY <2>2, <3>1 DEF Position
  <2>5. QED
    BY <2>3, <2>4
<1>6. Held(A) = KeysOf(w.csv)
  <2> HIDE DEF A
  <2> QED BY <1>2, <1>3, <1>4, <1>5 DEF Held
<1>7. QED
  <2> HIDE DEF A
  <2>1. Describes(w.csv, A)
    BY <1>4, <1>6 DEF Describes
  <2>2. \A k \in Held(A) : A[k].status = _status_for(k, w.book)
    BY <1>4, <1>6
  <2>3. QED
    BY <2>1, <2>2 DEF A

(* With one importer, what it has read of the table is what is there.          *)
Import1 == [csv : CSVs, book : Books, day : 0..LastDay]

SInv ==
    /\ IInv
    /\ history \in Seq(Import1)
    /\ \A p \in Importers :
          pc[p] \in {"reconciled", "archived"} => work[p].existing = positions
    /\ BookIsLastImport

LEMMA StepKeepsSInv ==
  ASSUME \A p, q \in Importers : p = q
  PROVE  SInv /\ [Next]_vars => SInv'
<1> SUFFICES ASSUME SInv, [Next]_vars PROVE SInv'
  OBVIOUS
<1>1. IInv'
  BY StepKeepsIInv DEF SInv
<1>2. /\ TypeOK /\ WorkShape /\ history \in Seq(Import1) /\ BookIsLastImport
      /\ \A p \in Importers :
            pc[p] \in {"reconciled", "archived"} => work[p].existing = positions
  BY DEF SInv, IInv
<1> DEFINE Read == \A p \in Importers :
                     pc[p] \in {"reconciled", "archived"} => work[p].existing = positions
<1>3. ASSUME UNCHANGED <<positions, lastImport, history>>, Read' PROVE SInv'
  BY <1>1, <1>2, <1>3 DEF SInv, BookIsLastImport, Describes, Held
<1>4. ASSUME NEW p \in Importers, NEW csv \in CSVs, Load(p, csv) PROVE SInv'
  BY <1>2, <1>3, <1>4 DEF Load, db, TypeOK
<1>5. ASSUME NEW p \in Importers, Reconcile(p) PROVE SInv'
  <2>1. \A q \in Importers : q = p
    OBVIOUS
  <2>2. work'[p].existing = positions
    BY <1>2, <1>5 DEF Reconcile, WorkShape
  <2>3. Read'
    BY <1>5, <2>1, <2>2 DEF Reconcile, db
  <2>4. QED
    BY <1>3, <1>5, <2>3 DEF Reconcile, db
<1>6. ASSUME NEW p \in Importers, Archive(p) PROVE SInv'
  BY <1>2, <1>3, <1>6 DEF Archive, db, TypeOK
<1>7. ASSUME NEW p \in Importers, Commit(p) PROVE SInv'
  <2> DEFINE done == [csv |-> work[p].csv, book |-> work[p].book, day |-> today]
  <2>1. /\ work[p].csv \in CSVs /\ work[p].book \in Books /\ today \in 0..LastDay
        /\ work[p].existing = positions /\ IsTable(positions)
    BY <1>2, <1>7 DEF Commit, TypeOK
  <2>2. done \in Import1
    BY <2>1 DEF Import1
  <2>3. history' = Append(history, done)
    BY <1>7 DEF Commit
  <2>4. /\ history' \in Seq(Import1) /\ history' # <<>>
        /\ history'[Len(history')] = done
    <3> HIDE DEF done
    <3>1. history \in Seq(Import1)
      BY <1>2
    <3>2. /\ Append(history, done) \in Seq(Import1)
          /\ Append(history, done) # <<>>
          /\ Append(history, done)[Len(Append(history, done))] = done
      BY ONLY <2>2, <3>1, ArchivedSeq, Zenon
    <3>3. QED
      BY ONLY <2>3, <3>2
  <2>5. positions' = Applied(work[p], positions) /\ Insertable(work[p], positions)
    BY <1>7 DEF Commit
  <2>6. /\ Describes(done.csv, positions')
        /\ \A k \in Held(positions') : positions'[k].status = _status_for(k, done.book)
    BY <2>1, <2>5, AppliedDescribes
  <2>7. BookIsLastImport'
    <3> HIDE DEF done
    <3> QED BY <2>4, <2>6 DEF BookIsLastImport, Describes, Held
  <2>8. pc'[p] = "closing" /\ \A q \in Importers : q = p
    BY <1>2, <1>7 DEF Commit, TypeOK
  <2>9. QED
    BY <1>1, <2>4, <2>7, <2>8 DEF SInv
<1>8. ASSUME NEW p \in Importers, RollBack(p) PROVE SInv'
  BY <1>2, <1>3, <1>8 DEF RollBack, db, TypeOK
<1>9. ASSUME NEW p \in Importers, Close(p) PROVE SInv'
  BY <1>2, <1>3, <1>9 DEF Close, db, TypeOK
<1>10. ASSUME NEW p \in Importers, Crash(p) PROVE SInv'
  BY <1>2, <1>3, <1>10 DEF Crash, db, TypeOK
<1>11. CASE EditBook
  BY <1>2, <1>3, <1>11 DEF EditBook, db
<1>12. CASE Tomorrow
  BY <1>2, <1>3, <1>12 DEF Tomorrow, db
<1>13. CASE UNCHANGED vars
  BY <1>2, <1>3, <1>13 DEF vars, db
<1>14. QED
  BY <1>4, <1>5, <1>6, <1>7, <1>8, <1>9, <1>10, <1>11, <1>12, <1>13 DEF Next, Import

(* While imports do not overlap, the book is always the last committed export  *)
(* under the book.yaml that import read, whatever exports came before, with    *)
(* closed, reopened and repeated positions, and wherever an import dies.       *)
THEOREM SerialImportsAreExact ==
  ASSUME \A p, q \in Importers : p = q
  PROVE  Spec => []BookIsLastImport
<1>1. Init => SInv
  <2> SUFFICES ASSUME Init PROVE SInv
    OBVIOUS
  <2>1. history \in Seq(Import1)
    BY DEF Init
  <2>2. \A p \in Importers : pc[p] = "idle"
    BY DEF Init
  <2>3. QED
    BY <2>1, <2>2, InitIInv DEF SInv, Init, BookIsLastImport
<1>2. SInv => BookIsLastImport
  BY DEF SInv
<1>3. QED
  BY <1>1, <1>2, StepKeepsSInv, PTL DEF Spec

-----------------------------------------------------------------------------
(* One import at a time: what the audit trail says last of a quantity.       *)

OneRowPerKey(csv) == \A i, j \in DOMAIN csv : csv[i].key = csv[j].key => i = j

(* A diff computed on the table it is applied to, of an export with one row a  *)
(* key, writes the line that the table needs (ingest.py 207-219).             *)
LEMMA AuditFollows ==
  ASSUME NEW w, NEW t, w.csv \in CSVs, w.existing = t, IsTable(t), OneRowPerKey(w.csv),
         NEW trail, DOMAIN trail = DOMAIN t, \A k \in DOMAIN t : trail[k] = t[k].qty
  PROVE  \A k \in DOMAIN Applied(w, t) : Audited(w, trail)[k] = Applied(w, t)[k].qty
<1> DEFINE A == Applied(w, t)
<1>1. DOMAIN A = DOMAIN t \union NewKeys(w) /\ DOMAIN Audited(w, trail) = DOMAIN t \union NewKeys(w)
  BY DEF Applied, Audited
<1>2. ASSUME NEW k \in NewKeys(w) PROVE Audited(w, trail)[k] = A[k].qty
  BY <1>1 DEF Applied, Audited, Inserted
<1>3. ASSUME NEW k \in DOMAIN t, k \notin NewKeys(w), k \notin KeysOf(w.csv)
      PROVE  Audited(w, trail)[k] = A[k].qty
  <2>1. QtyLines(w, k) = {} /\ k \notin UpdatedKeys(w)
    BY <1>3 DEF QtyLines, Updated, UpdatedKeys, KeysOf
  <2>2. Audited(w, trail)[k] = t[k].qty
    BY <1>3, <2>1 DEF Audited
  <2>3. A[k] = t[k] \/ A[k] = [t[k] EXCEPT !.status = "CLOSED"]
    BY <1>3, <2>1 DEF Applied
  <2>4. QED
    BY <1>3, <2>2, <2>3 DEF IsTable, Position
<1>4. ASSUME NEW k \in DOMAIN t, k \notin NewKeys(w), k \in KeysOf(w.csv)
      PROVE  Audited(w, trail)[k] = A[k].qty
  <2>1. PICK i \in DOMAIN w.csv : by_key(w.csv, k) = w.csv[i] /\ w.csv[i].key = k
    BY <1>4, ByKeyIsARow
  <2>2. \A j \in DOMAIN w.csv : w.csv[j].key = k => j = i
    BY <2>1 DEF OneRowPerKey
  <2>3. t[k] \in Position
    BY DEF IsTable
  <2>4. CASE w.csv[i].qty # t[k].qty
    <3>1. i \in Updated(w) /\ QtyLines(w, k) = {i}
      BY <2>1, <2>2, <2>4 DEF Updated, QtyLines
    <3>2. i \in Nat
      <4>1. w.csv \in Seq(CSVRow)
        OBVIOUS
      <4>2. QED
        BY <4>1
    <3>3. (CHOOSE x \in QtyLines(w, k) : \A j \in QtyLines(w, k) : j <= x) = i
      BY <3>1, <3>2
    <3>4. Audited(w, trail)[k] = w.csv[i].qty
      BY <1>4, <3>1, <3>3 DEF Audited
    <3>5. A[k] = UpdatedRow(w, k, t[k])
      BY <1>4, <2>1, <3>1 DEF Applied, UpdatedKeys
    <3>6. QED
      BY <2>1, <2>3, <3>4, <3>5 DEF UpdatedRow, Position
  <2>5. CASE w.csv[i].qty = t[k].qty
    <3>1. QtyLines(w, k) = {}
      BY <2>2, <2>5 DEF QtyLines, Updated
    <3>2. Audited(w, trail)[k] = t[k].qty
      BY <1>4, <3>1 DEF Audited
    <3>3. A[k] = UpdatedRow(w, k, t[k]) \/ A[k] = t[k]
      BY <1>4 DEF Applied, Closed
    <3>4. UpdatedRow(w, k, t[k]).qty = t[k].qty
      BY <2>1, <2>3, <2>5 DEF UpdatedRow, Position
    <3>5. A[k].qty = t[k].qty
      BY <3>3, <3>4
    <3>6. QED
      BY <3>2, <3>5
  <2>6. QED
    BY <2>4, <2>5
<1>5. QED
  BY <1>1, <1>2, <1>3, <1>4

(* While imports do not overlap and no export has two rows of one key, the     *)
(* audit trail ends with the quantity of every position (ingest.py 18).        *)
THEOREM AuditKeepsUp ==
  ASSUME \A p, q \in Importers : p = q,
         \A csv \in CSVs : OneRowPerKey(csv)
  PROVE  Spec => []AuditStatesTheQuantity
<1> DEFINE AInv == SInv /\ AuditStatesTheQuantity
<1>1. Init => AInv
  <2> SUFFICES ASSUME Init PROVE AInv
    OBVIOUS
  <2>1. history \in Seq(Import1)
    BY DEF Init
  <2>2. \A p \in Importers : pc[p] = "idle"
    BY DEF Init
  <2>3. SInv
    BY <2>1, <2>2, InitIInv DEF SInv, Init, BookIsLastImport
  <2>4. AuditStatesTheQuantity
    BY DEF Init, NoRows, AuditStatesTheQuantity
  <2>5. QED
    BY <2>3, <2>4
<1>2. AInv /\ [Next]_vars => AInv'
  <2> SUFFICES ASSUME AInv, [Next]_vars PROVE AInv'
    OBVIOUS
  <2>1. SInv'
    BY StepKeepsSInv
  <2>2. ASSUME UNCHANGED <<positions, audited>> PROVE AuditStatesTheQuantity'
    BY <2>2 DEF AuditStatesTheQuantity
  <2>3. ASSUME NEW p \in Importers, Commit(p) PROVE AuditStatesTheQuantity'
    <3>1. /\ work[p].csv \in CSVs /\ work[p].existing = positions /\ IsTable(positions)
          /\ DOMAIN audited = DOMAIN positions
      BY <2>3 DEF Commit, SInv, IInv, TypeOK
    <3>2. /\ positions' = Applied(work[p], positions)
          /\ audited' = Audited(work[p], audited)
      BY <2>3 DEF Commit
    <3>3. \A k \in DOMAIN positions : audited[k] = positions[k].qty
      BY DEF AuditStatesTheQuantity
    <3>4. OneRowPerKey(work[p].csv)
      BY <3>1
    <3>5. \A k \in DOMAIN Applied(work[p], positions) :
             Audited(work[p], audited)[k] = Applied(work[p], positions)[k].qty
      BY <3>1, <3>3, <3>4, AuditFollows
    <3>6. QED
      BY <3>2, <3>5 DEF AuditStatesTheQuantity
  <2>4. (\E p \in Importers : Commit(p)) \/ UNCHANGED <<positions, audited>>
    BY DEF Next, Import, Load, Reconcile, Archive, RollBack, Close, Crash, EditBook, Tomorrow, db, vars
  <2>5. QED
    BY <2>1, <2>2, <2>3, <2>4
<1>3. AInv => AuditStatesTheQuantity
  OBVIOUS
<1> HIDE DEF AInv
<1>4. QED
  BY <1>1, <1>2, <1>3, PTL DEF Spec
-----------------------------------------------------------------------------
(* One import at a time, and no two archives in one second: the archive        *)
(* replays the book.                                                           *)

(* The first n files of archive a hold, in order, the exports of history h.    *)
Replays(h, a, n) ==
    \E pick \in [1..Len(h) -> 1..n] :
        /\ \A i \in 1..Len(h) : a[pick[i]] = h[i].csv
        /\ \A i, j \in 1..Len(h) : i < j => pick[i] < pick[j]

RInv ==
    /\ IInv
    /\ history \in Seq(Import1)
    /\ Replays(history, archive, Len(archive))
    /\ \A p \in Importers :
          pc[p] = "archived" => /\ archive # <<>>
                                /\ archive[Len(archive)] = work[p].csv
                                /\ Replays(history, archive, Len(archive) - 1)

(* A new file leaves the files a replay reads where they were.                 *)
LEMMA LaterFilesDoNotMatter ==
  ASSUME NEW h \in Seq(Import1), NEW a \in Seq(CSVs), NEW csv \in CSVs,
         Replays(h, a, Len(a))
  PROVE  /\ Replays(h, Append(a, csv), Len(a))
         /\ Replays(h, Append(a, csv), Len(a) + 1)
<1>1. PICK pick \in [1..Len(h) -> 1..Len(a)] :
        /\ \A i \in 1..Len(h) : a[pick[i]] = h[i].csv
        /\ \A i, j \in 1..Len(h) : i < j => pick[i] < pick[j]
  BY DEF Replays
<1>2. \A i \in 1..Len(a) : Append(a, csv)[i] = a[i]
  BY AppendProperties
<1>3. \A i \in 1..Len(h) : Append(a, csv)[pick[i]] = h[i].csv
  BY <1>1, <1>2
<1>4. Len(a) \in Nat
  BY LenProperties
<1>5. pick \in [1..Len(h) -> 1..Len(a) + 1]
  BY <1>1, <1>4
<1>6. Replays(h, Append(a, csv), Len(a))
  BY <1>1, <1>3 DEF Replays
<1>7. Replays(h, Append(a, csv), Len(a) + 1)
  BY <1>1, <1>3, <1>5 DEF Replays
<1>8. QED
  BY <1>6, <1>7

(* An export committed from the last file is replayed by that file.            *)
LEMMA LastFileReplaysTheCommit ==
  ASSUME NEW h \in Seq(Import1), NEW a \in Seq(CSVs), NEW done \in Import1,
         a # <<>>, a[Len(a)] = done.csv, Replays(h, a, Len(a) - 1)
  PROVE  Replays(Append(h, done), a, Len(a))
<1>1. PICK pick \in [1..Len(h) -> 1..Len(a) - 1] :
        /\ \A i \in 1..Len(h) : a[pick[i]] = h[i].csv
        /\ \A i, j \in 1..Len(h) : i < j => pick[i] < pick[j]
  BY DEF Replays
<1> DEFINE n == Len(a)
           m == Len(h)
           p2 == [i \in 1..m + 1 |-> IF i = m + 1 THEN n ELSE pick[i]]
           h2 == Append(h, done)
<1>2. n \in Nat \ {0} /\ m \in Nat
  BY LenProperties, EmptySeq
<1>3. Len(h2) = m + 1 /\ h2[m + 1] = done /\ \A i \in 1..m : h2[i] = h[i]
  BY AppendProperties
<1>4. \A i \in 1..m : pick[i] \in 1..n - 1
  BY <1>1
<1> HIDE DEF n, m, h2
<1>5. p2 \in [1..m + 1 -> 1..n]
  BY <1>2, <1>4
<1>6. ASSUME NEW i \in 1..m + 1 PROVE a[p2[i]] = h2[i].csv
  <2>1. CASE i = m + 1
    BY <1>3, <2>1 DEF n
  <2>2. CASE i # m + 1
    <3>1. i \in 1..m
      BY <1>2, <2>2
    <3>2. p2[i] = pick[i] /\ h2[i] = h[i]
      BY <1>3, <2>2, <3>1
    <3>3. QED
      BY <1>1, <3>1, <3>2 DEF m
  <2>3. QED
    BY <2>1, <2>2
<1>7. ASSUME NEW i \in 1..m + 1, NEW j \in 1..m + 1, i < j PROVE p2[i] < p2[j]
  <2>1. i \in 1..m /\ p2[i] = pick[i] /\ pick[i] \in 1..n - 1
    BY <1>2, <1>4, <1>7
  <2>2. CASE j = m + 1
    BY <1>2, <2>1, <2>2
  <2>3. CASE j # m + 1
    <3>1. j \in 1..m /\ p2[j] = pick[j]
      BY <1>2, <2>3
    <3>2. pick[i] < pick[j]
      BY <1>1, <1>7, <2>1, <3>1 DEF m
    <3>3. QED
      BY <2>1, <3>1, <3>2
  <2>4. QED
    BY <2>2, <2>3
<1> HIDE DEF p2
<1>8. Replays(h2, a, n)
  BY <1>3, <1>5, <1>6, <1>7 DEF Replays
<1>9. QED
  BY <1>8 DEF h2, n

(* While imports do not overlap and no two exports are archived under one      *)
(* name, every export that changed the book is in imports/, in the order the   *)
(* book changed, wherever an import dies (ingest.py 19-20, 213-219).           *)
THEOREM ArchiveReplaysTheBook ==
  ASSUME \A p, q \in Importers : p = q, ~SameSecond
  PROVE  Spec => []ArchiveReplaysHistory
<1>1. Init => RInv
  <2> SUFFICES ASSUME Init PROVE RInv
    OBVIOUS
  <2>1. IInv /\ \A p \in Importers : pc[p] = "idle"
    BY InitIInv DEF Init
  <2>2. history \in Seq(Import1) /\ Len(history) = 0 /\ Len(archive) = 0
    BY DEF Init
  <2>3. Replays(history, archive, Len(archive))
    <3>1. [i \in {} |-> i] \in [1..0 -> 1..0]
      OBVIOUS
    <3>2. QED
      BY <2>2, <3>1 DEF Replays
  <2>4. QED
    BY <2>1, <2>2, <2>3 DEF RInv
<1>2. RInv /\ [Next]_vars => RInv'
  <2> SUFFICES ASSUME RInv, [Next]_vars PROVE RInv'
    OBVIOUS
  <2>1. /\ TypeOK /\ WorkShape /\ archive \in Seq(CSVs) /\ history \in Seq(Import1)
        /\ Replays(history, archive, Len(archive))
    BY DEF RInv, IInv, TypeOK
  <2>2. IInv'
    BY StepKeepsIInv DEF RInv
  <2>3. ASSUME UNCHANGED <<archive, history>>,
               \A p \in Importers : pc'[p] = "archived" => pc[p] = "archived" /\ work'[p] = work[p]
        PROVE  RInv'
    BY <2>2, <2>3 DEF RInv, Replays
  <2>4. ASSUME NEW p \in Importers, Archive(p) PROVE RInv'
    <3>1. work[p].csv \in CSVs /\ archive' = Append(archive, work[p].csv)
      BY <2>1, <2>4 DEF Archive, Archived, TypeOK
    <3>2. /\ Replays(history, archive', Len(archive))
          /\ Replays(history, archive', Len(archive) + 1)
      BY <2>1, <3>1, LaterFilesDoNotMatter
    <3>3. /\ Len(archive') = Len(archive) + 1
          /\ archive' # <<>> /\ archive'[Len(archive')] = work[p].csv
      <4>1. Len(Append(archive, work[p].csv)) = Len(archive) + 1
        BY <2>1, <3>1, AppendProperties
      <4>2. /\ Append(archive, work[p].csv) # <<>>
            /\ Append(archive, work[p].csv)[Len(Append(archive, work[p].csv))] = work[p].csv
        <5>1. archive \in Seq(CSVs) /\ work[p].csv \in CSVs
          BY <2>1, <3>1
        <5>2. QED
          BY ONLY <5>1, ArchivedSeq, Zenon
      <4>3. QED
        BY <3>1, <4>1, <4>2
    <3>4. Len(archive) \in Nat
      BY <2>1, LenProperties
    <3>5. Len(archive') - 1 = Len(archive)
      BY <3>3, <3>4
    <3>6. /\ Replays(history, archive', Len(archive'))
          /\ Replays(history, archive', Len(archive') - 1)
      BY <3>2, <3>3, <3>5
    <3>7. history' = history /\ work' = work /\ \A q \in Importers : q = p
      BY <2>4 DEF Archive
    <3>8. /\ Replays(history', archive', Len(archive'))
          /\ Replays(history', archive', Len(archive') - 1)
      BY <3>6, <3>7
    <3>9. history' \in Seq(Import1)
      BY <2>1, <3>7
    <3>10. \A q \in Importers : archive'[Len(archive')] = work'[q].csv
      BY <3>3, <3>7
    <3>11. QED
      BY <2>2, <3>3, <3>8, <3>9, <3>10 DEF RInv
  <2>5. ASSUME NEW p \in Importers, Commit(p) PROVE RInv'
    <3> DEFINE done == [csv |-> work[p].csv, book |-> work[p].book, day |-> today]
    <3>1. /\ done \in Import1
          /\ archive # <<>> /\ archive[Len(archive)] = done.csv
          /\ Replays(history, archive, Len(archive) - 1)
      BY <2>1, <2>5 DEF Commit, RInv, TypeOK, Import1
    <3>2. history' = Append(history, done) /\ archive' = archive
      BY <2>5 DEF Commit
    <3>3. \A q \in Importers : pc'[q] = "closing"
      BY <2>1, <2>5 DEF Commit, TypeOK
    <3> HIDE DEF done
    <3>4. history' \in Seq(Import1)
      BY <2>1, <3>1, <3>2, AppendProperties
    <3>5. Replays(history', archive', Len(archive'))
      BY <2>1, <3>1, <3>2, LastFileReplaysTheCommit
    <3>6. QED
      BY <2>2, <3>3, <3>4, <3>5 DEF RInv, Replays
  <2>6. ASSUME NEW p \in Importers,
               \/ \E csv \in CSVs : Load(p, csv)
               \/ Reconcile(p) \/ RollBack(p) \/ Close(p) \/ Crash(p)
        PROVE  RInv'
    <3>1. UNCHANGED <<archive, history>>
      BY <2>6 DEF Load, Reconcile, RollBack, Close, Crash
    <3>2. pc'[p] # "archived"
      BY <2>1, <2>6 DEF Load, Reconcile, RollBack, Close, Crash, TypeOK
    <3>3. \A q \in Importers : q = p
      OBVIOUS
    <3>4. QED
      BY <2>3, <3>1, <3>2, <3>3
  <2>7. ASSUME EditBook \/ Tomorrow \/ UNCHANGED vars PROVE RInv'
    BY <2>3, <2>7 DEF EditBook, Tomorrow, vars
  <2>8. QED
    BY <2>4, <2>5, <2>6, <2>7 DEF Next, Import
<1>3. RInv => ArchiveReplaysHistory
  <2> SUFFICES ASSUME RInv PROVE ArchiveReplaysHistory
    OBVIOUS
  <2>1. DOMAIN history = 1..Len(history) /\ DOMAIN archive = 1..Len(archive)
    BY LenProperties DEF RInv, IInv, TypeOK
  <2>2. QED
    BY <2>1 DEF RInv, Replays, ArchiveReplaysHistory
<1>4. QED
  BY <1>1, <1>2, <1>3, PTL DEF Spec

-----------------------------------------------------------------------------
(* The health check beside the imports.                                      *)

(* A health check writes nothing an import reads or writes: whatever holds of  *)
(* the imports alone holds of the imports beside a health check                *)
(* (health.py: SELECTs only).                                                  *)
THEOREM ImportsAreUndisturbed == HealthSpec => Spec
<1>1. HealthInit => Init
  BY DEF HealthInit
<1>2. [HealthNext]_<<vars, healthVars>> => [Next]_vars
  BY DEF HealthNext, HealthCheck, Begin, assert_fresh, Evaluate, Raise
<1>3. QED
  BY <1>1, <1>2, PTL DEF HealthSpec, Spec

(* A committed import has a day, and the days of the history do not go back.   *)
HistoryInv ==
    /\ IInv
    /\ history \in Seq(Import1)
    /\ lastImport = IF history = <<>> THEN None ELSE history[Len(history)].day
    /\ \A i, j \in DOMAIN history : i <= j => history[i].day <= history[j].day
    /\ \A i \in DOMAIN history : history[i].day <= today

LEMMA ImportDays ==
  ASSUME history \in Seq(Import1)
  PROVE  \A i \in DOMAIN history :
            /\ history[i] \in Import1
            /\ history[i].csv \in CSVs /\ history[i].day \in 0..LastDay
<1>1. \A i \in DOMAIN history : history[i] \in Import1
  OBVIOUS
<1>2. QED
  BY <1>1 DEF Import1

LEMMA HistoryStep ==
  /\ Init => HistoryInv
  /\ HistoryInv /\ [Next]_vars =>
        /\ HistoryInv'
        /\ Len(history) <= Len(history')
        /\ \A i \in DOMAIN history : history'[i] = history[i]
<1>1. Init => HistoryInv
  <2> SUFFICES ASSUME Init PROVE HistoryInv
    OBVIOUS
  <2>1. IInv
    BY InitIInv
  <2>2. history = <<>> /\ history \in Seq(Import1) /\ DOMAIN history = {}
    BY DEF Init
  <2>3. QED
    BY <2>1, <2>2 DEF HistoryInv, Init
<1>2. ASSUME HistoryInv, [Next]_vars
      PROVE  /\ HistoryInv'
             /\ Len(history) <= Len(history')
             /\ \A i \in DOMAIN history : history'[i] = history[i]
  <2>1. /\ IInv' /\ IInv /\ history \in Seq(Import1) /\ today \in 0..LastDay
        /\ Len(history) \in Nat /\ DOMAIN history = 1..Len(history)
    BY <1>2, StepKeepsIInv, LenProperties DEF HistoryInv, IInv, TypeOK
  <2>2. ASSUME UNCHANGED <<history, lastImport>>, today' >= today, today' \in Int
        PROVE  /\ HistoryInv'
               /\ Len(history) <= Len(history')
               /\ \A i \in DOMAIN history : history'[i] = history[i]
    <3>1. \A i \in DOMAIN history : history[i].day \in Int
      BY <2>1, ImportDays
    <3>2. \A i \in DOMAIN history' : history'[i].day <= today'
      BY <1>2, <2>1, <2>2, <3>1 DEF HistoryInv
    <3>3. QED
      BY <1>2, <2>1, <2>2, <3>2 DEF HistoryInv
  <2>3. ASSUME NEW p \in Importers, Commit(p)
        PROVE  /\ HistoryInv'
               /\ Len(history) <= Len(history')
               /\ \A i \in DOMAIN history : history'[i] = history[i]
    <3> DEFINE done == [csv |-> work[p].csv, book |-> work[p].book, day |-> today]
    <3>1. done \in Import1 /\ done.day = today
      BY <2>1, <2>3 DEF Import1, IInv, TypeOK, Commit
    <3>2. history' = Append(history, done) /\ lastImport' = today /\ today' = today
      BY <2>3 DEF Commit
    <3> HIDE DEF done
    <3>3. /\ history' \in Seq(Import1) /\ Len(history') = Len(history) + 1
          /\ \A i \in 1..Len(history) : history'[i] = history[i]
          /\ history'[Len(history) + 1] = done
      BY <2>1, <3>1, <3>2, AppendProperties
    <3>4. DOMAIN history' = 1..(Len(history) + 1) /\ history' # <<>>
      BY <3>3, LenProperties, EmptySeq
    <3>5. \A i \in DOMAIN history' : history'[i].day <= today'
      BY <1>2, <2>1, <3>1, <3>2, <3>3, <3>4 DEF HistoryInv
    <3>6. \A i, j \in DOMAIN history' : i <= j => history'[i].day <= history'[j].day
      BY <1>2, <2>1, <3>1, <3>2, <3>3, <3>4, <3>5 DEF HistoryInv
    <3>7. lastImport' = history'[Len(history')].day
      BY <3>1, <3>2, <3>3
    <3>8. QED
      BY <2>1, <3>3, <3>4, <3>5, <3>6, <3>7 DEF HistoryInv
  <2>4. CASE UNCHANGED <<history, lastImport, today>>
    BY <2>1, <2>2, <2>4
  <2>5. CASE Tomorrow
    BY <2>1, <2>2, <2>5 DEF Tomorrow, db
  <2>6. QED
    BY <1>2, <2>3, <2>4, <2>5
    DEF Next, Import, Load, Reconcile, Archive, RollBack, Close, Crash, EditBook, vars, db
<1>3. QED
  BY <1>1, <1>2

(* The age a check goes by is the age of one of the first n imports.           *)
AgeWithin(n) ==
    \E i \in DOMAIN history :
        i <= n /\ age = given.as_of - history[i].day /\ age <= MaxStaleDays

CheckInv ==
    /\ HistoryInv
    /\ given.book \in Books /\ given.as_of \in Int
    /\ stage = "fresh" => AgeWithin(Len(history))
    /\ stage = "reported" => report.upto \in DOMAIN history /\ AgeWithin(report.upto)

(* A committed import stays where it is in the history.                        *)
LEMMA AgeStays ==
  ASSUME NEW n, NEW m, 
         AgeWithin(n), UNCHANGED <<age, given>>,
         \A i \in DOMAIN history : i \in DOMAIN history' /\ history'[i] = history[i],
         \A i \in DOMAIN history : i <= n => i <= m
  PROVE  \E i \in DOMAIN history' :
            i <= m /\ age' = given'.as_of - history'[i].day /\ age' <= MaxStaleDays
BY DEF AgeWithin

LEMMA CheckStep ==
  /\ HealthInit => CheckInv
  /\ CheckInv /\ [HealthNext]_<<vars, healthVars>> => CheckInv'
<1>1. HealthInit => CheckInv
  <2> SUFFICES ASSUME HealthInit PROVE CheckInv
    OBVIOUS
  <2>1. HistoryInv
    BY HistoryStep DEF HealthInit
  <2>2. given.book \in Books /\ given.as_of \in Int /\ stage = "idle"
    BY DEF HealthInit, Init
  <2>3. QED
    BY <2>1, <2>2 DEF CheckInv
<1>2. ASSUME CheckInv, [HealthNext]_<<vars, healthVars>> PROVE CheckInv'
  <2>1. /\ HistoryInv /\ history \in Seq(Import1) /\ today \in 0..LastDay
        /\ Len(history) \in Nat /\ DOMAIN history = 1..Len(history) /\ book \in Books
    BY <1>2, LenProperties DEF CheckInv, HistoryInv, IInv, TypeOK
  <2>2. ASSUME UNCHANGED vars PROVE HistoryInv'
    BY <2>1, <2>2, HistoryStep
  <2>3. ASSUME NEW prices \in Quotes, Begin(prices) PROVE CheckInv'
    <3>1. HistoryInv' /\ stage' = "given" /\ given'.book = book /\ given'.as_of = today
      BY <2>2, <2>3 DEF Begin
    <3>2. QED
      BY <2>1, <3>1 DEF CheckInv
  <2>4. CASE assert_fresh
    <3>1. HistoryInv' /\ UNCHANGED <<vars, given>> /\ stage' # "reported"
      BY <2>2, <2>4 DEF assert_fresh
    <3>2. history' = history
      BY <3>1 DEF vars
    <3>3. ASSUME stage' = "fresh" PROVE AgeWithin(Len(history))'
      <4>1. lastImport # None /\ days_stale <= MaxStaleDays /\ age' = days_stale
        <5>1. lastImport # None /\ ~ (days_stale > MaxStaleDays) /\ age' = days_stale
          BY <2>4, <3>3 DEF assert_fresh
        <5>2. days_stale \in Int
          <6>1. lastImport \in Int /\ given.as_of \in Int
            BY <1>2, <2>1, <5>1 DEF CheckInv, HistoryInv, IInv, TypeOK
          <6>2. QED
            BY <6>1 DEF days_stale
        <5>3. QED
          BY <5>1, <5>2, StaleAssumption
      <4>2. history # <<>> /\ lastImport = history[Len(history)].day
        BY <2>1, <4>1 DEF HistoryInv
      <4>3. Len(history) \in DOMAIN history
        BY <2>1, <4>2, EmptySeq
      <4>4. age' = given'.as_of - history[Len(history)].day
        BY <3>1, <4>1, <4>2 DEF days_stale
      <4>5. QED
        BY <2>1, <3>2, <4>1, <4>3, <4>4 DEF AgeWithin
    <3>4. QED
      BY <1>2, <3>1, <3>3 DEF CheckInv
  <2>5. CASE Evaluate
    <3>1. /\ HistoryInv' /\ stage = "fresh" /\ stage' = "reported"
          /\ report'.upto = Len(history) /\ UNCHANGED <<vars, given, age>>
      BY <2>2, <2>5 DEF Evaluate
    <3>2. history' = history
      BY <3>1 DEF vars
    <3>3. AgeWithin(Len(history))
      BY <1>2, <3>1 DEF CheckInv
    <3>4. AgeWithin(report.upto)'
      BY <3>1, <3>2, <3>3 DEF AgeWithin
    <3>5. report'.upto \in DOMAIN history'
      BY <2>1, <3>1, <3>2, <3>3 DEF AgeWithin
    <3>6. QED
      BY <1>2, <3>1, <3>4, <3>5 DEF CheckInv
  <2>6. CASE Raise
    BY <1>2, <2>2, <2>6 DEF Raise, CheckInv
  <2>7. CASE Next /\ UNCHANGED healthVars
    <3>1. /\ UNCHANGED <<stage, given, age, report>> /\ HistoryInv'
          /\ Len(history) <= Len(history') /\ Len(history') \in Nat
          /\ \A i \in DOMAIN history : history'[i] = history[i]
          /\ DOMAIN history' = 1..Len(history')
      BY <2>1, <2>7, HistoryStep, LenProperties DEF healthVars, HistoryInv
    <3>2. \A i \in DOMAIN history : i \in DOMAIN history' /\ history'[i] = history[i]
      BY <2>1, <3>1
    <3>3. ASSUME stage' = "fresh" PROVE AgeWithin(Len(history))'
      BY <1>2, <2>1, <3>1, <3>2, <3>3 DEF CheckInv, AgeWithin
    <3>4. ASSUME stage' = "reported"
          PROVE  report'.upto \in DOMAIN history' /\ AgeWithin(report.upto)'
      BY <1>2, <3>1, <3>2, <3>4 DEF CheckInv, AgeWithin
    <3>5. QED
      BY <1>2, <3>1, <3>3, <3>4 DEF CheckInv
  <2>8. CASE UNCHANGED <<vars, healthVars>>
    <3>1. HistoryInv' /\ UNCHANGED <<stage, given, age, report, history>>
      BY <2>2, <2>8 DEF vars, healthVars
    <3>2. QED
      BY <1>2, <3>1 DEF CheckInv, AgeWithin
  <2>9. QED
    BY <1>2, <2>3, <2>4, <2>5, <2>6, <2>7, <2>8 DEF HealthNext, HealthCheck
<1>3. QED
  BY <1>1, <1>2

(* However imports commit between the reading of the age and the reading of    *)
(* the rows, the rows are no older than the report says, and the age it says   *)
(* is within the limit (health.py 8-13, 79-212).                               *)
THEOREM ReportsAreFresh == HealthSpec => []ReportIsAsFreshAsItSays
<1>1. CheckInv => ReportIsAsFreshAsItSays
  <2> SUFFICES ASSUME CheckInv, stage = "reported"
               PROVE  /\ report.upto > 0
                      /\ given.as_of - ReportedImport.day <= age
                      /\ age <= MaxStaleDays
    BY DEF ReportIsAsFreshAsItSays, Reported
  <2>1. PICK i \in DOMAIN history :
           /\ i <= report.upto /\ age = given.as_of - history[i].day
           /\ age <= MaxStaleDays
    BY DEF CheckInv, AgeWithin
  <2>2. /\ report.upto \in DOMAIN history /\ history \in Seq(Import1)
        /\ given.as_of \in Int /\ history[i].day <= history[report.upto].day
    BY <2>1 DEF CheckInv, HistoryInv
  <2>3. history[i].day \in Int /\ history[report.upto].day \in Int
    BY <2>2, ImportDays
  <2>4. report.upto > 0
    BY <2>2, LenProperties
  <2>5. QED
    BY <2>1, <2>2, <2>3, <2>4 DEF ReportedImport
<1>2. QED
  BY <1>1, CheckStep, PTL DEF HealthSpec

-----------------------------------------------------------------------------
(* What a report says of the export it was computed from.                    *)

LEMMA ConcatHead ==
  ASSUME NEW S, NEW s \in Seq(S), NEW t \in Seq(S), 1 \in DOMAIN s
  PROVE  s \o t \in Seq(S) /\ 1 \in DOMAIN (s \o t) /\ (s \o t)[1] = s[1]
<1>1. /\ s \o t \in Seq(S) /\ Len(s \o t) = Len(s) + Len(t)
      /\ \A i \in 1..(Len(s) + Len(t)) :
            (s \o t)[i] = IF i <= Len(s) THEN s[i] ELSE t[i - Len(s)]
  BY ConcatProperties
<1>2. Len(s) \in Nat /\ Len(t) \in Nat /\ DOMAIN s = 1..Len(s)
      /\ DOMAIN (s \o t) = 1..Len(s \o t)
  BY <1>1, LenProperties
<1>3. QED
  BY <1>1, <1>2

(* The stop of an entry is its first rule (rules_for), and a fixed stop        *)
(* outranks whatever else fires (PRECEDENCE).                                  *)
LEMMA StopIsFirstRule ==
  ASSUME NEW entry \in Entries, entry.stop # None
  PROVE  /\ 1 \in DOMAIN rules_for(entry)
         /\ rules_for(entry)[1] = rule("fixed_stop", "price", entry.stop)
<1> DEFINE stop == rule("fixed_stop", "price", entry.stop)
           target == rule("take_profit", "price", entry.target)
           Any == {stop, target} \union X!Rule
           second == IF entry.target # None THEN <<target>> ELSE <<>>
<1>1. <<stop>> \in Seq(Any) /\ Len(<<stop>>) = 1 /\ <<stop>>[1] = stop
  BY DEF Any
<1>2. second \in Seq(Any) /\ Len(second) \in Nat
  <2>1. target \in Any
    BY DEF Any
  <2> HIDE DEF Any, target
  <2>2. <<target>> \in Seq(Any) /\ Len(<<target>>) = 1 /\ <<>> \in Seq(Any) /\ Len(<<>>) = 0
    BY <2>1
  <2>3. QED
    BY <2>2
<1>3. entry.exit_rules \in Seq(Any) /\ Len(entry.exit_rules) \in Nat
  <2>1. entry.exit_rules \in Seq(X!Rule)
    BY RulesAssumption
  <2>2. X!Rule \subseteq Any
    BY DEF Any
  <2> HIDE DEF Any
  <2>3. entry.exit_rules \in Seq(Any)
    BY <2>1, <2>2
  <2>4. QED
    BY <2>3, LenProperties
<1>4. rules_for(entry) = (<<stop>> \o second) \o entry.exit_rules
  BY DEF rules_for
<1> HIDE DEF Any, second, stop
<1>5. 1 \in DOMAIN <<stop>>
  OBVIOUS
<1>6. PICK front : /\ front = <<stop>> \o second /\ front \in Seq(Any)
                   /\ 1 \in DOMAIN front /\ front[1] = stop
  BY <1>1, <1>2, <1>5, ConcatHead
<1>7. PICK rest : rest = entry.exit_rules /\ rest \in Seq(Any)
  BY <1>3
<1>8. /\ front \o rest \in Seq(Any)
      /\ 1 \in DOMAIN (front \o rest) /\ (front \o rest)[1] = front[1]
  BY ONLY <1>6, <1>7, ConcatHead
<1>9. rules_for(entry) = front \o rest
  BY ONLY <1>4, <1>6, <1>7
<1>10. QED
  BY <1>6, <1>8, <1>9 DEF stop

LEMMA StopOutranks ==
  /\ "fixed_stop" \in X!Range(X!PRECEDENCE)
  /\ \A kinds \in SUBSET X!Range(X!PRECEDENCE) :
        "fixed_stop" \in kinds => X!Strongest(kinds) = "fixed_stop"
<1>1. /\ DOMAIN X!PRECEDENCE = 1..5
      /\ X!PRECEDENCE[1] = "fixed_stop" /\ X!PRECEDENCE[2] = "trailing_stop"
      /\ X!PRECEDENCE[3] = "take_profit" /\ X!PRECEDENCE[4] = "time_stop"
      /\ X!PRECEDENCE[5] = "thesis_invalidation"
  BY DEF X!PRECEDENCE
<1>2. /\ "fixed_stop" \in X!Range(X!PRECEDENCE)
      /\ X!Rank("fixed_stop") = 1
      /\ \A kind \in X!Range(X!PRECEDENCE) : kind # "fixed_stop" => X!Rank(kind) \in 2..5
  <2>1. X!Range(X!PRECEDENCE) = {"fixed_stop", "trailing_stop", "take_profit",
                               "time_stop", "thesis_invalidation"}
    BY <1>1 DEF X!Range
  <2>2. /\ X!Rank("fixed_stop") = 1 /\ X!Rank("trailing_stop") = 2
        /\ X!Rank("take_profit") = 3 /\ X!Rank("time_stop") = 4
        /\ X!Rank("thesis_invalidation") = 5
    BY <1>1 DEF X!Rank
  <2>3. QED
    BY <2>1, <2>2
<1>3. ASSUME NEW kinds \in SUBSET X!Range(X!PRECEDENCE), "fixed_stop" \in kinds
      PROVE  X!Strongest(kinds) = "fixed_stop"
  <2> DEFINE Best(kind) == \A other \in kinds : X!Rank(kind) <= X!Rank(other)
  <2>1. \A kind \in kinds : Best(kind) <=> kind = "fixed_stop"
    BY <1>2, <1>3
  <2>2. X!Strongest(kinds) = CHOOSE kind \in kinds : Best(kind)
    BY <1>3 DEF X!Strongest
  <2>3. QED
    <3> HIDE DEF Best
    <3> QED BY <1>3, <2>1, <2>2
<1>4. QED
  BY <1>2, <1>3

(* A price at the stop or below is an exit on the stop, whatever other rules   *)
(* the entry holds (exit_rules.py 226-238, 310-344).                           *)
LEMMA CrossedStopTriggers ==
  ASSUME NEW s, NEW entry \in Entries, entry.stop # None, s.price <= entry.stop
  PROVE  X!evaluate(s, rules_for(entry)).triggered = "fixed_stop"
<1> DEFINE book1 == rules_for(entry)
           r == rule("fixed_stop", "price", entry.stop)
           F == {kind \in X!Range(X!PRECEDENCE) : X!Hits(s, book1, kind) # {}}
<1>1. 1 \in DOMAIN book1 /\ book1[1] = r
  BY StopIsFirstRule
<1>2. /\ r.armed = TRUE /\ r.kind = "fixed_stop" /\ r.unit = "price"
      /\ r.threshold = entry.stop
  BY DEF rule
<1>3. r.unit # None
  <2>1. "price" \in X!VALID_UNITS["fixed_stop"] /\ "fixed_stop" \in DOMAIN X!VALID_UNITS
    BY DEF X!VALID_UNITS
  <2>2. "price" \in UNION X!Range(X!VALID_UNITS)
    BY <2>1 DEF X!Range
  <2>3. QED
    BY <1>2, <2>2, UnitsAssumption
<1> HIDE DEF r, book1
<1>4. X!Resolved(r) = r
  BY <1>3 DEF X!Resolved
<1>5. X!Fires(s, r)
  BY <1>2, <1>4 DEF X!Fires, X!_fixed_stop
<1>6. 1 \in X!Hits(s, book1, "fixed_stop")
  BY <1>1, <1>2, <1>5 DEF X!Hits
<1>7. "fixed_stop" \in F /\ F \in SUBSET X!Range(X!PRECEDENCE)
  BY <1>6, StopOutranks
<1>8. X!evaluate(s, book1).triggered = X!Strongest(F)
  BY DEF X!evaluate
<1>9. QED
  <2> HIDE DEF F
  <2> QED BY <1>7, <1>8, StopOutranks DEF book1

AnswerInv ==
    /\ CheckInv /\ SInv
    /\ ReportAnswersForTheExport
    /\ CrossedStopIsReported

(* The rows the check selects are the export's, with the export's figures.     *)
LEMMA EvaluateAnswers ==
  ASSUME CheckInv, SInv, Evaluate
  PROVE  ReportAnswersForTheExport' /\ CrossedStopIsReported'
<1> DEFINE n == Len(history)
           csv == history[n].csv
<1>1. /\ stage' = "reported" /\ UNCHANGED <<vars, given>> /\ stage = "fresh"
      /\ report'.decisions = [k \in Judged(positions) |->
                                X!evaluate(StateOf(k), rules_for(given.book[k]))]
      /\ report'.unmanaged = [k \in RowsToCheck(positions) \ Judged(positions) |->
                                WhyNot(k, positions[k])]
      /\ report'.upto = n
  BY DEF Evaluate
<1>2. history' = history /\ ReportedImport' = history[n] /\ given' = given
  BY <1>1 DEF vars, ReportedImport
<1>3. history # <<>>
  <2>1. \E i \in DOMAIN history : i <= Len(history)
    BY <1>1 DEF CheckInv, AgeWithin
  <2>2. QED
    BY <2>1
<1>4. Held(positions) = KeysOf(csv)
      /\ \A k \in Held(positions) : /\ positions[k].qty = by_key(csv, k).qty
                                   /\ positions[k].cost = by_key(csv, k).cost
  BY <1>3 DEF SInv, BookIsLastImport, Describes
<1>5. RowsToCheck(positions) = Held(positions) /\ Judged(positions) \subseteq Held(positions)
  BY DEF RowsToCheck, Judged
<1>6. DOMAIN report'.decisions = Judged(positions)
      /\ DOMAIN report'.unmanaged = Held(positions) \ Judged(positions)
  BY <1>1, <1>5
<1>7. ReportAnswersForTheExport'
  <2>1. /\ (DOMAIN report'.decisions) \union (DOMAIN report'.unmanaged) = KeysOf(csv)
        /\ (DOMAIN report'.decisions) \cap (DOMAIN report'.unmanaged) = {}
    BY <1>4, <1>5, <1>6
  <2>2. ReportedImport'.csv = csv
    BY <1>2
  <2>3. QED
    BY <2>1, <2>2 DEF ReportAnswersForTheExport
<1>8. CrossedStopIsReported'
  <2> SUFFICES ASSUME NEW k \in KeysOf(csv) \cap DOMAIN given.book,
                      given.book[k].stop # None,
                      TickerOf[k] \in DOMAIN given.prices,
                      given.prices[TickerOf[k]] <= given.book[k].stop,
                      by_key(csv, k).qty # 0, by_key(csv, k).cost # None
               PROVE  /\ k \in DOMAIN report'.decisions
                      /\ report'.decisions[k].triggered = "fixed_stop"
    <3>1. ReportedImport'.csv = csv
      BY <1>2
    <3>2. QED
      BY <1>2, <3>1 DEF CrossedStopIsReported
  <2>1. k \in Held(positions) /\ positions[k].qty # 0 /\ positions[k].cost # None
    BY <1>4
  <2>2. k \in Judged(positions)
    BY <1>5, <2>1 DEF Judged, WhyNot
  <2>3. report'.decisions[k] = X!evaluate(StateOf(k), rules_for(given.book[k]))
    BY <1>1, <2>2
  <2>4. given.book[k] \in Entries
    BY DEF CheckInv, Entries
  <2>5. StateOf(k).price = given.prices[TickerOf[k]]
    BY DEF StateOf, PositionState
  <2>6. report'.decisions[k].triggered = "fixed_stop"
    BY <2>3, <2>4, <2>5, CrossedStopTriggers
  <2>7. QED
    BY <1>6, <2>2, <2>6
<1>9. QED
  BY <1>7, <1>8

(* The import a report was computed from stays where it is.                    *)
LEMMA ReportStands ==
  ASSUME CheckInv, ReportAnswersForTheExport, CrossedStopIsReported,
         UNCHANGED <<stage, given, report>>,
         \A i \in DOMAIN history : history'[i] = history[i]
  PROVE  ReportAnswersForTheExport' /\ CrossedStopIsReported'
<1>1. stage = "reported" => ReportedImport' = ReportedImport
  BY DEF CheckInv, ReportedImport
<1>2. ReportAnswersForTheExport'
  BY <1>1 DEF ReportAnswersForTheExport, Reported
<1>3. CrossedStopIsReported'
  BY <1>1 DEF CrossedStopIsReported, Reported
<1>4. QED
  BY <1>2, <1>3

LEMMA AnswerStep ==
  ASSUME \A p, q \in Importers : p = q
  PROVE  AnswerInv /\ [HealthNext]_<<vars, healthVars>> => AnswerInv'
<1> SUFFICES ASSUME AnswerInv, [HealthNext]_<<vars, healthVars>> PROVE AnswerInv'
  OBVIOUS
<1>1. CheckInv /\ SInv /\ ReportAnswersForTheExport /\ CrossedStopIsReported
  BY DEF AnswerInv
<1>2. CheckInv'
  BY <1>1, CheckStep
<1>3. [Next]_vars
  BY DEF HealthNext, HealthCheck, Begin, assert_fresh, Evaluate, Raise, vars
<1>4. SInv'
  BY <1>1, <1>3, StepKeepsSInv
<1>5. \A i \in DOMAIN history : history'[i] = history[i]
  BY <1>1, <1>3, HistoryStep DEF CheckInv
<1>6. CASE Evaluate
  BY <1>1, <1>2, <1>4, <1>6, EvaluateAnswers DEF AnswerInv
<1>7. ASSUME stage' # "reported" PROVE AnswerInv'
  <2>1. ~Reported'
    BY <1>7 DEF Reported
  <2>2. ReportAnswersForTheExport' /\ CrossedStopIsReported'
    BY <2>1 DEF ReportAnswersForTheExport, CrossedStopIsReported
  <2>3. QED
    BY <1>2, <1>4, <2>2 DEF AnswerInv
<1>8. CASE UNCHANGED <<stage, given, report>>
  BY <1>1, <1>2, <1>4, <1>5, <1>8, ReportStands DEF AnswerInv
<1>9. QED
  BY <1>6, <1>7, <1>8 DEF HealthNext, HealthCheck, Begin, assert_fresh, Raise, healthVars

LEMMA AnswerInit == HealthInit => AnswerInv
<1> SUFFICES ASSUME HealthInit PROVE AnswerInv
  OBVIOUS
<1>1. CheckInv
  BY CheckStep
<1>2. SInv
  <2>1. IInv /\ Init
    BY InitIInv DEF HealthInit
  <2>2. QED
    BY <2>1 DEF SInv, Init, BookIsLastImport
<1>3. ~Reported
  BY DEF HealthInit, Reported
<1>4. QED
  BY <1>1, <1>2, <1>3 DEF AnswerInv, ReportAnswersForTheExport, CrossedStopIsReported

(* With at most one importer at a time, a report has every position of one     *)
(* export once and no other, wherever between the check's two reads that       *)
(* import or a crash falls (health.py 171-200).                                *)
THEOREM ReportsAnswerForTheExport ==
  ASSUME \A p, q \in Importers : p = q
  PROVE  HealthSpec => []ReportAnswersForTheExport
<1>1. AnswerInv => ReportAnswersForTheExport
  BY DEF AnswerInv
<1>2. QED
  BY <1>1, AnswerInit, AnswerStep, PTL DEF HealthSpec

(* Likewise a held position at or below its stop is reported as an exit on the *)
(* stop, for any entries, quotes and other rules (health.py 79-212,            *)
(* exit_rules.py 310-344).                                                     *)
THEOREM CrossedStopsAreReported ==
  ASSUME \A p, q \in Importers : p = q
  PROVE  HealthSpec => []CrossedStopIsReported
<1>1. AnswerInv => CrossedStopIsReported
  BY DEF AnswerInv
<1>2. QED
  BY <1>1, AnswerInit, AnswerStep, PTL DEF HealthSpec
=============================================================================
