------------------------------- MODULE Ingest -------------------------------
(***************************************************************************)
(* Reconciling a custodian's CSV export against the book                   *)
(* (src/desk/ingest.py over src/desk/db.py and src/desk/book.py).          *)
(*                                                                         *)
(* An import reads the CSV and config/book.yaml, reads the positions       *)
(* outside any transaction, archives the CSV, and then applies the diff it *)
(* computed in one transaction.  Several imports may overlap (a cron job   *)
(* and the operator), the operator may edit book.yaml between any two      *)
(* steps, and a process may die between any two steps.  A dry run works on *)
(* a copy of the main database file; a commit reaches that file when the   *)
(* write-ahead log is checkpointed, at the latest when the last connection *)
(* closes.                                                                 *)
(***************************************************************************)
EXTENDS Integers, Sequences, FiniteSets

CONSTANTS
    Keys,           \* (ticker, account) pairs
    Importers,      \* processes running `desk.ingest --commit`
    CSVs,           \* the exports that may be imported: sequences of rows
    Books,          \* the contents book.yaml may have: entry by key
    Dangling,       \* entries whose thesis_run_id names no row of `runs`
    None,           \* SQL NULL
    LastDay,        \* bound: last day of a behaviour
    MaxImports,     \* bound: imports begun
    SameSecond      \* may two archives of one file name fall in one second?

CSVRow == [key : Keys, qty : Int, cost : Int \union {None}]
Entries == UNION {{bk[k] : k \in DOMAIN bk} : bk \in Books}

ASSUME CSVAssumption == \A csv \in CSVs : csv \in Seq(CSVRow)
ASSUME BookAssumption == \A bk \in Books : DOMAIN bk \subseteq Keys
ASSUME NoneAssumption == None \notin Int /\ None \notin Entries
ASSUME BoundAssumption == LastDay \in Nat /\ MaxImports \in Nat

VARIABLES
    positions,      \* table `positions`: a function on the keys that have a row
    mainFile,       \* the same, as the main database file alone shows it
    audited,        \* by key, the last quantity the audit trail states
    lastImport,     \* the day of book_meta.last_import_at
    archive,        \* imports/, oldest file first
    book,           \* config/book.yaml
    today,
    pc, work,       \* where each importer is, and what it has read
    begun,          \* imports begun
    history         \* history variable: the committed imports, oldest first

db == <<positions, mainFile, audited, lastImport>>
vars == <<db, archive, book, today, pc, work, begun, history>>

Statuses == {"OPEN", "UNMANAGED", "CLOSED"}

Position == [qty : Int, cost : Int \union {None}, overlay : Entries \union {None},
             opened_at : 0..LastDay, status : Statuses]

IsTable(t) == DOMAIN t \subseteq Keys /\ \A k \in DOMAIN t : t[k] \in Position

TypeOK ==
    /\ IsTable(positions) /\ IsTable(mainFile)
    /\ audited \in [DOMAIN positions -> Int]
    /\ lastImport \in 0..LastDay \union {None}
    /\ archive \in Seq(CSVs)
    /\ book \in Books
    /\ today \in 0..LastDay
    /\ pc \in [Importers -> {"idle", "loaded", "reconciled", "archived", "closing"}]
    /\ \A p \in Importers :
          pc[p] # "idle" => /\ work[p].csv \in CSVs
                            /\ work[p].book \in Books
                            /\ IsTable(work[p].existing)
    /\ begun \in 0..MaxImports

NoRows == [k \in {} |-> None]
NoWork == [csv |-> <<>>, book |-> NoRows, existing |-> NoRows]

Init ==
    /\ positions = NoRows
    /\ mainFile = NoRows
    /\ audited = NoRows
    /\ lastImport = None
    /\ archive = <<>>
    /\ book \in Books
    /\ today = 0
    /\ pc = [p \in Importers |-> "idle"]
    /\ work = [p \in Importers |-> NoWork]
    /\ begun = 0
    /\ history = <<>>

-----------------------------------------------------------------------------
(* reconcile(): the diff between what the import has read of the book and the *)
(* CSV.  w is an import's work: its csv, its book.yaml, and the rows it found. *)

_status_for(key, bk) == IF key \in DOMAIN bk THEN "OPEN" ELSE "UNMANAGED"

KeysOf(csv) == {csv[i].key : i \in DOMAIN csv}

\* by_key: of several rows with one key the last wins.
by_key(csv, k) ==
    csv[CHOOSE i \in DOMAIN csv :
          csv[i].key = k /\ \A j \in DOMAIN csv : csv[j].key = k => j <= i]

\* The CSV rows that become NEW, and those that become UPDATED.
New(w) == {i \in DOMAIN w.csv : w.csv[i].key \notin DOMAIN w.existing}

\* Slip: a row that differs in its status alone counts as unchanged.
UpdatedFigures(w) ==
    {i \in DOMAIN w.csv :
        LET row == w.csv[i] IN
        /\ row.key \in DOMAIN w.existing
        /\ \/ row.qty # w.existing[row.key].qty
           \/ row.cost # w.existing[row.key].cost}

Updated(w) ==
    {i \in DOMAIN w.csv :
        LET row == w.csv[i] IN
        /\ row.key \in DOMAIN w.existing
        /\ LET current == w.existing[row.key] IN
           \/ row.qty # current.qty
           \/ row.cost # current.cost
           \/ current.status # _status_for(row.key, w.book)}

\* The positions the custodian no longer reports.
Closed(w) ==
    {k \in DOMAIN w.existing \ KeysOf(w.csv) : w.existing[k].status # "CLOSED"}

NewKeys(w) == {w.csv[i].key : i \in New(w)}
UpdatedKeys(w) == {w.csv[i].key : i \in Updated(w)}

(* apply_changes(): what the transaction writes into table t.                 *)

\* The INSERTs succeed: UNIQUE (ticker, account), and the foreign key on runs.
Insertable(w, t) ==
    /\ NewKeys(w) \cap DOMAIN t = {}
    /\ \A i, j \in New(w) : w.csv[i].key = w.csv[j].key => i = j
    /\ \A k \in NewKeys(w) \cap DOMAIN w.book : w.book[k] \notin Dangling

Inserted(w, k) ==
    LET row == by_key(w.csv, k) IN
    [qty |-> row.qty, cost |-> row.cost,
     overlay |-> IF k \in DOMAIN w.book THEN w.book[k] ELSE None,
     opened_at |-> today, status |-> _status_for(k, w.book)]

\* Slip: the stop joins the SET clause.
UpdatedRowWithStop(w, k, current) ==
    LET row == by_key(w.csv, k) IN
    [current EXCEPT !.qty = row.qty, !.cost = row.cost,
                    !.overlay = IF k \in DOMAIN w.book THEN w.book[k] ELSE None,
                    !.status = _status_for(k, w.book)]

\* The three CSV-owned columns (market_value goes with cost) and the status.
UpdatedRow(w, k, current) ==
    LET row == by_key(w.csv, k) IN
    [current EXCEPT !.qty = row.qty, !.cost = row.cost,
                    !.status = _status_for(k, w.book)]

Applied(w, t) ==
    [k \in DOMAIN t \union NewKeys(w) |->
        IF k \in NewKeys(w) THEN Inserted(w, k)
        ELSE IF k \in UpdatedKeys(w) THEN UpdatedRow(w, k, t[k])
        ELSE IF k \in Closed(w) THEN [t[k] EXCEPT !.status = "CLOSED"]
        ELSE t[k]]

\* Slip: the wrong column is looked up in the diff.
CostLines(w, k) ==
    {i \in Updated(w) : w.csv[i].key = k /\ w.csv[i].cost # w.existing[k].cost}

\* The rows whose QTY_CHANGED (or POSITION_OPENED) line is the last about k:
\* an UPDATED row is audited only when its own quantity differs.
QtyLines(w, k) ==
    {i \in Updated(w) : w.csv[i].key = k /\ w.csv[i].qty # w.existing[k].qty}

Audited(w, trail) ==
    [k \in DOMAIN trail \union NewKeys(w) |->
        IF k \in NewKeys(w) THEN by_key(w.csv, k).qty
        ELSE IF k \in DOMAIN w.existing /\ QtyLines(w, k) # {}
        THEN w.csv[CHOOSE i \in QtyLines(w, k) : \A j \in QtyLines(w, k) : j <= i].qty
        ELSE trail[k]]

-----------------------------------------------------------------------------
(* One import, `desk.ingest --commit`.                                        *)

\* load_csv and load_book.
Load(p, csv) ==
    /\ pc[p] = "idle"
    /\ begun < MaxImports
    /\ begun' = begun + 1
    /\ work' = [work EXCEPT ![p] = [csv |-> csv, book |-> book, existing |-> NoRows]]
    /\ pc' = [pc EXCEPT ![p] = "loaded"]
    /\ UNCHANGED <<db, archive, book, today, history>>

\* init_db, then reconcile reads every position and computes the diff.
Reconcile(p) ==
    /\ pc[p] = "loaded"
    /\ work' = [work EXCEPT ![p].existing = positions]
    /\ pc' = [pc EXCEPT ![p] = "reconciled"]
    /\ UNCHANGED <<db, archive, book, today, begun, history>>

\* Slip: the archived file has a fixed name.
ArchiveOverwriting(p) ==
    /\ pc[p] = "reconciled"
    /\ archive' = <<work[p].csv>>
    /\ pc' = [pc EXCEPT ![p] = "archived"]
    /\ UNCHANGED <<db, book, today, work, begun, history>>

\* archive_csv: the file name has the second; the same name is overwritten.
Archived(csv) ==
    {Append(archive, csv)}
    \union (IF SameSecond /\ archive # <<>>
            THEN {[archive EXCEPT ![Len(archive)] = csv]} ELSE {})

Archive(p) ==
    /\ pc[p] = "reconciled"
    /\ archive' \in Archived(work[p].csv)
    /\ pc' = [pc EXCEPT ![p] = "archived"]
    /\ UNCHANGED <<db, book, today, work, begun, history>>

\* The transaction commits; SQLite may checkpoint the log at once or later.
Commit(p) ==
    /\ pc[p] = "archived"
    /\ Insertable(work[p], positions)
    /\ positions' = Applied(work[p], positions)
    /\ audited' = Audited(work[p], audited)
    /\ lastImport' = today
    /\ mainFile' \in {mainFile, positions'}
    /\ history' = Append(history, [csv |-> work[p].csv, book |-> work[p].book, day |-> today])
    /\ pc' = [pc EXCEPT ![p] = "closing"]
    /\ UNCHANGED <<archive, book, today, work, begun>>

\* An INSERT violates a constraint: IntegrityError, and everything rolls back.
RollBack(p) ==
    /\ pc[p] = "archived"
    /\ ~Insertable(work[p], positions)
    /\ pc' = [pc EXCEPT ![p] = "closing"]
    /\ UNCHANGED <<db, archive, book, today, work, begun, history>>

Connected(q) == pc[q] \in {"reconciled", "archived", "closing"}

\* conn.close(); the last connection to close checkpoints the log.
Close(p) ==
    /\ pc[p] = "closing"
    /\ mainFile' = IF \E q \in Importers \ {p} : Connected(q) THEN mainFile ELSE positions
    /\ work' = [work EXCEPT ![p] = NoWork]
    /\ pc' = [pc EXCEPT ![p] = "idle"]
    /\ UNCHANGED <<positions, audited, lastImport, archive, book, today, begun, history>>

\* The process dies: an open transaction is as if it had never been, and the log
\* keeps what was committed.
Crash(p) ==
    /\ pc[p] # "idle"
    /\ work' = [work EXCEPT ![p] = NoWork]
    /\ pc' = [pc EXCEPT ![p] = "idle"]
    /\ UNCHANGED <<db, archive, book, today, begun, history>>

\* The operator edits config/book.yaml: no import ever does.
EditBook ==
    /\ book' \in Books
    /\ UNCHANGED <<db, archive, today, pc, work, begun, history>>

Tomorrow ==
    /\ today < LastDay
    /\ today' = today + 1
    /\ UNCHANGED <<db, archive, book, pc, work, begun, history>>

Import(p) ==
    \/ \E csv \in CSVs : Load(p, csv)
    \/ Reconcile(p)
    \/ Archive(p)
    \/ Commit(p)
    \/ RollBack(p)
    \/ Close(p)
    \/ Crash(p)

Next ==
    \/ \E p \in Importers : Import(p)
    \/ EditBook
    \/ Tomorrow

Spec == Init /\ [][Next]_vars

-----------------------------------------------------------------------------

Held(t) == {k \in DOMAIN t : t[k].status # "CLOSED"}

\* The book says exactly what this export says: every row held with its figures,
\* nothing else held.
Describes(csv, t) ==
    /\ Held(t) = KeysOf(csv)
    /\ \A k \in Held(t) : /\ t[k].qty = by_key(csv, k).qty
                          /\ t[k].cost = by_key(csv, k).cost

\* No import, whatever it overlaps with and wherever it dies, changes or drops
\* the book-owned columns of a position it finds, or deletes the position
\* (ingest.py 3-8 "An import that silently clobbers a stop loss ...").
StopsSurviveImports ==
    [][\A k \in DOMAIN positions :
          /\ k \in DOMAIN positions'
          /\ positions'[k].overlay = positions[k].overlay
          /\ positions'[k].opened_at = positions[k].opened_at]_vars

\* After each import the book is that export under the book.yaml the import
\* read, whatever was there before, and a crash or a constraint failure leaves
\* the previous one (ingest.py 99-204, db.py transaction).
BookIsLastImport ==
    IF history = <<>>
    THEN positions = NoRows /\ lastImport = None
    ELSE LET last == history[Len(history)] IN
         /\ Describes(last.csv, positions)
         /\ \A k \in Held(positions) : positions[k].status = _status_for(k, last.book)

\* ingest.py 18 "qty changed -> log to audit": what the audit trail last says of
\* a position's quantity is the quantity it has.
AuditStatesTheQuantity == \A k \in DOMAIN positions : audited[k] = positions[k].qty

\* ingest.py 19-20 "always -> write the raw CSV to imports/ unmodified; every
\* reconciliation must be replayable": the archive holds the CSV of every import
\* that changed the book, in the order they were applied.
ArchiveReplaysHistory ==
    \E pick \in [DOMAIN history -> DOMAIN archive] :
        /\ \A i \in DOMAIN history : archive[pick[i]] = history[i].csv
        /\ \A i, j \in DOMAIN history : i < j => pick[i] < pick[j]
=============================================================================
