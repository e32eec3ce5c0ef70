------------------------------ MODULE SpendFile -----------------------------
(***************************************************************************)
(* The bytes of the spend ledger and what reading them back gives          *)
(* (src/desk/spend.py).  The file is a sequence of cells: the whole JSON   *)
(* text of a row, the beginning of one (a torn append), or a newline.      *)
(***************************************************************************)
EXTENDS Integers, Sequences, FiniteSets

CONSTANT MaxCrashes     \* bound: how often a process dies or the power fails

ASSUME CrashAssumption == MaxCrashes \in Nat

VARIABLES
    file,       \* the ledger, as any process reads it
    crashes     \* deaths and power failures so far

Row(call) == [kind |-> "row", call |-> call]
Torn(call) == [kind |-> "torn", call |-> call]
Newline == [kind |-> "newline"]

\* Slips: the newline is forgotten; the row is written twice.
LineWithoutNewline(call) == <<Row(call)>>
LineTwice(call) == <<Row(call), Newline, Row(call), Newline>>

\* What record() hands to one write(2): the row and its newline.
Line(call) == <<Row(call), Newline>>

\* What a process that dies inside that write can leave behind: some first part
\* of the JSON text, or all of it without the newline.
Fragments(call) == {<<Torn(call)>>, <<Row(call)>>}

IsNewline(cells, i) == i \notin DOMAIN cells \/ cells[i].kind = "newline"

\* rows(): a line is a row only if it is one whole JSON text and nothing else.
ReadablePositions(cells) ==
    {i \in DOMAIN cells : /\ cells[i].kind = "row"
                         /\ IsNewline(cells, i - 1)
                         /\ IsNewline(cells, i + 1)}

rows(cells) == {cells[i].call : i \in ReadablePositions(cells)}

\* A sum, written as the number of the micro-dollars it adds up so that it can be
\* reasoned about.
MicroDollars(cells, positions) == UNION {{i} \X (1..cells[i].call.cost) : i \in positions}

Total(cells, positions) == Cardinality(MicroDollars(cells, positions))

total_for_day(cells, d) ==
    Total(cells, {i \in ReadablePositions(cells) : cells[i].call.day = d})

total_for_run(cells, r) ==
    Total(cells, {i \in ReadablePositions(cells) : cells[i].call.run = r})
=============================================================================
