------------------------------ MODULE DocTables ------------------------------
(***************************************************************************)
(* doc_table_write: the tables of one section, changed by batches of row     *)
(* operations (table-ops.ts) and written back as text (gfm-table.ts).        *)
(*                                                                         *)
(* A row has its cells (markdown source, possibly fewer or more than the     *)
(* header) and its line: the number of the line it was read from, or Edited. *)
(* A batch is all or nothing, and works on one parse of the table.           *)
(***************************************************************************)
EXTENDS Integers, SequencesExt

CONSTANTS PlainText,      \* the plain text of every cell source
          Folded,         \* every column name in lower case
          Tables,         \* lists of tables to start from
          Wheres,         \* the conditions a caller may give: sets of <<column, value>>
          Numbers,        \* the row numbers a caller may give
          Records,        \* the records (partial functions from names to sources)
          MaxBatches      \* bound on the number of batches

VARIABLES tables, batches

vars == <<tables, batches>>

Edited  == 0
Empty   == ""
NoRow   == [by |-> "none"]
Where(w) == [by |-> "where", cols |-> w]
Row(n)   == [by |-> "row", n |-> n]

TableRow == [cells : Seq(DOMAIN PlainText), line : Nat]
Table    == [header : Seq(DOMAIN Folded), outer : BOOLEAN, aligned : BOOLEAN,
             rows : Seq(TableRow)]

Width(t) == Len(t.header)

-----------------------------------------------------------------------------
(* Columns and rows.                                                        *)

(* columnResolver: the exact name, or else the name in another case; one     *)
(* column or an error.                                                      *)
Columns(t, name) ==
    LET same == {c \in DOMAIN t.header : t.header[c] = name} IN
    IF same # {} THEN same ELSE {c \in DOMAIN t.header : Folded[t.header[c]] = Folded[name]}
Resolves(t, names)  == \A name \in names : Cardinality(Columns(t, name)) = 1
Column(t, name)     == CHOOSE c \in Columns(t, name) : TRUE

Cell(r, c) == IF c \in DOMAIN r.cells THEN r.cells[c] ELSE Empty

(* A condition holds of the markdown source of a cell or of its plain text.  *)
Matches(t, r, w) ==
    \A p \in w : LET cell == Cell(r, Column(t, p[1])) IN p[2] \in {cell, PlainText[cell]}

(* selectRows: negative numbers count from the end.                         *)
Selectable(t, sel) ==
    CASE sel.by = "none"  -> TRUE
      [] sel.by = "where" -> Resolves(t, {p[1] : p \in sel.cols})
      [] sel.by = "row"   -> sel.n \in (-Len(t.rows))..(Len(t.rows) - 1)

Selected(t, sel) ==
    CASE sel.by = "none"  -> {}
      [] sel.by = "where" -> {i \in DOMAIN t.rows : Matches(t, t.rows[i], sel.cols)}
      [] sel.by = "row"   -> {(IF sel.n < 0 THEN Len(t.rows) + sel.n ELSE sel.n) + 1}

(* expectRows: as many rows as the caller said, and at least one.           *)
AsExpected(t, sel, count) ==
    /\ sel.by # "none" /\ Selectable(t, sel)
    /\ Selected(t, sel) # {}
    /\ Cardinality(Selected(t, sel)) = count

(* The cells of record over those of row r, cut or filled to the width.     *)
CellsOf(t, r, record) ==
    [c \in 1..Width(t) |->
        IF \E name \in DOMAIN record : Column(t, name) = c
        THEN record[CHOOSE name \in DOMAIN record : Column(t, name) = c]
        ELSE Cell(r, c)]
NewRow(t, r, record) == [cells |-> CellsOf(t, r, record), line |-> Edited]
Blank == [cells |-> <<>>, line |-> Edited]

-----------------------------------------------------------------------------
(* applyOp.                                                                 *)

InsertAllowed(t, op) ==
    /\ Selectable(t, op.sel)
    /\ IF op.position \in {"start", "end"} THEN op.sel = NoRow
       ELSE Cardinality(Selected(t, op.sel)) = 1
    /\ Resolves(t, DOMAIN op.record)

InsertPlace(t, op) ==
    CASE op.position = "start"  -> 1
      [] op.position = "end"    -> Len(t.rows) + 1
      [] op.position = "before" -> Max(Selected(t, op.sel))
      [] op.position = "after"  -> Max(Selected(t, op.sel)) + 1

(* Fault to detect: the rows are cut out from the first to the last, and     *)
(* each cut moves the rows that are still to go.                            *)
DeleteRows_Ascending(rows, sel) ==
    MapThenFoldSet(LAMBDA i, rest : RemoveAt(rest, i), rows,
                   LAMBDA i : i, LAMBDA s : Max(s), sel)

(* The fold ends with the row it chooses first, which is the uppermost.     *)
DeleteRows(rows, sel) ==
    MapThenFoldSet(LAMBDA i, rest : RemoveAt(rest, i), rows,
                   LAMBDA i : i, LAMBDA s : Min(s), sel)

OpAllowed(t, op) ==
    CASE op.op = "insert" -> InsertAllowed(t, op)
      [] op.op = "update" -> /\ DOMAIN op.record # {}
                             /\ Resolves(t, DOMAIN op.record)
                             /\ AsExpected(t, op.sel, op.count)
      [] op.op = "delete" -> AsExpected(t, op.sel, op.count)

ApplyOp(t, op) ==
    LET sel == Selected(t, op.sel) IN
    CASE op.op = "insert" -> [t EXCEPT !.rows = InsertAt(@, InsertPlace(t, op),
                                                     NewRow(t, Blank, op.record))]
      [] op.op = "update" ->
            [t EXCEPT !.rows = [i \in DOMAIN @ |->
                IF i \in sel THEN NewRow(t, @[i], op.record) ELSE @[i]]]
      [] op.op = "delete" -> [t EXCEPT !.rows = DeleteRows(@, sel)]

-----------------------------------------------------------------------------
(* renderGfmTable, and the table read back from what it wrote.  Lines that   *)
(* nobody edited are written as they were; a table whose pipes were lined up *)
(* is lined up again.  Without outer pipes a trailing empty cell is lost.    *)
(* Whether it looks lined up (a) to the next reader depends on the widths.   *)

DropsLast(t, cells) ==
    ~t.outer /\ Len(cells) > 1 /\ cells[1] # Empty /\ Last(cells) = Empty

Filled(t, cells) ==
    [c \in 1..(Width(t) + Len(SubSeq(cells, Width(t) + 1, Len(cells)))) |->
        IF c \in DOMAIN cells THEN cells[c] ELSE Empty]

CellsBack(t, cells) == IF DropsLast(t, cells) THEN Front(cells) ELSE cells

ReadBack(t, a) ==
    [header |-> t.header, outer |-> t.outer, aligned |-> a,
     rows |-> [i \in DOMAIN t.rows |->
        LET row == t.rows[i] IN
        IF t.aligned THEN [row EXCEPT !.cells = CellsBack(t, Filled(t, @))]
        ELSE IF row.line = Edited THEN [row EXCEPT !.cells = CellsBack(t, @)]
        ELSE row]]

-----------------------------------------------------------------------------
(* The batch: pickTable, then the operations in order, each on what the one  *)
(* before left; any refusal leaves the document alone.                      *)

Pick(index) == IF index = -1 THEN (IF Len(tables) = 1 THEN {1} ELSE {})
               ELSE {index + 1} \intersect DOMAIN tables

(* Fault to detect: all operations are checked before the first is applied.  *)
Runs_ChecksFirst(t, ops) ==
    LET after[i \in 0..Len(ops)] == IF i = 0 THEN t ELSE ApplyOp(after[i - 1], ops[i])
        fine == \A i \in DOMAIN ops : OpAllowed(t, ops[i])
    IN  [ok |-> fine, t |-> IF fine THEN after[Len(ops)] ELSE t]

Runs(t, ops) ==
    LET after[i \in 0..Len(ops)] == IF i = 0 THEN t ELSE ApplyOp(after[i - 1], ops[i])
        fine == \A i \in DOMAIN ops : OpAllowed(after[i - 1], ops[i])
    IN  [ok |-> fine, t |-> IF fine THEN after[Len(ops)] ELSE t]

Selectors == {Where(w) : w \in Wheres} \union {Row(n) : n \in Numbers}
Counts    == 1..2

Op(o, sel, record, position, count) ==
    [op |-> o, sel |-> sel, record |-> record, position |-> position, count |-> count]
Inserts == {Op("insert", NoRow, r, p, 0) : r \in Records, p \in {"start", "end"}}
             \union {Op("insert", s, r, p, 0) : s \in Selectors, r \in Records,
                                                p \in {"before", "after"}}
Updates == {Op("update", s, r, "none", k) : s \in Selectors, r \in Records, k \in Counts}
Deletes == {Op("delete", s, <<>>, "none", k) : s \in Selectors, k \in Counts}
TableOps == Inserts \union Updates \union Deletes

(* doc_table_write with two operations.                                     *)
TableWrite ==
    \E index \in -1..1, one, two \in TableOps, a \in BOOLEAN :
        /\ batches < MaxBatches
        /\ Pick(index) # {}
        /\ LET k == CHOOSE i \in Pick(index) : TRUE
               r == Runs(tables[k], <<one, two>>)
           IN  /\ r.ok
               /\ tables' = [tables EXCEPT ![k] = ReadBack(r.t, a)]
        /\ batches' = batches + 1

Init == tables \in Tables /\ batches = 0
Next == TableWrite
Idle == tables = <<>> /\ batches = MaxBatches

-----------------------------------------------------------------------------
(* Properties.  Both speak of every batch a caller may send.                *)

SameCells(s, t) ==
    /\ Len(s.rows) = Len(t.rows)
    /\ \A i \in DOMAIN s.rows : /\ s.rows[i].line = t.rows[i].line
                                /\ \A c \in 1..Width(s) :
                                        Cell(s.rows[i], c) = Cell(t.rows[i], c)

(* A batch does what its operations do in calls of their own, each reading   *)
(* the table back from the document the one before wrote: nothing is lost or *)
(* gained on the way through text, and no condition matches differently      *)
(* (doc-table-write.ts: "later ops see earlier results").                   *)
BatchIsItsCalls ==
    \A k \in DOMAIN tables : \A one, two \in TableOps, a \in BOOLEAN :
        LET both  == Runs(tables[k], <<one, two>>)
            first == Runs(tables[k], <<one>>)
            last  == Runs(ReadBack(first.t, a), <<two>>)
        IN  batches < MaxBatches /\ first.ok =>
                /\ both.ok <=> last.ok
                /\ both.ok => SameCells(ReadBack(both.t, a), ReadBack(last.t, a))

(* The rows at the places in `at`, in their order.                          *)
Kept(rows, at) ==
    MapThenFoldSet(LAMBDA i, above : Append(above, rows[i]), <<>>,
                   LAMBDA i : i, LAMBDA s : Max(s), at)

(* An operation changes the rows it picks and no other: a delete leaves the  *)
(* rows that do not match, an update or an insert leaves every other row,    *)
(* all of them in their order and with the very line they were read from,    *)
(* and a changed row is written anew (gfm-table.ts: "a row nobody edits is   *)
(* re-emitted byte for byte").                                              *)
UnpickedRowsStay ==
    \A k \in DOMAIN tables : \A op \in TableOps :
        LET t    == tables[k]
            pick == Selected(t, op.sel)
            new  == Runs(t, <<op>>)
            Read(rows) == {i \in DOMAIN rows : rows[i].line # Edited}
        IN  batches < MaxBatches /\ new.ok =>
                CASE op.op = "delete" ->
                        new.t.rows = Kept(t.rows, DOMAIN t.rows \ pick)
                  [] op.op = "update" ->
                        Kept(new.t.rows, Read(new.t.rows)) = Kept(t.rows, Read(t.rows) \ pick)
                  [] op.op = "insert" ->
                        Kept(new.t.rows, Read(new.t.rows)) = Kept(t.rows, Read(t.rows))
=============================================================================
