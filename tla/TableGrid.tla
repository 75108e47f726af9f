----------------------------- MODULE TableGrid -----------------------------
(***************************************************************************)
(* Tables from Textract's blocks (app/ocr/textract.py, _build_table and    *)
(* what it calls).  A block is a record whose children are the ids of its  *)
(* CHILD relationships; a text is a set of words, empty when there is none.*)
(* Confidences are left out.                                               *)
(***************************************************************************)
EXTENDS Naturals, Sequences, SequencesExt

\* Positions of a list from first to last: what a comprehension keeps of it.
InOrder(positions) ==
  CHOOSE at \in [1..Cardinality(positions) -> positions] :
    \A i, j \in DOMAIN at : i < j => at[i] < at[j]

\* The children that are there: a job that failed in part leaves ids behind
\* that no block has.
Children(block, byId) == {k \in DOMAIN block.children : block.children[k] \in DOMAIN byId}

\* A cell shows its words, and a mark for each selected box.
IsShown(child) == \/ child.type = "WORD" /\ child.text # {}
                  \/ child.type = "SELECTION_ELEMENT" /\ child.selected

Shown(child) == IF child.type = "WORD" THEN child.text ELSE {"[x]"}

CellText(cell, byId) ==
  LET at == InOrder({k \in Children(cell, byId) : IsShown(byId[cell.children[k]])})
  IN [i \in DOMAIN at |-> Shown(byId[cell.children[at[i]]])]

Cells(table, byId) ==
  LET at == InOrder({k \in Children(table, byId) : byId[table.children[k]].type = "CELL"})
  IN [i \in DOMAIN at |-> byId[table.children[at[i]]]]

\* A span of 0 counts as 1, as a missing one does.
Span(n) == IF n = 0 THEN 1 ELSE n

LastRow(cell) == cell.row + Span(cell.rowSpan) - 1

LastColumn(cell) == cell.column + Span(cell.columnSpan) - 1

EmptyGrid(rows_n, cols_n) == [r \in 1..rows_n |-> [c \in 1..cols_n |-> <<>>]]

\* A cell is written at its top left corner; an index of 0 falls outside.
Place(grid, cell, byId) ==
  IF cell.row \in DOMAIN grid /\ cell.column \in DOMAIN grid[cell.row]
  THEN [grid EXCEPT ![cell.row][cell.column] = CellText(cell, byId)]
  ELSE grid

\* The grid with all cells placed, one after the other.
Grid(cells, byId, rows_n, cols_n) ==
  LET placed[n \in 0..Len(cells)] ==
        IF n = 0 THEN EmptyGrid(rows_n, cols_n) ELSE Place(placed[n - 1], cells[n], byId)
  IN placed[Len(cells)]

\* Fault: the grid is sized by where cells begin.
BuildTableWithoutSpans(table, byId) ==
  LET cells == Cells(table, byId)
  IN Grid(cells, byId, Max({cells[i].row : i \in DOMAIN cells} \cup {0}),
                       Max({cells[i].column : i \in DOMAIN cells} \cup {0}))

\* The grid of a TABLE block is wide and high enough for every span.
BuildTable(table, byId) ==
  LET cells == Cells(table, byId)
  IN Grid(cells, byId, Max({LastRow(cells[i]) : i \in DOMAIN cells} \cup {0}),
                       Max({LastColumn(cells[i]) : i \in DOMAIN cells} \cup {0}))
=============================================================================
