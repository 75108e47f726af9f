----------------------------- MODULE MCContent -----------------------------
(***************************************************************************)
(* Jobs for TLC: a table of two cells that lie, span and overlap in every  *)
(* way, with a block that has no id and some of the others missing, cut in *)
(* two responses; a line of many texts; and three responses with any page  *)
(* counts.                                                                 *)
(***************************************************************************)
EXTENDS Content

Bare == [id |-> "", type |-> "", text |-> {}, selected |-> FALSE, children |-> <<>>,
         row |-> 1, column |-> 1, rowSpan |-> 1, columnSpan |-> 1]

Word(id, selected) ==
  [Bare EXCEPT !.id = id, !.type = IF selected THEN "SELECTION_ELEMENT" ELSE "WORD",
               !.selected = selected, !.text = IF selected THEN {} ELSE {"word"}]

Line(id, text) == [Bare EXCEPT !.id = id, !.type = "LINE", !.text = text]

CellsAt(id, words) ==
  {[Bare EXCEPT !.id = id, !.type = "CELL", !.children = words,
                !.row = r, !.column = c, !.rowSpan = rs, !.columnSpan = cs] :
     r \in 0..2, c \in 1..2, rs \in {0, 2}, cs \in {0, 2}}

\* A cell may name the word without an id, and does not get it.
MCTables ==
  {SelectSeq(<<Line("l1", {"invoice", "urgent"}),
               [Bare EXCEPT !.id = "t", !.type = "TABLE", !.children = <<"c1", "c2">>],
               c1, c2, Word("w1", FALSE), Word("", FALSE), Word("x", TRUE), Line("l2", {"tax"})>>,
             LAMBDA b : b.id \notin lost) :
     c1 \in CellsAt("c1", <<"w1", "">>), c2 \in CellsAt("c2", <<"x", "w1">>),
     lost \in {{}, {"w1"}, {"c1"}, {"c1", "c2"}}}

CutInTwo ==
  UNION {{<<[pages |-> 1, blocks |-> SubSeq(layout, 1, cut)],
            [pages |-> 1, blocks |-> SubSeq(layout, cut + 1, Len(layout))]>> :
            cut \in 0..Len(layout)} : layout \in MCTables}

\* The smallest text with these phrases.
TextWith(phrases) ==
  phrases \cup (IF phrases \cap {"sales tax", "tax 0", "zero tax"} # {} THEN {"tax"} ELSE {})
          \cup (IF "vat 0" \in phrases THEN {"vat"} ELSE {})
          \cup (IF "gst 0" \in phrases THEN {"gst"} ELSE {})

\* Any two phrases, and any of one for each regular expression.
MCTexts ==
  {TextWith({p, q}) : p, q \in Phrase} \cup
  {TextWith(phrases) : phrases \in SUBSET {"bill", "total", "gst", "same day", "prepaid",
                                           "long number", "vat 0", "dollars"}} \cup {Phrase}

OneLine == {<<[pages |-> 1, blocks |-> <<Line("l1", text)>>]>> : text \in MCTexts}

OnePart == [pages : 0..MaxReported, blocks : {<<>>, <<Line("l1", {"invoice"})>>}]

ThreeParts == {<<r1, r2, r3>> : r1, r2, r3 \in OnePart}

MCResults == CutInTwo \cup OneLine \cup ThreeParts

\* Tables and page counts make no difference to the agents.
MCInit == Init /\ (Len(responses) > 1 => pipeline /\ langgraph)

MCSpec == MCInit /\ [][Next]_vars
=============================================================================
