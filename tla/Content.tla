------------------------------ MODULE Content ------------------------------
(***************************************************************************)
(* What is made of one document's content: a Textract result folded into   *)
(* text and tables (TableGrid), and the text, or none in fan-out mode,     *)
(* judged by the compliance and the anomaly agent, side by side, each as a *)
(* graph or in its plain form (AgentRules).                                *)
(***************************************************************************)
EXTENDS TableGrid, AgentRules

CONSTANTS
  Results,     \* what a job may have found: sequences of responses
  MaxReported  \* bound on the number of pages a response reports

ASSUME MaxReportedAssumption == MaxReported \in Nat

Block == [id : STRING, type : STRING, text : SUBSET STRING, selected : BOOLEAN,
          children : Seq(STRING), row : Nat, column : Nat, rowSpan : Nat, columnSpan : Nat]

Response == [pages : 0..MaxReported, blocks : Seq(Block)]

\* Only what a line says is matched against the rules' patterns.
ASSUME ResultsAssumption ==
  \A result \in Results :
    /\ result \in Seq(Response)
    /\ \A r \in DOMAIN result : \A b \in DOMAIN result[r].blocks :
         result[r].blocks[b].type = "LINE" => IsText(result[r].blocks[b].text)

VARIABLES
  responses,   \* the pages of the job's result, each with some of its blocks
  pipeline,    \* whether the agents are given the OCR result
  langgraph,   \* whether LangGraph is installed
  folded,      \* responses taken up so far
  block,       \* and blocks of the last of them
  reading,     \* what was folded from them
  extraction,  \* the extraction made of it
  node,        \* where each agent is
  compliance,  \* the state of its graph, or its result
  anomaly

given == <<responses, pipeline, langgraph>>
ocr == <<folded, block, reading, extraction>>
vars == <<responses, pipeline, langgraph, folded, block, reading, extraction, node, compliance, anomaly>>

Agent == {"compliance", "anomaly"}

NoBlocks == [id \in {} |-> {}]

NoExtraction == [made |-> FALSE, text |-> <<>>, page_count |-> 0, tables |-> <<>>]

Init ==
  /\ responses \in Results
  /\ pipeline \in BOOLEAN
  /\ langgraph \in BOOLEAN
  /\ folded = 0
  /\ block = 0
  /\ reading = [pages |-> 0, lines |-> <<>>, tables |-> <<>>, by_id |-> NoBlocks]
  /\ extraction = NoExtraction
  /\ node = [a \in Agent |-> "waiting"]
  /\ compliance = ComplianceState({})
  /\ anomaly = AnomalyState({})

-----------------------------------------------------------------------------
(* The OCR task: _to_extraction.                                           *)

\* The blocks of the response taken up last.
Blocks == IF folded = 0 THEN <<>> ELSE responses[folded].blocks

Exhausted == block = Len(Blocks)

TakeResponse ==
  /\ folded < Len(responses) /\ Exhausted
  /\ folded' = folded + 1
  /\ block' = 0
  /\ reading' = [reading EXCEPT !.pages = Max({@, responses[folded + 1].pages})]
  /\ UNCHANGED <<extraction, node, compliance, anomaly>>

\* Of two blocks with one id the later is kept, and none without an id.
Indexed(b) ==
  IF b.id = "" THEN reading.by_id
  ELSE [id \in DOMAIN reading.by_id \cup {b.id} |-> IF id = b.id THEN b ELSE reading.by_id[id]]

\* Fault: each response is taken on its own.
FoldBlockAlone(b) ==
  [pages  |-> reading.pages,
   lines  |-> IF block = 0 THEN <<>> ELSE reading.lines,
   tables |-> reading.tables,
   by_id  |-> Indexed(b)]

Written(b) == b.type = "LINE" /\ b.text # {}

\* Lines and tables are kept in order, every block that has an id by it.
Fold(b) ==
  [pages  |-> reading.pages,
   lines  |-> IF Written(b) THEN Append(reading.lines, b.text) ELSE reading.lines,
   tables |-> IF b.type = "TABLE" THEN Append(reading.tables, b) ELSE reading.tables,
   by_id  |-> Indexed(b)]

FoldBlock ==
  /\ ~Exhausted
  /\ reading' = Fold(Blocks[block + 1])
  /\ block' = block + 1
  /\ UNCHANGED <<folded, extraction, node, compliance, anomaly>>

\* Fault: the first response is taken for the whole result.
ToExtractionEarly ==
  /\ folded > 0 /\ Exhausted
  /\ ~extraction.made
  /\ extraction' = [made |-> TRUE, text |-> reading.lines, page_count |-> reading.pages,
                    tables |-> <<>>]
  /\ UNCHANGED <<folded, block, reading, node, compliance, anomaly>>

\* Every table is built when all responses are folded.
ToExtraction ==
  /\ folded = Len(responses) /\ Exhausted
  /\ ~extraction.made
  /\ extraction' =
       [made |-> TRUE,
        text |-> reading.lines,
        page_count |-> IF reading.pages # 0 THEN reading.pages
                       ELSE IF reading.lines # <<>> THEN 1 ELSE 0,
        tables |-> [i \in DOMAIN reading.tables |-> BuildTable(reading.tables[i], reading.by_id)]]
  /\ UNCHANGED <<folded, block, reading, node, compliance, anomaly>>

-----------------------------------------------------------------------------
(* The agents' tasks.                                                      *)

Judged == UNION Range(extraction.text)

\* The text an agent reads: none without an OCR result.
AgentText == IF pipeline THEN Judged ELSE {}

Go(a, label) == node' = [node EXCEPT ![a] = label]

\* A pipeline's agents start after OCR; alone, they start whenever they like.
Starts(a) == node[a] = "waiting" /\ (pipeline => extraction.made)

\* The plain form goes through the matching rules one by one.
RunPlain ==
  /\ ~langgraph
  /\ \/ /\ Starts("compliance")
        /\ compliance' = ComplianceState(AgentText)
        /\ Go("compliance", "checking")
        /\ UNCHANGED anomaly
     \/ /\ Starts("anomaly")
        /\ anomaly' = RunAnomalyPlain(AgentText)
        /\ Go("anomaly", "done")
        /\ UNCHANGED compliance
  /\ UNCHANGED ocr

MoreRules == compliance.rules_evaluated < Len(RuleChecks(compliance.text))

Check ==
  /\ node["compliance"] = "checking"
  /\ \/ /\ MoreRules
        /\ compliance' = EvaluateRule(compliance)
        /\ UNCHANGED node
     \/ /\ ~MoreRules
        /\ compliance' = Conclude(compliance)
        /\ Go("compliance", "done")
  /\ UNCHANGED <<folded, block, reading, extraction, anomaly>>

Inspect ==
  /\ langgraph
  /\ \/ /\ Starts("compliance")
        /\ compliance' = InspectDocument(ComplianceState(AgentText), AgentText)
        /\ Go("compliance", "inspected")
        /\ UNCHANGED anomaly
     \/ /\ Starts("anomaly")
        /\ anomaly' = InspectDocument(AnomalyState(AgentText), AgentText)
        /\ Go("anomaly", "inspected")
        /\ UNCHANGED compliance
  /\ UNCHANGED ocr

Evaluate ==
  /\ node["compliance"] = "inspected"
  /\ compliance' = EvaluateRules(compliance)
  /\ Go("compliance", "done")
  /\ UNCHANGED <<folded, block, reading, extraction, anomaly>>

Assess ==
  /\ node["anomaly"] = "inspected"
  /\ anomaly' = ScoreDocument(anomaly)
  /\ Go("anomaly", "done")
  /\ UNCHANGED <<folded, block, reading, extraction, compliance>>

Next ==
  /\ \/ TakeResponse \/ FoldBlock \/ ToExtraction
     \/ RunPlain \/ Check \/ Inspect \/ Evaluate \/ Assess
  /\ UNCHANGED given

Spec == Init /\ [][Next]_vars

-----------------------------------------------------------------------------

TypeOK ==
  /\ folded \in 0..Len(responses)
  /\ block \in 0..Len(Blocks)
  /\ reading.pages \in 0..MaxReported
  /\ extraction.made => folded = Len(responses) /\ Exhausted
  /\ extraction.page_count \in 0..(MaxReported + 1)
  /\ node \in [Agent -> {"waiting", "checking", "inspected", "done"}]
  /\ IsText(compliance.text) /\ IsText(anomaly.text)
  /\ compliance.passed \in BOOLEAN /\ anomaly.is_anomalous \in BOOLEAN
  /\ compliance.rules_evaluated = Len(compliance.findings)
  /\ anomaly.score \in 0..100

\* Where the blocks of the result are, and in which order.
Places == UNION {{<<r, b>> : b \in DOMAIN responses[r].blocks} : r \in DOMAIN responses}

BlockAt(p) == responses[p[1]].blocks[p[2]]

Before(p, q) == p[1] < q[1] \/ (p[1] = q[1] /\ p[2] < q[2])

LinesAt(places) == {p \in places : Written(BlockAt(p))}

TablesAt(places) == {p \in places : BlockAt(p).type = "TABLE"}

\* The list goes through these places, each once and in order; the element at
\* i is from at[i].
GoesThrough(at, list, places) ==
  /\ at \in [DOMAIN list -> places]
  /\ \A i, j \in DOMAIN list : i < j => Before(at[i], at[j])
  /\ \A p \in places : \E i \in DOMAIN list : at[i] = p

IsTextOf(text, places) ==
  \E at \in [DOMAIN text -> LinesAt(places)] :
    /\ GoesThrough(at, text, LinesAt(places))
    /\ \A i \in DOMAIN text : text[i] = BlockAt(at[i]).text

\* However the job's blocks are split over responses, the text has every line
\* of them, in order; a document with text has a page, and as many as any of
\* the responses reports (_to_extraction).
TextIsWhole ==
  extraction.made =>
    /\ IsTextOf(extraction.text, Places)
    /\ extraction.text # <<>> => extraction.page_count > 0
    /\ \A r \in DOMAIN responses : responses[r].pages <= extraction.page_count

\* The block of an id: the last that has it, in whichever response.
Known(id) == id # "" /\ \E p \in Places : BlockAt(p).id = id

Named(id) ==
  LET p == CHOOSE p \in Places :
             /\ BlockAt(p).id = id
             /\ \A q \in Places : BlockAt(q).id = id => q = p \/ Before(q, p)
  IN BlockAt(p)

\* What the text of a cell must be: what its children show, in their order.
IsTextOfCell(words, cell) ==
  LET shown == {k \in DOMAIN cell.children :
                  Known(cell.children[k]) /\ IsShown(Named(cell.children[k]))}
  IN \E at \in [DOMAIN words -> shown] :
       /\ \A i \in DOMAIN words : words[i] = Shown(Named(cell.children[at[i]]))
       /\ \A i, j \in DOMAIN words : i < j => at[i] < at[j]
       /\ \A k \in shown : \E i \in DOMAIN words : at[i] = k

\* What the grid of a table must be: a rectangle that covers every cell found
\* of it with its span and no more; at each position the text of the last cell
\* that begins there, and nothing where none does.  The text of a cell with an
\* index of 0 is lost.
IsGridOf(grid, table) ==
  LET cell(k) == Named(table.children[k])
      cells == {k \in DOMAIN table.children : Known(table.children[k]) /\ cell(k).type = "CELL"}
      width == IF grid = <<>> THEN 0 ELSE Len(grid[1])
      at(r, c) == {k \in cells : cell(k).row = r /\ cell(k).column = c}
  IN /\ \A r \in DOMAIN grid : Len(grid[r]) = width
     /\ \A k \in cells : LastRow(cell(k)) <= Len(grid)
     /\ grid # <<>> =>
          /\ \E k \in cells : LastRow(cell(k)) = Len(grid)
          /\ \A k \in cells : LastColumn(cell(k)) <= width
          /\ \E k \in cells : LastColumn(cell(k)) = width
     /\ \A r \in 1..Len(grid), c \in 1..width :
          IF at(r, c) = {} THEN grid[r][c] = <<>>
          ELSE \E k \in at(r, c) :
                 (\A j \in at(r, c) : j <= k) /\ IsTextOfCell(grid[r][c], cell(k))

\* Every table of the job has its grid, in order, also when its cells and their
\* words came in other responses, or not at all (_build_table, Table: "always
\* rectangular").
GridsMatch ==
  extraction.made =>
    \E at \in [DOMAIN extraction.tables -> TablesAt(Places)] :
      /\ GoesThrough(at, extraction.tables, TablesAt(Places))
      /\ \A i \in DOMAIN at : IsGridOf(extraction.tables[i], BlockAt(at[i]))

\* A document is judged the same with LangGraph and without
\* (run_compliance_agent, run_anomaly_agent), on the text of its own
\* extraction.
GraphMatchesPlain ==
  /\ node["compliance"] = "done" =>
       compliance = EvaluateRules(InspectDocument(ComplianceState(AgentText), AgentText))
  /\ node["anomaly"] = "done" => anomaly = RunAnomalyPlain(AgentText)

\* The two agents never contradict each other on a risk: what fails the one's
\* rules is flagged by the other (_rule_checks, _run_anomaly_plain).
RiskIsFlagged ==
  node["compliance"] = "done" /\ node["anomaly"] = "done" /\ ~compliance.passed =>
    anomaly.is_anomalous
=============================================================================
