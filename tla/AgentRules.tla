----------------------------- MODULE AgentRules -----------------------------
(***************************************************************************)
(* The rules of the compliance and the anomaly agent, and both forms each  *)
(* agent has: a plain function, and the nodes of a graph for when LangGraph*)
(* is installed (app/agents/langgraph_agents.py).  A text is the set of the*)
(* phrases in it that some regular expression has as an alternative, each  *)
(* within a line, and empty for the empty text only.  The regular          *)
(* expressions of the rules, of the plain form and of the graph's node are *)
(* each written out as in the code, none from another.  Scores are in      *)
(* hundredths; a message stands for itself.                                *)
(***************************************************************************)
EXTENDS Naturals, Sequences

\* "total", "amount" and "balance" have a number after them on their line;
\* "large amount" and "dollars" are the alternatives of the last expression.
Phrase == {"invoice", "bill", "receipt", "total", "amount", "balance", "tax", "vat", "gst",
           "sales tax", "urgent", "immediate", "emergency", "same day", "wire transfer",
           "gift card", "prepaid", "cash app", "long number", "tax 0", "vat 0", "gst 0",
           "zero tax", "large amount", "dollars", "other words"}

\* A text has the phrases within its phrases.
IsText(text) ==
  /\ text \subseteq Phrase
  /\ text \cap {"sales tax", "tax 0", "zero tax"} # {} => "tax" \in text
  /\ "vat 0" \in text => "vat" \in text
  /\ "gst 0" \in text => "gst" \in text

Rules ==
  << [says |-> [rule_id |-> "invoice_present", severity |-> "low"],
      pattern |-> {"invoice", "bill", "receipt"}],
     [says |-> [rule_id |-> "amount_present", severity |-> "low"],
      pattern |-> {"total", "amount", "balance"}],
     [says |-> [rule_id |-> "tax_reference", severity |-> "medium"],
      pattern |-> {"tax", "vat", "gst", "sales tax"}],
     [says |-> [rule_id |-> "urgency_flag", severity |-> "high"],
      pattern |-> {"urgent", "immediate", "emergency", "same day"}],
     [says |-> [rule_id |-> "payment_risk", severity |-> "high"],
      pattern |-> {"wire transfer", "gift card", "prepaid", "cash app"}] >>

\* The signals of the plain form.
Signals ==
  << [says |-> "rush", weight |-> 25, pattern |-> {"urgent", "immediate", "emergency", "same day"}],
     [says |-> "outlier", weight |-> 20, pattern |-> {"long number"}],
     [says |-> "payment", weight |-> 25, pattern |-> {"wire transfer", "gift card", "cash app", "prepaid"}],
     [says |-> "tax", weight |-> 15, pattern |-> {"tax 0", "vat 0", "gst 0", "zero tax"}],
     [says |-> "amount", weight |-> 15, pattern |-> {"large amount", "dollars"}] >>

\* Fault: a signal was given another weight in the plain form only.
ScoredSignalsReweighed == [Signals EXCEPT ![4].weight = 20]

\* Fault: a phrase was added to the rules and the plain form only.
ScoredSignalsOlder == [Signals EXCEPT ![3].pattern = @ \ {"prepaid"}]

\* The signals of the graph's node, its own copy of them.
ScoredSignals ==
  << [says |-> "rush", weight |-> 25, pattern |-> {"urgent", "immediate", "emergency", "same day"}],
     [says |-> "outlier", weight |-> 20, pattern |-> {"long number"}],
     [says |-> "payment", weight |-> 25, pattern |-> {"wire transfer", "gift card", "cash app", "prepaid"}],
     [says |-> "tax", weight |-> 15, pattern |-> {"tax 0", "vat 0", "gst 0", "zero tax"}],
     [says |-> "amount", weight |-> 15, pattern |-> {"large amount", "dollars"}] >>

Matches(entry, text) == entry.pattern \cap text # {}

Found(entry, text) == IF Matches(entry, text) THEN <<entry.says>> ELSE <<>>

\* What the entries of a table say whose pattern the text matches, in order.
AllFound(table, text) ==
  Found(table[1], text) \o Found(table[2], text) \o Found(table[3], text)
    \o Found(table[4], text) \o Found(table[5], text)

RuleChecks(text) == AllFound(Rules, text)

Passes(findings) == \A i \in DOMAIN findings : findings[i].severity \notin {"high", "critical"}

Weight(entry, text) == IF Matches(entry, text) THEN entry.weight ELSE 0

\* The weights of the signals found, at most 100.
Score(table, text) ==
  LET sum == Weight(table[1], text) + Weight(table[2], text) + Weight(table[3], text)
               + Weight(table[4], text) + Weight(table[5], text)
  IN IF sum < 100 THEN sum ELSE 100

-----------------------------------------------------------------------------
(* What an agent goes through: the state of its graph's nodes, or the      *)
(* locals of its plain form.                                               *)

ComplianceState(text) ==
  [text |-> text, findings |-> <<>>, rules_evaluated |-> 0, passed |-> TRUE]

AnomalyState(text) == [text |-> text, score |-> 0, reasons |-> <<>>, is_anomalous |-> FALSE]

RunAnomalyPlain(text) ==
  LET score == Score(Signals, text)
      reasons == AllFound(Signals, text)
  IN [AnomalyState(text) EXCEPT !.score = score,
                                !.reasons = reasons,
                                !.is_anomalous = score >= 50 \/ reasons # <<>>]

\* One round of the plain form's loop, and what follows it.
EvaluateRule(state) ==
  [state EXCEPT !.rules_evaluated = @ + 1,
                !.findings = Append(@, RuleChecks(state.text)[state.rules_evaluated + 1])]

Conclude(state) == [state EXCEPT !.passed = Passes(state.findings)]

\* The first node of either graph: the text is filled in when there is none.
InspectDocument(state, text) ==
  IF state.text # {} THEN state ELSE [state EXCEPT !.text = text]

EvaluateRules(state) ==
  LET findings == RuleChecks(state.text)
  IN [state EXCEPT !.findings = findings,
                   !.rules_evaluated = Len(findings),
                   !.passed = Passes(findings)]

\* The second node of the anomaly graph: the plain form's rules, written again.
ScoreDocument(state) ==
  LET score == Score(ScoredSignals, state.text)
      reasons == AllFound(ScoredSignals, state.text)
  IN [state EXCEPT !.score = score,
                   !.reasons = reasons,
                   !.is_anomalous = score >= 50 \/ reasons # <<>>]
=============================================================================
