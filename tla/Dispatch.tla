------------------------------ MODULE Dispatch ------------------------------
(***************************************************************************)
(* What app/dispatch.py decides about a request: which Celery tasks run,   *)
(* in which shape, and on which queue.  The definitions here are sets; the *)
(* module Canvas builds the same canvas from lists, in the order of the    *)
(* code, and is checked to agree with them.                                *)
(***************************************************************************)
EXTENDS Naturals, FiniteSets

\* The agents a caller may ask for.  An agent's name also stands for its
\* Celery task: "ocr" for ocr.extract_text, and so on.
AgentName == {"ocr", "compliance", "anomaly"}

\* The agents that can read OCR output.
PostOcrTasks == {"compliance", "anomaly"}

\* passthrough carries the OCR result of a pipeline past its other agents;
\* collect is the terminal task.
HeaderTask == AgentName \cup {"passthrough"}
Task == HeaderTask \cup {"collect"}

\* faulty abstracts the document itself: one that makes its tasks fail.
DocumentRequest == [agents : (SUBSET AgentName) \ {{}}, pipeline : BOOLEAN, faulty : BOOLEAN]

PostOcr(q) == q.agents \cap PostOcrTasks

\* OCR runs ahead of the others and feeds them.
HasHead(q) == q.pipeline /\ "ocr" \in q.agents /\ PostOcr(q) # {}

\* Fault: nothing carries the OCR result past the other agents.
HeaderWithoutPassthrough(q) == IF HasHead(q) THEN PostOcr(q) ELSE q.agents

\* The tasks whose results meet in collect.  A header of one task is no
\* chord: Celery runs it as a link of a chain, and collect gets its bare
\* result.
Header(q) == IF HasHead(q) THEN {"passthrough"} \cup PostOcr(q) ELSE q.agents

IsChord(q)     == Cardinality(Header(q)) > 1
IsHead(q, t)   == HasHead(q) /\ t = "ocr"
IsLink(q, t)   == t \in Header(q) /\ Cardinality(Header(q)) = 1
IsMember(q, t) == t \in Header(q) /\ IsChord(q)

\* The tasks whose messages the API publishes itself.
FirstTasks(q) == IF HasHead(q) THEN {"ocr"} ELSE Header(q)

\* The chord's count: as many results as there are header tasks.
CountFull(q, results) == Cardinality(results) = Cardinality(Header(q))

\* The agent that a task's result is recognised as: passthrough returns the
\* OCR result it was given.
AgentOf(t) == IF t = "passthrough" THEN "ocr" ELSE t

\* Fault: the aggregation tasks are routed to a queue of their own.
QueueNobodyConsumes(t) == IF t \in AgentName THEN t ELSE "aggregate"

\* task_routes: each agent's tasks on a queue of their own, aggregation on
\* the default queue.
Queue == {"ocr", "compliance", "anomaly", "default"}
QueueOf(t) == IF t \in AgentName THEN t ELSE "default"
=============================================================================
