------------------------------- MODULE Canvas -------------------------------
(***************************************************************************)
(* _build_canvas and collect on lists, in the order of the code: how a     *)
(* caller's list of agents becomes task signatures, what arguments each    *)
(* task is finally called with, and how collect tells the results apart.   *)
(***************************************************************************)
EXTENDS Dispatch, Sequences, Functions

CONSTANT MaxAgents   \* bound on the length of a caller's list

ASSUME MaxAgentsAssumption == MaxAgents \in Nat \ {0}

\* A request as the caller wrote it: agents may repeat.
AgentLists == UNION {[1..n -> AgentName] : n \in 1..MaxAgents}

\* A signature is a task and the arguments already bound to it: "payload" is
\* the request, "none" is None, "ocr" an OCR result.
Signature(t, args) == [task |-> t, args |-> args]

SignaturesOf(tasks, args) == [i \in DOMAIN tasks |-> Signature(tasks[i], args)]

Extract == <<Signature("ocr", <<"payload">>)>>

FanOut(postOcr, hasOcr, args) ==
  [head   |-> <<>>,
   header |-> (IF hasOcr THEN Extract ELSE <<>>) \o SignaturesOf(postOcr, args)]

\* Faults: the fan-out header without the None in place of an OCR result, and
\* with the arguments swapped.
CanvasWithoutNone(postOcr, hasOcr, mode) == FanOut(postOcr, hasOcr, <<"payload">>)

CanvasSwapped(postOcr, hasOcr, mode) == FanOut(postOcr, hasOcr, <<"payload", "none">>)

\* The head of a chain (none or one task) and the tasks ahead of collect.
BuildCanvas(postOcr, hasOcr, mode) ==
  IF ~mode \/ ~hasOcr THEN FanOut(postOcr, hasOcr, <<"none", "payload">>)
  ELSE IF postOcr = <<>> THEN [head |-> <<>>, header |-> Extract]
  ELSE [head   |-> Extract,
        header |-> <<Signature("passthrough", <<>>)>> \o SignaturesOf(postOcr, <<"payload">>)]

-----------------------------------------------------------------------------

\* The fields of the serialised results (app/models.py).
Fields ==
  [ocr        |-> {"document_id", "page_count", "text", "mean_confidence", "language", "tables"},
   compliance |-> {"document_id", "passed", "findings", "rules_evaluated"},
   anomaly    |-> {"document_id", "anomaly_score", "is_anomalous", "reasons"}]

\* A result: the fields it has, and the OCR result it was made from.
Result(a, basis) == [fields |-> Fields[a], basis |-> basis]
NoResult == [fields |-> {}, basis |-> "none"]

\* Fault: OCR results told apart by a field every result has.
SharedDiscriminator ==
  <<[field |-> "document_id",     agent |-> "ocr"],
    [field |-> "rules_evaluated", agent |-> "compliance"],
    [field |-> "anomaly_score",   agent |-> "anomaly"]>>

Discriminators ==
  <<[field |-> "page_count",      agent |-> "ocr"],
    [field |-> "rules_evaluated", agent |-> "compliance"],
    [field |-> "anomaly_score",   agent |-> "anomaly"]>>

\* The first discriminator found in the result; "" where there is none.
Recognise(item) ==
  LET hits == {i \in DOMAIN Discriminators : Discriminators[i].field \in item.fields}
  IN IF hits = {} THEN ""
     ELSE Discriminators[CHOOSE i \in hits : \A j \in hits : i <= j].agent

\* What collect iterates over: a bare result, from a chain of one task, is
\* made a list first.  None is never handed to it: a link calls it with what its
\* task returned, a chord with a list.
Iterated(handed) == IF handed.dict THEN <<handed.value>> ELSE handed.value

\* What a task returns for its arguments.
Return(t, args) ==
  IF t = "ocr" THEN Result("ocr", "ocr")
  ELSE IF t = "passthrough" THEN Result(args[1], args[1])
  ELSE Result(t, args[1])

VARIABLES
  asked,    \* the caller's list
  pipeline, \* and mode
  looked,   \* how much of the list _build_canvas has gone through
  agents,   \* the agents it keeps
  postOcr,  \* and those of them that can read OCR output
  canvas,   \* what it makes of them
  calls,    \* the calls made of tasks, in the order they returned
  results,  \* results of the header's tasks, by position
  merged,   \* collect's agents dict
  left      \* positions collect has still to look at

request == <<asked, pipeline>>
lists == <<looked, agents, postOcr>>
vars == <<asked, pipeline, looked, agents, postOcr, canvas, calls, results, merged, left>>

NoCanvas == [head |-> <<>>, header |-> <<>>]

Built == canvas # NoCanvas

Positions == DOMAIN canvas.header

Init ==
  /\ asked \in AgentLists
  /\ pipeline \in BOOLEAN
  /\ looked = 0
  /\ agents = <<>>
  /\ postOcr = <<>>
  /\ canvas = NoCanvas
  /\ calls = <<>>
  /\ results = [i \in {} |-> NoResult]
  /\ merged = [a \in AgentName |-> NoResult]
  /\ left = {}

-----------------------------------------------------------------------------

Add(a) ==
  /\ agents' = Append(agents, a)
  /\ postOcr' = IF a \in PostOcrTasks THEN Append(postOcr, a) ELSE postOcr

\* Fault: repeated agents are kept.
KeepAgain(a) == Add(a)

\* dict.fromkeys keeps an agent at its first occurrence.
Keep(a) == IF a \in Range(agents) THEN UNCHANGED <<agents, postOcr>> ELSE Add(a)

LookAtAgent ==
  /\ looked < Len(asked)
  /\ Keep(asked[looked + 1])
  /\ looked' = looked + 1
  /\ UNCHANGED <<request, canvas, calls, results, merged, left>>

Build ==
  /\ looked = Len(asked)
  /\ ~Built
  /\ canvas' = BuildCanvas(postOcr, "ocr" \in Range(agents), pipeline)
  /\ left' = DOMAIN canvas'.header
  /\ UNCHANGED <<request, lists, calls, results, merged>>

HeadDone == canvas.head = <<>> \/ calls # <<>>

RunHead ==
  /\ ~HeadDone
  /\ calls' = <<canvas.head[1]>>
  /\ UNCHANGED <<request, lists, canvas, results, merged, left>>

\* Celery prepends the head's result to the arguments of each header task;
\* the header's tasks return in any order.
RunHeader(i) ==
  /\ HeadDone
  /\ i \in Positions \ DOMAIN results
  /\ LET sig  == canvas.header[i]
         args == (IF canvas.head = <<>> THEN <<>> ELSE <<"ocr">>) \o sig.args
     IN /\ calls' = Append(calls, Signature(sig.task, args))
        /\ results' = [j \in DOMAIN results \cup {i} |->
                         IF j = i THEN Return(sig.task, args) ELSE results[j]]
  /\ UNCHANGED <<request, lists, canvas, merged, left>>

\* One round of collect's loop.  Any result may come next; every task returns a
\* dict, so the loop's warning about an item that is none is never reached.
CollectItem(i) ==
  /\ DOMAIN results = Positions
  /\ i \in left
  /\ left' = left \ {i}
  /\ LET bare  == Len(canvas.header) = 1
         items == Iterated([dict |-> bare, value |-> IF bare THEN results[1] ELSE results])
     IN merged' = IF Recognise(items[i]) = "" THEN merged
                  ELSE [merged EXCEPT ![Recognise(items[i])] = items[i]]
  /\ UNCHANGED <<request, lists, canvas, calls, results>>

Next == LookAtAgent \/ Build \/ RunHead \/ \E i \in Positions : RunHeader(i) \/ CollectItem(i)

Spec == Init /\ [][Next]_vars

-----------------------------------------------------------------------------

TypeOK ==
  /\ asked \in AgentLists /\ pipeline \in BOOLEAN
  /\ looked \in 0..Len(asked)
  /\ agents \in Seq(AgentName) /\ postOcr \in Seq(PostOcrTasks)
  /\ Range(canvas.head) \cup Range(canvas.header) \subseteq
       [task : HeaderTask, args : {<<>>, <<"payload">>, <<"none", "payload">>}]
  /\ \A i \in DOMAIN calls : calls[i].task \in HeaderTask
  /\ DOMAIN results \subseteq Positions
  /\ DOMAIN merged = AgentName
  /\ left \subseteq Positions

Request == [agents |-> Range(asked), pipeline |-> pipeline]

\* The lists of _build_canvas hold each task once, whatever the caller
\* repeated, and are the sets Dispatch computes for the other modules.
CanvasMatchesDispatch ==
  Built =>
    LET tasks == [i \in Positions |-> canvas.header[i].task]
    IN /\ IsInjective(tasks)
       /\ Range(tasks) = Header(Request)
       /\ (canvas.head # <<>>) = HasHead(Request)

\* What the task functions declare as their parameters.
Accepts(t, args) ==
  CASE t = "ocr"         -> args = <<"payload">>
    [] t \in PostOcrTasks -> Len(args) = 2 /\ args[1] \in {"ocr", "none"} /\ args[2] = "payload"
    [] t = "passthrough"  -> args = <<"ocr">>
    [] OTHER              -> FALSE

\* collect has looked at every result.
Merged == Built /\ left = {}

\* Every call fits the task's parameters, with or without a prepended result,
\* and each agent is called exactly once by the time collect is done.
CallsFit ==
  /\ \A i \in DOMAIN calls : Accepts(calls[i].task, calls[i].args)
  /\ Merged =>
       \A a \in AgentName :
         Cardinality({i \in DOMAIN calls : calls[i].task = a}) = IF a \in Range(asked) THEN 1 ELSE 0

\* The merge names every agent asked for and no other, with that agent's own
\* result, made from the OCR output exactly when OCR leads a pipeline, in
\* whichever order the results come (aggregate.py: the merge does not depend
\* on it).
MergeIsComplete ==
  Merged => merged =
    [a \in AgentName |->
       IF a \notin Range(asked) THEN NoResult
       ELSE Result(a, IF a = "ocr" \/ HasHead(Request) THEN "ocr" ELSE "none")]
=============================================================================
