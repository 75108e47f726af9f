------------------------------ MODULE Workflow ------------------------------
(***************************************************************************)
(* The life of submitted documents: the API process publishing the canvas  *)
(* of app/dispatch.py, the broker's queues, the worker processes running   *)
(* the tasks of app/tasks, the chord counter in the result backend, and    *)
(* the one result a client polls: that of the terminal task, collect.      *)
(*                                                                         *)
(* Celery, RabbitMQ and Redis are not in the repository.  They are         *)
(* modelled from how app/celery_app.py configures them: messages are       *)
(* acknowledged after the work (task_acks_late) and redelivered when a     *)
(* worker dies (task_reject_on_worker_lost), and a chord is a set of       *)
(* results in the backend, counted as each header task returns.            *)
(***************************************************************************)
EXTENDS Dispatch, Bags, BagsExt

CONSTANTS
  Requests,           \* submitted documents, each with a terminal task id
  Slots,              \* worker processes
  Consumes,           \* the queues each worker process is started on
  Texts,              \* what an OCR run may return; one text: OCR is idempotent
  None,               \* no OCR text, or no message
  MayFail,            \* the agents whose tasks can fail for good, on a faulty document
  MaxRetries,         \* task_max_retries
  MaxCrashes          \* bound on the worker processes killed in a behaviour

ASSUME SlotsAssumption ==
  /\ Consumes \in [Slots -> SUBSET Queue]
  /\ \A c \in Queue : \E s \in Slots : c \in Consumes[s]
ASSUME TextsAssumption == Texts # {} /\ None \notin Texts
ASSUME BoundsAssumption == MaxRetries \in Nat /\ MaxCrashes \in Nat
ASSUME FailureAssumption == MayFail \subseteq AgentName

VARIABLES
  request,  \* what each caller asked for
  reply,    \* the caller's answer to POST /documents
  unsent,   \* first tasks the API has still to publish
  queue,    \* messages waiting on the broker, over all queues
  slot,     \* what each worker process is doing
  parts,    \* results of header tasks, kept in the backend for the chord
  armed,    \* the chord's size has been written
  state,    \* Celery state of the terminal task
  payload,  \* its merged agent results
  crashes   \* worker processes killed so far

vars == <<request, reply, unsent, queue, slot, parts, armed, state, payload, crashes>>

Text == Texts \cup {None}

\* One agent's result: who made it, and the OCR text it was made from.
Item == [agent : AgentName, text : Text]

\* A header task's entry in the chord's result set.
Part == [task : HeaderTask, ok : BOOLEAN, text : Text]

Message == [req : Requests, task : Task, retries : 0..MaxRetries,
            text : Text, items : SUBSET Item]

Step == {"idle", "run", "publish", "store", "fire", "clear", "ack"}

Slot == [step : Step, msg : Message \cup {None}, todo : SUBSET Task,
         ok : BOOLEAN, text : Text]

Idle == [step |-> "idle", msg |-> None, todo |-> {}, ok |-> TRUE, text |-> None]

TypeOK ==
  /\ request \in [Requests -> DocumentRequest]
  /\ reply \in [Requests -> {"none", "accepted", "unavailable"}]
  /\ unsent \in [Requests -> SUBSET Task]
  /\ IsABag(queue) /\ \A m \in DOMAIN queue : m \in Message
  /\ slot \in [Slots -> Slot]
  /\ \A s \in Slots : slot[s].step # "idle" => slot[s].msg \in Message
  /\ parts \in [Requests -> SUBSET Part]
  /\ armed \in [Requests -> BOOLEAN]
  /\ state \in [Requests -> {"PENDING", "STARTED", "SUCCESS", "FAILURE"}]
  /\ payload \in [Requests -> SUBSET Item]
  /\ crashes \in 0..MaxCrashes

Init ==
  /\ request \in [Requests -> DocumentRequest]
  /\ reply = [r \in Requests |-> "none"]
  /\ unsent = [r \in Requests |-> FirstTasks(request[r])]
  /\ queue = EmptyBag
  /\ slot = [s \in Slots |-> Idle]
  /\ parts = [r \in Requests |-> {}]
  /\ armed = [r \in Requests |-> FALSE]
  /\ state = [r \in Requests |-> "PENDING"]
  /\ payload = [r \in Requests |-> {}]
  /\ crashes = 0

-----------------------------------------------------------------------------
(* The API process: submit_document and submit.                            *)

TaskMessage(r, t, text) ==
  [req |-> r, task |-> t, retries |-> 0, text |-> text, items |-> {}]

CollectMessage(r, items) ==
  [req |-> r, task |-> "collect", retries |-> 0, text |-> None, items |-> items]

\* A chord's size is written just before its last header task is published.
Arms(r, todo) ==
  /\ IsChord(request[r])
  /\ \E t \in Header(request[r]) : todo = {t}

\* Fault: publishing goes on after the caller was told 503.
PublishAnyway(r, t) ==
  /\ t \in unsent[r]
  /\ queue' = BagAdd(queue, TaskMessage(r, t, None))
  /\ armed' = [armed EXCEPT ![r] = @ \/ Arms(r, unsent[r])]
  /\ unsent' = [unsent EXCEPT ![r] = @ \ {t}]
  /\ UNCHANGED <<request, reply, slot, parts, state, payload, crashes>>

Publish(r, t) ==
  /\ reply[r] = "none"
  /\ t \in unsent[r]
  /\ queue' = BagAdd(queue, TaskMessage(r, t, None))
  /\ armed' = [armed EXCEPT ![r] = @ \/ Arms(r, unsent[r])]
  /\ unsent' = [unsent EXCEPT ![r] = @ \ {t}]
  /\ UNCHANGED <<request, reply, slot, parts, state, payload, crashes>>

Accept(r) ==
  /\ reply[r] = "none"
  /\ unsent[r] = {}
  /\ reply' = [reply EXCEPT ![r] = "accepted"]
  /\ UNCHANGED <<request, unsent, queue, slot, parts, armed, state, payload, crashes>>

\* The broker refuses the next message: the caller gets a 503, and what was
\* published before stays published.
BrokerDown(r) ==
  /\ reply[r] = "none"
  /\ unsent[r] # {}
  /\ reply' = [reply EXCEPT ![r] = "unavailable"]
  /\ armed' = [armed EXCEPT ![r] = @ \/ Arms(r, unsent[r])]
  /\ UNCHANGED <<request, unsent, queue, slot, parts, state, payload, crashes>>

-----------------------------------------------------------------------------
(* The worker processes.                                                   *)

Msg(s) == slot[s].msg
Req(s) == Msg(s).req
Query(s) == request[Req(s)]

At(s, step) == slot[s].step = step

\* The backend never overwrites a stored SUCCESS.
Stored(r, st) == [state EXCEPT ![r] = IF @ = "SUCCESS" THEN @ ELSE st]

\* A free process takes a message.  task_track_started records STARTED, and
\* of the terminal task only collect is ever the one to start.
Deliver(s) ==
  /\ At(s, "idle")
  /\ \E m \in BagToSet(queue) :
       /\ QueueOf(m.task) \in Consumes[s]
       /\ queue' = BagRemove(queue, m)
       /\ slot' = [slot EXCEPT ![s] = [Idle EXCEPT !.step = "run", !.msg = m]]
       /\ state' = IF m.task = "collect" THEN Stored(m.req, "STARTED") ELSE state
  /\ UNCHANGED <<request, reply, unsent, parts, armed, payload, crashes>>

\* Fault: the other agents read the document again.
OutcomeReadAgain(m) == IF m.task = "passthrough" THEN {m.text} ELSE Texts

\* OCR reads the document, whatever it now holds; the others depend only on
\* the OCR result they were given.
Outcome(m) == IF m.task = "ocr" THEN Texts ELSE {m.text}

\* A task returns.  A chain's next tasks are published before its result is
\* stored; a chord's header task goes straight to storing.
Succeed(s) ==
  /\ At(s, "run")
  /\ Msg(s).task # "collect"
  /\ LET t == Msg(s).task
         next == IF IsHead(Query(s), t) THEN Header(Query(s))
                 ELSE IF IsLink(Query(s), t) THEN {"collect"} ELSE {}
     IN \E v \in Outcome(Msg(s)) :
          slot' = [slot EXCEPT ![s].step = IF next = {} THEN "store" ELSE "publish",
                               ![s].todo = next,
                               ![s].text = v]
  /\ UNCHANGED <<request, reply, unsent, queue, parts, armed, state, payload, crashes>>

\* Publish one task of the continuation: a header task with the OCR result
\* as its first argument, or collect with the bare result.
PublishNext(s) ==
  /\ At(s, "publish")
  /\ \E t \in slot[s].todo :
       /\ queue' = BagAdd(queue,
            IF t = "collect"
            THEN CollectMessage(Req(s), {[agent |-> AgentOf(Msg(s).task), text |-> slot[s].text]})
            ELSE TaskMessage(Req(s), t, slot[s].text))
       /\ slot' = [slot EXCEPT ![s].todo = @ \ {t},
                               ![s].step = IF slot[s].todo = {t} THEN "ack" ELSE @]
  /\ armed' = [armed EXCEPT ![Req(s)] = @ \/ Arms(Req(s), slot[s].todo)]
  /\ UNCHANGED <<request, reply, unsent, parts, state, payload, crashes>>

\* Faults: one retry too many; a retry that is not published; one published
\* by an attempt that goes on.
RetryOnceMore(s) ==
  /\ At(s, "run") /\ Msg(s).task = "ocr" /\ Msg(s).retries <= MaxRetries
  /\ queue' = BagAdd(queue, [Msg(s) EXCEPT !.retries = @ + 1])
  /\ slot' = [slot EXCEPT ![s].step = "ack"]
  /\ UNCHANGED <<request, reply, unsent, parts, armed, state, payload, crashes>>

RetryUnpublished(s) ==
  /\ At(s, "run") /\ Msg(s).task = "ocr" /\ Msg(s).retries < MaxRetries
  /\ slot' = [slot EXCEPT ![s].step = "ack"]
  /\ UNCHANGED <<request, reply, unsent, queue, parts, armed, state, payload, crashes>>

RetryAndGoOn(s) ==
  /\ At(s, "run") /\ Msg(s).task = "ocr" /\ Msg(s).retries < MaxRetries
  /\ queue' = BagAdd(queue, [Msg(s) EXCEPT !.retries = @ + 1])
  /\ UNCHANGED <<request, reply, unsent, slot, parts, armed, state, payload, crashes>>

\* A retryable failure of the OCR task: the next attempt is published, then
\* this one is acknowledged.
Retry(s) ==
  /\ At(s, "run")
  /\ Msg(s).task = "ocr"
  /\ Msg(s).retries < MaxRetries
  /\ queue' = BagAdd(queue, [Msg(s) EXCEPT !.retries = @ + 1])
  /\ slot' = [slot EXCEPT ![s].step = "ack"]
  /\ UNCHANGED <<request, reply, unsent, parts, armed, state, payload, crashes>>

\* A permanent failure: a document that cannot be processed, a backend that
\* is not configured, the last attempt, a time limit.
Fail(s) ==
  /\ At(s, "run")
  /\ Msg(s).task \in MayFail /\ Query(s).faulty
  /\ slot' = [slot EXCEPT ![s].step = "store", ![s].ok = FALSE]
  /\ UNCHANGED <<request, reply, unsent, queue, parts, armed, state, payload, crashes>>

\* A failed chain task marks the tasks behind it as failed.  Behind a link
\* that is collect; behind a head it is the chord, whose own id is not the
\* id of its body.
StoreFailure(s) ==
  /\ At(s, "store")
  /\ ~IsMember(Query(s), Msg(s).task)
  /\ state' = IF IsLink(Query(s), Msg(s).task) THEN Stored(Req(s), "FAILURE") ELSE state
  /\ slot' = [slot EXCEPT ![s].step = "ack"]
  /\ UNCHANGED <<request, reply, unsent, queue, parts, armed, payload, crashes>>

\* A header task adds its result to the chord's set and reads its size.
AddPart(s) ==
  /\ At(s, "store")
  /\ IsMember(Query(s), Msg(s).task)
  /\ LET r == Req(s)
         ps == parts[r] \cup {[task |-> Msg(s).task, ok |-> slot[s].ok, text |-> slot[s].text]}
         full == armed[r] /\ CountFull(request[r], ps)
     IN /\ parts' = [parts EXCEPT ![r] = ps]
        /\ slot' = [slot EXCEPT ![s].step = IF full THEN "fire" ELSE "ack"]
  /\ UNCHANGED <<request, reply, unsent, queue, armed, state, payload, crashes>>

ItemsOf(ps) == {[agent |-> AgentOf(p.task), text |-> p.text] : p \in ps}

\* Fault: the body is called with what there is, after an error was recorded.
FireBodyRegardless(s) ==
  /\ At(s, "fire")
  /\ LET r == Req(s) IN
       /\ queue' = BagAdd(queue, CollectMessage(r, ItemsOf({p \in parts[r] : p.ok})))
       /\ state' = IF \E p \in parts[r] : ~p.ok THEN Stored(r, "FAILURE") ELSE state
  /\ slot' = [slot EXCEPT ![s].step = "clear"]
  /\ UNCHANGED <<request, reply, unsent, parts, armed, payload, crashes>>

\* The task that completed the count reads the set again and publishes
\* collect with it, or records FAILURE when a result in it is an error.
FireBody(s) ==
  /\ At(s, "fire")
  /\ LET r == Req(s) IN
       \/ /\ \A p \in parts[r] : p.ok
          /\ queue' = BagAdd(queue, CollectMessage(r, ItemsOf(parts[r])))
          /\ slot' = [slot EXCEPT ![s].step = "clear"]
          /\ UNCHANGED state
       \/ /\ \E p \in parts[r] : ~p.ok
          /\ state' = Stored(r, "FAILURE")
          /\ slot' = [slot EXCEPT ![s].step = "ack"]
          /\ UNCHANGED queue
  /\ UNCHANGED <<request, reply, unsent, parts, armed, payload, crashes>>

ClearChord(s) ==
  /\ At(s, "clear")
  /\ parts' = [parts EXCEPT ![Req(s)] = {}]
  /\ armed' = [armed EXCEPT ![Req(s)] = FALSE]
  /\ slot' = [slot EXCEPT ![s].step = "ack"]
  /\ UNCHANGED <<request, reply, unsent, queue, state, payload, crashes>>

\* Fault: each result replaces the ones merged before it.
MergesLast(items) == {{i} : i \in items}

\* collect keeps one result per agent, the last of those recognised as its.
Merges(items) ==
  {p \in SUBSET items :
     /\ \A i \in items : \E j \in p : j.agent = i.agent
     /\ \A i, j \in p : i.agent = j.agent => i = j}

Collect(s) ==
  /\ At(s, "run")
  /\ Msg(s).task = "collect"
  /\ \E p \in Merges(Msg(s).items) :
       payload' = [payload EXCEPT ![Req(s)] = IF state[Req(s)] = "SUCCESS" THEN @ ELSE p]
  /\ state' = Stored(Req(s), "SUCCESS")
  /\ slot' = [slot EXCEPT ![s].step = "ack"]
  /\ UNCHANGED <<request, reply, unsent, queue, parts, armed, crashes>>

Ack(s) ==
  /\ At(s, "ack")
  /\ slot' = [slot EXCEPT ![s] = Idle]
  /\ UNCHANGED <<request, reply, unsent, queue, parts, armed, state, payload, crashes>>

\* Fault: the message was acknowledged before the work.
CrashAfterAck(s) ==
  /\ ~At(s, "idle")
  /\ crashes < MaxCrashes
  /\ crashes' = crashes + 1
  /\ slot' = [slot EXCEPT ![s] = Idle]
  /\ UNCHANGED <<request, reply, unsent, queue, parts, armed, state, payload>>

\* A worker process is killed, at any point: its message was never
\* acknowledged, so it goes back to the queue.  It may die between writing
\* the chord's size and publishing the last header task.
Crash(s) ==
  /\ ~At(s, "idle")
  /\ crashes < MaxCrashes
  /\ crashes' = crashes + 1
  /\ queue' = BagAdd(queue, Msg(s))
  /\ slot' = [slot EXCEPT ![s] = Idle]
  /\ \/ UNCHANGED armed
     \/ /\ At(s, "publish")
        /\ armed' = [armed EXCEPT ![Req(s)] = @ \/ Arms(Req(s), slot[s].todo)]
  /\ UNCHANGED <<request, reply, unsent, parts, state, payload>>

-----------------------------------------------------------------------------

Submit(r) == (\E t \in Task : Publish(r, t)) \/ Accept(r)

\* A running task returns, fails or is retried: its time limit sees to it.
Finish(s) == Succeed(s) \/ Fail(s) \/ Retry(s) \/ Collect(s)

Work(s) == Deliver(s) \/ Finish(s) \/ PublishNext(s) \/ StoreFailure(s)
             \/ AddPart(s) \/ FireBody(s) \/ ClearChord(s) \/ Ack(s)

Next == \/ \E r \in Requests : Submit(r) \/ BrokerDown(r)
        \/ \E s \in Slots : Work(s) \/ Crash(s)

Fairness == /\ \A r \in Requests : WF_vars(Submit(r))
            /\ \A s \in Slots : WF_vars(Work(s))

Spec == Init /\ [][Next]_vars

FairSpec == Spec /\ Fairness

-----------------------------------------------------------------------------
(* What the workflow promises.                                             *)

Ready(r) == state[r] \in {"SUCCESS", "FAILURE"}

Agents(items) == {i.agent : i \in items}

\* A finished document carries a result of every agent the caller asked for
\* and of no other (collect, dispatch.submit): nothing is lost between the
\* header tasks, the chord's count and the merge.
PayloadComplete ==
  \A r \in Requests : state[r] = "SUCCESS" => Agents(payload[r]) = request[r].agents

\* Results merged together were made from one OCR run: in pipeline mode every
\* agent's result rests on the very text the payload reports, and in fan-out
\* mode none rests on any (_build_canvas, aggregate.passthrough).
PayloadConsistent ==
  \A r \in Requests : \A i \in payload[r] :
    /\ i.agent \in request[r].agents
    /\ IF HasHead(request[r])
       THEN i.text # None /\ \A j \in payload[r] : j.text = i.text
       ELSE i.text # None <=> i.agent = "ocr"

\* A caller who was told 503 may submit again: the part of the canvas that
\* was published before the broker went down never finishes as a document
\* (submit_document).
UnavailableNeverFinishes ==
  \A r \in Requests : reply[r] = "unavailable" => ~Ready(r)

\* Even when tasks run again after a crash, and then fail or not, it never
\* finishes with a result.
UnavailableNeverSucceeds ==
  \A r \in Requests : reply[r] = "unavailable" => state[r] # "SUCCESS"

\* A message or a running task that can still finish a document.
Outstanding(r) ==
  \/ \E m \in DOMAIN queue : m.req = r
  \/ \E s \in Slots : ~At(s, "idle") /\ ~At(s, "ack") /\ Req(s) = r

\* A killed process strands no document: as long as no task of it fails for
\* good, something that can still finish an accepted document exists until it
\* is finished (task_acks_late, task_reject_on_worker_lost).
NothingStranded ==
  \A r \in Requests :
    reply[r] = "accepted" /\ ~request[r].faulty /\ ~Ready(r) => Outstanding(r)

\* What a client has read of a finished document stays true: neither its
\* state nor its result changes afterwards, whatever tasks of it still run
\* or run again (get_status is called at any time).
ReadyIsFinal ==
  [][\A r \in Requests : Ready(r) => state'[r] = state[r] /\ payload'[r] = payload[r]]_vars

\* Every accepted document is finished, one way or the other, so polling its
\* one task id ends (README: every dispatch terminates in one task).  It does
\* not hold of a document whose head fails for good.
EventuallyReady ==
  \A r \in Requests : reply[r] = "accepted" ~> Ready(r)

\* The OCR task that leads a document's pipeline has just failed for good.
HeadFails(r) ==
  \E s \in Slots : At(s, "store") /\ ~slot[s].ok /\ Req(s) = r /\ IsHead(Query(s), Msg(s).task)

\* Every accepted document is finished unless the head of its pipeline fails
\* for good: failures of links and of chord members reach the id that is
\* polled, and no document waits for ever for a process, whatever fails in
\* the others (dispatch.submit, the queues of docker-compose.yml).
ReadyUnlessHeadFails ==
  \A r \in Requests : []~HeadFails(r) => (reply[r] = "accepted" ~> Ready(r))

\* An accepted document that makes none of its tasks fail ends as a SUCCESS,
\* whenever a process was killed and whichever retries it took (acks_late).
FaultlessSucceeds ==
  \A r \in Requests : (reply[r] = "accepted" /\ ~request[r].faulty) ~> state[r] = "SUCCESS"

-----------------------------------------------------------------------------
(* The contract with the caller, implemented.                              *)

AnswerOf(st) == CASE st = "SUCCESS" -> "success"
                  [] st = "FAILURE" -> "failure"
                  [] OTHER -> "none"

Promise == INSTANCE Contract WITH
  Agent  <- AgentName,
  asked  <- [r \in Requests |-> request[r].agents],
  answer <- [r \in Requests |-> AnswerOf(state[r])],
  result <- [r \in Requests |-> Agents(payload[r])]

\* Without crashes, every step of API and workers is one of Contract's or
\* invisible to the caller (dispatch.submit, collect, get_status): what was
\* accepted is answered at most once, with a result of just the agents asked
\* for or a failure, and what was refused never.
KeepsContract == Promise!Safe

\* Without crashes, the workflow is an implementation of Contract, and for
\* every document whose head does not fail for good with the contract's
\* fairness: what was accepted is answered.
ImplementsContract ==
  /\ Promise!Safe
  /\ \A r \in Requests : []~HeadFails(r) => Promise!Fair(r)
=============================================================================
