# Verification of the document workflow engine

TLA+ modules of the engine in `src/app`, TLC configurations that check them on
small instances, and TLAPS proofs of the properties that matter most for every
instance. Paths below are relative to `src/`.

## 1. The system

A client posts a document (`app/main.py`). The API translates the request into
a Celery canvas (`app/dispatch.py`) and publishes its first tasks to RabbitMQ.
Three pools of worker processes (`docker-compose.yml`) take tasks from their
own queue and from the default queue, run the agents (`app/tasks`), and keep
results in Redis. Every canvas ends in `aggregate.collect`, whose task id the
client polls.

| Component | State it keeps | Operations | Meets the others through |
| --- | --- | --- | --- |
| HTTP submission (`main.py:64`) | none | accept, 503 | publishes messages one by one |
| Task status (`dispatch.py:98`) | none | several reads of one record | result backend |
| Canvas (`dispatch.py:30`) | none | request -> task signatures | fixes which task follows which |
| Agent tasks (`tasks/*.py`, `base.py`) | message being worked on, retries | run, return, fail, retry | queues, chord counter |
| Aggregate (`aggregate.py`) | none | passthrough, collect | reads the chord's results |
| Celery application (`celery_app.py`) | queues, unacknowledged messages, results | deliver, acknowledge, redeliver, expire | all of the above |
| Textract backend (`ocr/textract.py`) | S3 objects, jobs | stage, start, poll, page | S3, Textract, soft limit |
| Tesseract and stub (`ocr/tesseract.py`, `ocr/stub.py`) | images and texts of the pages so far | check_ready, rasterise, recognise page by page | `tesseract` and poppler as child processes |
| Registry (`ocr/registry.py`) | one backend per process | get_ocr_backend | builds and checks the backend at the first document |
| Sources (`sources.py`) | none | read_bytes | raises the error taxonomy (`errors.py`) |
| Agents' rules (`agents/langgraph_agents.py`) | the state a graph's nodes hand on | plain form or graph | the OCR result's text |
| Replay guard (`replay_guard.py`), configuration | none | read a header; read the environment | nobody calls the guard |

What is hard about it:

- **Interleaving.** The header's tasks return in any order on several
  processes, possibly before the last of them has been published. Exactly one
  of them must see the chord complete, with every result in it.
- **Crashes.** Messages are acknowledged after the work
  (`celery_app.py:53-54`). A killed process leaves its effects behind (a
  result in the chord's set, a published continuation) and its message runs
  again.
- **Partial failure.** The broker may refuse the second of three messages of a
  chord; the caller is told 503 (`main.py:75`) and the first one runs.
- **Retries.** A retry is a new message, published before the attempt it
  follows is acknowledged (`tasks/base.py:15`).
- **Stale reads.** A status reply is made of several reads of a record that
  workers write and Redis expires (`dispatch.py:101-119`).
- **Time limits.** The polling deadline of a Textract job and the soft limit of
  its task count from different moments (`textract.py:188`). A page's timeout
  bounds that page only (`tesseract.py:54`), a document by its task's limits.
- **State kept by a process.** The backend is built once per process and kept
  (`registry.py:59`); a process is replaced after 200 tasks, by a time limit
  and after it was killed, and starts without one.
- **Results in parts.** A table, its cells and their words may come in
  different responses, or not at all (`textract.py:309`).
- **Rules written twice.** Which form of an agent runs depends on an optional
  import (`langgraph_agents.py:161`).

`PROJECT.json` lists the hazards at their lines, with the properties that
would catch each going wrong.

## 2. The modules

| Module | Models | Reads as |
| --- | --- | --- |
| `Dispatch` | canvas and routing as sets (`dispatch.py`, `celery_app.py:36`) | operators |
| `Canvas` | the same canvas as lists in the code's order, the calls, collect's loop | state machine, `Dispatch` as reference |
| `Workflow` | API, queues, worker processes, chord, result of each document | state machine |
| `Contract` | what a caller is promised | abstract state machine |
| `WorkflowInv` | inductive invariants of `Workflow` | state predicates |
| `MCWorkflow` | instances for TLC | definitions |
| `StatusRead` | `GET /tasks/{id}` against a changing record | state machine |
| `Sources` | what reading a document fails with, and as which error | operators |
| `Textract` | OCR tasks on Textract | state machine |
| `OcrWorker`, `MCOcrWorker` | the OCR pool on Tesseract or the stub: processes, their backend, pages, limits | state machine |
| `TableGrid` | a table's grid from its blocks | operators |
| `AgentRules` | both agents' rules, plain and as nodes of a graph | operators |
| `Content`, `MCContent` | a result folded into text and tables, and judged | state machine |
| `DispatchProofs` | lemmas on the shape and the count of a header | proofs |
| `WorkflowProofs` | `Workflow` with any crashes: types, soundness, no success after a 503, nothing stranded | proofs |
| `CalmProofs` | `Workflow` without crashes: complete results, one end, `Contract`, one OCR run per pipeline | proofs |
| `CanvasProofs`, `StatusReadProofs`, `TextractProofs`, `OcrWorkerProofs`, `ContentProofs` | every invariant of these modules | proofs |

`Workflow` and `Canvas` extend `Dispatch`; `Workflow` instantiates `Contract`
under a refinement mapping. `Textract` and `OcrWorker` share `Sources`;
`Content` extends `TableGrid` and `AgentRules`. `StatusRead` refines the one state read that
`Workflow` takes for granted: there a finished record is observed at once,
here it is read field by field. `Textract` and `OcrWorker` detail, one per
backend, what `Workflow` has as a single step, the OCR task's run: success, a
permanent and a transient failure are `Succeed`, `Fail` and `Retry` there.
`Content` details what a run's result says, which `Workflow` takes for a value
compared for equality only.

### Workflow and the code

- `unsent` and `Publish`: `canvas.apply_async()` publishes one message per
  first task. `Accept` and `BrokerDown` are the 202 and the 503 of
  `submit_document`. A chord's size is written just before its last header
  task is published (`Arms`).
- `queue` is a bag over all queues; a process takes any message of a queue it
  consumes (`Deliver`). Order in a queue is left open, which allows every
  order the retry delays and redelivery can produce.
- `slot[s].step` is how far a process is with its message: `run`, then for a
  chain's task `publish` (its continuation, one message at a time), for others
  `store`; a chord member that finds the count complete goes on to `fire` and
  `clear`; then `ack`. A process can be killed between any two of these
  (`Crash`); its message goes back.
- `parts` and `armed` are the chord's set of results and its size in Redis. A
  member adds its result and reads the count in one step, as the backend's
  pipeline does; the task that saw it complete reads the set *again* before it
  publishes `collect`, and deletes it afterwards.
- `state` and `payload` belong to the terminal task only. A stored SUCCESS is
  never overwritten, as the Redis backend sees to.
- `text` is the OCR text a result was made from. OCR may return any of `Texts`
  whenever it runs; the other agents' results depend on their input only.

Celery, RabbitMQ and Redis are not part of the repository: they are modelled
from how the code uses and configures them, and marked external in the map.
One of their behaviours decides what a client can rely on (`StoreFailure`): the
failure of a pipeline's head is recorded under the head's own id and that of the
chord, not of the chord's body, which is the id a client polls. A document whose
head fails for good is therefore never finished (`head_failure`).
`ReadyUnlessHeadFails` and the fairness half of `ImplementsContract` say that
nothing else keeps an accepted document waiting: they except a document of which
`HeadFails` holds at some time, and no other.

### Canvas and the code

- `LookAtAgent` takes up one agent of the caller's list: `Keep` is
  `dict.fromkeys` and, for what it keeps, the filter that makes `post_ocr`. The
  code does the two one after the other; both go through the list in order, so
  their results are the same. `Build` is the rest of `_build_canvas`.
- `RunHead` and `RunHeader` call the tasks with what Celery prepends to the
  arguments a signature has bound. `CollectItem` is one round of `collect`'s
  loop, in any order of the results.
- Two branches of `collect` are left out, as no canvas reaches them: `None` in
  place of results (`aggregate.py:52-53`) and an item that is not a dict
  (`aggregate.py:64-70`). Every task here returns a dict.

### OcrWorker and the code

- `image` is the deployment: the name in `OCR_BACKEND` and what the image
  lacks. `source` says of a document what the code's branches depend on.
- `worker[p]` is a process: the step of its task, the page it is at, the texts
  recognised so far (of the pages that have words, as the code joins them), and `kept`,
  the entry of `get_ocr_backend`'s cache. `Take`, `GetBackend`,
  `Read`, `Rasterise` and `Recognise` follow `ocr.extract` from its message to
  its result, a page at a time; `ExtractNothing` is the stub. Before any of them
  `ocr.extract` logs the document's scheme, which fails for a uri `urlparse`
  refuses, the stub's documents included (`LogScheme`).
- `After` is what a task leaves behind in its process: the backend, and a
  count that reaches `worker_max_tasks_per_child`.
- `Raise` is `AgentTask`'s retry policy: a transient error is retried while
  the budget lasts, every other class ends the task. `SoftTimeLimit`,
  `HardTimeLimit` and `Kill` are the three ways a running task is cut off;
  the second and third take the process with them, and only the third
  has the message delivered again.
- `Faulty` documents are those for which the code may fail, hang or reach a
  limit at any step. A document outside it fails only for what the image or
  its own kind entails, which is what `FailsFast` and `SoundDocumentsSucceed`
  are about.

### Textract and the code

- `source` says of a document which id its caller chose, whether it is paged and
  whether it is in S3 already. Callers may repeat an id (`models.py:41`), so
  `object` has one entry per id, what was last staged under it (`_ensure_in_s3`).
- A job reads its object when Textract gets to it, which may be after another
  document was staged under the same key; `job` keeps what it read.
- `clock` is the time since the task's attempt started, `deadline` the end of
  its polling, counted from when polling begins.

### Content and the code

- A block is a record with its children's ids; one without an id is folded but
  not indexed (`Indexed`). A result is any number of responses, each with its own
  page count. `TakeResponse` and `FoldBlock`
  are one round each of `_to_extraction`'s outer and inner loop, `ToExtraction`
  what follows them. `BuildTable` places the cells in order, as `_build_table`
  does; `IsGridOf` says what its result must be without placing anything.
- A text is the set of the phrases in it that some regular expression has as an
  alternative. Each expression is written out where the code writes it: the rules
  in `Rules`, the signals of the plain anomaly agent in `Signals` and, a second
  time, those of its graph's node in `ScoredSignals`, so the copies can differ
  and `GraphMatchesPlain` says they do not. `RunPlain` starts the plain form
  of an agent: the anomaly agent's ends at once, the compliance agent's goes on
  by a rule at a time (`Check`), since it counts and collects in a loop what its
  graph takes as a list. `Inspect`, then `Evaluate` or `Assess`, are the nodes
  of the graphs. `_rule_checks` and the anomaly agent's chain of conditions are
  concatenations in their order (`AllFound`), as the code writes them. The
  two agents are tasks of their own, so their steps interleave, before OCR
  in fan-out mode and after it in a pipeline.

### What the modules abstract

Confidences of words and pages; logging; serialisation; the delay
before a retry (a retry message may be taken at any time); broker outages on
the worker's side, where Celery reconnects; messages duplicated by a lost
connection without a dead process (the same effect as a crash after the work);
expiry in `Workflow` (it is in `StatusRead`); prefetching (a prefetched message
is one that waits).

In `OcrWorker`, Pillow is part of the dependency "tesseract", since the backend
imports them together; there is no clock, so a limit may strike a `Faulty`
document at any step, a page's timeout too; a task's end is stored and
acknowledged in one step, `Workflow` having what lies in between; and a client
library that turns the soft limit's exception into an error of its own is one
of the failures of its step. In `Content`, a phrase lies within one line, so a
text has what its lines have; the severity `critical` is in `Passes` but no
rule has it.

## 3. What is checked

Every run of the table passes unless marked; `PROJECT.json` pairs every
property with a plausible fault of the code that violates it.

| Run | Instance | Shows |
| --- | --- | --- |
| `canvas` | lists of up to 4 agents, both modes | each agent runs once with arguments its task accepts; the merge is complete in every order |
| `workflow` | 1 document (any), 3 processes, 2 texts, 2 retries, failures | completeness of the result, which rests on one run of OCR; a 503 never turns into a document; a finished state is final; refinement of `Contract` with its fairness: every document is answered unless its pipeline's head fails; `CalmInv` (`Sound`, `OnceInv`, `EndInv` and `OneRun`), on which the proofs rest |
| `workflow_two` | 2 documents, one of them faulty in OCR, 2 processes | no document waits for ever for another, mixes with it or fails with it; each is answered as `Contract` allows, unless its pipeline's head fails |
| `workflow_faults` | 1 document, 3 processes, 1 crash, 1 retry, faulty or not, 1 text | no success after a 503; a faultless document survives the loss of a process and succeeds; `CrashInv` (`Sound`, `MissingInv` and `StrandInv`), on which the proofs rest |
| `status_read` | 1 request, 4 writes or expiries | outcome fields come from one record (`ReadInv`); finished replies are whole |
| `textract` | 2 documents, PDF or image, in S3 or not, with or without a bucket, their ids the same or not; 2 pages, 1 retry | the text of one document, its own unless both were staged under one id; the whole text; `JobInv` (`CollectedInOrder`, `KeysApart`) behind them; every task ends, also when the soft limit strikes |
| `ocr_worker` | 2 documents of any format and scheme, 1 of them faulty; 2 processes, 2 pages, 1 retry, 1 kill, 2 tasks per process; the image lacks one thing at most, credentials included | whole pages in order, none of another document or attempt; a backend that is not ready and a uri that nothing can fetch burn no retry; a sound document is not harmed by a faulty one; every task ends |
| `content` | a table of 2 cells in 2 responses; 3 responses with any page counts; 1 line with any of many texts, with and without LangGraph | the whole text and page count; a rectangular grid with every cell in its place; the graph agrees with the plain form; the agents agree on a risk |
| `idempotent_crash` | 1 crash, nothing else | *violated*: SUCCESS without results |
| `head_failure` | failing OCR | *violated*: never finished |
| `status_read_outcome` | 1 request | *violated*: ready without outcome |
| `textract_soft_limit` | defaults in units of 30 s | *violated*: killed mid-poll |

Bounds. One document has up to four tasks, so three processes and one document
show every interleaving within a document; documents share nothing but
processes and queues, which `workflow_two` adds. Two texts suffice to tell
runs of OCR apart, since properties compare texts only for equality. One crash
already gives every pair of a killed and a repeated run; more crashes repeat
it. Two retries make a first, a middle and a last attempt. `MaxAgents` of 4
exceeds the three agents, so every list has a repetition. `MaxWrites` of 4
lets a record go through failure, success, expiry and a new run within one
request. Jobs have one page or two, so a first and a last, with a failure
before, between and after them; a staging of 0 or 2 within a limit of 3 leaves
room for polling or does not.

A request is `faulty` when its document can make tasks fail for good.
`NothingStranded` and `FaultlessSucceeds` are about the others: with a process
killed on the way, a faulty one can wait for ever (see below). In `ocr_worker`, a
process that runs two tasks shows what the first leaves for the second, and
also what a new process does; an image that lacks two things fails at the first
the code meets. Schemes `http` and `s3` differ in what they fail with, `other`
fails before it is read and `unparsable` before a backend is asked; `file` and
`https` add no class of error. In
`content`, two cells are enough to overlap, to lie in either order and to leave
gaps; a row index runs from 0, a column index from 1, the code treating both
alike; a span is 0 or 2, and 1 is what 0 stands for. Blocks are lost
(a word, a cell, both) and the layout is cut at every block, so every
relationship crosses the cut in some behaviour; one word has no id. Agents read
every text of two phrases, which shows a phrase that one copy of an expression
lacks, and every set of phrases taken one from each expression, which gives every
sum of weights.

Deadlock checking is off where the modelled work ends: all documents are
finished, or a document's tasks are gone. It is on in `status_read`.

Fairness. `Workflow` is weakly fair to each submission (the API's thread
publishes on, or answers) and to each worker process: time limits end a
running task, the publication and storing that follow are code that runs on,
and a free process keeps taking messages. Nothing is assumed of crashes,
failures, retries or the broker's availability. `Textract` is weakly fair to a
task (calls time out, sleeps end) and assumes nothing of a job: termination
rests on the deadline and the soft limit. `OcrWorker` is weakly fair to each
process, whose every step is bounded by a page's timeout, a client's or the
task's limits; kills are bounded by `MaxKills`, since a message that kills its
process each time is redelivered for ever. `Contract` has the fairness of what
it promises: each submission is replied to, each accepted one answered.

### Findings

1. `idempotent_crash`: the comment at `celery_app.py:51-52` holds idempotence
   to be enough for redelivery. A header task killed between storing its result
   and its acknowledgement runs again; both runs can find the chord's count
   complete, and the second may read the set after the first has cleared it.
   `collect` then runs on an empty list, first, and its SUCCESS sticks.
2. `head_failure`: after a permanent failure of the OCR task that leads a
   pipeline, the polled id stays PENDING.
3. `status_read_outcome`: `get_status` asks `ready()` twice; a task that
   finishes in between gives a reply that is ready without an outcome.
4. `textract_soft_limit`: staging eats the margin between the polling
   deadline and the soft limit; the task is killed and not retried.

Also seen, each without a run of its own:

- With one crash and failures a FAILURE already read can become a SUCCESS, and
  a member that failed and then succeeds leaves two entries in the chord's set,
  which is then never complete. No text of the repository denies it.
- By construction of the canvas a document is PENDING, never STARTED, while
  its agents run: STARTED is recorded for the task that starts, and the polled
  id is that of `collect` (`celery_app.py:48-50`).
- `docs/ocr-backends.md:78-79` has a misconfigured worker fail fast. One
  without the data of its language does not: tesseract reports it as it reports
  a timeout, and every document uses its whole retry budget. `FailsFast`
  leaves that case out, and does not hold with it.
- `errors.py:21` and `docs/ocr-backends.md:76-79` count missing credentials among
  what fails at once. boto3 reports them when S3 is asked, by an error that is a
  `BotoCoreError`, and both the fetch of an s3 source (`sources.py:164`) and the
  staging upload (`textract.py:263`) retry every `BotoCoreError`: each such
  document uses its whole retry budget.
  `FailsFast` excepts that case too (`NoCredentials`), and does not hold with it.
- What `boto3.client` raises for a bad region or profile (`sources.py:152`) and
  what `urlparse` raises for a uri it refuses (`ocr.py:48`) is translated to no
  error of the taxonomy; the task fails with it.
- With two OCR texts and one crash `PayloadConsistent` fails: a head killed while
  it publishes its header runs again, and both runs' header tasks are merged.
- A connection that breaks while a response is awaited or read is not retried
  (`sources.py:139`), though `sources.py:70` holds transport failures to be
  retryable.
- A TIFF is paged, so the Tesseract backend hands it to poppler, which reads
  PDF only: every TIFF fails (`Rasterise`).
- `check_ready` runs at a process's first document, not when the worker starts,
  and looks for neither poppler nor boto3.
- Files and S3 objects are read whole before their size is checked
  (`sources.py:89`).
- The anomaly agent's threshold never decides, since a single reason is enough;
  `rules_evaluated` counts the rules that matched; and in fan-out mode both
  agents judge the empty text, which passes (`AgentText`).
- Two documents in flight with one `document_id` share a staged object, and one
  may get the other's text (`MayRead`); nothing keeps callers from choosing the
  same id. It is never a mixture of the two (`ResultOfOneDocument`).
- `README.md:332-335` counts the replay guard among what the worker layer has;
  no code calls it, and no queue has the dead-letter exchange whose headers it
  reads.

## 4. What is proved

All theorems hold for every set of documents, processes, texts and every
bound. Assumptions on constants are those named in the modules (sets are
disjoint from `None`, bounds are numbers, every queue has a consumer, a job's
result is a sequence of blocks), and, where a theorem says so:

- `MaxCrashes = 0`: no process dies. `idempotent_crash` shows that completeness
  needs it; that a FAILURE read may change after a crash (section 3) shows it
  for `ReadyIsFinal`, `EndInv` and `Contract`, that OCR may run again with another
  text for `PayloadConsistent`.
- `Idempotent`: OCR gives one text per document, what `celery_app.py:51-52`
  requires of tasks. With two texts, a task run again adds a second entry of
  itself to the chord's set, and the count no longer counts tasks.

### Workflow, with any number of crashes (`WorkflowProofs`)

- `TypeCorrect`: `Spec => []TypeOK`. `TypeOK` is not inductive: what
  `PublishNext` publishes has a type only because a publishing process holds
  header tasks or `collect`. `TypeInv` adds that.
- `SoundInvariant`: `Spec => []Sound`, for any texts. Every message, running
  task, stored part and merged item is of an agent asked for and carries a text
  exactly when OCR ran ahead of it, however often a task runs again. The proofs
  below rest on it.
- `RefusedNeverSucceeds`: with `Idempotent`, `Spec => []UnavailableNeverSucceeds`.
  A refused document has a first task that was never published (`Replied`).
  While it has one, another that was published is a member of a chord, so no
  chain goes on (`TwoFirst`), and whatever runs and runs again can only add
  results of published tasks: the count can be reached with two entries of one
  task, one of them failed, which records a FAILURE, but never with successes
  alone, which are one per task (`MissingInv`, by `ChordCount`).
- `NeverStranded`: with `Idempotent`, `Spec => []NothingStranded`. For a document that
  fails none of its tasks, `StrandInv` holds until `collect` is called: each
  header task is counted, at work, waiting or owed by the head (`Covered`);
  whoever publishes the last of them writes the chord's size (`Armed`); nothing
  has failed (`Faultless`); and something of it is outstanding. The hard step is
  the one that adds a result and leaves nothing behind: then all tasks are in
  the set, each once, so the count is full and the step goes on to call
  `collect` (`NothingLeft`, by `AllCounted`). A crash moves a task back to the
  queue, which `Covered` does not mind. `CalledKept` shows that a call of
  `collect` is not lost.

### Workflow, as long as no process dies (`CalmProofs`)

- `OnceInvariant` and `CompleteWithoutCrashes`: `Spec => []OnceInv` and so
  `Spec => []PayloadComplete`.
  The argument: a task of a document is in one place (unpublished, queued, at
  work, owed by its head, or counted), and a step moves one task at most, or is
  the head's return, which creates its header where nothing was (`Unique`,
  `HeadFirst`). So results in the chord's set are of different tasks, and as
  many of them as there are header tasks are all of them (`ChordCount`); they
  stay until the one task that saw this has published `collect` (`ChordFull`),
  so `collect` is given a result per agent (`CollectComplete`).
- `EndInvariant`: `Spec => []EndInv`. A document's end (about to call
  `collect`, `collect` queued or running, a stored final state) exists once, and
  only after every other task was counted or can no longer run (`OneEnd`). Each
  of the three ways to an end (a link, a failed head, a full chord) is the last
  work of its document, by `Unique` and `HeadFirst`.
- `RefusedNeverFinishes`: `Spec => []UnavailableNeverFinishes`. An end needs
  nothing unpublished, and a refused document has something.
- `AnswerStays`: `Spec => ReadyIsFinal`. A second state is only stored at an
  end, and there is none besides the answer.
- `ContractKept`: `Spec => KeepsContract`, that is `Contract` under the refinement
  mapping, its initial states and steps: `Accept` and `BrokerDown` are the
  contract's replies, a first final state its answer, every other step a
  stutter. It takes `PayloadComplete`, `ReadyIsFinal` and
  `UnavailableNeverFinishes` together.
- `ConsistentWithoutCrashes`: `Spec => []PayloadConsistent`, for any number of
  texts. `OneRun` says that the texts a pipeline has on its way (queued, carried
  by a process, counted or merged) are all the same: only the head's return
  introduces one, and by `HeadFirst` nothing else of the document is about then.

`CalmInvariant` and, with crashes, `CrashInvariant` gather the parts of the two
inductive invariants as the runs check them.

### Canvas, for a caller's list of any length (`CanvasProofs`)

- `CanvasMatches`: `Spec => []CanvasMatchesDispatch`, so the sets that `Dispatch`
  hands to `Workflow` and its proofs are what the lists of `_build_canvas` come
  to. `KeepInv` says of the loop that the lists kept so far have the agents
  looked at so far, each once, and those of them that read OCR output;
  `BuildInv`, by `CanvasShape`, what the finished canvas holds and with which
  arguments.
- `CallsRight`: `Spec => []CallsFit`. `CallsInv` relates the calls to the
  results: who has been called is the head, once it ran, and the header tasks that
  have a result, nobody twice. With `BuildInv` a prepended result and the
  bound arguments make up the parameters.
- `MergeComplete`: `Spec => []MergeIsComplete`. A result stands at the position of
  its task and is recognised as its agent's, `passthrough`'s as OCR's
  (`Recognised`); `MergeInv` says of each agent that it is merged exactly when
  its position has been looked at, so the order does not matter.
- `TypeCorrect` follows from the same invariant.

### Content, for results of any length and any text (`ContentProofs`)

- `TextWhole`: `Spec => []TextIsWhole`. `FoldInv` says that the lines read so far
  are those of the blocks folded so far, by an order-preserving map from the
  lines to the places of their blocks; folding a block extends the map
  (`ListGrows`, `TextFolds`) or leaves it, and a new response only moves on.
- `GridsRight`: `Spec => []GridsMatch`, for tables of any size. `FoldInv` says the
  same of the tables read (`TablesFold`), and of the blocks kept by id that each
  is the last folded with its id (`NamesFold`); when the extraction is made all
  blocks are folded (`AllFolded`), so a name leads to the last block of the whole
  result (`NamesRight`). What `BuildTable` makes of a table is `TableBuilt`: the
  size is the greatest end of a span (`GreatestNumber`), and the loop over the
  cells leaves at each position the last cell that begins there (`PlaceOne`,
  `GridFilled`). The words of a cell are what its children show, in order
  (`InOrderType`, `CellRight`). These need induction over the number of cells and
  of children, which is done by the least counterexample: `LeastNumber`, that a
  set of numbers has a least one, follows from the library's theorem that strict
  inclusion of finite sets is well-founded, and needs no theorem with an operator
  parameter.
- `GraphAgreesWithPlain`: `Spec => []GraphMatchesPlain`. The two copies of the
  signals are compared entry by entry (`CopiesAgree`). After n rounds the plain
  compliance agent has the first n matching rules and a count of n (`Checked`),
  so it ends with what the graph's node assigns at once; and what an agent
  judges does not change once it has started, since its pipeline's extraction
  was made before (`AgentInv`).
- `RiskFlagged`: `Spec => []RiskIsFlagged`, by `RiskIsReason`: the alternatives of
  a rule of high severity are all among those of one signal.
- `TypeCorrect`: the fold, both agents and the score's bound.

### The other components

- `StatusRead`: `TypeCorrect`, `RealOutcome`, `WholeReply`. The inductive `ReadInv`
  says, line by line of `get_status`, that what was drafted so far is what one
  record tells: the first finished one that any line saw, which the client keeps
  for the lines after it (`OneRecord`).
- `Textract`: `PagesInOrder`, `WholeResult` (pages once and in order, by the
  number of the page to ask for next), `JobsApart` and `OneDocument`: an object
  under a key was staged by a document with that id, a job reads its object once,
  and so a task's text is of one document, its own unless another was staged under
  the same id. Nothing is assumed of the ids.
- `OcrWorker`: `ProcessesApart` (`HoldsOwn`: what a process holds while it works
  are the words of the pages before the one it is at; what it keeps is ready),
  from which `WholeExtraction`, `FailFast` and `SoundSucceed` follow, with what
  `OcrWorkerProofs` says of the cause of each failure and of finished results.

### Only model-checked

Liveness (`ReadyUnlessHeadFails`, `FaultlessSucceeds`, both `EveryTaskEnds`) and the
fairness half of `ImplementsContract`, which is out of the prover's reach. Every
invariant that a passing run checks has a theorem.

## 5. Plan

Written so far, in this order: `Dispatch`, `Canvas`, `Workflow`, `Contract`,
`StatusRead`, the first proofs, `Textract`, `Sources`, `OcrWorker`, `TableGrid`,
`AgentRules`, `Content`, the proofs of `StatusRead`, `Textract` and `OcrWorker`,
`CalmProofs`, the crash half of `WorkflowProofs`, `CanvasProofs`, `ContentProofs`.
Next:

1. `Contract` with crashes: which weaker contract the workflow keeps when
   processes die: which answers can still change, and which texts be merged.
2. Expiry of a chord's results within `Workflow`, composed with `StatusRead`.

### Not modelled

`GET /health` is a ping. The replay guard is a function of a header that
nothing in the application sets or reads. Configuration and secrets are read
once at start, and where a protocol depends on a value it is a constant here.
The Dockerfile and log messages keep no state.
