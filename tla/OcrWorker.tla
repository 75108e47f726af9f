----------------------------- MODULE OcrWorker -----------------------------
(***************************************************************************)
(* The pool that runs OCR tasks, on the stub or the Tesseract backend: the *)
(* backend each worker process builds once and keeps (app/ocr/registry.py),*)
(* the reading, rasterising and recognising of a document page by page     *)
(* (app/ocr/tesseract.py), and what becomes of the task and of the process *)
(* when any of that fails, hangs or kills the process.                     *)
(*                                                                         *)
(* A process stores a task's end and acknowledges its message in one step; *)
(* Workflow models what can happen in between.                             *)
(***************************************************************************)
EXTENDS Sources, Naturals, Sequences

CONSTANTS
  Processes,        \* worker processes of the pool
  Documents,        \* the OCR tasks
  Faulty,           \* documents that make the code they go through fail or hang
  None,             \* no document
  MaxPages,         \* bound on the pages of a document
  MaxRetries,       \* task_max_retries
  MaxKills,         \* bound on the processes killed in a behaviour
  TasksPerChild     \* worker_max_tasks_per_child

ASSUME DocumentsAssumption == Faulty \subseteq Documents /\ None \notin Documents
ASSUME BoundsAssumption ==
  /\ MaxPages \in Nat \ {0} /\ TasksPerChild \in Nat \ {0}
  /\ MaxRetries \in Nat /\ MaxKills \in Nat

VARIABLES
  image,    \* the deployed image: the backend's name and what it lacks
  source,   \* each document's format, scheme, pages and blank pages
  queue,    \* tasks waiting on the broker
  worker,   \* the worker processes
  retries,  \* of each task
  outcome,  \* how each task ended
  kills     \* processes killed so far

given == <<image, source>>

vars == <<image, source, queue, worker, retries, outcome, kills>>

\* A value of OCR_BACKEND; "unknown" is none of the registered names.
Name == {"stub", "tesseract", "unknown"}

\* pytesseract with its binary and Pillow, the data of tesseract_lang,
\* pdf2image with poppler, boto3, and credentials for S3.
Dependency == {"tesseract", "language", "pdf2image", "boto3", "credentials"}

\* No word is found on a blank page.  Only a PDF makes several images.
Source ==
  {s \in [format : {"pdf", "tiff", "image"}, scheme : Scheme,
          pages : 1..MaxPages, blank : SUBSET (1..MaxPages)] :
     s.blank \subseteq 1..s.pages /\ (s.pages > 1 => s.format = "pdf")}

Step == {"idle", "backend", "read", "rasterise", "recognise"}

\* A new process.  doc, page and texts are the running task's: its document,
\* the pages recognised so far and those of them that have a text.  kept says
\* that the process has built its backend, ran how many tasks it has run.
Fresh == [step |-> "idle", doc |-> None, page |-> 0, texts |-> <<>>, kept |-> FALSE, ran |-> 0]

Pending == [end |-> "pending", pages |-> 0, texts |-> <<>>]

Init ==
  /\ image \in [name : Name, lacks : SUBSET Dependency]
  /\ source \in [Documents -> Source]
  /\ queue = Documents
  /\ worker = [p \in Processes |-> Fresh]
  /\ retries = [d \in Documents |-> 0]
  /\ outcome = [d \in Documents |-> Pending]
  /\ kills = 0

-----------------------------------------------------------------------------

At(p, step) == worker[p].step = step

Doc(p) == worker[p].doc

Paged(d) == source[d].format \in {"pdf", "tiff"}

\* Fault: the backend kept by the process still holds the texts of a document.
AfterWithTexts(w) ==
  IF w.ran + 1 >= TasksPerChild THEN Fresh
  ELSE [w EXCEPT !.step = "idle", !.doc = None, !.page = 0, !.ran = @ + 1]

\* The process after a task: it is replaced when it has run enough of them.
After(w) ==
  IF w.ran + 1 >= TasksPerChild THEN Fresh
  ELSE [Fresh EXCEPT !.kept = w.kept, !.ran = w.ran + 1]

Finish(p, o) ==
  /\ outcome' = [outcome EXCEPT ![Doc(p)] = o]
  /\ UNCHANGED <<queue, retries>>

\* Fault: one retry too many.
RaiseOnceMore(p, class) ==
  IF class = "transient" /\ retries[Doc(p)] <= MaxRetries
  THEN /\ retries' = [retries EXCEPT ![Doc(p)] = @ + 1]
       /\ queue' = queue \cup {Doc(p)}
       /\ UNCHANGED outcome
  ELSE Finish(p, [Pending EXCEPT !.end = class])

\* A transient failure is retried while the budget lasts; anything else, and
\* the last attempt, fails the task.
Raise(p, class) ==
  IF class = "transient" /\ retries[Doc(p)] < MaxRetries
  THEN /\ retries' = [retries EXCEPT ![Doc(p)] = @ + 1]
       /\ queue' = queue \cup {Doc(p)}
       /\ UNCHANGED outcome
  ELSE Finish(p, [Pending EXCEPT !.end = class])

\* A task ends, one way or the other, and leaves its process free.
Fail(p, class) == Raise(p, class) /\ worker' = [worker EXCEPT ![p] = After(@)]

Go(p, step) ==
  /\ worker' = [worker EXCEPT ![p].step = step]
  /\ UNCHANGED <<queue, retries, outcome>>

Take(p) ==
  /\ At(p, "idle")
  /\ \E d \in queue :
       /\ queue' = queue \ {d}
       /\ worker' = [worker EXCEPT ![p].step = "backend", ![p].doc = d]
  /\ UNCHANGED <<retries, outcome>>

\* What check_ready looks at: not the language data, nor pdf2image.
Ready ==
  \/ image.name = "stub"
  \/ image.name = "tesseract" /\ "tesseract" \notin image.lacks

\* Fault: the backend is kept before it was found ready.
GetBackendUnready(p) ==
  /\ At(p, "backend")
  /\ \/ /\ worker[p].kept \/ Ready
        /\ worker' = [worker EXCEPT ![p].step = "read", ![p].kept = TRUE]
        /\ UNCHANGED <<queue, retries, outcome>>
     \/ ~worker[p].kept /\ image.name = "unknown" /\ Fail(p, "agent")
     \/ /\ ~worker[p].kept /\ image.name = "tesseract" /\ ~Ready
        /\ Raise(p, "configuration")
        /\ worker' = [worker EXCEPT ![p] = [After(@) EXCEPT !.kept = TRUE]]

\* get_ocr_backend: what was built is kept by the process; a failure is not.
GetBackend(p) ==
  /\ At(p, "backend")
  /\ \/ /\ worker[p].kept \/ Ready
        /\ worker' = [worker EXCEPT ![p].step = "read", ![p].kept = TRUE]
        /\ UNCHANGED <<queue, retries, outcome>>
     \/ ~worker[p].kept /\ image.name = "unknown" /\ Fail(p, "agent")
     \/ ~worker[p].kept /\ image.name = "tesseract" /\ ~Ready /\ Fail(p, "configuration")

\* extract_text asks for the document's scheme, to log it, before it hands it
\* to any backend.
LogScheme(p) ==
  /\ At(p, "read")
  /\ source[Doc(p)].scheme = "unparsable"
  /\ Fail(p, RaiseForSource("unparsable uri"))

\* The stub reads nothing and never fails.
ExtractNothing(p) ==
  /\ At(p, "read")
  /\ source[Doc(p)].scheme # "unparsable"
  /\ image.name = "stub"
  /\ Finish(p, [Pending EXCEPT !.end = "done"])
  /\ worker' = [worker EXCEPT ![p] = After(@)]

NoBoto3(d) == source[d].scheme = "s3" /\ "boto3" \in image.lacks

NoCredentials(d) == source[d].scheme = "s3" /\ "credentials" \in image.lacks

\* There is a loader for the document that gets as far as asking for it.
Fetchable(d) == source[d].scheme \in Supported /\ ~NoBoto3(d)

\* A malformed s3 uri is found before boto3 is imported.
Read(p) ==
  /\ At(p, "read")
  /\ image.name # "stub"
  /\ LET d == Doc(p)
     IN \/ Fetchable(d) /\ ~NoCredentials(d) /\ Go(p, "rasterise")
        \/ source[d].scheme = "other" /\ Fail(p, RaiseForSource("unsupported scheme"))
        \/ NoBoto3(d) /\ Fail(p, RaiseForSource("no boto3"))
        \/ Fetchable(d) /\ NoCredentials(d) /\ Fail(p, RaiseForSource("NoCredentialsError"))
        \/ d \in Faulty /\ NoBoto3(d) /\ Fail(p, RaiseForSource("malformed uri"))
        \/ d \in Faulty /\ Fetchable(d)
             /\ \E class \in SourceErrors(source[d].scheme) : Fail(p, class)

\* One image per page of a PDF, or the one image.  A TIFF is paged, so it is
\* handed to poppler, which reads PDF only.  Pillow and poppler also give up
\* in ways that _to_images does not name.
Rasterise(p) ==
  /\ At(p, "rasterise")
  /\ LET noLibrary == Paged(Doc(p)) /\ "pdf2image" \in image.lacks
         notPdf == source[Doc(p)].format = "tiff"
     IN \/ ~noLibrary /\ ~notPdf /\ Go(p, "recognise")
        \/ noLibrary /\ Fail(p, "configuration")
        \/ ~noLibrary /\ notPdf /\ Fail(p, "agent")
        \/ ~noLibrary /\ Doc(p) \in Faulty /\ \E class \in {"agent", "uncaught"} : Fail(p, class)

Extraction(d, texts) == [end |-> "done", pages |-> source[d].pages, texts |-> texts]

\* One page.  The text of a blank one is empty, which the joined text leaves
\* out.  Every error tesseract reports is a RuntimeError, as its timeout is:
\* missing language data too.  An image is decoded here, and what Pillow
\* raises then is no RuntimeError.
Recognise(p) ==
  /\ At(p, "recognise")
  /\ LET d == Doc(p)
         n == worker[p].page + 1
         texts == IF n \in source[d].blank THEN worker[p].texts ELSE Append(worker[p].texts, n)
     IN \/ /\ "language" \notin image.lacks
           /\ n < source[d].pages
           /\ worker' = [worker EXCEPT ![p].page = n, ![p].texts = texts]
           /\ UNCHANGED <<queue, retries, outcome>>
        \/ /\ "language" \notin image.lacks
           /\ n >= source[d].pages
           /\ Finish(p, Extraction(d, texts))
           /\ worker' = [worker EXCEPT ![p] = After(@)]
        \/ "language" \in image.lacks /\ Fail(p, "transient")
        \/ d \in Faulty /\ \E class \in {"transient", "uncaught"} : Fail(p, class)

\* The soft limit raises an exception in the task.
SoftTimeLimit(p) ==
  /\ ~At(p, "idle")
  /\ Doc(p) \in Faulty
  /\ Fail(p, "soft limit")

\* A task that does not react to it fails with its process, which is replaced.
HardTimeLimit(p) ==
  /\ ~At(p, "idle")
  /\ Doc(p) \in Faulty
  /\ Raise(p, "hard limit")
  /\ worker' = [worker EXCEPT ![p] = Fresh]

\* Faults: the message was acknowledged when it was taken; the loss of a
\* process fails its task.
KillLosesTask(p) ==
  /\ ~At(p, "idle")
  /\ kills < MaxKills
  /\ kills' = kills + 1
  /\ worker' = [worker EXCEPT ![p] = Fresh]
  /\ UNCHANGED <<queue, retries, outcome>>

KillFailsTask(p) ==
  /\ ~At(p, "idle")
  /\ kills < MaxKills
  /\ kills' = kills + 1
  /\ Finish(p, [Pending EXCEPT !.end = "uncaught"])
  /\ worker' = [worker EXCEPT ![p] = Fresh]

\* A process is killed from outside: its task goes back to the queue.
Kill(p) ==
  /\ ~At(p, "idle")
  /\ kills < MaxKills
  /\ kills' = kills + 1
  /\ queue' = queue \cup {Doc(p)}
  /\ worker' = [worker EXCEPT ![p] = Fresh]
  /\ UNCHANGED <<retries, outcome>>

Work(p) ==
  /\ Take(p) \/ GetBackend(p) \/ LogScheme(p) \/ ExtractNothing(p) \/ Read(p) \/ Rasterise(p) \/ Recognise(p)
       \/ SoftTimeLimit(p) \/ HardTimeLimit(p)
  /\ UNCHANGED <<given, kills>>

Next == \E p \in Processes : Work(p) \/ (Kill(p) /\ UNCHANGED given)

Spec == Init /\ [][Next]_vars /\ \A p \in Processes : WF_vars(Work(p))

-----------------------------------------------------------------------------

End == ErrorClass \cup {"pending", "done", "soft limit", "hard limit"}

Outcome == [end : End, pages : 0..MaxPages, texts : Seq(1..MaxPages)]

TypeOK ==
  /\ image \in [name : Name, lacks : SUBSET Dependency]
  /\ source \in [Documents -> Source]
  /\ queue \subseteq Documents
  /\ worker \in [Processes -> [step : Step, doc : Documents \cup {None}, page : 0..MaxPages,
                               texts : Seq(1..MaxPages), kept : BOOLEAN,
                               ran : 0..(TasksPerChild - 1)]]
  /\ retries \in [Documents -> 0..MaxRetries]
  /\ outcome \in [Documents -> Outcome]
  /\ kills \in 0..MaxKills

Ended(d) == outcome[d].end # "pending"

\* The first n pages of a document, but for the blank ones, in order.
AreWordsTo(texts, d, n) ==
  /\ {texts[i] : i \in DOMAIN texts} = (1..n) \ source[d].blank
  /\ \A i, j \in DOMAIN texts : i < j => texts[i] < texts[j]

\* What a document's result holds is every page of it that has words, in
\* order, and no page of an attempt that failed or of another document that
\* the same process and backend handled before (TesseractBackend.extract on
\* an instance that get_ocr_backend shares).
ExtractionIsWhole ==
  \A d \in Documents : outcome[d].end = "done" /\ image.name = "tesseract" =>
    /\ outcome[d].pages = source[d].pages
    /\ AreWordsTo(outcome[d].texts, d, source[d].pages)

\* What may cost a document retries: a fault of its own, that is to say of its
\* source or its pages, or one of the two missing things that are taken for a
\* passing failure (errors.py has missing credentials fail at once).
MayRetry(d) == d \in Faulty \/ "language" \in image.lacks \/ NoCredentials(d)

\* A backend that check_ready turns down, one of an unknown name, and a uri
\* that nothing can fetch, for want of boto3 too, never cost a retry, whatever
\* else is wrong with the document and however many its process has had before
\* (errors.py: BackendConfigurationError, AgentError; ocr-backends.md: "fails
\* fast instead of burning the retry budget").  A sound document costs one only
\* where the image lacks language data, or credentials for its s3 source,
\* which are retried like a timeout: a TIFF, or a PDF without pdf2image, never
\* does.
FailsFast ==
  \A d \in Documents :
    /\ retries[d] > 0 => image.name = "tesseract" /\ Ready /\ Fetchable(d) /\ MayRetry(d)
    /\ ~Ready /\ Ended(d) /\ d \notin Faulty =>
         outcome[d].end = IF image.name = "unknown" THEN "agent" ELSE "configuration"

\* All that a document needs is there.
Serviceable(d) ==
  \/ image.name = "stub" /\ source[d].scheme # "unparsable"
  \/ /\ image.name = "tesseract" /\ Ready
     /\ "language" \notin image.lacks
     /\ Fetchable(d) /\ ~NoCredentials(d)
     /\ source[d].format # "tiff" /\ (source[d].format = "pdf" => "pdf2image" \notin image.lacks)

\* Documents that hang, fail and kill their process do no harm to another one
\* that its process, or the process that replaces it, takes (acks_late,
\* reject_on_worker_lost, max_tasks_per_child of celery_app.py).
SoundDocumentsSucceed ==
  \A d \in Documents \ Faulty : Serviceable(d) => outcome[d].end \in {"pending", "done"}

\* Behind these: what a process holds is of its document and of this attempt
\* alone, and it keeps and uses only a backend that was found ready.
Holds(w) ==
  /\ w.step # "idle" => w.doc \in Documents
  /\ w.step # "recognise" => w.page = 0 /\ w.texts = <<>>
  /\ w.step = "recognise" => w.page < source[w.doc].pages /\ AreWordsTo(w.texts, w.doc, w.page)
  /\ w.kept \/ w.step \notin {"idle", "backend"} => Ready
  /\ w.step \in {"rasterise", "recognise"} => image.name = "tesseract" /\ Fetchable(w.doc)

HoldsOwn == \A p \in Processes : Holds(worker[p])

\* Every OCR task ends, with its process killed a number of times, replaced,
\* or stopped by a time limit (celery_app.py:45-58).
EveryTaskEnds == \A d \in Documents : <>Ended(d)
=============================================================================
