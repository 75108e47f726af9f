------------------------------ MODULE Textract ------------------------------
(***************************************************************************)
(* OCR tasks on the Textract backend (app/ocr/textract.py), one process    *)
(* per document: staging in S3, the asynchronous job, its polling and the  *)
(* pagination of its result, the retry of a transient failure              *)
(* (app/tasks/base.py) and Celery's soft time limit.                       *)
(*                                                                         *)
(* S3 and Textract are external: a job reads the object it was started on  *)
(* at some time after its start, and ends, or not, whenever it likes.      *)
(* Time is counted per attempt; a step takes a while from a given set.     *)
(***************************************************************************)
EXTENDS Sources, Naturals, Sequences

CONSTANTS
  Documents,      \* the OCR tasks
  DocumentIds,    \* the document_ids callers choose from, two of them the same at times
  None,           \* no content
  MaxPages,       \* bound on the pages of a job's result
  MaxRetries,     \* task_max_retries
  MaxPoll,        \* textract_max_poll_s
  PollInterval,   \* textract_poll_interval_s
  SoftLimit,      \* task_soft_time_limit_s
  PutTimes,       \* how long fetching and staging a document may take
  CallTimes       \* how long a call of Textract may take

ASSUME DocumentsAssumption == None \notin Documents
ASSUME LimitsAssumption ==
  /\ {MaxRetries, MaxPoll, SoftLimit} \cup PutTimes \cup CallTimes \subseteq Nat
  /\ MaxPages \in Nat \ {0} /\ PollInterval \in Nat \ {0}

RetryableCodes == {"ThrottlingException", "ProvisionedThroughputExceededException",
                   "LimitExceededException", "InternalServerError", "ServiceUnavailable",
                   "RequestTimeout"}
ConfigCodes == {"AccessDeniedException", "UnrecognizedClientException",
                "InvalidSignatureException", "ExpiredTokenException", "InvalidClientTokenId"}

\* What a call can fail with: an error code of AWS, no credentials, or a
\* failure of the transport.
Failures == RetryableCodes \cup ConfigCodes
              \cup {"BadDocumentException", "NoCredentialsError", "BotoCoreError"}

RaiseFor(failure) ==
  IF failure \in RetryableCodes \cup {"BotoCoreError"} THEN "transient"
  ELSE IF failure \in ConfigCodes \cup {"NoCredentialsError"} THEN "configuration"
  ELSE "agent"

\* A document that is not in S3 is fetched from anywhere else.
FetchErrors == UNION {SourceErrors(scheme) : scheme \in Scheme \ {"s3", "unparsable"}}

\* put_object's failures go the same way but for missing credentials, which
\* are a BotoCoreError there.
RaiseForPut(failure) == IF failure = "NoCredentialsError" THEN "transient" ELSE RaiseFor(failure)

VARIABLES
  source,    \* each document's id, whether it is a PDF or TIFF, and its uri an s3:// one
  bucket,    \* whether textract_staging_bucket is set
  pc,        \* where each task is
  clock,     \* time since its attempt started
  deadline,  \* of its polling
  retries,   \* retries so far
  raised,    \* what its last attempt failed with
  object,    \* the S3 object staged under each key
  job,       \* the attempt's job at Textract
  got        \* the responses collected, each a page of the job's result

given == <<source, bucket>>

vars == <<source, bucket, pc, clock, deadline, retries, raised, object, job, got>>

Source == [id : DocumentIds, paged : BOOLEAN, s3 : BOOLEAN]

Page == [text : Documents \cup {None}, number : 1..MaxPages, next : BOOLEAN]

JobStatus == {"IN_PROGRESS", "SUCCEEDED", "PARTIAL_SUCCESS", "FAILED", "other"}

NoJob == [status |-> "FAILED", text |-> None, pages |-> 1]

Running == {"stage", "start", "poll", "pages", "sync"}
Ended == {"done", "failed"}

Init ==
  /\ source \in [Documents -> Source]
  /\ bucket \in BOOLEAN
  /\ pc = [d \in Documents |-> "queued"]
  /\ clock = [d \in Documents |-> 0]
  /\ deadline = [d \in Documents |-> 0]
  /\ retries = [d \in Documents |-> 0]
  /\ raised = [d \in Documents |-> "none"]
  /\ object = [k \in DocumentIds |-> None]
  /\ job = [d \in Documents |-> NoJob]
  /\ got = [d \in Documents |-> <<>>]

-----------------------------------------------------------------------------

Go(d, label) == pc' = [pc EXCEPT ![d] = label]

\* A step that takes time t, and that the soft limit does not cut short.
InTime(d, t) == clock[d] + t < SoftLimit

Spend(d, t) == InTime(d, t) /\ clock' = [clock EXCEPT ![d] = @ + t]

\* What an attempt knows is lost with it, its job at Textract too.
Forget(d) ==
  /\ clock' = [clock EXCEPT ![d] = 0]
  /\ deadline' = [deadline EXCEPT ![d] = 0]
  /\ job' = [job EXCEPT ![d] = NoJob]
  /\ got' = [got EXCEPT ![d] = <<>>]

\* Faults: a retry beyond the budget, and retries that are not counted.
RaiseOnceMore(d, class) ==
  /\ raised' = [raised EXCEPT ![d] = class]
  /\ IF class = "transient" /\ retries[d] <= MaxRetries
     THEN Go(d, "queued") /\ retries' = [retries EXCEPT ![d] = @ + 1]
     ELSE Go(d, "failed") /\ UNCHANGED retries
  /\ Forget(d)

RaiseUncounted(d, class) ==
  /\ raised' = [raised EXCEPT ![d] = class]
  /\ Go(d, IF class = "transient" THEN "queued" ELSE "failed")
  /\ UNCHANGED retries
  /\ Forget(d)

\* A transient failure is retried while the budget lasts; anything else, and
\* the last attempt, fails the task.
Raise(d, class) ==
  /\ raised' = [raised EXCEPT ![d] = class]
  /\ IF class = "transient" /\ retries[d] < MaxRetries
     THEN Go(d, "queued") /\ retries' = [retries EXCEPT ![d] = @ + 1]
     ELSE Go(d, "failed") /\ UNCHANGED retries
  /\ Forget(d)

\* Fault: every document is staged under the same key.
KeyShared(d) == CHOOSE k \in DOMAIN object : TRUE

\* The key a document is staged under: the prefix and its document_id.
Key(d) == source[d].id

\* Documents that are uploaded before their job starts.
Staged(d) == source[d].paged /\ ~source[d].s3 /\ bucket

\* A worker takes the task, for the first time or again: extract chooses the
\* path.  An s3:// uri without a bucket or a key fails on either, and a uri
\* that urlparse refuses before, when extract_text logs its scheme.
Extract(d) ==
  /\ pc[d] = "queued"
  /\ \/ /\ \/ ~source[d].paged /\ Go(d, "sync")
           \/ source[d].paged /\ source[d].s3 /\ Go(d, "start")
           \/ Staged(d) /\ Go(d, "stage")
        /\ UNCHANGED <<clock, deadline, retries, raised, job, got>>
     \/ source[d].paged /\ ~source[d].s3 /\ ~bucket /\ Raise(d, "agent")
     \/ source[d].s3 /\ Raise(d, RaiseForSource("malformed uri"))
     \/ ~source[d].s3 /\ Raise(d, RaiseForSource("unparsable uri"))
  /\ UNCHANGED object

\* Fetch the document and upload it.
EnsureInS3(d) ==
  /\ pc[d] = "stage"
  /\ \E t \in PutTimes :
       \/ /\ Spend(d, t)
          /\ object' = [object EXCEPT ![Key(d)] = d]
          /\ Go(d, "start")
          /\ UNCHANGED <<deadline, retries, raised, job, got>>
       \/ /\ InTime(d, t)
          /\ \/ \E class \in FetchErrors : Raise(d, class)
             \/ \E f \in Failures : Raise(d, RaiseForPut(f))
          /\ UNCHANGED object

\* _call: whatever call it is, it may fail.
CallFails(d) == \E f \in Failures : Raise(d, RaiseFor(f))

StartJob(d) ==
  /\ pc[d] = "start"
  /\ \E t \in CallTimes :
       \/ /\ Spend(d, t)
          /\ \E n \in 1..MaxPages :
               job' = [job EXCEPT ![d] = [status |-> "IN_PROGRESS", text |-> None, pages |-> n]]
          /\ deadline' = [deadline EXCEPT ![d] = clock[d] + t + MaxPoll]
          /\ Go(d, "poll")
          /\ UNCHANGED <<retries, raised, got>>
       \/ InTime(d, t) /\ CallFails(d)
  /\ UNCHANGED object

\* A page of the job's result, and whether a NextToken comes with it.
PageOf(j, n) == [text |-> j.text, number |-> n, next |-> n < j.pages]

\* A job still in progress is waited for until the deadline, which is looked
\* at after each poll.
Overdue(d, now) == now >= deadline[d]

AwaitJob(d) ==
  /\ pc[d] = "poll"
  /\ \E t \in CallTimes :
       \/ /\ Spend(d, t)
          /\ job[d].status \in {"SUCCEEDED", "PARTIAL_SUCCESS"}
          /\ got' = [got EXCEPT ![d] = <<PageOf(job[d], 1)>>]
          /\ Go(d, "pages")
          /\ UNCHANGED <<deadline, retries, raised, job>>
       \/ /\ InTime(d, t)
          /\ \/ job[d].status \in {"FAILED", "other"} /\ Raise(d, "agent")
             \/ job[d].status = "IN_PROGRESS" /\ Overdue(d, clock[d] + t) /\ Raise(d, "transient")
             \/ CallFails(d)
       \/ /\ job[d].status = "IN_PROGRESS"
          /\ ~Overdue(d, clock[d] + t)
          /\ Spend(d, t + PollInterval)
          /\ UNCHANGED <<pc, deadline, retries, raised, job, got>>
  /\ UNCHANGED object

\* Fault: the first page of a result is taken for all of it.
MoreIgnored(d) == FALSE

\* Follow NextToken while there is one.
More(d) == got[d][Len(got[d])].next

CollectPages(d) ==
  /\ pc[d] = "pages"
  /\ \/ /\ More(d)
        /\ \E t \in CallTimes :
             \/ /\ Spend(d, t)
                /\ got' = [got EXCEPT ![d] = Append(@, PageOf(job[d], Len(@) + 1))]
                /\ UNCHANGED <<pc, deadline, retries, raised, job>>
             \/ InTime(d, t) /\ CallFails(d)
     \/ ~More(d) /\ Go(d, "done") /\ UNCHANGED <<clock, deadline, retries, raised, job, got>>
  /\ UNCHANGED object

\* A single image, read by Textract from S3 or sent along: one call.
ExtractSync(d) ==
  /\ pc[d] = "sync"
  /\ \E t \in IF source[d].s3 THEN CallTimes ELSE PutTimes :
       \/ /\ Spend(d, t)
          /\ got' = [got EXCEPT ![d] = <<[text |-> d, number |-> 1, next |-> FALSE]>>]
          /\ Go(d, "done")
          /\ UNCHANGED <<deadline, retries, raised, job>>
       \/ /\ InTime(d, t)
          /\ (~source[d].s3 /\ \E class \in FetchErrors : Raise(d, class)) \/ CallFails(d)
  /\ UNCHANGED object

\* How long the step a task is at may take.
StepTimes(d) ==
  CASE pc[d] = "stage" -> PutTimes
    [] pc[d] = "sync"  -> IF source[d].s3 THEN CallTimes ELSE PutTimes
    [] pc[d] = "poll"  -> CallTimes \cup {t + PollInterval : t \in CallTimes}
    [] OTHER           -> CallTimes

\* The soft limit interrupts a step that takes too long.
SoftTimeLimit(d) ==
  /\ pc[d] \in Running
  /\ \E t \in StepTimes(d) :
       /\ clock[d] + t >= SoftLimit
       /\ pc[d] = "poll" /\ t \notin CallTimes =>
            job[d].status = "IN_PROGRESS" /\ ~Overdue(d, clock[d] + t - PollInterval)
       /\ pc[d] = "pages" => More(d)
  /\ Raise(d, "soft limit")
  /\ UNCHANGED object

-----------------------------------------------------------------------------
(* Textract's side of a job.                                               *)

JobReads(d) ==
  /\ job[d].status = "IN_PROGRESS"
  /\ job[d].text = None
  /\ job' = [job EXCEPT ![d].text = IF source[d].s3 THEN d ELSE object[Key(d)]]
  /\ UNCHANGED <<pc, clock, deadline, retries, raised, object, got>>

JobEnds(d) ==
  /\ job[d].status = "IN_PROGRESS"
  /\ \E status \in JobStatus \ {"IN_PROGRESS"} :
       /\ status \in {"SUCCEEDED", "PARTIAL_SUCCESS"} => job[d].text # None
       /\ job' = [job EXCEPT ![d].status = status]
  /\ UNCHANGED <<pc, clock, deadline, retries, raised, object, got>>

Task(d) ==
  /\ Extract(d) \/ EnsureInS3(d) \/ StartJob(d) \/ AwaitJob(d) \/ CollectPages(d)
       \/ ExtractSync(d) \/ SoftTimeLimit(d)
  /\ UNCHANGED given

Next == \E d \in Documents : Task(d) \/ ((JobReads(d) \/ JobEnds(d)) /\ UNCHANGED given)

\* A worker goes on with its task; Textract need not ever end a job.
Spec == Init /\ [][Next]_vars /\ \A d \in Documents : WF_vars(Task(d))

-----------------------------------------------------------------------------

TypeOK ==
  /\ source \in [Documents -> Source] /\ bucket \in BOOLEAN
  /\ pc \in [Documents -> Running \cup Ended \cup {"queued"}]
  /\ clock \in [Documents -> 0..SoftLimit]
  /\ deadline \in [Documents -> 0..(SoftLimit + MaxPoll)]
  /\ retries \in [Documents -> 0..MaxRetries]
  /\ raised \in [Documents -> ErrorClass \cup {"soft limit", "none"}]
  /\ object \in [DocumentIds -> Documents \cup {None}]
  /\ job \in [Documents -> [status : JobStatus, text : Documents \cup {None}, pages : 1..MaxPages]]
  /\ got \in [Documents -> Seq(Page)] /\ \A d \in Documents : Len(got[d]) <= MaxPages

\* Another document's upload is read where both are staged and their callers
\* chose the same document_id: the later upload replaces the earlier one, also
\* while a job is still to read it.
MayRead(d, e) == e = d \/ (Staged(d) /\ Staged(e) /\ source[d].id = source[e].id)

\* What OCR returns is the text of one document, never pages of two, whatever
\* is staged while the job reads its object (_ensure_in_s3) or a retry starts
\* another job.  It is the task's own document, unless both were staged under
\* the same key: an image and an s3 source never get another's text.
ResultOfOneDocument ==
  \A d \in Documents : pc[d] = "done" =>
    \E e \in Documents : MayRead(d, e) /\ \A i \in DOMAIN got[d] : got[d][i].text = e

\* The result is all of the job's, in order, each page once (_collect_pages).
ResultIsWhole ==
  \A d \in Documents : pc[d] = "done" =>
    [i \in DOMAIN got[d] |-> got[d][i].number] =
      [i \in 1..(IF source[d].paged THEN job[d].pages ELSE 1) |-> i]

\* Behind ResultIsWhole: what a task has collected is the front of the result
\* of a job that no longer changes, and all of it when the task is done.
Collected(d) ==
  /\ pc[d] \in {"stage", "start", "poll", "pages"} => source[d].paged
  /\ pc[d] = "sync" => ~source[d].paged
  /\ pc[d] = "pages" \/ (pc[d] = "done" /\ source[d].paged) =>
       /\ job[d].status \in {"SUCCEEDED", "PARTIAL_SUCCESS"}
       /\ Len(got[d]) \in 1..job[d].pages
       /\ \A i \in 1..Len(got[d]) : got[d][i] = PageOf(job[d], i)
  /\ pc[d] = "done" => IF source[d].paged THEN Len(got[d]) = job[d].pages
                       ELSE got[d] = <<[text |-> d, number |-> 1, next |-> FALSE]>>

CollectedInOrder == \A d \in Documents : Collected(d)

\* Behind ResultOfOneDocument: what is found under a key is a document staged
\* with that id, and jobs read no other.
KeysApart ==
  /\ \A k \in DocumentIds : object[k] # None => Staged(object[k]) /\ source[object[k]].id = k
  /\ \A d \in Documents :
       /\ pc[d] = "stage" => Staged(d)
       /\ pc[d] = "start" \/ job[d].status = "IN_PROGRESS" => source[d].s3 \/ Staged(d)
       /\ job[d].text # None => MayRead(d, job[d].text)
       /\ job[d].status \in {"SUCCEEDED", "PARTIAL_SUCCESS"} => job[d].text # None

\* What lies behind both: a task collects the first pages of its job's result
\* in order, and its job reads only what was staged under the task's own id.
JobInv == CollectedInOrder /\ KeysApart

\* A job that takes too long ends in a retry, not in the soft time limit,
\* which fails the task for good: the polling deadline strikes first
\* (textract.py:216-218), also when staging and the calls take their time.
DeadlineFirst ==
  \A d \in Documents : raised[d] # "soft limit"

\* Every OCR task ends, although a job may never do (_await_job).
EveryTaskEnds == \A d \in Documents : <>(pc[d] \in Ended)
=============================================================================
