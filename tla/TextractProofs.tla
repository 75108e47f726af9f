--------------------------- MODULE TextractProofs ---------------------------
(***************************************************************************)
(* Theorems about Textract, for every set of documents, every number of    *)
(* pages and all limits: a task's result is all of one document, its own   *)
(* wherever the ids that callers choose keep documents apart.              *)
(***************************************************************************)
EXTENDS Textract, TLAPS

-----------------------------------------------------------------------------
(* Failures and the errors they are raised as.                             *)

LEMMA SourceErrorsType == \A scheme : SourceErrors(scheme) \subseteq ErrorClass
<1>1. \A fault : RaiseForSource(fault) \in ErrorClass
  BY DEF RaiseForSource, ErrorClass
<1> QED
  BY <1>1 DEF SourceErrors

LEMMA ErrorType ==
  /\ FetchErrors \subseteq ErrorClass
  /\ \A f \in Failures : RaiseFor(f) \in ErrorClass /\ RaiseForPut(f) \in ErrorClass
<1>1. FetchErrors \subseteq ErrorClass
  BY SourceErrorsType DEF FetchErrors
<1>2. \A f : RaiseFor(f) \in ErrorClass
  BY DEF RaiseFor, ErrorClass
<1>3. \A f : RaiseForPut(f) \in ErrorClass
  BY <1>2 DEF RaiseForPut, ErrorClass
<1> QED
  BY <1>1, <1>2, <1>3

LEMMA TimesType ==
  /\ PutTimes \subseteq Nat /\ CallTimes \subseteq Nat
  /\ \A t \in CallTimes : t + PollInterval \in Nat
  /\ MaxPages \in Nat \ {0} /\ SoftLimit \in Nat /\ MaxPoll \in Nat /\ MaxRetries \in Nat
BY LimitsAssumption

\* Where a failed attempt leaves its task.
LEMMA RaiseType ==
  ASSUME TypeOK, NEW d \in Documents, NEW class \in ErrorClass \cup {"soft limit"}, Raise(d, class)
  PROVE  /\ pc' \in [Documents -> Running \cup Ended \cup {"queued"}]
         /\ retries' \in [Documents -> 0..MaxRetries]
         /\ raised' \in [Documents -> ErrorClass \cup {"soft limit", "none"}]
         /\ pc'[d] \in {"queued", "failed"}
         /\ job'[d] = NoJob
         /\ \A e \in Documents : e # d => pc'[e] = pc[e] /\ job'[e] = job[e] /\ got'[e] = got[e]
<1>0. /\ job'[d] = NoJob
      /\ \A e \in Documents : e # d => job'[e] = job[e] /\ got'[e] = got[e]
  BY DEF Raise, Forget, TypeOK
<1>1. CASE class = "transient" /\ retries[d] < MaxRetries
  <2>0. retries \in [Documents -> 0..MaxRetries]
    BY DEF TypeOK
  <2>1. retries[d] + 1 \in 0..MaxRetries
    BY <1>1, <2>0, TimesType
  <2>2. retries' \in [Documents -> 0..MaxRetries]
    BY <1>1, <2>0, <2>1 DEF Raise
  <2> QED
    BY <1>0, <1>1, <2>2 DEF TypeOK, Raise, Go
<1>2. CASE ~(class = "transient" /\ retries[d] < MaxRetries)
  BY <1>0, <1>2 DEF TypeOK, Raise, Go, Ended
<1> QED
  BY <1>1, <1>2

LEMMA NoJobType == NoJob \in [status : JobStatus, text : Documents \cup {None}, pages : 1..MaxPages]
BY TimesType DEF NoJob, JobStatus

LEMMA ZeroType ==
  /\ 0 \in 0..SoftLimit /\ 0 \in 0..(SoftLimit + MaxPoll) /\ 0 \in 0..MaxRetries
  /\ <<>> \in Seq(Page) /\ Len(<<>>) <= MaxPages
BY TimesType

\* A failed attempt keeps the types.
LEMMA RaiseTypeOK ==
  ASSUME TypeOK, NEW d \in Documents, NEW class \in ErrorClass \cup {"soft limit"}, Raise(d, class),
         given' = given, object' = object
  PROVE  TypeOK'
<1>2. /\ clock' \in [Documents -> 0..SoftLimit]
      /\ deadline' \in [Documents -> 0..(SoftLimit + MaxPoll)]
  BY ZeroType DEF Raise, Forget, TypeOK
<1>3. job' \in [Documents -> [status : JobStatus, text : Documents \cup {None}, pages : 1..MaxPages]]
  <2>1. job \in [Documents -> [status : JobStatus, text : Documents \cup {None}, pages : 1..MaxPages]]
    BY DEF TypeOK
  <2> QED
    BY <2>1, NoJobType DEF Raise, Forget
<1>4. got' \in [Documents -> Seq(Page)] /\ \A e \in Documents : Len(got'[e]) <= MaxPages
  <2>1. got \in [Documents -> Seq(Page)] /\ \A e \in Documents : Len(got[e]) <= MaxPages
    BY DEF TypeOK
  <2>2. got' = [got EXCEPT ![d] = <<>>] /\ <<>> \in Seq(Page) /\ Len(<<>>) <= MaxPages
    BY ZeroType DEF Raise, Forget
  <2>3. \A e \in Documents : got'[e] = IF e = d THEN <<>> ELSE got[e]
    BY <2>1, <2>2
  <2> QED
    BY <2>1, <2>2, <2>3
<1> QED
  BY <1>2, <1>3, <1>4, RaiseType DEF TypeOK, given

LEMMA GoType ==
  ASSUME TypeOK, NEW d \in Documents, NEW label \in Running \cup Ended, Go(d, label)
  PROVE  /\ pc' \in [Documents -> Running \cup Ended \cup {"queued"}]
         /\ pc'[d] = label
         /\ \A e \in Documents : e # d => pc'[e] = pc[e]
BY DEF TypeOK, Go

LEMMA SpendType ==
  ASSUME TypeOK, NEW d \in Documents, NEW t \in Nat, Spend(d, t)
  PROVE  clock' \in [Documents -> 0..SoftLimit]
<1>1. clock \in [Documents -> 0..SoftLimit]
  BY DEF TypeOK
<1>2. clock[d] + t \in 0..SoftLimit
  BY <1>1, TimesType DEF Spend, InTime
<1> QED
  BY <1>1, <1>2 DEF Spend

-----------------------------------------------------------------------------
(* Type correctness.  The length of a result is bounded only because pages *)
(* are collected in order until there is no next one.                      *)

LEMMA SingletonType ==
  ASSUME NEW p \in Page
  PROVE  <<p>> \in Seq(Page) /\ Len(<<p>>) = 1 /\ <<p>>[1] = p
OBVIOUS

\* What a step may make of a document's responses.
LEMMA GotType ==
  ASSUME TypeOK, NEW d \in Documents, NEW pages \in Seq(Page), Len(pages) <= MaxPages,
         got' = [got EXCEPT ![d] = pages]
  PROVE  got' \in [Documents -> Seq(Page)] /\ \A e \in Documents : Len(got'[e]) <= MaxPages
<1>1. got \in [Documents -> Seq(Page)] /\ \A e \in Documents : Len(got[e]) <= MaxPages
  BY DEF TypeOK
<1>2. \A e \in Documents : got'[e] = IF e = d THEN pages ELSE got[e]
  BY <1>1
<1> QED
  BY <1>1, <1>2

LEMMA PageType ==
  ASSUME TypeOK, NEW d \in Documents, NEW n \in 1..MaxPages
  PROVE  /\ PageOf(job[d], n) \in Page
         /\ [text |-> d, number |-> 1, next |-> FALSE] \in Page
<1>1. job[d].text \in Documents \cup {None}
  BY DEF TypeOK
<1>2. (n < job[d].pages) \in BOOLEAN /\ 1 \in 1..MaxPages
  BY TimesType
<1> QED
  BY <1>1, <1>2 DEF PageOf, Page

\* While there is a next page, fewer were collected than the job has.
LEMMA MorePages ==
  ASSUME TypeOK, NEW d \in Documents, Collected(d), pc[d] = "pages"
  PROVE  /\ job[d].pages \in 1..MaxPages /\ Len(got[d]) \in 1..job[d].pages
         /\ More(d) <=> Len(got[d]) < job[d].pages
<1>1. job[d].pages \in 1..MaxPages
  BY DEF TypeOK
<1>2. Len(got[d]) \in 1..job[d].pages /\ \A i \in 1..Len(got[d]) : got[d][i] = PageOf(job[d], i)
  BY DEF Collected
<1>3. got[d][Len(got[d])] = PageOf(job[d], Len(got[d]))
  BY <1>1, <1>2
<1>4. More(d) = (Len(got[d]) < job[d].pages)
  BY <1>3 DEF More, PageOf
<1> QED
  BY <1>1, <1>2, <1>4

LEMMA TypeStep == TypeOK /\ CollectedInOrder /\ [Next]_vars => TypeOK'
<1> SUFFICES ASSUME TypeOK, CollectedInOrder, [Next]_vars PROVE TypeOK'
  OBVIOUS
<1> USE TimesType
<1>0. "agent" \in ErrorClass /\ "transient" \in ErrorClass
      /\ \A fault : RaiseForSource(fault) \in ErrorClass
  BY DEF RaiseForSource, ErrorClass
<1>1. ASSUME NEW d \in Documents, Extract(d), given' = given PROVE TypeOK'
  <2>1. CASE UNCHANGED <<clock, deadline, retries, raised, job, got>>
    <3>1. pc' \in [Documents -> Running \cup Ended \cup {"queued"}]
      BY <1>0, <1>1, RaiseType, GoType DEF Extract, Running
    <3> QED
      BY <1>1, <2>1, <3>1 DEF Extract, TypeOK, given
  <2> QED
    BY <1>0, <1>1, <2>1, RaiseTypeOK DEF Extract
<1>2. ASSUME NEW d \in Documents, EnsureInS3(d), given' = given PROVE TypeOK'
  <2>1. ASSUME NEW t \in PutTimes, Spend(d, t), object' = [object EXCEPT ![Key(d)] = d],
               Go(d, "start"), UNCHANGED <<deadline, retries, raised, job, got>>
        PROVE  TypeOK'
    <3>1. clock' \in [Documents -> 0..SoftLimit]
      BY <2>1, SpendType
    <3> QED
      BY <1>2, <2>1, <3>1, GoType DEF TypeOK, given, Running
  <2>2. ASSUME NEW class \in ErrorClass, Raise(d, class), UNCHANGED object PROVE TypeOK'
    BY <1>2, <2>2, RaiseTypeOK
  <2> QED
    BY <1>2, <2>1, <2>2, ErrorType DEF EnsureInS3
<1>3. ASSUME NEW d \in Documents, StartJob(d), given' = given PROVE TypeOK'
  <2>1. ASSUME NEW t \in CallTimes, Spend(d, t), NEW n \in 1..MaxPages,
               job' = [job EXCEPT ![d] = [status |-> "IN_PROGRESS", text |-> None, pages |-> n]],
               deadline' = [deadline EXCEPT ![d] = clock[d] + t + MaxPoll],
               Go(d, "poll"), UNCHANGED <<retries, raised, got>>
        PROVE  TypeOK'
    <3>0. clock' \in [Documents -> 0..SoftLimit] /\ clock[d] + t \in 0..SoftLimit
      <4>1. clock[d] \in 0..SoftLimit
        BY DEF TypeOK
      <4> QED
        BY <2>1, <4>1, SpendType DEF Spend, InTime
    <3>1. clock[d] + t + MaxPoll \in 0..(SoftLimit + MaxPoll)
      BY <3>0
    <3>2. deadline' \in [Documents -> 0..(SoftLimit + MaxPoll)]
      BY <2>1, <3>1 DEF TypeOK
    <3>3. job' \in [Documents -> [status : JobStatus, text : Documents \cup {None}, pages : 1..MaxPages]]
      BY <2>1 DEF TypeOK, JobStatus
    <3> QED
      BY <1>3, <2>1, <3>0, <3>2, <3>3, GoType DEF StartJob, TypeOK, given, Running
  <2>2. CASE CallFails(d)
    BY <1>3, <2>2, ErrorType, RaiseTypeOK DEF StartJob, CallFails
  <2> QED
    BY <1>3, <2>1, <2>2 DEF StartJob
<1>4. ASSUME NEW d \in Documents, AwaitJob(d), given' = given PROVE TypeOK'
  <2>1. ASSUME NEW t \in CallTimes, Spend(d, t), got' = [got EXCEPT ![d] = <<PageOf(job[d], 1)>>],
               Go(d, "pages"), UNCHANGED <<deadline, retries, raised, job>>
        PROVE  TypeOK'
    <3>0. clock' \in [Documents -> 0..SoftLimit]
      BY <2>1, SpendType
    <3>1. <<PageOf(job[d], 1)>> \in Seq(Page) /\ Len(<<PageOf(job[d], 1)>>) = 1
      <4>1. 1 \in 1..MaxPages
        BY TimesType
      <4>2. PageOf(job[d], 1) \in Page
        BY <4>1, PageType
      <4> QED
        BY <4>2, SingletonType
    <3>2. got' \in [Documents -> Seq(Page)] /\ \A e \in Documents : Len(got'[e]) <= MaxPages
      <4>1. Len(<<PageOf(job[d], 1)>>) <= MaxPages
        BY <3>1, TimesType
      <4> QED
        BY <2>1, <3>1, <4>1, GotType
    <3> QED
      BY <1>4, <2>1, <3>0, <3>2, GoType DEF AwaitJob, TypeOK, given, Running
  <2>2. ASSUME NEW class \in ErrorClass, Raise(d, class) PROVE TypeOK'
    BY <1>4, <2>2, RaiseTypeOK DEF AwaitJob
  <2>3. ASSUME NEW t \in CallTimes, Spend(d, t + PollInterval),
               UNCHANGED <<pc, deadline, retries, raised, job, got>>
        PROVE  TypeOK'
    <3>1. clock' \in [Documents -> 0..SoftLimit]
      BY <2>3, SpendType
    <3> QED
      BY <1>4, <2>3, <3>1 DEF AwaitJob, TypeOK, given
  <2> QED
    BY <1>0, <1>4, <2>1, <2>2, <2>3, ErrorType DEF AwaitJob, CallFails
<1>5. ASSUME NEW d \in Documents, CollectPages(d), given' = given PROVE TypeOK'
  <2>1. CASE ~More(d) /\ Go(d, "done") /\ UNCHANGED <<clock, deadline, retries, raised, job, got>>
    BY <1>5, <2>1, GoType DEF CollectPages, TypeOK, given, Ended
  <2>2. ASSUME More(d), NEW t \in CallTimes, Spend(d, t),
               got' = [got EXCEPT ![d] = Append(@, PageOf(job[d], Len(@) + 1))],
               UNCHANGED <<pc, deadline, retries, raised, job>>
        PROVE  TypeOK'
    <3>1. clock' \in [Documents -> 0..SoftLimit]
      BY <2>2, SpendType
    <3>2. Len(got[d]) + 1 \in 1..MaxPages
      BY <1>5, <2>2, MorePages DEF CollectPages, CollectedInOrder
    <3> DEFINE p == PageOf(job[d], Len(got[d]) + 1)
    <3>3. p \in Page /\ got[d] \in Seq(Page)
      BY <3>2, PageType DEF TypeOK
    <3> HIDE DEF p
    <3>4. Append(got[d], p) \in Seq(Page) /\ Len(Append(got[d], p)) = Len(got[d]) + 1
      BY <3>3
    <3>5. got' = [got EXCEPT ![d] = Append(got[d], p)]
      BY <2>2 DEF p
    <3>6. Len(Append(got[d], p)) <= MaxPages
      BY <3>2, <3>4
    <3>7. got' \in [Documents -> Seq(Page)] /\ \A e \in Documents : Len(got'[e]) <= MaxPages
      BY <3>4, <3>5, <3>6, GotType
    <3> QED
      BY <1>5, <2>2, <3>1, <3>7 DEF CollectPages, TypeOK, given
  <2>3. CASE CallFails(d)
    BY <1>5, <2>3, ErrorType, RaiseTypeOK DEF CollectPages, CallFails
  <2> QED
    BY <1>5, <2>1, <2>2, <2>3 DEF CollectPages
<1>6. ASSUME NEW d \in Documents, ExtractSync(d), given' = given PROVE TypeOK'
  <2>1. ASSUME NEW t \in Nat, Spend(d, t),
               got' = [got EXCEPT ![d] = <<[text |-> d, number |-> 1, next |-> FALSE]>>],
               Go(d, "done"), UNCHANGED <<deadline, retries, raised, job>>
        PROVE  TypeOK'
    <3>0. clock' \in [Documents -> 0..SoftLimit]
      BY <2>1, SpendType
    <3> DEFINE p == [text |-> d, number |-> 1, next |-> FALSE]
    <3>1. p \in Page
      <4>1. 1 \in 1..MaxPages
        BY TimesType
      <4> QED
        BY <4>1, PageType
    <3> HIDE DEF p
    <3>2. <<p>> \in Seq(Page) /\ Len(<<p>>) = 1
      BY <3>1, SingletonType
    <3>3. got' \in [Documents -> Seq(Page)] /\ \A e \in Documents : Len(got'[e]) <= MaxPages
      <4>1. Len(<<p>>) <= MaxPages
        BY <3>2, TimesType
      <4> QED
        BY <2>1, <3>2, <4>1, GotType DEF p
    <3> QED
      BY <1>6, <2>1, <3>0, <3>3, GoType DEF ExtractSync, TypeOK, given, Ended
  <2>2. ASSUME NEW class \in ErrorClass, Raise(d, class) PROVE TypeOK'
    BY <1>6, <2>2, RaiseTypeOK DEF ExtractSync
  <2> QED
    BY <1>6, <2>1, <2>2, ErrorType DEF ExtractSync, CallFails
<1>7. ASSUME NEW d \in Documents, SoftTimeLimit(d), given' = given PROVE TypeOK'
  BY <1>7, RaiseTypeOK DEF SoftTimeLimit
<1>8. ASSUME NEW d \in Documents, JobReads(d), given' = given PROVE TypeOK'
  <2>1. object[Key(d)] \in Documents \cup {None}
    BY DEF TypeOK, Source, Key
  <2>2. job' \in [Documents -> [status : JobStatus, text : Documents \cup {None}, pages : 1..MaxPages]]
    <3>1. job \in [Documents -> [status : JobStatus, text : Documents \cup {None}, pages : 1..MaxPages]]
      BY DEF TypeOK
    <3> QED
      BY <1>8, <2>1, <3>1 DEF JobReads
  <2> QED
    BY <1>8, <2>2 DEF JobReads, TypeOK, given
<1>9. ASSUME NEW d \in Documents, JobEnds(d), given' = given PROVE TypeOK'
  <2>1. job' \in [Documents -> [status : JobStatus, text : Documents \cup {None}, pages : 1..MaxPages]]
    <3>1. job \in [Documents -> [status : JobStatus, text : Documents \cup {None}, pages : 1..MaxPages]]
      BY DEF TypeOK
    <3> QED
      BY <1>9, <3>1 DEF JobEnds
  <2> QED
    BY <1>9, <2>1 DEF JobEnds, TypeOK, given
<1>10. CASE UNCHANGED vars
  BY <1>10 DEF vars, TypeOK, given
<1> QED
  BY <1>1, <1>2, <1>3, <1>4, <1>5, <1>6, <1>7, <1>8, <1>9, <1>10 DEF Next, Task

LEMMA TypeInit == Init => TypeOK
<1> SUFFICES ASSUME Init PROVE TypeOK
  OBVIOUS
<1> QED
  BY ZeroType, NoJobType DEF Init, TypeOK

-----------------------------------------------------------------------------
(* Pages are collected in order, from a job that has ended.                *)

\* A step of another document.
Untouched(d) ==
  pc'[d] = pc[d] /\ got'[d] = got[d] /\ job'[d] = job[d] /\ source'[d] = source[d]

LEMMA UntouchedCollected ==
  ASSUME NEW d \in Documents, Collected(d), Untouched(d)
  PROVE  Collected(d)'
BY DEF Collected, Untouched, PageOf

LEMMA RaisedCollected ==
  ASSUME TypeOK, NEW d \in Documents, NEW class \in ErrorClass \cup {"soft limit"}, Raise(d, class)
  PROVE  Collected(d)'
BY RaiseType DEF Collected

LEMMA OtherTask ==
  ASSUME TypeOK, NEW d \in Documents, NEW e \in Documents, d # e, Task(d)
  PROVE  Untouched(e)
<1>1. ASSUME NEW class, Raise(d, class)
      PROVE  pc'[e] = pc[e] /\ got'[e] = got[e] /\ job'[e] = job[e]
  BY <1>1 DEF Raise, Go, Forget, TypeOK
<1>2. ASSUME NEW label, Go(d, label) PROVE pc'[e] = pc[e]
  BY <1>2 DEF Go, TypeOK
<1>3. CASE \E class : Raise(d, class)
  BY <1>1, <1>3 DEF Task, given, Untouched
<1>4. CASE ~\E class : Raise(d, class)
  <2>1. pc'[e] = pc[e]
    BY <1>2, <1>4 DEF Task, Extract, EnsureInS3, StartJob, AwaitJob, CollectPages, ExtractSync,
       SoftTimeLimit, CallFails
  <2>2. got'[e] = got[e] /\ job'[e] = job[e]
    BY <1>4 DEF Task, Extract, EnsureInS3, StartJob, AwaitJob, CollectPages, ExtractSync,
       SoftTimeLimit, CallFails, TypeOK
  <2> QED
    BY <2>1, <2>2 DEF Task, given, Untouched
<1> QED
  BY <1>3, <1>4

\* A step of the document's own.
LEMMA OwnTask ==
  ASSUME TypeOK, NEW d \in Documents, Collected(d), Task(d)
  PROVE  Collected(d)'
<1> USE DEF given
<1>0. source' = source
  BY DEF Task
<1>01. "agent" \in ErrorClass /\ "transient" \in ErrorClass
       /\ \A fault : RaiseForSource(fault) \in ErrorClass
  BY DEF RaiseForSource, ErrorClass
<1>02. ASSUME NEW class \in ErrorClass, Raise(d, class) PROVE Collected(d)'
  BY <1>02, RaisedCollected
<1>03. ASSUME CallFails(d) PROVE Collected(d)'
  BY <1>02, <1>03, ErrorType DEF CallFails
<1>1. CASE Extract(d)
  <2>1. CASE /\ \/ ~source[d].paged /\ Go(d, "sync")
                \/ source[d].paged /\ (Go(d, "start") \/ Go(d, "stage"))
    <3>1. \/ pc'[d] = "sync" /\ ~source[d].paged
          \/ pc'[d] \in {"start", "stage"} /\ source[d].paged
      BY <2>1, GoType DEF Running
    <3> QED
      BY <1>0, <3>1 DEF Collected
  <2> QED
    BY <1>01, <1>02, <1>1, <2>1 DEF Extract, Staged
<1>2. CASE EnsureInS3(d)
  <2>1. CASE Go(d, "start")
    <3>1. pc'[d] = "start"
      BY <2>1, GoType DEF Running
    <3> QED
      BY <1>0, <1>2, <3>1 DEF EnsureInS3, Collected
  <2> QED
    BY <1>02, <1>2, <2>1, ErrorType DEF EnsureInS3
<1>3. CASE StartJob(d)
  <2>1. CASE Go(d, "poll")
    <3>1. pc'[d] = "poll"
      BY <2>1, GoType DEF Running
    <3> QED
      BY <1>0, <1>3, <3>1 DEF StartJob, Collected
  <2> QED
    BY <1>03, <1>3, <2>1 DEF StartJob
<1>4. CASE AwaitJob(d)
  <2>1. CASE UNCHANGED <<pc, deadline, retries, raised, job, got>>
    BY <1>0, <1>4, <2>1, UntouchedCollected DEF AwaitJob, Untouched
  <2>2. CASE /\ job[d].status \in {"SUCCEEDED", "PARTIAL_SUCCESS"}
             /\ got' = [got EXCEPT ![d] = <<PageOf(job[d], 1)>>]
             /\ Go(d, "pages")
             /\ job' = job
    <3>1. pc'[d] = "pages" /\ source[d].paged
      BY <1>4, <2>2, GoType DEF AwaitJob, Running, Collected
    <3>2. got'[d] = <<PageOf(job[d], 1)>> /\ Len(<<PageOf(job[d], 1)>>) = 1
          /\ <<PageOf(job[d], 1)>>[1] = PageOf(job[d], 1)
      BY <2>2 DEF TypeOK
    <3>3. job[d].pages \in 1..MaxPages
      BY DEF TypeOK
    <3>4. \A i \in 1..Len(got'[d]) : got'[d][i] = PageOf(job[d], i)
      BY <3>2
    <3>5. Len(got'[d]) \in 1..job[d].pages
      BY <3>2, <3>3
    <3> QED
      BY <1>0, <2>2, <3>1, <3>4, <3>5 DEF Collected, PageOf
  <2> QED
    BY <1>01, <1>02, <1>03, <1>4, <2>1, <2>2 DEF AwaitJob
<1>5. CASE CollectPages(d)
  <2>0. pc[d] = "pages"
    BY <1>5 DEF CollectPages
  <2>1. CASE ~More(d) /\ Go(d, "done") /\ UNCHANGED <<job, got>>
    <3>1. Len(got[d]) = job[d].pages
      BY <2>0, <2>1, MorePages
    <3>2. pc'[d] = "done"
      BY <2>1, GoType DEF Ended
    <3> QED
      BY <1>0, <2>0, <2>1, <3>1, <3>2 DEF Collected, PageOf
  <2>2. CASE /\ More(d)
             /\ got' = [got EXCEPT ![d] = Append(@, PageOf(job[d], Len(@) + 1))]
             /\ UNCHANGED <<pc, job>>
    <3>1. /\ job[d].pages \in 1..MaxPages /\ Len(got[d]) \in 1..job[d].pages
          /\ Len(got[d]) < job[d].pages
      BY <2>0, <2>2, MorePages
    <3> DEFINE p == PageOf(job[d], Len(got[d]) + 1)
    <3>2. got[d] \in Seq(Page) /\ got'[d] = Append(got[d], p)
      BY <2>2 DEF TypeOK
    <3> HIDE DEF p
    <3>3. /\ Len(got'[d]) = Len(got[d]) + 1
          /\ \A i \in 1..Len(got[d]) : got'[d][i] = got[d][i]
          /\ got'[d][Len(got[d]) + 1] = p
      BY <3>2
    <3>4. Len(got'[d]) \in 1..job[d].pages
      BY <3>1, <3>3
    <3>5. ASSUME NEW i \in 1..Len(got'[d]) PROVE got'[d][i] = PageOf(job[d], i)
      <4>1. CASE i = Len(got[d]) + 1
        BY <3>3, <4>1 DEF p
      <4>2. CASE i \in 1..Len(got[d])
        BY <2>0, <3>3, <4>2 DEF Collected
      <4> QED
        BY <3>1, <3>3, <4>1, <4>2
    <3> QED
      BY <1>0, <2>0, <2>2, <3>4, <3>5 DEF Collected, PageOf
  <2> QED
    BY <1>03, <1>5, <2>1, <2>2 DEF CollectPages
<1>6. CASE ExtractSync(d)
  <2>1. CASE got' = [got EXCEPT ![d] = <<[text |-> d, number |-> 1, next |-> FALSE]>>] /\ Go(d, "done")
    <3>1. pc'[d] = "done" /\ ~source[d].paged
      BY <1>6, <2>1, GoType DEF ExtractSync, Ended, Collected
    <3>2. got'[d] = <<[text |-> d, number |-> 1, next |-> FALSE]>>
      BY <2>1 DEF TypeOK
    <3> QED
      BY <1>0, <3>1, <3>2 DEF Collected
  <2> QED
    BY <1>02, <1>03, <1>6, <2>1, ErrorType DEF ExtractSync
<1>7. CASE SoftTimeLimit(d)
  BY <1>7, RaisedCollected DEF SoftTimeLimit
<1> QED
  BY <1>1, <1>2, <1>3, <1>4, <1>5, <1>6, <1>7 DEF Task

\* Textract moves a job only while it is in progress, and no task collects
\* pages then.
LEMMA OwnJob ==
  ASSUME TypeOK, NEW d \in Documents, Collected(d), JobReads(d) \/ JobEnds(d), given' = given
  PROVE  Collected(d)'
<1>1. job[d].status = "IN_PROGRESS" /\ pc' = pc /\ got' = got /\ source' = source
  BY DEF JobReads, JobEnds, given
<1> QED
  BY <1>1 DEF Collected

LEMMA CollectedStep == TypeOK /\ CollectedInOrder /\ [Next]_vars => CollectedInOrder'
<1> SUFFICES ASSUME TypeOK, CollectedInOrder, [Next]_vars, NEW d \in Documents PROVE Collected(d)'
  BY DEF CollectedInOrder
<1>1. Collected(d)
  BY DEF CollectedInOrder
<1>2. ASSUME NEW e \in Documents, Task(e) PROVE Collected(d)'
  BY <1>1, <1>2, OtherTask, UntouchedCollected, OwnTask
<1>3. ASSUME NEW e \in Documents, JobReads(e) \/ JobEnds(e), given' = given PROVE Collected(d)'
  <2>1. CASE e = d
    BY <1>1, <1>3, <2>1, OwnJob
  <2>2. CASE e # d
    BY <1>1, <1>3, <2>2, UntouchedCollected DEF JobReads, JobEnds, given, Untouched, TypeOK
  <2> QED
    BY <2>1, <2>2
<1>4. CASE UNCHANGED vars
  BY <1>1, <1>4, UntouchedCollected DEF vars, given, Untouched
<1> QED
  BY <1>2, <1>3, <1>4 DEF Next

\* The one response of a document that is one image.
LEMMA OnePage ==
  ASSUME NEW d
  PROVE  LET got1 == <<[text |-> d, number |-> 1, next |-> FALSE]>>
         IN /\ DOMAIN got1 = 1..1
            /\ \A i \in 1..1 : got1[i].number = i /\ got1[i].text = d
<1> DEFINE p == [text |-> d, number |-> 1, next |-> FALSE]
<1>1. p.text = d /\ p.number = 1
  OBVIOUS
<1> HIDE DEF p
<1>2. DOMAIN <<p>> = 1..1 /\ <<p>>[1] = p
  OBVIOUS
<1>3. \A i \in 1..1 : i = 1
  OBVIOUS
<1> QED
  BY <1>1, <1>2, <1>3 DEF p

LEMMA CollectedInit == Init => CollectedInOrder
BY DEF Init, CollectedInOrder, Collected

\* The types are right, and what a task has collected are the first pages of
\* its job's result, each one once and in order.
THEOREM PagesInOrder == Spec => [](TypeOK /\ CollectedInOrder)
BY TypeInit, TypeStep, CollectedInit, CollectedStep, PTL DEF Spec

\* Every variable keeps its type: in particular, retries never exceed their
\* budget, and the clock of a task stops at its soft limit.
THEOREM TypeCorrect == Spec => []TypeOK
BY PagesInOrder, PTL

\* The result of a finished task has every page of the document once and in
\* order, whenever its job ended and however often the task was retried.
THEOREM WholeResult == Spec => []ResultIsWhole
<1>1. TypeOK /\ CollectedInOrder => ResultIsWhole
  <2> SUFFICES ASSUME TypeOK, CollectedInOrder, NEW d \in Documents, pc[d] = "done"
               PROVE  [i \in DOMAIN got[d] |-> got[d][i].number] =
                        [i \in 1..(IF source[d].paged THEN job[d].pages ELSE 1) |-> i]
    BY DEF ResultIsWhole
  <2>1. Collected(d) /\ DOMAIN got[d] = 1..Len(got[d])
    <3>1. got[d] \in Seq(Page)
      BY DEF TypeOK
    <3> QED
      BY <3>1 DEF CollectedInOrder
  <2>2. CASE source[d].paged
    <3>1. /\ DOMAIN got[d] = 1..Len(got[d]) /\ Len(got[d]) = job[d].pages
          /\ \A i \in 1..Len(got[d]) : got[d][i] = PageOf(job[d], i)
      BY <2>1, <2>2 DEF Collected
    <3>2. \A i \in 1..job[d].pages : got[d][i].number = i
      <4>1. \A i : PageOf(job[d], i).number = i
        BY DEF PageOf
      <4> QED
        BY <3>1, <4>1
    <3>3. DOMAIN got[d] = 1..job[d].pages
      BY <3>1
    <3> QED
      BY <2>2, <3>2, <3>3
  <2>3. CASE ~source[d].paged
    <3>1. got[d] = <<[text |-> d, number |-> 1, next |-> FALSE]>>
      BY <2>1, <2>3 DEF Collected
    <3>2. DOMAIN got[d] = 1..1 /\ \A i \in 1..1 : got[d][i].number = i
      BY <3>1, OnePage
    <3> QED
      BY <2>3, <3>2
  <2> QED
    BY <2>2, <2>3
<1> QED
  BY <1>1, PagesInOrder, PTL

-----------------------------------------------------------------------------
(* Jobs read only what was staged under the task's own id.                 *)

LEMMA KeysInit == Init => KeysApart
BY DEF Init, KeysApart, NoJob

\* What a document contributes to KeysApart.
OwnKey(d) ==
  /\ pc[d] = "stage" => Staged(d)
  /\ pc[d] = "start" \/ job[d].status = "IN_PROGRESS" => source[d].s3 \/ Staged(d)
  /\ job[d].text # None => MayRead(d, job[d].text)
  /\ job[d].status \in {"SUCCEEDED", "PARTIAL_SUCCESS"} => job[d].text # None

ObjectKeys ==
  \A k \in DocumentIds : object[k] # None => Staged(object[k]) /\ source[object[k]].id = k

LEMMA KeysSplit == KeysApart <=> ObjectKeys /\ \A d \in Documents : OwnKey(d)
BY DEF KeysApart, ObjectKeys, OwnKey

LEMMA GivenKeys ==
  ASSUME given' = given
  PROVE  \A d, e : Staged(d)' = Staged(d) /\ MayRead(d, e)' = MayRead(d, e)
BY DEF given, Staged, MayRead

LEMMA OtherKey ==
  ASSUME NEW d \in Documents, OwnKey(d), Untouched(d), given' = given
  PROVE  OwnKey(d)'
<1>1. Staged(d)' = Staged(d) /\ \A e : MayRead(d, e)' = MayRead(d, e)
  BY GivenKeys
<1>2. pc'[d] = pc[d] /\ job'[d] = job[d] /\ source'[d] = source[d]
  BY DEF Untouched
<1> QED
  BY <1>1, <1>2 DEF OwnKey, Staged, MayRead

\* A step of the task's own, or of its job.
LEMMA OwnKeyStep ==
  ASSUME TypeOK, ObjectKeys, NEW d \in Documents, OwnKey(d), given' = given,
         Task(d) \/ JobReads(d) \/ JobEnds(d)
  PROVE  OwnKey(d)'
<1>0. source' = source /\ Staged(d)' = Staged(d) /\ \A e : MayRead(d, e)' = MayRead(d, e)
  BY GivenKeys DEF given
<1>1. ASSUME NEW class \in ErrorClass \cup {"soft limit"}, Raise(d, class) PROVE OwnKey(d)'
  <2>1. pc'[d] \in {"queued", "failed"} /\ job'[d] = NoJob
    BY <1>1, RaiseType
  <2>2. NoJob.status = "FAILED" /\ NoJob.text = None
    BY DEF NoJob
  <2> QED
    BY <2>1, <2>2 DEF OwnKey
<1>2. ASSUME CallFails(d) PROVE OwnKey(d)'
  BY <1>1, <1>2, ErrorType DEF CallFails
<1>3. ASSUME job' = job, pc'[d] \in Running \cup Ended,
             pc'[d] = "stage" => Staged(d), pc'[d] = "start" => source[d].s3 \/ Staged(d)
      PROVE  OwnKey(d)'
  BY <1>0, <1>3 DEF OwnKey
<1>4. CASE Extract(d)
  <2>1. "agent" \in ErrorClass /\ \A fault : RaiseForSource(fault) \in ErrorClass
    BY DEF RaiseForSource, ErrorClass
  <2>2. CASE /\ \/ ~source[d].paged /\ Go(d, "sync")
                \/ source[d].paged /\ source[d].s3 /\ Go(d, "start")
                \/ Staged(d) /\ Go(d, "stage")
             /\ job' = job
    BY <1>3, <2>2, GoType DEF Running
  <2> QED
    BY <1>1, <1>4, <2>1, <2>2 DEF Extract
<1>5. CASE EnsureInS3(d)
  <2>1. CASE Go(d, "start") /\ job' = job
    <3>1. Staged(d)
      BY <1>5 DEF EnsureInS3, OwnKey
    <3> QED
      BY <1>3, <2>1, <3>1, GoType DEF Running
  <2> QED
    BY <1>1, <1>5, <2>1, ErrorType DEF EnsureInS3
<1>6. CASE StartJob(d)
  <2>1. ASSUME NEW n, job' = [job EXCEPT ![d] = [status |-> "IN_PROGRESS", text |-> None, pages |-> n]],
               Go(d, "poll")
        PROVE  OwnKey(d)'
    <3>1. job'[d] = [status |-> "IN_PROGRESS", text |-> None, pages |-> n] /\ pc'[d] = "poll"
      BY <2>1, GoType DEF TypeOK, Running
    <3>2. source[d].s3 \/ Staged(d)
      BY <1>6 DEF StartJob, OwnKey
    <3> QED
      BY <1>0, <3>1, <3>2 DEF OwnKey
  <2> QED
    BY <1>2, <1>6, <2>1 DEF StartJob
<1>7. CASE AwaitJob(d)
  <2>1. CASE (pc' = pc \/ Go(d, "pages")) /\ job' = job
    <3>1. pc'[d] \in {"poll", "pages"}
      BY <1>7, <2>1, GoType DEF AwaitJob, Running
    <3> QED
      BY <1>3, <2>1, <3>1 DEF Running
  <2>2. "agent" \in ErrorClass /\ "transient" \in ErrorClass
    BY DEF ErrorClass
  <2> QED
    BY <1>1, <1>2, <1>7, <2>1, <2>2 DEF AwaitJob
<1>8. CASE CollectPages(d)
  <2>1. CASE (pc' = pc \/ Go(d, "done")) /\ job' = job
    <3>1. pc'[d] \in {"pages", "done"}
      BY <1>8, <2>1, GoType DEF CollectPages, Ended
    <3> QED
      BY <1>3, <2>1, <3>1 DEF Running, Ended
  <2> QED
    BY <1>2, <1>8, <2>1 DEF CollectPages
<1>9. CASE ExtractSync(d)
  <2>1. CASE Go(d, "done") /\ job' = job
    BY <1>3, <2>1, GoType DEF Ended
  <2> QED
    BY <1>1, <1>2, <1>9, <2>1, ErrorType DEF ExtractSync
<1>10. CASE SoftTimeLimit(d)
  BY <1>1, <1>10 DEF SoftTimeLimit
<1>11. CASE JobReads(d)
  <2>1. /\ job[d].status = "IN_PROGRESS" /\ pc' = pc
        /\ job' = [job EXCEPT ![d].text = IF source[d].s3 THEN d ELSE object[Key(d)]]
    BY <1>11 DEF JobReads
  <2>2. job'[d].status = "IN_PROGRESS" /\ job'[d].text = IF source[d].s3 THEN d ELSE object[Key(d)]
    BY <2>1 DEF TypeOK
  <2>3. source[d].id \in DocumentIds
    BY DEF TypeOK, Source
  <2>4. CASE source[d].s3
    BY <1>0, <2>1, <2>2, <2>4 DEF OwnKey, MayRead
  <2>5. CASE ~source[d].s3
    <3>1. Staged(d)
      BY <2>1, <2>5 DEF OwnKey
    <3>2. object[Key(d)] # None => MayRead(d, object[Key(d)])
      BY <2>3, <3>1 DEF ObjectKeys, Key, MayRead
    <3> QED
      BY <1>0, <2>1, <2>2, <2>5, <3>1, <3>2 DEF OwnKey
  <2> QED
    BY <2>4, <2>5
<1>12. CASE JobEnds(d)
  <2>1. PICK status \in JobStatus \ {"IN_PROGRESS"} :
          /\ status \in {"SUCCEEDED", "PARTIAL_SUCCESS"} => job[d].text # None
          /\ job' = [job EXCEPT ![d].status = status]
    BY <1>12 DEF JobEnds
  <2>2. job[d].status = "IN_PROGRESS" /\ pc' = pc
    BY <1>12 DEF JobEnds
  <2>3. job'[d].status = status /\ job'[d].text = job[d].text
    BY <2>1 DEF TypeOK
  <2> QED
    BY <1>0, <2>1, <2>2, <2>3 DEF OwnKey
<1> QED
  BY <1>4, <1>5, <1>6, <1>7, <1>8, <1>9, <1>10, <1>11, <1>12 DEF Task

LEMMA ObjectStep ==
  ASSUME TypeOK, KeysApart, [Next]_vars
  PROVE  ObjectKeys'
<1>1. ObjectKeys /\ \A d \in Documents : OwnKey(d)
  BY KeysSplit
<1>2. given' = given
  BY DEF Next, Task, vars, given
<1>3. source' = source /\ \A d : Staged(d)' = Staged(d)
  BY <1>2, GivenKeys DEF given
<1>4. CASE object' = object
  BY <1>1, <1>3, <1>4 DEF ObjectKeys, Staged, given
<1>5. ASSUME NEW d \in Documents, pc[d] = "stage", object' = [object EXCEPT ![Key(d)] = d]
      PROVE  ObjectKeys'
  <2>1. Staged(d)
    BY <1>1, <1>5 DEF OwnKey
  <2>2. \A k \in DocumentIds : object'[k] = IF k = source[d].id THEN d ELSE object[k]
    BY <1>5 DEF TypeOK, Key
  <2>3. bucket' = bucket
    BY <1>2 DEF given
  <2> QED
    BY <1>1, <1>3, <2>1, <2>2, <2>3 DEF ObjectKeys, Staged
<1>6. object' = object \/ \E d \in Documents : pc[d] = "stage" /\ object' = [object EXCEPT ![Key(d)] = d]
  BY DEF Next, Task, Extract, EnsureInS3, StartJob, AwaitJob, CollectPages, ExtractSync, SoftTimeLimit,
     JobReads, JobEnds, vars
<1> QED
  BY <1>4, <1>5, <1>6

LEMMA KeysStep == TypeOK /\ KeysApart /\ [Next]_vars => KeysApart'
<1> SUFFICES ASSUME TypeOK, KeysApart, [Next]_vars PROVE KeysApart'
  OBVIOUS
<1>1. ObjectKeys /\ \A d \in Documents : OwnKey(d)
  BY KeysSplit
<1>2. given' = given
  BY DEF Next, Task, vars, given
<1>3. ASSUME NEW d \in Documents PROVE OwnKey(d)'
  <2>1. ASSUME NEW e \in Documents, Task(e) PROVE OwnKey(d)'
    <3>1. CASE e = d
      BY <1>1, <1>2, <2>1, <3>1, OwnKeyStep
    <3>2. CASE e # d
      BY <1>1, <1>2, <2>1, <3>2, OtherTask, OtherKey
    <3> QED
      BY <3>1, <3>2
  <2>2. ASSUME NEW e \in Documents, JobReads(e) \/ JobEnds(e) PROVE OwnKey(d)'
    <3>1. CASE e = d
      BY <1>1, <1>2, <2>2, <3>1, OwnKeyStep
    <3>2. CASE e # d
      <4>1. Untouched(d)
        BY <1>2, <2>2, <3>2 DEF JobReads, JobEnds, given, Untouched, TypeOK
      <4> QED
        BY <1>1, <1>2, <4>1, OtherKey
    <3> QED
      BY <3>1, <3>2
  <2>3. CASE UNCHANGED vars
    <3>1. Untouched(d)
      BY <2>3 DEF vars, given, Untouched
    <3> QED
      BY <1>1, <1>2, <3>1, OtherKey
  <2> QED
    BY <2>1, <2>2, <2>3 DEF Next
<1>4. ObjectKeys' /\ \A d \in Documents : OwnKey(d)'
  BY <1>3, ObjectStep
<1> QED
  BY <1>4 DEF KeysApart, ObjectKeys, OwnKey

LEMMA KeysInvariant == Spec => []KeysApart
BY KeysInit, KeysStep, PagesInOrder, PTL DEF Spec

\* A task collects its job's pages in order, and the job reads a document
\* staged under the task's own id, whichever other tasks stage and retry at
\* the same time and whatever ids they share.
THEOREM JobsApart == Spec => []JobInv
<1>1. CollectedInOrder /\ KeysApart => JobInv
  BY DEF JobInv
<1> QED
  BY <1>1, PagesInOrder, KeysInvariant, PTL

\* All pages of a finished task's result are of one document: its own, unless
\* both were staged and their callers chose the same id.
THEOREM OneDocument == Spec => []ResultOfOneDocument
<1>1. TypeOK /\ CollectedInOrder /\ KeysApart => ResultOfOneDocument
  <2> SUFFICES ASSUME TypeOK, CollectedInOrder, KeysApart, NEW d \in Documents, pc[d] = "done"
               PROVE  \E e \in Documents : MayRead(d, e) /\ \A i \in DOMAIN got[d] : got[d][i].text = e
    BY DEF ResultOfOneDocument
  <2>1. Collected(d) /\ DOMAIN got[d] = 1..Len(got[d])
    <3>1. got[d] \in Seq(Page)
      BY DEF TypeOK
    <3> QED
      BY <3>1 DEF CollectedInOrder
  <2>2. CASE source[d].paged
    <3>1. \A i \in DOMAIN got[d] : got[d][i] = PageOf(job[d], i)
      BY <2>1, <2>2 DEF Collected
    <3>2. job[d].text # None /\ MayRead(d, job[d].text) /\ job[d].text \in Documents
      BY <2>1, <2>2 DEF Collected, KeysApart, TypeOK
    <3>3. \A i \in DOMAIN got[d] : got[d][i].text = job[d].text
      <4>1. \A i : PageOf(job[d], i).text = job[d].text
        BY DEF PageOf
      <4> QED
        BY <3>1, <4>1
    <3> QED
      BY <3>2, <3>3
  <2>3. CASE ~source[d].paged
    <3>1. got[d] = <<[text |-> d, number |-> 1, next |-> FALSE]>>
      BY <2>1, <2>3 DEF Collected
    <3>2. \A i \in DOMAIN got[d] : got[d][i].text = d
      BY <3>1, OnePage
    <3> QED
      BY <3>2 DEF MayRead
  <2> QED
    BY <2>2, <2>3
<1> QED
  BY <1>1, PagesInOrder, KeysInvariant, PTL
=============================================================================
