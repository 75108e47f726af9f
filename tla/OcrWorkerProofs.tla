-------------------------- MODULE OcrWorkerProofs --------------------------
(***************************************************************************)
(* Theorems about OcrWorker, for every pool, every set of documents and    *)
(* all bounds: results are whole, what cannot be helped is not retried,    *)
(* and a document is not harmed by those its process had before.           *)
(***************************************************************************)
EXTENDS OcrWorker, TLAPS

WorkerRecord ==
  [step : Step, doc : Documents \cup {None}, page : 0..MaxPages,
   texts : Seq(1..MaxPages), kept : BOOLEAN, ran : 0..(TasksPerChild - 1)]

IInv == TypeOK /\ HoldsOwn

LEMMA Limits ==
  /\ MaxPages \in Nat \ {0} /\ TasksPerChild \in Nat \ {0} /\ MaxRetries \in Nat /\ MaxKills \in Nat
BY BoundsAssumption

-----------------------------------------------------------------------------
(* Failures.                                                               *)

LEMMA SourceErrorsType == \A scheme : SourceErrors(scheme) \subseteq ErrorClass
<1>1. \A fault : RaiseForSource(fault) \in ErrorClass
  BY DEF RaiseForSource, ErrorClass
<1> QED
  BY <1>1 DEF SourceErrors

\* What a failed attempt may end its task with.
Failure == ErrorClass \cup {"soft limit", "hard limit"}

LEMMA OutcomeType ==
  /\ Pending \in Outcome
  /\ \A class \in Failure : [Pending EXCEPT !.end = class] \in Outcome
<1>1. 0 \in 0..MaxPages /\ <<>> \in Seq(1..MaxPages)
  BY Limits
<1> QED
  BY <1>1 DEF Pending, Outcome, End, Failure

LEMMA AfterType ==
  ASSUME NEW w \in WorkerRecord
  PROVE  /\ Fresh \in WorkerRecord /\ After(w) \in WorkerRecord
         /\ After(w).step = "idle" /\ After(w).page = 0 /\ After(w).texts = <<>>
         /\ After(w).kept => w.kept
         /\ Fresh.step = "idle" /\ Fresh.page = 0 /\ Fresh.texts = <<>> /\ Fresh.kept = FALSE
<1>1. 0 \in 0..MaxPages /\ <<>> \in Seq(1..MaxPages) /\ 0 \in 0..(TasksPerChild - 1)
  BY Limits
<1>2. /\ Fresh \in WorkerRecord
      /\ Fresh.step = "idle" /\ Fresh.page = 0 /\ Fresh.texts = <<>> /\ Fresh.kept = FALSE
  BY <1>1 DEF Fresh, WorkerRecord, Step
<1>3. CASE w.ran + 1 >= TasksPerChild
  BY <1>2, <1>3 DEF After
<1>4. CASE ~(w.ran + 1 >= TasksPerChild)
  <2>1. w.ran + 1 \in 0..(TasksPerChild - 1)
    BY <1>4, Limits DEF WorkerRecord
  <2>2. After(w) = [Fresh EXCEPT !.kept = w.kept, !.ran = w.ran + 1]
    BY <1>4 DEF After
  <2>3. w.kept \in BOOLEAN
    BY DEF WorkerRecord
  <2> QED
    BY <1>1, <2>1, <2>2, <2>3 DEF Fresh, WorkerRecord, Step
<1> QED
  BY <1>2, <1>3, <1>4

\* How the state of the tasks moves: one task is retried, or ends.
TaskMoves(d, retry, o) ==
  \/ /\ retry
     /\ retries[d] < MaxRetries
     /\ retries' = [retries EXCEPT ![d] = @ + 1]
     /\ queue' = queue \cup {d}
     /\ UNCHANGED outcome
  \/ /\ outcome' = [outcome EXCEPT ![d] = o]
     /\ UNCHANGED <<queue, retries>>

LEMMA RaiseMoves ==
  ASSUME NEW p, NEW class, Raise(p, class)
  PROVE  TaskMoves(Doc(p), class = "transient", [Pending EXCEPT !.end = class])
BY DEF Raise, Finish, TaskMoves

LEMMA TaskType ==
  ASSUME TypeOK, NEW d \in Documents, NEW retry, NEW o \in Outcome, TaskMoves(d, retry, o)
  PROVE  /\ queue' \subseteq Documents
         /\ retries' \in [Documents -> 0..MaxRetries]
         /\ outcome' \in [Documents -> Outcome]
<1>1. /\ queue \subseteq Documents
      /\ retries \in [Documents -> 0..MaxRetries]
      /\ outcome \in [Documents -> Outcome]
  BY DEF TypeOK
<1>2. retries[d] < MaxRetries => retries[d] + 1 \in 0..MaxRetries
  BY <1>1, Limits
<1> QED
  BY <1>1, <1>2 DEF TaskMoves

-----------------------------------------------------------------------------
(* Every step of a process, in one of three shapes: it goes on with its    *)
(* task, it is done with it, or it finds a task or is killed.              *)

\* What one process becomes, the others staying as they are.
Becomes(p, w) == worker' = [worker EXCEPT ![p] = w]

LEMMA WorkerType ==
  ASSUME TypeOK, NEW p \in Processes
  PROVE  /\ worker \in [Processes -> WorkerRecord] /\ worker[p] \in WorkerRecord
         /\ source \in [Documents -> Source] /\ \A d \in Documents : source[d].pages \in 1..MaxPages
BY DEF TypeOK, WorkerRecord, Source

\* The text of one more page.
LEMMA OneMorePage ==
  ASSUME NEW texts \in Seq(1..MaxPages), NEW d \in Documents, source \in [Documents -> Source],
         NEW n \in 0..MaxPages, n < source[d].pages, AreWordsTo(texts, d, n),
         NEW more, more = IF n + 1 \in source[d].blank THEN texts ELSE Append(texts, n + 1)
  PROVE  more \in Seq(1..MaxPages) /\ AreWordsTo(more, d, n + 1)
<1>1. source[d].pages \in 1..MaxPages /\ n + 1 \in 1..MaxPages
  BY Limits DEF Source
<1>2. CASE n + 1 \in source[d].blank
  <2>1. (1..(n + 1)) \ source[d].blank = (1..n) \ source[d].blank
    BY <1>2
  <2> QED
    BY <1>2, <2>1 DEF AreWordsTo
<1>3. CASE n + 1 \notin source[d].blank
  <2>1. /\ more \in Seq(1..MaxPages)
        /\ DOMAIN more = 1..(Len(texts) + 1) /\ DOMAIN texts = 1..Len(texts)
        /\ \A i \in 1..Len(texts) : more[i] = texts[i]
        /\ more[Len(texts) + 1] = n + 1 /\ Len(texts) \in Nat
    BY <1>1, <1>3
  <2>2. \A i \in 1..Len(texts) : texts[i] \in (1..n) \ source[d].blank
    BY <2>1 DEF AreWordsTo
  <2>3. {more[i] : i \in DOMAIN more} = (1..(n + 1)) \ source[d].blank
    <3>1. ASSUME NEW i \in DOMAIN more PROVE more[i] \in (1..(n + 1)) \ source[d].blank
      <4>1. i \in 1..Len(texts) \/ i = Len(texts) + 1
        BY <2>1
      <4>2. \A k \in 1..n : k \in 1..(n + 1)
        OBVIOUS
      <4> QED
        BY <1>3, <2>1, <2>2, <4>1, <4>2
    <3>2. ASSUME NEW k \in (1..(n + 1)) \ source[d].blank PROVE \E i \in DOMAIN more : more[i] = k
      <4>1. CASE k = n + 1
        BY <2>1, <4>1
      <4>2. CASE k # n + 1
        <5>1. k \in (1..n) \ source[d].blank
          BY <4>2
        <5>2. PICK i \in DOMAIN texts : texts[i] = k
          BY <5>1 DEF AreWordsTo
        <5> QED
          BY <2>1, <5>2
      <4> QED
        BY <4>1, <4>2
    <3> QED
      BY <3>1, <3>2
  <2>4. ASSUME NEW i \in DOMAIN more, NEW j \in DOMAIN more, i < j PROVE more[i] < more[j]
    <3>1. i \in 1..Len(texts)
      BY <2>1, <2>4
    <3>2. CASE j = Len(texts) + 1
      BY <2>1, <2>2, <3>1, <3>2
    <3>3. CASE j # Len(texts) + 1
      <4>1. j \in 1..Len(texts)
        BY <2>1, <3>3
      <4> QED
        BY <2>1, <2>4, <3>1, <4>1 DEF AreWordsTo
    <3> QED
      BY <3>2, <3>3
  <2> QED
    BY <2>1, <2>3, <2>4 DEF AreWordsTo
<1> QED
  BY <1>2, <1>3

-----------------------------------------------------------------------------
(* Types, and what a process holds.                                        *)

\* A step that makes w of a process and leaves the tasks typed.
LEMMA BecomesInv ==
  ASSUME IInv, NEW p \in Processes, NEW w \in WorkerRecord, Becomes(p, w), Holds(w),
         given' = given, kills' \in 0..MaxKills,
         queue' \subseteq Documents,
         retries' \in [Documents -> 0..MaxRetries],
         outcome' \in [Documents -> Outcome]
  PROVE  IInv'
<1>1. worker' \in [Processes -> WorkerRecord]
      /\ \A x \in Processes : worker'[x] = IF x = p THEN w ELSE worker[x]
  BY WorkerType DEF IInv, Becomes
<1>2. image' = image /\ source' = source
  BY DEF given
<1>3. \A x \in Processes : Holds(worker'[x])
  BY <1>1 DEF IInv, HoldsOwn
<1>4. HoldsOwn'
  BY <1>2, <1>3 DEF HoldsOwn, Holds, AreWordsTo, Ready, Fetchable, NoBoto3
<1> QED
  BY <1>1, <1>2, <1>4 DEF IInv, TypeOK, WorkerRecord

\* A task that ends or is retried leaves its process free.
LEMMA LeavesInv ==
  ASSUME IInv, NEW p \in Processes, ~At(p, "idle"), NEW retry, NEW o \in Outcome,
         TaskMoves(Doc(p), retry, o),
         \/ Becomes(p, After(worker[p]))
         \/ Becomes(p, Fresh),
         given' = given, kills' \in 0..MaxKills
  PROVE  IInv'
<1>1. Doc(p) \in Documents /\ worker[p] \in WorkerRecord /\ Holds(worker[p])
  BY WorkerType DEF IInv, HoldsOwn, Holds, At, Doc
<1>2. /\ queue' \subseteq Documents
      /\ retries' \in [Documents -> 0..MaxRetries]
      /\ outcome' \in [Documents -> Outcome]
  BY <1>1, TaskType DEF IInv
<1>3. Holds(Fresh) /\ Holds(After(worker[p]))
  BY <1>1, AfterType DEF Holds
<1> QED
  BY <1>1, <1>2, <1>3, AfterType, BecomesInv

LEMMA FailInv ==
  ASSUME IInv, NEW p \in Processes, ~At(p, "idle"), NEW class \in Failure, Fail(p, class),
         given' = given, kills' \in 0..MaxKills
  PROVE  IInv'
BY OutcomeType, RaiseMoves, LeavesInv DEF Fail, Becomes

\* The errors each step names are those of the taxonomy.
LEMMA NamedFailures ==
  /\ {"agent", "configuration", "transient", "uncaught", "soft limit", "hard limit"} \subseteq Failure
  /\ RaiseForSource("unsupported scheme") = "agent"
  /\ RaiseForSource("no boto3") = "configuration"
  /\ RaiseForSource("malformed uri") = "agent"
  /\ RaiseForSource("NoCredentialsError") = "transient"
  /\ RaiseForSource("unparsable uri") = "uncaught"
  /\ \A scheme : SourceErrors(scheme) \subseteq Failure
BY SourceErrorsType DEF Failure, ErrorClass, RaiseForSource, Transient, Denied, Escaping

LEMMA GoInv ==
  ASSUME IInv, NEW p \in Processes, NEW step \in {"read", "rasterise", "recognise"}, Go(p, step),
         ~At(p, "idle"), ~At(p, "recognise"), Ready, image.name = "tesseract", Fetchable(Doc(p)),
         given' = given, kills' = kills
  PROVE  IInv'
<1> DEFINE w == [worker[p] EXCEPT !.step = step]
<1>1. worker[p] \in WorkerRecord /\ Holds(worker[p]) /\ worker[p].doc \in Documents
  BY WorkerType DEF IInv, HoldsOwn, Holds, At
<1>2. w \in WorkerRecord /\ w.step = step /\ w.doc = worker[p].doc /\ w.page = 0 /\ w.texts = <<>>
  BY <1>1 DEF WorkerRecord, Step, Holds, At
<1>3. 0 < source[w.doc].pages
  BY <1>1, <1>2, WorkerType DEF IInv
<1>4. AreWordsTo(<<>>, w.doc, 0)
  BY DEF AreWordsTo
<1>5. Holds(w)
  BY <1>1, <1>2, <1>3, <1>4 DEF Holds, Doc
<1>6. Becomes(p, w)
  BY <1>1, WorkerType DEF Go, Becomes, IInv
<1> QED
  BY <1>2, <1>5, <1>6, BecomesInv DEF Go, IInv, TypeOK

LEMMA TakeInv ==
  ASSUME IInv, NEW p \in Processes, Take(p), given' = given, kills' = kills
  PROVE  IInv'
<1>1. PICK d \in queue :
        /\ queue' = queue \ {d}
        /\ worker' = [worker EXCEPT ![p].step = "backend", ![p].doc = d]
  BY DEF Take
<1> DEFINE w == [worker[p] EXCEPT !.step = "backend", !.doc = d]
<1>2. worker[p] \in WorkerRecord /\ Holds(worker[p]) /\ d \in Documents
  BY WorkerType DEF IInv, HoldsOwn, TypeOK
<1>3. /\ w \in WorkerRecord /\ w.step = "backend" /\ w.doc = d
      /\ w.page = 0 /\ w.texts = <<>> /\ w.kept = worker[p].kept
  BY <1>2 DEF WorkerRecord, Step, Holds, Take, At
<1>4. Holds(w)
  BY <1>2, <1>3 DEF Holds
<1>5. Becomes(p, w)
  BY <1>1, WorkerType DEF Becomes, IInv
<1> QED
  BY <1>1, <1>3, <1>4, <1>5, BecomesInv DEF Take, IInv, TypeOK

LEMMA GetBackendInv ==
  ASSUME IInv, NEW p \in Processes, GetBackend(p), given' = given, kills' = kills
  PROVE  IInv'
<1>1. CASE /\ worker[p].kept \/ Ready
           /\ worker' = [worker EXCEPT ![p].step = "read", ![p].kept = TRUE]
           /\ UNCHANGED <<queue, retries, outcome>>
  <2> DEFINE w == [worker[p] EXCEPT !.step = "read", !.kept = TRUE]
  <2>1. worker[p] \in WorkerRecord /\ Holds(worker[p]) /\ worker[p].step = "backend"
    BY WorkerType DEF IInv, HoldsOwn, GetBackend, At
  <2>2. /\ w \in WorkerRecord /\ w.step = "read" /\ w.doc = worker[p].doc
        /\ w.page = 0 /\ w.texts = <<>>
    BY <2>1 DEF WorkerRecord, Step, Holds
  <2>3. Holds(w)
    BY <1>1, <2>1, <2>2 DEF Holds
  <2>4. Becomes(p, w)
    BY <1>1, WorkerType DEF Becomes, IInv
  <2> QED
    BY <1>1, <2>2, <2>3, <2>4, BecomesInv DEF IInv, TypeOK
<1>2. CASE Fail(p, "agent") \/ Fail(p, "configuration")
  BY <1>2, FailInv, NamedFailures DEF GetBackend, At, IInv, TypeOK
<1> QED
  BY <1>1, <1>2 DEF GetBackend

LEMMA RecogniseInv ==
  ASSUME IInv, NEW p \in Processes, Recognise(p), given' = given, kills' = kills
  PROVE  IInv'
<1> DEFINE d == Doc(p)
           n == worker[p].page + 1
           texts == IF n \in source[d].blank THEN worker[p].texts ELSE Append(worker[p].texts, n)
           w == [worker[p] EXCEPT !.page = n, !.texts = texts]
<1>1. worker[p] \in WorkerRecord /\ Holds(worker[p]) /\ worker[p].step = "recognise" /\ ~At(p, "idle")
  BY WorkerType DEF IInv, HoldsOwn, Recognise, At
<1>2. d \in Documents /\ worker[p].page < source[d].pages /\ AreWordsTo(worker[p].texts, d, worker[p].page)
  BY <1>1 DEF Holds, Doc
<1>3. worker[p].texts \in Seq(1..MaxPages) /\ worker[p].page \in 0..MaxPages /\ source \in [Documents -> Source]
  BY <1>1, WorkerType DEF WorkerRecord, IInv
<1>4. texts \in Seq(1..MaxPages) /\ AreWordsTo(texts, d, n)
  BY <1>2, <1>3, OneMorePage
<1>5. source[d].pages \in 1..MaxPages
  BY <1>2, WorkerType DEF IInv
<1>6. CASE n < source[d].pages /\ worker' = [worker EXCEPT ![p].page = n, ![p].texts = texts]
           /\ UNCHANGED <<queue, retries, outcome>>
  <2>1. n \in 0..MaxPages
    <3>1. n < source[d].pages
      BY <1>6
    <3> HIDE DEF texts, d
    <3> QED
      BY <1>3, <1>5, <3>1, Limits
  <2> HIDE DEF n, texts, d
  <2>2. /\ w \in WorkerRecord /\ w.step = "recognise" /\ w.doc = worker[p].doc
        /\ w.page = n /\ w.texts = texts
    BY <1>1, <1>4, <2>1 DEF WorkerRecord
  <2>3. Holds(w)
    BY <1>1, <1>4, <1>6, <2>2 DEF Holds, d, Doc
  <2>4. Becomes(p, w)
    BY <1>6, WorkerType DEF Becomes, IInv
  <2> QED
    BY <1>6, <2>2, <2>3, <2>4, BecomesInv DEF IInv, TypeOK
<1>7. CASE Finish(p, Extraction(d, texts)) /\ worker' = [worker EXCEPT ![p] = After(@)]
  <2> HIDE DEF texts
  <2>1. source[d].pages \in 0..MaxPages
    BY <1>5
  <2>2. Extraction(d, texts) \in Outcome
    BY <1>4, <2>1 DEF Extraction, Outcome, End
  <2>3. TaskMoves(Doc(p), FALSE, Extraction(d, texts)) /\ Becomes(p, After(worker[p]))
    BY <1>7 DEF Finish, TaskMoves, Becomes
  <2> QED
    BY <1>1, <2>2, <2>3, LeavesInv DEF IInv, TypeOK
<1>8. ASSUME NEW class \in Failure, Fail(p, class) PROVE IInv'
  BY <1>1, <1>8, FailInv DEF IInv, TypeOK
<1> QED
  BY <1>6, <1>7, <1>8, NamedFailures DEF Recognise

LEMMA IInvStep == IInv /\ [Next]_vars => IInv'
<1> SUFFICES ASSUME IInv, [Next]_vars PROVE IInv'
  OBVIOUS
<1>1. ASSUME NEW p \in Processes, Work(p) PROVE IInv'
  <2>1. given' = given /\ kills' = kills /\ kills' \in 0..MaxKills
    BY <1>1 DEF Work, IInv, TypeOK
  <2>2. \A class \in Failure : Fail(p, class) /\ ~At(p, "idle") => IInv'
    BY <2>1, FailInv
  <2>3. CASE Take(p)
    BY <2>1, <2>3, TakeInv
  <2>4. CASE GetBackend(p)
    BY <2>1, <2>4, GetBackendInv
  <2>5. CASE ExtractNothing(p)
    <3>1. [Pending EXCEPT !.end = "done"] \in Outcome
      <4>1. 0 \in 0..MaxPages /\ <<>> \in Seq(1..MaxPages)
        BY Limits
      <4> QED
        BY <4>1 DEF Pending, Outcome, End
    <3>2. /\ TaskMoves(Doc(p), FALSE, [Pending EXCEPT !.end = "done"])
          /\ Becomes(p, After(worker[p])) /\ ~At(p, "idle")
      BY <2>5 DEF ExtractNothing, Finish, TaskMoves, Becomes, At
    <3> QED
      BY <2>1, <3>1, <3>2, LeavesInv
  <2>6. CASE Read(p)
    <3>1. ~At(p, "idle") /\ ~At(p, "recognise") /\ Ready /\ image.name = "tesseract"
      BY <2>6 DEF Read, At, IInv, HoldsOwn, Holds, Ready
    <3>2. CASE Fetchable(Doc(p)) /\ Go(p, "rasterise")
      BY <2>1, <3>1, <3>2, GoInv
    <3> QED
      BY <2>2, <2>6, <3>1, <3>2, NamedFailures DEF Read
  <2>7. CASE Rasterise(p)
    <3>1. /\ ~At(p, "idle") /\ ~At(p, "recognise") /\ Ready
          /\ image.name = "tesseract" /\ Fetchable(Doc(p))
      BY <2>7 DEF Rasterise, At, IInv, HoldsOwn, Holds, Doc
    <3>2. CASE Go(p, "recognise")
      BY <2>1, <3>1, <3>2, GoInv
    <3> QED
      BY <2>2, <2>7, <3>1, <3>2, NamedFailures DEF Rasterise
  <2>8. CASE Recognise(p)
    BY <2>1, <2>8, RecogniseInv
  <2>9. CASE SoftTimeLimit(p)
    BY <2>2, <2>9, NamedFailures DEF SoftTimeLimit
  <2>10. CASE HardTimeLimit(p)
    BY <2>1, <2>10, NamedFailures, OutcomeType, RaiseMoves, LeavesInv DEF HardTimeLimit, Becomes
  <2>11. CASE LogScheme(p)
    BY <2>2, <2>11, NamedFailures DEF LogScheme, At
  <2> QED
    BY <1>1, <2>3, <2>4, <2>5, <2>6, <2>7, <2>8, <2>9, <2>10, <2>11 DEF Work
<1>2. ASSUME NEW p \in Processes, Kill(p), given' = given PROVE IInv'
  <2>1. kills' \in 0..MaxKills
    <3>1. kills \in 0..MaxKills
      BY DEF IInv, TypeOK
    <3> QED
      BY <1>2, <3>1, Limits DEF Kill
  <2>2. Doc(p) \in Documents /\ worker[p] \in WorkerRecord
    BY <1>2, WorkerType DEF Kill, IInv, HoldsOwn, Holds, At, Doc
  <2>3. Becomes(p, Fresh) /\ Fresh \in WorkerRecord /\ Holds(Fresh)
    BY <1>2, <2>2, AfterType DEF Kill, Becomes, Holds
  <2> QED
    BY <1>2, <2>1, <2>2, <2>3, BecomesInv DEF Kill, IInv, TypeOK
<1>3. CASE UNCHANGED vars
  BY <1>3 DEF vars, given, IInv, TypeOK, HoldsOwn, Holds, AreWordsTo, Ready, Fetchable, NoBoto3
<1> QED
  BY <1>1, <1>2, <1>3 DEF Next

LEMMA IInvInit == Init => IInv
<1> SUFFICES ASSUME Init PROVE IInv
  OBVIOUS
<1>1. Fresh \in WorkerRecord /\ Holds(Fresh)
  <2>1. 0 \in 0..MaxPages /\ <<>> \in Seq(1..MaxPages) /\ 0 \in 0..(TasksPerChild - 1)
    BY Limits
  <2> QED
    BY <2>1 DEF Fresh, WorkerRecord, Step, Holds
<1>2. 0 \in 0..MaxRetries /\ 0 \in 0..MaxKills
  BY Limits
<1> QED
  BY <1>1, <1>2, OutcomeType DEF Init, IInv, TypeOK, HoldsOwn, WorkerRecord

LEMMA Invariant == Spec => []IInv
BY IInvInit, IInvStep, PTL DEF Spec

\* A task holds at most the pages its document has, and no task is retried
\* more often than the budget allows.
THEOREM TypeCorrect == Spec => []TypeOK
<1>1. IInv => TypeOK
  BY DEF IInv
<1> QED
  BY <1>1, Invariant, PTL

\* A process holds pages of its own document and of this attempt only, and
\* keeps no backend that was not found ready.
THEOREM ProcessesApart == Spec => []HoldsOwn
<1>1. IInv => HoldsOwn
  BY DEF IInv
<1> QED
  BY <1>1, Invariant, PTL

-----------------------------------------------------------------------------
(* What a task may end as.                                                 *)

\* How a step may move the task of a document: it is left alone, it is
\* retried, or it ends, because of one of these.
Cause(p, class) ==
  \/ class = "transient" /\ At(p, "recognise") /\ "language" \in image.lacks
  \/ /\ class = "transient" /\ At(p, "read") /\ image.name # "stub"
     /\ Fetchable(Doc(p)) /\ NoCredentials(Doc(p))
  \/ class = "uncaught" /\ At(p, "read") /\ source[Doc(p)].scheme = "unparsable"
  \/ /\ Doc(p) \in Faulty
     /\ class = "transient" =>
          \/ At(p, "read") /\ image.name # "stub" /\ Fetchable(Doc(p))
          \/ At(p, "recognise")
  \/ class = "agent" /\ At(p, "backend") /\ ~worker[p].kept /\ image.name = "unknown"
  \/ class = "configuration" /\ At(p, "backend") /\ ~worker[p].kept /\ image.name = "tesseract" /\ ~Ready
  \/ class = "agent" /\ At(p, "read") /\ image.name # "stub" /\ source[Doc(p)].scheme = "other"
  \/ class = "configuration" /\ At(p, "read") /\ image.name # "stub" /\ NoBoto3(Doc(p))
  \/ /\ class = "configuration" /\ At(p, "rasterise")
     /\ Paged(Doc(p)) /\ "pdf2image" \in image.lacks
  \/ class = "agent" /\ At(p, "rasterise") /\ source[Doc(p)].format = "tiff"

Tasks ==
  \/ UNCHANGED <<retries, outcome>>
  \/ \E p \in Processes, class \in Failure :
       /\ ~At(p, "idle") /\ Cause(p, class)
       /\ TaskMoves(Doc(p), class = "transient", [Pending EXCEPT !.end = class])
  \/ \E p \in Processes :
       /\ At(p, "read") /\ image.name = "stub"
       /\ TaskMoves(Doc(p), FALSE, [Pending EXCEPT !.end = "done"])
  \/ \E p, texts :
       /\ p \in Processes
       /\ At(p, "recognise") /\ AreWordsTo(texts, Doc(p), source[Doc(p)].pages)
       /\ TaskMoves(Doc(p), FALSE, Extraction(Doc(p), texts))

LEMMA TasksStep == IInv /\ [Next]_vars => Tasks
<1> SUFFICES ASSUME IInv, [Next]_vars PROVE Tasks
  OBVIOUS
<1>1. ASSUME NEW p \in Processes, ~At(p, "idle"), NEW class \in Failure, Cause(p, class), Raise(p, class)
      PROVE  Tasks
  BY <1>1, RaiseMoves DEF Tasks
<1>2. ASSUME NEW p \in Processes, Work(p) PROVE Tasks
  <2>1. CASE Take(p)
    BY <2>1 DEF Take, Tasks
  <2>2. CASE GetBackend(p)
    <3>1. ~At(p, "idle") /\ "agent" \in Failure /\ "configuration" \in Failure
      BY <2>2, NamedFailures DEF GetBackend, At
    <3>2. CASE ~worker[p].kept /\ image.name = "unknown" /\ Fail(p, "agent")
      BY <1>1, <2>2, <3>1, <3>2 DEF GetBackend, Fail, Cause
    <3>3. CASE ~worker[p].kept /\ image.name = "tesseract" /\ ~Ready /\ Fail(p, "configuration")
      BY <1>1, <2>2, <3>1, <3>3 DEF GetBackend, Fail, Cause
    <3> QED
      BY <2>2, <3>2, <3>3 DEF GetBackend, Tasks
  <2>3. CASE ExtractNothing(p)
    BY <2>3 DEF ExtractNothing, Finish, TaskMoves, Tasks
  <2>4. CASE Read(p)
    <3>1. ~At(p, "idle") /\ At(p, "read") /\ image.name # "stub"
      BY <2>4 DEF Read, At
    <3>2. ASSUME NEW class \in Failure, Cause(p, class), Fail(p, class) PROVE Tasks
      BY <1>1, <3>1, <3>2 DEF Fail
    <3>3. CASE source[Doc(p)].scheme = "other" /\ Fail(p, RaiseForSource("unsupported scheme"))
      BY <3>1, <3>2, <3>3, NamedFailures DEF Cause
    <3>4. CASE NoBoto3(Doc(p)) /\ Fail(p, RaiseForSource("no boto3"))
      BY <3>1, <3>2, <3>4, NamedFailures DEF Cause
    <3>5. ASSUME Doc(p) \in Faulty, Fetchable(Doc(p)),
                 NEW class \in SourceErrors(source[Doc(p)].scheme), Fail(p, class)
          PROVE  Tasks
      BY <3>1, <3>2, <3>5, NamedFailures DEF Cause
    <3>6. CASE Go(p, "rasterise")
      BY <3>6 DEF Go, Tasks
    <3>7. CASE Fetchable(Doc(p)) /\ NoCredentials(Doc(p)) /\ Fail(p, RaiseForSource("NoCredentialsError"))
      BY <3>1, <3>2, <3>7, NamedFailures DEF Cause
    <3>8. CASE Doc(p) \in Faulty /\ Fail(p, RaiseForSource("malformed uri"))
      BY <3>1, <3>2, <3>8, NamedFailures DEF Cause
    <3> QED
      BY <2>4, <3>3, <3>4, <3>5, <3>6, <3>7, <3>8 DEF Read
  <2>5. CASE Rasterise(p)
    <3>1. ~At(p, "idle") /\ At(p, "rasterise")
      BY <2>5 DEF Rasterise, At
    <3>2. ASSUME NEW class \in Failure, Cause(p, class), Fail(p, class) PROVE Tasks
      BY <1>1, <3>1, <3>2 DEF Fail
    <3>3. CASE Go(p, "recognise")
      BY <3>3 DEF Go, Tasks
    <3>4. CASE Paged(Doc(p)) /\ "pdf2image" \in image.lacks /\ Fail(p, "configuration")
      BY <3>1, <3>2, <3>4, NamedFailures DEF Cause
    <3>5. CASE source[Doc(p)].format = "tiff" /\ Fail(p, "agent")
      BY <3>1, <3>2, <3>5, NamedFailures DEF Cause
    <3>6. ASSUME Doc(p) \in Faulty, NEW class \in {"agent", "uncaught"}, Fail(p, class) PROVE Tasks
      BY <3>2, <3>6, NamedFailures DEF Cause
    <3> QED
      BY <2>5, <3>3, <3>4, <3>5, <3>6 DEF Rasterise
  <2>6. CASE Recognise(p)
    <3> DEFINE d == Doc(p)
               n == worker[p].page + 1
               texts == IF n \in source[d].blank THEN worker[p].texts ELSE Append(worker[p].texts, n)
    <3>1. ~At(p, "idle") /\ At(p, "recognise")
      BY <2>6 DEF Recognise, At
    <3>2. ASSUME NEW class \in Failure, Cause(p, class), Fail(p, class) PROVE Tasks
      BY <1>1, <3>1, <3>2 DEF Fail
    <3>3. CASE UNCHANGED <<queue, retries, outcome>>
      BY <3>3 DEF Tasks
    <3>4. CASE n >= source[d].pages /\ Finish(p, Extraction(d, texts))
      <4>1. worker[p] \in WorkerRecord /\ Holds(worker[p]) /\ worker[p].step = "recognise"
        BY <3>1, WorkerType DEF IInv, HoldsOwn, At
      <4>2. d \in Documents /\ worker[p].page < source[d].pages
            /\ AreWordsTo(worker[p].texts, d, worker[p].page)
        BY <4>1 DEF Holds, Doc
      <4>3. worker[p].texts \in Seq(1..MaxPages) /\ worker[p].page \in 0..MaxPages
            /\ source \in [Documents -> Source]
        BY <4>1, WorkerType DEF WorkerRecord, IInv
      <4>4. AreWordsTo(texts, d, n)
        BY <4>2, <4>3, OneMorePage
      <4>5. source[d].pages \in 1..MaxPages /\ n >= source[d].pages
        BY <3>4, <4>2, WorkerType DEF IInv
      <4>6. n = source[d].pages
        <5> HIDE DEF texts, d
        <5> QED
          BY <4>2, <4>3, <4>5, Limits
      <4> HIDE DEF texts, n
      <4> QED
        BY <3>1, <3>4, <4>4, <4>6 DEF Finish, TaskMoves, Tasks
    <3>5. CASE "language" \in image.lacks /\ Fail(p, "transient")
      BY <3>1, <3>2, <3>5, NamedFailures DEF Cause
    <3>6. ASSUME d \in Faulty, NEW class \in {"transient", "uncaught"}, Fail(p, class) PROVE Tasks
      BY <3>1, <3>2, <3>6, NamedFailures DEF Cause
    <3> QED
      BY <2>6, <3>3, <3>4, <3>5, <3>6 DEF Recognise
  <2>7. CASE SoftTimeLimit(p)
    BY <1>1, <2>7, NamedFailures DEF SoftTimeLimit, Fail, Cause
  <2>8. CASE HardTimeLimit(p)
    BY <1>1, <2>8, NamedFailures DEF HardTimeLimit, Cause
  <2>9. CASE LogScheme(p)
    BY <1>1, <2>9, NamedFailures DEF LogScheme, Fail, Cause, At
  <2> QED
    BY <1>2, <2>1, <2>2, <2>3, <2>4, <2>5, <2>6, <2>7, <2>8, <2>9 DEF Work
<1>3. ASSUME NEW p \in Processes, Kill(p) PROVE Tasks
  BY <1>3 DEF Kill, Tasks
<1>4. CASE UNCHANGED vars
  BY <1>4 DEF vars, Tasks
<1> QED
  BY <1>2, <1>3, <1>4 DEF Next

LEMMA GivenStays == [Next]_vars => UNCHANGED <<image, source>>
BY DEF Next, Work, Kill, vars, given

-----------------------------------------------------------------------------
(* The three promises.                                                     *)

LEMMA WholeStep == IInv /\ ExtractionIsWhole /\ [Next]_vars => ExtractionIsWhole'
<1> SUFFICES ASSUME IInv, ExtractionIsWhole, [Next]_vars PROVE ExtractionIsWhole'
  OBVIOUS
<1>1. image' = image /\ source' = source
  BY GivenStays
<1>2. ASSUME NEW d \in Documents, outcome'[d] = outcome[d] PROVE
        outcome'[d].end = "done" /\ image.name = "tesseract" =>
          outcome'[d].pages = source[d].pages /\ AreWordsTo(outcome'[d].texts, d, source[d].pages)
  BY <1>2 DEF ExtractionIsWhole
<1>3. ASSUME NEW d \in Documents, outcome'[d] # outcome[d] PROVE
        outcome'[d].end = "done" /\ image.name = "tesseract" =>
          outcome'[d].pages = source[d].pages /\ AreWordsTo(outcome'[d].texts, d, source[d].pages)
  <2>1. outcome \in [Documents -> Outcome]
    BY DEF IInv, TypeOK
  <2>2. CASE \E class \in Failure : outcome' = [outcome EXCEPT ![d] = [Pending EXCEPT !.end = class]]
    <3>1. \A class \in Failure : [Pending EXCEPT !.end = class].end # "done"
      BY DEF Pending, Failure, ErrorClass
    <3> QED
      BY <2>1, <2>2, <3>1
  <2>3. CASE image.name = "stub"
    BY <2>3
  <2>4. CASE \E texts : /\ outcome' = [outcome EXCEPT ![d] = Extraction(d, texts)]
                        /\ AreWordsTo(texts, d, source[d].pages)
    BY <2>1, <2>4 DEF Extraction
  <2> QED
    BY <1>3, <2>1, <2>2, <2>3, <2>4, TasksStep DEF Tasks, TaskMoves
<1> QED
  BY <1>1, <1>2, <1>3 DEF ExtractionIsWhole, AreWordsTo

LEMMA PendingEnds ==
  /\ Pending.end = "pending"
  /\ \A class \in Failure : [Pending EXCEPT !.end = class].end = class
  /\ \A d, texts : Extraction(d, texts).end = "done"
  /\ [Pending EXCEPT !.end = "done"].end = "done"
BY DEF Pending, Extraction

LEMMA InitialProperties == Init => ExtractionIsWhole /\ FailsFast /\ SoundDocumentsSucceed
BY PendingEnds DEF Init, ExtractionIsWhole, FailsFast, SoundDocumentsSucceed, Ended

\* A finished document's text has the words of every page of it, in order,
\* whatever attempts of it failed and whatever its process did before.
THEOREM WholeExtraction == Spec => []ExtractionIsWhole
BY InitialProperties, WholeStep, Invariant, PTL DEF Spec

\* Steps of tasks of other documents do not show in a document's.
LEMMA OneTask ==
  ASSUME TypeOK, NEW d \in Documents, NEW e \in Documents, NEW retry, NEW o, TaskMoves(e, retry, o)
  PROVE  /\ e # d => retries'[d] = retries[d] /\ outcome'[d] = outcome[d]
         /\ e = d => \/ retry /\ outcome'[d] = outcome[d]
                     \/ retries'[d] = retries[d] /\ outcome'[d] = o
BY DEF TypeOK, TaskMoves

\* What happened to a document's own task in a step.
LEMMA OwnCause ==
  ASSUME IInv, [Next]_vars, NEW d \in Documents
  PROVE  \/ retries'[d] = retries[d] /\ outcome'[d] = outcome[d]
         \/ \E p \in Processes, class \in Failure :
              /\ ~At(p, "idle") /\ Doc(p) = d /\ Cause(p, class)
              /\ \/ class = "transient" /\ outcome'[d] = outcome[d]
                 \/ retries'[d] = retries[d] /\ outcome'[d].end = class
         \/ \E p \in Processes :
              /\ At(p, "read") \/ At(p, "recognise")
              /\ Doc(p) = d
              /\ retries'[d] = retries[d] /\ outcome'[d].end = "done"
<1>1. Tasks
  BY TasksStep
<1>2. \A p \in Processes : ~At(p, "idle") => Doc(p) \in Documents
  BY DEF IInv, HoldsOwn, Holds, At, Doc
<1>3. CASE UNCHANGED <<retries, outcome>>
  BY <1>3
<1>4. ASSUME NEW p \in Processes, NEW class \in Failure, ~At(p, "idle"), Cause(p, class),
             TaskMoves(Doc(p), class = "transient", [Pending EXCEPT !.end = class])
      PROVE  \/ retries'[d] = retries[d] /\ outcome'[d] = outcome[d]
             \/ /\ Doc(p) = d
                /\ \/ class = "transient" /\ outcome'[d] = outcome[d]
                   \/ retries'[d] = retries[d] /\ outcome'[d].end = class
  <2>1. Doc(p) \in Documents /\ TypeOK
    BY <1>2, <1>4 DEF IInv
  <2> DEFINE o == [Pending EXCEPT !.end = class]
             retry == class = "transient"
  <2>2. o.end = class /\ TaskMoves(Doc(p), retry, o)
    BY <1>4, PendingEnds
  <2> HIDE DEF o
  <2>3. /\ Doc(p) # d => retries'[d] = retries[d] /\ outcome'[d] = outcome[d]
        /\ Doc(p) = d => \/ retry /\ outcome'[d] = outcome[d]
                         \/ retries'[d] = retries[d] /\ outcome'[d] = o
    BY <2>1, <2>2, OneTask
  <2> QED
    BY <2>2, <2>3
<1>5. ASSUME NEW p \in Processes, At(p, "read"),
             TaskMoves(Doc(p), FALSE, [Pending EXCEPT !.end = "done"])
      PROVE  \/ retries'[d] = retries[d] /\ outcome'[d] = outcome[d]
             \/ Doc(p) = d /\ retries'[d] = retries[d] /\ outcome'[d].end = "done"
  BY <1>2, <1>5, OneTask, PendingEnds DEF IInv, At
<1>6. ASSUME NEW p \in Processes, NEW texts, At(p, "recognise"),
             TaskMoves(Doc(p), FALSE, Extraction(Doc(p), texts))
      PROVE  \/ retries'[d] = retries[d] /\ outcome'[d] = outcome[d]
             \/ Doc(p) = d /\ retries'[d] = retries[d] /\ outcome'[d].end = "done"
  <2>1. Doc(p) \in Documents /\ TypeOK
    BY <1>2, <1>6 DEF IInv, At
  <2>2. Extraction(Doc(p), texts).end = "done"
    BY PendingEnds
  <2> QED
    BY <1>6, <2>1, <2>2, OneTask
<1> QED
  BY <1>1, <1>3, <1>4, <1>5, <1>6 DEF Tasks

\* Where a process is says what its image has.
LEMMA WhereReady ==
  ASSUME IInv, NEW p \in Processes
  PROVE  /\ worker[p].kept \/ At(p, "read") \/ At(p, "rasterise") \/ At(p, "recognise") => Ready
         /\ At(p, "rasterise") \/ At(p, "recognise") =>
              image.name = "tesseract" /\ Fetchable(Doc(p))
         /\ image.name \in {"stub", "tesseract", "unknown"}
BY DEF IInv, TypeOK, Name, HoldsOwn, Holds, At, Doc

LEMMA FailsFastStep == IInv /\ FailsFast /\ [Next]_vars => FailsFast'
<1> SUFFICES ASSUME IInv, FailsFast, [Next]_vars PROVE FailsFast'
  OBVIOUS
<1>1. image' = image /\ source' = source
  BY GivenStays
<1> DEFINE Retriable(d) == image.name = "tesseract" /\ Ready /\ Fetchable(d) /\ MayRetry(d)
<1>2. Ready' = Ready /\ \A d : Retriable(d)' = Retriable(d)
  BY <1>1 DEF Ready, Fetchable, NoBoto3, MayRetry, NoCredentials
<1> SUFFICES ASSUME NEW d \in Documents
             PROVE  /\ retries'[d] > 0 => Retriable(d)
                    /\ ~Ready /\ outcome'[d].end # "pending" /\ d \notin Faulty =>
                         outcome'[d].end = IF image.name = "unknown" THEN "agent" ELSE "configuration"
  BY <1>1, <1>2 DEF FailsFast, Ended
<1>3. CASE retries'[d] = retries[d] /\ outcome'[d] = outcome[d]
  BY <1>3 DEF FailsFast, Ended
<1>4. ASSUME NEW p \in Processes, NEW class \in Failure, ~At(p, "idle"), Doc(p) = d, Cause(p, class),
             \/ class = "transient" /\ outcome'[d] = outcome[d]
             \/ retries'[d] = retries[d] /\ outcome'[d].end = class
      PROVE  /\ retries'[d] > 0 => Retriable(d)
             /\ ~Ready /\ outcome'[d].end # "pending" /\ d \notin Faulty =>
                  outcome'[d].end = IF image.name = "unknown" THEN "agent" ELSE "configuration"
  <2>1. class = "transient" => Retriable(d)
    <3>1. \/ At(p, "recognise") /\ ("language" \in image.lacks \/ d \in Faulty)
          \/ /\ At(p, "read") /\ image.name # "stub" /\ Fetchable(d)
             /\ NoCredentials(d) \/ d \in Faulty
          \/ class # "transient"
      BY <1>4 DEF Cause
    <3>2. CASE At(p, "recognise")
      BY <1>4, <3>1, <3>2, WhereReady DEF MayRetry, At
    <3>3. CASE At(p, "read")
      <4>1. Ready
        BY <3>3, WhereReady
      <4>2. image.name # "stub" => image.name = "tesseract"
        BY <4>1 DEF Ready
      <4> QED
        BY <3>1, <3>3, <4>1, <4>2 DEF MayRetry, At
    <3> QED
      BY <3>1, <3>2, <3>3
  <2>2. ~Ready /\ d \notin Faulty => class = IF image.name = "unknown" THEN "agent" ELSE "configuration"
    BY <1>4, WhereReady DEF Cause
  <2>3. CASE class = "transient" /\ outcome'[d] = outcome[d]
    BY <2>1, <2>3 DEF FailsFast, Ended
  <2>4. CASE retries'[d] = retries[d] /\ outcome'[d].end = class
    BY <2>2, <2>4 DEF FailsFast
  <2> QED
    BY <1>4, <2>3, <2>4
<1>5. ASSUME NEW p \in Processes, At(p, "read") \/ At(p, "recognise"),
             retries'[d] = retries[d]
      PROVE  (retries'[d] > 0 => Retriable(d)) /\ Ready
  BY <1>5, WhereReady DEF FailsFast
<1> QED
  BY <1>3, <1>4, <1>5, OwnCause

\* A retry is spent only on a ready backend and a uri that can be fetched, for
\* a fault of the document or of its source, or for want of language data or
\* of credentials for an s3 source; and a backend that is not ready fails
\* every sound document the same way.
THEOREM FailFast == Spec => []FailsFast
BY InitialProperties, FailsFastStep, Invariant, PTL DEF Spec

LEMMA SoundStep == IInv /\ SoundDocumentsSucceed /\ [Next]_vars => SoundDocumentsSucceed'
<1> SUFFICES ASSUME IInv, SoundDocumentsSucceed, [Next]_vars,
                    NEW d \in Documents \ Faulty, Serviceable(d)
             PROVE  outcome'[d].end \in {"pending", "done"}
  BY GivenStays DEF SoundDocumentsSucceed, Serviceable, Ready, Fetchable, NoBoto3, NoCredentials
<1>1. outcome[d].end \in {"pending", "done"}
  BY DEF SoundDocumentsSucceed
<1>2. ASSUME NEW p \in Processes, NEW class, Doc(p) = d, Cause(p, class) PROVE FALSE
  <2>1. image.name = "stub" \/ Ready
    BY DEF Serviceable
  <2>2. Ready
    BY <2>1 DEF Ready
  <2>3. d \notin Faulty /\ Doc(p) = d
    BY <1>2
  <2>4. CASE image.name = "stub" /\ source[d].scheme # "unparsable"
    BY <1>2, <2>2, <2>3, <2>4, WhereReady DEF Cause, Ready, At
  <2>5. CASE /\ image.name = "tesseract" /\ "language" \notin image.lacks
             /\ Fetchable(d) /\ ~NoCredentials(d)
             /\ source[d].format # "tiff" /\ (source[d].format = "pdf" => "pdf2image" \notin image.lacks)
    <3>1. source[d].scheme \in Supported /\ ~NoBoto3(d)
      BY <2>5 DEF Fetchable
    <3>2. source[d].scheme # "unparsable" /\ source[d].scheme # "other"
      BY <3>1 DEF Supported
    <3>3. Paged(d) => "pdf2image" \notin image.lacks
      BY <2>5 DEF Paged
    <3> QED
      BY <1>2, <2>2, <2>3, <2>5, <3>1, <3>2, <3>3 DEF Cause
  <2> QED
    BY <2>4, <2>5 DEF Serviceable
<1> QED
  BY <1>1, <1>2, OwnCause

\* A document that does no harm itself, on an image with all it needs, never
\* fails, whatever documents its process had before and whenever a process is
\* killed.
THEOREM SoundSucceed == Spec => []SoundDocumentsSucceed
BY InitialProperties, SoundStep, Invariant, PTL DEF Spec
=============================================================================
