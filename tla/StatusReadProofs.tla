-------------------------- MODULE StatusReadProofs --------------------------
(***************************************************************************)
(* Theorems about StatusRead, for every number of concurrent requests, of  *)
(* writes and of expiries: each reply tells of one record.                 *)
(***************************************************************************)
EXTENDS StatusRead, TLAPS

LEMMA BlankType == Blank \in Record /\ NoDraft \in Response
BY DEF Blank, Record, RawState, TaskState, NoDraft, Response

\* What an access answers from and leaves in the cache.
LEMMA MetaType ==
  ASSUME TypeOK, NEW c \in Clients
  PROVE  /\ Meta(c) \in Record
         /\ Keep(c) => cache' \in [Clients -> Record \cup {None}]
BY DEF TypeOK, Meta, Keep

LEMMA AccessType ==
  ASSUME TypeOK, NEW c \in Clients, NEW line, NEW next \in Line, NEW response \in Response,
         Access(c, line, next, response)
  PROVE  TypeOK'
BY MetaType DEF TypeOK, Access

\* The fields a line of get_status fills in.
LEMMA FieldType ==
  ASSUME NEW d \in Response, NEW w \in Record
  PROVE  /\ [d EXCEPT !.state = ToTaskState(w.state)] \in Response
         /\ [d EXCEPT !.successful = (w.state = "SUCCESS")] \in Response
         /\ [d EXCEPT !.result = w.value] \in Response
         /\ [d EXCEPT !.error = IF w.value # None THEN w.value ELSE d.state] \in Response
         /\ [d EXCEPT !.ready = (w.state \in ReadyState)] \in Response
<1>1. [d EXCEPT !.state = ToTaskState(w.state)] \in Response
  BY DEF Response, ToTaskState, TaskState
<1>2. ASSUME NEW b \in BOOLEAN
      PROVE  [d EXCEPT !.successful = b] \in Response /\ [d EXCEPT !.ready = b] \in Response
  BY DEF Response
<1>3. (w.state = "SUCCESS") \in BOOLEAN /\ (w.state \in ReadyState) \in BOOLEAN
  OBVIOUS
<1>4. [d EXCEPT !.result = w.value] \in Response
  BY DEF Response, Record
<1>5. [d EXCEPT !.error = IF w.value # None THEN w.value ELSE d.state] \in Response
  BY DEF Response, Record
<1> QED
  BY <1>1, <1>2, <1>3, <1>4, <1>5

LEMMA TypeStep == TypeOK /\ [Next]_vars => TypeOK'
<1> SUFFICES ASSUME TypeOK, [Next]_vars PROVE TypeOK'
  OBVIOUS
<1>1. CASE Backend
  <2>1. record' \in Record
    BY <1>1, BlankType DEF Backend, Expire, Write
  <2>2. writes' \in 0..MaxWrites
    BY <1>1, WritesAssumption DEF Backend, TypeOK
  <2>3. window' \in [Clients -> SUBSET Record]
    BY <1>1, <2>1 DEF Backend, TypeOK
  <2> QED
    BY <1>1, <2>1, <2>2, <2>3 DEF Backend, readVars, TypeOK
<1>2. ASSUME NEW c \in Clients, Begin(c) PROVE TypeOK'
  BY <1>2 DEF Begin, TypeOK, Line
<1>3. ASSUME NEW c \in Clients, GetStatus(c) PROVE TypeOK'
  <2>1. draft[c] \in Response /\ Meta(c) \in Record
    BY MetaType DEF TypeOK
  <2>2. \A line \in {"ready", "reready", "successful", "result", "error", "done"} : line \in Line
    BY DEF Line
  <2>3. CASE ReadState(c)
    BY <2>1, <2>2, <2>3, FieldType, AccessType DEF ReadState
  <2>4. CASE ReadReady(c)
    BY <2>1, <2>2, <2>4, AccessType DEF ReadReady
  <2>5. CASE ReadSuccessful(c)
    BY <2>1, <2>2, <2>5, FieldType, AccessType DEF ReadSuccessful
  <2>6. CASE ReadResult(c)
    BY <2>1, <2>2, <2>6, FieldType, AccessType DEF ReadResult
  <2>7. CASE ReadError(c)
    BY <2>1, <2>2, <2>7, FieldType, AccessType DEF ReadError
  <2>8. CASE ReadReadyAgain(c)
    BY <2>1, <2>2, <2>8, FieldType, AccessType DEF ReadReadyAgain, IsReady
  <2>9. CASE BackendDown(c)
    BY <2>9 DEF BackendDown, TypeOK, Line
  <2> QED
    BY <1>3, <2>3, <2>4, <2>5, <2>6, <2>7, <2>8, <2>9 DEF GetStatus
<1>4. ASSUME NEW c \in Clients, Reset(c) PROVE TypeOK'
  BY <1>4, BlankType DEF Reset, TypeOK, Line
<1>5. CASE UNCHANGED vars
  BY <1>5 DEF vars, TypeOK
<1> QED
  BY <1>1, <1>2, <1>3, <1>4, <1>5 DEF Next

LEMMA TypeInit == Init => TypeOK
BY BlankType, WritesAssumption DEF Init, TypeOK, Line

\* Every reply is one that the response model of GET /tasks/{id} admits.
THEOREM TypeCorrect == Spec => []TypeOK
BY TypeInit, TypeStep, PTL DEF Spec

-----------------------------------------------------------------------------
(* The cache: the first finished record seen answers every later line.     *)

\* A record is told apart from no record.
LEMMA NotNone == \A w \in Record : w # None
BY NoneAssumption

\* An access leaves the record it answered from in the cache if it is a
\* finished one, and never a record the backend did not hold meanwhile.
Answers(c, line, next, response) ==
  /\ pc[c] = line
  /\ Meta(c) \in window[c] /\ Meta(c) \in Record
  /\ pc'[c] = next /\ draft'[c] = response
  /\ record' = record /\ window' = window
  /\ cache'[c] = IF IsReady(c) THEN Meta(c) ELSE None
  /\ cache'[c] # None <=> IsReady(c)
  /\ cache[c] # None => IsReady(c) /\ Meta(c) = cache[c]

LEMMA AccessKeeps ==
  ASSUME TypeOK, NEW c \in Clients, Reading(c), NEW line, NEW next, NEW response,
         Access(c, line, next, response), line # "idle"
  PROVE  Answers(c, line, next, response)
BY MetaType, NotNone DEF TypeOK, Access, Keep, Meta, IsReady, Reading, Answers

LEMMA OthersKept ==
  ASSUME NEW c \in Clients, Reading(c), pc'[c] = pc[c], cache'[c] = cache[c],
         draft'[c] = draft[c], record \in window[c] => record' \in window'[c], 
         pc[c] # "idle" => window[c] \subseteq window'[c]
  PROVE  Reading(c)'
BY DEF Reading, NoOutcome, OutcomeOf

LEMMA ReadLine ==
  ASSUME TypeOK, NEW c \in Clients, Reading(c), GetStatus(c)
  PROVE  Reading(c)'
<1> DEFINE d == draft[c]
           ok == Meta(c).state = "SUCCESS"
<1>1. d \in Response
  BY DEF TypeOK
<1>2. CASE ReadState(c)
  <2>1. Answers(c, "state", "ready", [d EXCEPT !.state = ToTaskState(Meta(c).state)])
    BY <1>2, AccessKeeps DEF ReadState
  <2> QED
    BY <1>1, <2>1 DEF Answers, Reading, Response, NoOutcome, ToTaskState, ReadyState, IsReady
<1>3. CASE ReadReady(c)
  <2>1. Answers(c, "ready", IF IsReady(c) THEN "successful" ELSE "reready", d)
    BY <1>3, AccessKeeps DEF ReadReady
  <2> QED
    BY <1>1, <2>1 DEF Answers, Reading, Response, NoOutcome, IsReady
<1>4. CASE ReadSuccessful(c)
  <2>1. Answers(c, "successful", IF ok THEN "result" ELSE "error", [d EXCEPT !.successful = ok])
    BY <1>4, AccessKeeps DEF ReadSuccessful
  <2> QED
    BY <1>1, <2>1 DEF Answers, Reading, Response, NoOutcome, IsReady
<1>5. CASE ReadResult(c)
  <2>1. Answers(c, "result", "reready", [d EXCEPT !.result = Meta(c).value])
    BY <1>5, AccessKeeps DEF ReadResult
  <2> QED
    BY <1>1, <2>1 DEF Answers, Reading, Response, OutcomeOf, IsReady
<1>6. CASE ReadError(c)
  <2>1. Answers(c, "error", "reready",
         [d EXCEPT !.error = IF Meta(c).value # None THEN Meta(c).value ELSE d.state])
    BY <1>6, AccessKeeps DEF ReadError
  <2> QED
    BY <1>1, <2>1 DEF Answers, Reading, Response, OutcomeOf, IsReady
<1>7. CASE ReadReadyAgain(c)
  <2>1. Answers(c, "reready", "done", [d EXCEPT !.ready = IsReady(c)])
    BY <1>7, AccessKeeps DEF ReadReadyAgain
  <2> QED
    BY <1>1, <2>1 DEF Answers, Reading, Response, NoOutcome, OutcomeOf, IsReady
<1>8. CASE BackendDown(c)
  BY <1>8 DEF BackendDown, Reading, TypeOK
<1> QED
  BY <1>2, <1>3, <1>4, <1>5, <1>6, <1>7, <1>8 DEF GetStatus

LEMMA ReadStep == TypeOK /\ ReadInv /\ [Next]_vars => ReadInv'
<1> SUFFICES ASSUME TypeOK, ReadInv, [Next]_vars, NEW c \in Clients PROVE Reading(c)'
  BY DEF ReadInv
<1>1. Reading(c)
  BY DEF ReadInv
<1>2. CASE Backend
  BY <1>1, <1>2, OthersKept DEF Backend, readVars, TypeOK, Reading
<1>3. ASSUME NEW x \in Clients, Begin(x) \/ GetStatus(x) \/ Reset(x), x # c PROVE Reading(c)'
  BY <1>1, <1>3, OthersKept DEF Begin, GetStatus, Reset, ReadState, ReadReady, ReadSuccessful, ReadResult,
     ReadError, ReadReadyAgain, BackendDown, Access, Keep, TypeOK
<1>4. CASE Begin(c)
  BY <1>1, <1>4 DEF Begin, Reading, TypeOK, NoDraft, NoOutcome, ReadyState
<1>5. CASE GetStatus(c)
  BY <1>1, <1>5, ReadLine
<1>6. CASE Reset(c)
  BY <1>6 DEF Reset, Reading, TypeOK, NoDraft
<1>7. CASE UNCHANGED vars
  BY <1>1, <1>7, OthersKept DEF vars
<1> QED
  BY <1>2, <1>3, <1>4, <1>5, <1>6, <1>7 DEF Next

LEMMA ReadInit == Init => ReadInv
BY DEF Init, ReadInv, Reading, NoDraft

\* The lines of one request answer from the first finished record any of them
\* has seen, whatever is written and expires between them.
THEOREM OneRecord == Spec => []ReadInv
BY ReadInit, ReadStep, TypeCorrect, PTL DEF Spec

\* No reply mixes two records: the outcome it tells is one the task had while
\* the request was served.
THEOREM RealOutcome == Spec => []OutcomeIsReal
<1>1. ReadInv => OutcomeIsReal
  BY DEF ReadInv, Reading, OutcomeIsReal, NoOutcome
<1> QED
  BY <1>1, OneRecord, PTL

\* A reply whose state is a finished one says that it is ready, and tells the
\* same end as the state does.
THEOREM WholeReply == Spec => []FinishedReplyIsWhole
<1>1. ReadInv => FinishedReplyIsWhole
  BY DEF ReadInv, Reading, FinishedReplyIsWhole, OutcomeOf
<1> QED
  BY <1>1, OneRecord, PTL
=============================================================================
