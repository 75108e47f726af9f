----------------------------- MODULE StatusRead -----------------------------
(***************************************************************************)
(* GET /tasks/{id}: dispatch.get_status asks Celery's AsyncResult for      *)
(* state, ready(), successful(), result and ready() again.  Each of these  *)
(* fetches the task's record from Redis until one of them has seen a       *)
(* finished record; AsyncResult keeps that one.  Workers write the record, *)
(* and Redis expires it, between any two of them.                          *)
(***************************************************************************)
EXTENDS Naturals, FiniteSets

CONSTANTS
  Clients,     \* concurrent GET requests for one task id
  Values,      \* merged results and exception messages a task may store
  None,        \* an absent field
  MaxWrites    \* bound on the writes to the record

ASSUME WritesAssumption == MaxWrites \in Nat

\* TaskState, and "other" for a Celery state the API does not know.
TaskState == {"PENDING", "STARTED", "RETRY", "SUCCESS", "FAILURE", "REVOKED"}
RawState == TaskState \cup {"other"}
ReadyState == {"SUCCESS", "FAILURE", "REVOKED"}

\* A failure whose exception has no text has no value.
Record == [state : RawState, value : Values \cup {None}]
Blank == [state |-> "PENDING", value |-> None]

ASSUME NoneAssumption == None \notin Values \cup Record

Response == [state : TaskState, ready : BOOLEAN, successful : BOOLEAN \cup {None},
             result : Values \cup {None}, error : Values \cup TaskState \cup {None}]

VARIABLES
  record,    \* the task's record in the backend
  writes,    \* writes to it so far
  pc,        \* the next read of each request
  cache,     \* the finished record its AsyncResult holds
  draft,     \* the fields read so far
  window     \* every record the backend has held since the request began

vars == <<record, writes, pc, cache, draft, window>>
readVars == <<pc, cache, draft>>

NoDraft == [state |-> "PENDING", ready |-> FALSE, successful |-> None,
            result |-> None, error |-> None]

Line == {"idle", "state", "ready", "successful", "result", "error", "reready",
         "done", "unavailable"}

TypeOK ==
  /\ record \in Record
  /\ writes \in 0..MaxWrites
  /\ pc \in [Clients -> Line]
  /\ cache \in [Clients -> Record \cup {None}]
  /\ draft \in [Clients -> Response]
  /\ window \in [Clients -> SUBSET Record]

Init ==
  /\ record = Blank
  /\ writes = 0
  /\ pc = [c \in Clients |-> "idle"]
  /\ cache = [c \in Clients |-> None]
  /\ draft = [c \in Clients |-> NoDraft]
  /\ window = [c \in Clients |-> {}]

-----------------------------------------------------------------------------
(* The backend.                                                            *)

\* What a worker may write over a record: a stored SUCCESS stays, while a
\* failure can be followed by the run of a redelivered message.
Write(w) ==
  /\ record.state # "SUCCESS"
  /\ w.state # "PENDING"
  /\ w.state = "SUCCESS" => w.value # None
  /\ w.state \notin {"SUCCESS", "FAILURE"} => w.value = None
  /\ record' = w

Expire == record # Blank /\ record' = Blank

Backend ==
  /\ Expire \/ \E w \in Record : Write(w)
  /\ writes < MaxWrites
  /\ writes' = writes + 1
  /\ window' = [c \in Clients |-> IF pc[c] = "idle" THEN {} ELSE window[c] \cup {record'}]
  /\ UNCHANGED readVars

-----------------------------------------------------------------------------
(* One request.                                                            *)

Begin(c) ==
  /\ pc[c] = "idle"
  /\ pc' = [pc EXCEPT ![c] = "state"]
  /\ window' = [window EXCEPT ![c] = {record}]
  /\ UNCHANGED <<record, writes, cache, draft>>

\* Fault: every access asks the backend again.
MetaFresh(c) == record

\* What AsyncResult answers from: the record it holds, or a fresh one.
Meta(c) == IF cache[c] # None THEN cache[c] ELSE record

\* Fault: a finished record is not kept.
KeepNothing(c) == UNCHANGED cache

Keep(c) == cache' = [cache EXCEPT ![c] = IF Meta(c).state \in ReadyState THEN Meta(c) ELSE None]

\* Fault: the state is reported as Celery has it.
AnyTaskState(raw) == raw

\* A state the API does not know is reported as PENDING.
ToTaskState(raw) == IF raw \in TaskState THEN raw ELSE "PENDING"

\* One access of AsyncResult at a line of get_status.
Access(c, line, next, response) ==
  /\ pc[c] = line
  /\ pc' = [pc EXCEPT ![c] = next]
  /\ draft' = [draft EXCEPT ![c] = response]
  /\ Keep(c)
  /\ UNCHANGED <<record, writes, window>>

IsReady(c) == Meta(c).state \in ReadyState

ReadState(c) ==
  Access(c, "state", "ready", [draft[c] EXCEPT !.state = ToTaskState(Meta(c).state)])

ReadReady(c) ==
  Access(c, "ready", IF IsReady(c) THEN "successful" ELSE "reready", draft[c])

ReadSuccessful(c) ==
  LET ok == Meta(c).state = "SUCCESS"
  IN Access(c, "successful", IF ok THEN "result" ELSE "error",
            [draft[c] EXCEPT !.successful = ok])

ReadResult(c) ==
  Access(c, "result", "reready", [draft[c] EXCEPT !.result = Meta(c).value])

\* The exception's text, or the state read before where it has none.
ReadError(c) ==
  Access(c, "error", "reready",
         [draft[c] EXCEPT !.error = IF Meta(c).value # None THEN Meta(c).value ELSE draft[c].state])

ReadReadyAgain(c) ==
  Access(c, "reready", "done", [draft[c] EXCEPT !.ready = IsReady(c)])

\* Any of the reads raises when Redis cannot be reached: the caller gets 503.
BackendDown(c) ==
  /\ pc[c] \in {"state", "ready", "successful", "result", "error", "reready"}
  /\ cache[c] = None
  /\ pc' = [pc EXCEPT ![c] = "unavailable"]
  /\ UNCHANGED <<record, writes, cache, draft, window>>

\* The reply is out; the connection serves another request.
Reset(c) ==
  /\ pc[c] \in {"done", "unavailable"}
  /\ pc' = [pc EXCEPT ![c] = "idle"]
  /\ cache' = [cache EXCEPT ![c] = None]
  /\ draft' = [draft EXCEPT ![c] = NoDraft]
  /\ window' = [window EXCEPT ![c] = {}]
  /\ UNCHANGED <<record, writes>>

GetStatus(c) == ReadState(c) \/ ReadReady(c) \/ ReadSuccessful(c) \/ ReadResult(c)
                  \/ ReadError(c) \/ ReadReadyAgain(c) \/ BackendDown(c)

Next == Backend \/ \E c \in Clients : Begin(c) \/ GetStatus(c) \/ Reset(c)

Spec == Init /\ [][Next]_vars

-----------------------------------------------------------------------------
(* What a reply may say.                                                   *)

\* The fields that tell how the task ended, as a record w has them.
OutcomeOf(d, w) ==
  /\ d.successful = (w.state = "SUCCESS")
  /\ d.result = IF w.state = "SUCCESS" THEN w.value ELSE None
  /\ d.error = IF w.state = "SUCCESS" THEN None ELSE IF w.value # None THEN w.value ELSE d.state

\* The outcome in a reply is one the task really had while the request was
\* served: success, result and error come from one record, never from two,
\* although each is a read of its own (get_status, AsyncResult's cache).
OutcomeIsReal ==
  \A c \in Clients :
    pc[c] = "done" /\ draft[c].successful # None =>
      \E w \in window[c] : w.state \in ReadyState /\ OutcomeOf(draft[c], w)

\* A reply that reports a finished state is whole, even if the record expires
\* or is overwritten while it is read (get_status).
FinishedReplyIsWhole ==
  \A c \in Clients : LET d == draft[c] IN
    pc[c] = "done" /\ d.state \in ReadyState =>
      d.ready /\ d.successful = (d.state = "SUCCESS")

\* Behind both: an access answers from a record the backend held meanwhile,
\* and the first finished record a request has seen is the one that all its
\* later lines answer from (AsyncResult's cache).
NoOutcome(d) == d.successful = None /\ d.result = None /\ d.error = None

Reading(c) ==
  /\ pc[c] = "idle" => cache[c] = None /\ draft[c] = NoDraft
  /\ pc[c] # "idle" => /\ record \in window[c]
                       /\ cache[c] # None => cache[c] \in window[c] /\ cache[c].state \in ReadyState
  /\ pc[c] \in {"successful", "result", "error"} => cache[c] # None
  /\ pc[c] \in {"state", "ready", "successful"} => NoOutcome(draft[c])
  /\ pc[c] = "result" => cache[c].state = "SUCCESS" /\ draft[c].successful = TRUE
  /\ pc[c] = "error" => cache[c].state # "SUCCESS" /\ draft[c].successful = FALSE
  /\ pc[c] \in {"result", "error"} => draft[c].result = None /\ draft[c].error = None
  /\ pc[c] \in {"reready", "done"} =>
       \/ NoOutcome(draft[c]) /\ draft[c].state \notin ReadyState
       \/ cache[c] # None /\ OutcomeOf(draft[c], cache[c])
  /\ pc[c] \notin {"idle", "state", "unavailable"} /\ draft[c].state \in ReadyState =>
       cache[c] # None /\ cache[c].state = draft[c].state
  /\ pc[c] = "done" /\ cache[c] # None => draft[c].ready = TRUE

ReadInv == \A c \in Clients : Reading(c)

\* README.md:268 says of this endpoint "task state, and the merged result once
\* ready": a reply that says ready tells how the task ended.
ReadyHasOutcome ==
  \A c \in Clients : pc[c] = "done" /\ draft[c].ready => draft[c].successful # None
=============================================================================
