---------------------------- MODULE WorkflowInv ----------------------------
(***************************************************************************)
(* The inductive invariants behind the safety properties of Workflow: what *)
(* messages and results may say (Sound), without crashes that a task of a  *)
(* document is in one place at a time (Unique) and runs to one end (Ends), *)
(* and with them what a task that runs again cannot do (MissingInv,        *)
(* StrandInv).                                                             *)
(***************************************************************************)
EXTENDS Workflow

\* What a process w that publishes a continuation of a document q holds: the
\* head publishes its header, a link collect.
Publishing(q, w) ==
  /\ w.msg.task \in HeaderTask
  /\ IF IsHead(q, w.msg.task) THEN w.todo \subseteq Header(q)
     ELSE w.todo \subseteq {"collect"} /\ IsLink(q, w.msg.task)

PublishInv == \A s \in Slots : At(s, "publish") => Publishing(Query(s), slot[s])

TypeInv == TypeOK /\ PublishInv

-----------------------------------------------------------------------------
(* Sound: results are of agents asked for, made from OCR text exactly when *)
(* OCR ran ahead of them or is the agent itself.                           *)

ItemSound(q, i) ==
  /\ i.agent \in q.agents
  /\ i.text \in IF HasHead(q) \/ i.agent = "ocr" THEN Texts ELSE {None}

ResultSound(q, t, text) ==
  /\ AgentOf(t) \in q.agents
  /\ text \in IF HasHead(q) \/ AgentOf(t) = "ocr" THEN Texts ELSE {None}

MessageSound(m) ==
  LET q == request[m.req] IN
    IF m.task = "collect" THEN \A i \in m.items : ItemSound(q, i)
    ELSE /\ m.task \in Header(q) \cup FirstTasks(q)
         /\ m.text \in IF HasHead(q) /\ m.task # "ocr" THEN Texts ELSE {None}

WorkerSound(w) ==
  /\ MessageSound(w.msg)
  /\ w.step = "publish" \/ (w.step = "store" /\ w.ok)
       => ResultSound(request[w.msg.req], w.msg.task, w.text)

PartSound(r, p) ==
  /\ p.task \in Header(request[r])
  /\ p.ok => ResultSound(request[r], p.task, p.text)

Sound ==
  /\ \A r \in Requests : unsent[r] \subseteq FirstTasks(request[r])
  /\ \A m \in DOMAIN queue : MessageSound(m)
  /\ \A s \in Slots : ~At(s, "idle") => WorkerSound(slot[s])
  /\ \A r \in Requests : \A p \in parts[r] : PartSound(r, p)
  /\ \A r \in Requests : \A i \in payload[r] : ItemSound(request[r], i)

\* OCR gives the same text whenever it runs.
Idempotent == \A v, w \in Texts : v = w

-----------------------------------------------------------------------------
(* Unique: without crashes a task of a document is unpublished, queued,    *)
(* running, still to be published by its head, or counted, and only one of *)
(* these.                                                                  *)

Place(kind, at) == [kind |-> kind, at |-> at]

Working(s) == slot[s].step \in {"run", "publish", "store"}

QueuePlaces(r, t) == {Place("queue", m) : m \in {n \in DOMAIN queue : n.req = r /\ n.task = t}}
SlotPlaces(r, t)  == {Place("slot", s) : s \in {x \in Slots : Working(x) /\ Req(x) = r /\ Msg(x).task = t}}
TodoPlaces(r, t)  == {Place("todo", s) : s \in {x \in Slots : At(x, "publish") /\ Req(x) = r /\ t \in slot[x].todo}}
PartPlaces(r, t)  == {Place("part", p) : p \in {x \in parts[r] : x.task = t}}
UnsentPlaces(r, t) == {Place("unsent", x) : x \in unsent[r] \cap {t}}

Places(r, t) == UnsentPlaces(r, t) \cup QueuePlaces(r, t) \cup SlotPlaces(r, t)
                  \cup TodoPlaces(r, t) \cup PartPlaces(r, t)

Unique ==
  /\ \A r \in Requests, t \in HeaderTask : \A x, y \in Places(r, t) : x = y
  /\ \A m \in DOMAIN queue : m.task # "collect" => queue[m] = 1

\* Until the head returns, no task of its header is anywhere.
HeadFirst ==
  \A r \in Requests : HasHead(request[r]) =>
    \A x \in Places(r, "ocr") :
      \/ x.kind = "slot" /\ At(x.at, "publish")
      \/ \A t \in Header(request[r]) : Places(r, t) = {}

\* The one task that saw the chord complete has a result of every header
\* task in front of it until it has cleared them.
ChordFull ==
  \A s \in Slots : At(s, "fire") \/ At(s, "clear") =>
    /\ {p.task : p \in parts[Req(s)]} = Header(Query(s))
    /\ \A x \in Slots : (At(x, "fire") \/ At(x, "clear")) /\ Req(x) = Req(s) => x = s

\* What collect is given covers the agents asked for.
MessageComplete(m) == m.task = "collect" => Agents(m.items) = request[m.req].agents

CollectComplete ==
  /\ \A m \in DOMAIN queue : MessageComplete(m)
  /\ \A s \in Slots : At(s, "run") => MessageComplete(Msg(s))

OnceInv == Unique /\ HeadFirst /\ ChordFull /\ CollectComplete /\ PayloadComplete

-----------------------------------------------------------------------------
(* Ends: without crashes a document ends once.  Its terminal task is about *)
(* to be called, queued, running or answered, and only one of these, and   *)
(* then no other task of it is on its way.                                 *)

Ending(s) == At(s, "fire") \/ (At(s, "run") /\ Msg(s).task = "collect")

Ends(r) ==
  {Place("queue", m) : m \in {n \in DOMAIN queue : n.req = r /\ n.task = "collect"}}
    \cup {Place("slot", s) : s \in {x \in Slots : Ending(x) /\ Req(x) = r}}
    \cup (IF Ready(r) THEN {Place("answer", r)} ELSE {})

\* Every task of the header has returned, or will never be published.
Counted(r) ==
  /\ unsent[r] = {}
  /\ \A m \in DOMAIN queue : m.req = r => m.task = "collect"
  /\ \A s \in Slots : Working(s) /\ Req(s) = r => Msg(s).task = "collect"

OneEnd ==
  \A r \in Requests :
    /\ Ends(r) # {} => Counted(r)
    /\ \A x, y \in Ends(r) : x = y

OneCollect == \A m \in DOMAIN queue : m.task = "collect" => queue[m] = 1

\* A process publishes as long as it has something to publish, and stores
\* results of header tasks and heads only.
Continues ==
  \A s \in Slots :
    /\ At(s, "publish") => slot[s].todo # {}
    /\ At(s, "store") => Msg(s).task # "collect"

\* A refused submission still has a task to publish, an accepted one has not.
Replied ==
  \A r \in Requests :
    /\ reply[r] = "unavailable" => unsent[r] # {}
    /\ reply[r] = "accepted" => unsent[r] = {}

EndInv == OneEnd /\ OneCollect /\ Continues /\ Replied

-----------------------------------------------------------------------------
(* OneRun: without crashes, all that is behind the head of a pipeline      *)
(* carries the text that one run of it returned.                           *)

MessageCarries(m, v) ==
  IF m.task = "collect" THEN \E i \in m.items : i.text = v ELSE m.task # "ocr" /\ m.text = v

WorkerCarries(w, v) ==
  \/ w.step = "run" /\ MessageCarries(w.msg, v)
  \/ (w.step = "publish" \/ (w.step = "store" /\ w.ok)) /\ w.text = v

Carries(r, v) ==
  \/ \E m \in DOMAIN queue : m.req = r /\ MessageCarries(m, v)
  \/ \E s \in Slots : WorkerCarries(slot[s], v) /\ Req(s) = r
  \/ \E p \in parts[r] : p.ok /\ p.text = v
  \/ \E i \in payload[r] : i.text = v

OneRun ==
  \A r \in Requests :
    /\ payload[r] # {} => Ready(r)
    /\ HasHead(request[r]) => \A v, w \in Text : Carries(r, v) /\ Carries(r, w) => v = w

-----------------------------------------------------------------------------
(* MissingInv: as long as a first task of a document is unpublished, what  *)
(* was published can run, and run again, without completing the chord.     *)

Sent(r) == FirstTasks(request[r]) \ unsent[r]

Incomplete(r) ==
  /\ state[r] # "SUCCESS"
  /\ \A m \in DOMAIN queue : m.req = r => m.task \in Sent(r)
  /\ \A s \in Slots : ~At(s, "idle") /\ Req(s) = r =>
       /\ Msg(s).task \in Sent(r)
       /\ ~At(s, "publish") /\ ~At(s, "clear")
       /\ At(s, "fire") => \E p \in parts[r] : ~p.ok
  /\ \A p \in parts[r] : p.task \in Sent(r)

MissingInv == Replied /\ \A r \in Requests : unsent[r] # {} => Incomplete(r)

-----------------------------------------------------------------------------
(* StrandInv: a document that fails none of its tasks is on its way to     *)
(* collect, or collect was called; a task killed and run again only adds   *)
(* to what is on its way.                                                  *)

Called(r) ==
  \/ \E m \in DOMAIN queue : m.req = r /\ m.task = "collect"
  \/ \E s \in Slots : At(s, "run") /\ Req(s) = r /\ Msg(s).task = "collect"
  \/ state[r] = "SUCCESS"

\* The task t of a document r is to run.
Waiting(r, t) ==
  \/ t \in unsent[r]
  \/ \E m \in DOMAIN queue : m.req = r /\ m.task = t
  \/ \E s \in Slots : At(s, "run") /\ Req(s) = r /\ Msg(s).task = t

\* It ran, and its result is not counted yet.
Returned(r, t) ==
  \E s \in Slots : (At(s, "publish") \/ At(s, "store")) /\ Req(s) = r /\ Msg(s).task = t

\* The head is to publish it.
Behind(r, t) ==
  /\ HasHead(request[r])
  /\ \/ Waiting(r, "ocr")
     \/ \E s \in Slots : At(s, "publish") /\ Req(s) = r /\ t \in slot[s].todo

Covered(r) ==
  \A t \in Header(request[r]) :
    (\E p \in parts[r] : p.task = t) \/ Waiting(r, t) \/ Returned(r, t) \/ Behind(r, t)

\* The chord's size is written, or whoever publishes its last task is to write it.
Armed(r) ==
  IsChord(request[r]) =>
    \/ armed[r] \/ unsent[r] # {}
    \/ HasHead(request[r]) /\ (Waiting(r, "ocr") \/ Returned(r, "ocr"))

Faultless(r) ==
  /\ \A p \in parts[r] : p.ok
  /\ \A s \in Slots : ~At(s, "idle") /\ Req(s) = r =>
       /\ slot[s].ok /\ ~At(s, "clear")
       /\ At(s, "store") => IsMember(Query(s), Msg(s).task)

OnItsWay(r) ==
  Covered(r) /\ Armed(r) /\ Faultless(r) /\ (unsent[r] = {} => Outstanding(r))

StrandInv ==
  Replied /\ \A r \in Requests : ~request[r].faulty => Called(r) \/ OnItsWay(r)

-----------------------------------------------------------------------------

\* Without crashes, however the tasks of a document interleave, retry and fail
\* (tasks/base.py, dispatch.py): each is in one place and runs to one end, its
\* chord is read when full and not later, it is answered once, and what follows
\* its OCR rests on one run of it.
CalmInv == Sound /\ OnceInv /\ EndInv /\ OneRun

\* With redelivery (celery_app.py:51-54): a document published in part never
\* completes its chord, and one that fails none of its tasks has all of them
\* counted or still to run until collect is called.
CrashInv == Sound /\ MissingInv /\ StrandInv
=============================================================================
