--------------------------- MODULE WorkflowProofs ---------------------------
(***************************************************************************)
(* Theorems about Workflow with any number of crashes, for every set of    *)
(* documents, worker processes and bounds.  First, types and the soundness *)
(* of what is on its way for a document.  Then, provided OCR is            *)
(* idempotent: what a caller was refused never succeeds, and a document    *)
(* that fails none of its tasks is never stuck.                            *)
(***************************************************************************)
EXTENDS DispatchProofs, WorkflowInv

-----------------------------------------------------------------------------
(* Bags: what adding and taking a message does to the queue.               *)

LEMMA BagAddType ==
  ASSUME NEW B, NEW x, IsABag(B)
  PROVE  /\ IsABag(BagAdd(B, x))
         /\ DOMAIN BagAdd(B, x) = DOMAIN B \cup {x}
BY DEF IsABag, BagAdd

LEMMA BagRemoveType ==
  ASSUME NEW B, NEW x, IsABag(B)
  PROVE  /\ IsABag(BagRemove(B, x))
         /\ DOMAIN BagRemove(B, x) \subseteq DOMAIN B
BY DEF IsABag, BagRemove

LEMMA EmptyBagType == IsABag(EmptyBag) /\ DOMAIN EmptyBag = {}
BY DEF IsABag, EmptyBag, SetToBag

-----------------------------------------------------------------------------
(* Type correctness.                                                       *)

LEMMA TypeInit == Init => TypeInv
<1> SUFFICES ASSUME Init PROVE TypeInv
  OBVIOUS
<1>1. \A r \in Requests : FirstTasks(request[r]) \in SUBSET Task
  BY HeaderType DEF Init, Task
<1>2. Idle \in Slot
  BY DEF Idle, Slot, Step, Text
<1>3. IsABag(queue) /\ \A m \in DOMAIN queue : m \in Message
  BY EmptyBagType DEF Init
<1>4. crashes \in 0..MaxCrashes
  BY BoundsAssumption DEF Init
<1>5. TypeOK
  BY <1>1, <1>2, <1>3, <1>4 DEF Init, TypeOK, Idle
<1>6. PublishInv
  BY DEF Init, PublishInv, At, Idle
<1> QED
  BY <1>5, <1>6 DEF TypeInv

\* A message of the API or of a continuation is a message.
LEMMA MessageType ==
  ASSUME NEW r \in Requests, NEW t \in Task, NEW text \in Text, NEW items \in SUBSET Item
  PROVE  TaskMessage(r, t, text) \in Message /\ CollectMessage(r, items) \in Message
BY BoundsAssumption DEF TaskMessage, CollectMessage, Message, Task, Text

\* Publishing keeps the queue a bag of messages.
LEMMA QueueAdd ==
  ASSUME TypeInv, NEW m \in Message
  PROVE  /\ IsABag(BagAdd(queue, m))
         /\ \A n \in DOMAIN BagAdd(queue, m) : n \in Message
<1>1. IsABag(queue) /\ \A n \in DOMAIN queue : n \in Message
  BY DEF TypeInv, TypeOK
<1>2. /\ IsABag(BagAdd(queue, m))
      /\ DOMAIN BagAdd(queue, m) = DOMAIN queue \cup {m}
  BY <1>1, BagAddType
<1> QED
  BY <1>1, <1>2

\* The result set of a chord read as what collect is given.
LEMMA ItemsType ==
  ASSUME NEW ps \in SUBSET Part
  PROVE  ItemsOf(ps) \in SUBSET Item
<1> SUFFICES ASSUME NEW p \in ps
             PROVE  [agent |-> AgentOf(p.task), text |-> p.text] \in Item
  BY DEF ItemsOf
<1>1. p \in Part
  OBVIOUS
<1>2. AgentOf(p.task) \in AgentName /\ p.text \in Text
  BY <1>1, AgentOfType DEF Part
<1> QED
  BY <1>2 DEF Item

LEMMA MergesType ==
  ASSUME NEW items \in SUBSET Item, NEW p \in Merges(items)
  PROVE  p \in SUBSET Item
BY DEF Merges

\* A worker at any step but idle holds a message of a submitted document.
LEMMA BusyType ==
  ASSUME TypeInv, NEW s \in Slots, ~At(s, "idle")
  PROVE  /\ Msg(s) \in Message
         /\ Req(s) \in Requests
         /\ Query(s) \in DocumentRequest
         /\ slot[s] \in Slot
BY DEF TypeInv, TypeOK, At, Msg, Req, Query, Message

LEMMA StoredType ==
  ASSUME TypeInv, NEW r \in Requests, NEW st \in {"STARTED", "SUCCESS", "FAILURE"}
  PROVE  Stored(r, st) \in [Requests -> {"PENDING", "STARTED", "SUCCESS", "FAILURE"}]
BY DEF TypeInv, TypeOK, Stored

\* One worker's step keeps the slots typed.
LEMMA SlotType ==
  ASSUME TypeInv, NEW s \in Slots, NEW w \in Slot,
         slot' = [slot EXCEPT ![s] = w],
         request' = request,
         w.step # "idle" => w.msg \in Message,
         w.step = "publish" => Publishing(request[w.msg.req], w)
  PROVE  /\ slot' \in [Slots -> Slot]
         /\ \A x \in Slots : slot'[x].step # "idle" => slot'[x].msg \in Message
         /\ PublishInv'
BY DEF TypeInv, TypeOK, PublishInv, At, Query, Req, Msg

\* A step that moves a busy worker on and leaves its message alone.
LEMMA SlotMoves ==
  ASSUME TypeInv, NEW s \in Slots, ~At(s, "idle"), NEW step \in {"store", "fire", "clear", "ack"},
         request' = request,
         \/ slot' = [slot EXCEPT ![s].step = step]
         \/ slot' = [slot EXCEPT ![s].step = step, ![s].ok = FALSE]
  PROVE  /\ slot' \in [Slots -> Slot]
         /\ \A x \in Slots : slot'[x].step # "idle" => slot'[x].msg \in Message
         /\ PublishInv'
<1> DEFINE u == [slot[s] EXCEPT !.step = step]
           w == [slot[s] EXCEPT !.step = step, !.ok = FALSE]
<1>1. slot[s] \in Slot /\ slot[s].msg \in Message
  BY BusyType DEF Msg
<1>2. slot' = [slot EXCEPT ![s] = u] \/ slot' = [slot EXCEPT ![s] = w]
  BY DEF TypeInv, TypeOK
<1>3. /\ u \in Slot /\ u.msg \in Message /\ u.step # "publish"
      /\ w \in Slot /\ w.msg \in Message /\ w.step # "publish"
  BY <1>1 DEF Slot, Step
<1> HIDE DEF u, w
<1> QED
  BY <1>2, <1>3, SlotType

LEMMA IdleType == Idle \in Slot /\ Idle.step = "idle"
BY DEF Idle, Slot, Step, Text

\* Every step keeps the types.
LEMMA TypeStep == TypeInv /\ [Next]_vars => TypeInv'
<1> SUFFICES ASSUME TypeInv, [Next]_vars PROVE TypeInv'
  OBVIOUS
<1> USE DEF At
<1>1. ASSUME NEW r \in Requests, NEW t \in Task, Publish(r, t) PROVE TypeInv'
  <2>1. TaskMessage(r, t, None) \in Message
    BY MessageType DEF Text
  <2>2. IsABag(queue') /\ \A m \in DOMAIN queue' : m \in Message
    BY <1>1, <2>1, QueueAdd DEF Publish
  <2>3. Arms(r, unsent[r]) \in BOOLEAN
    BY DEF Arms
  <2> QED
    BY <1>1, <2>2, <2>3 DEF Publish, TypeInv, TypeOK, PublishInv, Query, Req, Msg
<1>2. ASSUME NEW r \in Requests, Accept(r) PROVE TypeInv'
  BY <1>2 DEF Accept, TypeInv, TypeOK, PublishInv, Query, Req, Msg
<1>3. ASSUME NEW r \in Requests, BrokerDown(r) PROVE TypeInv'
  <2>1. Arms(r, unsent[r]) \in BOOLEAN
    BY DEF Arms
  <2> QED
    BY <1>3, <2>1 DEF BrokerDown, TypeInv, TypeOK, PublishInv, Query, Req, Msg
<1>4. ASSUME NEW s \in Slots, Deliver(s) PROVE TypeInv'
  <2>1. PICK m \in DOMAIN queue :
          /\ queue' = BagRemove(queue, m)
          /\ slot' = [slot EXCEPT ![s] = [Idle EXCEPT !.step = "run", !.msg = m]]
          /\ state' = IF m.task = "collect" THEN Stored(m.req, "STARTED") ELSE state
    BY <1>4 DEF Deliver, BagToSet
  <2>2. m \in Message /\ m.req \in Requests
    BY DEF TypeInv, TypeOK, Message
  <2>3. IsABag(queue') /\ \A n \in DOMAIN queue' : n \in Message
    BY <2>1, BagRemoveType DEF TypeInv, TypeOK
  <2> DEFINE w == [Idle EXCEPT !.step = "run", !.msg = m]
  <2>4. w \in Slot /\ w.msg = m /\ w.step = "run"
    BY <2>2 DEF Idle, Slot, Step, Text
  <2> HIDE DEF w
  <2>5. /\ slot' \in [Slots -> Slot]
        /\ \A x \in Slots : slot'[x].step # "idle" => slot'[x].msg \in Message
        /\ PublishInv'
    <3>1. request' = request /\ slot' = [slot EXCEPT ![s] = w]
      BY <1>4, <2>1 DEF Deliver, w
    <3> QED
      BY <2>2, <2>4, <3>1, SlotType
  <2>6. state' \in [Requests -> {"PENDING", "STARTED", "SUCCESS", "FAILURE"}]
    BY <2>1, <2>2, StoredType DEF TypeInv, TypeOK
  <2> QED
    BY <1>4, <2>3, <2>5, <2>6 DEF Deliver, TypeInv, TypeOK
<1>5. ASSUME NEW s \in Slots, Succeed(s) PROVE TypeInv'
  <2> DEFINE next == IF IsHead(Query(s), Msg(s).task) THEN Header(Query(s))
                     ELSE IF IsLink(Query(s), Msg(s).task) THEN {"collect"} ELSE {}
  <2>1. /\ Msg(s) \in Message /\ Query(s) \in DocumentRequest /\ slot[s] \in Slot
        /\ Msg(s).task \in HeaderTask
    BY <1>5, BusyType DEF Succeed, Message, Task
  <2>2. next \in SUBSET Task
    BY <2>1, HeaderType DEF Task
  <2>3. PICK v \in Outcome(Msg(s)) :
          slot' = [slot EXCEPT ![s].step = IF next = {} THEN "store" ELSE "publish",
                               ![s].todo = next,
                               ![s].text = v]
    BY <1>5 DEF Succeed
  <2>4. v \in Text
    BY <2>1 DEF Outcome, Message, Text
  <2> HIDE DEF next
  <2> DEFINE w == [slot[s] EXCEPT !.step = IF next = {} THEN "store" ELSE "publish",
                                  !.todo = next, !.text = v]
  <2>5. slot' = [slot EXCEPT ![s] = w]
    BY <2>3 DEF TypeInv, TypeOK
  <2>6. w \in Slot /\ w.msg = Msg(s)
    BY <2>1, <2>2, <2>4 DEF Slot, Step, Msg
  <2>7. w.step = "publish" => Publishing(Query(s), w)
    BY <2>1, <2>6 DEF Slot, Publishing, next
  <2> HIDE DEF w
  <2>8. /\ slot' \in [Slots -> Slot]
        /\ \A x \in Slots : slot'[x].step # "idle" => slot'[x].msg \in Message
        /\ PublishInv'
    <3>1. request' = request /\ Query(s) = request[w.msg.req]
      BY <1>5, <2>6 DEF Succeed, Query, Req
    <3> QED
      BY <2>1, <2>5, <2>6, <2>7, <3>1, SlotType
  <2> QED
    BY <1>5, <2>8 DEF Succeed, TypeInv, TypeOK
<1>6. ASSUME NEW s \in Slots, Fail(s) PROVE TypeInv'
  BY <1>6, SlotMoves DEF Fail, TypeInv, TypeOK
<1>7. ASSUME NEW s \in Slots, Retry(s) PROVE TypeInv'
  <2>1. Msg(s) \in Message
    BY <1>7, BusyType DEF Retry
  <2>2. [Msg(s) EXCEPT !.retries = @ + 1] \in Message
    BY <1>7, <2>1, BoundsAssumption DEF Retry, Message
  <2> QED
    BY <1>7, <2>2, QueueAdd, SlotMoves DEF Retry, TypeInv, TypeOK
<1>8. ASSUME NEW s \in Slots, Collect(s) PROVE TypeInv'
  <2>1. Msg(s) \in Message /\ Req(s) \in Requests
    BY <1>8, BusyType DEF Collect
  <2>2. \A p \in Merges(Msg(s).items) : p \in SUBSET Item
    BY <2>1, MergesType DEF Message
  <2>3. payload' \in [Requests -> SUBSET Item]
    BY <1>8, <2>1, <2>2 DEF Collect, TypeInv, TypeOK
  <2> QED
    BY <1>8, <2>1, <2>3, SlotMoves, StoredType DEF Collect, TypeInv, TypeOK
<1>9. ASSUME NEW s \in Slots, PublishNext(s) PROVE TypeInv'
  <2>1. PICK t \in slot[s].todo :
          /\ queue' = BagAdd(queue,
               IF t = "collect"
               THEN CollectMessage(Req(s), {[agent |-> AgentOf(Msg(s).task), text |-> slot[s].text]})
               ELSE TaskMessage(Req(s), t, slot[s].text))
          /\ slot' = [slot EXCEPT ![s].todo = @ \ {t},
                                  ![s].step = IF slot[s].todo = {t} THEN "ack" ELSE @]
    BY <1>9 DEF PublishNext
  <2>2. /\ Msg(s) \in Message /\ Req(s) \in Requests /\ slot[s] \in Slot
        /\ Publishing(Query(s), slot[s]) /\ Msg(s).task \in HeaderTask
    BY <1>9, BusyType DEF PublishNext, TypeInv, PublishInv, Publishing, Msg
  <2>3. t \in Task /\ slot[s].text \in Text
    BY <2>2 DEF Slot
  <2>4. {[agent |-> AgentOf(Msg(s).task), text |-> slot[s].text]} \in SUBSET Item
    BY <2>2, <2>3, AgentOfType DEF Item
  <2>5. IsABag(queue') /\ \A m \in DOMAIN queue' : m \in Message
    BY <2>1, <2>2, <2>3, <2>4, MessageType, QueueAdd
  <2> DEFINE w == [slot[s] EXCEPT !.todo = @ \ {t},
                                  !.step = IF slot[s].todo = {t} THEN "ack" ELSE @]
  <2>6. slot' = [slot EXCEPT ![s] = w]
    BY <2>1 DEF TypeInv, TypeOK
  <2>7. w \in Slot /\ w.msg = Msg(s) /\ Publishing(Query(s), w)
    BY <2>2 DEF Slot, Step, Msg, Publishing
  <2> HIDE DEF w
  <2>8. Arms(Req(s), slot[s].todo) \in BOOLEAN
    BY DEF Arms
  <2>9. /\ slot' \in [Slots -> Slot]
        /\ \A x \in Slots : slot'[x].step # "idle" => slot'[x].msg \in Message
        /\ PublishInv'
    <3>1. request' = request /\ Query(s) = request[w.msg.req]
      BY <1>9, <2>7 DEF PublishNext, Query, Req
    <3> QED
      BY <2>2, <2>6, <2>7, <3>1, SlotType
  <2> QED
    BY <1>9, <2>2, <2>5, <2>8, <2>9 DEF PublishNext, TypeInv, TypeOK
<1>10. ASSUME NEW s \in Slots, StoreFailure(s) PROVE TypeInv'
  <2>1. Req(s) \in Requests
    BY <1>10, BusyType DEF StoreFailure
  <2>2. state' \in [Requests -> {"PENDING", "STARTED", "SUCCESS", "FAILURE"}]
    BY <1>10, <2>1, StoredType DEF StoreFailure, TypeInv, TypeOK
  <2> QED
    BY <1>10, <2>2, SlotMoves DEF StoreFailure, TypeInv, TypeOK
<1>11. ASSUME NEW s \in Slots, AddPart(s) PROVE TypeInv'
  <2>1. Req(s) \in Requests /\ Query(s) \in DocumentRequest /\ slot[s] \in Slot
    BY <1>11, BusyType DEF AddPart
  <2>2. Msg(s).task \in HeaderTask
    BY <1>11, <2>1, HeaderType DEF AddPart, IsMember
  <2>3. [task |-> Msg(s).task, ok |-> slot[s].ok, text |-> slot[s].text] \in Part
    BY <2>1, <2>2 DEF Part, Slot
  <2>4. parts' \in [Requests -> SUBSET Part]
    BY <1>11, <2>1, <2>3 DEF AddPart, TypeInv, TypeOK
  <2>5. \E step \in {"fire", "ack"} : slot' = [slot EXCEPT ![s].step = step]
    BY <1>11 DEF AddPart
  <2> QED
    BY <1>11, <2>4, <2>5, SlotMoves DEF AddPart, TypeInv, TypeOK
<1>12. ASSUME NEW s \in Slots, FireBody(s) PROVE TypeInv'
  <2>1. Req(s) \in Requests
    BY <1>12, BusyType DEF FireBody
  <2>2. CollectMessage(Req(s), ItemsOf(parts[Req(s)])) \in Message
    <3>1. parts[Req(s)] \in SUBSET Part
      BY <2>1 DEF TypeInv, TypeOK
    <3> QED
      BY <2>1, <3>1, ItemsType, MessageType DEF Task, Text
  <2>3. IsABag(queue') /\ \A m \in DOMAIN queue' : m \in Message
    BY <1>12, <2>2, QueueAdd DEF FireBody, TypeInv, TypeOK
  <2>4. state' \in [Requests -> {"PENDING", "STARTED", "SUCCESS", "FAILURE"}]
    BY <1>12, <2>1, StoredType DEF FireBody, TypeInv, TypeOK
  <2>5. \E step \in {"clear", "ack"} : slot' = [slot EXCEPT ![s].step = step]
    BY <1>12 DEF FireBody
  <2> QED
    BY <1>12, <2>3, <2>4, <2>5, SlotMoves DEF FireBody, TypeInv, TypeOK
<1>13. ASSUME NEW s \in Slots, ClearChord(s) PROVE TypeInv'
  BY <1>13, BusyType, SlotMoves DEF ClearChord, TypeInv, TypeOK
<1>14. ASSUME NEW s \in Slots, Ack(s) PROVE TypeInv'
  BY <1>14, IdleType, SlotType DEF Ack, TypeInv, TypeOK
<1>15. ASSUME NEW s \in Slots, Crash(s) PROVE TypeInv'
  <2>1. Msg(s) \in Message /\ Req(s) \in Requests
    BY <1>15, BusyType DEF Crash
  <2>2. IsABag(queue') /\ \A m \in DOMAIN queue' : m \in Message
    BY <1>15, <2>1, QueueAdd DEF Crash
  <2>3. Arms(Req(s), slot[s].todo) \in BOOLEAN
    BY DEF Arms
  <2>4. armed' \in [Requests -> BOOLEAN]
    BY <1>15, <2>1, <2>3 DEF Crash, TypeInv, TypeOK
  <2>5. crashes' \in 0..MaxCrashes
    BY <1>15, BoundsAssumption DEF Crash, TypeInv, TypeOK
  <2> QED
    BY <1>15, <2>2, <2>4, <2>5, IdleType, SlotType DEF Crash, TypeInv, TypeOK
<1>16. ASSUME UNCHANGED vars PROVE TypeInv'
  BY <1>16 DEF vars, TypeInv, TypeOK, PublishInv, Query, Req, Msg
<1> QED
  BY <1>1, <1>2, <1>3, <1>4, <1>5, <1>6, <1>7, <1>8, <1>9, <1>10, <1>11, <1>12,
     <1>13, <1>14, <1>15, <1>16 DEF Next, Submit, Work, Finish

LEMMA TypeInvariant == Spec => []TypeInv
<1> QED
  BY TypeInit, TypeStep, PTL DEF Spec

\* Every variable keeps its type, whatever crashes and retries occur.
THEOREM TypeCorrect == Spec => []TypeOK
<1>1. TypeInv => TypeOK
  BY DEF TypeInv
<1> QED
  BY <1>1, TypeInvariant, PTL

-----------------------------------------------------------------------------
(* A result is final.                                                      *)

SuccessKept ==
  \A r \in Requests : state[r] = "SUCCESS" =>
    state'[r] = "SUCCESS" /\ payload'[r] = payload[r]

LEMMA StoredKeeps ==
  ASSUME TypeInv, NEW r \in Requests, NEW u \in Requests, NEW st, state[r] = "SUCCESS"
  PROVE  Stored(u, st)[r] = "SUCCESS"
BY DEF TypeInv, TypeOK, Stored

LEMMA SuccessStep == TypeInv /\ [Next]_vars => SuccessKept
<1> SUFFICES ASSUME TypeInv, [Next]_vars, NEW r \in Requests, state[r] = "SUCCESS"
             PROVE  state'[r] = "SUCCESS" /\ payload'[r] = payload[r]
  BY DEF SuccessKept
<1>1. ASSUME NEW u \in Requests, Submit(u) \/ BrokerDown(u)
      PROVE  state' = state /\ payload' = payload
  BY <1>1 DEF Submit, Publish, Accept, BrokerDown
<1>2. ASSUME NEW s \in Slots, Deliver(s)
      PROVE  state'[r] = "SUCCESS" /\ payload' = payload
  <2>1. PICK m \in DOMAIN queue : state' = IF m.task = "collect" THEN Stored(m.req, "STARTED") ELSE state
    BY <1>2 DEF Deliver, BagToSet
  <2>2. m.req \in Requests
    BY DEF TypeInv, TypeOK, Message
  <2> QED
    BY <1>2, <2>1, <2>2, StoredKeeps DEF Deliver
<1>3. ASSUME NEW s \in Slots, Collect(s)
      PROVE  state'[r] = "SUCCESS" /\ payload'[r] = payload[r]
  <2>1. Req(s) \in Requests
    BY <1>3, BusyType DEF Collect, At
  <2> QED
    BY <1>3, <2>1, StoredKeeps DEF Collect, TypeInv, TypeOK
<1>4. ASSUME NEW s \in Slots, StoreFailure(s) \/ FireBody(s)
      PROVE  state'[r] = "SUCCESS" /\ payload' = payload
  <2>1. Req(s) \in Requests
    BY <1>4, BusyType DEF StoreFailure, FireBody, At
  <2> QED
    BY <1>4, <2>1, StoredKeeps DEF StoreFailure, FireBody
<1>5. ASSUME NEW s \in Slots,
             \/ Succeed(s) \/ Fail(s) \/ Retry(s) \/ PublishNext(s)
             \/ AddPart(s) \/ ClearChord(s) \/ Ack(s) \/ Crash(s)
      PROVE  state' = state /\ payload' = payload
  BY <1>5 DEF Succeed, Fail, Retry, PublishNext, AddPart, ClearChord, Ack, Crash
<1>6. ASSUME UNCHANGED vars PROVE state' = state /\ payload' = payload
  BY <1>6 DEF vars
<1> QED
  BY <1>1, <1>2, <1>3, <1>4, <1>5, <1>6 DEF Next, Work, Finish

-----------------------------------------------------------------------------
(* What messages and results may say.                                      *)

LEMMA SoundInit == Init => Sound
<1> SUFFICES ASSUME Init PROVE Sound
  OBVIOUS
<1>1. DOMAIN queue = {}
  BY EmptyBagType DEF Init
<1> QED
  BY <1>1 DEF Init, Sound, At, Idle

\* What a result says as an item for collect.
LEMMA ResultItem ==
  ASSUME NEW q, NEW t, NEW text, ResultSound(q, t, text)
  PROVE  ItemSound(q, [agent |-> AgentOf(t), text |-> text])
BY DEF ResultSound, ItemSound

\* A task with a sound message returns a sound result.
LEMMA OutcomeSound ==
  ASSUME TypeInv, NEW m \in Message, MessageSound(m), m.task # "collect", NEW v \in Outcome(m)
  PROVE  ResultSound(request[m.req], m.task, v)
<1> DEFINE q == request[m.req]
<1>1. q \in DocumentRequest
  BY DEF TypeInv, TypeOK, Message
<1>2. m.task \in Header(q) \cup FirstTasks(q)
  BY DEF MessageSound
<1>3. m.text \in IF HasHead(q) /\ m.task # "ocr" THEN Texts ELSE {None}
  BY DEF MessageSound
<1> HIDE DEF q
<1>4. AgentOf(m.task) \in q.agents
  BY <1>1, <1>2 DEF DocumentRequest, Header, FirstTasks, HasHead, PostOcr, AgentOf,
     PostOcrTasks, AgentName
<1>5. m.task = "passthrough" => HasHead(q)
  BY <1>1, <1>2 DEF DocumentRequest, Header, FirstTasks, AgentName
<1>6. v \in IF HasHead(q) \/ AgentOf(m.task) = "ocr" THEN Texts ELSE {None}
  BY <1>3, <1>5 DEF Outcome, AgentOf
<1> QED
  BY <1>4, <1>6 DEF ResultSound, q

\* A sound message added keeps the queue sound.
LEMMA QueueSound ==
  ASSUME TypeInv, Sound, NEW m, MessageSound(m), request' = request, queue' = BagAdd(queue, m)
  PROVE  (\A n \in DOMAIN queue : MessageSound(n))'
<1>1. DOMAIN queue' = DOMAIN queue \cup {m}
  BY BagAddType DEF TypeInv, TypeOK
<1> QED
  BY <1>1 DEF Sound, MessageSound, ItemSound

\* One worker moving to a sound state keeps all of them sound.
LEMMA SlotsSound ==
  ASSUME TypeInv, Sound, request' = request, NEW s \in Slots, NEW w,
         slot' = [slot EXCEPT ![s] = w], w.step # "idle" => WorkerSound(w)
  PROVE  (\A x \in Slots : ~At(x, "idle") => WorkerSound(slot[x]))'
BY DEF TypeInv, TypeOK, Sound, At, WorkerSound, MessageSound, ItemSound, ResultSound

\* The same for a worker that only moves on, with nothing new to say.
LEMMA SlotsSoundMove ==
  ASSUME TypeInv, Sound, request' = request, NEW s \in Slots, ~At(s, "idle"),
         NEW step \in {"store", "fire", "clear", "ack"},
         \/ step # "store" /\ slot' = [slot EXCEPT ![s].step = step]
         \/ slot' = [slot EXCEPT ![s].step = step, ![s].ok = FALSE]
  PROVE  (\A x \in Slots : ~At(x, "idle") => WorkerSound(slot[x]))'
<1> DEFINE u == [slot[s] EXCEPT !.step = step]
           w == [slot[s] EXCEPT !.step = step, !.ok = FALSE]
<1>1. slot[s] \in Slot /\ MessageSound(slot[s].msg)
  BY BusyType DEF Sound, WorkerSound
<1>2. \/ slot' = [slot EXCEPT ![s] = u] /\ step # "store"
      \/ slot' = [slot EXCEPT ![s] = w]
  BY DEF TypeInv, TypeOK
<1>3. /\ u.msg = slot[s].msg /\ u.step = step
      /\ w.msg = slot[s].msg /\ w.step = step /\ ~w.ok
  BY <1>1 DEF Slot
<1> HIDE DEF u, w
<1>4. (step # "store" => WorkerSound(u)) /\ WorkerSound(w)
  BY <1>1, <1>3 DEF WorkerSound
<1> QED
  BY <1>2, <1>4, SlotsSound

\* What is left alone stays sound.
LEMMA SoundFrame ==
  ASSUME Sound, request' = request
  PROVE  /\ unsent' = unsent => (\A r \in Requests : unsent[r] \subseteq FirstTasks(request[r]))'
         /\ queue' = queue => (\A m \in DOMAIN queue : MessageSound(m))'
         /\ slot' = slot => (\A s \in Slots : ~At(s, "idle") => WorkerSound(slot[s]))'
         /\ parts' = parts => (\A r \in Requests : \A p \in parts[r] : PartSound(r, p))'
         /\ payload' = payload => (\A r \in Requests : \A i \in payload[r] : ItemSound(request[r], i))'
BY DEF Sound, At, WorkerSound, MessageSound, ItemSound, ResultSound, PartSound

LEMMA SoundStep == TypeInv /\ Sound /\ [Next]_vars => Sound'
<1> SUFFICES ASSUME TypeInv, Sound, [Next]_vars PROVE Sound'
  OBVIOUS
<1> USE DEF At
<1>0. request' = request
  BY DEF Next, Submit, Publish, Accept, BrokerDown, Work, Finish, Deliver, Succeed, Fail, Retry,
     Collect, PublishNext, StoreFailure, AddPart, FireBody, ClearChord, Ack, Crash, vars
<1>1. ASSUME NEW r \in Requests, NEW t \in Task, Publish(r, t) PROVE Sound'
  <2>1. t \in FirstTasks(request[r]) /\ (HasHead(request[r]) => t = "ocr") /\ t # "collect"
    <3>1. t \in FirstTasks(request[r])
      BY <1>1 DEF Publish, Sound
    <3>2. request[r] \in DocumentRequest
      BY DEF TypeInv, TypeOK
    <3> QED
      BY <3>1, <3>2 DEF FirstTasks, Header, DocumentRequest, AgentName
  <2>2. MessageSound(TaskMessage(r, t, None))
    BY <2>1 DEF MessageSound, TaskMessage
  <2>3. (\A m \in DOMAIN queue : MessageSound(m))'
    BY <1>0, <1>1, <2>2, QueueSound DEF Publish
  <2>4. (\A x \in Requests : unsent[x] \subseteq FirstTasks(request[x]))'
    BY <1>0, <1>1 DEF Publish, Sound, TypeInv, TypeOK
  <2> QED
    BY <1>0, <1>1, <2>3, <2>4, SoundFrame DEF Publish, Sound
<1>2. ASSUME NEW r \in Requests, Accept(r) \/ BrokerDown(r) PROVE Sound'
  BY <1>0, <1>2, SoundFrame DEF Accept, BrokerDown, Sound
<1>3. ASSUME NEW s \in Slots, Deliver(s) PROVE Sound'
  <2>1. PICK m \in DOMAIN queue :
          /\ queue' = BagRemove(queue, m)
          /\ slot' = [slot EXCEPT ![s] = [Idle EXCEPT !.step = "run", !.msg = m]]
    BY <1>3 DEF Deliver, BagToSet
  <2> DEFINE w == [Idle EXCEPT !.step = "run", !.msg = m]
  <2>2. w.step = "run" /\ w.msg = m
    BY DEF Idle
  <2>3. slot' = [slot EXCEPT ![s] = w]
    BY <2>1
  <2> HIDE DEF w
  <2>4. WorkerSound(w)
    BY <2>2 DEF WorkerSound, Sound
  <2>5. (\A x \in Slots : ~At(x, "idle") => WorkerSound(slot[x]))'
    BY <1>0, <2>3, <2>4, SlotsSound
  <2>6. DOMAIN queue' \subseteq DOMAIN queue
    BY <2>1, BagRemoveType DEF TypeInv, TypeOK
  <2>7. (\A n \in DOMAIN queue : MessageSound(n))'
    BY <1>0, <2>6 DEF Sound, MessageSound, ItemSound
  <2> QED
    BY <1>0, <1>3, <2>5, <2>7, SoundFrame DEF Deliver, Sound
<1>4. ASSUME NEW s \in Slots, Succeed(s) PROVE Sound'
  <2>1. PICK next \in {{}, {"collect"}, Header(Query(s))}, v \in Outcome(Msg(s)) :
          slot' = [slot EXCEPT ![s].step = IF next = {} THEN "store" ELSE "publish",
                               ![s].todo = next, ![s].text = v]
    BY <1>4 DEF Succeed
  <2> DEFINE w == [slot[s] EXCEPT !.step = IF next = {} THEN "store" ELSE "publish",
                                  !.todo = next, !.text = v]
  <2>2. slot[s] \in Slot /\ Msg(s) \in Message /\ MessageSound(Msg(s))
    BY <1>4, BusyType DEF Succeed, Sound, WorkerSound, Msg
  <2>3. slot' = [slot EXCEPT ![s] = w]
    BY <2>1 DEF TypeInv, TypeOK
  <2>4. w.msg = Msg(s) /\ w.text = v
    BY <2>2 DEF Slot, Msg
  <2> HIDE DEF w
  <2>5. ResultSound(request[Msg(s).req], Msg(s).task, v)
    BY <1>4, <2>2, OutcomeSound DEF Succeed
  <2>6. WorkerSound(w)
    BY <2>2, <2>4, <2>5 DEF WorkerSound
  <2>7. (\A x \in Slots : ~At(x, "idle") => WorkerSound(slot[x]))'
    BY <1>0, <2>3, <2>6, SlotsSound
  <2> QED
    BY <1>0, <1>4, <2>7, SoundFrame DEF Succeed, Sound
<1>5. ASSUME NEW s \in Slots, Fail(s) PROVE Sound'
  BY <1>0, <1>5, SlotsSoundMove, SoundFrame DEF Fail, Sound
<1>6. ASSUME NEW s \in Slots, Retry(s) PROVE Sound'
  <2>1. Msg(s) \in Message /\ MessageSound(Msg(s))
    BY <1>6, BusyType DEF Retry, Sound, WorkerSound, Msg
  <2> DEFINE n == [Msg(s) EXCEPT !.retries = @ + 1]
  <2>2. n.req = Msg(s).req /\ n.task = Msg(s).task /\ n.text = Msg(s).text /\ n.items = Msg(s).items
    BY <2>1 DEF Message
  <2>3. MessageSound(n)
    BY <2>1, <2>2 DEF MessageSound
  <2> HIDE DEF n
  <2>4. (\A m \in DOMAIN queue : MessageSound(m))'
    BY <1>0, <1>6, <2>3, QueueSound DEF Retry, n
  <2> QED
    BY <1>0, <1>6, <2>4, SlotsSoundMove, SoundFrame DEF Retry, Sound
<1>7. ASSUME NEW s \in Slots, Collect(s) PROVE Sound'
  <2>1. Msg(s) \in Message /\ Req(s) \in Requests /\ MessageSound(Msg(s)) /\ Msg(s).task = "collect"
    BY <1>7, BusyType DEF Collect, Sound, WorkerSound, Msg
  <2>2. PICK p \in Merges(Msg(s).items) :
          payload' = [payload EXCEPT ![Req(s)] = IF state[Req(s)] = "SUCCESS" THEN @ ELSE p]
    BY <1>7 DEF Collect
  <2>3. \A i \in p : ItemSound(request[Req(s)], i)
    BY <2>1, <2>2 DEF Merges, MessageSound, Req
  <2>4. (\A r \in Requests : \A i \in payload[r] : ItemSound(request[r], i))'
    BY <1>0, <2>1, <2>2, <2>3 DEF Sound, ItemSound, TypeInv, TypeOK
  <2> QED
    BY <1>0, <1>7, <2>4, SlotsSoundMove, SoundFrame DEF Collect, Sound
<1>8. ASSUME NEW s \in Slots, PublishNext(s) PROVE Sound'
  <2>1. PICK t \in slot[s].todo :
          /\ queue' = BagAdd(queue,
               IF t = "collect"
               THEN CollectMessage(Req(s), {[agent |-> AgentOf(Msg(s).task), text |-> slot[s].text]})
               ELSE TaskMessage(Req(s), t, slot[s].text))
          /\ slot' = [slot EXCEPT ![s].todo = @ \ {t},
                                  ![s].step = IF slot[s].todo = {t} THEN "ack" ELSE @]
    BY <1>8 DEF PublishNext
  <2>2. /\ Msg(s) \in Message /\ Query(s) \in DocumentRequest /\ slot[s] \in Slot
        /\ Publishing(Query(s), slot[s]) /\ WorkerSound(slot[s])
        /\ ResultSound(Query(s), Msg(s).task, slot[s].text)
    BY <1>8, BusyType DEF PublishNext, TypeInv, PublishInv, Sound, WorkerSound, Msg, Query, Req
  <2>3. MessageSound(CollectMessage(Req(s), {[agent |-> AgentOf(Msg(s).task), text |-> slot[s].text]}))
    BY <2>2, ResultItem DEF MessageSound, CollectMessage, Query
  <2>4. ASSUME t # "collect" PROVE MessageSound(TaskMessage(Req(s), t, slot[s].text))
    <3>1. t \in Header(Query(s)) /\ HasHead(Query(s)) /\ Msg(s).task = "ocr"
      BY <2>1, <2>2, <2>4 DEF Publishing, IsHead, Msg
    <3>2. slot[s].text \in Texts /\ t # "ocr"
      BY <2>2, <3>1 DEF ResultSound, Header, PostOcr, PostOcrTasks
    <3> QED
      BY <2>4, <3>1, <3>2 DEF MessageSound, TaskMessage, Query
  <2>5. (\A m \in DOMAIN queue : MessageSound(m))'
    BY <1>0, <2>1, <2>3, <2>4, QueueSound
  <2> DEFINE w == [slot[s] EXCEPT !.todo = @ \ {t},
                                  !.step = IF slot[s].todo = {t} THEN "ack" ELSE @]
  <2>6. slot' = [slot EXCEPT ![s] = w]
    BY <2>1 DEF TypeInv, TypeOK
  <2>7. w.msg = slot[s].msg /\ w.text = slot[s].text
    BY <2>2 DEF Slot
  <2> HIDE DEF w
  <2>8. WorkerSound(w)
    BY <2>2, <2>7 DEF WorkerSound, Query, Req, Msg
  <2>9. (\A x \in Slots : ~At(x, "idle") => WorkerSound(slot[x]))'
    BY <1>0, <2>6, <2>8, SlotsSound
  <2> QED
    BY <1>0, <1>8, <2>5, <2>9, SoundFrame DEF PublishNext, Sound
<1>9. ASSUME NEW s \in Slots, StoreFailure(s) PROVE Sound'
  BY <1>0, <1>9, SlotsSoundMove, SoundFrame DEF StoreFailure, Sound
<1>10. ASSUME NEW s \in Slots, AddPart(s) PROVE Sound'
  <2> DEFINE part == [task |-> Msg(s).task, ok |-> slot[s].ok, text |-> slot[s].text]
  <2>1. Req(s) \in Requests /\ WorkerSound(slot[s])
    BY <1>10, BusyType DEF AddPart, Sound
  <2>2. PartSound(Req(s), part)
    BY <1>10, <2>1 DEF AddPart, IsMember, PartSound, WorkerSound, Query, Req, Msg
  <2>3. parts' = [parts EXCEPT ![Req(s)] = @ \cup {part}]
    BY <1>10 DEF AddPart
  <2> HIDE DEF part
  <2>4. (\A r \in Requests : \A p \in parts[r] : PartSound(r, p))'
    BY <1>0, <2>1, <2>2, <2>3 DEF Sound, PartSound, ResultSound, TypeInv, TypeOK
  <2>5. \E step \in {"fire", "ack"} : slot' = [slot EXCEPT ![s].step = step]
    BY <1>10 DEF AddPart
  <2>6. (\A x \in Slots : ~At(x, "idle") => WorkerSound(slot[x]))'
    BY <1>0, <1>10, <2>5, SlotsSoundMove DEF AddPart
  <2> QED
    BY <1>0, <1>10, <2>4, <2>6, SoundFrame DEF AddPart, Sound
<1>11. ASSUME NEW s \in Slots, FireBody(s) PROVE Sound'
  <2>1. Req(s) \in Requests
    BY <1>11, BusyType DEF FireBody
  <2>2. ASSUME \A p \in parts[Req(s)] : p.ok
        PROVE  MessageSound(CollectMessage(Req(s), ItemsOf(parts[Req(s)])))
    <3>1. \A p \in parts[Req(s)] : ItemSound(Query(s), [agent |-> AgentOf(p.task), text |-> p.text])
      BY <2>1, <2>2, ResultItem DEF Sound, PartSound, Query
    <3> QED
      BY <3>1 DEF MessageSound, CollectMessage, ItemsOf, Query
  <2>3. (\A m \in DOMAIN queue : MessageSound(m))'
    BY <1>0, <1>11, <2>2, QueueSound, SoundFrame DEF FireBody
  <2>4. \E step \in {"clear", "ack"} : slot' = [slot EXCEPT ![s].step = step]
    BY <1>11 DEF FireBody
  <2>5. (\A x \in Slots : ~At(x, "idle") => WorkerSound(slot[x]))'
    BY <1>0, <1>11, <2>4, SlotsSoundMove DEF FireBody
  <2> QED
    BY <1>0, <1>11, <2>3, <2>5, SoundFrame DEF FireBody, Sound
<1>12. ASSUME NEW s \in Slots, ClearChord(s) PROVE Sound'
  <2>1. (\A r \in Requests : \A p \in parts[r] : PartSound(r, p))'
    BY <1>0, <1>12 DEF ClearChord, Sound, PartSound, ResultSound, TypeInv, TypeOK
  <2> QED
    BY <1>0, <1>12, <2>1, SlotsSoundMove, SoundFrame DEF ClearChord, Sound
<1>13. ASSUME NEW s \in Slots, Ack(s) PROVE Sound'
  BY <1>0, <1>13, IdleType, SlotsSound, SoundFrame DEF Ack, Sound
<1>14. ASSUME NEW s \in Slots, Crash(s) PROVE Sound'
  <2>1. MessageSound(Msg(s))
    BY <1>14 DEF Crash, Sound, WorkerSound, Msg
  <2>2. (\A m \in DOMAIN queue : MessageSound(m))'
    BY <1>0, <1>14, <2>1, QueueSound DEF Crash
  <2>3. (\A x \in Slots : ~At(x, "idle") => WorkerSound(slot[x]))'
    BY <1>0, <1>14, IdleType, SlotsSound DEF Crash
  <2> QED
    BY <1>0, <1>14, <2>2, <2>3, SoundFrame DEF Crash, Sound
<1>15. ASSUME UNCHANGED vars PROVE Sound'
  BY <1>0, <1>15, SoundFrame DEF vars, Sound
<1> QED
  BY <1>1, <1>2, <1>3, <1>4, <1>5, <1>6, <1>7, <1>8, <1>9, <1>10, <1>11, <1>12,
     <1>13, <1>14, <1>15 DEF Next, Submit, Work, Finish

\* Whatever is on its way for a document, or counted, or merged, is of an agent
\* it asked for and carries a text exactly when OCR ran ahead of it, with any
\* number of crashes and redeliveries.
THEOREM SoundInvariant == Spec => []Sound
<1> QED
  BY SoundInit, SoundStep, TypeInvariant, PTL DEF Spec

-----------------------------------------------------------------------------
(* What a step makes of its worker.                                        *)

\* The worker s becomes w, at work for the same message.
Becomes(s, w) == slot' = [slot EXCEPT ![s] = w] /\ w.msg = Msg(s)

LEMMA StepSlot ==
  ASSUME TypeInv, NEW s \in Slots, ~At(s, "idle"), NEW step, slot' = [slot EXCEPT ![s].step = step]
  PROVE  \E w : Becomes(s, w) /\ w.step = step /\ w.ok = slot[s].ok
<1>1. slot[s] \in Slot
  BY BusyType
<1> WITNESS [slot[s] EXCEPT !.step = step]
<1> QED
  BY <1>1 DEF Becomes, Slot, Msg, TypeInv, TypeOK

LEMMA FailSlot ==
  ASSUME TypeInv, NEW s \in Slots, Fail(s)
  PROVE  \E w : Becomes(s, w) /\ w.step = "store"
<1>1. slot[s] \in Slot
  BY BusyType DEF Fail, At
<1> WITNESS [slot[s] EXCEPT !.step = "store", !.ok = FALSE]
<1> QED
  BY <1>1 DEF Fail, Becomes, Slot, Msg, TypeInv, TypeOK

\* The tasks that follow a task of a document.
Following(q, t) ==
  IF IsHead(q, t) THEN Header(q) ELSE IF IsLink(q, t) THEN {"collect"} ELSE {}

LEMMA SucceedSlot ==
  ASSUME TypeInv, NEW s \in Slots, Succeed(s)
  PROVE  \E w : /\ Becomes(s, w) /\ w.ok = slot[s].ok
                /\ w.todo = Following(Query(s), Msg(s).task)
                /\ w.step = IF w.todo = {} THEN "store" ELSE "publish"
<1> DEFINE next == Following(Query(s), Msg(s).task)
           step == IF next = {} THEN "store" ELSE "publish"
<1>1. PICK v : slot' = [slot EXCEPT ![s].step = step, ![s].todo = next, ![s].text = v]
  BY DEF Succeed, Following
<1>2. slot[s] \in Slot
  BY BusyType DEF Succeed, At
<1>3. step = IF next = {} THEN "store" ELSE "publish"
  OBVIOUS
<1> HIDE DEF step
<1> WITNESS [slot[s] EXCEPT !.step = step, !.todo = next, !.text = v]
<1> HIDE DEF next
<1>4. [slot[s] EXCEPT !.step = step, !.todo = next, !.text = v].todo = next
  BY <1>2 DEF Slot
<1> QED
  BY <1>1, <1>2, <1>3, <1>4 DEF Becomes, Slot, Msg, TypeInv, TypeOK, next

\* It publishes one task of the continuation.
LEMMA PublishNextSlot ==
  ASSUME TypeInv, NEW s \in Slots, PublishNext(s)
  PROVE  \E t, m, w :
           /\ t \in slot[s].todo
           /\ queue' = BagAdd(queue, m) /\ m.req = Req(s) /\ m.task = t
           /\ Becomes(s, w) /\ w.ok = slot[s].ok /\ w.todo = slot[s].todo \ {t}
           /\ w.step = IF slot[s].todo = {t} THEN "ack" ELSE "publish"
<1>1. PICK t \in slot[s].todo :
        /\ queue' = BagAdd(queue,
             IF t = "collect"
             THEN CollectMessage(Req(s), {[agent |-> AgentOf(Msg(s).task), text |-> slot[s].text]})
             ELSE TaskMessage(Req(s), t, slot[s].text))
        /\ slot' = [slot EXCEPT ![s].todo = @ \ {t},
                                ![s].step = IF slot[s].todo = {t} THEN "ack" ELSE @]
  BY DEF PublishNext
<1>2. PICK m : queue' = BagAdd(queue, m) /\ m.req = Req(s) /\ m.task = t
  BY <1>1 DEF CollectMessage, TaskMessage
<1>3. slot[s] \in Slot /\ slot[s].step = "publish"
  BY BusyType DEF PublishNext, At
<1>4. PICK w : w = [slot[s] EXCEPT !.todo = @ \ {t},
                                   !.step = IF slot[s].todo = {t} THEN "ack" ELSE @]
  OBVIOUS
<1>5. Becomes(s, w) /\ w.ok = slot[s].ok
  BY <1>1, <1>3, <1>4 DEF Becomes, Slot, Msg, TypeInv, TypeOK
<1>6. w.todo = slot[s].todo \ {t} /\ w.step = IF slot[s].todo = {t} THEN "ack" ELSE "publish"
  BY <1>3, <1>4 DEF Slot
<1> QED
  BY <1>2, <1>5, <1>6

LEMMA RetrySlot ==
  ASSUME TypeInv, NEW s \in Slots, Retry(s)
  PROVE  \E m, w : /\ queue' = BagAdd(queue, m) /\ m.req = Req(s) /\ m.task = Msg(s).task
                   /\ Becomes(s, w) /\ w.step = "ack" /\ w.ok = slot[s].ok
<1>1. ~At(s, "idle")
  BY DEF Retry, At
<1>2. PICK w : Becomes(s, w) /\ w.step = "ack" /\ w.ok = slot[s].ok
  BY <1>1, StepSlot DEF Retry
<1>3. [Msg(s) EXCEPT !.retries = @ + 1].req = Req(s) /\ [Msg(s) EXCEPT !.retries = @ + 1].task = Msg(s).task
  BY <1>1, BusyType DEF Message, Req
<1> QED
  BY <1>2, <1>3 DEF Retry

\* A free worker takes a message.
LEMMA DeliverSlot ==
  ASSUME TypeInv, NEW s \in Slots, Deliver(s)
  PROVE  \E m, w :
           /\ m \in DOMAIN queue
           /\ queue' = BagRemove(queue, m)
           /\ state' = IF m.task = "collect" THEN Stored(m.req, "STARTED") ELSE state
           /\ slot' = [slot EXCEPT ![s] = w] /\ w.msg = m /\ w.step = "run" /\ w.ok
<1>1. PICK m \in DOMAIN queue :
        /\ queue' = BagRemove(queue, m)
        /\ state' = IF m.task = "collect" THEN Stored(m.req, "STARTED") ELSE state
        /\ slot' = [slot EXCEPT ![s] = [Idle EXCEPT !.step = "run", !.msg = m]]
  BY DEF Deliver, BagToSet
<1>2. PICK w : w = [Idle EXCEPT !.step = "run", !.msg = m]
  OBVIOUS
<1>3. w.msg = m /\ w.step = "run" /\ w.ok
  BY <1>2 DEF Idle
<1> QED
  BY <1>1, <1>2, <1>3

\* Every other worker is left alone.
LEMMA OneSlot ==
  ASSUME TypeInv, NEW s \in Slots, NEW w, slot' = [slot EXCEPT ![s] = w]
  PROVE  /\ slot'[s] = w
         /\ \A x \in Slots : x # s => slot'[x] = slot[x]
BY DEF TypeInv, TypeOK

\* What a caller asked for stays.
LEMMA RequestFixed == [Next]_vars => request' = request
BY DEF Next, Submit, Publish, Accept, BrokerDown, Work, Finish, Deliver, Succeed, Fail, Retry,
   Collect, PublishNext, StoreFailure, AddPart, FireBody, ClearChord, Ack, Crash, vars

-----------------------------------------------------------------------------
(* What the caller is told, and what is left to publish.                   *)

LEMMA ReplyInit == Init => Replied
BY DEF Init, Replied

LEMMA RepliedStep ==
  ASSUME TypeInv, Replied, [Next]_vars
  PROVE  Replied'
<1>1. CASE reply' = reply /\ unsent' = unsent
  BY <1>1 DEF Replied
<1>2. ASSUME NEW r \in Requests, NEW t \in Task, Publish(r, t) PROVE Replied'
  BY <1>2 DEF Publish, Replied, TypeInv, TypeOK
<1>3. ASSUME NEW r \in Requests, Accept(r) \/ BrokerDown(r) PROVE Replied'
  BY <1>3 DEF Accept, BrokerDown, Replied, TypeInv, TypeOK
<1>4. ASSUME NEW s \in Slots, Work(s) \/ Crash(s) PROVE reply' = reply /\ unsent' = unsent
  BY <1>4 DEF Work, Finish, Deliver, Succeed, Fail, Retry, Collect, PublishNext, StoreFailure,
     AddPart, FireBody, ClearChord, Ack, Crash
<1> QED
  BY <1>1, <1>2, <1>3, <1>4 DEF Next, Submit, vars

\* Only an accepted document was published in full.
LEMMA ReplyInvariant == Spec => []Replied
BY ReplyInit, RepliedStep, TypeInvariant, PTL DEF Spec

-----------------------------------------------------------------------------
(* A worker's step concerns the document of its message.                   *)

\* A busy worker moves on, for the same message, or stops.
Moved(s) ==
  /\ \A x \in Slots : x # s => slot'[x] = slot[x]
  /\ slot'[s].msg = slot[s].msg \/ At(s, "idle")'

\* The document r is as it was, but for the worker s.
Apart(s, r) ==
  /\ unsent'[r] = unsent[r] /\ state'[r] = state[r]
  /\ parts'[r] = parts[r] /\ armed'[r] = armed[r]
  /\ \A m \in DOMAIN queue' : m.req = r => m \in DOMAIN queue

LEMMA QueueGrows ==
  ASSUME TypeInv, NEW m, queue' = BagAdd(queue, m)
  PROVE  DOMAIN queue' = DOMAIN queue \cup {m}
BY BagAddType DEF TypeInv, TypeOK

LEMMA BagLeaves ==
  ASSUME NEW B, NEW x, IsABag(B), NEW y \in DOMAIN B, y # x
  PROVE  y \in DOMAIN BagRemove(B, x)
BY DEF IsABag, BagRemove

LEMMA MovedSlot ==
  ASSUME TypeInv, NEW s \in Slots, NEW w, Becomes(s, w)
  PROVE  Moved(s) /\ slot'[s] = w
BY OneSlot DEF Becomes, Moved, Msg

LEMMA MovedStep ==
  ASSUME TypeInv, NEW s \in Slots, ~At(s, "idle"), NEW step, slot' = [slot EXCEPT ![s].step = step]
  PROVE  Moved(s) /\ slot'[s].step = step /\ slot'[s].ok = slot[s].ok
<1>1. PICK w : Becomes(s, w) /\ w.step = step /\ w.ok = slot[s].ok
  BY StepSlot
<1> QED
  BY <1>1, MovedSlot

\* The steps of a busy worker.
Busy(s) == Finish(s) \/ PublishNext(s) \/ StoreFailure(s) \/ AddPart(s) \/ FireBody(s)
             \/ ClearChord(s) \/ Ack(s) \/ Crash(s)

LEMMA BusyMoves ==
  ASSUME TypeInv, NEW s \in Slots, Busy(s)
  PROVE  ~At(s, "idle") /\ Moved(s) /\ DOMAIN queue \subseteq DOMAIN queue'
<1>1. ~At(s, "idle")
  BY DEF Busy, Finish, Succeed, Fail, Retry, Collect, PublishNext, StoreFailure, AddPart, FireBody,
     ClearChord, Ack, Crash, At
<1>2. ASSUME NEW step, slot' = [slot EXCEPT ![s].step = step]
      PROVE  Moved(s)
  BY <1>1, <1>2, MovedStep
<1>3. Moved(s)
  <2>1. CASE Succeed(s)
    BY <2>1, SucceedSlot, MovedSlot
  <2>2. CASE Fail(s)
    BY <2>2, FailSlot, MovedSlot
  <2>3. CASE PublishNext(s)
    BY <2>3, PublishNextSlot, MovedSlot
  <2>4. CASE Ack(s) \/ Crash(s)
    <3>1. slot' = [slot EXCEPT ![s] = Idle]
      BY <2>4 DEF Ack, Crash
    <3> QED
      BY <3>1, OneSlot, IdleType DEF Moved, At
  <2>5. CASE Retry(s) \/ Collect(s) \/ StoreFailure(s) \/ AddPart(s) \/ FireBody(s) \/ ClearChord(s)
    <3>1. PICK step : slot' = [slot EXCEPT ![s].step = step]
      BY <2>5 DEF Retry, Collect, StoreFailure, AddPart, FireBody, ClearChord
    <3> QED
      BY <1>2, <3>1
  <2> QED
    BY <2>1, <2>2, <2>3, <2>4, <2>5 DEF Busy, Finish
<1>4. DOMAIN queue \subseteq DOMAIN queue'
  <2>1. CASE queue' = queue
    BY <2>1
  <2>2. ASSUME NEW m, queue' = BagAdd(queue, m)
        PROVE  DOMAIN queue \subseteq DOMAIN queue'
    BY <2>2, QueueGrows
  <2> QED
    BY <2>1, <2>2 DEF Busy, Finish, Succeed, Fail, Retry, Collect, PublishNext, StoreFailure, AddPart,
       FireBody, ClearChord, Ack, Crash
<1> QED
  BY <1>1, <1>3, <1>4

\* What a busy worker publishes is of its own document.
LEMMA BusyApart ==
  ASSUME TypeInv, NEW s \in Slots, Busy(s), NEW r \in Requests, r # Req(s)
  PROVE  Apart(s, r)
<1>1. Req(s) \in Requests
  BY BusyMoves, BusyType
<1>2. unsent' = unsent
  BY DEF Busy, Finish, Succeed, Fail, Retry, Collect, PublishNext, StoreFailure, AddPart,
     FireBody, ClearChord, Ack, Crash
<1>3. state'[r] = state[r]
  BY <1>1 DEF Busy, Finish, Succeed, Fail, Retry, Collect, PublishNext, StoreFailure, AddPart,
     FireBody, ClearChord, Ack, Crash, Stored, TypeInv, TypeOK
<1>4. parts'[r] = parts[r] /\ armed'[r] = armed[r]
  BY <1>1 DEF Busy, Finish, Succeed, Fail, Retry, Collect, PublishNext, StoreFailure, AddPart,
     FireBody, ClearChord, Ack, Crash, TypeInv, TypeOK
<1>5. queue' = queue \/ \E m : queue' = BagAdd(queue, m) /\ m.req = Req(s)
  <2>1. CASE PublishNext(s)
    BY <2>1, PublishNextSlot
  <2>2. CASE Retry(s)
    BY <2>2, RetrySlot
  <2>3. CASE FireBody(s)
    <3>1. CollectMessage(Req(s), ItemsOf(parts[Req(s)])).req = Req(s)
      BY DEF CollectMessage
    <3> QED
      BY <2>3, <3>1 DEF FireBody
  <2>4. CASE Crash(s)
    BY <2>4 DEF Crash, Req
  <2> QED
    BY <2>1, <2>2, <2>3, <2>4 DEF Busy, Finish, Succeed, Fail, Collect, StoreFailure, AddPart,
       ClearChord, Ack
<1>6. \A m \in DOMAIN queue' : m.req = r => m \in DOMAIN queue
  <2>1. CASE queue' = queue
    BY <2>1
  <2>2. ASSUME NEW n, queue' = BagAdd(queue, n), n.req = Req(s)
        PROVE  \A m \in DOMAIN queue' : m.req = r => m \in DOMAIN queue
    BY <2>2, QueueGrows
  <2> QED
    BY <1>5, <2>1, <2>2
<1> QED
  BY <1>2, <1>3, <1>4, <1>6 DEF Apart
\* A header task's result joins the chord's.
LEMMA AddPartSlot ==
  ASSUME TypeInv, NEW s \in Slots, AddPart(s), NEW r, r = Req(s)
  PROVE  \E w, p :
           /\ parts'[r] = parts[r] \cup {p}
           /\ p \in Part /\ p.task = Msg(s).task /\ p.ok = slot[s].ok /\ p.text = slot[s].text
           /\ Becomes(s, w) /\ w.ok = slot[s].ok
           /\ w.step = IF armed[r] /\ CountFull(request[r], parts'[r]) THEN "fire" ELSE "ack"
<1>1. ~At(s, "idle") /\ IsMember(Query(s), Msg(s).task)
  BY DEF AddPart, At
<1>2. Req(s) \in Requests /\ Query(s) \in DocumentRequest /\ slot[s] \in Slot
  BY <1>1, BusyType
<1>3. PICK p : p = [task |-> Msg(s).task, ok |-> slot[s].ok, text |-> slot[s].text]
  OBVIOUS
<1>4. p \in Part
  BY <1>1, <1>2, <1>3, HeaderType DEF Part, Slot, IsMember
<1>5. parts'[r] = parts[r] \cup {p}
  BY <1>2, <1>3 DEF AddPart, TypeInv, TypeOK
<1>6. PICK step : step = IF armed[r] /\ CountFull(request[r], parts'[r]) THEN "fire" ELSE "ack"
  OBVIOUS
<1>7. slot' = [slot EXCEPT ![s].step = step]
  BY <1>3, <1>5, <1>6 DEF AddPart
<1>8. PICK w : Becomes(s, w) /\ w.step = step /\ w.ok = slot[s].ok
  BY <1>1, <1>7, StepSlot
<1> QED
  BY <1>3, <1>4, <1>5, <1>6, <1>8

-----------------------------------------------------------------------------
(* A canvas that was published in part never calls collect.                *)

LEMMA MissingInit == Init => MissingInv
<1> SUFFICES ASSUME Init, NEW r \in Requests
             PROVE  Incomplete(r)
  BY ReplyInit DEF MissingInv
<1>1. DOMAIN queue = {}
  BY EmptyBagType DEF Init
<1> QED
  BY <1>1 DEF Init, Incomplete, At, Idle

\* A step that leaves the document alone.
LEMMA MissingApart ==
  ASSUME NEW r \in Requests, Incomplete(r), request' = request, unsent'[r] = unsent[r],
         state'[r] = state[r], parts'[r] = parts[r],
         \A m \in DOMAIN queue' : m.req = r => m \in DOMAIN queue,
         \A s \in Slots : (~At(s, "idle") /\ Req(s) = r)' => slot'[s] = slot[s]
  PROVE  Incomplete(r)'
BY DEF Incomplete, Sent, At, Req, Msg

\* A worker goes on with a task of the document.
LEMMA MissingMove ==
  ASSUME TypeInv, NEW s \in Slots, NEW w, Becomes(s, w), NEW r \in Requests, Incomplete(r),
         r = Req(s), ~At(s, "idle"), request' = request, unsent' = unsent,
         w.step \notin {"publish", "clear"}, w.step = "fire" => \E p \in parts'[r] : ~p.ok,
         state'[r] # "SUCCESS", parts[r] \subseteq parts'[r],
         \A p \in parts'[r] : p.task \in Sent(r),
         \A m \in DOMAIN queue' : m \in DOMAIN queue \/ m.task \in Sent(r)
  PROVE  Incomplete(r)'
<1>1. slot'[s] = w /\ (\A x \in Slots : x # s => slot'[x] = slot[x]) /\ w.msg = slot[s].msg
  BY OneSlot DEF Becomes, Msg
<1>2. Sent(r)' = Sent(r)
  BY DEF Sent
<1>3. \A m \in DOMAIN queue' : m.req = r => m.task \in Sent(r)
  BY DEF Incomplete
<1>4. ASSUME NEW x \in Slots, (~At(x, "idle") /\ Req(x) = r)'
      PROVE  (/\ Msg(x).task \in Sent(r)
              /\ ~At(x, "publish") /\ ~At(x, "clear")
              /\ At(x, "fire") => \E p \in parts[r] : ~p.ok)'
  <2>1. CASE x = s
    <3>1. slot'[x].msg.task \in Sent(r)
      BY <1>1, <2>1 DEF Incomplete, Msg
    <3> QED
      BY <1>1, <1>2, <2>1, <3>1 DEF At, Msg
  <2>2. CASE x # s
    <3>1. slot'[x] = slot[x]
      BY <1>1, <2>2
    <3>2. ~At(x, "idle") /\ Req(x) = r
      BY <1>4, <3>1 DEF At, Req, Msg
    <3> QED
      BY <1>2, <3>1, <3>2 DEF Incomplete, At, Msg
  <2> QED
    BY <2>1, <2>2
<1> QED
  BY <1>2, <1>3, <1>4 DEF Incomplete

LEMMA MissingBusy ==
  ASSUME TypeInv, Sound, NEW s \in Slots, Busy(s), NEW r \in Requests, r = Req(s),
         Idempotent, unsent[r] # {}, Incomplete(r), request' = request
  PROVE  Incomplete(r)'
<1> DEFINE t == Msg(s).task
<1>1. ~At(s, "idle") /\ Query(s) \in DocumentRequest /\ Query(s) = request[r] /\ slot[s] \in Slot
  BY BusyMoves, BusyType DEF Query
<1>2. t \in Sent(r) /\ state[r] # "SUCCESS"
  BY <1>1 DEF Incomplete
<1>3. PICK u \in unsent[r] : u \in FirstTasks(request[r]) /\ u # t
  BY <1>2 DEF Sent, Sound
<1>4. ~HasHead(Query(s)) /\ IsMember(Query(s), t) /\ ~IsLink(Query(s), t) /\ t # "collect"
  BY <1>1, <1>2, <1>3, TwoFirst DEF Sent
<1>5. \A p \in parts[r] : p.task \in Sent(r)
  BY DEF Incomplete
<1> HIDE DEF t
<1>6. CASE Succeed(s)
  <2>1. Following(Query(s), t) = {}
    BY <1>4 DEF Following, IsHead
  <2>2. PICK w : Becomes(s, w) /\ w.step = "store"
    BY <1>6, <2>1, SucceedSlot DEF t
  <2> QED
    BY <1>1, <1>2, <1>5, <1>6, <2>2, MissingMove DEF Succeed
<1>7. CASE Fail(s)
  <2>1. PICK w : Becomes(s, w) /\ w.step = "store"
    BY <1>7, FailSlot
  <2> QED
    BY <1>1, <1>2, <1>5, <1>7, <2>1, MissingMove DEF Fail
<1>8. CASE Retry(s)
  <2>1. PICK m, w : queue' = BagAdd(queue, m) /\ m.req = Req(s) /\ m.task = t /\ Becomes(s, w) /\ w.step = "ack"
    BY <1>8, RetrySlot DEF t
  <2>2. \A n \in DOMAIN queue' : n \in DOMAIN queue \/ n.task \in Sent(r)
    BY <1>2, <2>1, QueueGrows
  <2> QED
    BY <1>1, <1>2, <1>5, <1>8, <2>1, <2>2, MissingMove DEF Retry
<1>9. CASE AddPart(s)
  <2>1. PICK w, part :
          /\ parts'[r] = parts[r] \cup {part}
          /\ part \in Part /\ part.task = t /\ part.ok = slot[s].ok /\ part.text = slot[s].text
          /\ Becomes(s, w)
          /\ w.step = IF armed[r] /\ CountFull(request[r], parts'[r]) THEN "fire" ELSE "ack"
    BY <1>9, AddPartSlot DEF t
  <2>2. \A p \in parts'[r] : p.task \in Sent(r)
    BY <1>2, <1>5, <2>1
  <2>3. ASSUME CountFull(request[r], parts'[r]), \A p \in parts'[r] : p.ok
        PROVE  FALSE
    <3>1. \A p \in parts'[r] : p.task \in Header(request[r])
      BY <1>1, <1>4, <2>2 DEF Sent, FirstTasks
    <3>2. ResultSound(request[r], t, slot[s].text)
      <4>1. At(s, "store") /\ slot[s].ok /\ WorkerSound(slot[s])
        BY <1>1, <1>9, <2>1, <2>3 DEF Sound, AddPart
      <4> QED
        BY <4>1 DEF WorkerSound, At, t, Msg, Req
    <3>3. \A p \in parts[r] : p \in Part /\ ResultSound(request[r], p.task, p.text)
      BY <2>1, <2>3 DEF Sound, PartSound, TypeInv, TypeOK
    <3>4. \A p \in parts'[r] : p \in Part /\ p.text \in IF AgentOf(p.task) = "ocr" THEN Texts ELSE {None}
      BY <1>1, <1>4, <2>1, <3>2, <3>3 DEF ResultSound
    <3>5. \A p, o \in parts'[r] : p.task = o.task => p = o
      BY <2>3, <3>4 DEF Part, Idempotent
    <3>6. {p.task : p \in parts'[r]} = Header(request[r])
      BY <1>1, <2>3, <3>1, <3>5, ChordCount
    <3>7. u \in Header(request[r])
      BY <1>1, <1>3, <1>4 DEF FirstTasks
    <3> QED
      BY <1>3, <2>2, <3>6, <3>7 DEF Sent
  <2>4. unsent' = unsent /\ queue' = queue /\ state' = state
    BY <1>9 DEF AddPart
  <2> QED
    BY <1>1, <1>2, <2>1, <2>2, <2>3, <2>4, MissingMove
<1>10. CASE FireBody(s)
  <2>1. \E p \in parts[r] : ~p.ok
    BY <1>1, <1>10 DEF Incomplete, FireBody
  <2>2. queue' = queue /\ state' = Stored(r, "FAILURE") /\ slot' = [slot EXCEPT ![s].step = "ack"]
    BY <1>10, <2>1 DEF FireBody
  <2>3. PICK w : Becomes(s, w) /\ w.step = "ack"
    <3>1. PICK step : step = "ack"
      OBVIOUS
    <3>2. ~At(s, "idle")
      BY <1>1
    <3>3. slot' = [slot EXCEPT ![s].step = step]
      BY <2>2, <3>1
    <3>4. PICK w : Becomes(s, w) /\ w.step = step /\ w.ok = slot[s].ok
      BY <3>2, <3>3, StepSlot
    <3> QED
      BY <3>1, <3>4
  <2>4. state'[r] # "SUCCESS"
    BY <1>2, <2>2 DEF Stored, TypeInv, TypeOK
  <2> QED
    BY <1>1, <1>2, <1>5, <1>10, <2>2, <2>3, <2>4, MissingMove DEF FireBody
<1>11. CASE Ack(s) \/ Crash(s)
  <2>1. slot' = [slot EXCEPT ![s] = Idle]
    BY <1>11 DEF Ack, Crash
  <2>2. slot'[s] = Idle /\ \A x \in Slots : x # s => slot'[x] = slot[x]
    BY <2>1, OneSlot
  <2>3. unsent' = unsent /\ state' = state /\ parts' = parts /\ Sent(r)' = Sent(r)
    BY <1>11 DEF Ack, Crash, Sent
  <2>4. \A m \in DOMAIN queue' : m.req = r => m.task \in Sent(r)
    <3>1. CASE queue' = queue
      BY <3>1 DEF Incomplete
    <3>2. CASE queue' = BagAdd(queue, Msg(s))
      BY <1>2, <3>2, QueueGrows DEF Incomplete, t
    <3> QED
      BY <1>11, <3>1, <3>2 DEF Ack, Crash
  <2> QED
    BY <2>2, <2>3, <2>4 DEF Incomplete, At, Idle, Req, Msg
<1>12. ~Collect(s) /\ ~PublishNext(s) /\ ~StoreFailure(s) /\ ~ClearChord(s)
  BY <1>1, <1>4 DEF Collect, PublishNext, StoreFailure, ClearChord, Incomplete, t
<1> QED
  BY <1>6, <1>7, <1>8, <1>9, <1>10, <1>11, <1>12 DEF Busy, Finish

LEMMA MissingStep ==
  ASSUME TypeInv, Sound, MissingInv, Idempotent, [Next]_vars
  PROVE  MissingInv'
<1>1. request' = request /\ Replied'
  BY RequestFixed, RepliedStep DEF MissingInv
<1> SUFFICES ASSUME NEW r \in Requests, unsent'[r] # {}
             PROVE  Incomplete(r)'
  BY <1>1 DEF MissingInv
<1>2. ASSUME NEW u \in Requests, NEW t \in Task, Publish(u, t) PROVE Incomplete(r)'
  <2>1. unsent'[r] \subseteq unsent[r] /\ slot' = slot /\ state' = state /\ parts' = parts
    BY <1>2 DEF Publish, TypeInv, TypeOK
  <2>2. Incomplete(r)
    BY <2>1 DEF MissingInv
  <2>3. TaskMessage(u, t, None).req = u /\ TaskMessage(u, t, None).task = t
    BY DEF TaskMessage
  <2>4. DOMAIN queue' = DOMAIN queue \cup {TaskMessage(u, t, None)}
    BY <1>2, QueueGrows DEF Publish
  <2>5. CASE u # r
    <3>1. unsent'[r] = unsent[r]
      BY <1>2, <2>5 DEF Publish, TypeInv, TypeOK
    <3> QED
      BY <1>1, <2>1, <2>2, <2>3, <2>4, <2>5, <3>1, MissingApart
  <2>6. CASE u = r
    <3>1. Sent(r) \subseteq Sent(r)' /\ t \in Sent(r)'
      BY <1>1, <1>2, <2>1, <2>6 DEF Publish, Sent, TypeInv, TypeOK, Sound
    <3>2. \A m \in DOMAIN queue' : m.req = r => m.task \in Sent(r)'
      BY <2>2, <2>3, <2>4, <3>1 DEF Incomplete
    <3> QED
      BY <2>1, <2>2, <3>1, <3>2 DEF Incomplete, At, Req, Msg
  <2> QED
    BY <2>5, <2>6
<1>3. ASSUME NEW u \in Requests, Accept(u) \/ BrokerDown(u) PROVE Incomplete(r)'
  <2>1. unsent' = unsent /\ slot' = slot /\ state' = state /\ parts' = parts /\ queue' = queue
    BY <1>3 DEF Accept, BrokerDown
  <2> QED
    BY <1>1, <2>1, MissingApart DEF MissingInv
<1>4. ASSUME NEW s \in Slots, Deliver(s) PROVE Incomplete(r)'
  <2>1. PICK m, w :
          /\ m \in DOMAIN queue
          /\ queue' = BagRemove(queue, m)
          /\ state' = IF m.task = "collect" THEN Stored(m.req, "STARTED") ELSE state
          /\ slot' = [slot EXCEPT ![s] = w] /\ w.msg = m /\ w.step = "run" /\ w.ok
    BY <1>4, DeliverSlot
  <2>2. unsent' = unsent /\ parts' = parts
    BY <1>4 DEF Deliver
  <2>3. Incomplete(r)
    BY <2>2 DEF MissingInv
  <2>4. slot'[s] = w /\ (\A x \in Slots : x # s => slot'[x] = slot[x])
    BY <2>1, OneSlot
  <2>5. DOMAIN queue' \subseteq DOMAIN queue
    BY <2>1, BagRemoveType DEF TypeInv, TypeOK
  <2>6. state'[r] # "SUCCESS"
    BY <2>1, <2>3 DEF Incomplete, Stored, TypeInv, TypeOK, Message
  <2>7. Sent(r)' = Sent(r)
    BY <1>1, <2>2 DEF Sent
  <2> QED
    BY <2>1, <2>2, <2>3, <2>4, <2>5, <2>6, <2>7 DEF Incomplete, At, Req, Msg
<1>5. ASSUME NEW s \in Slots, Busy(s) PROVE Incomplete(r)'
  <2>1. unsent' = unsent
    BY <1>5 DEF Busy, Finish, Succeed, Fail, Retry, Collect, PublishNext, StoreFailure, AddPart,
       FireBody, ClearChord, Ack, Crash
  <2>2. Incomplete(r)
    BY <2>1 DEF MissingInv
  <2>3. CASE r # Req(s)
    <3>1. Apart(s, r) /\ Moved(s) /\ ~At(s, "idle")
      BY <1>5, <2>3, BusyApart, BusyMoves
    <3> QED
      BY <1>1, <2>2, <2>3, <3>1, MissingApart DEF Apart, Moved, Req, Msg
  <2>4. CASE r = Req(s)
    BY <1>1, <1>5, <2>1, <2>2, <2>4, MissingBusy
  <2> QED
    BY <2>3, <2>4
<1>6. CASE UNCHANGED vars
  BY <1>1, <1>6, MissingApart DEF vars, MissingInv
<1> QED
  BY <1>2, <1>3, <1>4, <1>5, <1>6 DEF Next, Submit, Work, Busy

\* As long as the API has a task of a document to publish, what is published
\* of it can run and crash and run again without completing its chord.
THEOREM MissingInvariant ==
  ASSUME Idempotent
  PROVE  Spec => []MissingInv
<1>1. TypeInv /\ Sound /\ MissingInv /\ [Next]_vars => MissingInv'
  BY MissingStep
<1> QED
  BY <1>1, MissingInit, TypeInvariant, SoundInvariant, PTL DEF Spec

\* However often workers die, a document that its caller was refused never
\* finishes with a result, provided OCR is idempotent.
THEOREM RefusedNeverSucceeds ==
  ASSUME Idempotent
  PROVE  Spec => []UnavailableNeverSucceeds
<1>1. MissingInv => UnavailableNeverSucceeds
  BY DEF MissingInv, Replied, Incomplete, UnavailableNeverSucceeds
<1> QED
  BY <1>1, MissingInvariant, PTL
-----------------------------------------------------------------------------
(* A document that fails none of its tasks is on its way to collect.       *)

LEMMA StrandInit == Init => StrandInv
<1> SUFFICES ASSUME Init, NEW r \in Requests
             PROVE  OnItsWay(r)
  BY ReplyInit DEF StrandInv
<1>1. request[r] \in DocumentRequest /\ unsent[r] = FirstTasks(request[r])
  BY DEF Init
<1>2. unsent[r] # {}
  BY <1>1, HeaderSome
<1>3. Covered(r)
  <2>1. CASE HasHead(request[r])
    BY <1>1, <2>1 DEF Covered, Behind, Waiting, FirstTasks
  <2>2. CASE ~HasHead(request[r])
    BY <1>1, <2>2 DEF Covered, Waiting, FirstTasks
  <2> QED
    BY <2>1, <2>2
<1>4. Armed(r)
  BY <1>2 DEF Armed
<1>5. Faultless(r)
  BY DEF Init, Faultless, At, Idle
<1> QED
  BY <1>2, <1>3, <1>4, <1>5 DEF OnItsWay

\* Once collect was called it stays called, until it succeeds.
LEMMA CalledKept ==
  ASSUME TypeInv, [Next]_vars, NEW r \in Requests, Called(r)
  PROVE  Called(r)'
<1>1. CASE state[r] = "SUCCESS"
  BY <1>1, SuccessStep DEF SuccessKept, Called
<1>2. ASSUME NEW m \in DOMAIN queue, m.req = r, m.task = "collect", m \notin DOMAIN queue'
      PROVE  Called(r)'
  <2>1. PICK s \in Slots : Deliver(s)
    <3>1. ASSUME NEW u \in Requests, NEW t \in Task, Publish(u, t) PROVE FALSE
      BY <1>2, <3>1, QueueGrows DEF Publish
    <3>2. ASSUME NEW u \in Requests, Accept(u) \/ BrokerDown(u) PROVE FALSE
      BY <1>2, <3>2 DEF Accept, BrokerDown
    <3>3. ASSUME NEW s \in Slots, Busy(s) PROVE FALSE
      BY <1>2, <3>3, BusyMoves
    <3>4. CASE UNCHANGED vars
      BY <1>2, <3>4 DEF vars
    <3> QED
      BY <3>1, <3>2, <3>3, <3>4 DEF Next, Submit, Work, Busy
  <2>2. PICK n, w :
          /\ n \in DOMAIN queue
          /\ queue' = BagRemove(queue, n)
          /\ slot' = [slot EXCEPT ![s] = w] /\ w.msg = n /\ w.step = "run"
    BY <2>1, DeliverSlot
  <2>3. n = m
    BY <1>2, <2>2, BagLeaves DEF TypeInv, TypeOK
  <2>4. slot'[s] = w
    BY <2>2, OneSlot
  <2> QED
    BY <1>2, <2>2, <2>3, <2>4 DEF Called, At, Req, Msg
<1>3. ASSUME NEW s \in Slots, At(s, "run"), Req(s) = r, Msg(s).task = "collect", slot'[s] # slot[s]
      PROVE  Called(r)'
  <2>1. Busy(s)
    <3>1. ASSUME NEW u \in Requests, (\E t \in Task : Publish(u, t)) \/ Accept(u) \/ BrokerDown(u) PROVE FALSE
      BY <1>3, <3>1 DEF Publish, Accept, BrokerDown
    <3>2. ASSUME NEW x \in Slots, Deliver(x) PROVE FALSE
      <4>1. x # s
        BY <1>3, <3>2 DEF Deliver, At
      <4> QED
        BY <1>3, <3>2, <4>1, DeliverSlot, OneSlot
    <3>3. ASSUME NEW x \in Slots, Busy(x), x # s PROVE FALSE
      BY <1>3, <3>3, BusyMoves DEF Moved
    <3>4. CASE UNCHANGED vars
      BY <1>3, <3>4 DEF vars
    <3> QED
      BY <3>1, <3>2, <3>3, <3>4 DEF Next, Submit, Work, Busy
  <2>2. CASE Collect(s)
    BY <1>3, <2>2 DEF Collect, Stored, Called, TypeInv, TypeOK
  <2>3. CASE Crash(s)
    <3>1. Msg(s) \in DOMAIN queue'
      BY <2>3, QueueGrows DEF Crash
    <3> QED
      BY <1>3, <3>1 DEF Called, Req
  <2>4. ~Fail(s)
    BY <1>3, FailureAssumption DEF Fail, AgentName
  <2> QED
    BY <1>3, <2>1, <2>2, <2>3, <2>4 DEF Busy, Finish, Succeed, Retry, PublishNext, StoreFailure,
       AddPart, FireBody, ClearChord, Ack, At
<1>4. ASSUME NEW m \in DOMAIN queue', m.req = r, m.task = "collect"
      PROVE  Called(r)'
  BY <1>4 DEF Called
<1>5. ASSUME NEW s \in Slots, At(s, "run"), Req(s) = r, Msg(s).task = "collect", slot'[s] = slot[s]
      PROVE  Called(r)'
  BY <1>5 DEF Called, At, Req, Msg
<1> QED
  BY <1>1, <1>2, <1>3, <1>4, <1>5 DEF Called
\* A step that leaves the document's workers and results alone.
LEMMA WayApart ==
  ASSUME NEW r \in Requests, OnItsWay(r), request' = request, unsent'[r] = unsent[r],
         parts'[r] = parts[r], armed[r] => armed'[r],
         \A m \in DOMAIN queue : m.req = r => m \in DOMAIN queue',
         \A s \in Slots : ~At(s, "idle") /\ Req(s) = r => slot'[s] = slot[s],
         \A s \in Slots : (~At(s, "idle") /\ Req(s) = r)' => slot'[s] = slot[s]
  PROVE  OnItsWay(r)'
<1>1. ASSUME NEW t, Waiting(r, t) PROVE Waiting(r, t)'
  BY <1>1 DEF Waiting, At, Req, Msg
<1>2. ASSUME NEW t, Returned(r, t) PROVE Returned(r, t)'
  BY <1>2 DEF Returned, At, Req, Msg
<1>3. ASSUME NEW t, Behind(r, t) PROVE Behind(r, t)'
  BY <1>1, <1>3 DEF Behind, At, Req, Msg
<1>4. Covered(r)'
  BY <1>1, <1>2, <1>3 DEF OnItsWay, Covered
<1>5. Armed(r)'
  BY <1>1, <1>2 DEF OnItsWay, Armed
<1>6. Faultless(r)'
  BY DEF OnItsWay, Faultless, At, Req, Msg, Query
<1>7. (unsent[r] = {} => Outstanding(r))'
  BY DEF OnItsWay, Outstanding, At, Req, Msg
<1> QED
  BY <1>4, <1>5, <1>6, <1>7 DEF OnItsWay

\* The worker s goes on with a task of the document: what the others do for it stays.
LEMMA OthersGo ==
  ASSUME TypeInv, NEW s \in Slots, \A x \in Slots : x # s => slot'[x] = slot[x],
         NEW r \in Requests, request' = request, unsent' = unsent,
         \A m \in DOMAIN queue : m.req = r => m \in DOMAIN queue', NEW t
  PROVE  /\ Waiting(r, t) => Waiting(r, t)' \/ (At(s, "run") /\ Req(s) = r /\ Msg(s).task = t)
         /\ Returned(r, t) =>
              Returned(r, t)' \/ ((At(s, "publish") \/ At(s, "store")) /\ Req(s) = r /\ Msg(s).task = t)
         /\ Behind(r, t) =>
              \/ Behind(r, t)'
              \/ HasHead(request[r]) /\ At(s, "run") /\ Req(s) = r /\ Msg(s).task = "ocr"
              \/ HasHead(request[r]) /\ At(s, "publish") /\ Req(s) = r /\ t \in slot[s].todo
<1>1. ASSUME NEW u, Waiting(r, u), ~(At(s, "run") /\ Req(s) = r /\ Msg(s).task = u)
      PROVE  Waiting(r, u)'
  BY <1>1 DEF Waiting, At, Req, Msg
<1>2. ASSUME Returned(r, t), ~((At(s, "publish") \/ At(s, "store")) /\ Req(s) = r /\ Msg(s).task = t)
      PROVE  Returned(r, t)'
  BY <1>2 DEF Returned, At, Req, Msg
<1>3. ASSUME Behind(r, t), HasHead(request[r]) => ~(At(s, "run") /\ Req(s) = r /\ Msg(s).task = "ocr"),
             HasHead(request[r]) => ~(At(s, "publish") /\ Req(s) = r /\ t \in slot[s].todo)
      PROVE  Behind(r, t)'
  <2>1. HasHead(request[r])
    BY <1>3 DEF Behind
  <2>2. CASE Waiting(r, "ocr")
    BY <1>1, <1>3, <2>1, <2>2 DEF Behind
  <2>3. ASSUME NEW x \in Slots, At(x, "publish"), Req(x) = r, t \in slot[x].todo
        PROVE  Behind(r, t)'
    BY <1>3, <2>1, <2>3 DEF Behind, At, Req, Msg
  <2> QED
    BY <1>3, <2>2, <2>3 DEF Behind
<1> QED
  BY <1>1, <1>2, <1>3

\* It becomes w: nothing of the document fails.
LEMMA OthersSound ==
  ASSUME TypeInv, NEW s \in Slots, NEW w, Becomes(s, w), NEW r \in Requests, r = Req(s),
         request' = request, Faultless(r), w.ok, w.step # "clear",
         w.step = "store" => IsMember(Query(s), Msg(s).task), \A p \in parts'[r] : p.ok
  PROVE  Faultless(r)'
<1>1. slot'[s] = w /\ (\A x \in Slots : x # s => slot'[x] = slot[x]) /\ w.msg = slot[s].msg
  BY OneSlot DEF Becomes, Msg
<1>2. ASSUME NEW x \in Slots, (~At(x, "idle") /\ Req(x) = r)'
      PROVE  (slot[x].ok /\ ~At(x, "clear") /\ (At(x, "store") => IsMember(Query(x), Msg(x).task)))'
  <2>1. CASE x = s
    BY <1>1, <2>1 DEF At, Query, Req, Msg
  <2>2. CASE x # s
    <3>1. slot'[x] = slot[x]
      BY <1>1, <2>2
    <3>2. ~At(x, "idle") /\ Req(x) = r
      BY <1>2, <3>1 DEF At, Req, Msg
    <3> QED
      BY <3>1, <3>2 DEF Faultless, At, Query, Req, Msg
  <2> QED
    BY <2>1, <2>2
<1> QED
  BY <1>2 DEF Faultless

\* A worker or a message of the document is left.
LEMMA StillOutstanding ==
  ASSUME NEW r \in Requests,
         \/ \E m \in DOMAIN queue' : m.req = r
         \/ \E s \in Slots : slot'[s].step \notin {"idle", "ack"} /\ slot'[s].msg.req = r
  PROVE  Outstanding(r)'
BY DEF Outstanding, At, Req, Msg
\* The task returns.
LEMMA SucceedWay ==
  ASSUME TypeInv, Sound, NEW s \in Slots, Succeed(s), NEW r \in Requests, r = Req(s), OnItsWay(r)
  PROVE  OnItsWay(r)'
<1>0. PICK t : t = Msg(s).task
  OBVIOUS
<1>1. /\ At(s, "run") /\ t # "collect" /\ ~At(s, "idle")
      /\ request' = request /\ unsent' = unsent /\ queue' = queue /\ parts' = parts /\ armed' = armed
  BY <1>0 DEF Succeed, At
<1>2. Query(s) \in DocumentRequest /\ Query(s) = request[r] /\ t \in Header(Query(s)) \cup FirstTasks(Query(s))
  BY <1>0, <1>1, BusyType DEF Sound, WorkerSound, MessageSound, Query, Req, Msg
<1>3. PICK w : /\ Becomes(s, w) /\ w.ok = slot[s].ok
               /\ w.todo = Following(Query(s), t)
               /\ w.step = IF w.todo = {} THEN "store" ELSE "publish"
  BY <1>0, SucceedSlot
<1>4. slot'[s] = w /\ (\A x \in Slots : x # s => slot'[x] = slot[x]) /\ w.msg = slot[s].msg
  BY <1>3, OneSlot DEF Becomes, Msg
<1>5. Returned(r, t)'
  BY <1>0, <1>3, <1>4 DEF Returned, At, Req, Msg
<1>6. ASSUME HasHead(request[r]), t = "ocr", NEW u \in Header(request[r])
      PROVE  Behind(r, u)'
  <2>1. w.todo = Header(request[r]) /\ w.step = "publish"
    BY <1>2, <1>3, <1>6 DEF Following, IsHead
  <2> QED
    BY <1>1, <1>4, <1>6, <2>1 DEF Behind, At, Req, Msg
<1>7. ASSUME NEW u
      PROVE  /\ Waiting(r, u) => Waiting(r, u)' \/ Returned(r, u)'
             /\ Returned(r, u) => Returned(r, u)'
             /\ Behind(r, u) /\ u \in Header(request[r]) => Behind(r, u)'
  <2>1. /\ Waiting(r, u) => Waiting(r, u)' \/ (At(s, "run") /\ Req(s) = r /\ Msg(s).task = u)
        /\ Returned(r, u) =>
             Returned(r, u)' \/ ((At(s, "publish") \/ At(s, "store")) /\ Req(s) = r /\ Msg(s).task = u)
        /\ Behind(r, u) =>
             \/ Behind(r, u)'
             \/ HasHead(request[r]) /\ At(s, "run") /\ Req(s) = r /\ Msg(s).task = "ocr"
             \/ HasHead(request[r]) /\ At(s, "publish") /\ Req(s) = r /\ u \in slot[s].todo
    BY <1>1, <1>4, OthersGo
  <2>2. ~At(s, "publish") /\ ~At(s, "store")
    BY <1>1 DEF At
  <2> QED
    BY <1>0, <1>5, <1>6, <2>1, <2>2
<1>8. Covered(r)'
  BY <1>1, <1>7 DEF OnItsWay, Covered
<1>9. Armed(r)'
  BY <1>1, <1>7 DEF OnItsWay, Armed
<1>10. Faultless(r)'
  <2>1. slot[s].ok /\ Faultless(r) /\ \A p \in parts'[r] : p.ok
    BY <1>1 DEF OnItsWay, Faultless
  <2>2. w.step = "store" => IsMember(Query(s), t)
    BY <1>2, <1>3, NotMember, HeaderSome DEF Following
  <2>3. w.ok /\ w.step # "clear"
    BY <1>3, <2>1
  <2> QED
    BY <1>0, <1>1, <1>3, <2>1, <2>2, <2>3, OthersSound
<1>11. Outstanding(r)'
  BY <1>3, <1>4, StillOutstanding DEF Req, Msg
<1> QED
  BY <1>8, <1>9, <1>10, <1>11 DEF OnItsWay

\* OCR is to be tried again.
LEMMA RetryWay ==
  ASSUME TypeInv, NEW s \in Slots, Retry(s), NEW r \in Requests, r = Req(s), OnItsWay(r)
  PROVE  OnItsWay(r)'
<1>0. PICK t : t = Msg(s).task
  OBVIOUS
<1>1. /\ At(s, "run") /\ ~At(s, "idle") /\ ~At(s, "publish") /\ ~At(s, "store")
      /\ request' = request /\ unsent' = unsent /\ parts' = parts /\ armed' = armed
  BY DEF Retry, At
<1>2. PICK m, w : /\ queue' = BagAdd(queue, m) /\ m.req = Req(s) /\ m.task = Msg(s).task
                  /\ Becomes(s, w) /\ w.step = "ack" /\ w.ok = slot[s].ok
  BY RetrySlot
<1>3. \A x \in Slots : x # s => slot'[x] = slot[x]
  BY <1>2, OneSlot DEF Becomes
<1>4. DOMAIN queue' = DOMAIN queue \cup {m}
  BY <1>2, QueueGrows
<1>5. Waiting(r, t)'
  BY <1>0, <1>2, <1>4 DEF Waiting
<1>6. ASSUME NEW u
      PROVE  /\ Waiting(r, u) => Waiting(r, u)'
             /\ Returned(r, u) => Returned(r, u)'
             /\ Behind(r, u) => Behind(r, u)'
  <2>1. /\ Waiting(r, u) => Waiting(r, u)' \/ (At(s, "run") /\ Req(s) = r /\ Msg(s).task = u)
        /\ Returned(r, u) =>
             Returned(r, u)' \/ ((At(s, "publish") \/ At(s, "store")) /\ Req(s) = r /\ Msg(s).task = u)
        /\ Behind(r, u) =>
             \/ Behind(r, u)'
             \/ HasHead(request[r]) /\ At(s, "run") /\ Req(s) = r /\ Msg(s).task = "ocr"
             \/ HasHead(request[r]) /\ At(s, "publish") /\ Req(s) = r /\ u \in slot[s].todo
    BY <1>1, <1>3, <1>4, OthersGo
  <2>2. HasHead(request[r]) /\ t = "ocr" => Behind(r, u)'
    BY <1>1, <1>5 DEF Behind
  <2> QED
    BY <1>0, <1>1, <1>5, <2>1, <2>2
<1>7. Covered(r)'
  BY <1>1, <1>6 DEF OnItsWay, Covered
<1>8. Armed(r)'
  BY <1>1, <1>6 DEF OnItsWay, Armed
<1>9. Faultless(r)'
  <2>1. slot[s].ok /\ Faultless(r) /\ \A p \in parts'[r] : p.ok
    BY <1>1 DEF OnItsWay, Faultless
  <2> QED
    BY <1>1, <1>2, <2>1, OthersSound
<1>10. Outstanding(r)'
  BY <1>2, <1>4, StillOutstanding
<1> QED
  BY <1>7, <1>8, <1>9, <1>10 DEF OnItsWay
\* A link calls collect; the head publishes its header, and sizes the chord.
LEMMA PublishNextWay ==
  ASSUME TypeInv, NEW s \in Slots, PublishNext(s), NEW r \in Requests, r = Req(s), OnItsWay(r)
  PROVE  OnItsWay(r)' \/ Called(r)'
<1>1. /\ At(s, "publish") /\ ~At(s, "idle") /\ ~At(s, "run") /\ ~At(s, "store")
      /\ request' = request /\ unsent' = unsent /\ parts' = parts
  BY DEF PublishNext, At
<1>2. Query(s) \in DocumentRequest /\ Query(s) = request[r]
  BY <1>1, BusyType DEF Query
<1>3. PICK t, m, w :
        /\ t \in slot[s].todo
        /\ queue' = BagAdd(queue, m) /\ m.req = Req(s) /\ m.task = t
        /\ Becomes(s, w) /\ w.ok = slot[s].ok /\ w.todo = slot[s].todo \ {t}
        /\ w.step = IF slot[s].todo = {t} THEN "ack" ELSE "publish"
  BY PublishNextSlot
<1>4. slot'[s] = w /\ (\A x \in Slots : x # s => slot'[x] = slot[x]) /\ w.msg = slot[s].msg
  BY <1>3, OneSlot DEF Becomes, Msg
<1>5. DOMAIN queue' = DOMAIN queue \cup {m}
  BY <1>3, QueueGrows
<1>6. CASE t = "collect"
  BY <1>3, <1>5, <1>6 DEF Called
<1>7. CASE t # "collect"
  <2>1. IsHead(request[r], Msg(s).task) /\ slot[s].todo \subseteq Header(request[r])
    BY <1>1, <1>2, <1>3, <1>7 DEF TypeInv, PublishInv, Publishing, Msg
  <2>2. HasHead(request[r]) /\ Msg(s).task = "ocr" /\ "ocr" \notin Header(request[r])
    BY <1>2, <2>1, HeaderOnce DEF IsHead
  <2>3. Waiting(r, t)'
    BY <1>3, <1>5 DEF Waiting
  <2>4. ASSUME NEW u \in slot[s].todo, u # t PROVE Behind(r, u)'
    BY <1>1, <1>3, <1>4, <2>2, <2>4 DEF Behind, At, Req, Msg
  <2>5. w.step = "publish" => Returned(r, "ocr")'
    BY <1>3, <1>4, <2>2 DEF Returned, At, Req, Msg
  <2>6. w.step # "publish" => (IsChord(request[r]) => armed'[r])
    <3>1. ASSUME slot[s].todo = {t}, IsChord(request[r])
          PROVE  Arms(r, slot[s].todo)
      BY <1>3, <2>1, <3>1 DEF Arms
    <3> QED
      BY <1>3, <3>1 DEF PublishNext, TypeInv, TypeOK
  <2>7. armed[r] => armed'[r]
    BY DEF PublishNext, TypeInv, TypeOK
  <2>8. ASSUME NEW u
        PROVE  /\ Waiting(r, u) => Waiting(r, u)'
               /\ Returned(r, u) => Returned(r, u)' \/ (u = "ocr" /\ w.step # "publish")
               /\ Behind(r, u) => Behind(r, u)' \/ Waiting(r, u)'
    <3>1. /\ Waiting(r, u) => Waiting(r, u)' \/ (At(s, "run") /\ Req(s) = r /\ Msg(s).task = u)
          /\ Returned(r, u) =>
               Returned(r, u)' \/ ((At(s, "publish") \/ At(s, "store")) /\ Req(s) = r /\ Msg(s).task = u)
          /\ Behind(r, u) =>
               \/ Behind(r, u)'
               \/ HasHead(request[r]) /\ At(s, "run") /\ Req(s) = r /\ Msg(s).task = "ocr"
               \/ HasHead(request[r]) /\ At(s, "publish") /\ Req(s) = r /\ u \in slot[s].todo
      BY <1>1, <1>4, <1>5, OthersGo
    <3> QED
      BY <1>1, <2>2, <2>3, <2>4, <2>5, <3>1
  <2>9. Covered(r)'
    BY <1>1, <2>2, <2>8 DEF OnItsWay, Covered
  <2>10. Armed(r)'
    BY <1>1, <2>2, <2>5, <2>6, <2>7, <2>8 DEF OnItsWay, Armed
  <2>11. Faultless(r)'
    <3>1. slot[s].ok /\ Faultless(r) /\ \A p \in parts'[r] : p.ok
      BY <1>1 DEF OnItsWay, Faultless
    <3> QED
      BY <1>1, <1>3, <3>1, OthersSound
  <2>12. Outstanding(r)'
    BY <1>3, <1>5, StillOutstanding
  <2> QED
    BY <2>9, <2>10, <2>11, <2>12 DEF OnItsWay
<1> QED
  BY <1>6, <1>7

\* Nothing of the document is left to do: its header's results are all counted.
LEMMA NothingLeft ==
  ASSUME TypeInv', Sound', Idempotent, NEW r \in Requests, Covered(r)', Armed(r)', Faultless(r)',
         unsent'[r] = {}, ~Outstanding(r)', IsChord(request'[r])
  PROVE  armed'[r] /\ CountFull(request'[r], parts'[r])
<1>1. request'[r] \in DocumentRequest /\ parts'[r] \in SUBSET Part
  BY DEF TypeInv, TypeOK
<1>2. ASSUME NEW t PROVE ~Waiting(r, t)' /\ ~Returned(r, t)'
  BY DEF Outstanding, Waiting, Returned, At
<1>3. ASSUME NEW t PROVE ~Behind(r, t)'
  BY <1>2 DEF Outstanding, Behind, At
<1>4. armed'[r]
  BY <1>2 DEF Armed
<1>5. \A p \in parts'[r] : p.ok /\ p.task \in Header(request'[r])
                             /\ ResultSound(request'[r], p.task, p.text)
  BY DEF Sound, PartSound, Faultless
<1>6. {p.task : p \in parts'[r]} = Header(request'[r])
  BY <1>2, <1>3, <1>5 DEF Covered
<1>7. \A p, o \in parts'[r] : p.task = o.task => p.text = o.text
  BY <1>5 DEF ResultSound, Idempotent
<1>8. \A p, o \in parts'[r] : p.task = o.task => p = o
  <2>1. \A p \in parts'[r] : p \in Part /\ p.ok = TRUE
    BY <1>1, <1>5 DEF Part
  <2> QED
    BY <1>7, <2>1 DEF Part
<1> QED
  BY <1>1, <1>4, <1>6, <1>8, AllCounted

LEMMA AddPartWay ==
  ASSUME TypeInv, TypeInv', Sound', Idempotent, NEW s \in Slots, AddPart(s),
         NEW r \in Requests, r = Req(s), OnItsWay(r)
  PROVE  OnItsWay(r)'
<1>0. PICK t : t = Msg(s).task
  OBVIOUS
<1>1. /\ At(s, "store") /\ ~At(s, "idle") /\ ~At(s, "run") /\ ~At(s, "publish")
      /\ IsMember(Query(s), t)
      /\ request' = request /\ unsent' = unsent /\ queue' = queue /\ armed' = armed
  BY <1>0 DEF AddPart, At
<1>2. Query(s) \in DocumentRequest /\ Query(s) = request[r]
  BY <1>1, BusyType DEF Query
<1>3. PICK w, part :
        /\ parts'[r] = parts[r] \cup {part}
        /\ part.task = t /\ part.ok = slot[s].ok
        /\ Becomes(s, w) /\ w.ok = slot[s].ok
        /\ w.step = IF armed[r] /\ CountFull(request[r], parts'[r]) THEN "fire" ELSE "ack"
  BY <1>0, AddPartSlot
<1>4. slot'[s] = w /\ (\A x \in Slots : x # s => slot'[x] = slot[x]) /\ w.msg = slot[s].msg
  BY <1>3, OneSlot DEF Becomes, Msg
<1>5. t \in Header(request[r]) /\ (HasHead(request[r]) => t # "ocr")
      /\ IsChord(request[r])
  BY <1>1, <1>2, HeaderOnce DEF IsMember
<1>6. ASSUME NEW u
      PROVE  /\ Waiting(r, u) => Waiting(r, u)'
             /\ Returned(r, u) => Returned(r, u)' \/ u = t
             /\ Behind(r, u) => Behind(r, u)'
  <2>1. /\ Waiting(r, u) => Waiting(r, u)' \/ (At(s, "run") /\ Req(s) = r /\ Msg(s).task = u)
        /\ Returned(r, u) =>
             Returned(r, u)' \/ ((At(s, "publish") \/ At(s, "store")) /\ Req(s) = r /\ Msg(s).task = u)
        /\ Behind(r, u) =>
             \/ Behind(r, u)'
             \/ HasHead(request[r]) /\ At(s, "run") /\ Req(s) = r /\ Msg(s).task = "ocr"
             \/ HasHead(request[r]) /\ At(s, "publish") /\ Req(s) = r /\ u \in slot[s].todo
    BY <1>1, <1>4, OthersGo
  <2> QED
    BY <1>0, <1>1, <2>1
<1>7. Covered(r)'
  <2>1. ASSUME NEW u \in Header(request[r])
        PROVE  (\E p \in parts'[r] : p.task = u) \/ Waiting(r, u)' \/ Returned(r, u)' \/ Behind(r, u)'
    BY <1>3, <1>6 DEF OnItsWay, Covered
  <2> QED
    BY <1>1, <2>1 DEF Covered
<1>8. Armed(r)'
  BY <1>1, <1>5, <1>6 DEF OnItsWay, Armed
<1>9. Faultless(r)'
  <2>1. slot[s].ok /\ Faultless(r) /\ \A p \in parts[r] : p.ok
    BY <1>1 DEF OnItsWay, Faultless
  <2>2. \A p \in parts'[r] : p.ok
    BY <1>3, <2>1
  <2> QED
    BY <1>1, <1>3, <2>1, <2>2, OthersSound
<1>10. ASSUME unsent'[r] = {}, ~Outstanding(r)' PROVE FALSE
  <2>1. IsChord(request'[r])
    BY <1>1, <1>5
  <2>2. armed'[r] /\ CountFull(request'[r], parts'[r])
    BY <1>7, <1>8, <1>9, <1>10, <2>1, NothingLeft
  <2>3. w.step = "fire"
    BY <1>1, <1>3, <2>2
  <2> QED
    BY <1>4, <1>10, <2>3, StillOutstanding DEF Req, Msg
<1> QED
  BY <1>7, <1>8, <1>9, <1>10 DEF OnItsWay
\* Its worker dies, and the message comes back.
LEMMA CrashWay ==
  ASSUME TypeInv, NEW s \in Slots, Crash(s), NEW r \in Requests, r = Req(s), OnItsWay(r)
  PROVE  OnItsWay(r)'
<1>0. PICK m : m = Msg(s)
  OBVIOUS
<1>1. ~At(s, "idle") /\ request' = request /\ unsent' = unsent /\ parts' = parts /\ queue' = BagAdd(queue, m)
  BY <1>0 DEF Crash
<1>2. slot'[s] = Idle /\ \A x \in Slots : x # s => slot'[x] = slot[x]
  BY OneSlot DEF Crash
<1>3. DOMAIN queue' = DOMAIN queue \cup {m} /\ m.req = r
  BY <1>0, <1>1, QueueGrows DEF Req
<1>4. Query(s) \in DocumentRequest /\ Query(s) = request[r]
  BY <1>1, BusyType DEF Query
<1>5. Waiting(r, m.task)'
  BY <1>3 DEF Waiting
<1>6. armed[r] => armed'[r]
  BY DEF Crash, TypeInv, TypeOK
<1>7. ASSUME NEW u
      PROVE  /\ Waiting(r, u) => Waiting(r, u)'
             /\ Returned(r, u) => Returned(r, u)' \/ Waiting(r, u)'
             /\ Behind(r, u) /\ u \in Header(request[r]) => Behind(r, u)'
  <2>1. /\ Waiting(r, u) => Waiting(r, u)' \/ (At(s, "run") /\ Req(s) = r /\ Msg(s).task = u)
        /\ Returned(r, u) =>
             Returned(r, u)' \/ ((At(s, "publish") \/ At(s, "store")) /\ Req(s) = r /\ Msg(s).task = u)
        /\ Behind(r, u) =>
             \/ Behind(r, u)'
             \/ HasHead(request[r]) /\ At(s, "run") /\ Req(s) = r /\ Msg(s).task = "ocr"
             \/ HasHead(request[r]) /\ At(s, "publish") /\ Req(s) = r /\ u \in slot[s].todo
    BY <1>1, <1>2, <1>3, OthersGo
  <2>2. HasHead(request[r]) /\ m.task = "ocr" => Behind(r, u)'
    BY <1>1, <1>5 DEF Behind
  <2>3. At(s, "publish") /\ u \in slot[s].todo /\ u \in Header(request[r]) => m.task = "ocr"
    <3>1. "collect" \notin Header(request[r])
      BY <1>4, HeaderType DEF HeaderTask, AgentName
    <3> QED
      BY <1>0, <1>4, <3>1 DEF TypeInv, PublishInv, Publishing, IsHead, Msg
  <2> QED
    BY <1>0, <1>5, <2>1, <2>2, <2>3
<1>8. Covered(r)'
  BY <1>1, <1>7 DEF OnItsWay, Covered
<1>9. Armed(r)'
  BY <1>1, <1>6, <1>7 DEF OnItsWay, Armed
<1>10. Faultless(r)'
  <2>1. \A x \in Slots : (~At(x, "idle"))' => slot'[x] = slot[x]
    BY <1>2 DEF At, Idle
  <2> QED
    BY <1>1, <2>1 DEF OnItsWay, Faultless, At, Query, Req, Msg
<1>11. Outstanding(r)'
  BY <1>3, StillOutstanding
<1> QED
  BY <1>8, <1>9, <1>10, <1>11 DEF OnItsWay

\* What is acknowledged was done.
LEMMA AckWay ==
  ASSUME TypeInv, NEW s \in Slots, Ack(s), NEW r \in Requests, r = Req(s), OnItsWay(r)
  PROVE  OnItsWay(r)'
<1>1. /\ At(s, "ack") /\ ~At(s, "run") /\ ~At(s, "publish") /\ ~At(s, "store")
      /\ request' = request /\ unsent' = unsent /\ parts' = parts /\ queue' = queue /\ armed' = armed
  BY DEF Ack, At
<1>2. slot'[s] = Idle /\ \A x \in Slots : x # s => slot'[x] = slot[x]
  BY OneSlot DEF Ack
<1>3. ASSUME NEW u
      PROVE  /\ Waiting(r, u) => Waiting(r, u)'
             /\ Returned(r, u) => Returned(r, u)'
             /\ Behind(r, u) => Behind(r, u)'
  <2>1. /\ Waiting(r, u) => Waiting(r, u)' \/ (At(s, "run") /\ Req(s) = r /\ Msg(s).task = u)
        /\ Returned(r, u) =>
             Returned(r, u)' \/ ((At(s, "publish") \/ At(s, "store")) /\ Req(s) = r /\ Msg(s).task = u)
        /\ Behind(r, u) =>
             \/ Behind(r, u)'
             \/ HasHead(request[r]) /\ At(s, "run") /\ Req(s) = r /\ Msg(s).task = "ocr"
             \/ HasHead(request[r]) /\ At(s, "publish") /\ Req(s) = r /\ u \in slot[s].todo
    BY <1>1, <1>2, OthersGo
  <2> QED
    BY <1>1, <2>1
<1>4. Covered(r)'
  BY <1>1, <1>3 DEF OnItsWay, Covered
<1>5. Armed(r)'
  BY <1>1, <1>3 DEF OnItsWay, Armed
<1>6. Faultless(r)'
  <2>1. \A x \in Slots : (~At(x, "idle"))' => slot'[x] = slot[x]
    BY <1>2 DEF At, Idle
  <2> QED
    BY <1>1, <2>1 DEF OnItsWay, Faultless, At, Query, Req, Msg
<1>7. (unsent[r] = {} => Outstanding(r))'
  <2>1. ASSUME NEW m \in DOMAIN queue, m.req = r PROVE Outstanding(r)'
    BY <1>1, <2>1 DEF Outstanding
  <2>2. ASSUME NEW x \in Slots, ~At(x, "idle"), ~At(x, "ack"), Req(x) = r PROVE Outstanding(r)'
    BY <1>1, <1>2, <2>2 DEF Outstanding, At, Req, Msg
  <2> QED
    BY <1>1, <2>1, <2>2 DEF OnItsWay, Outstanding
<1> QED
  BY <1>4, <1>5, <1>6, <1>7 DEF OnItsWay

\* A worker's step for the document.
LEMMA BusyWay ==
  ASSUME TypeInv, Sound, TypeInv', Sound', Idempotent, NEW s \in Slots, Busy(s),
         NEW r \in Requests, r = Req(s), ~request[r].faulty, ~Called(r), OnItsWay(r)
  PROVE  OnItsWay(r)' \/ Called(r)'
<1>1. ~At(s, "idle") /\ Query(s) = request[r]
  BY BusyMoves DEF Query
<1>2. ~At(s, "clear") /\ (At(s, "store") => IsMember(Query(s), Msg(s).task)) /\ \A p \in parts[r] : p.ok
  BY <1>1 DEF OnItsWay, Faultless
<1>3. ~Fail(s) /\ ~Collect(s) /\ ~StoreFailure(s) /\ ~ClearChord(s)
  BY <1>1, <1>2 DEF Fail, Collect, StoreFailure, ClearChord, Called
<1>4. CASE FireBody(s)
  <2>1. PICK m : m = CollectMessage(r, ItemsOf(parts[r])) /\ queue' = BagAdd(queue, m)
    BY <1>2, <1>4 DEF FireBody
  <2>2. m \in DOMAIN queue' /\ m.req = r /\ m.task = "collect"
    BY <2>1, QueueGrows DEF CollectMessage
  <2> QED
    BY <2>2 DEF Called
<1> QED
  BY <1>3, <1>4, SucceedWay, RetryWay, PublishNextWay, AddPartWay, AckWay, CrashWay DEF Busy, Finish

\* The API publishes a first task.
LEMMA PublishWay ==
  ASSUME TypeInv, Sound, NEW r \in Requests, NEW t \in Task, Publish(r, t), OnItsWay(r)
  PROVE  OnItsWay(r)'
<1>1. /\ t \in unsent[r] /\ unsent'[r] = unsent[r] \ {t}
      /\ request' = request /\ slot' = slot /\ parts' = parts
  BY DEF Publish, TypeInv, TypeOK
<1>2. PICK m : m = TaskMessage(r, t, None) /\ queue' = BagAdd(queue, m)
  BY DEF Publish
<1>3. DOMAIN queue' = DOMAIN queue \cup {m} /\ m.req = r /\ m.task = t
  BY <1>2, QueueGrows DEF TaskMessage
<1>4. ASSUME NEW u
      PROVE  /\ Waiting(r, u) => Waiting(r, u)'
             /\ Returned(r, u) => Returned(r, u)'
             /\ Behind(r, u) => Behind(r, u)'
  <2>1. ASSUME NEW v, Waiting(r, v) PROVE Waiting(r, v)'
    BY <1>1, <1>3, <2>1 DEF Waiting, At, Req, Msg
  <2>2. Returned(r, u) => Returned(r, u)'
    BY <1>1 DEF Returned, At, Req, Msg
  <2>3. Behind(r, u) => Behind(r, u)'
    BY <1>1, <2>1 DEF Behind, At, Req, Msg
  <2> QED
    BY <2>1, <2>2, <2>3
<1>5. Covered(r)'
  BY <1>1, <1>4 DEF OnItsWay, Covered
<1>6. Armed(r)'
  <2>1. armed[r] => armed'[r]
    BY DEF Publish, TypeInv, TypeOK
  <2>2. ASSUME IsChord(request[r]), unsent'[r] = {}, ~HasHead(request[r])
        PROVE  armed'[r]
    <3>1. unsent[r] = {t} /\ t \in Header(request[r])
      BY <1>1, <2>2 DEF Sound, FirstTasks
    <3>2. Arms(r, unsent[r])
      BY <2>2, <3>1 DEF Arms
    <3> QED
      BY <3>2 DEF Publish, TypeInv, TypeOK
  <2>3. ASSUME HasHead(request[r])
        PROVE  Waiting(r, "ocr")'
    <3>1. t = "ocr"
      BY <1>1, <2>3 DEF Sound, FirstTasks
    <3> QED
      BY <1>3, <3>1 DEF Waiting
  <2> QED
    BY <1>1, <1>4, <2>1, <2>2, <2>3 DEF OnItsWay, Armed
<1>7. Faultless(r)'
  BY <1>1 DEF OnItsWay, Faultless, At, Query, Req, Msg
<1>8. Outstanding(r)'
  BY <1>3, StillOutstanding
<1> QED
  BY <1>5, <1>6, <1>7, <1>8 DEF OnItsWay

\* A free worker takes a message of the document.
LEMMA DeliverWay ==
  ASSUME TypeInv, NEW s \in Slots, Deliver(s), NEW r \in Requests, ~Called(r), OnItsWay(r)
  PROVE  OnItsWay(r)'
<1>1. PICK m, w :
        /\ m \in DOMAIN queue
        /\ queue' = BagRemove(queue, m)
        /\ slot' = [slot EXCEPT ![s] = w] /\ w.msg = m /\ w.step = "run" /\ w.ok
  BY DeliverSlot
<1>2. At(s, "idle") /\ request' = request /\ unsent' = unsent /\ parts' = parts /\ armed' = armed
  BY DEF Deliver
<1>3. slot'[s] = w /\ \A x \in Slots : x # s => slot'[x] = slot[x]
  BY <1>1, OneSlot
<1>4. \A n \in DOMAIN queue : n # m => n \in DOMAIN queue'
  BY <1>1, BagLeaves DEF TypeInv, TypeOK
<1>5. CASE m.req # r
  BY <1>1, <1>2, <1>3, <1>4, <1>5, WayApart DEF At, Req, Msg
<1>6. CASE m.req = r
  <2>1. Waiting(r, m.task)'
    BY <1>1, <1>3, <1>6 DEF Waiting, At, Req, Msg
  <2>2. ASSUME NEW u
        PROVE  /\ Waiting(r, u) => Waiting(r, u)'
               /\ Returned(r, u) => Returned(r, u)'
               /\ Behind(r, u) => Behind(r, u)'
    <3>1. ASSUME NEW v, Waiting(r, v) PROVE Waiting(r, v)'
      <4>1. CASE v = m.task
        BY <2>1, <4>1
      <4>2. CASE v # m.task
        BY <1>2, <1>3, <1>4, <3>1, <4>2 DEF Waiting, At, Req, Msg
      <4> QED
        BY <4>1, <4>2
    <3>2. Returned(r, u) => Returned(r, u)'
      BY <1>2, <1>3 DEF Returned, At, Req, Msg
    <3>3. Behind(r, u) => Behind(r, u)'
      BY <1>2, <1>3, <3>1 DEF Behind, At, Req, Msg
    <3> QED
      BY <3>1, <3>2, <3>3
  <2>3. Covered(r)'
    BY <1>2, <2>2 DEF OnItsWay, Covered
  <2>4. Armed(r)'
    BY <1>2, <2>2 DEF OnItsWay, Armed
  <2>5. Faultless(r)'
    <3>1. ASSUME NEW x \in Slots, (~At(x, "idle") /\ Req(x) = r)'
          PROVE  (slot[x].ok /\ ~At(x, "clear") /\ (At(x, "store") => IsMember(Query(x), Msg(x).task)))'
      <4>1. CASE x = s
        BY <1>1, <1>3, <4>1 DEF At
      <4>2. CASE x # s
        BY <1>2, <1>3, <3>1, <4>2 DEF OnItsWay, Faultless, At, Query, Req, Msg
      <4> QED
        BY <4>1, <4>2
    <3> QED
      BY <1>2, <3>1 DEF OnItsWay, Faultless
  <2>6. Outstanding(r)'
    BY <1>1, <1>3, <1>6, StillOutstanding
  <2> QED
    BY <2>3, <2>4, <2>5, <2>6 DEF OnItsWay
<1> QED
  BY <1>5, <1>6

LEMMA StrandStep ==
  ASSUME TypeInv, Sound, TypeInv', Sound', StrandInv, Idempotent, [Next]_vars
  PROVE  StrandInv'
<1>1. request' = request /\ Replied'
  BY RequestFixed, RepliedStep DEF StrandInv
<1> SUFFICES ASSUME NEW r \in Requests, ~request[r].faulty, ~Called(r)
             PROVE  OnItsWay(r)' \/ Called(r)'
  BY <1>1, CalledKept DEF StrandInv
<1>2. OnItsWay(r)
  BY DEF StrandInv
<1>3. ASSUME NEW u \in Requests, NEW t \in Task, Publish(u, t) PROVE OnItsWay(r)'
  <2>1. CASE u = r
    BY <1>2, <1>3, <2>1, PublishWay
  <2>2. CASE u # r
    <3>1. DOMAIN queue \subseteq DOMAIN queue'
      BY <1>3, QueueGrows DEF Publish
    <3>2. unsent'[r] = unsent[r] /\ slot' = slot /\ parts' = parts /\ armed'[r] = armed[r]
      BY <1>3, <2>2 DEF Publish, TypeInv, TypeOK
    <3> QED
      BY <1>1, <1>2, <3>1, <3>2, WayApart
  <2> QED
    BY <2>1, <2>2
<1>4. ASSUME NEW u \in Requests, Accept(u) \/ BrokerDown(u) PROVE OnItsWay(r)'
  <2>1. unsent' = unsent /\ slot' = slot /\ parts' = parts /\ queue' = queue /\ (armed[r] => armed'[r])
    BY <1>4 DEF Accept, BrokerDown, TypeInv, TypeOK
  <2> QED
    BY <1>1, <1>2, <2>1, WayApart
<1>5. ASSUME NEW s \in Slots, Deliver(s) PROVE OnItsWay(r)'
  BY <1>2, <1>5, DeliverWay
<1>6. ASSUME NEW s \in Slots, Busy(s) PROVE OnItsWay(r)' \/ Called(r)'
  <2>1. CASE r = Req(s)
    BY <1>2, <1>6, <2>1, BusyWay
  <2>2. CASE r # Req(s)
    <3>1. Apart(s, r) /\ Moved(s) /\ ~At(s, "idle") /\ DOMAIN queue \subseteq DOMAIN queue'
      BY <1>6, <2>2, BusyApart, BusyMoves
    <3> QED
      BY <1>1, <1>2, <2>2, <3>1, WayApart DEF Apart, Moved, Req, Msg
  <2> QED
    BY <2>1, <2>2
<1>7. CASE UNCHANGED vars
  BY <1>1, <1>2, <1>7, WayApart DEF vars
<1> QED
  BY <1>3, <1>4, <1>5, <1>6, <1>7 DEF Next, Submit, Work, Busy

\* However often workers die, a document that fails none of its tasks has every
\* task of its header counted or still to run, until collect is called, provided
\* OCR is idempotent.
THEOREM StrandInvariant ==
  ASSUME Idempotent
  PROVE  Spec => []StrandInv
<1>1. TypeInv /\ TypeInv' /\ Sound /\ Sound' /\ StrandInv /\ [Next]_vars => StrandInv'
  BY StrandStep
<1> QED
  BY <1>1, StrandInit, TypeInvariant, SoundInvariant, PTL DEF Spec

\* The invariant of redelivery as a whole: however often workers die, nothing
\* completes a document published in part, and no task of a faultless one is lost.
THEOREM CrashInvariant ==
  ASSUME Idempotent
  PROVE  Spec => []CrashInv
<1>1. Sound /\ MissingInv /\ StrandInv => CrashInv
  BY DEF CrashInv
<1> QED
  BY <1>1, SoundInvariant, MissingInvariant, StrandInvariant, PTL

\* So no killed process strands a document: whatever can still finish it exists
\* as long as it is not finished.
THEOREM NeverStranded ==
  ASSUME Idempotent
  PROVE  Spec => []NothingStranded
<1>1. StrandInv => NothingStranded
  <2> SUFFICES ASSUME StrandInv, NEW r \in Requests, reply[r] = "accepted", ~request[r].faulty, ~Ready(r)
               PROVE  Outstanding(r)
    BY DEF NothingStranded
  <2>1. CASE Called(r)
    BY <2>1 DEF Called, Ready, Outstanding, At
  <2>2. CASE OnItsWay(r)
    BY <2>2 DEF StrandInv, Replied, OnItsWay
  <2> QED
    BY <2>1, <2>2 DEF StrandInv
<1> QED
  BY <1>1, StrandInvariant, PTL
=============================================================================
