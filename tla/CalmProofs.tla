----------------------------- MODULE CalmProofs -----------------------------
(***************************************************************************)
(* Without crashes, for every set of documents and worker processes and    *)
(* any number of retries.  First, a task of a document is in one place at  *)
(* a time, the chord's count is therefore complete when it says so, and a  *)
(* result covers the agents asked for.  Then, a document ends once: what a *)
(* caller was refused never finishes, what a client has read of a finished *)
(* document stays, every step is one of the contract's or invisible to the *)
(* caller, and a pipeline's results rest on one run of its OCR task.       *)
(***************************************************************************)
EXTENDS DispatchProofs, WorkflowProofs

-----------------------------------------------------------------------------
(* Places, one disjunct per kind, in this state and the next.              *)

PlaceRule(r, t, x) ==
  x \in Places(r, t) <=>
    \/ t \in unsent[r] /\ x = Place("unsent", t)
    \/ \E m \in DOMAIN queue : m.req = r /\ m.task = t /\ x = Place("queue", m)
    \/ \E s \in Slots : Working(s) /\ Req(s) = r /\ Msg(s).task = t /\ x = Place("slot", s)
    \/ \E s \in Slots : At(s, "publish") /\ Req(s) = r /\ t \in slot[s].todo /\ x = Place("todo", s)
    \/ \E p \in parts[r] : p.task = t /\ x = Place("part", p)

LEMMA PlacesRule ==
  ASSUME NEW r, NEW t, NEW x
  PROVE  PlaceRule(r, t, x) /\ PlaceRule(r, t, x)'
<1>1. PlaceRule(r, t, x)
  BY DEF PlaceRule, Places, UnsentPlaces, QueuePlaces, SlotPlaces, TodoPlaces, PartPlaces
<1>2. PlaceRule(r, t, x)'
  BY DEF PlaceRule, Places, UnsentPlaces, QueuePlaces, SlotPlaces, TodoPlaces, PartPlaces
<1> QED
  BY <1>1, <1>2

LEMMA PlaceKind ==
  ASSUME NEW k, NEW a, NEW l, NEW b, Place(k, a) = Place(l, b)
  PROVE  k = l /\ a = b
BY DEF Place

\* What is somewhere after a step was there before, or is the one new place.
LEMMA PlacesAfter ==
  ASSUME NEW r, NEW t, NEW new,
         t \in unsent'[r] => t \in unsent[r],
         \A m \in DOMAIN queue' : m.req = r /\ m.task = t
           => m \in DOMAIN queue \/ Place("queue", m) = new,
         \A s \in Slots : (Working(s) /\ Req(s) = r /\ Msg(s).task = t)'
           => (Working(s) /\ Req(s) = r /\ Msg(s).task = t) \/ Place("slot", s) = new,
         \A s \in Slots : (At(s, "publish") /\ Req(s) = r /\ t \in slot[s].todo)'
           => (At(s, "publish") /\ Req(s) = r /\ t \in slot[s].todo) \/ Place("todo", s) = new,
         \A p \in parts'[r] : p.task = t => p \in parts[r] \/ Place("part", p) = new
  PROVE  \A x \in Places(r, t)' : x \in Places(r, t) \/ x = new
<1> SUFFICES ASSUME NEW x \in Places(r, t)' PROVE x \in Places(r, t) \/ x = new
  OBVIOUS
<1>1. PlaceRule(r, t, x) /\ PlaceRule(r, t, x)'
  BY PlacesRule
<1> QED
  BY <1>1 DEF PlaceRule

\* A step moves a task from an old place to a new one, or makes nothing new.
Moves ==
  \E old, new : \A r \in Requests, t \in HeaderTask :
    /\ \A x \in Places(r, t)' : x \in Places(r, t) \/ x = new
    /\ new \in Places(r, t)' /\ new \notin Places(r, t)
         => old \in Places(r, t) /\ old \notin Places(r, t)'

OnePlace == \A r \in Requests, t \in HeaderTask : \A x, y \in Places(r, t) : x = y

LEMMA MovesOnePlace == OnePlace /\ Moves => OnePlace'
BY DEF OnePlace, Moves

LEMMA MovesNothing ==
  ASSUME Moves, NEW r \in Requests, NEW t \in HeaderTask, Places(r, t) = {}
  PROVE  Places(r, t)' = {}
BY DEF Moves

\* The queue holds a task's message once.
OneMessage == \A m \in DOMAIN queue : m.task # "collect" => queue[m] = 1

LEMMA AddOne ==
  ASSUME TypeInv, OneMessage, NEW m, m.task = "collect" \/ m \notin DOMAIN queue,
         queue' = BagAdd(queue, m)
  PROVE  OneMessage'
BY DEF TypeInv, TypeOK, IsABag, BagAdd, OneMessage

LEMMA TakeOne ==
  ASSUME TypeInv, OneMessage, NEW m \in DOMAIN queue, queue' = BagRemove(queue, m)
  PROVE  /\ OneMessage'
         /\ DOMAIN queue' \subseteq DOMAIN queue
         /\ m.task # "collect" => m \notin DOMAIN queue'
BY DEF TypeInv, TypeOK, IsABag, BagRemove, OneMessage

LEMMA UniqueParts == Unique <=> OnePlace /\ OneMessage
BY DEF Unique, OnePlace, OneMessage

-----------------------------------------------------------------------------
(* Every step but the head's return moves one task at most.                *)

LEMMA PublishMoves ==
  ASSUME TypeInv, Unique, NEW r \in Requests, NEW t \in Task, Publish(r, t)
  PROVE  Moves /\ OneMessage'
<1> DEFINE m == TaskMessage(r, t, None)
<1>1. DOMAIN queue' = DOMAIN queue \cup {m}
  BY BagAddType DEF Publish, TypeInv, TypeOK
<1>2. m.req = r /\ m.task = t
  BY DEF TaskMessage
<1>3. /\ t \in unsent[r] /\ slot' = slot /\ parts' = parts
      /\ unsent' = [unsent EXCEPT ![r] = @ \ {t}]
      /\ queue' = BagAdd(queue, m)
  BY DEF Publish
<1> HIDE DEF m
<1>4. Place("unsent", t) \in Places(r, t) /\ Place("unsent", t) \notin Places(r, t)'
  <2>1. PlaceRule(r, t, Place("unsent", t)) /\ PlaceRule(r, t, Place("unsent", t))'
    BY PlacesRule
  <2>2. t \notin unsent'[r]
    BY <1>3 DEF TypeInv, TypeOK
  <2> QED
    BY <1>3, <2>1, <2>2, PlaceKind DEF PlaceRule
<1>5. ASSUME NEW u \in Requests, NEW k \in HeaderTask
      PROVE  /\ \A x \in Places(u, k)' : x \in Places(u, k) \/ x = Place("queue", m)
             /\ Place("queue", m) \in Places(u, k)' => u = r /\ k = t
  <2>1. \A x \in Places(u, k)' : x \in Places(u, k) \/ x = Place("queue", m)
    BY <1>1, <1>3, PlacesAfter DEF Working, At, Req, Msg, TypeInv, TypeOK
  <2>2. Place("queue", m) \in Places(u, k)' => u = r /\ k = t
    <3>1. PlaceRule(u, k, Place("queue", m))'
      BY PlacesRule
    <3> QED
      BY <1>2, <3>1, PlaceKind DEF PlaceRule
  <2> QED
    BY <2>1, <2>2
<1>6. Moves
  BY <1>4, <1>5 DEF Moves
<1>7. t = "collect" \/ m \notin DOMAIN queue
  <2>1. ASSUME t \in HeaderTask, m \in DOMAIN queue PROVE FALSE
    <3>1. Place("queue", m) \in Places(r, t)
      BY <1>2, <2>1, PlacesRule DEF PlaceRule
    <3> QED
      BY <1>4, <2>1, <3>1, PlaceKind DEF Unique
  <2> QED
    BY <2>1 DEF Task
<1> QED
  BY <1>2, <1>3, <1>6, <1>7, AddOne, UniqueParts

\* A message of a task, alone in its place, is not added twice.
LEMMA NotQueued ==
  ASSUME Unique, NEW r \in Requests, NEW t \in Task, NEW m, NEW x,
         m.req = r, m.task = t, x \in Places(r, t), x.kind # "queue"
  PROVE  t = "collect" \/ m \notin DOMAIN queue
<1> SUFFICES ASSUME t \in HeaderTask, m \in DOMAIN queue PROVE FALSE
  BY DEF Task
<1>1. Place("queue", m) \in Places(r, t)
  BY PlacesRule DEF PlaceRule
<1>2. Place("queue", m).kind = "queue"
  BY DEF Place
<1> QED
  BY <1>1, <1>2 DEF Unique

\* A worker that moves on without starting to work or to publish.
LEMMA WorkerMoves ==
  ASSUME TypeInv, Unique, NEW s \in Slots, NEW w, slot' = [slot EXCEPT ![s] = w],
         w.step \in {"run", "publish", "store"} => Working(s) /\ w.msg = Msg(s),
         w.step # "publish",
         \A r \in Requests : unsent'[r] \subseteq unsent[r] /\ parts'[r] \subseteq parts[r],
         \A m \in DOMAIN queue' : m.task # "collect" => m \in DOMAIN queue
  PROVE  Moves
<1>1. slot'[s] = w /\ \A x \in Slots : x # s => slot'[x] = slot[x]
  BY OneSlot
<1> SUFFICES ASSUME NEW r \in Requests, NEW t \in HeaderTask
             PROVE  \A x \in Places(r, t)' : x \in Places(r, t) \/ x = Place("none", 0)
  <2>1. ASSUME NEW r \in Requests, NEW t \in HeaderTask
        PROVE  Place("none", 0) \notin Places(r, t)'
    BY PlacesRule, PlaceKind DEF PlaceRule
  <2> QED
    BY <2>1 DEF Moves
<1>2. t # "collect"
  BY DEF HeaderTask, AgentName
<1>3. \A x \in Slots : (Working(x) /\ Req(x) = r /\ Msg(x).task = t)'
        => Working(x) /\ Req(x) = r /\ Msg(x).task = t
  BY <1>1 DEF Working, Req, Msg
<1>4. \A x \in Slots : (At(x, "publish") /\ Req(x) = r /\ t \in slot[x].todo)'
        => At(x, "publish") /\ Req(x) = r /\ t \in slot[x].todo
  BY <1>1 DEF At, Req, Msg
<1> QED
  BY <1>2, <1>3, <1>4, PlacesAfter

LEMMA DeliverMoves ==
  ASSUME TypeInv, Unique, NEW s \in Slots, Deliver(s)
  PROVE  Moves /\ OneMessage'
<1>1. PICK m \in DOMAIN queue :
        /\ queue' = BagRemove(queue, m)
        /\ slot' = [slot EXCEPT ![s] = [Idle EXCEPT !.step = "run", !.msg = m]]
  BY DEF Deliver, BagToSet
<1> DEFINE w == [Idle EXCEPT !.step = "run", !.msg = m]
<1>2. w.step = "run" /\ w.msg = m
  BY DEF Idle
<1> HIDE DEF w
<1>3. slot'[s] = w /\ \A x \in Slots : x # s => slot'[x] = slot[x]
  BY <1>1, OneSlot DEF w
<1>4. /\ OneMessage'
      /\ DOMAIN queue' \subseteq DOMAIN queue
      /\ m.task # "collect" => m \notin DOMAIN queue'
  BY <1>1, TakeOne, UniqueParts
<1>5. ASSUME NEW r \in Requests, NEW t \in HeaderTask
      PROVE  /\ \A x \in Places(r, t)' : x \in Places(r, t) \/ x = Place("slot", s)
             /\ Place("slot", s) \in Places(r, t)' =>
                  Place("queue", m) \in Places(r, t) /\ Place("queue", m) \notin Places(r, t)'
  <2>1. \A x \in Slots : (Working(x) /\ Req(x) = r /\ Msg(x).task = t)'
          => (Working(x) /\ Req(x) = r /\ Msg(x).task = t) \/ Place("slot", x) = Place("slot", s)
    BY <1>3 DEF Working, Req, Msg
  <2>2. \A x \in Slots : (At(x, "publish") /\ Req(x) = r /\ t \in slot[x].todo)'
          => At(x, "publish") /\ Req(x) = r /\ t \in slot[x].todo
    BY <1>2, <1>3 DEF At, Req, Msg
  <2>3. \A x \in Places(r, t)' : x \in Places(r, t) \/ x = Place("slot", s)
    BY <1>4, <2>1, <2>2, PlacesAfter DEF Deliver
  <2>4. ASSUME Place("slot", s) \in Places(r, t)'
        PROVE  m.req = r /\ m.task = t
    <3>1. PICK x \in Slots : (Working(x) /\ Req(x) = r /\ Msg(x).task = t)'
                             /\ Place("slot", s) = Place("slot", x)
      BY <2>4, PlacesRule, PlaceKind DEF PlaceRule
    <3> QED
      BY <1>2, <1>3, <3>1, PlaceKind DEF Req, Msg
  <2>5. ASSUME m.req = r, m.task = t
        PROVE  Place("queue", m) \in Places(r, t) /\ Place("queue", m) \notin Places(r, t)'
    <3>1. PlaceRule(r, t, Place("queue", m)) /\ PlaceRule(r, t, Place("queue", m))'
      BY PlacesRule
    <3>2. m \notin DOMAIN queue'
      BY <1>4, <2>5 DEF HeaderTask, AgentName
    <3> QED
      BY <2>5, <3>1, <3>2, PlaceKind DEF PlaceRule
  <2> QED
    BY <2>3, <2>4, <2>5
<1> QED
  BY <1>4, <1>5 DEF Moves

LEMMA RetryMoves ==
  ASSUME TypeInv, Unique, NEW s \in Slots, Retry(s)
  PROVE  Moves /\ OneMessage'
<1> DEFINE m == [Msg(s) EXCEPT !.retries = @ + 1]
           w == [slot[s] EXCEPT !.step = "ack"]
<1>1. /\ Msg(s) \in Message /\ Req(s) \in Requests /\ slot[s] \in Slot /\ Msg(s).task \in Task
  BY BusyType DEF Retry, At, Message
<1>2. m.req = Req(s) /\ m.task = Msg(s).task /\ w.step = "ack"
  BY <1>1 DEF Message, Req, Slot
<1>3. queue' = BagAdd(queue, m) /\ unsent' = unsent /\ parts' = parts /\ slot' = [slot EXCEPT ![s] = w]
  BY DEF Retry, TypeInv, TypeOK
<1> HIDE DEF m, w
<1>4. slot'[s] = w /\ \A x \in Slots : x # s => slot'[x] = slot[x]
  BY <1>3, OneSlot
<1>5. Place("slot", s) \in Places(Req(s), Msg(s).task)
  BY PlacesRule DEF PlaceRule, Retry, Working, At
<1>6. ASSUME NEW r \in Requests, NEW t \in HeaderTask
      PROVE  /\ \A x \in Places(r, t)' : x \in Places(r, t) \/ x = Place("queue", m)
             /\ Place("queue", m) \in Places(r, t)' =>
                  Place("slot", s) \in Places(r, t) /\ Place("slot", s) \notin Places(r, t)'
  <2>1. \A x \in Slots : (Working(x) /\ Req(x) = r /\ Msg(x).task = t)'
          => Working(x) /\ Req(x) = r /\ Msg(x).task = t
    BY <1>2, <1>4 DEF Working, Req, Msg
  <2>2. \A x \in Slots : (At(x, "publish") /\ Req(x) = r /\ t \in slot[x].todo)'
          => At(x, "publish") /\ Req(x) = r /\ t \in slot[x].todo
    BY <1>2, <1>4 DEF At, Req, Msg
  <2>3. DOMAIN queue' = DOMAIN queue \cup {m}
    BY <1>3, BagAddType DEF TypeInv, TypeOK
  <2>4. \A x \in Places(r, t)' : x \in Places(r, t) \/ x = Place("queue", m)
    BY <1>3, <2>1, <2>2, <2>3, PlacesAfter
  <2>5. ASSUME Place("queue", m) \in Places(r, t)' PROVE r = Req(s) /\ t = Msg(s).task
    BY <1>2, <2>5, PlacesRule, PlaceKind DEF PlaceRule
  <2>6. Place("slot", s) \notin Places(r, t)'
    <3>1. PlaceRule(r, t, Place("slot", s))'
      BY PlacesRule
    <3> QED
      BY <1>2, <1>4, <3>1, PlaceKind DEF PlaceRule, Working
  <2> QED
    BY <1>5, <2>4, <2>5, <2>6
<1>7. Moves
  BY <1>6 DEF Moves
<1>8. Place("slot", s).kind # "queue"
  BY DEF Place
<1>9. m.task = "collect" \/ m \notin DOMAIN queue
  BY <1>1, <1>2, <1>5, <1>8, NotQueued
<1> QED
  BY <1>3, <1>7, <1>9, AddOne, UniqueParts

LEMMA PublishNextMoves ==
  ASSUME TypeInv, Unique, NEW s \in Slots, PublishNext(s)
  PROVE  Moves /\ OneMessage'
<1>1. PICK t \in slot[s].todo :
        /\ queue' = BagAdd(queue,
             IF t = "collect"
             THEN CollectMessage(Req(s), {[agent |-> AgentOf(Msg(s).task), text |-> slot[s].text]})
             ELSE TaskMessage(Req(s), t, slot[s].text))
        /\ slot' = [slot EXCEPT ![s].todo = @ \ {t},
                                ![s].step = IF slot[s].todo = {t} THEN "ack" ELSE @]
  BY DEF PublishNext
<1> DEFINE m == IF t = "collect"
                THEN CollectMessage(Req(s), {[agent |-> AgentOf(Msg(s).task), text |-> slot[s].text]})
                ELSE TaskMessage(Req(s), t, slot[s].text)
           w == [slot[s] EXCEPT !.todo = @ \ {t},
                                !.step = IF slot[s].todo = {t} THEN "ack" ELSE @]
<1>2. Msg(s) \in Message /\ Req(s) \in Requests /\ slot[s] \in Slot /\ t \in Task /\ At(s, "publish")
  BY BusyType DEF PublishNext, At, Slot
<1>3. m.req = Req(s) /\ m.task = t
  BY DEF CollectMessage, TaskMessage
<1>4. w.msg = slot[s].msg /\ w.todo = slot[s].todo \ {t} /\ w.step \in {"publish", "ack"}
  BY <1>2 DEF Slot, At
<1>5. queue' = BagAdd(queue, m) /\ unsent' = unsent /\ parts' = parts /\ slot' = [slot EXCEPT ![s] = w]
  BY <1>1 DEF PublishNext, TypeInv, TypeOK
<1> HIDE DEF m, w
<1>6. slot'[s] = w /\ \A x \in Slots : x # s => slot'[x] = slot[x]
  BY <1>5, OneSlot
<1>7. Place("todo", s) \in Places(Req(s), t)
  BY <1>2, PlacesRule DEF PlaceRule
<1>8. ASSUME NEW r \in Requests, NEW k \in HeaderTask
      PROVE  /\ \A x \in Places(r, k)' : x \in Places(r, k) \/ x = Place("queue", m)
             /\ Place("queue", m) \in Places(r, k)' =>
                  Place("todo", s) \in Places(r, k) /\ Place("todo", s) \notin Places(r, k)'
  <2>1. \A x \in Slots : (Working(x) /\ Req(x) = r /\ Msg(x).task = k)'
          => Working(x) /\ Req(x) = r /\ Msg(x).task = k
    BY <1>2, <1>4, <1>6 DEF Working, Req, Msg, At
  <2>2. \A x \in Slots : (At(x, "publish") /\ Req(x) = r /\ k \in slot[x].todo)'
          => At(x, "publish") /\ Req(x) = r /\ k \in slot[x].todo
    BY <1>2, <1>4, <1>6 DEF At, Req, Msg
  <2>3. DOMAIN queue' = DOMAIN queue \cup {m}
    BY <1>5, BagAddType DEF TypeInv, TypeOK
  <2>4. \A x \in Places(r, k)' : x \in Places(r, k) \/ x = Place("queue", m)
    BY <1>5, <2>1, <2>2, <2>3, PlacesAfter
  <2>5. ASSUME Place("queue", m) \in Places(r, k)' PROVE r = Req(s) /\ k = t
    BY <1>3, <2>5, PlacesRule, PlaceKind DEF PlaceRule
  <2>6. Place("todo", s) \notin Places(r, t)'
    <3>1. PlaceRule(r, t, Place("todo", s))'
      BY PlacesRule
    <3> QED
      BY <1>4, <1>6, <3>1, PlaceKind DEF PlaceRule
  <2> QED
    BY <1>7, <2>4, <2>5, <2>6
<1>9. Moves
  BY <1>8 DEF Moves
<1>10. Place("todo", s).kind # "queue"
  BY DEF Place
<1>11. m.task = "collect" \/ m \notin DOMAIN queue
  BY <1>2, <1>3, <1>7, <1>10, NotQueued
<1> QED
  BY <1>5, <1>9, <1>11, AddOne, UniqueParts

LEMMA AddPartMoves ==
  ASSUME TypeInv, Unique, NEW s \in Slots, AddPart(s)
  PROVE  Moves /\ OneMessage'
<1> DEFINE p == [task |-> Msg(s).task, ok |-> slot[s].ok, text |-> slot[s].text]
<1>1. PICK step \in {"fire", "ack"} : slot' = [slot EXCEPT ![s].step = step]
  BY DEF AddPart
<1> DEFINE w == [slot[s] EXCEPT !.step = step]
<1>2. Req(s) \in Requests /\ slot[s] \in Slot
  BY BusyType DEF AddPart, At
<1>3. w.step = step /\ p.task = Msg(s).task
  BY <1>2 DEF Slot
<1>4. /\ parts' = [parts EXCEPT ![Req(s)] = @ \cup {p}]
      /\ slot' = [slot EXCEPT ![s] = w]
      /\ queue' = queue /\ unsent' = unsent
  BY <1>1 DEF AddPart, TypeInv, TypeOK
<1> HIDE DEF p, w
<1>5. slot'[s] = w /\ \A x \in Slots : x # s => slot'[x] = slot[x]
  BY <1>4, OneSlot
<1>6. ASSUME NEW r \in Requests, NEW t \in HeaderTask
      PROVE  /\ \A x \in Places(r, t)' : x \in Places(r, t) \/ x = Place("part", p)
             /\ Place("part", p) \in Places(r, t)' /\ Place("part", p) \notin Places(r, t) =>
                  Place("slot", s) \in Places(r, t) /\ Place("slot", s) \notin Places(r, t)'
  <2>1. \A x \in Slots : (Working(x) /\ Req(x) = r /\ Msg(x).task = t)'
          => Working(x) /\ Req(x) = r /\ Msg(x).task = t
    BY <1>3, <1>5 DEF Working, Req, Msg
  <2>2. \A x \in Slots : (At(x, "publish") /\ Req(x) = r /\ t \in slot[x].todo)'
          => At(x, "publish") /\ Req(x) = r /\ t \in slot[x].todo
    BY <1>3, <1>5 DEF At, Req, Msg
  <2>3. \A q \in parts'[r] : q \in parts[r] \/ (q = p /\ r = Req(s))
    BY <1>4 DEF TypeInv, TypeOK
  <2>4. \A x \in Places(r, t)' : x \in Places(r, t) \/ x = Place("part", p)
    BY <1>4, <2>1, <2>2, <2>3, PlacesAfter
  <2>5. ASSUME Place("part", p) \in Places(r, t)', Place("part", p) \notin Places(r, t)
        PROVE  r = Req(s) /\ t = Msg(s).task
    <3>1. p.task = t /\ p \in parts'[r]
      BY <2>5, PlacesRule, PlaceKind DEF PlaceRule
    <3>2. p \notin parts[r]
      BY <2>5, <3>1, PlacesRule DEF PlaceRule
    <3> QED
      BY <1>3, <2>3, <3>1, <3>2
  <2>6. ASSUME r = Req(s), t = Msg(s).task PROVE Place("slot", s) \in Places(r, t)
    BY <2>6, PlacesRule DEF PlaceRule, AddPart, Working, At
  <2>7. Place("slot", s) \notin Places(r, t)'
    <3>1. PlaceRule(r, t, Place("slot", s))'
      BY PlacesRule
    <3> QED
      BY <1>3, <1>5, <3>1, PlaceKind DEF PlaceRule, Working
  <2> QED
    BY <2>4, <2>5, <2>6, <2>7
<1>7. Moves
  BY <1>6 DEF Moves
<1> QED
  BY <1>4, <1>7, UniqueParts DEF OneMessage

\* The steps of a worker that neither publish a task nor count its result.
LEMMA OtherMoves ==
  ASSUME TypeInv, Unique, NEW s \in Slots,
         Fail(s) \/ StoreFailure(s) \/ Collect(s) \/ FireBody(s) \/ ClearChord(s) \/ Ack(s)
  PROVE  Moves /\ OneMessage'
<1>1. PICK w : /\ slot' = [slot EXCEPT ![s] = w]
               /\ w.step \in {"run", "publish", "store"} => Working(s) /\ w.msg = Msg(s)
               /\ w.step # "publish"
  <2>1. ASSUME NEW step \in {"ack", "clear"}, ~At(s, "idle"), slot' = [slot EXCEPT ![s].step = step]
        PROVE  \E w : /\ slot' = [slot EXCEPT ![s] = w]
                      /\ w.step \in {"run", "publish", "store"} => Working(s) /\ w.msg = Msg(s)
                      /\ w.step # "publish"
    <3> DEFINE w == [slot[s] EXCEPT !.step = step]
    <3>1. slot' = [slot EXCEPT ![s] = w] /\ w.step = step
      BY <2>1, BusyType DEF TypeInv, TypeOK, Slot
    <3> QED
      BY <3>1
  <2>2. ASSUME Fail(s)
        PROVE  \E w : /\ slot' = [slot EXCEPT ![s] = w]
                      /\ w.step \in {"run", "publish", "store"} => Working(s) /\ w.msg = Msg(s)
                      /\ w.step # "publish"
    <3> DEFINE w == [slot[s] EXCEPT !.step = "store", !.ok = FALSE]
    <3>1. slot[s] \in Slot /\ Working(s)
      BY <2>2, BusyType DEF Fail, At, Working
    <3>2. slot' = [slot EXCEPT ![s] = w] /\ w.step = "store" /\ w.msg = Msg(s)
      BY <2>2, <3>1 DEF Fail, TypeInv, TypeOK, Slot, Msg
    <3> QED
      BY <3>1, <3>2
  <2>3. ASSUME Ack(s)
        PROVE  \E w : /\ slot' = [slot EXCEPT ![s] = w]
                      /\ w.step \in {"run", "publish", "store"} => Working(s) /\ w.msg = Msg(s)
                      /\ w.step # "publish"
    BY <2>3, IdleType DEF Ack
  <2>4. CASE StoreFailure(s) \/ Collect(s)
    BY <2>1, <2>4 DEF StoreFailure, Collect, At
  <2>5. CASE FireBody(s) \/ ClearChord(s)
    BY <2>1, <2>5 DEF FireBody, ClearChord, At
  <2> QED
    BY <2>2, <2>3, <2>4, <2>5
<1>2. \A r \in Requests : unsent'[r] \subseteq unsent[r] /\ parts'[r] \subseteq parts[r]
  <2>1. CASE ClearChord(s)
    BY <2>1, BusyType DEF ClearChord, TypeInv, TypeOK, At
  <2> QED
    BY <2>1 DEF Fail, StoreFailure, Collect, FireBody, Ack
<1>3. /\ \A m \in DOMAIN queue' : m.task # "collect" => m \in DOMAIN queue
      /\ OneMessage'
  <2>1. CASE queue' = queue
    BY <2>1, UniqueParts DEF OneMessage
  <2>2. CASE \E items : queue' = BagAdd(queue, CollectMessage(Req(s), items))
    <3>1. PICK m : queue' = BagAdd(queue, m) /\ m.task = "collect"
      BY <2>2 DEF CollectMessage
    <3>2. DOMAIN queue' = DOMAIN queue \cup {m}
      BY <3>1, BagAddType DEF TypeInv, TypeOK
    <3> QED
      BY <3>1, <3>2, AddOne, UniqueParts
  <2> QED
    BY <2>1, <2>2 DEF Fail, StoreFailure, Collect, FireBody, ClearChord, Ack
<1> QED
  BY <1>1, <1>2, <1>3, WorkerMoves

-----------------------------------------------------------------------------
(* The head's return makes its header's tasks appear, where none was.      *)

LEMMA SucceedPlaces ==
  ASSUME TypeInv, Unique, HeadFirst, NEW s \in Slots, Succeed(s),
         NEW r \in Requests, NEW t \in HeaderTask
  PROVE  \/ Places(r, t)' \subseteq Places(r, t)
         \/ /\ Places(r, t) = {} /\ Places(r, t)' \subseteq {Place("todo", s)}
            /\ r = Req(s) /\ IsHead(Query(s), Msg(s).task) /\ t \in Header(Query(s))
            /\ At(s, "publish")'
<1> DEFINE next == IF IsHead(Query(s), Msg(s).task) THEN Header(Query(s))
                   ELSE IF IsLink(Query(s), Msg(s).task) THEN {"collect"} ELSE {}
<1>1. PICK v : slot' = [slot EXCEPT ![s].step = IF next = {} THEN "store" ELSE "publish",
                                    ![s].todo = next, ![s].text = v]
  BY DEF Succeed
<1> DEFINE w == [slot[s] EXCEPT !.step = IF next = {} THEN "store" ELSE "publish",
                                !.todo = next, !.text = v]
<1>2. slot[s] \in Slot /\ Req(s) \in Requests /\ At(s, "run") /\ Working(s)
  BY BusyType DEF Succeed, At, Working
<1>3. /\ w.msg = Msg(s) /\ w.todo = next
      /\ w.step = IF next = {} THEN "store" ELSE "publish"
  BY <1>2 DEF Slot, Msg
<1>4. slot' = [slot EXCEPT ![s] = w] /\ queue' = queue /\ unsent' = unsent /\ parts' = parts
  BY <1>1 DEF Succeed, TypeInv, TypeOK
<1>n. next = IF IsHead(Query(s), Msg(s).task) THEN Header(Query(s))
             ELSE IF IsLink(Query(s), Msg(s).task) THEN {"collect"} ELSE {}
  OBVIOUS
<1> HIDE DEF next, w
<1>5. slot'[s] = w /\ \A x \in Slots : x # s => slot'[x] = slot[x]
  BY <1>4, OneSlot
<1>6. t # "collect"
  BY DEF HeaderTask, AgentName
<1>7. \A x \in Slots : (Working(x) /\ Req(x) = r /\ Msg(x).task = t)'
        => Working(x) /\ Req(x) = r /\ Msg(x).task = t
  BY <1>2, <1>3, <1>5 DEF Working, Req, Msg
<1>8. \A x \in Slots : (At(x, "publish") /\ Req(x) = r /\ t \in slot[x].todo)'
        => \/ At(x, "publish") /\ Req(x) = r /\ t \in slot[x].todo
           \/ x = s /\ r = Req(s) /\ t \in next /\ At(s, "publish")'
  BY <1>3, <1>5 DEF At, Req, Msg
<1>9. CASE r = Req(s) /\ t \in next
  <2>1. IsHead(Query(s), Msg(s).task) /\ t \in Header(Query(s)) /\ Msg(s).task = "ocr"
    BY <1>6, <1>9, <1>n DEF IsHead
  <2>2. Place("slot", s) \in Places(r, "ocr")
    BY <1>2, <1>9, <2>1, PlacesRule DEF PlaceRule
  <2>3. Places(r, t) = {}
    <3>1. Place("slot", s).kind = "slot" /\ Place("slot", s).at = s
      BY DEF Place
    <3> QED
      BY <1>2, <1>9, <2>1, <2>2, <3>1 DEF HeadFirst, IsHead, Query, At
  <2>4. \A x \in Places(r, t)' : x \in Places(r, t) \/ x = Place("todo", s)
    <3>1. \A x \in Slots : (At(x, "publish") /\ Req(x) = r /\ t \in slot[x].todo)'
            => (At(x, "publish") /\ Req(x) = r /\ t \in slot[x].todo)
               \/ Place("todo", x) = Place("todo", s)
      BY <1>8
    <3> QED
      BY <1>4, <1>7, <3>1, PlacesAfter
  <2>5. At(s, "publish")'
    BY <1>3, <1>5, <1>9 DEF At
  <2> QED
    BY <1>9, <2>1, <2>3, <2>4, <2>5
<1>10. CASE ~(r = Req(s) /\ t \in next)
  <2>1. \A x \in Places(r, t)' : x \in Places(r, t) \/ x = Place("none", 0)
    BY <1>4, <1>7, <1>8, <1>10, PlacesAfter
  <2>2. Place("none", 0) \notin Places(r, t)'
    BY PlacesRule, PlaceKind DEF PlaceRule
  <2> QED
    BY <2>1, <2>2
<1> QED
  BY <1>9, <1>10

-----------------------------------------------------------------------------
(* The steps without a crash, and Unique.                                  *)

\* What an action does without a crash, but for the head's return.
LEMMA StepMoves ==
  ASSUME TypeInv, Unique, [Next]_vars, MaxCrashes = 0
  PROVE  \/ Moves /\ OneMessage'
         \/ \E s \in Slots : Succeed(s)
<1>1. ASSUME NEW r \in Requests, NEW t \in Task, Publish(r, t) PROVE Moves /\ OneMessage'
  BY <1>1, PublishMoves
<1>2. ASSUME UNCHANGED <<unsent, queue, slot, parts>> PROVE Moves /\ OneMessage'
  <2>1. ASSUME NEW r \in Requests, NEW t \in HeaderTask PROVE Places(r, t)' = Places(r, t)
    BY <1>2 DEF Places, UnsentPlaces, QueuePlaces, SlotPlaces, TodoPlaces, PartPlaces,
       Working, At, Req, Msg
  <2> QED
    BY <1>2, <2>1, UniqueParts DEF Moves, OneMessage
<1>3. ASSUME NEW r \in Requests, Accept(r) \/ BrokerDown(r)
      PROVE  UNCHANGED <<unsent, queue, slot, parts>>
  BY <1>3 DEF Accept, BrokerDown
<1>4. UNCHANGED vars => UNCHANGED <<unsent, queue, slot, parts>>
  BY DEF vars
<1>5. \A s \in Slots : ~Crash(s)
  BY BoundsAssumption DEF Crash, TypeInv, TypeOK
<1> QED
  BY <1>1, <1>2, <1>3, <1>4, <1>5, DeliverMoves, RetryMoves, PublishNextMoves, AddPartMoves,
     OtherMoves DEF Next, Submit, Work, Finish

LEMMA UniqueStep ==
  ASSUME TypeInv, Unique, HeadFirst, [Next]_vars, MaxCrashes = 0
  PROVE  Unique'
<1>1. CASE Moves /\ OneMessage'
  <2>1. OnePlace'
    BY <1>1, MovesOnePlace, UniqueParts
  <2> QED
    BY <1>1, <2>1 DEF Unique, OnePlace, OneMessage
<1>2. ASSUME NEW s \in Slots, Succeed(s) PROVE Unique'
  <2>1. OnePlace'
    BY <1>2, SucceedPlaces DEF OnePlace, Unique
  <2>2. OneMessage'
    BY <1>2, UniqueParts DEF Succeed, OneMessage
  <2> QED
    BY <2>1, <2>2 DEF Unique, OnePlace, OneMessage
<1> QED
  BY <1>1, <1>2, StepMoves

-----------------------------------------------------------------------------
(* The step and HeadFirst.                                                 *)

\* A worker that publishes is moved on by nothing but its own publishing.
LEMMA PublisherStays ==
  ASSUME TypeInv, [Next]_vars, MaxCrashes = 0, NEW z \in Slots, At(z, "publish")
  PROVE  slot'[z] = slot[z] \/ PublishNext(z)
<1>1. ASSUME NEW s \in Slots, Deliver(s) \/ Finish(s) \/ StoreFailure(s) \/ AddPart(s)
                              \/ FireBody(s) \/ ClearChord(s) \/ Ack(s)
      PROVE  slot'[z] = slot[z]
  <2>1. s # z
    BY <1>1 DEF Deliver, Finish, Succeed, Fail, Retry, Collect, StoreFailure, AddPart, FireBody,
       ClearChord, Ack, At
  <2> QED
    BY <1>1, <2>1 DEF Deliver, Finish, Succeed, Fail, Retry, Collect, StoreFailure, AddPart,
       FireBody, ClearChord, Ack, TypeInv, TypeOK
<1>2. ASSUME NEW s \in Slots, s # z, PublishNext(s) PROVE slot'[z] = slot[z]
  BY <1>2 DEF PublishNext, TypeInv, TypeOK
<1>3. \A s \in Slots : ~Crash(s)
  BY BoundsAssumption DEF Crash, TypeInv, TypeOK
<1>4. ASSUME NEW r \in Requests, Submit(r) \/ BrokerDown(r) PROVE slot' = slot
  BY <1>4 DEF Submit, Publish, Accept, BrokerDown
<1> QED
  BY <1>1, <1>2, <1>3, <1>4 DEF Next, Work, vars

\* Publishing a header does not publish the head.
LEMMA PublishNextHead ==
  ASSUME TypeInv, NEW s \in Slots, PublishNext(s), NEW r \in Requests, HasHead(request[r])
  PROVE  Places(r, "ocr")' \subseteq Places(r, "ocr")
<1>0. PICK t \in slot[s].todo :
        /\ queue' = BagAdd(queue,
             IF t = "collect"
             THEN CollectMessage(Req(s), {[agent |-> AgentOf(Msg(s).task), text |-> slot[s].text]})
             ELSE TaskMessage(Req(s), t, slot[s].text))
        /\ slot' = [slot EXCEPT ![s].todo = @ \ {t},
                                ![s].step = IF slot[s].todo = {t} THEN "ack" ELSE @]
  BY DEF PublishNext
<1>1. PICK m : queue' = BagAdd(queue, m) /\ m.req = Req(s) /\ m.task = t
  BY <1>0 DEF CollectMessage, TaskMessage
<1> DEFINE w == [slot[s] EXCEPT !.todo = @ \ {t},
                                !.step = IF slot[s].todo = {t} THEN "ack" ELSE @]
<1>2. /\ Query(s) \in DocumentRequest /\ slot[s] \in Slot /\ Publishing(Query(s), slot[s])
      /\ At(s, "publish")
  BY BusyType DEF PublishNext, TypeInv, PublishInv, At
<1>3. w.msg = slot[s].msg /\ w.todo = slot[s].todo \ {t} /\ w.step \in {"publish", "ack"}
  BY <1>2 DEF Slot, At
<1>4. slot' = [slot EXCEPT ![s] = w] /\ unsent' = unsent /\ parts' = parts
  BY <1>0 DEF PublishNext, TypeInv, TypeOK
<1> HIDE DEF w
<1>5. slot'[s] = w /\ \A x \in Slots : x # s => slot'[x] = slot[x]
  BY <1>4, OneSlot
<1>6. ~(m.req = r /\ m.task = "ocr")
  <2>1. Req(s) = r => "ocr" \notin slot[s].todo
    BY <1>2, HeaderOnce DEF Publishing, Query
  <2> QED
    BY <1>0, <1>1, <2>1
<1>7. DOMAIN queue' = DOMAIN queue \cup {m}
  BY <1>1, BagAddType DEF TypeInv, TypeOK
<1>8. \A x \in Slots : (Working(x) /\ Req(x) = r /\ Msg(x).task = "ocr")'
        => Working(x) /\ Req(x) = r /\ Msg(x).task = "ocr"
  BY <1>2, <1>3, <1>5 DEF Working, Req, Msg, At
<1>9. \A x \in Slots : (At(x, "publish") /\ Req(x) = r /\ "ocr" \in slot[x].todo)'
        => At(x, "publish") /\ Req(x) = r /\ "ocr" \in slot[x].todo
  BY <1>2, <1>3, <1>5 DEF At, Req, Msg
<1>10. "ocr" \in unsent'[r] => "ocr" \in unsent[r]
  BY <1>4
<1>11. \A n \in DOMAIN queue' : n.req = r /\ n.task = "ocr" => n \in DOMAIN queue
  BY <1>6, <1>7
<1>12. \A p \in parts'[r] : p.task = "ocr" => p \in parts[r]
  BY <1>4
<1> SUFFICES ASSUME NEW x \in Places(r, "ocr")' PROVE x \in Places(r, "ocr")
  OBVIOUS
<1>13. PlaceRule(r, "ocr", x) /\ PlaceRule(r, "ocr", x)'
  BY PlacesRule
<1> QED
  BY <1>8, <1>9, <1>10, <1>11, <1>12, <1>13 DEF PlaceRule

LEMMA HeadFirstStep ==
  ASSUME TypeInv, Unique, HeadFirst, [Next]_vars, MaxCrashes = 0
  PROVE  HeadFirst'
<1>1. request' = request
  BY RequestFixed
<1> SUFFICES ASSUME NEW r \in Requests, HasHead(request[r]), NEW x \in Places(r, "ocr")'
             PROVE  \/ x.kind = "slot" /\ At(x.at, "publish")'
                    \/ \A t \in Header(request[r]) : Places(r, t)' = {}
  BY <1>1 DEF HeadFirst
<1>2. "ocr" \in HeaderTask /\ Header(request[r]) \subseteq HeaderTask /\ "ocr" \notin Header(request[r])
  BY HeaderOnce DEF TypeInv, TypeOK, HeaderTask, AgentName
<1>3. \A y \in Places(r, "ocr") : \A z \in Slots : y = Place("slot", z) /\ At(z, "publish") => Working(z)
  BY DEF Working, At
<1>4. ASSUME NEW y \in Places(r, "ocr"), y.kind = "slot"
      PROVE  y.at \in Slots /\ y = Place("slot", y.at) /\ Working(y.at) /\ Req(y.at) = r
             /\ Msg(y.at).task = "ocr"
  <2>1. PlaceRule(r, "ocr", y)
    BY PlacesRule
  <2> QED
    BY <1>4, <2>1 DEF PlaceRule, Place
<1>5. CASE Moves /\ OneMessage'
  <2>1. PICK y \in Places(r, "ocr") : TRUE
    BY <1>2, <1>5, MovesNothing
  <2>2. CASE \A t \in Header(request[r]) : Places(r, t) = {}
    BY <1>2, <1>5, <2>2, MovesNothing
  <2>3. CASE y.kind = "slot" /\ At(y.at, "publish")
    <3>1. /\ y.at \in Slots /\ y = Place("slot", y.at) /\ Req(y.at) = r
          /\ Msg(y.at).task = "ocr"
      BY <1>4, <2>3
    <3>2. CASE slot'[y.at] = slot[y.at]
      <4>1. y \in Places(r, "ocr")' /\ At(y.at, "publish")'
        BY <2>3, <3>1, <3>2, PlacesRule DEF PlaceRule, Working, At, Req, Msg
      <4>2. x = y
        BY <1>2, <4>1, UniqueStep DEF Unique
      <4> QED
        BY <2>3, <4>1, <4>2
    <3>3. CASE PublishNext(y.at)
      <4>1. x = y
        BY <1>2, <2>1, <3>1, <3>3, PublishNextHead DEF Unique
      <4>2. Working(y.at)'
        <5>1. PlaceRule(r, "ocr", x)'
          BY PlacesRule
        <5> QED
          BY <3>1, <4>1, <5>1, PlaceKind DEF PlaceRule
      <4>3. slot'[y.at].step \in {"publish", "ack"}
        BY <2>3, <3>1, <3>3, BusyType DEF PublishNext, TypeInv, TypeOK, Slot, At
      <4> QED
        BY <2>3, <4>1, <4>2, <4>3 DEF Working, At
    <3> QED
      BY <2>3, <3>1, <3>2, <3>3, PublisherStays
  <2> QED
    BY <2>1, <2>2, <2>3 DEF HeadFirst
<1>6. ASSUME NEW s \in Slots, Succeed(s)
      PROVE  \/ x.kind = "slot" /\ At(x.at, "publish")'
             \/ \A t \in Header(request[r]) : Places(r, t)' = {}
  <2>1. x \in Places(r, "ocr")
    BY <1>2, <1>6, SucceedPlaces DEF Query
  <2>2. CASE x.kind = "slot" /\ At(x.at, "publish")
    <3>1. x.at \in Slots /\ x.at # s
      BY <1>4, <1>6, <2>1, <2>2 DEF Succeed, At
    <3> QED
      BY <1>6, <2>2, <3>1 DEF Succeed, At, TypeInv, TypeOK
  <2>3. CASE \A t \in Header(request[r]) : Places(r, t) = {}
    <3>1. CASE \A t \in Header(request[r]) : Places(r, t)' = {}
      BY <3>1
    <3>2. ASSUME NEW t \in Header(request[r]), Places(r, t)' # {}
          PROVE  x.kind = "slot" /\ At(x.at, "publish")'
      <4>1. r = Req(s) /\ IsHead(Query(s), Msg(s).task) /\ At(s, "publish")'
        BY <1>2, <1>6, <2>3, <3>2, SucceedPlaces
      <4>2. Place("slot", s) \in Places(r, "ocr")
        BY <1>6, <4>1, PlacesRule DEF PlaceRule, IsHead, Succeed, Working, At
      <4>3. x = Place("slot", s)
        BY <1>2, <2>1, <4>2 DEF Unique
      <4> QED
        BY <4>1, <4>3 DEF Place
    <3> QED
      BY <3>1, <3>2
  <2> QED
    BY <2>1, <2>2, <2>3 DEF HeadFirst
<1> QED
  BY <1>5, <1>6, StepMoves

-----------------------------------------------------------------------------
(* The chord: its count is reached with a result of every header task.     *)

Fired(x) == At(x, "fire") \/ At(x, "clear")

LEMMA ChordFullKept ==
  ASSUME TypeInv, ChordFull, request' = request, parts' = parts,
         \A x \in Slots : Fired(x)' => Fired(x) /\ slot'[x].msg = slot[x].msg
  PROVE  ChordFull'
BY DEF ChordFull, Fired, At, Req, Msg, Query

LEMMA ClearChordFull ==
  ASSUME TypeInv, ChordFull, NEW s \in Slots, ClearChord(s)
  PROVE  ChordFull'
<1>1. /\ request' = request /\ At(s, "clear")
      /\ parts' = [parts EXCEPT ![Req(s)] = {}]
      /\ slot' = [slot EXCEPT ![s].step = "ack"]
  BY DEF ClearChord
<1>2. \A x \in Slots : Fired(x)' => x # s /\ Fired(x) /\ slot'[x] = slot[x]
  BY <1>1, BusyType DEF TypeInv, TypeOK, Fired, At, Slot
<1>3. \A x \in Slots : Fired(x)' => Req(x) # Req(s) /\ Req(x) \in Requests
  BY <1>1, <1>2, BusyType DEF ChordFull, Fired, At
<1>4. \A x \in Slots : Fired(x)' => parts'[Req(x)] = parts[Req(x)]
  BY <1>1, <1>3 DEF TypeInv, TypeOK
<1>5. \A x \in Slots : Fired(x)' => Req(x)' = Req(x) /\ Query(x)' = Query(x)
  BY <1>1, <1>2 DEF Req, Msg, Query
<1>6. \A x \in Slots : Fired(x)' => ({p.task : p \in parts[Req(x)]} = Header(Query(x)))'
  BY <1>2, <1>4, <1>5 DEF ChordFull, Fired
<1>7. \A x, y \in Slots : Fired(x)' /\ Fired(y)' /\ Req(y)' = Req(x)' => y = x
  BY <1>2, <1>5 DEF ChordFull, Fired
<1> QED
  BY <1>6, <1>7 DEF ChordFull, Fired

LEMMA AddPartFull ==
  ASSUME TypeInv, Sound, Unique, ChordFull, NEW s \in Slots, AddPart(s)
  PROVE  ChordFull'
<1> DEFINE r == Req(s)
           q == request[r]
           new == [task |-> Msg(s).task, ok |-> slot[s].ok, text |-> slot[s].text]
           ps == parts[r] \cup {new}
<1>1. PICK step \in {"fire", "ack"} :
        /\ slot' = [slot EXCEPT ![s].step = step]
        /\ step = "fire" => CountFull(q, ps)
  BY DEF AddPart
<1>2. /\ At(s, "store") /\ Msg(s).task \in Header(q) /\ request' = request
      /\ parts' = [parts EXCEPT ![r] = ps]
  BY DEF AddPart, IsMember, Query
<1>3. r \in Requests /\ q \in DocumentRequest /\ slot[s] \in Slot /\ Msg(s).task \in HeaderTask
  BY <1>2, BusyType, HeaderType DEF At, Query
<1>4. /\ slot'[s].msg = slot[s].msg /\ slot'[s].step = step
      /\ \A x \in Slots : x # s => slot'[x] = slot[x]
  BY <1>1, <1>3 DEF TypeInv, TypeOK, Slot
<1>5. parts'[r] = ps /\ \A u \in Requests : u # r => parts'[u] = parts[u]
  BY <1>2, <1>3 DEF TypeInv, TypeOK
<1>6. \A p \in parts[r] : p.task # Msg(s).task
  <2> SUFFICES ASSUME NEW p \in parts[r], p.task = Msg(s).task PROVE FALSE
    OBVIOUS
  <2>1. Place("part", p) \in Places(r, Msg(s).task)
    BY PlacesRule DEF PlaceRule
  <2>2. Place("slot", s) \in Places(r, Msg(s).task)
    BY <1>2, PlacesRule DEF PlaceRule, Working, At
  <2>3. Place("part", p) = Place("slot", s)
    BY <1>3, <2>1, <2>2 DEF Unique
  <2> QED
    BY <2>3, PlaceKind
<1>7. \A p, o \in parts[r] : p.task = o.task => p = o
  <2> SUFFICES ASSUME NEW p \in parts[r], NEW o \in parts[r], p.task = o.task PROVE p = o
    OBVIOUS
  <2>1. p.task \in HeaderTask
    BY <1>3 DEF TypeInv, TypeOK, Part
  <2>2. Place("part", p) \in Places(r, p.task) /\ Place("part", o) \in Places(r, p.task)
    BY PlacesRule DEF PlaceRule
  <2>3. Place("part", p) = Place("part", o)
    BY <1>3, <2>1, <2>2 DEF Unique
  <2> QED
    BY <2>3, PlaceKind
<1>8. \A p \in parts[r] : p.task \in Header(q)
  BY <1>3 DEF Sound, PartSound
<1>9. \A x \in Slots : Fired(x) /\ Req(x) = r => FALSE
  <2> SUFFICES ASSUME NEW x \in Slots, Fired(x), Req(x) = r PROVE FALSE
    OBVIOUS
  <2>1. {p.task : p \in parts[r]} = Header(q)
    BY DEF ChordFull, Fired, Query
  <2> QED
    BY <1>2, <1>6, <2>1
<1>10. step = "fire" => {p.task : p \in ps} = Header(q)
  <2>1. new.task = Msg(s).task
    OBVIOUS
  <2>2. \A p \in ps : p.task \in Header(q)
    BY <1>2, <1>8, <2>1
  <2>3. \A p, o \in ps : p.task = o.task => p = o
    BY <1>6, <1>7, <2>1
  <2> HIDE DEF ps, q
  <2> QED
    BY <1>1, <1>3, <2>2, <2>3, ChordCount
<1> HIDE DEF new, ps
<1>11. \A x \in Slots : Fired(x)' /\ x # s => Fired(x) /\ Req(x) # r /\ Req(x) \in Requests
                                               /\ slot'[x] = slot[x]
  BY <1>4, <1>9, BusyType DEF Fired, At
<1>12. ASSUME NEW x \in Slots, Fired(x)', x # s
       PROVE  /\ ({p.task : p \in parts[Req(x)]} = Header(Query(x)))'
              /\ \A y \in Slots : (Fired(y) /\ Req(y) = Req(x))' => y = x
  <2>1. Fired(x) /\ Req(x) # r /\ slot'[x] = slot[x] /\ parts'[Req(x)] = parts[Req(x)]
    BY <1>5, <1>11, <1>12
  <2>2. (Req(x) = Req(x))' /\ Req(x)' = Req(x) /\ Query(x)' = Query(x)
    BY <1>2, <2>1 DEF Req, Msg, Query
  <2>3. Req(s)' = r
    BY <1>4 DEF Req, Msg
  <2>4. ASSUME NEW y \in Slots, Fired(y)', Req(y)' = Req(x)' PROVE y = x
    <3>1. y # s
      BY <2>1, <2>2, <2>3, <2>4
    <3>2. Fired(y) /\ Req(y)' = Req(y)
      BY <1>11, <2>4, <3>1 DEF Req, Msg
    <3> QED
      BY <2>1, <2>2, <2>4, <3>2 DEF ChordFull, Fired
  <2>5. {p.task : p \in parts[Req(x)]} = Header(Query(x))
    BY <2>1 DEF ChordFull, Fired
  <2> QED
    BY <2>1, <2>2, <2>4, <2>5
<1>13. ASSUME Fired(s)'
       PROVE  /\ ({p.task : p \in parts[Req(s)]} = Header(Query(s)))'
              /\ \A y \in Slots : (Fired(y) /\ Req(y) = Req(s))' => y = s
  <2>1. step = "fire"
    BY <1>1, <1>4, <1>13 DEF Fired, At
  <2>2. Req(s)' = r /\ Query(s)' = q
    BY <1>2, <1>4 DEF Req, Msg, Query
  <2>3. ({p.task : p \in parts[Req(s)]} = Header(Query(s)))'
    BY <1>5, <1>10, <2>1, <2>2
  <2>4. ASSUME NEW y \in Slots, Fired(y)', Req(y)' = Req(s)', y # s PROVE FALSE
    <3>1. Req(y) # r /\ Req(y)' = Req(y)
      BY <1>11, <2>4 DEF Req, Msg
    <3> QED
      BY <2>2, <2>4, <3>1
  <2> QED
    BY <2>3, <2>4
<1> QED
  BY <1>12, <1>13 DEF ChordFull, Fired

\* Every step keeps the chord full in front of the task that saw it complete.
LEMMA ChordFullStep ==
  ASSUME TypeInv, Sound, Unique, ChordFull, [Next]_vars, MaxCrashes = 0
  PROVE  ChordFull'
<1>1. request' = request
  BY RequestFixed
<1>2. ASSUME NEW s \in Slots, NEW w, slot' = [slot EXCEPT ![s] = w], parts' = parts,
             w.step \in {"fire", "clear"} => Fired(s) /\ w.msg = slot[s].msg
      PROVE  ChordFull'
  <2>1. slot'[s] = w /\ \A x \in Slots : x # s => slot'[x] = slot[x]
    BY <1>2, OneSlot
  <2>2. \A x \in Slots : Fired(x)' => Fired(x) /\ slot'[x].msg = slot[x].msg
    BY <1>2, <2>1 DEF Fired, At
  <2> QED
    BY <1>1, <1>2, <2>2, ChordFullKept
<1>3. ASSUME NEW r \in Requests, Submit(r) \/ BrokerDown(r) PROVE ChordFull'
  <2>1. slot' = slot /\ parts' = parts
    BY <1>3 DEF Submit, Publish, Accept, BrokerDown
  <2> QED
    BY <1>1, <2>1, ChordFullKept DEF Fired, At
<1>4. ASSUME NEW s \in Slots, Deliver(s) PROVE ChordFull'
  <2>1. PICK m \in DOMAIN queue : slot' = [slot EXCEPT ![s] = [Idle EXCEPT !.step = "run", !.msg = m]]
    BY <1>4 DEF Deliver, BagToSet
  <2>2. [Idle EXCEPT !.step = "run", !.msg = m].step = "run" /\ parts' = parts
    BY <1>4 DEF Idle, Deliver
  <2> QED
    BY <1>2, <2>1, <2>2
<1>5. ASSUME NEW s \in Slots, Ack(s) PROVE ChordFull'
  BY <1>2, <1>5 DEF Ack, Idle
<1>6. ASSUME NEW s \in Slots, Finish(s) \/ PublishNext(s) \/ StoreFailure(s) \/ FireBody(s)
      PROVE  ChordFull'
  <2>1. slot[s] \in Slot /\ parts' = parts
    BY <1>6, BusyType DEF Finish, Succeed, Fail, Retry, Collect, PublishNext, StoreFailure,
       FireBody, At
  <2>2. PICK w : /\ slot' = [slot EXCEPT ![s] = w] /\ w.msg = slot[s].msg
                 /\ w.step \in {"fire", "clear"} => At(s, "fire")
    <3>1. CASE Succeed(s)
      <4> DEFINE todo == IF IsHead(Query(s), Msg(s).task) THEN Header(Query(s))
                         ELSE IF IsLink(Query(s), Msg(s).task) THEN {"collect"} ELSE {}
                 step == IF todo = {} THEN "store" ELSE "publish"
      <4>1. PICK v : slot' = [slot EXCEPT ![s].step = step, ![s].todo = todo, ![s].text = v]
        BY <3>1 DEF Succeed
      <4>2. step \in {"store", "publish"}
        OBVIOUS
      <4> HIDE DEF step, todo
      <4> WITNESS [slot[s] EXCEPT !.step = step, !.todo = todo, !.text = v]
      <4> QED
        BY <2>1, <4>1, <4>2 DEF Slot, TypeInv, TypeOK
    <3>2. CASE Fail(s)
      <4> WITNESS [slot[s] EXCEPT !.step = "store", !.ok = FALSE]
      <4> QED
        BY <2>1, <3>2 DEF Slot, TypeInv, TypeOK, Fail
    <3>3. CASE Retry(s) \/ Collect(s) \/ StoreFailure(s)
      <4> WITNESS [slot[s] EXCEPT !.step = "ack"]
      <4> QED
        BY <2>1, <3>3 DEF Slot, TypeInv, TypeOK, Retry, Collect, StoreFailure
    <3>4. CASE FireBody(s)
      <4>1. PICK step : slot' = [slot EXCEPT ![s].step = step]
        BY <3>4 DEF FireBody
      <4> WITNESS [slot[s] EXCEPT !.step = step]
      <4> QED
        BY <2>1, <3>4, <4>1 DEF Slot, TypeInv, TypeOK, FireBody
    <3>5. CASE PublishNext(s)
      <4>1. PICK t : slot' = [slot EXCEPT ![s].todo = @ \ {t},
                                          ![s].step = IF slot[s].todo = {t} THEN "ack" ELSE @]
        BY <3>5 DEF PublishNext
      <4> WITNESS [slot[s] EXCEPT !.todo = @ \ {t},
                                  !.step = IF slot[s].todo = {t} THEN "ack" ELSE @]
      <4> QED
        BY <2>1, <3>5, <4>1 DEF Slot, TypeInv, TypeOK, PublishNext, At
    <3> QED
      BY <1>6, <3>1, <3>2, <3>3, <3>4, <3>5 DEF Finish
  <2> QED
    BY <1>2, <2>1, <2>2 DEF Fired
<1>7. \A s \in Slots : ~Crash(s)
  BY BoundsAssumption DEF Crash, TypeInv, TypeOK
<1>8. CASE UNCHANGED vars
  BY <1>8, ChordFullKept DEF vars, Fired, At
<1> QED
  BY <1>3, <1>4, <1>5, <1>6, <1>7, <1>8, ClearChordFull, AddPartFull DEF Next, Work

-----------------------------------------------------------------------------
(* What collect is given, and what it stores.                              *)

LEMMA ItemAgents ==
  ASSUME NEW ps
  PROVE  Agents(ItemsOf(ps)) = {AgentOf(p.task) : p \in ps}
<1>1. ASSUME NEW p \in ps PROVE AgentOf(p.task) \in Agents(ItemsOf(ps))
  <2>1. [agent |-> AgentOf(p.task), text |-> p.text] \in ItemsOf(ps)
    BY DEF ItemsOf
  <2> QED
    BY <2>1 DEF Agents
<1>2. ASSUME NEW a \in Agents(ItemsOf(ps)) PROVE \E p \in ps : a = AgentOf(p.task)
  BY DEF Agents, ItemsOf
<1> QED
  BY <1>1, <1>2

\* The chord's body is given a result of every agent.
LEMMA FiredComplete ==
  ASSUME TypeInv, ChordFull, NEW s \in Slots, At(s, "fire")
  PROVE  Agents(ItemsOf(parts[Req(s)])) = request[Req(s)].agents
<1>1. {p.task : p \in parts[Req(s)]} = Header(Query(s))
  BY DEF ChordFull
<1>2. Query(s) \in DocumentRequest /\ Query(s) = request[Req(s)]
  BY BusyType DEF At, Query
<1>3. {AgentOf(p.task) : p \in parts[Req(s)]} = {AgentOf(t) : t \in Header(Query(s))}
  BY <1>1
<1> QED
  BY <1>2, <1>3, ItemAgents, HeaderAgents

\* And so is a collect that follows the only task of a header.
LEMMA LinkComplete ==
  ASSUME TypeInv, NEW s \in Slots, At(s, "publish"), "collect" \in slot[s].todo, NEW text
  PROVE  Agents({[agent |-> AgentOf(Msg(s).task), text |-> text]}) = request[Req(s)].agents
<1>1. Query(s) \in DocumentRequest /\ Query(s) = request[Req(s)]
  BY BusyType DEF At, Query
<1>2. Publishing(Query(s), slot[s])
  BY DEF TypeInv, PublishInv
<1>3. "collect" \notin Header(Query(s))
  BY <1>1, HeaderType DEF HeaderTask, AgentName
<1>4. IsLink(Query(s), Msg(s).task)
  BY <1>2, <1>3 DEF Publishing, Msg
<1>5. Header(Query(s)) = {Msg(s).task}
  BY <1>1, <1>4, LinkHeader
<1>6. {AgentOf(t) : t \in Header(Query(s))} = {AgentOf(Msg(s).task)}
  BY <1>5
<1> QED
  BY <1>1, <1>6, HeaderAgents DEF Agents

LEMMA CollectCompleteStep ==
  ASSUME TypeInv, Sound, ChordFull, CollectComplete, [Next]_vars, MaxCrashes = 0
  PROVE  CollectComplete'
<1>1. request' = request
  BY RequestFixed
<1>2. ASSUME NEW m, MessageComplete(m), queue' = BagAdd(queue, m)
      PROVE  \A n \in DOMAIN queue' : MessageComplete(n)
  <2>1. DOMAIN queue' = DOMAIN queue \cup {m}
    BY <1>2, BagAddType DEF TypeInv, TypeOK
  <2> QED
    BY <1>2, <2>1 DEF CollectComplete
<1>3. \A n \in DOMAIN queue' : MessageComplete(n)
  <2>1. ASSUME NEW r \in Requests, NEW t \in Task, Publish(r, t)
        PROVE  \A n \in DOMAIN queue' : MessageComplete(n)
    <3>1. t # "collect"
      BY <2>1, HeaderType DEF Publish, Sound, TypeInv, TypeOK, HeaderTask, AgentName
    <3>2. MessageComplete(TaskMessage(r, t, None))
      BY <3>1 DEF MessageComplete, TaskMessage
    <3> QED
      BY <1>2, <2>1, <3>2 DEF Publish
  <2>2. ASSUME NEW s \in Slots, Deliver(s)
        PROVE  \A n \in DOMAIN queue' : MessageComplete(n)
    BY <2>2, BagRemoveType DEF Deliver, CollectComplete, TypeInv, TypeOK
  <2>3. ASSUME NEW s \in Slots, Retry(s)
        PROVE  \A n \in DOMAIN queue' : MessageComplete(n)
    <3>1. [Msg(s) EXCEPT !.retries = @ + 1].task = "ocr"
      BY <2>3, BusyType DEF Retry, At, Message
    <3>2. MessageComplete([Msg(s) EXCEPT !.retries = @ + 1])
      BY <3>1 DEF MessageComplete
    <3> QED
      BY <1>2, <2>3, <3>2 DEF Retry
  <2>4. ASSUME NEW s \in Slots, PublishNext(s)
        PROVE  \A n \in DOMAIN queue' : MessageComplete(n)
    <3>1. PICK t \in slot[s].todo :
            queue' = BagAdd(queue,
              IF t = "collect"
              THEN CollectMessage(Req(s), {[agent |-> AgentOf(Msg(s).task), text |-> slot[s].text]})
              ELSE TaskMessage(Req(s), t, slot[s].text))
      BY <2>4 DEF PublishNext
    <3>2. CASE t = "collect"
      <4>1. MessageComplete(CollectMessage(Req(s),
              {[agent |-> AgentOf(Msg(s).task), text |-> slot[s].text]}))
        BY <2>4, <3>2, LinkComplete DEF PublishNext, MessageComplete, CollectMessage
      <4> QED
        BY <1>2, <3>1, <3>2, <4>1
    <3>3. CASE t # "collect"
      <4>1. MessageComplete(TaskMessage(Req(s), t, slot[s].text))
        BY <3>3 DEF MessageComplete, TaskMessage
      <4> QED
        BY <1>2, <3>1, <3>3, <4>1
    <3> QED
      BY <3>2, <3>3
  <2>5. ASSUME NEW s \in Slots, FireBody(s)
        PROVE  \A n \in DOMAIN queue' : MessageComplete(n)
    <3>1. MessageComplete(CollectMessage(Req(s), ItemsOf(parts[Req(s)])))
      BY <2>5, FiredComplete DEF FireBody, MessageComplete, CollectMessage
    <3>2. \/ queue' = BagAdd(queue, CollectMessage(Req(s), ItemsOf(parts[Req(s)])))
          \/ queue' = queue
      BY <2>5 DEF FireBody
    <3> QED
      BY <1>2, <3>1, <3>2 DEF CollectComplete
  <2>6. \A s \in Slots : ~Crash(s)
    BY BoundsAssumption DEF Crash, TypeInv, TypeOK
  <2>7. ASSUME queue' = queue PROVE \A n \in DOMAIN queue' : MessageComplete(n)
    BY <2>7 DEF CollectComplete
  <2>8. ASSUME NEW r \in Requests, Accept(r) \/ BrokerDown(r) PROVE queue' = queue
    BY <2>8 DEF Accept, BrokerDown
  <2>9. ASSUME NEW s \in Slots,
               Succeed(s) \/ Fail(s) \/ Collect(s) \/ StoreFailure(s) \/ AddPart(s)
                 \/ ClearChord(s) \/ Ack(s)
        PROVE  queue' = queue
    BY <2>9 DEF Succeed, Fail, Collect, StoreFailure, AddPart, ClearChord, Ack
  <2> QED
    BY <2>1, <2>2, <2>3, <2>4, <2>5, <2>6, <2>7, <2>8, <2>9 DEF Next, Submit, Work, Finish, vars
<1>4. ASSUME NEW s \in Slots, At(s, "run")' PROVE MessageComplete(Msg(s)')
  <2>1. CASE slot'[s] = slot[s]
    BY <1>4, <2>1 DEF CollectComplete, At, Msg
  <2>2. CASE Deliver(s)
    <3>1. PICK m \in DOMAIN queue : slot' = [slot EXCEPT ![s] = [Idle EXCEPT !.step = "run", !.msg = m]]
      BY <2>2 DEF Deliver, BagToSet
    <3>2. Msg(s)' = m
      BY <3>1 DEF Msg, Idle, TypeInv, TypeOK
    <3> QED
      BY <3>2 DEF CollectComplete
  <2>3. slot'[s] = slot[s] \/ Deliver(s)
    <3>1. ASSUME NEW z \in Slots, z # s, Work(z) PROVE slot'[s] = slot[s]
      BY <3>1 DEF Work, Finish, Deliver, Succeed, Fail, Retry, Collect, PublishNext, StoreFailure,
         AddPart, FireBody, ClearChord, Ack, TypeInv, TypeOK
    <3>2. ASSUME Work(s), ~Deliver(s) PROVE FALSE
      <4>1. slot[s] \in Slot
        BY DEF TypeInv, TypeOK
      <4>2. ASSUME Succeed(s) PROVE slot'[s].step # "run"
        <5> DEFINE todo == IF IsHead(Query(s), Msg(s).task) THEN Header(Query(s))
                           ELSE IF IsLink(Query(s), Msg(s).task) THEN {"collect"} ELSE {}
                   step == IF todo = {} THEN "store" ELSE "publish"
        <5>1. PICK v : slot' = [slot EXCEPT ![s].step = step, ![s].todo = todo, ![s].text = v]
          BY <4>2 DEF Succeed
        <5>2. step # "run"
          OBVIOUS
        <5> HIDE DEF step, todo
        <5> QED
          BY <4>1, <5>1, <5>2 DEF Slot, TypeInv, TypeOK
      <4>3. ASSUME Fail(s) \/ Retry(s) \/ Collect(s) \/ StoreFailure(s) PROVE slot'[s].step # "run"
        BY <4>1, <4>3 DEF Fail, Retry, Collect, StoreFailure, Slot, TypeInv, TypeOK
      <4>4. ASSUME AddPart(s) \/ FireBody(s) \/ ClearChord(s) PROVE slot'[s].step # "run"
        BY <4>1, <4>4 DEF AddPart, FireBody, ClearChord, Slot, TypeInv, TypeOK
      <4>5. ASSUME Ack(s) PROVE slot'[s].step # "run"
        BY <4>5 DEF Ack, Idle, TypeInv, TypeOK
      <4>6. ASSUME PublishNext(s) PROVE slot'[s].step # "run"
        <5>1. PICK t : slot' = [slot EXCEPT ![s].todo = @ \ {t},
                                            ![s].step = IF slot[s].todo = {t} THEN "ack" ELSE @]
          BY <4>6 DEF PublishNext
        <5>2. slot[s].step = "publish"
          BY <4>6 DEF PublishNext, At
        <5> QED
          BY <4>1, <5>1, <5>2 DEF Slot, TypeInv, TypeOK
      <4> QED
        BY <1>4, <3>2, <4>2, <4>3, <4>4, <4>5, <4>6 DEF Work, Finish, At
    <3>3. \A z \in Slots : ~Crash(z)
      BY BoundsAssumption DEF Crash, TypeInv, TypeOK
    <3>4. ASSUME NEW r \in Requests, Submit(r) \/ BrokerDown(r) PROVE slot' = slot
      BY <3>4 DEF Submit, Publish, Accept, BrokerDown
    <3> QED
      BY <3>1, <3>2, <3>3, <3>4 DEF Next, vars
  <2> QED
    BY <2>1, <2>2, <2>3
<1> QED
  BY <1>1, <1>3, <1>4 DEF CollectComplete, MessageComplete

\* The result is stored once, from what collect was given.
LEMMA PayloadCompleteStep ==
  ASSUME TypeInv, CollectComplete, PayloadComplete, [Next]_vars
  PROVE  PayloadComplete'
<1>1. request' = request
  BY RequestFixed
<1> SUFFICES ASSUME NEW r \in Requests, state'[r] = "SUCCESS"
             PROVE  Agents(payload'[r]) = request[r].agents
  BY <1>1 DEF PayloadComplete, Agents
<1>2. CASE state[r] = "SUCCESS"
  BY <1>2, SuccessStep DEF SuccessKept, PayloadComplete
<1>3. CASE state[r] # "SUCCESS"
  <2>1. ASSUME NEW s \in Slots, Collect(s) PROVE Agents(payload'[r]) = request[r].agents
    <3>1. Req(s) = r
      BY <1>3, <2>1, BusyType DEF Collect, Stored, At, TypeInv, TypeOK
    <3>2. PICK p \in Merges(Msg(s).items) : payload'[r] = p
      BY <1>3, <2>1, <3>1 DEF Collect, TypeInv, TypeOK
    <3>3. Agents(p) = Agents(Msg(s).items)
      BY <3>2 DEF Merges, Agents
    <3>4. Agents(Msg(s).items) = request[r].agents
      BY <2>1, <3>1 DEF Collect, CollectComplete, MessageComplete, Req
    <3> QED
      BY <3>2, <3>3, <3>4
  <2>2. ASSUME NEW s \in Slots, Work(s) \/ Crash(s), ~Collect(s) PROVE FALSE
    BY <1>3, <2>2, BusyType DEF Work, Finish, Deliver, Succeed, Fail, Retry, PublishNext,
       StoreFailure, AddPart, FireBody, ClearChord, Ack, Crash, Stored, TypeInv, TypeOK
  <2>3. ASSUME NEW u \in Requests, Submit(u) \/ BrokerDown(u) PROVE FALSE
    BY <1>3, <2>3 DEF Submit, Publish, Accept, BrokerDown
  <2> QED
    BY <1>3, <2>1, <2>2, <2>3 DEF Next, vars
<1> QED
  BY <1>2, <1>3

LEMMA OnceInit == Init => OnceInv
<1> SUFFICES ASSUME Init PROVE OnceInv
  OBVIOUS
<1>1. DOMAIN queue = {} /\ \A s \in Slots : slot[s] = Idle /\ Idle.step = "idle"
  BY EmptyBagType DEF Init, Idle
<1>2. ASSUME NEW r \in Requests, NEW t, NEW x \in Places(r, t)
      PROVE  x = Place("unsent", t) /\ t \in FirstTasks(request[r])
  <2>1. PlaceRule(r, t, x)
    BY PlacesRule
  <2> QED
    BY <1>1, <2>1 DEF PlaceRule, Init, Working, At
<1>3. Unique
  BY <1>1, <1>2 DEF Unique
<1>4. HeadFirst
  <2> SUFFICES ASSUME NEW r \in Requests, HasHead(request[r]), NEW t \in Header(request[r])
               PROVE  Places(r, t) = {}
    BY DEF HeadFirst
  <2>1. t # "ocr" /\ FirstTasks(request[r]) = {"ocr"}
    BY HeaderOnce DEF Init, FirstTasks
  <2> QED
    BY <1>2, <2>1
<1>5. ChordFull /\ CollectComplete /\ PayloadComplete
  BY <1>1 DEF ChordFull, CollectComplete, PayloadComplete, At, Init
<1> QED
  BY <1>3, <1>4, <1>5 DEF OnceInv

LEMMA OnceStep ==
  ASSUME MaxCrashes = 0
  PROVE  TypeInv /\ Sound /\ OnceInv /\ [Next]_vars => OnceInv'
BY UniqueStep, HeadFirstStep, ChordFullStep, CollectCompleteStep, PayloadCompleteStep DEF OnceInv

\* While no worker dies, a task of a document is in one place at a time, its
\* head goes first, and a full chord is read before it is deleted.
THEOREM OnceInvariant ==
  ASSUME MaxCrashes = 0
  PROVE  Spec => []OnceInv
BY OnceStep, OnceInit, TypeInvariant, SoundInvariant, PTL DEF Spec

\* While no worker dies, a document reported as finished carries a result of
\* every agent its caller asked for, and of no other, however often its tasks
\* are retried and in whichever order messages are taken and published.
THEOREM CompleteWithoutCrashes ==
  ASSUME MaxCrashes = 0
  PROVE  Spec => []PayloadComplete
<1>1. OnceInv => PayloadComplete
  BY DEF OnceInv
<1> QED
  BY <1>1, OnceInvariant, PTL

-----------------------------------------------------------------------------
(* Ends, one disjunct per kind, in this state and the next.                *)

EndRule(r, x) ==
  x \in Ends(r) <=>
    \/ \E m \in DOMAIN queue : m.req = r /\ m.task = "collect" /\ x = Place("queue", m)
    \/ \E s \in Slots : Ending(s) /\ Req(s) = r /\ x = Place("slot", s)
    \/ Ready(r) /\ x = Place("answer", r)

LEMMA EndsRule ==
  ASSUME NEW r, NEW x
  PROVE  EndRule(r, x) /\ EndRule(r, x)'
<1>1. EndRule(r, x)
  BY DEF EndRule, Ends
<1>2. EndRule(r, x)'
  BY DEF EndRule, Ends
<1> QED
  BY <1>1, <1>2

\* An end after a step was one before, or is the one new end.
LEMMA EndsAfter ==
  ASSUME NEW r, NEW new,
         \A m \in DOMAIN queue' : m.req = r /\ m.task = "collect"
           => m \in DOMAIN queue \/ Place("queue", m) = new,
         \A s \in Slots : (Ending(s) /\ Req(s) = r)'
           => (Ending(s) /\ Req(s) = r) \/ Place("slot", s) = new,
         Ready(r)' => Ready(r) \/ Place("answer", r) = new
  PROVE  \A x \in Ends(r)' : x \in Ends(r) \/ x = new
<1> SUFFICES ASSUME NEW x \in Ends(r)' PROVE x \in Ends(r) \/ x = new
  OBVIOUS
<1>1. EndRule(r, x) /\ EndRule(r, x)'
  BY EndsRule
<1> QED
  BY <1>1 DEF EndRule

LEMMA NoNewEnd ==
  ASSUME NEW r,
         \A m \in DOMAIN queue' : m.req = r /\ m.task = "collect" => m \in DOMAIN queue,
         \A s \in Slots : (Ending(s) /\ Req(s) = r)' => Ending(s) /\ Req(s) = r,
         Ready(r)' => Ready(r)
  PROVE  Ends(r)' \subseteq Ends(r)
<1> SUFFICES ASSUME NEW x \in Ends(r)' PROVE x \in Ends(r)
  OBVIOUS
<1>1. EndRule(r, x) /\ EndRule(r, x)'
  BY EndsRule
<1> QED
  BY <1>1 DEF EndRule

\* A step leaves a document's ends alone, moves one, or makes the first one
\* when nothing else of the document is on its way any more.
EndsKept(r)  == Ends(r)' \subseteq Ends(r) /\ (Counted(r) => Counted(r)')
EndMoved(r)  == /\ Counted(r)'
                /\ \E old \in Ends(r) : \E new : \A x \in Ends(r)' : (x \in Ends(r) /\ x # old) \/ x = new
EndMade(r)   == /\ Ends(r) = {} /\ Counted(r)'
                /\ \E new : \A x \in Ends(r)' : x = new

EndsMove == \A r \in Requests : EndsKept(r) \/ EndMoved(r) \/ EndMade(r)

LEMMA EndsMoveOne == OneEnd /\ EndsMove => OneEnd'
<1> SUFFICES ASSUME OneEnd, EndsMove, NEW r \in Requests
             PROVE  (Ends(r)' # {} => Counted(r)') /\ \A x, y \in Ends(r)' : x = y
  BY DEF OneEnd
<1>1. (Ends(r) # {} => Counted(r)) /\ \A x, y \in Ends(r) : x = y
  BY DEF OneEnd
<1> QED
  BY <1>1 DEF EndsMove, EndsKept, EndMoved, EndMade

LEMMA NotCounted ==
  ASSUME OneEnd, NEW r \in Requests, ~Counted(r)
  PROVE  Ends(r) = {}
BY DEF OneEnd

-----------------------------------------------------------------------------
(* What a worker does for one document leaves the others alone.            *)

LEMMA OthersKept ==
  ASSUME TypeInv, NEW s \in Slots, NEW w, slot' = [slot EXCEPT ![s] = w],
         w.msg = Msg(s), unsent' = unsent,
         \A m \in DOMAIN queue' : m \in DOMAIN queue \/ m.req = Req(s),
         \A u \in Requests : u # Req(s) => state'[u] = state[u],
         NEW r \in Requests, r # Req(s)
  PROVE  EndsKept(r)
<1>1. slot'[s] = w /\ \A x \in Slots : x # s => slot'[x] = slot[x]
  BY OneSlot
<1>2. \A x \in Slots : Req(x)' = r => x # s /\ Req(x) = r /\ slot'[x] = slot[x]
  BY <1>1 DEF Req, Msg
<1>3. \A x \in Slots : (Ending(x) /\ Req(x) = r)' => Ending(x) /\ Req(x) = r
  BY <1>2 DEF Ending, At, Msg
<1>4. Ends(r)' \subseteq Ends(r)
  BY <1>3, NoNewEnd DEF Ready
<1>5. Counted(r) => Counted(r)'
  BY <1>2 DEF Counted, Working, Msg
<1> QED
  BY <1>4, <1>5 DEF EndsKept

\* A task that is not collect, at work for a document.
LEMMA AtWork ==
  ASSUME TypeInv, OneEnd, NEW s \in Slots, Working(s), Msg(s).task # "collect"
  PROVE  Req(s) \in Requests /\ ~Counted(Req(s)) /\ Ends(Req(s)) = {}
<1>1. Req(s) \in Requests
  BY BusyType DEF Working, At
<1>2. ~Counted(Req(s))
  BY DEF Counted
<1> QED
  BY <1>1, <1>2, NotCounted

\* It goes on, without calling collect or storing a state.
LEMMA WorkKept ==
  ASSUME TypeInv, OneEnd, NEW s \in Slots, Working(s), Msg(s).task # "collect",
         NEW w, slot' = [slot EXCEPT ![s] = w], w.msg = Msg(s), w.step # "fire",
         unsent' = unsent, state' = state,
         \A m \in DOMAIN queue' : m \in DOMAIN queue \/ (m.req = Req(s) /\ m.task # "collect")
  PROVE  EndsMove
<1>1. Req(s) \in Requests /\ ~Counted(Req(s)) /\ Ends(Req(s)) = {}
  BY AtWork
<1>2. slot'[s] = w /\ \A x \in Slots : x # s => slot'[x] = slot[x]
  BY OneSlot
<1>3. \A x \in Slots : Ending(x)' /\ Req(x)' = Req(s) => Ending(x) /\ Req(x) = Req(s)
  BY <1>2 DEF Ending, At, Msg, Req
<1>4. ASSUME NEW r \in Requests, r = Req(s) PROVE EndsKept(r)
  <2>1. Ends(r)' \subseteq Ends(r)
    BY <1>3, <1>4, NoNewEnd DEF Ready
  <2> QED
    BY <1>1, <1>4, <2>1 DEF EndsKept
<1>5. ASSUME NEW r \in Requests, r # Req(s) PROVE EndsKept(r)
  BY <1>5, OthersKept
<1> QED
  BY <1>4, <1>5 DEF EndsMove

\* It goes no further, and collect is called, about to be, or never will be.
LEMMA WorkEnds ==
  ASSUME TypeInv, OneEnd, NEW s \in Slots, Working(s), Msg(s).task # "collect",
         NEW w, slot' = [slot EXCEPT ![s] = w], w.msg = Msg(s), unsent' = unsent,
         \A m \in DOMAIN queue' : m \in DOMAIN queue \/ m.req = Req(s),
         \A u \in Requests : u # Req(s) => state'[u] = state[u],
         NEW r, r = Req(s), Counted(r)',
         \E new : \A x \in Ends(r)' : x \in Ends(r) \/ x = new
  PROVE  EndsMove
<1>1. EndMade(r)
  BY AtWork DEF EndMade
<1>2. ASSUME NEW u \in Requests, u # r PROVE EndsKept(u)
  BY <1>2, OthersKept
<1> QED
  BY <1>1, <1>2 DEF EndsMove

-----------------------------------------------------------------------------
(* When nothing but counted results is left of a document.                 *)

LEMMA OnlyParts ==
  ASSUME TypeInv', Sound', NEW r \in Requests,
         \A t \in Header(request'[r]) \cup FirstTasks(request'[r]) :
           \A x \in Places(r, t)' : x.kind = "part"
  PROVE  Counted(r)'
<1>1. \A k, a : Place(k, a).kind = k
  BY DEF Place
<1>2. unsent'[r] = {}
  <2> SUFFICES ASSUME NEW t \in unsent'[r] PROVE FALSE
    OBVIOUS
  <2>1. Place("unsent", t) \in Places(r, t)'
    BY PlacesRule DEF PlaceRule
  <2> QED
    BY <1>1, <2>1 DEF Sound
<1>3. ASSUME NEW m \in DOMAIN queue', m.req = r, m.task # "collect" PROVE FALSE
  <2>1. Place("queue", m) \in Places(r, m.task)'
    BY <1>3, PlacesRule DEF PlaceRule
  <2>2. m.task \in Header(request'[r]) \cup FirstTasks(request'[r])
    BY <1>3 DEF Sound, MessageSound
  <2> QED
    BY <1>1, <2>1, <2>2
<1>4. ASSUME NEW s \in Slots, Working(s)', Req(s)' = r, NEW t, t = slot'[s].msg.task, t # "collect"
      PROVE  FALSE
  <2>1. Place("slot", s) \in Places(r, t)'
    BY <1>4, PlacesRule DEF PlaceRule, Msg
  <2>2. t \in Header(request'[r]) \cup FirstTasks(request'[r])
    BY <1>4 DEF Sound, WorkerSound, MessageSound, Working, At, Msg, Req
  <2> QED
    BY <1>1, <2>1, <2>2
<1> QED
  BY <1>2, <1>3, <1>4 DEF Counted, Msg

\* A chord whose set is full.
LEMMA FullCounted ==
  ASSUME TypeInv', Sound', Unique', HeadFirst', Continues', NEW r \in Requests,
         ({p.task : p \in parts[r]} = Header(request[r]))'
  PROVE  Counted(r)'
<1> DEFINE q == request'[r]
<1>1. q \in DocumentRequest /\ Header(q) \subseteq HeaderTask
  BY HeaderType DEF TypeInv, TypeOK
<1>2. \A k, a : Place(k, a).kind = k
  BY DEF Place
<1>3. ASSUME NEW t \in Header(q) PROVE Places(r, t)' # {} /\ \A x \in Places(r, t)' : x.kind = "part"
  <2>1. PICK p \in parts'[r] : p.task = t
    BY <1>3
  <2>2. Place("part", p) \in Places(r, t)'
    BY <2>1, PlacesRule DEF PlaceRule
  <2>3. \A x \in Places(r, t)' : x = Place("part", p)
    BY <1>1, <1>3, <2>2 DEF Unique
  <2> QED
    BY <1>2, <2>2, <2>3
<1>4. ASSUME HasHead(q), NEW x \in Places(r, "ocr")' PROVE FALSE
  <2>1. "passthrough" \in Header(q)
    BY <1>4 DEF Header
  <2>2. x.kind = "slot" /\ At(x.at, "publish")'
    BY <1>3, <1>4, <2>1 DEF HeadFirst
  <2>3. x.at \in Slots /\ Req(x.at)' = r /\ slot'[x.at].msg.task = "ocr"
    <3>1. PlaceRule(r, "ocr", x)'
      BY PlacesRule
    <3> QED
      BY <2>2, <3>1 DEF PlaceRule, Place, Msg
  <2>4. slot'[x.at].todo # {} /\ slot'[x.at].todo \subseteq Header(q)
    <3> DEFINE z == x.at
    <3>1. Publishing(Query(z), slot[z])'
      BY <2>2, <2>3 DEF TypeInv, PublishInv
    <3>2. Query(z)' = q /\ slot'[z].msg.task = "ocr"
      BY <2>3 DEF Query, Req, Msg
    <3>3. IsHead(q, "ocr")
      BY <1>4 DEF IsHead
    <3>4. slot'[z].todo \subseteq Header(q)
      BY <3>1, <3>2, <3>3 DEF Publishing
    <3> QED
      BY <2>2, <2>3, <3>4 DEF Continues
  <2>5. PICK t \in Header(q) : t \in slot'[x.at].todo
    BY <2>4
  <2>6. Place("todo", x.at) \in Places(r, t)'
    BY <2>2, <2>3, <2>5, PlacesRule DEF PlaceRule
  <2> QED
    BY <1>2, <1>3, <2>6
<1>5. \A t \in FirstTasks(q) : \A x \in Places(r, t)' : x.kind = "part"
  BY <1>3, <1>4 DEF FirstTasks
<1> QED
  BY <1>3, <1>5, OnlyParts

\* A link, or a head that fails, is the last of its document.
LEMMA LastWork ==
  ASSUME TypeInv, Unique, HeadFirst, TypeInv', Sound', NEW s \in Slots, Working(s),
         IsLink(Query(s), Msg(s).task) \/ (IsHead(Query(s), Msg(s).task) /\ At(s, "store")),
         NEW w, slot' = [slot EXCEPT ![s] = w], w.step = "ack", w.msg = Msg(s),
         unsent' = unsent, parts' = parts, request' = request, NEW r, r = Req(s),
         \A m \in DOMAIN queue' : m \in DOMAIN queue \/ m.task = "collect"
  PROVE  Counted(r)'
<1>0. PICK q, k : q = request[r] /\ k = Msg(s).task
  OBVIOUS
<1>1. r \in Requests /\ q \in DocumentRequest /\ Query(s) = q
  BY <1>0, BusyType DEF Working, At, Query
<1>2. slot'[s] = w /\ \A x \in Slots : x # s => slot'[x] = slot[x]
  BY OneSlot
<1>3. k \in HeaderTask /\ Place("slot", s) \in Places(r, k)
  <2>1. k \in HeaderTask
    BY <1>0, <1>1, HeaderType DEF IsLink, IsHead, HeaderTask, AgentName
  <2> QED
    BY <1>0, <2>1, PlacesRule DEF PlaceRule
<1>4. ASSUME NEW t \in HeaderTask PROVE Places(r, t)' \subseteq Places(r, t) \ {Place("slot", s)}
  <2>1. t # "collect"
    BY DEF HeaderTask, AgentName
  <2>2. \A x \in Slots : (Working(x) /\ Req(x) = r /\ Msg(x).task = t)'
          => x # s /\ Working(x) /\ Req(x) = r /\ Msg(x).task = t
    BY <1>2 DEF Working, Req, Msg
  <2>3. \A x \in Slots : (At(x, "publish") /\ Req(x) = r /\ t \in slot[x].todo)'
          => At(x, "publish") /\ Req(x) = r /\ t \in slot[x].todo
    BY <1>2 DEF At, Req, Msg
  <2>4. \A x \in Places(r, t)' : x \in Places(r, t) \/ x = Place("none", 0)
    BY <2>1, <2>2, <2>3, PlacesAfter
  <2>5. Place("none", 0) \notin Places(r, t)' /\ Place("slot", s) \notin Places(r, t)'
    BY <2>2, PlacesRule, PlaceKind DEF PlaceRule
  <2> QED
    BY <2>4, <2>5
<1>5. Places(r, k)' = {}
  BY <1>1, <1>3, <1>4 DEF Unique
<1>6. \A t \in Header(q) \cup FirstTasks(q) : Places(r, t)' = {}
  <2>1. CASE IsLink(q, k)
    BY <1>1, <1>5, <2>1, LinkNoHead
  <2>2. CASE IsHead(q, k) /\ At(s, "store")
    <3>1. k = "ocr" /\ HasHead(q) /\ FirstTasks(q) = {"ocr"}
      BY <2>2 DEF IsHead, FirstTasks
    <3>2. Place("slot", s).at = s
      BY DEF Place
    <3>3. \A t \in Header(q) : t \in HeaderTask /\ Places(r, t) = {}
      <4>1. Header(q) \subseteq HeaderTask
        BY <1>1, HeaderType
      <4>2. ~At(Place("slot", s).at, "publish")
        BY <2>2, <3>2 DEF At
      <4> QED
        BY <1>0, <1>1, <1>3, <3>1, <4>1, <4>2 DEF HeadFirst
    <3>4. \A t \in Header(q) : Places(r, t)' = {}
      BY <1>4, <3>3
    <3> QED
      BY <1>5, <3>1, <3>4
  <2> QED
    BY <1>0, <1>1, <2>1, <2>2
<1> QED
  BY <1>0, <1>1, <1>6, OnlyParts

-----------------------------------------------------------------------------
(* The steps of the API and of the workers, one by one.                    *)

LEMMA PublishEnds ==
  ASSUME TypeInv, Sound, OneEnd, NEW r \in Requests, NEW t \in Task, Publish(r, t)
  PROVE  EndsMove
<1>1. t # "collect" /\ t \in unsent[r]
  <2>1. t \in FirstTasks(request[r]) /\ request[r] \in DocumentRequest /\ t \in unsent[r]
    BY DEF Publish, Sound, TypeInv, TypeOK
  <2> QED
    BY <2>1, HeaderType DEF HeaderTask, AgentName
<1>2. PICK m : DOMAIN queue' = DOMAIN queue \cup {m} /\ m.req = r /\ m.task = t
  <2>1. queue' = BagAdd(queue, TaskMessage(r, t, None))
    BY DEF Publish
  <2>2. TaskMessage(r, t, None).req = r /\ TaskMessage(r, t, None).task = t
    BY DEF TaskMessage
  <2> QED
    BY <2>1, <2>2, BagAddType DEF TypeInv, TypeOK
<1>3. slot' = slot /\ state' = state /\ \A u \in Requests : u # r => unsent'[u] = unsent[u]
  BY DEF Publish, TypeInv, TypeOK
<1> SUFFICES ASSUME NEW u \in Requests PROVE EndsKept(u)
  BY DEF EndsMove
<1>4. Ends(u)' \subseteq Ends(u)
  BY <1>1, <1>2, <1>3, NoNewEnd DEF Ending, At, Req, Msg, Ready
<1>5. CASE u = r
  BY <1>1, <1>4, <1>5 DEF EndsKept, Counted
<1>6. CASE u # r
  BY <1>2, <1>3, <1>4, <1>6 DEF EndsKept, Counted, Working, Req, Msg
<1> QED
  BY <1>5, <1>6

\* A step after which every document has the same tasks and ends as before.
LEMMA SameEnds ==
  ASSUME unsent' = unsent, queue' = queue, state' = state,
         \A x \in Slots : (Ending(x) \/ Working(x))' => slot'[x] = slot[x]
  PROVE  EndsMove
<1> SUFFICES ASSUME NEW u \in Requests PROVE EndsKept(u)
  BY DEF EndsMove
<1>1. Ends(u)' \subseteq Ends(u)
  BY NoNewEnd DEF Ending, At, Req, Msg, Ready
<1>2. Counted(u) => Counted(u)'
  BY DEF Counted, Working, Req, Msg
<1> QED
  BY <1>1, <1>2 DEF EndsKept

\* The tasks of a document, one taken from the queue.
LEMMA DeliverEnds ==
  ASSUME TypeInv, OneEnd, OneCollect, NEW s \in Slots, Deliver(s)
  PROVE  EndsMove
<1>1. PICK m, w :
        /\ m \in DOMAIN queue
        /\ queue' = BagRemove(queue, m)
        /\ state' = IF m.task = "collect" THEN Stored(m.req, "STARTED") ELSE state
        /\ slot' = [slot EXCEPT ![s] = w] /\ w.msg = m /\ w.step = "run"
  BY DeliverSlot
<1>2. m.req \in Requests
  BY <1>1 DEF TypeInv, TypeOK, Message
<1>3. slot'[s] = w /\ \A x \in Slots : x # s => slot'[x] = slot[x]
  BY <1>1, OneSlot
<1>4. DOMAIN queue' \subseteq DOMAIN queue /\ (m.task = "collect" => m \notin DOMAIN queue')
  <2>1. m.task = "collect" => queue[m] = 1
    BY <1>1 DEF OneCollect
  <2> QED
    BY <1>1, <2>1 DEF BagRemove, TypeInv, TypeOK, IsABag
<1>5. unsent' = unsent
  BY DEF Deliver
<1>6. \A u \in Requests : Ready(u)' => Ready(u)
  BY <1>1, <1>2 DEF Ready, Stored, TypeInv, TypeOK
<1>7. \A x \in Slots : x # s => /\ (Ending(x)' <=> Ending(x)) /\ (Working(x)' <=> Working(x))
                                /\ Req(x)' = Req(x) /\ slot'[x].msg = slot[x].msg
  BY <1>3 DEF Ending, Working, At, Req, Msg
<1>8. Req(s)' = m.req /\ (Ending(s)' <=> m.task = "collect")
  BY <1>1, <1>3 DEF Ending, At, Req, Msg
<1>9. ASSUME NEW u \in Requests, u # m.req \/ m.task # "collect" PROVE EndsKept(u)
  <2>1. Ends(u)' \subseteq Ends(u)
    BY <1>4, <1>6, <1>7, <1>8, <1>9, NoNewEnd
  <2>2. Counted(u) => Counted(u)'
    BY <1>1, <1>3, <1>4, <1>5, <1>7, <1>8, <1>9 DEF Counted, Msg
  <2> QED
    BY <2>1, <2>2 DEF EndsKept
<1>10. ASSUME NEW u \in Requests, u = m.req, m.task = "collect" PROVE EndMoved(u)
  <2>1. Place("queue", m) \in Ends(u)
    BY <1>1, <1>10, EndsRule DEF EndRule
  <2>2. Place("queue", m) \notin Ends(u)'
    <3>1. EndRule(u, Place("queue", m))'
      BY EndsRule
    <3> QED
      BY <1>4, <1>10, <3>1, PlaceKind DEF EndRule
  <2>3. \A x \in Ends(u)' : x \in Ends(u) \/ x = Place("slot", s)
    <3>1. \A x \in Slots : (Ending(x) /\ Req(x) = u)'
            => (Ending(x) /\ Req(x) = u) \/ Place("slot", x) = Place("slot", s)
      BY <1>7
    <3>2. \A n \in DOMAIN queue' : n \in DOMAIN queue
      BY <1>4
    <3> QED
      BY <1>6, <3>1, <3>2, EndsAfter
  <2>4. Counted(u)
    BY <2>1 DEF OneEnd
  <2>5. Counted(u)'
    BY <1>1, <1>3, <1>4, <1>5, <1>7, <1>10, <2>4 DEF Counted, Msg
  <2> QED
    BY <2>1, <2>2, <2>3, <2>5 DEF EndMoved
<1> QED
  BY <1>9, <1>10 DEF EndsMove

\* The link's result is published: collect is called with it.
LEMMA LinkEnds ==
  ASSUME TypeInv, OneEnd, Unique, HeadFirst, TypeInv', Sound', request' = request,
         NEW s \in Slots, PublishNext(s)
  PROVE  EndsMove
<1>1. PICK t, m, w :
        /\ t \in slot[s].todo
        /\ queue' = BagAdd(queue, m) /\ m.req = Req(s) /\ m.task = t
        /\ Becomes(s, w) /\ w.step = IF slot[s].todo = {t} THEN "ack" ELSE "publish"
  BY PublishNextSlot
<1>2. /\ slot' = [slot EXCEPT ![s] = w] /\ w.msg = Msg(s)
      /\ \A n \in DOMAIN queue' : n \in DOMAIN queue \/ n = m
      /\ unsent' = unsent /\ state' = state /\ parts' = parts
  <2>1. DOMAIN queue' = DOMAIN queue \cup {m}
    BY <1>1, BagAddType DEF TypeInv, TypeOK
  <2> QED
    BY <1>1, <2>1 DEF Becomes, PublishNext
<1>3. Working(s) /\ At(s, "publish")
  BY DEF PublishNext, Working, At
<1>4. Query(s) \in DocumentRequest /\ Publishing(Query(s), slot[s])
  BY <1>3, BusyType DEF TypeInv, PublishInv, At
<1>5. Msg(s).task # "collect"
  BY <1>4 DEF Publishing, HeaderTask, AgentName, Msg
<1>6. CASE t # "collect"
  <2>1. /\ w.step # "fire"
        /\ \A n \in DOMAIN queue' : n \in DOMAIN queue \/ (n.req = Req(s) /\ n.task # "collect")
    BY <1>1, <1>2, <1>6
  <2> QED
    BY <1>2, <1>3, <1>5, <2>1, WorkKept
<1>7. CASE t = "collect"
  <2>1. IsLink(Query(s), Msg(s).task) /\ slot[s].todo = {t}
    <3>1. "collect" \notin Header(Query(s))
      BY <1>4, HeaderType DEF HeaderTask, AgentName
    <3> QED
      BY <1>1, <1>4, <1>7, <3>1 DEF Publishing, Msg
  <2>2. PICK r : r = Req(s)
    OBVIOUS
  <2>3. Counted(r)'
    <3>1. w.step = "ack" /\ \A n \in DOMAIN queue' : n \in DOMAIN queue \/ n.task = "collect"
      BY <1>1, <1>2, <1>7, <2>1
    <3> QED
      BY <1>2, <1>3, <2>1, <2>2, <3>1, LastWork
  <2>4. \A x \in Ends(r)' : x \in Ends(r) \/ x = Place("queue", m)
    <3>1. slot'[s] = w /\ \A x \in Slots : x # s => slot'[x] = slot[x]
      BY <1>2, OneSlot
    <3>2. \A x \in Slots : (Ending(x) /\ Req(x) = r)' => Ending(x) /\ Req(x) = r
      BY <1>1, <3>1 DEF Ending, At, Req, Msg
    <3>3. \A n \in DOMAIN queue' : n.req = r /\ n.task = "collect"
            => n \in DOMAIN queue \/ Place("queue", n) = Place("queue", m)
      BY <1>2
    <3>4. Ready(r)' => Ready(r)
      BY <1>2 DEF Ready
    <3> QED
      BY <3>2, <3>3, <3>4, EndsAfter
  <2>5. \A n \in DOMAIN queue' : n \in DOMAIN queue \/ n.req = Req(s)
    BY <1>1, <1>2
  <2>6. \A u \in Requests : u # Req(s) => state'[u] = state[u]
    BY <1>2
  <2> QED
    BY <1>2, <1>3, <1>5, <2>2, <2>3, <2>4, <2>5, <2>6, WorkEnds
<1> QED
  BY <1>6, <1>7

\* A failure behind which no header is left to count, recorded or not.
LEMMA FailureEnds ==
  ASSUME TypeInv, Sound, OneEnd, Unique, HeadFirst, Continues, TypeInv', Sound', request' = request,
         NEW s \in Slots, StoreFailure(s)
  PROVE  EndsMove
<1>1. Working(s) /\ At(s, "store") /\ Msg(s).task # "collect"
  BY DEF StoreFailure, Working, At, Continues
<1>2. PICK w : Becomes(s, w) /\ w.step = "ack"
  <2>1. ~At(s, "idle") /\ slot' = [slot EXCEPT ![s].step = "ack"]
    BY <1>1 DEF StoreFailure, At
  <2> QED
    BY <2>1, StepSlot
<1>3. /\ slot' = [slot EXCEPT ![s] = w] /\ w.msg = Msg(s)
      /\ queue' = queue /\ unsent' = unsent /\ parts' = parts
  BY <1>2 DEF Becomes, StoreFailure
<1>4. PICK r : r = Req(s)
  OBVIOUS
<1>5. r \in Requests /\ Query(s) \in DocumentRequest
  BY <1>1, <1>4, BusyType DEF At
<1>6. IsLink(Query(s), Msg(s).task) \/ IsHead(Query(s), Msg(s).task)
  <2>1. Msg(s).task \in Header(Query(s)) \cup FirstTasks(Query(s))
    BY <1>1 DEF Sound, WorkerSound, MessageSound, At, Msg, Query, Req
  <2> QED
    BY <1>5, <2>1, NotMember DEF StoreFailure
<1>7. Counted(r)'
  BY <1>1, <1>2, <1>3, <1>4, <1>6, LastWork
<1>8. \A x \in Ends(r)' : x \in Ends(r) \/ x = Place("answer", r)
  <2>1. slot'[s] = w /\ \A x \in Slots : x # s => slot'[x] = slot[x]
    BY <1>3, OneSlot
  <2>2. \A x \in Slots : (Ending(x) /\ Req(x) = r)' => Ending(x) /\ Req(x) = r
    BY <1>2, <2>1 DEF Ending, At, Req, Msg
  <2> QED
    BY <1>3, <2>2, EndsAfter
<1>9. \A u \in Requests : u # Req(s) => state'[u] = state[u]
  BY <1>4, <1>5 DEF StoreFailure, Stored, TypeInv, TypeOK
<1> QED
  BY <1>1, <1>3, <1>4, <1>7, <1>8, <1>9, WorkEnds

\* A result is counted; the last one ends the count.
LEMMA AddPartEnds ==
  ASSUME TypeInv, OneEnd, Continues, ChordFull', TypeInv', Sound', Unique', HeadFirst', Continues',
         NEW s \in Slots, AddPart(s)
  PROVE  EndsMove
<1>1. Working(s) /\ At(s, "store") /\ Msg(s).task # "collect"
  BY DEF AddPart, Working, At, Continues
<1>2. PICK w : Becomes(s, w) /\ w.step \in {"fire", "ack"}
  <2>1. PICK step \in {"fire", "ack"} : slot' = [slot EXCEPT ![s].step = step]
    BY DEF AddPart
  <2>2. ~At(s, "idle")
    BY <1>1 DEF At
  <2>3. PICK w : Becomes(s, w) /\ w.step = step
    BY <2>1, <2>2, StepSlot
  <2> QED
    BY <2>1, <2>3
<1>3. /\ slot' = [slot EXCEPT ![s] = w] /\ w.msg = Msg(s)
      /\ queue' = queue /\ unsent' = unsent /\ state' = state
  BY <1>2 DEF Becomes, AddPart
<1>4. CASE w.step # "fire"
  BY <1>1, <1>3, <1>4, WorkKept
<1>5. CASE w.step = "fire"
  <2>1. PICK r : r = Req(s)
    OBVIOUS
  <2>2. slot'[s] = w /\ \A x \in Slots : x # s => slot'[x] = slot[x]
    BY <1>3, OneSlot
  <2>3. r \in Requests /\ Req(s)' = r /\ At(s, "fire")'
    BY <1>1, <1>3, <1>5, <2>1, <2>2, BusyType DEF At, Req, Msg
  <2>4. ({p.task : p \in parts[r]} = Header(request[r]))'
    BY <2>3 DEF ChordFull, Query
  <2>5. Counted(r)'
    BY <2>3, <2>4, FullCounted
  <2>6. \A x \in Ends(r)' : x \in Ends(r) \/ x = Place("slot", s)
    <3>1. \A x \in Slots : (Ending(x) /\ Req(x) = r)'
            => (Ending(x) /\ Req(x) = r) \/ Place("slot", x) = Place("slot", s)
      BY <2>2 DEF Ending, At, Req, Msg
    <3>2. Ready(r)' => Ready(r)
      BY <1>3 DEF Ready
    <3> QED
      BY <1>3, <3>1, <3>2, EndsAfter
  <2> QED
    BY <1>1, <1>3, <2>1, <2>5, <2>6, WorkEnds
<1> QED
  BY <1>4, <1>5

\* A worker that is the end of a document hands it on.
LEMMA EndHandedOn ==
  ASSUME TypeInv, OneEnd, NEW s \in Slots, Ending(s),
         NEW w, slot' = [slot EXCEPT ![s] = w], w.msg = Msg(s), w.step \in {"clear", "ack"},
         unsent' = unsent, NEW r, r = Req(s),
         \A m \in DOMAIN queue' : m \in DOMAIN queue \/ (m.req = r /\ m.task = "collect"),
         \A u \in Requests : u # r => state'[u] = state[u],
         \E new : \A x \in Ends(r)' : x \in Ends(r) \/ x = new
  PROVE  EndsMove
<1>1. slot'[s] = w /\ \A x \in Slots : x # s => slot'[x] = slot[x]
  BY OneSlot
<1>2. r \in Requests /\ Place("slot", s) \in Ends(r) /\ Counted(r)
  <2>1. r \in Requests
    BY BusyType DEF Ending, At
  <2>2. Place("slot", s) \in Ends(r)
    BY EndsRule DEF EndRule
  <2> QED
    BY <2>1, <2>2 DEF OneEnd
<1>3. Counted(r)'
  BY <1>1, <1>2 DEF Counted, Working, At, Req, Msg
<1>4. Place("slot", s) \notin Ends(r)'
  <2>1. EndRule(r, Place("slot", s))'
    BY EndsRule
  <2>2. ~Ending(s)'
    BY <1>1 DEF Ending, At
  <2> QED
    BY <2>1, <2>2, PlaceKind DEF EndRule
<1>5. EndMoved(r)
  BY <1>2, <1>3, <1>4 DEF EndMoved
<1>6. \A m \in DOMAIN queue' : m \in DOMAIN queue \/ m.req = Req(s)
  OBVIOUS
<1>7. ASSUME NEW u \in Requests, u # r PROVE EndsKept(u)
  BY <1>6, <1>7, OthersKept
<1> QED
  BY <1>5, <1>7 DEF EndsMove

\* The body is called, or the failure of a member is recorded.
LEMMA FireBodyEnds ==
  ASSUME TypeInv, OneEnd, NEW s \in Slots, FireBody(s)
  PROVE  EndsMove
<1>1. Ending(s) /\ ~At(s, "idle")
  BY DEF FireBody, Ending, At
<1>2. PICK r : r = Req(s)
  OBVIOUS
<1>3. r \in Requests /\ unsent' = unsent
  BY <1>1, <1>2, BusyType DEF FireBody
<1>4. ASSUME NEW step \in {"clear", "ack"}, slot' = [slot EXCEPT ![s].step = step],
             \A m \in DOMAIN queue' : m \in DOMAIN queue \/ (m.req = r /\ m.task = "collect"),
             \A u \in Requests : u # r => state'[u] = state[u],
             NEW new,
             \A m \in DOMAIN queue' : m \in DOMAIN queue \/ Place("queue", m) = new,
             Ready(r)' => Ready(r) \/ Place("answer", r) = new
      PROVE  EndsMove
  <2>1. PICK w : Becomes(s, w) /\ w.step = step
    <3>1. ~At(s, "idle") /\ slot' = [slot EXCEPT ![s].step = step]
      BY <1>1, <1>4
    <3> QED
      BY <3>1, StepSlot
  <2>2. slot' = [slot EXCEPT ![s] = w] /\ w.msg = Msg(s) /\ w.step \in {"clear", "ack"}
    BY <2>1 DEF Becomes
  <2>3. \A x \in Slots : (Ending(x) /\ Req(x) = r)' => Ending(x) /\ Req(x) = r
    <3>1. slot'[s] = w /\ \A x \in Slots : x # s => slot'[x] = slot[x]
      BY <2>2, OneSlot
    <3> QED
      BY <2>2, <3>1 DEF Ending, At, Req, Msg
  <2>4. \A x \in Ends(r)' : x \in Ends(r) \/ x = new
    BY <1>4, <2>3, EndsAfter
  <2> QED
    BY <1>1, <1>2, <1>3, <1>4, <2>2, <2>4, EndHandedOn
<1>5. CASE \A p \in parts[Req(s)] : p.ok
  <2>1. PICK m : /\ queue' = BagAdd(queue, m) /\ m.req = r /\ m.task = "collect"
                 /\ slot' = [slot EXCEPT ![s].step = "clear"] /\ state' = state
    <3>1. /\ queue' = BagAdd(queue, CollectMessage(r, ItemsOf(parts[r])))
          /\ slot' = [slot EXCEPT ![s].step = "clear"] /\ state' = state
      BY <1>2, <1>5 DEF FireBody
    <3>2. /\ CollectMessage(r, ItemsOf(parts[r])).req = r
          /\ CollectMessage(r, ItemsOf(parts[r])).task = "collect"
      BY DEF CollectMessage
    <3> QED
      BY <3>1, <3>2
  <2>2. DOMAIN queue' = DOMAIN queue \cup {m}
    BY <2>1, BagAddType DEF TypeInv, TypeOK
  <2>3. \A n \in DOMAIN queue' : n \in DOMAIN queue \/ (n.req = r /\ n.task = "collect")
    BY <2>1, <2>2
  <2>4. \A n \in DOMAIN queue' : n \in DOMAIN queue \/ Place("queue", n) = Place("queue", m)
    BY <2>2
  <2>5. Ready(r)' => Ready(r)
    BY <2>1 DEF Ready
  <2> QED
    BY <1>4, <2>1, <2>3, <2>4, <2>5
<1>6. CASE \E p \in parts[Req(s)] : ~p.ok
  <2>1. /\ queue' = queue /\ slot' = [slot EXCEPT ![s].step = "ack"]
        /\ state' = Stored(r, "FAILURE")
    BY <1>2, <1>6 DEF FireBody
  <2>2. \A u \in Requests : u # r => state'[u] = state[u]
    BY <1>3, <2>1 DEF Stored, TypeInv, TypeOK
  <2> QED
    BY <1>4, <2>1, <2>2
<1> QED
  BY <1>5, <1>6

\* The terminal task returns.
LEMMA CollectEnds ==
  ASSUME TypeInv, OneEnd, NEW s \in Slots, Collect(s)
  PROVE  EndsMove
<1>1. Ending(s) /\ ~At(s, "idle") /\ slot' = [slot EXCEPT ![s].step = "ack"]
  BY DEF Collect, Ending, At
<1>2. PICK r : r = Req(s)
  OBVIOUS
<1>3. r \in Requests /\ unsent' = unsent /\ queue' = queue
  BY <1>1, <1>2, BusyType DEF Collect
<1>4. PICK w : Becomes(s, w) /\ w.step = "ack"
  BY <1>1, StepSlot
<1>5. slot' = [slot EXCEPT ![s] = w] /\ w.msg = Msg(s) /\ w.step \in {"clear", "ack"}
  BY <1>4 DEF Becomes
<1>6. \A x \in Slots : (Ending(x) /\ Req(x) = r)' => Ending(x) /\ Req(x) = r
  <2>1. slot'[s] = w /\ \A x \in Slots : x # s => slot'[x] = slot[x]
    BY <1>5, OneSlot
  <2> QED
    BY <1>5, <2>1 DEF Ending, At, Req, Msg
<1>7. \A x \in Ends(r)' : x \in Ends(r) \/ x = Place("answer", r)
  BY <1>3, <1>6, EndsAfter
<1>8. \A u \in Requests : u # r => state'[u] = state[u]
  BY <1>2, <1>3 DEF Collect, Stored, TypeInv, TypeOK
<1> QED
  BY <1>1, <1>2, <1>3, <1>5, <1>7, <1>8, EndHandedOn

\* A task at work returns, fails or is tried again.
LEMMA FinishEnds ==
  ASSUME TypeInv, OneEnd, NEW s \in Slots, Succeed(s) \/ Fail(s) \/ Retry(s)
  PROVE  EndsMove
<1>1. Working(s) /\ Msg(s).task # "collect" /\ unsent' = unsent /\ state' = state
  BY FailureAssumption DEF Succeed, Fail, Retry, Working, At, AgentName
<1>2. ASSUME NEW w, Becomes(s, w), w.step \in {"publish", "store", "ack"},
             \A m \in DOMAIN queue' : m \in DOMAIN queue \/ (m.req = Req(s) /\ m.task # "collect")
      PROVE  EndsMove
  <2>1. slot' = [slot EXCEPT ![s] = w] /\ w.msg = Msg(s) /\ w.step # "fire"
    BY <1>2 DEF Becomes
  <2> QED
    BY <1>1, <1>2, <2>1, WorkKept
<1>3. CASE Succeed(s)
  <2>1. PICK w : Becomes(s, w) /\ w.step \in {"publish", "store"}
    BY <1>3, SucceedSlot
  <2> QED
    BY <1>2, <1>3, <2>1 DEF Succeed
<1>4. CASE Fail(s)
  <2>1. PICK w : Becomes(s, w) /\ w.step = "store"
    BY <1>4, FailSlot
  <2> QED
    BY <1>2, <1>4, <2>1 DEF Fail
<1>5. CASE Retry(s)
  <2>1. PICK m, w : /\ queue' = BagAdd(queue, m) /\ m.req = Req(s) /\ m.task = Msg(s).task
                    /\ Becomes(s, w) /\ w.step = "ack"
    BY <1>5, RetrySlot
  <2>2. DOMAIN queue' = DOMAIN queue \cup {m}
    BY <2>1, BagAddType DEF TypeInv, TypeOK
  <2> QED
    BY <1>1, <1>2, <2>1, <2>2
<1> QED
  BY <1>3, <1>4, <1>5

\* What follows the end of the work.
LEMMA AfterEnds ==
  ASSUME TypeInv, NEW s \in Slots, ClearChord(s) \/ Ack(s)
  PROVE  EndsMove
<1>1. PICK w : slot' = [slot EXCEPT ![s] = w] /\ w.step \in {"ack", "idle"}
  <2>1. CASE Ack(s)
    BY <2>1, IdleType DEF Ack
  <2>2. CASE ClearChord(s)
    <3>1. ~At(s, "idle") /\ slot' = [slot EXCEPT ![s].step = "ack"]
      BY <2>2 DEF ClearChord, At
    <3>2. PICK w : Becomes(s, w) /\ w.step = "ack"
      BY <3>1, StepSlot
    <3> QED
      BY <3>2 DEF Becomes
  <2> QED
    BY <2>1, <2>2
<1>2. slot'[s] = w /\ \A x \in Slots : x # s => slot'[x] = slot[x]
  BY <1>1, OneSlot
<1>3. \A x \in Slots : (Ending(x) \/ Working(x))' => slot'[x] = slot[x]
  BY <1>1, <1>2 DEF Ending, Working, At
<1> QED
  BY <1>3, SameEnds DEF ClearChord, Ack

-----------------------------------------------------------------------------
(* The step and EndInv.                                                    *)

LEMMA ContinuesStep ==
  ASSUME TypeInv, Continues, [Next]_vars
  PROVE  Continues'
<1> DEFINE Goes(w) == (w.step = "publish" => w.todo # {}) /\ (w.step = "store" => w.msg.task # "collect")
<1>1. Continues <=> \A s \in Slots : Goes(slot[s])
  BY DEF Continues, At, Msg
<1>2. Continues' <=> \A s \in Slots : Goes(slot'[s])
  BY DEF Continues, At, Msg
<1>3. ASSUME NEW s \in Slots, NEW w, slot' = [slot EXCEPT ![s] = w], Goes(w)
      PROVE  Continues'
  <2>1. slot'[s] = w /\ \A x \in Slots : x # s => slot'[x] = slot[x]
    BY <1>3, OneSlot
  <2> HIDE DEF Goes
  <2> QED
    BY <1>1, <1>2, <1>3, <2>1
<1>4. ASSUME NEW s \in Slots, NEW step \in {"fire", "clear", "ack"}, ~At(s, "idle"),
             slot' = [slot EXCEPT ![s].step = step]
      PROVE  Continues'
  <2>1. PICK w : Becomes(s, w) /\ w.step = step
    <3>1. ~At(s, "idle") /\ slot' = [slot EXCEPT ![s].step = step]
      BY <1>4
    <3> QED
      BY <3>1, StepSlot
  <2>2. slot' = [slot EXCEPT ![s] = w] /\ Goes(w)
    BY <2>1 DEF Becomes
  <2> QED
    BY <1>3, <2>2
<1>5. ASSUME slot' = slot PROVE Continues'
  BY <1>5 DEF Continues, At, Msg
<1>6. ASSUME NEW s \in Slots, Succeed(s) PROVE Continues'
  <2>1. PICK w : /\ Becomes(s, w) /\ w.todo = Following(Query(s), Msg(s).task)
                 /\ w.step = IF w.todo = {} THEN "store" ELSE "publish"
    BY <1>6, SucceedSlot
  <2>2. slot' = [slot EXCEPT ![s] = w] /\ Goes(w)
    BY <1>6, <2>1 DEF Becomes, Succeed
  <2> QED
    BY <1>3, <2>2
<1>7. ASSUME NEW s \in Slots, Fail(s) PROVE Continues'
  <2>1. PICK w : Becomes(s, w) /\ w.step = "store"
    BY <1>7, FailSlot
  <2>2. slot' = [slot EXCEPT ![s] = w] /\ Goes(w)
    BY <1>7, <2>1, FailureAssumption DEF Becomes, Fail, AgentName
  <2> QED
    BY <1>3, <2>2
<1>8. ASSUME NEW s \in Slots, PublishNext(s) PROVE Continues'
  <2>1. PICK t, w :
          /\ t \in slot[s].todo
          /\ Becomes(s, w) /\ w.todo = slot[s].todo \ {t}
          /\ w.step = IF slot[s].todo = {t} THEN "ack" ELSE "publish"
    BY <1>8, PublishNextSlot
  <2>2. slot' = [slot EXCEPT ![s] = w] /\ Goes(w)
    BY <2>1 DEF Becomes
  <2> QED
    BY <1>3, <2>2
<1>9. ASSUME NEW s \in Slots, Deliver(s) PROVE Continues'
  <2>1. PICK m, w : slot' = [slot EXCEPT ![s] = w] /\ w.msg = m /\ w.step = "run"
    BY <1>9, DeliverSlot
  <2> QED
    BY <1>3, <2>1
<1>10. ASSUME NEW s \in Slots, Ack(s) \/ Crash(s) PROVE Continues'
  <2>1. slot' = [slot EXCEPT ![s] = Idle] /\ Goes(Idle)
    BY <1>10, IdleType DEF Ack, Crash
  <2> QED
    BY <1>3, <2>1
<1>11. ASSUME NEW s \in Slots,
              Retry(s) \/ Collect(s) \/ StoreFailure(s) \/ AddPart(s) \/ FireBody(s) \/ ClearChord(s)
       PROVE  Continues'
  <2>1. ~At(s, "idle")
    BY <1>11 DEF Retry, Collect, StoreFailure, AddPart, FireBody, ClearChord, At
  <2>2. PICK step \in {"fire", "clear", "ack"} : slot' = [slot EXCEPT ![s].step = step]
    BY <1>11 DEF Retry, Collect, StoreFailure, AddPart, FireBody, ClearChord
  <2> QED
    BY <1>4, <2>1, <2>2
<1>12. ASSUME NEW r \in Requests, Submit(r) \/ BrokerDown(r) PROVE Continues'
  BY <1>5, <1>12 DEF Submit, Publish, Accept, BrokerDown
<1> QED
  BY <1>5, <1>6, <1>7, <1>8, <1>9, <1>10, <1>11, <1>12 DEF Next, Work, Finish, vars

\* Collect is published at most once.
LEMMA AddOneCollect ==
  ASSUME TypeInv, OneCollect, NEW m, m.task # "collect" \/ m \notin DOMAIN queue,
         queue' = BagAdd(queue, m)
  PROVE  OneCollect'
BY DEF TypeInv, TypeOK, IsABag, BagAdd, OneCollect

LEMMA OneCollectStep ==
  ASSUME TypeInv, Sound, OneEnd, OneCollect, [Next]_vars, MaxCrashes = 0
  PROVE  OneCollect'
<1>1. ASSUME queue' = queue PROVE OneCollect'
  BY <1>1 DEF OneCollect
<1>2. ASSUME NEW r \in Requests, NEW t \in Task, Publish(r, t) PROVE OneCollect'
  <2>1. t \in FirstTasks(request[r]) /\ request[r] \in DocumentRequest
    BY <1>2 DEF Publish, Sound, TypeInv, TypeOK
  <2>2. t # "collect"
    BY <2>1, HeaderType DEF HeaderTask, AgentName
  <2>3. TaskMessage(r, t, None).task = t /\ queue' = BagAdd(queue, TaskMessage(r, t, None))
    BY <1>2 DEF TaskMessage, Publish
  <2> QED
    BY <2>2, <2>3, AddOneCollect
<1>3. ASSUME NEW s \in Slots, Deliver(s) PROVE OneCollect'
  <2>1. PICK m \in DOMAIN queue : queue' = BagRemove(queue, m)
    BY <1>3, DeliverSlot
  <2> QED
    BY <2>1 DEF OneCollect, BagRemove, TypeInv, TypeOK, IsABag
<1>4. ASSUME NEW s \in Slots, Retry(s) PROVE OneCollect'
  <2>1. PICK m : queue' = BagAdd(queue, m) /\ m.task = Msg(s).task
    BY <1>4, RetrySlot
  <2>2. m.task # "collect"
    BY <1>4, <2>1 DEF Retry
  <2> QED
    BY <2>1, <2>2, AddOneCollect
<1>5. ASSUME NEW s \in Slots, PublishNext(s) PROVE OneCollect'
  <2>1. PICK m : queue' = BagAdd(queue, m) /\ m.req = Req(s)
    BY <1>5, PublishNextSlot
  <2>2. m \notin DOMAIN queue \/ m.task # "collect"
    <3>1. At(s, "publish") /\ Working(s) /\ Publishing(Query(s), slot[s])
      BY <1>5 DEF PublishNext, Working, TypeInv, PublishInv, At
    <3>2. Msg(s).task # "collect"
      BY <3>1 DEF Publishing, HeaderTask, AgentName, Msg
    <3>3. Ends(Req(s)) = {}
      BY <3>1, <3>2, AtWork
    <3> QED
      BY <2>1, <3>3, EndsRule DEF EndRule
  <2> QED
    BY <2>1, <2>2, AddOneCollect
<1>6. ASSUME NEW s \in Slots, FireBody(s) PROVE OneCollect'
  <2>1. PICK m : m.req = Req(s) /\ (queue' = BagAdd(queue, m) \/ queue' = queue)
    BY <1>6 DEF FireBody, CollectMessage
  <2>2. m \notin DOMAIN queue \/ m.task # "collect"
    <3>1. Ending(s) /\ Req(s) \in Requests
      BY <1>6, BusyType DEF FireBody, Ending, At
    <3>2. Place("slot", s) \in Ends(Req(s))
      BY <3>1, EndsRule DEF EndRule
    <3>3. ASSUME m \in DOMAIN queue, m.task = "collect" PROVE FALSE
      <4>1. Place("queue", m) \in Ends(Req(s))
        BY <2>1, <3>3, EndsRule DEF EndRule
      <4> QED
        BY <3>1, <3>2, <4>1, PlaceKind DEF OneEnd
    <3> QED
      BY <3>3
  <2> QED
    BY <1>1, <2>1, <2>2, AddOneCollect
<1>7. ASSUME NEW s \in Slots,
             Succeed(s) \/ Fail(s) \/ Collect(s) \/ StoreFailure(s) \/ AddPart(s) \/ ClearChord(s)
               \/ Ack(s)
      PROVE  queue' = queue
  BY <1>7 DEF Succeed, Fail, Collect, StoreFailure, AddPart, ClearChord, Ack
<1>8. ASSUME NEW r \in Requests, Accept(r) \/ BrokerDown(r) PROVE queue' = queue
  BY <1>8 DEF Accept, BrokerDown
<1>9. \A s \in Slots : ~Crash(s)
  BY BoundsAssumption DEF Crash, TypeInv, TypeOK
<1> QED
  BY <1>1, <1>2, <1>3, <1>4, <1>5, <1>6, <1>7, <1>8, <1>9 DEF Next, Submit, Work, Finish, vars

\* All that a step needs to know, and what it leaves.
AllInv == TypeInv /\ Sound /\ OnceInv /\ EndInv

LEMMA EndsStep ==
  ASSUME AllInv, [Next]_vars, MaxCrashes = 0
  PROVE  EndsMove
<1>1. TypeInv /\ Sound /\ OneEnd /\ OneCollect /\ Continues /\ Unique /\ HeadFirst
  BY DEF AllInv, OnceInv, EndInv
<1>2. TypeInv' /\ Sound' /\ Unique' /\ HeadFirst' /\ ChordFull' /\ Continues' /\ request' = request
  BY TypeStep, SoundStep, OnceStep, ContinuesStep, RequestFixed DEF AllInv, OnceInv, EndInv
<1>3. ASSUME NEW r \in Requests, Submit(r) \/ BrokerDown(r) PROVE EndsMove
  <2>1. CASE \E t \in Task : Publish(r, t)
    BY <1>1, <2>1, PublishEnds
  <2>2. CASE Accept(r) \/ BrokerDown(r)
    <3>1. unsent' = unsent /\ queue' = queue /\ state' = state /\ slot' = slot
      BY <2>2 DEF Accept, BrokerDown
    <3> QED
      BY <3>1, SameEnds
  <2> QED
    BY <1>3, <2>1, <2>2 DEF Submit
<1>4. ASSUME NEW s \in Slots, Work(s) PROVE EndsMove
  BY <1>1, <1>2, <1>4, DeliverEnds, FinishEnds, CollectEnds, LinkEnds, FailureEnds, AddPartEnds,
     FireBodyEnds, AfterEnds DEF Work, Finish
<1>5. \A s \in Slots : ~Crash(s)
  BY <1>1, BoundsAssumption DEF Crash, TypeInv, TypeOK
<1>6. UNCHANGED vars => EndsMove
  BY SameEnds DEF vars
<1> QED
  BY <1>3, <1>4, <1>5, <1>6 DEF Next

LEMMA EndStep ==
  ASSUME MaxCrashes = 0
  PROVE  AllInv /\ [Next]_vars => EndInv'
<1> SUFFICES ASSUME AllInv, [Next]_vars PROVE EndInv'
  OBVIOUS
<1>1. TypeInv /\ Sound /\ OneEnd /\ OneCollect /\ Continues /\ Replied
  BY DEF AllInv, EndInv
<1>2. OneEnd'
  BY <1>1, EndsStep, EndsMoveOne
<1> QED
  BY <1>1, <1>2, OneCollectStep, ContinuesStep, RepliedStep DEF EndInv

LEMMA EndInit == Init => EndInv
<1> SUFFICES ASSUME Init PROVE EndInv
  OBVIOUS
<1>1. DOMAIN queue = {} /\ \A s \in Slots : slot[s] = Idle /\ Idle.step = "idle"
  BY EmptyBagType DEF Init, Idle
<1>2. \A r \in Requests : Ends(r) = {}
  BY <1>1 DEF Ends, Ending, At, Ready, Init
<1>3. OneEnd /\ OneCollect /\ Continues
  BY <1>1, <1>2 DEF OneEnd, OneCollect, Continues, At
<1> QED
  BY <1>3, ReplyInit DEF EndInv

\* Without crashes a document ends once: when its terminal task is about to
\* be called, is queued, runs or has returned, it is in one of these places,
\* and no other task of the document can run any more.
THEOREM EndInvariant ==
  ASSUME MaxCrashes = 0
  PROVE  Spec => []EndInv
<1>1. Spec => []AllInv
  <2>1. Spec => [](TypeInv /\ Sound /\ OnceInv)
    BY TypeInvariant, SoundInvariant, OnceInvariant, PTL
  <2>2. TypeInv /\ Sound /\ OnceInv /\ EndInv /\ [Next]_vars => EndInv'
    BY EndStep DEF AllInv
  <2>3. TypeInv /\ Sound /\ OnceInv /\ EndInv => AllInv
    BY DEF AllInv
  <2> QED
    BY <2>1, <2>2, <2>3, EndInit, PTL DEF Spec
<1> QED
  BY <1>1, PTL DEF AllInv

\* A caller told 503 may submit again: what was published of the first
\* submission never finishes, whatever fails and is retried.
THEOREM RefusedNeverFinishes ==
  ASSUME MaxCrashes = 0
  PROVE  Spec => []UnavailableNeverFinishes
<1>1. EndInv => UnavailableNeverFinishes
  <2> SUFFICES ASSUME EndInv, NEW r \in Requests, reply[r] = "unavailable", Ready(r) PROVE FALSE
    BY DEF UnavailableNeverFinishes
  <2>1. Place("answer", r) \in Ends(r)
    BY EndsRule DEF EndRule
  <2> QED
    BY <2>1 DEF EndInv, OneEnd, Counted, Replied
<1> QED
  BY <1>1, EndInvariant, PTL

-----------------------------------------------------------------------------
(* What a client has read stays, and the contract.                         *)

LEMMA OnlyAnswer ==
  ASSUME AllInv, NEW r \in Requests, Ready(r)
  PROVE  Counted(r) /\ \A x \in Ends(r) : x = Place("answer", r)
<1>1. Place("answer", r) \in Ends(r)
  BY EndsRule DEF EndRule
<1> QED
  BY <1>1 DEF AllInv, EndInv, OneEnd

\* No worker acts on a document whose end is read.
LEMMA ReadyKept ==
  ASSUME AllInv, [Next]_vars, MaxCrashes = 0, NEW r \in Requests, Ready(r)
  PROVE  state'[r] = state[r] /\ payload'[r] = payload[r]
<1>1. TypeInv /\ Sound /\ Continues
  BY DEF AllInv, EndInv
<1>2. Counted(r) /\ \A x \in Ends(r) : x = Place("answer", r)
  BY OnlyAnswer
<1>3. ASSUME NEW m \in DOMAIN queue, m.req = r, m.task = "collect" PROVE FALSE
  <2>1. Place("queue", m) \in Ends(r)
    BY <1>3, EndsRule DEF EndRule
  <2> QED
    BY <1>2, <2>1, PlaceKind
<1>4. ASSUME NEW s \in Slots, Ending(s), Req(s) = r PROVE FALSE
  <2>1. Place("slot", s) \in Ends(r)
    BY <1>4, EndsRule DEF EndRule
  <2> QED
    BY <1>2, <2>1, PlaceKind
<1>5. ASSUME NEW s \in Slots, Deliver(s) PROVE state'[r] = state[r] /\ payload'[r] = payload[r]
  <2>1. PICK m \in DOMAIN queue : state' = IF m.task = "collect" THEN Stored(m.req, "STARTED") ELSE state
    BY <1>1, <1>5, DeliverSlot
  <2>2. m.task = "collect" => m.req # r
    BY <1>3
  <2> QED
    BY <1>1, <1>5, <2>1, <2>2 DEF Deliver, Stored, TypeInv, TypeOK
<1>6. ASSUME NEW s \in Slots, Collect(s) \/ FireBody(s)
      PROVE  state'[r] = state[r] /\ payload'[r] = payload[r]
  <2>1. Req(s) # r
    BY <1>4, <1>6 DEF Collect, FireBody, Ending
  <2> QED
    BY <1>1, <1>6, <2>1 DEF Collect, FireBody, Stored, TypeInv, TypeOK
<1>7. ASSUME NEW s \in Slots, StoreFailure(s)
      PROVE  state'[r] = state[r] /\ payload'[r] = payload[r]
  <2>1. Req(s) # r
    BY <1>1, <1>2, <1>7 DEF StoreFailure, Counted, Working, Continues, At
  <2> QED
    BY <1>1, <1>7, <2>1 DEF StoreFailure, Stored, TypeInv, TypeOK
<1>8. ASSUME NEW s \in Slots,
             Succeed(s) \/ Fail(s) \/ Retry(s) \/ PublishNext(s) \/ AddPart(s) \/ ClearChord(s) \/ Ack(s)
      PROVE  state' = state /\ payload' = payload
  BY <1>8 DEF Succeed, Fail, Retry, PublishNext, AddPart, ClearChord, Ack
<1>9. ASSUME NEW u \in Requests, Submit(u) \/ BrokerDown(u) PROVE state' = state /\ payload' = payload
  BY <1>9 DEF Submit, Publish, Accept, BrokerDown
<1>10. \A s \in Slots : ~Crash(s)
  BY <1>1, BoundsAssumption DEF Crash, TypeInv, TypeOK
<1> QED
  BY <1>5, <1>6, <1>7, <1>8, <1>9, <1>10 DEF Next, Work, Finish, vars

LEMMA AllInvariant ==
  ASSUME MaxCrashes = 0
  PROVE  Spec => []AllInv
<1>1. TypeInv /\ Sound /\ OnceInv /\ EndInv => AllInv
  BY DEF AllInv
<1> QED
  BY <1>1, TypeInvariant, SoundInvariant, OnceInvariant, EndInvariant, PTL

-----------------------------------------------------------------------------
(* One run of OCR.                                                         *)

\* Nothing of a document carries a text it did not before.
CarriedKept(r) == \A v : Carries(r, v)' => Carries(r, v)

LEMMA NothingCarried ==
  ASSUME NEW r \in Requests,
         \A m \in DOMAIN queue' : m \in DOMAIN queue \/
           (m.req = r => \A v : MessageCarries(m, v) => Carries(r, v)),
         \A s \in Slots : slot'[s] = slot[s] \/
           (slot'[s].msg.req = r => \A v : WorkerCarries(slot'[s], v) => Carries(r, v)),
         \A p \in parts'[r] : p \in parts[r] \/ (p.ok => Carries(r, p.text)),
         \A i \in payload'[r] : Carries(r, i.text)
  PROVE  CarriedKept(r)
<1> SUFFICES ASSUME NEW v, Carries(r, v)' PROVE Carries(r, v)
  BY DEF CarriedKept
<1>1. CASE \E m \in DOMAIN queue' : m.req = r /\ MessageCarries(m, v)
  BY <1>1 DEF Carries
<1>2. CASE \E s \in Slots : WorkerCarries(slot'[s], v) /\ slot'[s].msg.req = r
  BY <1>2 DEF Carries, Req, Msg
<1>3. CASE \E p \in parts'[r] : p.ok /\ p.text = v
  BY <1>3 DEF Carries
<1>4. CASE \E i \in payload'[r] : i.text = v
  BY <1>4
<1> QED
  BY <1>1, <1>2, <1>3, <1>4 DEF Carries, MessageCarries, WorkerCarries, Req, Msg

\* While the head of a pipeline runs, nothing carries a text yet.
LEMMA NothingYet ==
  ASSUME AllInv, OneRun, NEW s \in Slots, At(s, "run"), IsHead(Query(s), Msg(s).task), NEW v
  PROVE  ~Carries(Req(s), v)
<1> DEFINE r == Req(s)
<1>1. TypeInv /\ Sound /\ OneEnd /\ Unique /\ HeadFirst /\ Continues
  BY DEF AllInv, OnceInv, EndInv
<1>2. r \in Requests /\ Msg(s).task = "ocr" /\ HasHead(request[r]) /\ Working(s)
  BY <1>1, BusyType DEF At, IsHead, Query, Working
<1>3. Ends(r) = {}
  BY <1>1, <1>2, AtWork
<1>4. Place("slot", s) \in Places(r, "ocr")
  BY <1>2, PlacesRule DEF PlaceRule
<1> HIDE DEF r
<1>5. \A t \in Header(request[r]) : Places(r, t) = {}
  BY <1>1, <1>2, <1>4 DEF HeadFirst, At, Place
<1>6. FirstTasks(request[r]) = {"ocr"}
  BY <1>2 DEF FirstTasks
<1>7. ASSUME NEW m \in DOMAIN queue, m.req = r PROVE ~MessageCarries(m, v)
  <2>1. m.task # "collect"
    BY <1>3, <1>7, EndsRule DEF EndRule
  <2>2. m.task \notin Header(request[r])
    BY <1>5, <1>7, PlacesRule DEF PlaceRule
  <2> QED
    BY <1>1, <1>6, <1>7, <2>1, <2>2 DEF Sound, MessageSound, MessageCarries
<1>8. ASSUME NEW x \in Slots, Req(x) = r PROVE ~WorkerCarries(slot[x], v)
  <2> SUFFICES ASSUME WorkerCarries(slot[x], v) PROVE FALSE
    OBVIOUS
  <2>1. Working(x) /\ ~At(x, "idle")
    BY DEF WorkerCarries, Working, At
  <2>2. MessageSound(Msg(x))
    BY <1>1, <2>1 DEF Sound, WorkerSound, Msg
  <2>3. ASSUME Msg(x).task = "ocr" PROVE FALSE
    <3>1. Place("slot", x) \in Places(r, "ocr")
      BY <1>8, <2>1, <2>3, PlacesRule DEF PlaceRule
    <3>2. x = s
      BY <1>1, <1>2, <1>4, <3>1, PlaceKind DEF Unique, HeaderTask, AgentName, Place
    <3> QED
      BY <2>3, <3>2 DEF WorkerCarries, MessageCarries, At, Msg
  <2>4. Place("slot", x) \in Places(r, Msg(x).task)
    BY <1>8, <2>1, PlacesRule DEF PlaceRule
  <2>5. Msg(x).task = "collect"
    BY <1>5, <1>6, <1>8, <2>2, <2>3, <2>4 DEF MessageSound, Req
  <2>6. At(x, "run")
    BY <1>1, <2>1, <2>5 DEF TypeInv, PublishInv, Publishing, Continues, Working, At, HeaderTask, AgentName, Msg
  <2> QED
    BY <1>3, <1>8, <2>5, <2>6, EndsRule DEF EndRule, Ending
<1>9. parts[r] = {}
  <2> SUFFICES ASSUME NEW p \in parts[r] PROVE FALSE
    OBVIOUS
  <2>1. p.task \in Header(request[r])
    BY <1>1, <1>2 DEF Sound, PartSound, r
  <2> QED
    BY <1>5, <2>1, PlacesRule DEF PlaceRule
<1>10. payload[r] = {}
  BY <1>2, <1>3, EndsRule DEF OneRun, EndRule, r
<1> QED
  BY <1>7, <1>8, <1>9, <1>10 DEF Carries, r

\* A worker that goes on with its message carries no text that nobody carried,
\* unless it is the head that returns one.
LEMMA WorkerCarried ==
  ASSUME TypeInv, NEW s \in Slots, NEW w, Becomes(s, w), NEW r \in Requests,
         \A m \in DOMAIN queue' : m \in DOMAIN queue \/
           (m.req = r => \A v : MessageCarries(m, v) => Carries(r, v)),
         Req(s) = r => \A v : WorkerCarries(w, v) => Carries(r, v),
         \A p \in parts'[r] : p \in parts[r] \/ (p.ok => Carries(r, p.text)),
         \A i \in payload'[r] : Carries(r, i.text)
  PROVE  CarriedKept(r)
<1>1. slot'[s] = w /\ w.msg = Msg(s) /\ \A x \in Slots : x # s => slot'[x] = slot[x]
  BY OneSlot DEF Becomes
<1>2. \A x \in Slots : slot'[x] = slot[x] \/
        (slot'[x].msg.req = r => \A v : WorkerCarries(slot'[x], v) => Carries(r, v))
  BY <1>1 DEF Req
<1> QED
  BY <1>2, NothingCarried

\* What a worker, a result or an item carries.
LEMMA CarriedBy ==
  ASSUME NEW r \in Requests, NEW v
  PROVE  /\ \A s \in Slots : WorkerCarries(slot[s], v) /\ Req(s) = r => Carries(r, v)
         /\ \A i \in payload[r] : Carries(r, i.text)
         /\ \A p \in parts[r] : p.ok => Carries(r, p.text)
         /\ \A m \in DOMAIN queue : m.req = r /\ MessageCarries(m, v) => Carries(r, v)
BY DEF Carries

\* What a step adds to the queue is one message.
LEMMA AddsOne ==
  ASSUME TypeInv, NEW m, queue' = BagAdd(queue, m)
  PROVE  \A n \in DOMAIN queue' : n \in DOMAIN queue \/ n = m
<1>1. DOMAIN queue' = DOMAIN queue \cup {m}
  BY BagAddType DEF TypeInv, TypeOK
<1> QED
  BY <1>1

LEMMA SucceedCarried ==
  ASSUME AllInv, OneRun, NEW s \in Slots, Succeed(s), NEW r \in Requests, HasHead(request[r])
  PROVE  CarriedKept(r) \/ \E u : \A v : Carries(r, v)' => v = u
<1>1. TypeInv /\ Sound
  BY DEF AllInv
<1> DEFINE todo == IF IsHead(Query(s), Msg(s).task) THEN Header(Query(s))
                   ELSE IF IsLink(Query(s), Msg(s).task) THEN {"collect"} ELSE {}
           step == IF todo = {} THEN "store" ELSE "publish"
<1>2. PICK u \in Outcome(Msg(s)) : slot' = [slot EXCEPT ![s].step = step, ![s].todo = todo, ![s].text = u]
  BY DEF Succeed
<1>3. slot[s] \in Slot /\ At(s, "run")
  BY <1>1, BusyType DEF Succeed, At
<1>4. step \in {"store", "publish"}
  OBVIOUS
<1> HIDE DEF todo, step
<1>5. PICK w : Becomes(s, w) /\ w.step = step /\ w.text = u
  <2> WITNESS [slot[s] EXCEPT !.step = step, !.todo = todo, !.text = u]
  <2> QED
    BY <1>1, <1>2, <1>3 DEF Becomes, Slot, Msg, TypeInv, TypeOK
<1>6. \A v : WorkerCarries(w, v) => v = u
  BY <1>4, <1>5 DEF WorkerCarries
<1>7. queue' = queue /\ parts' = parts /\ payload' = payload
  BY DEF Succeed
<1>8. CASE Req(s) = r /\ Msg(s).task = "ocr"
  <2>1. \A v : ~Carries(r, v)
    BY <1>3, <1>8, NothingYet DEF IsHead, Query
  <2>2. ASSUME NEW v, Carries(r, v)' PROVE v = u
    <3>1. PICK x \in Slots : WorkerCarries(slot'[x], v) /\ slot'[x].msg.req = r
      BY <1>7, <2>1, <2>2 DEF Carries, MessageCarries, WorkerCarries, Req, Msg
    <3>2. slot'[s] = w /\ (x # s => slot'[x] = slot[x])
      BY <1>1, <1>5, OneSlot DEF Becomes
    <3>3. x # s => WorkerCarries(slot[x], v) /\ Req(x) = r
      BY <3>1, <3>2 DEF Req, Msg
    <3>4. x = s
      BY <2>1, <3>3, CarriedBy
    <3> QED
      BY <1>6, <3>1, <3>2, <3>4
  <2> QED
    BY <2>2
<1>9. CASE Req(s) # r \/ Msg(s).task # "ocr"
  <2>1. Req(s) = r => WorkerCarries(slot[s], u)
    BY <1>3, <1>9 DEF WorkerCarries, MessageCarries, Outcome, Succeed, At, Msg
  <2>2. Req(s) = r => \A v : WorkerCarries(w, v) => Carries(r, v)
    BY <1>6, <2>1, CarriedBy
  <2> QED
    BY <1>1, <1>5, <1>7, <2>2, WorkerCarried, CarriedBy
<1> QED
  BY <1>8, <1>9

LEMMA PublishNextCarried ==
  ASSUME TypeInv, NEW s \in Slots, PublishNext(s), NEW r \in Requests
  PROVE  CarriedKept(r)
<1>1. slot[s] \in Slot /\ slot[s].step = "publish"
  BY BusyType DEF PublishNext, At
<1>2. PICK t \in slot[s].todo :
        /\ queue' = BagAdd(queue,
             IF t = "collect"
             THEN CollectMessage(Req(s), {[agent |-> AgentOf(Msg(s).task), text |-> slot[s].text]})
             ELSE TaskMessage(Req(s), t, slot[s].text))
        /\ slot' = [slot EXCEPT ![s].todo = @ \ {t},
                                ![s].step = IF slot[s].todo = {t} THEN "ack" ELSE @]
  BY DEF PublishNext
<1>3. PICK m : /\ queue' = BagAdd(queue, m) /\ m.req = Req(s)
               /\ \A v : MessageCarries(m, v) => v = slot[s].text
  <2>1. CASE t = "collect"
    BY <1>2, <2>1 DEF CollectMessage, MessageCarries
  <2>2. CASE t # "collect"
    BY <1>2, <2>2 DEF TaskMessage, MessageCarries
  <2> QED
    BY <2>1, <2>2
<1>4. PICK w : Becomes(s, w) /\ w.step \in {"publish", "ack"} /\ w.text = slot[s].text
  <2> DEFINE step == IF slot[s].todo = {t} THEN "ack" ELSE "publish"
  <2>1. step \in {"publish", "ack"}
    OBVIOUS
  <2>2. slot' = [slot EXCEPT ![s].todo = @ \ {t}, ![s].step = step]
    BY <1>1, <1>2 DEF TypeInv, TypeOK
  <2> HIDE DEF step
  <2> WITNESS [slot[s] EXCEPT !.todo = @ \ {t}, !.step = step]
  <2> QED
    BY <1>1, <2>1, <2>2 DEF Becomes, Slot, Msg, TypeInv, TypeOK
<1>5. Req(s) = r => Carries(r, slot[s].text)
  BY <1>1, CarriedBy DEF WorkerCarries
<1>6. \A v : WorkerCarries(w, v) => v = slot[s].text
  BY <1>4 DEF WorkerCarries
<1>7. \A n \in DOMAIN queue' : n \in DOMAIN queue \/ n = m
  BY <1>3, AddsOne
<1>8. parts' = parts /\ payload' = payload
  BY DEF PublishNext
<1>9. \A n \in DOMAIN queue' : n \in DOMAIN queue \/
        (n.req = r => \A v : MessageCarries(n, v) => Carries(r, v))
  BY <1>3, <1>5, <1>7
<1>10. Req(s) = r => \A v : WorkerCarries(w, v) => Carries(r, v)
  BY <1>5, <1>6
<1> QED
  BY <1>4, <1>8, <1>9, <1>10, WorkerCarried, CarriedBy

LEMMA DeliverCarried ==
  ASSUME TypeInv, NEW s \in Slots, Deliver(s), NEW r \in Requests
  PROVE  CarriedKept(r)
<1>1. PICK m, w :
        m \in DOMAIN queue /\ queue' = BagRemove(queue, m) /\ slot' = [slot EXCEPT ![s] = w] /\ w.msg = m /\ w.step = "run"
  BY DeliverSlot
<1>2. \A n \in DOMAIN queue' : n \in DOMAIN queue
  BY <1>1, BagRemoveType DEF TypeInv, TypeOK
<1>3. \A v : WorkerCarries(w, v) => MessageCarries(m, v)
  BY <1>1 DEF WorkerCarries
<1>4. \A x \in Slots : slot'[x] = slot[x] \/
        (slot'[x].msg.req = r => \A v : WorkerCarries(slot'[x], v) => Carries(r, v))
  BY <1>1, <1>3, OneSlot, CarriedBy
<1>5. parts' = parts /\ payload' = payload
  BY DEF Deliver
<1> QED
  BY <1>2, <1>4, <1>5, NothingCarried, CarriedBy

LEMMA CollectCarried ==
  ASSUME TypeInv, NEW s \in Slots, Collect(s), NEW r \in Requests
  PROVE  CarriedKept(r)
<1>1. Req(s) \in Requests /\ ~At(s, "idle") /\ slot[s].step = "run" /\ Msg(s).task = "collect"
  BY BusyType DEF Collect, At
<1>2. PICK p \in Merges(Msg(s).items) :
        payload' = [payload EXCEPT ![Req(s)] = IF state[Req(s)] = "SUCCESS" THEN @ ELSE p]
  BY DEF Collect
<1>3. ASSUME NEW i \in p, Req(s) = r PROVE Carries(r, i.text)
  <2>1. i \in Msg(s).items
    BY <1>2, <1>3 DEF Merges
  <2>2. WorkerCarries(slot[s], i.text)
    BY <1>1, <2>1 DEF WorkerCarries, MessageCarries, Msg
  <2> QED
    BY <1>3, <2>2, CarriedBy
<1>4. payload'[r] = payload[r] \/ (Req(s) = r /\ payload'[r] = p)
  BY <1>1, <1>2 DEF TypeInv, TypeOK
<1>5. \A i \in payload'[r] : Carries(r, i.text)
  BY <1>3, <1>4, CarriedBy
<1>6. slot' = [slot EXCEPT ![s].step = "ack"]
  BY DEF Collect
<1>7. PICK w : Becomes(s, w) /\ w.step = "ack" /\ w.ok = slot[s].ok
  BY <1>1, <1>6, StepSlot
<1>8. \A v : ~WorkerCarries(w, v)
  BY <1>7 DEF WorkerCarries
<1>9. parts' = parts /\ queue' = queue
  BY DEF Collect
<1> QED
  BY <1>5, <1>7, <1>8, <1>9, WorkerCarried

LEMMA AddPartCarried ==
  ASSUME TypeInv, NEW s \in Slots, AddPart(s), NEW r \in Requests
  PROVE  CarriedKept(r)
<1> DEFINE part == [task |-> Msg(s).task, ok |-> slot[s].ok, text |-> slot[s].text]
<1>1. Req(s) \in Requests /\ ~At(s, "idle") /\ slot[s].step = "store"
  BY BusyType DEF AddPart, At
<1>2. parts' = [parts EXCEPT ![Req(s)] = @ \cup {part}]
  BY DEF AddPart
<1>3. part.ok /\ Req(s) = r => Carries(r, part.text)
  BY <1>1, CarriedBy DEF WorkerCarries
<1> HIDE DEF part
<1>4. \A p \in parts'[r] : p \in parts[r] \/ (p = part /\ Req(s) = r)
  BY <1>1, <1>2 DEF TypeInv, TypeOK
<1>5. \A p \in parts'[r] : p \in parts[r] \/ (p.ok => Carries(r, p.text))
  BY <1>3, <1>4
<1>6. PICK step \in {"fire", "ack"} : slot' = [slot EXCEPT ![s].step = step]
  BY DEF AddPart
<1>7. PICK w : Becomes(s, w) /\ w.step = step /\ w.ok = slot[s].ok
  BY <1>1, <1>6, StepSlot
<1>8. \A v : ~WorkerCarries(w, v)
  BY <1>7 DEF WorkerCarries
<1>9. payload' = payload /\ queue' = queue
  BY DEF AddPart
<1> QED
  BY <1>5, <1>7, <1>8, <1>9, WorkerCarried, CarriedBy

LEMMA FireBodyCarried ==
  ASSUME TypeInv, NEW s \in Slots, FireBody(s), NEW r \in Requests
  PROVE  CarriedKept(r)
<1> DEFINE m == CollectMessage(Req(s), ItemsOf(parts[Req(s)]))
<1>1. ASSUME NEW n \in DOMAIN queue', n \notin DOMAIN queue, n.req = r, NEW v, MessageCarries(n, v)
      PROVE  Carries(r, v)
  <2>1. queue' = BagAdd(queue, m) /\ \A p \in parts[Req(s)] : p.ok
    BY <1>1 DEF FireBody
  <2>2. n = m
    BY <1>1, <2>1, AddsOne
  <2>3. Req(s) = r /\ \E p \in parts[r] : p.text = v
    BY <1>1, <2>2 DEF MessageCarries, CollectMessage, ItemsOf
  <2> QED
    BY <2>1, <2>3, CarriedBy
<1>2. ~At(s, "idle")
  BY DEF FireBody, At
<1>3. PICK step \in {"clear", "ack"} : slot' = [slot EXCEPT ![s].step = step]
  BY DEF FireBody
<1>4. PICK w : Becomes(s, w) /\ w.step = step /\ w.ok = slot[s].ok
  BY <1>2, <1>3, StepSlot
<1>5. \A v : ~WorkerCarries(w, v)
  BY <1>4 DEF WorkerCarries
<1>6. payload' = payload /\ parts' = parts
  BY DEF FireBody
<1> QED
  BY <1>1, <1>4, <1>5, <1>6, WorkerCarried, CarriedBy

LEMMA RetryCarried ==
  ASSUME TypeInv, NEW s \in Slots, Retry(s), NEW r \in Requests
  PROVE  CarriedKept(r)
<1>1. PICK m, w : /\ queue' = BagAdd(queue, m) /\ m.task = Msg(s).task
                  /\ Becomes(s, w) /\ w.step = "ack"
  BY RetrySlot
<1>2. \A v : ~WorkerCarries(w, v) /\ ~MessageCarries(m, v)
  BY <1>1 DEF Retry, WorkerCarries, MessageCarries
<1>3. \A n \in DOMAIN queue' : n \in DOMAIN queue \/ n = m
  BY <1>1, AddsOne
<1>4. payload' = payload /\ parts' = parts
  BY DEF Retry
<1> QED
  BY <1>1, <1>2, <1>3, <1>4, WorkerCarried, CarriedBy

\* A step that ends an attempt or clears what was counted.
LEMMA EndCarried ==
  ASSUME TypeInv, NEW s \in Slots, Fail(s) \/ StoreFailure(s) \/ ClearChord(s) \/ Ack(s), NEW r \in Requests
  PROVE  CarriedKept(r)
<1>1. queue' = queue /\ payload' = payload /\ parts'[r] \subseteq parts[r]
  BY DEF Fail, StoreFailure, ClearChord, Ack, TypeInv, TypeOK
<1>2. slot[s] \in Slot
  BY DEF TypeInv, TypeOK
<1>3. \/ slot'[s].step \in {"ack", "idle"}
      \/ slot'[s].step = "store" /\ ~slot'[s].ok
  BY <1>2 DEF Fail, StoreFailure, ClearChord, Ack, Idle, Slot, TypeInv, TypeOK
<1>4. \A v : ~WorkerCarries(slot'[s], v)
  BY <1>3 DEF WorkerCarries
<1>5. \A x \in Slots : x # s => slot'[x] = slot[x]
  BY DEF Fail, StoreFailure, ClearChord, Ack, TypeInv, TypeOK
<1> QED
  BY <1>1, <1>4, <1>5, NothingCarried, CarriedBy

LEMMA SubmitCarried ==
  ASSUME TypeInv, Sound, NEW u \in Requests, Submit(u) \/ BrokerDown(u),
         NEW r \in Requests, HasHead(request[r])
  PROVE  CarriedKept(r)
<1>1. slot' = slot /\ payload' = payload /\ parts' = parts
  BY DEF Submit, Publish, Accept, BrokerDown
<1>2. CASE Accept(u) \/ BrokerDown(u)
  BY <1>1, <1>2, NothingCarried, CarriedBy DEF Accept, BrokerDown
<1>3. ASSUME NEW t \in Task, Publish(u, t) PROVE CarriedKept(r)
  <2>1. t \in FirstTasks(request[u]) /\ queue' = BagAdd(queue, TaskMessage(u, t, None))
    BY <1>3 DEF Publish, Sound
  <2>2. u = r => t = "ocr"
    BY <2>1 DEF FirstTasks
  <2>3. \A n \in DOMAIN queue' : n \in DOMAIN queue \/ n = TaskMessage(u, t, None)
    BY <2>1, AddsOne
  <2>4. u = r => \A v : ~MessageCarries(TaskMessage(u, t, None), v)
    BY <2>2 DEF MessageCarries, TaskMessage
  <2>5. TaskMessage(u, t, None).req = u
    BY DEF TaskMessage
  <2>6. \A n \in DOMAIN queue' : n \in DOMAIN queue \/
          (n.req = r => \A v : MessageCarries(n, v) => Carries(r, v))
    BY <2>3, <2>4, <2>5
  <2> QED
    BY <1>1, <2>6, NothingCarried, CarriedBy
<1> QED
  BY <1>2, <1>3 DEF Submit

LEMMA CarriedStep ==
  ASSUME AllInv, OneRun, [Next]_vars, MaxCrashes = 0, NEW r \in Requests, HasHead(request[r])
  PROVE  CarriedKept(r) \/ \E u : \A v : Carries(r, v)' => v = u
<1>1. TypeInv /\ Sound
  BY DEF AllInv
<1>2. ASSUME NEW u \in Requests, Submit(u) \/ BrokerDown(u) PROVE CarriedKept(r)
  BY <1>1, <1>2, SubmitCarried
<1>3. ASSUME NEW s \in Slots, Work(s)
      PROVE  CarriedKept(r) \/ \E u : \A v : Carries(r, v)' => v = u
  BY <1>1, <1>3, DeliverCarried, SucceedCarried, RetryCarried, CollectCarried, PublishNextCarried,
     AddPartCarried, FireBodyCarried, EndCarried DEF Work, Finish
<1>4. \A s \in Slots : ~Crash(s)
  BY <1>1, BoundsAssumption DEF Crash, TypeInv, TypeOK
<1>5. UNCHANGED vars => CarriedKept(r)
  BY NothingCarried, CarriedBy DEF vars
<1> QED
  BY <1>2, <1>3, <1>4, <1>5 DEF Next

LEMMA OneRunStep ==
  ASSUME MaxCrashes = 0
  PROVE  AllInv /\ OneRun /\ [Next]_vars => OneRun'
<1> SUFFICES ASSUME AllInv, OneRun, [Next]_vars, NEW r \in Requests
             PROVE  /\ payload'[r] # {} => Ready(r)'
                    /\ HasHead(request'[r]) =>
                         \A v, w \in Text : Carries(r, v)' /\ Carries(r, w)' => v = w
  BY DEF OneRun, Text
<1>1. request' = request
  BY RequestFixed
<1>2. payload'[r] # {} => Ready(r)'
  <2>1. CASE Ready(r)
    BY <2>1, ReadyKept DEF Ready
  <2>2. CASE ~Ready(r)
    <3>1. payload[r] = {}
      BY <2>2 DEF OneRun
    <3>2. ASSUME NEW s \in Slots, Collect(s) PROVE payload'[r] = payload[r] \/ Ready(r)'
      BY <3>2, BusyType DEF Collect, Stored, Ready, At, AllInv, TypeInv, TypeOK
    <3>3. ASSUME ~\E s \in Slots : Collect(s) PROVE payload' = payload
      BY <3>3 DEF Next, Submit, Publish, Accept, BrokerDown, Work, Finish, Deliver, Succeed, Fail,
         Retry, PublishNext, StoreFailure, AddPart, FireBody, ClearChord, Ack, Crash, vars
    <3> QED
      BY <3>1, <3>2, <3>3
  <2> QED
    BY <2>1, <2>2
<1>3. HasHead(request'[r]) => \A v, w \in Text : Carries(r, v)' /\ Carries(r, w)' => v = w
  BY <1>1, CarriedStep DEF OneRun, CarriedKept
<1> QED
  BY <1>2, <1>3

LEMMA OneRunInit == Init => OneRun
<1> SUFFICES ASSUME Init PROVE OneRun
  OBVIOUS
<1>1. DOMAIN queue = {} /\ \A s \in Slots : slot[s].step = "idle"
  BY EmptyBagType DEF Init, Idle
<1>2. \A r \in Requests, v \in Text : ~Carries(r, v)
  BY <1>1 DEF Carries, WorkerCarries, Init
<1> QED
  BY <1>2 DEF OneRun, Init

LEMMA OneRunInvariant ==
  ASSUME MaxCrashes = 0
  PROVE  Spec => []OneRun
BY OneRunInit, OneRunStep, AllInvariant, PTL DEF Spec

\* While no worker dies, the results that collect merges for a pipeline all
\* rest on the text that one run of its OCR task returned, however often that
\* task is retried and whatever OCR would have read the next time.
THEOREM ConsistentWithoutCrashes ==
  ASSUME MaxCrashes = 0
  PROVE  Spec => []PayloadConsistent
<1>1. AllInv /\ OneRun => PayloadConsistent
  <2> SUFFICES ASSUME AllInv, OneRun, NEW r \in Requests, NEW i \in payload[r]
               PROVE  /\ i.agent \in request[r].agents
                      /\ IF HasHead(request[r])
                         THEN i.text # None /\ \A j \in payload[r] : j.text = i.text
                         ELSE i.text # None <=> i.agent = "ocr"
    BY DEF PayloadConsistent
  <2>1. ItemSound(request[r], i)
    BY DEF AllInv, Sound
  <2>2. ASSUME HasHead(request[r]), NEW j \in payload[r] PROVE j.text = i.text
    <3>1. i.text \in Text /\ j.text \in Text
      BY DEF AllInv, TypeInv, TypeOK, Item
    <3> QED
      BY <2>2, <3>1, CarriedBy DEF OneRun
  <2> QED
    BY <2>1, <2>2, TextsAssumption DEF ItemSound
<1> QED
  BY <1>1, AllInvariant, OneRunInvariant, PTL

\* However many documents share however many processes, retry and fail: each
\* task of a document is in one place and runs to one end, and a document is
\* answered once, when all of its results are in.
THEOREM CalmInvariant ==
  ASSUME MaxCrashes = 0
  PROVE  Spec => []CalmInv
<1>1. AllInv /\ OneRun => CalmInv
  BY DEF AllInv, CalmInv
<1> QED
  BY <1>1, AllInvariant, OneRunInvariant, PTL

\* What a client has read of a finished document stays true.
THEOREM AnswerStays ==
  ASSUME MaxCrashes = 0
  PROVE  Spec => ReadyIsFinal
<1>1. AllInv /\ [Next]_vars =>
        [\A r \in Requests : Ready(r) => state'[r] = state[r] /\ payload'[r] = payload[r]]_vars
  BY ReadyKept
<1> QED
  BY <1>1, AllInvariant, PTL DEF Spec, ReadyIsFinal

LEMMA Answers ==
  ASSUME NEW st \in {"PENDING", "STARTED", "SUCCESS", "FAILURE"}
  PROVE  AnswerOf(st) = IF st = "SUCCESS" THEN "success" ELSE IF st = "FAILURE" THEN "failure" ELSE "none"
BY DEF AnswerOf

\* A worker's step concerns one document, and stores a result for it or none.
LEMMA WorkConcerns ==
  ASSUME TypeInv, NEW s \in Slots, Work(s)
  PROVE  \E r \in Requests :
           /\ \A u \in Requests : u # r => state'[u] = state[u] /\ payload'[u] = payload[u]
           /\ state'[r] # "SUCCESS" => payload'[r] = payload[r]
<1>1. CASE Deliver(s)
  <2>1. PICK m \in DOMAIN queue : state' = IF m.task = "collect" THEN Stored(m.req, "STARTED") ELSE state
    BY <1>1, DeliverSlot
  <2>2. m.req \in Requests
    BY DEF TypeInv, TypeOK, Message
  <2> WITNESS m.req \in Requests
  <2> QED
    BY <1>1, <2>1, <2>2 DEF Deliver, Stored, TypeInv, TypeOK
<1>2. CASE ~Deliver(s)
  <2>1. Req(s) \in Requests
    BY <1>2, BusyType DEF Work, Finish, Succeed, Fail, Retry, Collect, PublishNext, StoreFailure,
       AddPart, FireBody, ClearChord, Ack, At
  <2> WITNESS Req(s) \in Requests
  <2>2. CASE Collect(s)
    BY <2>1, <2>2 DEF Collect, Stored, TypeInv, TypeOK
  <2>3. CASE StoreFailure(s) \/ FireBody(s)
    BY <2>1, <2>3 DEF StoreFailure, FireBody, Stored, TypeInv, TypeOK
  <2>4. CASE Succeed(s) \/ Fail(s) \/ Retry(s) \/ PublishNext(s) \/ AddPart(s) \/ ClearChord(s) \/ Ack(s)
    BY <2>4 DEF Succeed, Fail, Retry, PublishNext, AddPart, ClearChord, Ack
  <2> QED
    BY <1>2, <2>2, <2>3, <2>4 DEF Work, Finish
<1> QED
  BY <1>1, <1>2

LEMMA ContractInit == Init => Promise!Init
<1> SUFFICES ASSUME Init PROVE Promise!Init
  OBVIOUS
<1>1. \A r \in Requests : request[r].agents \in (SUBSET AgentName) \ {{}}
  BY DEF Init, DocumentRequest
<1>2. \A r \in Requests : AnswerOf(state[r]) = "none" /\ Agents(payload[r]) = {}
  BY Answers DEF Init, Agents
<1> QED
  BY <1>1, <1>2 DEF Promise!Init, Init

\* The step that ends a document answers it.
LEMMA ContractAnswer ==
  ASSUME AllInv, AllInv', [Next]_vars, MaxCrashes = 0, reply' = reply, NEW r \in Requests,
         \A u \in Requests : u # r => state'[u] = state[u] /\ payload'[u] = payload[u],
         state'[r] # "SUCCESS" => payload'[r] = payload[r],
         ~Ready(r), Ready(r)'
  PROVE  Promise!Answer(r)
<1>1. request' = request
  BY RequestFixed
<1>2. /\ state[r] \in {"PENDING", "STARTED"} /\ state'[r] \in {"SUCCESS", "FAILURE"}
      /\ \A u \in Requests : state[u] \in {"PENDING", "STARTED", "SUCCESS", "FAILURE"}
      /\ \A u \in Requests : state'[u] \in {"PENDING", "STARTED", "SUCCESS", "FAILURE"}
  BY DEF AllInv, TypeInv, TypeOK, Ready
<1>3. reply[r] # "unavailable"
  <2>1. Place("answer", r) \in Ends(r)'
    BY EndsRule DEF EndRule
  <2>2. unsent'[r] = {}
    BY <2>1 DEF AllInv, EndInv, OneEnd, Counted
  <2> QED
    BY <2>2 DEF AllInv, EndInv, Replied
<1>4. AnswerOf(state[r]) = "none"
  BY <1>2, Answers
<1>5. \A u \in Requests : u # r => /\ AnswerOf(state[u])' = AnswerOf(state[u])
                                   /\ Agents(payload[u])' = Agents(payload[u])
  OBVIOUS
<1>6. CASE state'[r] = "SUCCESS"
  <2>1. AnswerOf(state[r])' = "success"
    BY <1>2, <1>6, Answers
  <2>2. Agents(payload[r])' = request[r].agents
    BY <1>1, <1>6 DEF AllInv, OnceInv, PayloadComplete
  <2> QED
    BY <1>1, <1>3, <1>4, <1>5, <2>1, <2>2 DEF Promise!Answer, Promise!Succeed
<1>7. CASE state'[r] = "FAILURE"
  <2>1. AnswerOf(state[r])' = "failure"
    BY <1>2, <1>7, Answers
  <2>2. Agents(payload[r])' = Agents(payload[r])
    BY <1>7
  <2> QED
    BY <1>1, <1>3, <1>4, <1>5, <2>1, <2>2 DEF Promise!Answer, Promise!Fail
<1> QED
  BY <1>2, <1>6, <1>7

\* No other step is seen.
LEMMA ContractHidden ==
  ASSUME TypeInv, TypeInv', [Next]_vars, reply' = reply,
         \A u \in Requests : /\ Ready(u) => state'[u] = state[u]
                             /\ Ready(u)' => Ready(u)
                             /\ payload'[u] = payload[u]
  PROVE  UNCHANGED Promise!contractVars
<1>1. request' = request
  BY RequestFixed
<1>2. ASSUME NEW u \in Requests PROVE AnswerOf(state[u])' = AnswerOf(state[u])
  <2>1. /\ state[u] \in {"PENDING", "STARTED", "SUCCESS", "FAILURE"}
        /\ state'[u] \in {"PENDING", "STARTED", "SUCCESS", "FAILURE"}
    BY DEF TypeInv, TypeOK
  <2>2. /\ AnswerOf(state[u]) = IF state[u] = "SUCCESS" THEN "success"
                                ELSE IF state[u] = "FAILURE" THEN "failure" ELSE "none"
        /\ AnswerOf(state[u])' = IF state'[u] = "SUCCESS" THEN "success"
                                 ELSE IF state'[u] = "FAILURE" THEN "failure" ELSE "none"
    BY <2>1, Answers
  <2> QED
    BY <2>2 DEF Ready
<1>3. ASSUME NEW u \in Requests PROVE Agents(payload[u])' = Agents(payload[u])
  OBVIOUS
<1> QED
  BY <1>1, <1>2, <1>3 DEF Promise!contractVars

LEMMA ContractStep ==
  ASSUME AllInv, AllInv', [Next]_vars, MaxCrashes = 0
  PROVE  [Promise!Next]_(Promise!contractVars)
<1>1. TypeInv /\ TypeInv' /\ request' = request
  BY RequestFixed DEF AllInv
<1>2. ASSUME reply' = reply, NEW r \in Requests,
             \A u \in Requests : u # r => state'[u] = state[u] /\ payload'[u] = payload[u],
             state'[r] # "SUCCESS" => payload'[r] = payload[r]
      PROVE  [Promise!Next]_(Promise!contractVars)
  <2>1. CASE ~Ready(r) /\ Ready(r)'
    BY <1>2, <2>1, ContractAnswer DEF Promise!Next
  <2>2. CASE Ready(r) \/ ~Ready(r)'
    <3>1. \A u \in Requests : /\ Ready(u) => state'[u] = state[u]
                              /\ Ready(u)' => Ready(u)
                              /\ payload'[u] = payload[u]
      BY <1>2, <2>2, ReadyKept DEF Ready
    <3> QED
      BY <1>1, <1>2, <3>1, ContractHidden
  <2> QED
    BY <2>1, <2>2
<1>3. ASSUME NEW s \in Slots, Work(s) PROVE [Promise!Next]_(Promise!contractVars)
  <2>1. PICK r \in Requests :
          /\ \A u \in Requests : u # r => state'[u] = state[u] /\ payload'[u] = payload[u]
          /\ state'[r] # "SUCCESS" => payload'[r] = payload[r]
    BY <1>1, <1>3, WorkConcerns
  <2>2. reply' = reply
    BY <1>3 DEF Work, Finish, Deliver, Succeed, Fail, Retry, Collect, PublishNext, StoreFailure,
       AddPart, FireBody, ClearChord, Ack
  <2> QED
    BY <1>2, <2>1, <2>2
<1>4. ASSUME NEW r \in Requests, Accept(r) PROVE Promise!Accept(r)
  BY <1>1, <1>4 DEF Accept, Promise!Accept, Agents
<1>5. ASSUME NEW r \in Requests, BrokerDown(r) PROVE Promise!Refuse(r)
  <2>1. ~Ready(r)
    BY <1>5, OnlyAnswer DEF BrokerDown, Counted
  <2>2. AnswerOf(state[r]) = "none"
    BY <1>1, <2>1, Answers DEF Ready, TypeInv, TypeOK
  <2> QED
    BY <1>1, <1>5, <2>2 DEF BrokerDown, Promise!Refuse
<1>6. ASSUME NEW r \in Requests, NEW t \in Task, Publish(r, t)
      PROVE  [Promise!Next]_(Promise!contractVars)
  BY <1>2, <1>6 DEF Publish
<1>7. CASE UNCHANGED vars
  <2>1. reply' = reply /\ state' = state /\ payload' = payload
    BY <1>7 DEF vars
  <2> QED
    BY <1>1, <2>1, ContractHidden DEF Ready
<1>8. \A s \in Slots : ~Crash(s)
  BY <1>1, BoundsAssumption DEF Crash, TypeInv, TypeOK
<1> QED
  BY <1>3, <1>4, <1>5, <1>6, <1>7, <1>8 DEF Next, Submit, Promise!Next

\* While no worker dies, the caller sees what the contract allows: every
\* step of the API, of a worker and of the chord is one of the contract's
\* steps or changes nothing the caller can see.
THEOREM ContractKept ==
  ASSUME MaxCrashes = 0
  PROVE  Spec => KeepsContract
BY ContractInit, ContractStep, AllInvariant, PTL DEF Spec, KeepsContract, Promise!Safe
=============================================================================

