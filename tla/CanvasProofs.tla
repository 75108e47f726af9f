---------------------------- MODULE CanvasProofs ----------------------------
(***************************************************************************)
(* Theorems about Canvas, for lists of any length with any repetitions.    *)
(* The loop over the list is a step per element, so what holds of all of   *)
(* it follows from an invariant on the part looked at.                     *)
(***************************************************************************)
EXTENDS Canvas, FiniteSetTheorems, TLAPS

-----------------------------------------------------------------------------
(* The inductive invariant.                                                *)

\* The agents kept are those of the part of the list looked at, once each.
KeepInv ==
  /\ asked \in AgentLists /\ pipeline \in BOOLEAN /\ looked \in 0..Len(asked)
  /\ agents \in Seq(AgentName) /\ postOcr \in Seq(PostOcrTasks)
  /\ Range(agents) = {asked[i] : i \in 1..looked}
  /\ Range(postOcr) = Range(agents) \cap PostOcrTasks
  /\ IsInjective(postOcr)

\* The arguments a task of the header is given for a request q.
ArgsFor(q, t) ==
  CASE t = "ocr"         -> <<"payload">>
    [] t = "passthrough" -> <<>>
    [] OTHER             -> IF HasHead(q) THEN <<"payload">> ELSE <<"none", "payload">>

Tasks(header) == {header[i].task : i \in DOMAIN header}

SignatureType == [task : HeaderTask, args : {<<>>, <<"payload">>, <<"none", "payload">>}]

Shape(c, q) ==
  /\ c.head = IF HasHead(q) THEN Extract ELSE <<>>
  /\ c.header \in Seq(SignatureType) /\ c.header # <<>>
  /\ \A i, j \in DOMAIN c.header : c.header[i].task = c.header[j].task => i = j
  /\ Tasks(c.header) = Header(q)
  /\ \A i \in DOMAIN c.header : c.header[i].args = ArgsFor(q, c.header[i].task)

BuildInv == ~Built \/ Shape(canvas, Request)

\* What the result of an agent is made from.
Basis(a) == IF a = "ocr" \/ HasHead(Request) THEN "ocr" ELSE "none"

Argument == {"payload", "none", "ocr"}

\* A task was called if it is the head, or its position has a result.
CalledTasks ==
  (IF HasHead(Request) /\ calls # <<>> THEN {"ocr"} ELSE {})
    \cup {canvas.header[i].task : i \in DOMAIN results}

CallsInv ==
  /\ calls \in Seq([task : HeaderTask, args : Seq(Argument)])
  /\ \A i \in DOMAIN calls : Accepts(calls[i].task, calls[i].args)
  /\ \A i, j \in DOMAIN calls : calls[i].task = calls[j].task => i = j
  /\ Tasks(calls) = CalledTasks
  /\ DOMAIN results \subseteq Positions
  /\ calls # <<>> => Built
  /\ DOMAIN results # {} => HeadDone

ResultsInv ==
  \A i \in DOMAIN results :
    LET a == AgentOf(canvas.header[i].task) IN results[i] = Result(a, Basis(a))

\* What collect looked at is merged under the agent it came from.
MergeInv ==
  /\ left \subseteq Positions
  /\ left # Positions => DOMAIN results = Positions
  /\ merged = [a \in AgentName |->
                 IF \E i \in Positions \ left : AgentOf(canvas.header[i].task) = a
                 THEN Result(a, Basis(a)) ELSE NoResult]

IInv == KeepInv /\ BuildInv /\ CallsInv /\ ResultsInv /\ MergeInv

-----------------------------------------------------------------------------
(* Lists.                                                                  *)

LEMMA AskedType ==
  ASSUME NEW list \in AgentLists
  PROVE  list \in Seq(AgentName) /\ list # <<>>
<1>1. PICK n \in 1..MaxAgents : list \in [1..n -> AgentName]
  BY DEF AgentLists
<1>2. n \in Nat /\ 1 \in 1..n
  BY <1>1, MaxAgentsAssumption
<1>3. list \in Seq(AgentName)
  BY <1>1, <1>2
<1> QED
  BY <1>1, <1>2, <1>3

LEMMA ElementType == ASSUME NEW S, NEW s \in Seq(S), NEW i \in DOMAIN s PROVE s[i] \in S
OBVIOUS

LEMMA RangeType ==
  ASSUME NEW S, NEW s \in Seq(S), s # <<>>
  PROVE  Range(s) \subseteq S /\ Range(s) # {}
<1>1. 1 \in DOMAIN s /\ \A i \in DOMAIN s : s[i] \in S
  OBVIOUS
<1> QED
  BY <1>1 DEF Range

LEMMA Appended ==
  ASSUME NEW S, NEW s \in Seq(S), NEW x \in S
  PROVE  /\ Append(s, x) \in Seq(S) /\ Append(s, x) # <<>>
         /\ DOMAIN Append(s, x) = DOMAIN s \cup {Len(s) + 1}
         /\ Len(s) + 1 \notin DOMAIN s
         /\ \A i \in DOMAIN s : Append(s, x)[i] = s[i]
         /\ Append(s, x)[Len(s) + 1] = x
OBVIOUS

\* A list with an element in front.
LEMMA Preceded ==
  ASSUME NEW S, NEW s \in Seq(S), NEW x \in S
  PROVE  /\ <<x>> \o s \in Seq(S) /\ <<x>> \o s # <<>>
         /\ DOMAIN (<<x>> \o s) = {1} \cup {i + 1 : i \in DOMAIN s}
         /\ (<<x>> \o s)[1] = x
         /\ \A i \in DOMAIN s : i \in Nat /\ i >= 1 /\ (<<x>> \o s)[i + 1] = s[i]
<1>1. <<x>> \in Seq(S) /\ Len(<<x>>) = 1 /\ <<x>>[1] = x
  OBVIOUS
<1>2. <<x>> \o s \in Seq(S) /\ Len(<<x>> \o s) = Len(s) + 1
  BY <1>1
<1>3. DOMAIN (<<x>> \o s) = 1..(Len(s) + 1)
  BY <1>2
<1>4. 1..(Len(s) + 1) = {1} \cup {i + 1 : i \in 1..Len(s)}
  <2>1. ASSUME NEW j \in 1..(Len(s) + 1) PROVE j \in {1} \cup {i + 1 : i \in 1..Len(s)}
    <3>1. j = 1 \/ (j - 1 \in 1..Len(s) /\ j = (j - 1) + 1)
      OBVIOUS
    <3> QED
      BY <3>1
  <2> QED
    BY <2>1
<1>5. \A i \in 1..Len(s) : (<<x>> \o s)[i + 1] = s[i]
  BY <1>1
<1>6. (<<x>> \o s)[1] = x
  BY <1>1
<1> QED
  BY <1>2, <1>3, <1>4, <1>5, <1>6

-----------------------------------------------------------------------------
(* The loop over the caller's list.                                        *)

LEMMA KeepInit == Init => KeepInv
<1> SUFFICES ASSUME Init PROVE KeepInv
  OBVIOUS
<1>1. asked \in Seq(AgentName)
  BY AskedType DEF Init
<1> QED
  BY <1>1 DEF Init, KeepInv, Range, IsInjective

LEMMA KeepLook == KeepInv /\ LookAtAgent => KeepInv'
<1> SUFFICES ASSUME KeepInv, LookAtAgent PROVE KeepInv'
  OBVIOUS
<1> DEFINE a == asked[looked + 1]
<1>1. asked \in Seq(AgentName) /\ asked' = asked /\ pipeline' = pipeline
  BY AskedType DEF KeepInv, LookAtAgent, request
<1>2. looked' \in 0..Len(asked) /\ looked + 1 \in DOMAIN asked /\ a \in AgentName
  BY <1>1 DEF KeepInv, LookAtAgent
<1>3. {asked[i] : i \in 1..looked'} = {asked[i] : i \in 1..looked} \cup {a}
  <2>1. 1..looked' = 1..looked \cup {looked + 1}
    BY <1>1 DEF KeepInv, LookAtAgent
  <2> QED
    BY <2>1
<1> HIDE DEF a
<1>4. CASE a \in Range(agents)
  <2>1. agents' = agents /\ postOcr' = postOcr
    BY <1>4 DEF LookAtAgent, Keep, a
  <2> QED
    BY <1>1, <1>2, <1>3, <1>4, <2>1 DEF KeepInv
<1>5. CASE a \notin Range(agents)
  <2>1. agents' = Append(agents, a) /\ postOcr' = IF a \in PostOcrTasks THEN Append(postOcr, a) ELSE postOcr
    BY <1>5 DEF LookAtAgent, Keep, Add, a
  <2>2. agents' \in Seq(AgentName) /\ Range(agents') = Range(agents) \cup {a}
    BY <1>2, <2>1, Appended DEF KeepInv, Range
  <2>3. CASE a \in PostOcrTasks
    <3>1. postOcr' = Append(postOcr, a) /\ postOcr \in Seq(PostOcrTasks) /\ a \notin Range(postOcr)
      BY <1>5, <2>1, <2>3 DEF KeepInv
    <3>2. /\ postOcr' \in Seq(PostOcrTasks)
          /\ DOMAIN postOcr' = DOMAIN postOcr \cup {Len(postOcr) + 1}
          /\ \A i \in DOMAIN postOcr : postOcr'[i] = postOcr[i]
          /\ postOcr'[Len(postOcr) + 1] = a
      <4>1. \A s \in Seq(PostOcrTasks) :
              /\ Append(s, a) \in Seq(PostOcrTasks) /\ DOMAIN Append(s, a) = DOMAIN s \cup {Len(s) + 1}
              /\ \A i \in DOMAIN s : Append(s, a)[i] = s[i]
              /\ Append(s, a)[Len(s) + 1] = a
        <5> TAKE s \in Seq(PostOcrTasks)
        <5> HIDE DEF PostOcrTasks
        <5> QED
          BY <2>3, Appended
      <4> QED
        BY <3>1, <4>1
    <3>3. Range(postOcr') = Range(postOcr) \cup {a}
      BY <3>2 DEF Range
    <3>4. IsInjective(postOcr')
      BY <3>1, <3>2 DEF KeepInv, Range, IsInjective
    <3>5. Range(postOcr') = Range(agents') \cap PostOcrTasks
      BY <2>2, <2>3, <3>3 DEF KeepInv
    <3>6. Range(agents') = {asked'[i] : i \in 1..looked'}
      BY <1>1, <1>3, <2>2 DEF KeepInv
    <3>7. asked' \in AgentLists /\ pipeline' \in BOOLEAN
      BY <1>1 DEF KeepInv
    <3>8. looked' \in 0..Len(asked')
      BY <1>1, <1>2
    <3> QED
      BY <2>2, <3>7, <3>8, <3>2, <3>4, <3>5, <3>6 DEF KeepInv
  <2>4. CASE a \notin PostOcrTasks
    BY <1>1, <1>2, <1>3, <2>1, <2>2, <2>4 DEF KeepInv
  <2> QED
    BY <2>3, <2>4
<1> QED
  BY <1>4, <1>5

-----------------------------------------------------------------------------
(* What is built of it.                                                    *)

LEMMA SignaturesType ==
  ASSUME NEW tasks \in Seq(PostOcrTasks), NEW args \in {<<"payload">>, <<"none", "payload">>}
  PROVE  /\ SignaturesOf(tasks, args) \in Seq(SignatureType)
         /\ DOMAIN SignaturesOf(tasks, args) = DOMAIN tasks
         /\ \A i \in DOMAIN tasks : SignaturesOf(tasks, args)[i] = Signature(tasks[i], args)
<1>1. \A i \in DOMAIN tasks : Signature(tasks[i], args) \in SignatureType
  BY DEF Signature, SignatureType, PostOcrTasks, HeaderTask, AgentName
<1> QED
  BY <1>1 DEF SignaturesOf

\* The signatures of some agents, and one in front of them.
LEMMA HeadedHeader ==
  ASSUME NEW tasks \in Seq(PostOcrTasks), IsInjective(tasks),
         NEW args \in {<<"payload">>, <<"none", "payload">>},
         NEW x \in SignatureType, x.task \notin PostOcrTasks,
         NEW header, header = <<x>> \o SignaturesOf(tasks, args)
  PROVE  /\ header \in Seq(SignatureType) /\ header # <<>>
         /\ \A i, j \in DOMAIN header : header[i].task = header[j].task => i = j
         /\ Tasks(header) = {x.task} \cup Range(tasks)
         /\ \A i \in DOMAIN header : header[i] = x \/ (header[i].args = args /\ header[i].task \in PostOcrTasks)
<1> DEFINE sigs == SignaturesOf(tasks, args)
<1>1. /\ sigs \in Seq(SignatureType) /\ DOMAIN sigs = DOMAIN tasks
      /\ \A i \in DOMAIN tasks : sigs[i].task = tasks[i] /\ sigs[i].args = args /\ tasks[i] \in PostOcrTasks
  <2>1. \A t : Signature(t, args).task = t /\ Signature(t, args).args = args
    BY DEF Signature
  <2>2. \A i \in DOMAIN tasks : tasks[i] \in PostOcrTasks
    OBVIOUS
  <2>3. /\ sigs \in Seq(SignatureType) /\ DOMAIN sigs = DOMAIN tasks
        /\ \A i \in DOMAIN tasks : sigs[i] = Signature(tasks[i], args)
    BY SignaturesType
  <2> HIDE DEF sigs
  <2> QED
    BY <2>1, <2>2, <2>3
<1> HIDE DEF sigs
<1>2. /\ header \in Seq(SignatureType) /\ header # <<>>
      /\ DOMAIN header = {1} \cup {i + 1 : i \in DOMAIN tasks}
      /\ header[1] = x
      /\ \A i \in DOMAIN tasks : i \in Nat /\ i >= 1 /\ header[i + 1] = sigs[i]
  BY <1>1, Preceded DEF sigs
<1>3. \A i \in DOMAIN header : i = 1 \/ \E k \in DOMAIN tasks : i = k + 1 /\ header[i] = sigs[k]
  BY <1>2
<1>4. \A i, j \in DOMAIN header : header[i].task = header[j].task => i = j
  BY <1>1, <1>2, <1>3 DEF IsInjective
<1>5. Tasks(header) = {x.task} \cup Range(tasks)
  <2>1. \A i \in DOMAIN tasks : i + 1 \in DOMAIN header /\ header[i + 1].task = tasks[i]
    BY <1>1, <1>2
  <2>2. 1 \in DOMAIN header
    BY <1>2
  <2>3. ASSUME NEW t \in Tasks(header) PROVE t \in {x.task} \cup Range(tasks)
    <3>1. PICK i \in DOMAIN header : t = header[i].task
      BY <2>3 DEF Tasks
    <3>2. CASE i = 1
      BY <1>2, <3>1, <3>2
    <3>3. ASSUME NEW k \in DOMAIN tasks, header[i] = sigs[k] PROVE t \in Range(tasks)
      BY <1>1, <3>1, <3>3 DEF Range
    <3> QED
      BY <1>3, <3>2, <3>3
  <2>4. x.task \in Tasks(header)
    BY <1>2, <2>2 DEF Tasks
  <2>5. ASSUME NEW t \in Range(tasks) PROVE t \in Tasks(header)
    BY <2>1 DEF Tasks, Range
  <2> QED
    BY <2>3, <2>4, <2>5
<1>6. \A i \in DOMAIN header : header[i] = x \/ (header[i].args = args /\ header[i].task \in PostOcrTasks)
  BY <1>1, <1>2, <1>3
<1> QED
  BY <1>2, <1>4, <1>5, <1>6

\* The same without one in front.
LEMMA PlainHeader ==
  ASSUME NEW tasks \in Seq(PostOcrTasks), IsInjective(tasks), tasks # <<>>,
         NEW args \in {<<"payload">>, <<"none", "payload">>},
         NEW header, header = <<>> \o SignaturesOf(tasks, args)
  PROVE  /\ header \in Seq(SignatureType) /\ header # <<>>
         /\ \A i, j \in DOMAIN header : header[i].task = header[j].task => i = j
         /\ Tasks(header) = Range(tasks)
         /\ \A i \in DOMAIN header : header[i].args = args /\ header[i].task \in PostOcrTasks
<1> DEFINE sigs == SignaturesOf(tasks, args)
<1>1. /\ sigs \in Seq(SignatureType) /\ DOMAIN sigs = DOMAIN tasks
      /\ \A i \in DOMAIN tasks : sigs[i] = Signature(tasks[i], args)
  BY SignaturesType
<1>2. header = <<>> \o sigs
  OBVIOUS
<1> HIDE DEF sigs
<1>3. header = sigs
  BY <1>1, <1>2
<1>4. \A i \in DOMAIN tasks : sigs[i].task = tasks[i] /\ sigs[i].args = args /\ tasks[i] \in PostOcrTasks
  <2>1. \A t : Signature(t, args).task = t /\ Signature(t, args).args = args
    BY DEF Signature
  <2>2. \A i \in DOMAIN tasks : tasks[i] \in PostOcrTasks
    OBVIOUS
  <2> QED
    BY <1>1, <2>1, <2>2
<1>5. sigs # <<>>
  <2>1. 1 \in DOMAIN tasks
    OBVIOUS
  <2> QED
    BY <1>1, <2>1
<1>6. \A i, j \in DOMAIN header : header[i].task = header[j].task => i = j
  BY <1>1, <1>3, <1>4 DEF IsInjective
<1>7. Tasks(header) = Range(tasks)
  BY <1>1, <1>3, <1>4 DEF Tasks, Range
<1> QED
  BY <1>1, <1>3, <1>4, <1>5, <1>6, <1>7

\* What _build_canvas makes of a list without repetitions has the shape that
\* Dispatch computes from the set.
LEMMA CanvasShape ==
  ASSUME NEW tasks \in Seq(PostOcrTasks), IsInjective(tasks),
         NEW hasOcr \in BOOLEAN, NEW mode \in BOOLEAN, hasOcr \/ tasks # <<>>,
         NEW q, q.pipeline = mode, q.agents = (IF hasOcr THEN {"ocr"} ELSE {}) \cup Range(tasks)
  PROVE  Shape(BuildCanvas(tasks, hasOcr, mode), q)
<1> DEFINE c == BuildCanvas(tasks, hasOcr, mode)
           front == Signature("passthrough", <<>>)
           first == Signature("ocr", <<"payload">>)
<1>1. Range(tasks) \subseteq PostOcrTasks
  BY DEF Range
<1>2. PostOcr(q) = Range(tasks) /\ ("ocr" \in q.agents <=> hasOcr)
  BY <1>1 DEF PostOcr, PostOcrTasks
<1>3. Range(tasks) # {} <=> tasks # <<>>
  BY DEF Range
<1>4. HasHead(q) <=> mode /\ hasOcr /\ tasks # <<>>
  BY <1>2, <1>3 DEF HasHead
<1>5. /\ front \in SignatureType /\ front.task = "passthrough" /\ front.args = <<>>
      /\ first \in SignatureType /\ first.task = "ocr" /\ first.args = <<"payload">>
      /\ "passthrough" \notin PostOcrTasks /\ "ocr" \notin PostOcrTasks
  BY DEF Signature, SignatureType, HeaderTask, AgentName, PostOcrTasks
<1>6. Extract = <<first>>
  BY DEF Extract
<1>7. \A t \in PostOcrTasks : ArgsFor(q, t) = IF HasHead(q) THEN <<"payload">> ELSE <<"none", "payload">>
  BY DEF ArgsFor, PostOcrTasks
<1>8. ArgsFor(q, "ocr") = <<"payload">> /\ ArgsFor(q, "passthrough") = <<>>
  BY DEF ArgsFor
<1> HIDE DEF front, first
<1>9. CASE HasHead(q)
  <2>1. c.head = Extract /\ c.header = <<front>> \o SignaturesOf(tasks, <<"payload">>)
    BY <1>4, <1>9 DEF BuildCanvas, front
  <2> HIDE DEF c
  <2>2. /\ c.header \in Seq(SignatureType) /\ c.header # <<>>
        /\ \A i, j \in DOMAIN c.header : c.header[i].task = c.header[j].task => i = j
        /\ Tasks(c.header) = {front.task} \cup Range(tasks)
        /\ \A i \in DOMAIN c.header :
             c.header[i] = front \/ (c.header[i].args = <<"payload">> /\ c.header[i].task \in PostOcrTasks)
    <3>1. front \in SignatureType /\ front.task \notin PostOcrTasks
      BY <1>5
    <3>2. <<"payload">> \in {<<"payload">>, <<"none", "payload">>}
      OBVIOUS
    <3> QED
      BY <2>1, <3>1, <3>2, HeadedHeader
  <2>3. Header(q) = {"passthrough"} \cup Range(tasks)
    BY <1>2, <1>9 DEF Header
  <2>4. Tasks(c.header) = Header(q)
    BY <1>5, <2>2, <2>3
  <2>5. \A i \in DOMAIN c.header : c.header[i].args = ArgsFor(q, c.header[i].task)
    BY <1>5, <1>7, <1>8, <1>9, <2>2
  <2> QED
    BY <1>9, <2>1, <2>2, <2>4, <2>5 DEF Shape, c
<1>10. CASE ~HasHead(q) /\ hasOcr /\ mode
  <2>1. c.head = <<>> /\ c.header = <<first>> /\ tasks = <<>>
    BY <1>4, <1>6, <1>10 DEF BuildCanvas
  <2> HIDE DEF c
  <2>2. /\ c.header \in Seq(SignatureType) /\ c.header # <<>>
        /\ DOMAIN c.header = {1} /\ c.header[1] = first
    BY <1>5, <2>1
  <2>3. Tasks(c.header) = {"ocr"}
    BY <1>5, <2>2 DEF Tasks
  <2>4. Header(q) = {"ocr"}
    BY <1>3, <1>10, <2>1 DEF Header
  <2> QED
    BY <1>5, <1>8, <1>10, <2>1, <2>2, <2>3, <2>4 DEF Shape, c
<1>11. CASE ~HasHead(q) /\ hasOcr /\ ~mode
  <2>1. c.head = <<>> /\ c.header = <<first>> \o SignaturesOf(tasks, <<"none", "payload">>)
    BY <1>6, <1>11 DEF BuildCanvas, FanOut
  <2> HIDE DEF c
  <2>2. /\ c.header \in Seq(SignatureType) /\ c.header # <<>>
        /\ \A i, j \in DOMAIN c.header : c.header[i].task = c.header[j].task => i = j
        /\ Tasks(c.header) = {first.task} \cup Range(tasks)
        /\ \A i \in DOMAIN c.header :
             c.header[i] = first \/ (c.header[i].args = <<"none", "payload">> /\ c.header[i].task \in PostOcrTasks)
    <3>1. first \in SignatureType /\ first.task \notin PostOcrTasks
      BY <1>5
    <3>2. <<"none", "payload">> \in {<<"payload">>, <<"none", "payload">>}
      OBVIOUS
    <3> QED
      BY <2>1, <3>1, <3>2, HeadedHeader
  <2>3. Header(q) = {"ocr"} \cup Range(tasks)
    BY <1>11 DEF Header
  <2>4. Tasks(c.header) = Header(q)
    BY <1>5, <2>2, <2>3
  <2>5. \A i \in DOMAIN c.header : c.header[i].args = ArgsFor(q, c.header[i].task)
    BY <1>5, <1>7, <1>8, <1>11, <2>2
  <2> QED
    BY <1>11, <2>1, <2>2, <2>4, <2>5 DEF Shape, c
<1>12. CASE ~hasOcr
  <2>1. c.head = <<>> /\ c.header = <<>> \o SignaturesOf(tasks, <<"none", "payload">>)
    BY <1>12 DEF BuildCanvas, FanOut
  <2> HIDE DEF c
  <2>2. /\ c.header \in Seq(SignatureType) /\ c.header # <<>>
        /\ \A i, j \in DOMAIN c.header : c.header[i].task = c.header[j].task => i = j
        /\ Tasks(c.header) = Range(tasks)
        /\ \A i \in DOMAIN c.header : c.header[i].args = <<"none", "payload">> /\ c.header[i].task \in PostOcrTasks
    BY <1>12, <2>1, PlainHeader
  <2>3. Header(q) = Range(tasks)
    BY <1>4, <1>12 DEF Header
  <2>5. \A i \in DOMAIN c.header : c.header[i].args = ArgsFor(q, c.header[i].task)
    BY <1>4, <1>7, <1>12, <2>2
  <2> QED
    BY <1>4, <1>12, <2>1, <2>2, <2>3, <2>5 DEF Shape, c
<1> QED
  BY <1>9, <1>10, <1>11, <1>12

\* The canvas is built of the whole list.
LEMMA BuildStep == KeepInv /\ Build => BuildInv' /\ Shape(canvas', Request)
<1> SUFFICES ASSUME KeepInv, Build PROVE BuildInv' /\ Shape(canvas', Request)
  OBVIOUS
<1> DEFINE hasOcr == "ocr" \in Range(agents)
<1>1. asked \in Seq(AgentName) /\ asked # <<>> /\ looked = Len(asked)
  BY AskedType DEF KeepInv, Build
<1>2. Range(agents) = Range(asked) /\ Range(agents) # {} /\ Range(agents) \subseteq AgentName
  <2>1. Range(agents) = Range(asked)
    <3>1. DOMAIN asked = 1..looked
      BY <1>1
    <3> QED
      BY <3>1 DEF KeepInv, Range
  <2> QED
    BY <1>1, <2>1, RangeType
<1>3. /\ postOcr \in Seq(PostOcrTasks) /\ IsInjective(postOcr) /\ pipeline \in BOOLEAN
      /\ Range(postOcr) = Range(agents) \cap PostOcrTasks
  BY DEF KeepInv
<1>4. Range(agents) = (IF hasOcr THEN {"ocr"} ELSE {}) \cup Range(postOcr)
  BY <1>2, <1>3 DEF AgentName, PostOcrTasks
<1>5. hasOcr \/ postOcr # <<>>
  BY <1>2, <1>4 DEF Range
<1>6. Request.pipeline = pipeline /\ Request.agents = Range(agents)
  BY <1>2 DEF Request
<1>7. canvas' = BuildCanvas(postOcr, hasOcr, pipeline) /\ asked' = asked /\ pipeline' = pipeline
  BY DEF Build, request
<1>8. hasOcr \in BOOLEAN
  OBVIOUS
<1> HIDE DEF hasOcr
<1>9. Shape(BuildCanvas(postOcr, hasOcr, pipeline), Request)
  BY <1>3, <1>4, <1>5, <1>6, <1>8, CanvasShape
<1>10. Request' = Request /\ Shape(canvas', Request)
  BY <1>7, <1>9 DEF Request
<1>11. Shape(canvas', Request')
  BY <1>10
<1> QED
  BY <1>10, <1>11 DEF BuildInv

\* Before the canvas is built nothing is called, afterwards it has a header.
LEMMA BuiltFacts ==
  ASSUME BuildInv
  PROVE  /\ Positions # {} => Built
         /\ Built => Shape(canvas, Request) /\ Positions # {}
         /\ Built => ((canvas.head # <<>>) <=> HasHead(Request))
         /\ ~Built => canvas.head = <<>> /\ Positions = {}
<1>1. Extract # <<>>
  BY DEF Extract
<1>3. ~Built => canvas.head = <<>> /\ Positions = {}
  BY DEF Built, NoCanvas, Positions
<1>4. Built => Shape(canvas, Request)
  BY DEF BuildInv
<1>5. ASSUME Built PROVE Positions # {}
  <2>1. canvas.header \in Seq(SignatureType) /\ canvas.header # <<>>
    BY <1>4, <1>5 DEF Shape
  <2>2. 1 \in DOMAIN canvas.header
    BY <2>1
  <2> QED
    BY <2>2 DEF Positions
<1>6. Built => ((canvas.head # <<>>) <=> HasHead(Request))
  BY <1>1, <1>4 DEF Shape
<1> QED
  BY <1>3, <1>4, <1>5, <1>6

-----------------------------------------------------------------------------
(* What is called, and what it returns.                                    *)

LEMMA Concatenated ==
  /\ <<>> \o <<"payload">> = <<"payload">> /\ <<>> \o <<"none", "payload">> = <<"none", "payload">>
  /\ <<"ocr">> \o <<>> = <<"ocr">> /\ <<"ocr">> \o <<"payload">> = <<"ocr", "payload">>
<1>1. <<"ocr">> \in Seq(Argument) /\ <<"payload">> \in Seq(Argument) /\ <<"none", "payload">> \in Seq(Argument)
  BY DEF Argument
<1>2. \A r \in Seq(Argument) : <<>> \o r = r /\ r \o <<>> = r
  OBVIOUS
<1>3. ASSUME NEW r \in Seq(Argument), Len(r) = 2, r[1] = "ocr", r[2] = "payload" PROVE r = <<"ocr", "payload">>
  BY <1>3
<1>4. <<"ocr">> \o <<"payload">> = <<"ocr", "payload">>
  <2> DEFINE r == <<"ocr">> \o <<"payload">>
  <2>1. r \in Seq(Argument) /\ Len(r) = 2 /\ r[1] = "ocr" /\ r[2] = "payload"
    BY <1>1
  <2> HIDE DEF r
  <2>2. r = <<"ocr", "payload">>
    BY <1>3, <2>1
  <2> QED
    BY <2>2 DEF r
<1> QED
  BY <1>1, <1>2, <1>4

\* A call of t that fits and returns the result of agent a, made from basis.
Fits(t, args, a, basis) ==
  args \in Seq(Argument) /\ Accepts(t, args) /\ Return(t, args) = Result(a, basis)

LEMMA Fitting ==
  /\ Fits("ocr", <<"payload">>, "ocr", "ocr") /\ Fits("passthrough", <<"ocr">>, "ocr", "ocr")
  /\ \A t \in PostOcrTasks :
       Fits(t, <<"ocr", "payload">>, t, "ocr") /\ Fits(t, <<"none", "payload">>, t, "none")
<1>1. /\ <<"payload">> \in Seq(Argument) /\ <<"ocr">> \in Seq(Argument)
      /\ <<"ocr", "payload">> \in Seq(Argument) /\ <<"none", "payload">> \in Seq(Argument)
  BY DEF Argument
<1>2. Accepts("ocr", <<"payload">>) /\ Return("ocr", <<"payload">>) = Result("ocr", "ocr")
  BY DEF Accepts, Return, PostOcrTasks
<1>3. Accepts("passthrough", <<"ocr">>) /\ Return("passthrough", <<"ocr">>) = Result("ocr", "ocr")
  BY DEF Accepts, Return, PostOcrTasks
<1>4. ASSUME NEW t \in PostOcrTasks
      PROVE  Accepts(t, <<"ocr", "payload">>) /\ Accepts(t, <<"none", "payload">>)
  BY DEF Accepts, PostOcrTasks
<1>5. ASSUME NEW t \in PostOcrTasks
      PROVE  /\ Return(t, <<"ocr", "payload">>) = Result(t, "ocr")
             /\ Return(t, <<"none", "payload">>) = Result(t, "none")
  BY DEF Return, PostOcrTasks
<1> QED
  BY <1>1, <1>2, <1>3, <1>4, <1>5 DEF Fits

LEMMA AgentOfType == \A t \in HeaderTask : AgentOf(t) \in AgentName
BY DEF AgentOf, HeaderTask, AgentName

LEMMA RequestAgents == KeepInv => Request.agents \subseteq AgentName /\ Request.agents # {}
<1> SUFFICES ASSUME KeepInv PROVE Request.agents \subseteq AgentName /\ Request.agents # {}
  OBVIOUS
<1>1. asked \in Seq(AgentName) /\ asked # <<>>
  BY AskedType DEF KeepInv
<1>2. Range(asked) \subseteq AgentName /\ Range(asked) # {}
  BY <1>1, RangeType
<1> QED
  BY <1>2 DEF Request

\* A header task is called with what it declares, with or without a result in
\* front of its arguments, and returns its agent's result.
LEMMA HeaderCall ==
  ASSUME KeepInv, BuildInv, Built, NEW i \in Positions,
         NEW args, args = (IF canvas.head = <<>> THEN <<>> ELSE <<"ocr">>) \o canvas.header[i].args
  PROVE  LET t == canvas.header[i].task
         IN /\ t \in HeaderTask /\ t \in Header(Request)
            /\ Fits(t, args, AgentOf(t), Basis(AgentOf(t)))
<1> DEFINE t == canvas.header[i].task
<1>1. Shape(canvas, Request) /\ ((canvas.head # <<>>) <=> HasHead(Request))
  BY BuiltFacts
<1>2. /\ canvas.header[i].args = ArgsFor(Request, t) /\ t \in Header(Request)
      /\ canvas.header[i] \in SignatureType
  BY <1>1 DEF Shape, Positions, Tasks
<1>3. t \in HeaderTask
  BY <1>2 DEF SignatureType
<1> HIDE DEF t
<1>4. /\ Basis("ocr") = "ocr"
      /\ \A a \in PostOcrTasks : AgentOf(a) = a /\ Basis(a) = IF HasHead(Request) THEN "ocr" ELSE "none"
  BY DEF Basis, AgentOf, PostOcrTasks
<1>5. AgentOf("ocr") = "ocr" /\ AgentOf("passthrough") = "ocr"
  BY DEF AgentOf
<1>6. Fits(t, args, AgentOf(t), Basis(AgentOf(t)))
  <2>1. CASE HasHead(Request)
    <3>1. args = <<"ocr">> \o ArgsFor(Request, t)
      BY <1>1, <1>2, <2>1
    <3>2. t = "passthrough" \/ t \in PostOcrTasks
      BY <1>2, <2>1 DEF Header, PostOcr
    <3>3. CASE t = "passthrough"
      <4>1. args = <<"ocr">>
        BY <3>1, <3>3, Concatenated DEF ArgsFor
      <4> QED
        BY <1>4, <1>5, <3>3, <4>1, Fitting
    <3>4. CASE t \in PostOcrTasks
      <4>1. ArgsFor(Request, t) = <<"payload">>
        BY <2>1, <3>4 DEF ArgsFor, PostOcrTasks
      <4>2. args = <<"ocr", "payload">>
        BY <3>1, <4>1, Concatenated
      <4> QED
        BY <1>4, <2>1, <3>4, <4>2, Fitting
    <3> QED
      BY <3>2, <3>3, <3>4
  <2>2. CASE ~HasHead(Request)
    <3>1. args = <<>> \o ArgsFor(Request, t)
      BY <1>1, <1>2, <2>2
    <3>2. t = "ocr" \/ t \in PostOcrTasks
      BY <1>2, <2>2, RequestAgents DEF Header, AgentName, PostOcrTasks
    <3>3. CASE t = "ocr"
      <4>1. args = <<"payload">>
        BY <3>1, <3>3, Concatenated DEF ArgsFor
      <4> QED
        BY <1>4, <1>5, <3>3, <4>1, Fitting
    <3>4. CASE t \in PostOcrTasks
      <4>1. ArgsFor(Request, t) = <<"none", "payload">>
        BY <2>2, <3>4 DEF ArgsFor, PostOcrTasks
      <4>2. args = <<"none", "payload">>
        BY <3>1, <4>1, Concatenated
      <4> QED
        BY <1>4, <2>2, <3>4, <4>2, Fitting
    <3> QED
      BY <3>2, <3>3, <3>4
  <2> QED
    BY <2>1, <2>2
<1> QED
  BY <1>2, <1>3, <1>6 DEF t

\* collect recognises each agent's result as that agent's.
LEMMA Recognised == \A a \in AgentName : \A b : Recognise(Result(a, b)) = a
<1> TAKE a \in AgentName
<1> TAKE b
<1> DEFINE hits == {i \in DOMAIN Discriminators : Discriminators[i].field \in Result(a, b).fields}
           k == IF a = "ocr" THEN 1 ELSE IF a = "compliance" THEN 2 ELSE 3
<1>1. /\ DOMAIN Discriminators = 1..3
      /\ Discriminators[1].field = "page_count" /\ Discriminators[1].agent = "ocr"
      /\ Discriminators[2].field = "rules_evaluated" /\ Discriminators[2].agent = "compliance"
      /\ Discriminators[3].field = "anomaly_score" /\ Discriminators[3].agent = "anomaly"
  BY DEF Discriminators
<1>2. Result(a, b).fields = Fields[a]
  BY DEF Result
<1>3. a \in {"ocr", "compliance", "anomaly"}
  BY DEF AgentName
<1>4. hits = {k}
  <2>1. CASE a = "ocr"
    BY <1>1, <1>2, <2>1 DEF Fields
  <2>2. CASE a = "compliance"
    BY <1>1, <1>2, <2>2 DEF Fields
  <2>3. CASE a = "anomaly"
    BY <1>1, <1>2, <2>3 DEF Fields
  <2> QED
    BY <1>3, <2>1, <2>2, <2>3
<1>5. k \in Nat /\ Discriminators[k].agent = a
  BY <1>1, <1>3
<1> HIDE DEF k
<1>6. (CHOOSE i \in {k} : \A j \in {k} : i <= j) = k
  BY <1>5
<1> QED
  BY <1>4, <1>5, <1>6 DEF Recognise

-----------------------------------------------------------------------------
(* The invariant is inductive.                                             *)

LEMMA InvInit == Init => IInv
<1> SUFFICES ASSUME Init PROVE IInv
  OBVIOUS
<1>1. KeepInv
  BY KeepInit
<1>2. ~Built /\ Positions = {} /\ DOMAIN results = {} /\ left = {} /\ calls = <<>>
  BY DEF Init, Built, Positions, NoCanvas
<1>3. BuildInv
  BY <1>2 DEF BuildInv
<1>4. CallsInv
  BY <1>2 DEF CallsInv, CalledTasks, Tasks
<1>5. ResultsInv
  BY <1>2 DEF ResultsInv
<1>6. MergeInv
  BY <1>2 DEF MergeInv, Init
<1> QED
  BY <1>1, <1>3, <1>4, <1>5, <1>6 DEF IInv

LEMMA InvLook == IInv /\ LookAtAgent => IInv'
<1> SUFFICES ASSUME IInv, LookAtAgent PROVE IInv'
  OBVIOUS
<1>1. KeepInv'
  BY KeepLook DEF IInv
<1>2. /\ asked' = asked /\ pipeline' = pipeline /\ canvas' = canvas /\ calls' = calls
      /\ results' = results /\ merged' = merged /\ left' = left
  BY DEF LookAtAgent, request
<1>3. Request' = Request /\ Positions' = Positions /\ Built' = Built /\ HeadDone' = HeadDone
  BY <1>2 DEF Request, Positions, Built, HeadDone
<1>4. BuildInv'
  BY <1>2, <1>3 DEF IInv, BuildInv
<1>5. CallsInv'
  BY <1>2, <1>3 DEF IInv, CallsInv, CalledTasks
<1>6. ResultsInv'
  BY <1>2, <1>3 DEF IInv, ResultsInv, Basis
<1>7. MergeInv'
  BY <1>2, <1>3 DEF IInv, MergeInv, Basis
<1> QED
  BY <1>1, <1>4, <1>5, <1>6, <1>7 DEF IInv

LEMMA InvBuild == IInv /\ Build => IInv'
<1> SUFFICES ASSUME IInv, Build PROVE IInv'
  OBVIOUS
<1>1. /\ asked' = asked /\ pipeline' = pipeline /\ looked' = looked /\ agents' = agents
      /\ postOcr' = postOcr /\ calls' = calls /\ results' = results /\ merged' = merged
      /\ left' = Positions' /\ ~Built
  BY DEF Build, request, lists, Positions
<1>2. KeepInv'
  BY <1>1 DEF IInv, KeepInv
<1>3. BuildInv'
  BY BuildStep DEF IInv
<1>4. calls = <<>> /\ Positions = {} /\ DOMAIN results = {} /\ left = {}
  BY <1>1, BuiltFacts DEF IInv, CallsInv, MergeInv
<1>5. CallsInv'
  BY <1>1, <1>4 DEF IInv, CallsInv, CalledTasks, Tasks
<1>6. ResultsInv'
  BY <1>1, <1>4 DEF ResultsInv
<1>7. merged = [a \in AgentName |-> NoResult]
  BY <1>4 DEF IInv, MergeInv
<1>8. MergeInv'
  BY <1>1, <1>7 DEF MergeInv
<1> QED
  BY <1>2, <1>3, <1>5, <1>6, <1>8 DEF IInv

\* What a step leaves alone once the canvas is built.
LEMMA InvRest ==
  ASSUME IInv, UNCHANGED <<request, lists, canvas>>
  PROVE  /\ KeepInv' /\ BuildInv' /\ Request' = Request /\ Positions' = Positions
         /\ Built' = Built /\ canvas' = canvas
<1>1. /\ asked' = asked /\ pipeline' = pipeline /\ looked' = looked /\ agents' = agents
      /\ postOcr' = postOcr /\ canvas' = canvas
  BY DEF request, lists
<1>2. KeepInv'
  BY <1>1 DEF IInv, KeepInv
<1>3. Request' = Request /\ Positions' = Positions /\ Built' = Built
  BY <1>1 DEF Request, Positions, Built
<1>4. BuildInv'
  BY <1>1, <1>3 DEF IInv, BuildInv
<1> QED
  BY <1>1, <1>2, <1>3, <1>4

LEMMA InvHead == IInv /\ RunHead => IInv'
<1> SUFFICES ASSUME IInv, RunHead PROVE IInv'
  OBVIOUS
<1>1. /\ KeepInv' /\ BuildInv' /\ Request' = Request /\ Positions' = Positions
      /\ Built' = Built /\ canvas' = canvas
  BY InvRest DEF RunHead
<1>2. /\ canvas.head # <<>> /\ calls = <<>> /\ results' = results /\ merged' = merged /\ left' = left
      /\ calls' = <<canvas.head[1]>>
  BY DEF RunHead, HeadDone
<1>3. Built /\ Shape(canvas, Request) /\ HasHead(Request)
  BY <1>2, BuiltFacts DEF IInv
<1>4. canvas.head[1] = Signature("ocr", <<"payload">>)
  BY <1>3 DEF Shape, Extract
<1>5. DOMAIN results = {}
  BY <1>2 DEF IInv, CallsInv, HeadDone
<1> DEFINE call == Signature("ocr", <<"payload">>)
<1>6. /\ call \in [task : HeaderTask, args : Seq(Argument)] /\ call.task = "ocr"
      /\ Accepts(call.task, call.args)
  <2>1. <<"payload">> \in Seq(Argument) /\ Accepts("ocr", <<"payload">>)
    BY Fitting DEF Fits
  <2> QED
    BY <2>1 DEF Signature, HeaderTask, AgentName
<1> HIDE DEF call
<1>7. /\ calls' \in Seq([task : HeaderTask, args : Seq(Argument)]) /\ calls' # <<>>
      /\ DOMAIN calls' = {1} /\ calls'[1] = call
  BY <1>2, <1>4, <1>6 DEF call
<1>8. Tasks(calls') = {"ocr"}
  BY <1>6, <1>7 DEF Tasks
<1>9. CalledTasks' = {"ocr"}
  BY <1>1, <1>2, <1>3, <1>5, <1>7 DEF CalledTasks
<1>10. CallsInv'
  BY <1>1, <1>2, <1>3, <1>5, <1>6, <1>7, <1>8, <1>9 DEF CallsInv
<1>11. ResultsInv'
  BY <1>2, <1>5 DEF ResultsInv
<1>12. MergeInv'
  BY <1>1, <1>2 DEF IInv, MergeInv, Basis
<1> QED
  BY <1>1, <1>10, <1>11, <1>12 DEF IInv

LEMMA InvHeader == ASSUME NEW i \in Positions PROVE IInv /\ RunHeader(i) => IInv'
<1> SUFFICES ASSUME IInv, RunHeader(i) PROVE IInv'
  OBVIOUS
<1> DEFINE t == canvas.header[i].task
           args == (IF canvas.head = <<>> THEN <<>> ELSE <<"ocr">>) \o canvas.header[i].args
           call == Signature(t, args)
<1>1. /\ KeepInv' /\ BuildInv' /\ Request' = Request /\ Positions' = Positions
      /\ Built' = Built /\ canvas' = canvas
  BY InvRest DEF RunHeader
<1>2. /\ HeadDone /\ i \notin DOMAIN results /\ merged' = merged /\ left' = left
      /\ calls' = Append(calls, call)
      /\ results' = [j \in DOMAIN results \cup {i} |-> IF j = i THEN Return(t, args) ELSE results[j]]
  BY DEF RunHeader
<1>3. Built /\ Shape(canvas, Request) /\ ((canvas.head # <<>>) <=> HasHead(Request))
  BY BuiltFacts DEF IInv
<1>4. t \in HeaderTask /\ t \in Header(Request) /\ Fits(t, args, AgentOf(t), Basis(AgentOf(t)))
  BY <1>3, HeaderCall DEF IInv
<1> HIDE DEF args
<1>5. /\ call \in [task : HeaderTask, args : Seq(Argument)] /\ call.task = t
      /\ Accepts(call.task, call.args)
  BY <1>4 DEF Fits, Signature
<1>6. t \notin CalledTasks
  <2>1. \A j \in DOMAIN results : canvas.header[j].task # t
    BY <1>2, <1>3 DEF IInv, CallsInv, Shape, Positions
  <2>2. HasHead(Request) => t # "ocr"
    BY <1>4 DEF Header, PostOcr, PostOcrTasks
  <2> QED
    BY <2>1, <2>2 DEF CalledTasks
<1> HIDE DEF call
<1>7. /\ calls \in Seq([task : HeaderTask, args : Seq(Argument)]) /\ Tasks(calls) = CalledTasks
      /\ \A j \in DOMAIN calls : Accepts(calls[j].task, calls[j].args)
      /\ \A j, k \in DOMAIN calls : calls[j].task = calls[k].task => j = k
      /\ DOMAIN results \subseteq Positions
  BY DEF IInv, CallsInv
<1>8. /\ calls' \in Seq([task : HeaderTask, args : Seq(Argument)]) /\ calls' # <<>>
      /\ DOMAIN calls' = DOMAIN calls \cup {Len(calls) + 1} /\ Len(calls) + 1 \notin DOMAIN calls
      /\ \A j \in DOMAIN calls : calls'[j] = calls[j]
      /\ calls'[Len(calls) + 1] = call
  BY <1>2, <1>5, <1>7, Appended
<1>9. \A j \in DOMAIN calls' : Accepts(calls'[j].task, calls'[j].args)
  BY <1>5, <1>7, <1>8
<1>10. \A j, k \in DOMAIN calls' : calls'[j].task = calls'[k].task => j = k
  <2>1. \A j \in DOMAIN calls : calls[j].task # t
    BY <1>6, <1>7 DEF Tasks
  <2> HIDE DEF t
  <2> QED
    BY <1>5, <1>7, <1>8, <2>1
<1>11. Tasks(calls') = Tasks(calls) \cup {t}
  <2> HIDE DEF t
  <2> QED
    BY <1>5, <1>8 DEF Tasks
<1>12. DOMAIN results' = DOMAIN results \cup {i}
  BY <1>2
<1>13. CalledTasks' = CalledTasks \cup {t}
  <2>1. HasHead(Request) => calls # <<>>
    BY <1>2, <1>3 DEF HeadDone
  <2>2. {canvas.header[j].task : j \in DOMAIN results'} = {canvas.header[j].task : j \in DOMAIN results} \cup {t}
    BY <1>12
  <2>3. CalledTasks' = (IF HasHead(Request) THEN {"ocr"} ELSE {}) \cup {canvas.header[j].task : j \in DOMAIN results'}
    BY <1>1, <1>8 DEF CalledTasks
  <2>4. CalledTasks = (IF HasHead(Request) THEN {"ocr"} ELSE {}) \cup {canvas.header[j].task : j \in DOMAIN results}
    BY <2>1 DEF CalledTasks
  <2> QED
    BY <2>2, <2>3, <2>4
<1>14. CallsInv'
  <2>1. HeadDone'
    BY <1>8 DEF HeadDone
  <2>2. Tasks(calls') = CalledTasks'
    BY <1>7, <1>11, <1>13
  <2>3. DOMAIN results' \subseteq Positions'
    BY <1>1, <1>7, <1>12
  <2> QED
    BY <1>1, <1>3, <1>8, <1>9, <1>10, <2>1, <2>2, <2>3 DEF CallsInv
<1>15. ResultsInv'
  <2> SUFFICES ASSUME NEW j \in DOMAIN results'
               PROVE  LET a == AgentOf(canvas.header[j].task) IN results'[j] = Result(a, Basis(a))
    BY <1>1 DEF ResultsInv, Basis
  <2>1. CASE j = i
    BY <1>2, <1>4, <2>1 DEF Fits
  <2>2. CASE j # i
    <3>1. j \in DOMAIN results /\ results'[j] = results[j]
      BY <1>2, <2>2
    <3> QED
      BY <3>1 DEF IInv, ResultsInv
  <2> QED
    BY <2>1, <2>2
<1>16. MergeInv'
  <2>1. left = Positions
    BY <1>2 DEF IInv, MergeInv
  <2> QED
    BY <1>1, <1>2, <2>1 DEF IInv, MergeInv, Basis
<1> QED
  BY <1>1, <1>14, <1>15, <1>16 DEF IInv

LEMMA InvCollect == ASSUME NEW i \in Positions PROVE IInv /\ CollectItem(i) => IInv'
<1> SUFFICES ASSUME IInv, CollectItem(i) PROVE IInv'
  OBVIOUS
<1> DEFINE a == AgentOf(canvas.header[i].task)
           bare == Len(canvas.header) = 1
           items == Iterated([dict |-> bare, value |-> IF bare THEN results[1] ELSE results])
<1>1. /\ KeepInv' /\ BuildInv' /\ Request' = Request /\ Positions' = Positions
      /\ Built' = Built /\ canvas' = canvas
  BY InvRest DEF CollectItem
<1>2. /\ DOMAIN results = Positions /\ i \in left /\ left' = left \ {i}
      /\ merged' = IF Recognise(items[i]) = "" THEN merged ELSE [merged EXCEPT ![Recognise(items[i])] = items[i]]
      /\ calls' = calls /\ results' = results
  BY DEF CollectItem
<1>3. Built /\ Shape(canvas, Request)
  BY BuiltFacts DEF IInv
<1>4. a \in AgentName /\ a # ""
  <2>1. canvas.header[i].task \in HeaderTask
    BY <1>3, HeaderCall DEF IInv
  <2>2. \A b \in AgentName : b # ""
    BY DEF AgentName
  <2> QED
    BY <2>1, <2>2, AgentOfType
<1>5. items[i] = results[i]
  <2>1. CASE bare
    <3>1. i = 1
      BY <1>3, <2>1 DEF Shape, Positions
    <3>2. items = <<results[1]>>
      BY <2>1 DEF Iterated
    <3> QED
      BY <3>1, <3>2
  <2>2. CASE ~bare
    BY <2>2 DEF Iterated
  <2> QED
    BY <2>1, <2>2
<1>6. results[i] = Result(a, Basis(a))
  BY <1>2 DEF IInv, ResultsInv
<1> HIDE DEF items
<1>7. merged' = [merged EXCEPT ![a] = Result(a, Basis(a))]
  BY <1>2, <1>4, <1>5, <1>6, Recognised
<1>8. CallsInv'
  BY <1>1, <1>2 DEF IInv, CallsInv, CalledTasks, HeadDone
<1>9. ResultsInv'
  BY <1>1, <1>2 DEF IInv, ResultsInv, Basis
<1>10. MergeInv'
  <2>1. /\ left \subseteq Positions
        /\ merged = [b \in AgentName |->
             IF \E j \in Positions \ left : AgentOf(canvas.header[j].task) = b THEN Result(b, Basis(b)) ELSE NoResult]
    BY DEF IInv, MergeInv
  <2>2. Positions \ left' = (Positions \ left) \cup {i}
    BY <1>2
  <2>3. \A b : (\E j \in Positions \ left' : AgentOf(canvas.header[j].task) = b)
               <=> b = a \/ \E j \in Positions \ left : AgentOf(canvas.header[j].task) = b
    BY <2>2
  <2>4. merged' = [b \in AgentName |-> IF b = a THEN Result(a, Basis(a)) ELSE merged[b]]
    BY <1>4, <1>7, <2>1
  <2> HIDE DEF a
  <2>5. merged' = [b \in AgentName |->
          IF \E j \in Positions \ left' : AgentOf(canvas.header[j].task) = b THEN Result(b, Basis(b)) ELSE NoResult]
    <3>1. \A b \in AgentName : merged[b] =
            IF \E j \in Positions \ left : AgentOf(canvas.header[j].task) = b THEN Result(b, Basis(b)) ELSE NoResult
      BY <2>1
    <3> QED
      BY <2>3, <2>4, <3>1
  <2>6. \A b : Basis(b)' = Basis(b)
    BY <1>1 DEF Basis
  <2> QED
    BY <1>1, <1>2, <2>1, <2>5, <2>6 DEF MergeInv
<1> QED
  BY <1>1, <1>8, <1>9, <1>10 DEF IInv

LEMMA Invariance == Spec => []IInv
<1>1. ASSUME IInv, [Next]_vars PROVE IInv'
  <2>1. CASE LookAtAgent
    BY <1>1, <2>1, InvLook
  <2>2. CASE Build
    BY <1>1, <2>2, InvBuild
  <2>3. CASE RunHead
    BY <1>1, <2>3, InvHead
  <2>4. ASSUME NEW i \in Positions, RunHeader(i) PROVE IInv'
    BY <1>1, <2>4, InvHeader
  <2>5. ASSUME NEW i \in Positions, CollectItem(i) PROVE IInv'
    BY <1>1, <2>5, InvCollect
  <2>6. CASE UNCHANGED vars
    <3>1. /\ UNCHANGED <<request, lists, canvas>> /\ calls' = calls /\ results' = results
          /\ merged' = merged /\ left' = left
      BY <2>6 DEF vars, request, lists
    <3>2. /\ KeepInv' /\ BuildInv' /\ Request' = Request /\ Positions' = Positions
          /\ Built' = Built /\ canvas' = canvas
      BY <1>1, <3>1, InvRest
    <3>3. CallsInv'
      BY <1>1, <3>1, <3>2 DEF IInv, CallsInv, CalledTasks, HeadDone
    <3>4. ResultsInv'
      BY <1>1, <3>1, <3>2 DEF IInv, ResultsInv, Basis
    <3>5. MergeInv'
      BY <1>1, <3>1, <3>2 DEF IInv, MergeInv, Basis
    <3> QED
      BY <3>2, <3>3, <3>4, <3>5 DEF IInv
  <2> QED
    BY <1>1, <2>1, <2>2, <2>3, <2>4, <2>5, <2>6 DEF Next
<1> QED
  BY InvInit, <1>1, PTL DEF Spec

-----------------------------------------------------------------------------
(* What the runs check, for lists of any length.                           *)

\* The loop of _build_canvas stays inside the caller's list, the signatures
\* it makes have the arguments of dispatch.py, and collect's results belong
\* to the header.
THEOREM TypeCorrect == Spec => []TypeOK
<1>1. ASSUME IInv PROVE TypeOK
  <2>1. Range(canvas.head) \cup Range(canvas.header) \subseteq SignatureType
    <3>1. CASE ~Built
      BY <3>1 DEF Built, NoCanvas, Range
    <3>2. CASE Built
      <4>1. Shape(canvas, Request)
        BY <1>1, <3>2, BuiltFacts DEF IInv
      <4>2. Range(canvas.header) \subseteq SignatureType
        BY <4>1, RangeType DEF Shape
      <4>3. Range(canvas.head) \subseteq SignatureType
        BY <4>1 DEF Shape, Extract, Range, Signature, SignatureType, HeaderTask, AgentName
      <4> QED
        BY <4>2, <4>3
    <3> QED
      BY <3>1, <3>2
  <2>2. \A i \in DOMAIN calls : calls[i].task \in HeaderTask
    <3>1. calls \in Seq([task : HeaderTask, args : Seq(Argument)])
      BY <1>1 DEF IInv, CallsInv
    <3>2. \A i \in DOMAIN calls : calls[i] \in [task : HeaderTask, args : Seq(Argument)]
      BY <3>1, ElementType
    <3> QED
      BY <3>2
  <2>3. DOMAIN merged = AgentName /\ left \subseteq Positions
    BY <1>1 DEF IInv, MergeInv
  <2>4. /\ asked \in AgentLists /\ pipeline \in BOOLEAN /\ looked \in 0..Len(asked)
        /\ agents \in Seq(AgentName) /\ postOcr \in Seq(PostOcrTasks)
    BY <1>1 DEF IInv, KeepInv
  <2>5. DOMAIN results \subseteq Positions
    BY <1>1 DEF IInv, CallsInv
  <2> QED
    BY <2>1, <2>2, <2>3, <2>4, <2>5 DEF TypeOK, SignatureType
<1> QED
  BY <1>1, Invariance, PTL

\* _build_canvas's lists hold each task once, whatever the caller repeated,
\* and are the sets that the other modules take for the canvas: what is
\* proved of a submission there is about the canvas the code builds.
THEOREM CanvasMatches == Spec => []CanvasMatchesDispatch
<1>1. ASSUME IInv PROVE CanvasMatchesDispatch
  <2> SUFFICES ASSUME Built PROVE CanvasMatchesDispatch
    BY DEF CanvasMatchesDispatch
  <2> DEFINE tasks == [i \in Positions |-> canvas.header[i].task]
  <2>1. Shape(canvas, Request) /\ ((canvas.head # <<>>) <=> HasHead(Request))
    BY <1>1, BuiltFacts DEF IInv
  <2>2. IsInjective(tasks)
    BY <2>1 DEF Shape, Positions, IsInjective
  <2>3. Range(tasks) = Header(Request)
    BY <2>1 DEF Shape, Positions, Tasks, Range
  <2>4. HasHead(Request) \in BOOLEAN
    BY <1>1 DEF IInv, KeepInv, HasHead, Request
  <2> QED
    BY <2>1, <2>2, <2>3, <2>4 DEF CanvasMatchesDispatch
<1> QED
  BY <1>1, Invariance, PTL

\* The tasks of a request, as agents, are those it asked for.
LEMMA AgentsOfHeader ==
  ASSUME KeepInv, NEW a \in AgentName
  PROVE  /\ a \in Request.agents <=> \E t \in Header(Request) : AgentOf(t) = a
         /\ a \in Request.agents <=> a \in (IF HasHead(Request) THEN {"ocr"} ELSE {}) \cup Header(Request)
<1>1. Request.agents \subseteq AgentName
  BY RequestAgents
<1>2. CASE HasHead(Request)
  <2>1. Header(Request) = {"passthrough"} \cup (Request.agents \cap PostOcrTasks) /\ "ocr" \in Request.agents
    BY <1>2 DEF Header, HasHead, PostOcr
  <2> QED
    BY <1>1, <1>2, <2>1 DEF AgentOf, AgentName, PostOcrTasks
<1>3. CASE ~HasHead(Request)
  BY <1>1, <1>3 DEF Header, AgentOf, AgentName
<1> QED
  BY <1>2, <1>3

\* Every task function is called with the parameters it declares, whether or
\* not Celery put a result in front of them, and by the time collect is done
\* each agent asked for was called once and no other at all.
THEOREM CallsRight == Spec => []CallsFit
<1>1. ASSUME IInv PROVE CallsFit
  <2>1. \A i \in DOMAIN calls : Accepts(calls[i].task, calls[i].args)
    BY <1>1 DEF IInv, CallsInv
  <2>2. ASSUME Merged, NEW a \in AgentName
        PROVE  Cardinality({i \in DOMAIN calls : calls[i].task = a}) = IF a \in Range(asked) THEN 1 ELSE 0
    <3> DEFINE hits == {i \in DOMAIN calls : calls[i].task = a}
    <3>1. /\ Shape(canvas, Request) /\ Positions # {}
          /\ ((canvas.head # <<>>) <=> HasHead(Request))
      BY <1>1, <2>2, BuiltFacts DEF IInv, Merged
    <3>2. DOMAIN results = Positions /\ HeadDone
      BY <1>1, <2>2, <3>1 DEF IInv, MergeInv, CallsInv, Merged
    <3>3. Tasks(calls) = (IF HasHead(Request) THEN {"ocr"} ELSE {}) \cup Header(Request)
      BY <1>1, <3>1, <3>2 DEF IInv, CallsInv, CalledTasks, HeadDone, Shape, Positions, Tasks
    <3>4. a \in Range(asked) <=> a \in Tasks(calls)
      BY <1>1, <3>3, AgentsOfHeader DEF IInv, Request
    <3>5. CASE a \in Tasks(calls)
      <4>1. PICK i \in DOMAIN calls : calls[i].task = a
        BY <3>5 DEF Tasks
      <4>2. hits = {i}
        BY <1>1, <4>1 DEF IInv, CallsInv
      <4> QED
        BY <3>4, <3>5, <4>2, FS_Singleton
    <3>6. CASE a \notin Tasks(calls)
      <4>1. hits = {}
        BY <3>6 DEF Tasks
      <4> QED
        BY <3>4, <3>6, <4>1, FS_EmptySet
    <3> QED
      BY <3>5, <3>6
  <2> QED
    BY <2>1, <2>2 DEF CallsFit
<1> QED
  BY <1>1, Invariance, PTL

\* collect's merge names the agents asked for and no other, each with the
\* result of its own task, whatever the order the results came in.
THEOREM MergeComplete == Spec => []MergeIsComplete
<1>1. ASSUME IInv PROVE MergeIsComplete
  <2> SUFFICES ASSUME Merged PROVE MergeIsComplete
    BY DEF MergeIsComplete
  <2>1. Shape(canvas, Request)
    BY <1>1, BuiltFacts DEF IInv, Merged
  <2>2. \A a : (\E i \in Positions \ left : AgentOf(canvas.header[i].task) = a)
               <=> \E t \in Header(Request) : AgentOf(t) = a
    <3>1. Header(Request) = {canvas.header[i].task : i \in Positions} /\ left = {}
      BY <2>1 DEF Shape, Positions, Tasks, Merged
    <3> QED
      BY <3>1
  <2>3. \A a \in AgentName : a \in Range(asked) <=>
          \E i \in Positions \ left : AgentOf(canvas.header[i].task) = a
    BY <1>1, <2>2, AgentsOfHeader DEF IInv, Request
  <2>4. merged = [a \in AgentName |->
          IF \E i \in Positions \ left : AgentOf(canvas.header[i].task) = a THEN Result(a, Basis(a)) ELSE NoResult]
    BY <1>1 DEF IInv, MergeInv
  <2>5. merged = [a \in AgentName |-> IF a \notin Range(asked) THEN NoResult ELSE Result(a, Basis(a))]
    BY <2>3, <2>4
  <2>6. \A a \in AgentName : Basis(a) = IF a = "ocr" \/ HasHead(Request) THEN "ocr" ELSE "none"
    BY DEF Basis
  <2>7. merged = [a \in AgentName |->
          IF a \notin Range(asked) THEN NoResult
          ELSE Result(a, IF a = "ocr" \/ HasHead(Request) THEN "ocr" ELSE "none")]
    BY <2>5, <2>6
  <2> QED
    BY <2>7 DEF MergeIsComplete
<1> QED
  BY <1>1, Invariance, PTL
=============================================================================
