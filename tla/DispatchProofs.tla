-------------------------- MODULE DispatchProofs --------------------------
(***************************************************************************)
(* Facts about the canvas of a request: the shape of its header, and that  *)
(* counting results up to the header's size finds one of every task.       *)
(***************************************************************************)
EXTENDS Dispatch, FiniteSetTheorems, TLAPS

LEMMA HeaderType ==
  ASSUME NEW q \in DocumentRequest
  PROVE  Header(q) \subseteq HeaderTask /\ FirstTasks(q) \subseteq HeaderTask
BY DEF DocumentRequest, Header, FirstTasks, HasHead, PostOcr, HeaderTask

LEMMA AgentOfType ==
  ASSUME NEW t \in HeaderTask
  PROVE  AgentOf(t) \in AgentName
BY DEF HeaderTask, AgentOf, AgentName

LEMMA HeaderFinite ==
  ASSUME NEW q \in DocumentRequest
  PROVE  IsFiniteSet(Header(q))
<1>1. HeaderTask = (({"ocr"} \cup {"compliance"}) \cup {"anomaly"}) \cup {"passthrough"}
  BY DEF HeaderTask, AgentName
<1>2. IsFiniteSet({"ocr"} \cup {"compliance"})
  BY FS_Singleton, FS_Union
<1>3. IsFiniteSet(({"ocr"} \cup {"compliance"}) \cup {"anomaly"})
  BY <1>2, FS_Singleton, FS_Union
<1>4. IsFiniteSet(HeaderTask)
  BY <1>1, <1>3, FS_Singleton, FS_Union
<1> QED
  BY <1>4, HeaderType, FS_Subset

\* As many results as header tasks, no two of them of one task: all are there.
LEMMA ChordCount ==
  ASSUME NEW q \in DocumentRequest, NEW ps,
         \A p \in ps : p.task \in Header(q),
         \A p, o \in ps : p.task = o.task => p = o,
         CountFull(q, ps)
  PROVE  {p.task : p \in ps} = Header(q)
<1> DEFINE T == {p.task : p \in ps}
           f == [p \in ps |-> p.task]
<1>1. IsFiniteSet(Header(q)) /\ T \in SUBSET Header(q)
  BY HeaderFinite
<1>2. IsFiniteSet(T)
  BY <1>1, FS_Subset
<1>3. f \in Injection(ps, T) /\ f \in Surjection(ps, T)
  BY DEF Injection, IsInjective, Surjection
<1> HIDE DEF f, T
<1>4. Cardinality(ps) = Cardinality(T)
  BY <1>2, <1>3, FS_Injection
<1>5. T = Header(q)
  BY <1>1, <1>4, FS_Subset DEF CountFull
<1> QED
  BY <1>5 DEF T

\* The header's results are one of each agent asked for.
LEMMA HeaderAgents ==
  ASSUME NEW q \in DocumentRequest
  PROVE  {AgentOf(t) : t \in Header(q)} = q.agents
<1>1. q.agents \subseteq AgentName /\ "passthrough" \notin AgentName
  BY DEF DocumentRequest, AgentName
<1>2. CASE HasHead(q)
  <2>1. Header(q) = {"passthrough"} \cup PostOcr(q) /\ q.agents = {"ocr"} \cup PostOcr(q)
    BY <1>1, <1>2 DEF Header, HasHead, PostOcr, PostOcrTasks, AgentName
  <2>2. \A t \in PostOcr(q) : AgentOf(t) = t
    BY <1>1 DEF PostOcr, AgentOf
  <2> QED
    BY <2>1, <2>2 DEF AgentOf
<1>3. CASE ~HasHead(q)
  <2>1. Header(q) = q.agents /\ \A t \in q.agents : AgentOf(t) = t
    BY <1>1, <1>3 DEF Header, AgentOf
  <2> QED
    BY <2>1
<1> QED
  BY <1>2, <1>3

\* A link is the whole header.
LEMMA LinkHeader ==
  ASSUME NEW q \in DocumentRequest, NEW t, IsLink(q, t)
  PROVE  Header(q) = {t}
<1>1. Cardinality(Header(q)) = 1 /\ t \in Header(q)
  BY DEF IsLink
<1>2. PICK x : Header(q) = {x}
  BY <1>1, HeaderFinite, FS_Singleton
<1> QED
  BY <1>1, <1>2

\* A link is not behind a head.
LEMMA LinkNoHead ==
  ASSUME NEW q \in DocumentRequest, NEW t, IsLink(q, t)
  PROVE  ~HasHead(q) /\ Header(q) = {t} /\ FirstTasks(q) = {t}
<1>1. Header(q) = {t}
  BY LinkHeader
<1>2. ~HasHead(q)
  BY <1>1 DEF HasHead, Header, PostOcr, PostOcrTasks
<1> QED
  BY <1>1, <1>2 DEF FirstTasks

\* A task of the canvas that is not a member of a chord is a link or the head.
LEMMA NotMember ==
  ASSUME NEW q \in DocumentRequest, NEW t \in Header(q) \cup FirstTasks(q), ~IsMember(q, t)
  PROVE  IsLink(q, t) \/ IsHead(q, t)
<1>1. CASE t \in Header(q)
  <2>1. IsFiniteSet(Header(q)) /\ Header(q) # {}
    BY <1>1, HeaderFinite
  <2>2. Cardinality(Header(q)) \in Nat /\ Cardinality(Header(q)) # 0
    BY <2>1, FS_CardinalityType, FS_EmptySet
  <2> QED
    BY <1>1, <2>2 DEF IsMember, IsChord, IsLink
<1>2. CASE t \notin Header(q)
  BY <1>2 DEF FirstTasks, IsHead
<1> QED
  BY <1>1, <1>2

\* The head is not of the header.
LEMMA HeaderOnce ==
  ASSUME NEW q \in DocumentRequest
  PROVE  Header(q) \subseteq HeaderTask /\ (HasHead(q) => "ocr" \notin Header(q))
BY HeaderType DEF Header, HasHead, PostOcr, PostOcrTasks

\* A document has a first task, and a header.
LEMMA HeaderSome ==
  ASSUME NEW q \in DocumentRequest
  PROVE  Header(q) # {} /\ FirstTasks(q) # {}
BY DEF DocumentRequest, Header, FirstTasks

\* Two first tasks are members of a chord, of a canvas without a head.
LEMMA TwoFirst ==
  ASSUME NEW q \in DocumentRequest, NEW t \in FirstTasks(q), NEW u \in FirstTasks(q), t # u
  PROVE  ~HasHead(q) /\ IsMember(q, t) /\ ~IsLink(q, t) /\ t # "collect"
<1>1. ~HasHead(q) /\ FirstTasks(q) = Header(q)
  BY DEF FirstTasks
<1>2. ~IsLink(q, t)
  BY <1>1, LinkHeader
<1>3. ~IsHead(q, t)
  BY <1>1 DEF IsHead
<1>4. t # "collect"
  BY HeaderType DEF HeaderTask, AgentName
<1> QED
  BY <1>1, <1>2, <1>3, <1>4, NotMember

\* A result of every header task, and one of each: the chord counts as full.
LEMMA AllCounted ==
  ASSUME NEW q \in DocumentRequest, NEW ps,
         {p.task : p \in ps} = Header(q),
         \A p, o \in ps : p.task = o.task => p = o
  PROVE  CountFull(q, ps)
<1> DEFINE f == [p \in ps |-> p.task]
<1>1. f \in Injection(ps, Header(q)) /\ f \in Surjection(ps, Header(q))
  BY DEF Injection, IsInjective, Surjection
<1> HIDE DEF f
<1> QED
  BY <1>1, HeaderFinite, FS_Injection DEF CountFull
=============================================================================
