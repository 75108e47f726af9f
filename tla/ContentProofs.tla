--------------------------- MODULE ContentProofs ---------------------------
(***************************************************************************)
(* Theorems about Content, for documents of any length, split over any     *)
(* number of responses, with tables of any size, and any text: the fold    *)
(* goes a block at a time and the plain form a rule at a time, so what     *)
(* each has done so far is an invariant.                                   *)
(***************************************************************************)
EXTENDS Content, FiniteSetTheorems, TLAPS

-----------------------------------------------------------------------------
(* The inductive invariant.                                                *)

GivenInv ==
  /\ responses \in Seq(Response)
  /\ \A p \in Places : BlockAt(p).type = "LINE" => IsText(BlockAt(p).text)
  /\ pipeline \in BOOLEAN

FoldedPlaces == {p \in Places : p[1] < folded \/ (p[1] = folded /\ p[2] <= block)}

\* What a list of tables has from these places.
AreTablesOf(tables, places) ==
  \E at \in [DOMAIN tables -> TablesAt(places)] :
    /\ GoesThrough(at, tables, TablesAt(places))
    /\ \A i \in DOMAIN tables : tables[i] = BlockAt(at[i])

\* The last of these places whose block has the id.
IsLast(p, id, places) ==
  /\ BlockAt(p).id = id
  /\ \A q \in places : BlockAt(q).id = id => q = p \/ Before(q, p)

AreNamesOf(by_id, places) ==
  /\ \A p \in places : BlockAt(p).id # "" => BlockAt(p).id \in DOMAIN by_id
  /\ "" \notin DOMAIN by_id
  /\ \A id \in DOMAIN by_id : \E p \in places : IsLast(p, id, places) /\ by_id[id] = BlockAt(p)

IsReadFrom(read, places) ==
  /\ IsTextOf(read.lines, places)
  /\ AreTablesOf(read.tables, places)
  /\ AreNamesOf(read.by_id, places)

\* The lines, tables and names read so far are those of the blocks folded so
\* far.
FoldInv ==
  /\ folded \in 0..Len(responses) /\ block \in 0..Len(Blocks)
  /\ reading = [pages |-> reading.pages, lines |-> reading.lines,
                tables |-> reading.tables, by_id |-> reading.by_id]
  /\ reading.pages \in 0..MaxReported
  /\ \A r \in 1..folded : responses[r].pages <= reading.pages
  /\ reading.lines \in Seq({text \in SUBSET Phrase : IsText(text)})
  /\ reading.tables \in Seq(Block)
  /\ IsReadFrom(reading, FoldedPlaces)

ExtractionInv ==
  /\ extraction.made \in BOOLEAN
  /\ ~extraction.made => extraction = NoExtraction
  /\ extraction.made =>
       /\ folded = Len(responses) /\ Exhausted
       /\ extraction.text = reading.lines
       /\ extraction.page_count \in 0..(MaxReported + 1)
       /\ extraction.text # <<>> => extraction.page_count > 0
       /\ reading.pages <= extraction.page_count
       /\ extraction.tables = [i \in DOMAIN reading.tables |-> BuildTable(reading.tables[i], reading.by_id)]

\* The plain form after n of the matching rules.
Checked(text, n) ==
  [text |-> text, findings |-> SubSeq(RuleChecks(text), 1, n), rules_evaluated |-> n, passed |-> TRUE]

ComplianceInv ==
  /\ node["compliance"] = "waiting" => compliance = ComplianceState({})
  /\ node["compliance"] = "checking" =>
       \E n \in 0..Len(RuleChecks(AgentText)) : compliance = Checked(AgentText, n)
  /\ node["compliance"] = "inspected" => compliance = ComplianceState(AgentText)
  /\ node["compliance"] = "done" => compliance = EvaluateRules(ComplianceState(AgentText))

AnomalyInv ==
  /\ node["anomaly"] # "checking"
  /\ node["anomaly"] = "waiting" => anomaly = AnomalyState({})
  /\ node["anomaly"] = "inspected" => anomaly = AnomalyState(AgentText)
  /\ node["anomaly"] = "done" => anomaly = ScoreDocument(AnomalyState(AgentText))

\* What an agent judges does not change once it started.
AgentInv ==
  /\ node \in [Agent -> {"waiting", "checking", "inspected", "done"}]
  /\ \A a \in Agent : node[a] # "waiting" => (pipeline => extraction.made)
  /\ ComplianceInv
  /\ AnomalyInv

IInv == GivenInv /\ FoldInv /\ ExtractionInv /\ AgentInv

-----------------------------------------------------------------------------
(* The rules' tables.                                                      *)

LEMMA ConcatRange ==
  ASSUME NEW S, NEW s \in Seq(S), NEW t \in Seq(S)
  PROVE  s \o t \in Seq(S) /\ Range(s \o t) = Range(s) \cup Range(t)
<1>1. s \o t \in Seq(S) /\ Len(s \o t) = Len(s) + Len(t)
  OBVIOUS
<1>2. /\ \A i \in 1..Len(s) : i \in 1..(Len(s) + Len(t)) /\ (s \o t)[i] = s[i]
      /\ \A i \in 1..Len(t) : Len(s) + i \in 1..(Len(s) + Len(t)) /\ (s \o t)[Len(s) + i] = t[i]
  OBVIOUS
<1>3. \A i \in 1..(Len(s) + Len(t)) : i \in 1..Len(s) \/ \E j \in 1..Len(t) : i = Len(s) + j
  <2> TAKE i \in 1..(Len(s) + Len(t))
  <2>1. i \in 1..Len(s) \/ (i - Len(s) \in 1..Len(t) /\ i = Len(s) + (i - Len(s)))
    OBVIOUS
  <2> QED
    BY <2>1
<1>4. DOMAIN (s \o t) = 1..(Len(s) + Len(t)) /\ DOMAIN s = 1..Len(s) /\ DOMAIN t = 1..Len(t)
  BY <1>1
<1>5. Range(s \o t) \subseteq Range(s) \cup Range(t)
  BY <1>2, <1>3, <1>4 DEF Range
<1>6. Range(s) \cup Range(t) \subseteq Range(s \o t)
  BY <1>2, <1>4 DEF Range
<1> QED
  BY <1>1, <1>5, <1>6

LEMMA FoundRange ==
  ASSUME NEW S, NEW entry, entry.says \in S, NEW text
  PROVE  /\ Found(entry, text) \in Seq(S)
         /\ Range(Found(entry, text)) = IF Matches(entry, text) THEN {entry.says} ELSE {}
<1>1. CASE Matches(entry, text)
  <2>1. Found(entry, text) = <<entry.says>>
    BY <1>1 DEF Found
  <2>2. Range(<<entry.says>>) = {entry.says} /\ <<entry.says>> \in Seq(S)
    BY DEF Range
  <2> QED
    BY <1>1, <2>1, <2>2
<1>2. CASE ~Matches(entry, text)
  <2>1. Found(entry, text) = <<>>
    BY <1>2 DEF Found
  <2>2. Range(<<>>) = {} /\ <<>> \in Seq(S)
    BY DEF Range
  <2> QED
    BY <1>2, <2>1, <2>2
<1> QED
  BY <1>1, <1>2

\* What is found in a table is what its entries say whose pattern the text
\* matches.
LEMMA AllFoundRange ==
  ASSUME NEW S, NEW table, \A k \in 1..5 : table[k].says \in S, NEW text
  PROVE  /\ AllFound(table, text) \in Seq(S)
         /\ Range(AllFound(table, text)) = {table[k].says : k \in {n \in 1..5 : Matches(table[n], text)}}
<1> DEFINE f(k) == Found(table[k], text)
           s2 == f(1) \o f(2)
           s3 == s2 \o f(3)
           s4 == s3 \o f(4)
           s5 == s4 \o f(5)
<1>1. \A k \in 1..5 : /\ f(k) \in Seq(S)
                       /\ Range(f(k)) = IF Matches(table[k], text) THEN {table[k].says} ELSE {}
  BY FoundRange
<1>2. AllFound(table, text) = s5
  BY DEF AllFound
<1> HIDE DEF f
<1>3. f(1) \in Seq(S) /\ f(2) \in Seq(S) /\ f(3) \in Seq(S) /\ f(4) \in Seq(S) /\ f(5) \in Seq(S)
  BY <1>1
<1>4. s2 \in Seq(S) /\ Range(s2) = Range(f(1)) \cup Range(f(2))
  BY <1>3, ConcatRange
<1> HIDE DEF s2
<1>5. s3 \in Seq(S) /\ Range(s3) = Range(s2) \cup Range(f(3))
  BY <1>3, <1>4, ConcatRange
<1> HIDE DEF s3
<1>6. s4 \in Seq(S) /\ Range(s4) = Range(s3) \cup Range(f(4))
  BY <1>3, <1>5, ConcatRange
<1> HIDE DEF s4
<1>7. s5 \in Seq(S) /\ Range(s5) = Range(s4) \cup Range(f(5))
  BY <1>3, <1>6, ConcatRange
<1> HIDE DEF s5
<1>8. Range(s5) = Range(f(1)) \cup Range(f(2)) \cup Range(f(3)) \cup Range(f(4)) \cup Range(f(5))
  BY <1>4, <1>5, <1>6, <1>7
<1>9. 1..5 = {1, 2, 3, 4, 5}
  OBVIOUS
<1>10. Range(s5) = {table[k].says : k \in {n \in 1..5 : Matches(table[n], text)}}
  BY <1>1, <1>8, <1>9
<1> QED
  BY <1>2, <1>7, <1>10

Finding == {Rules[k].says : k \in 1..5}

LEMMA ChecksType ==
  ASSUME NEW text
  PROVE  /\ RuleChecks(text) \in Seq(Finding)
         /\ Range(RuleChecks(text)) = {Rules[k].says : k \in {n \in 1..5 : Matches(Rules[n], text)}}
<1>1. \A k \in 1..5 : Rules[k].says \in Finding
  BY DEF Finding
<1> QED
  BY <1>1, AllFoundRange DEF RuleChecks

Reason == {Signals[k].says : k \in 1..5}

LEMMA ReasonsType ==
  ASSUME NEW text
  PROVE  /\ AllFound(Signals, text) \in Seq(Reason)
         /\ Range(AllFound(Signals, text)) = {Signals[k].says : k \in {n \in 1..5 : Matches(Signals[n], text)}}
<1>1. \A k \in 1..5 : Signals[k].says \in Reason
  BY DEF Reason
<1> QED
  BY <1>1, AllFoundRange

LEMMA SignalWeights ==
  /\ Signals[1].weight = 25 /\ Signals[2].weight = 20 /\ Signals[3].weight = 25
  /\ Signals[4].weight = 15 /\ Signals[5].weight = 15
  BY DEF Signals

LEMMA ScoreType == ASSUME NEW text PROVE Score(Signals, text) \in 0..100
<1> DEFINE w(k) == Weight(Signals[k], text)
<1>1. w(1) \in Nat /\ w(2) \in Nat /\ w(3) \in Nat /\ w(4) \in Nat /\ w(5) \in Nat
  BY SignalWeights DEF Weight
<1> DEFINE sum == w(1) + w(2) + w(3) + w(4) + w(5)
<1>2. Score(Signals, text) = IF sum < 100 THEN sum ELSE 100
  BY DEF Score
<1> HIDE DEF w
<1>3. sum \in Nat
  BY <1>1
<1> HIDE DEF sum
<1> QED
  BY <1>2, <1>3

\* The node's copy of the signals has what the plain form's has, entry by entry.
LEMMA CopiesAgree == ScoredSignals = Signals
<1>1. /\ ScoredSignals[1] = Signals[1] /\ ScoredSignals[2] = Signals[2] /\ ScoredSignals[3] = Signals[3]
      /\ ScoredSignals[4] = Signals[4] /\ ScoredSignals[5] = Signals[5]
  BY DEF ScoredSignals, Signals
<1>2. /\ ScoredSignals = <<ScoredSignals[1], ScoredSignals[2], ScoredSignals[3], ScoredSignals[4], ScoredSignals[5]>>
      /\ Signals = <<Signals[1], Signals[2], Signals[3], Signals[4], Signals[5]>>
  BY DEF ScoredSignals, Signals
<1> QED
  BY <1>1, <1>2

\* A rule of high severity has no alternative a signal of the plain form lacks.
LEMMA RiskIsReason == \A text : ~Passes(RuleChecks(text)) => AllFound(Signals, text) # <<>>
<1> TAKE text
<1> SUFFICES ASSUME ~Passes(RuleChecks(text)) PROVE AllFound(Signals, text) # <<>>
  OBVIOUS
<1>1. PICK i \in DOMAIN RuleChecks(text) : RuleChecks(text)[i].severity \in {"high", "critical"}
  BY DEF Passes
<1>2. PICK k \in {n \in 1..5 : Matches(Rules[n], text)} : Rules[k].says = RuleChecks(text)[i]
  BY <1>1, ChecksType DEF Range
<1>3. k \in {4, 5}
  <2>1. k \in {1, 2, 3, 4, 5}
    OBVIOUS
  <2>2. /\ Rules[1].says.severity = "low" /\ Rules[2].says.severity = "low"
        /\ Rules[3].says.severity = "medium"
    BY DEF Rules
  <2> QED
    BY <1>1, <1>2, <2>1, <2>2
<1>4. /\ Rules[4].pattern = {"urgent", "immediate", "emergency", "same day"}
      /\ Rules[5].pattern = {"wire transfer", "gift card", "prepaid", "cash app"}
  BY DEF Rules
<1>5. /\ Signals[1].pattern = {"urgent", "immediate", "emergency", "same day"}
      /\ Signals[3].pattern = {"wire transfer", "gift card", "cash app", "prepaid"}
  BY DEF Signals
<1>6. Rules[4].pattern = Signals[1].pattern /\ Rules[5].pattern = Signals[3].pattern
  BY <1>4, <1>5
<1>7. \E j \in 1..5 : Matches(Signals[j], text)
  BY <1>2, <1>3, <1>6 DEF Matches
<1>8. Range(AllFound(Signals, text)) # {}
  <2>1. PICK j \in 1..5 : Matches(Signals[j], text)
    BY <1>7
  <2>2. Signals[j].says \in {Signals[m].says : m \in {n \in 1..5 : Matches(Signals[n], text)}}
    BY <2>1
  <2> QED
    BY <2>2, ReasonsType
<1> QED
  BY <1>8 DEF Range

-----------------------------------------------------------------------------
(* The grid of a table (TableGrid), for tables of any size.  Induction is  *)
(* by the least counterexample.                                            *)

\* Every set of numbers has a least one.
LEMMA LeastNumber ==
  ASSUME NEW T, T \subseteq Nat, T # {}
  PROVE  \E n \in T : \A m \in T : n <= m
<1> DEFINE U == {0..n : n \in T}
           R == StrictSubsetOrdering(Nat)
           F == FiniteSubsetsOf(Nat)
<1>1. IsWellFoundedOn(R, F)
  BY FS_StrictSubsetOrderingWellFounded
<1>2. U \subseteq F
  <2> SUFFICES ASSUME NEW n \in T PROVE 0..n \in F
    OBVIOUS
  <2>1. 0 \in Int /\ n \in Int /\ 0..n \in SUBSET Nat
    OBVIOUS
  <2>2. IsFiniteSet(0..n)
    BY <2>1, FS_Interval
  <2> QED
    BY <2>1, <2>2 DEF FiniteSubsetsOf
<1>3. PICK u \in U : \A v \in U : <<v, u>> \notin R
  <2>1. U # {}
    OBVIOUS
  <2> HIDE DEF U, R, F
  <2> QED
    BY <1>1, <1>2, <2>1, WFMin
<1>4. PICK n \in T : u = 0..n
  OBVIOUS
<1>5. ASSUME NEW m \in T, m < n PROVE FALSE
  <2>1. 0..m \in U /\ 0..m \subseteq 0..n /\ n \in 0..n /\ n \notin 0..m
    BY <1>5
  <2>2. 0..m \in SUBSET Nat /\ 0..n \in SUBSET Nat
    OBVIOUS
  <2> QED
    BY <1>3, <1>4, <2>1, <2>2 DEF StrictSubsetOrdering
<1>6. \A m \in T : n <= m
  BY <1>5
<1> QED
  BY <1>6

\* A finite set of numbers has a greatest one.
LEMMA GreatestNumber ==
  ASSUME NEW S \in SUBSET Nat, IsFiniteSet(S), S # {}
  PROVE  Max(S) \in S /\ \A x \in S : x <= Max(S)
<1> DEFINE Bad(n) == \E s \in SUBSET S : Cardinality(s) = n /\ s # {} /\ ~\E x \in s : \A y \in s : x >= y
           T == {n \in Nat : Bad(n)}
<1>1. ASSUME T # {} PROVE FALSE
  <2>1. PICK n \in T : \A m \in T : n <= m
    <3>1. T \subseteq Nat
      OBVIOUS
    <3> HIDE DEF T
    <3> QED
      BY <1>1, <3>1, LeastNumber
  <2>2. PICK s \in SUBSET S : Cardinality(s) = n /\ s # {} /\ ~\E x \in s : \A y \in s : x >= y
    BY <2>1
  <2>3. PICK x \in s : TRUE
    BY <2>2
  <2> DEFINE r == s \ {x}
  <2>4. IsFiniteSet(s) /\ IsFiniteSet(r) /\ Cardinality(r) = Cardinality(s) - 1
    BY <2>3, FS_Subset, FS_RemoveElement
  <2>5. Cardinality(r) \in Nat /\ Cardinality(r) < n /\ r \in SUBSET S
    BY <2>1, <2>2, <2>4, FS_CardinalityType
  <2>6. ~Bad(Cardinality(r))
    BY <2>1, <2>5
  <2>7. r = {} \/ \E y \in r : \A z \in r : y >= z
    BY <2>5, <2>6
  <2>8. CASE r = {}
    BY <2>2, <2>3, <2>8
  <2>9. CASE \E y \in r : \A z \in r : y >= z
    <3>1. PICK y \in r : \A z \in r : y >= z
      BY <2>9
    <3>2. x \in Nat /\ y \in Nat /\ \A z \in s : z \in Nat
      BY <2>3, <3>1
    <3>3. CASE x >= y
      <4>1. \A z \in s : x >= z
        BY <3>1, <3>2, <3>3
      <4> QED
        BY <2>2, <2>3, <4>1
    <3>4. CASE y >= x
      <4>1. \A z \in s : y >= z
        BY <3>1, <3>2, <3>4
      <4> QED
        BY <2>2, <3>1, <4>1
    <3> QED
      BY <3>2, <3>3, <3>4
  <2> QED
    BY <2>7, <2>8, <2>9
<1>2. \E x \in S : \A y \in S : x >= y
  <2>1. Cardinality(S) \in Nat /\ ~Bad(Cardinality(S))
    BY <1>1, FS_CardinalityType
  <2> QED
    BY <2>1
<1>3. Max(S) \in S /\ \A y \in S : Max(S) >= y
  BY <1>2 DEF Max
<1> QED
  BY <1>3

LEMMA PositionsFinite ==
  ASSUME NEW n \in Nat, NEW S \in SUBSET (1..n)
  PROVE  IsFiniteSet(S) /\ Cardinality(S) \in Nat
<1>1. IsFiniteSet(1..n)
  <2>1. 1 \in Int /\ n \in Int
    OBVIOUS
  <2> QED
    BY <2>1, FS_Interval
<1>2. IsFiniteSet(S)
  BY <1>1, FS_Subset
<1> QED
  BY <1>2, FS_CardinalityType

\* A set of positions can be gone through in order.
LEMMA InOrderExists ==
  ASSUME NEW n \in Nat
  PROVE  \A S \in SUBSET (1..n) :
           \E at \in [1..Cardinality(S) -> S] : \A i, j \in DOMAIN at : i < j => at[i] < at[j]
<1> DEFINE Good(m) == \A S \in SUBSET (1..m) :
             \E at \in [1..Cardinality(S) -> S] : \A i, j \in DOMAIN at : i < j => at[i] < at[j]
           T == {m \in Nat : ~Good(m)}
<1> SUFFICES ASSUME T # {} PROVE FALSE
  OBVIOUS
<1>1. PICK m \in T : \A k \in T : m <= k
  <2>1. T \subseteq Nat
    OBVIOUS
  <2> HIDE DEF T
  <2> QED
    BY <2>1, LeastNumber
<1>2. PICK S \in SUBSET (1..m) :
        ~\E at \in [1..Cardinality(S) -> S] : \A i, j \in DOMAIN at : i < j => at[i] < at[j]
  BY <1>1
<1>3. S # {}
  <2> SUFFICES ASSUME S = {} PROVE FALSE
    OBVIOUS
  <2>1. Cardinality(S) = 0
    BY FS_EmptySet
  <2>2. [i \in 1..0 |-> 0] \in [1..Cardinality(S) -> S]
    BY <2>1
  <2>3. \A i, j \in DOMAIN [k \in 1..0 |-> 0] : FALSE
    OBVIOUS
  <2> QED
    BY <1>2, <2>2, <2>3
<1>4. m \in Nat /\ m - 1 \in Nat /\ Good(m - 1)
  <2>1. m \in Nat
    OBVIOUS
  <2>2. m # 0
    <3>1. 1..0 = {}
      OBVIOUS
    <3> HIDE DEF T
    <3> QED
      BY <1>3, <3>1
  <2>3. m - 1 \in Nat /\ ~(m <= m - 1)
    BY <2>1, <2>2
  <2>4. m - 1 \notin T
    <3> HIDE DEF T
    <3> QED
      BY <1>1, <2>3
  <2> QED
    BY <2>1, <2>3, <2>4
<1>5. IsFiniteSet(S) /\ Cardinality(S) \in Nat
  BY <1>4, PositionsFinite
<1>6. CASE m \notin S
  <2>1. S \in SUBSET (1..(m - 1))
    BY <1>4, <1>6
  <2> QED
    BY <1>2, <1>4, <2>1
<1>7. CASE m \in S
  <2> DEFINE R == S \ {m}
             c == Cardinality(R)
  <2>1. R \in SUBSET (1..(m - 1))
    BY <1>4
  <2>2. Cardinality(S) = c + 1 /\ c \in Nat
    <3>1. IsFiniteSet(R) /\ Cardinality(R) = Cardinality(S) - 1
      BY <1>5, <1>7, FS_RemoveElement
    <3>2. Cardinality(R) \in Nat
      BY <3>1, FS_CardinalityType
    <3> QED
      BY <1>5, <3>1, <3>2
  <2>3. PICK at \in [1..c -> R] : \A i, j \in DOMAIN at : i < j => at[i] < at[j]
    BY <1>4, <2>1
  <2> HIDE DEF c
  <2> DEFINE to == [i \in 1..(c + 1) |-> IF i = c + 1 THEN m ELSE at[i]]
  <2>4. to \in [1..Cardinality(S) -> S]
    BY <1>7, <2>2, <2>3
  <2>5. ASSUME NEW i \in 1..(c + 1), NEW j \in 1..(c + 1), i < j PROVE to[i] < to[j]
    <3>1. i \in 1..c
      BY <2>2, <2>5
    <3>2. at[i] \in R
      BY <2>3, <3>1
    <3>3. at[i] \in 1..(m - 1)
      BY <2>1, <3>2
    <3>4. CASE j = c + 1
      BY <1>4, <2>2, <3>1, <3>3, <3>4
    <3>5. CASE j # c + 1
      BY <2>2, <2>3, <2>5, <3>1, <3>5
    <3> QED
      BY <3>4, <3>5
  <2>6. DOMAIN to = 1..(c + 1)
    OBVIOUS
  <2> HIDE DEF to
  <2> QED
    BY <1>2, <2>4, <2>5, <2>6
<1> QED
  BY <1>6, <1>7

\* Going through a set of positions in order misses none.
LEMMA InOrderType ==
  ASSUME NEW n \in Nat, NEW S \in SUBSET (1..n)
  PROVE  /\ Cardinality(S) \in Nat /\ DOMAIN InOrder(S) = 1..Cardinality(S)
         /\ InOrder(S) \in [1..Cardinality(S) -> S]
         /\ \A i, j \in 1..Cardinality(S) : i < j => InOrder(S)[i] < InOrder(S)[j]
         /\ \A k \in S : \E i \in 1..Cardinality(S) : InOrder(S)[i] = k
<1> DEFINE at == InOrder(S)
           c == Cardinality(S)
<1>1. at \in [1..c -> S] /\ \A i, j \in DOMAIN at : i < j => at[i] < at[j]
  BY InOrderExists DEF InOrder
<1>2. IsFiniteSet(S) /\ c \in Nat
  BY PositionsFinite
<1> HIDE DEF at, c
<1>3. ASSUME NEW k \in S, \A i \in 1..c : at[i] # k PROVE FALSE
  <2> DEFINE R == S \ {k}
  <2>1. IsFiniteSet(R) /\ Cardinality(R) = c - 1
    BY <1>2, FS_RemoveElement DEF c
  <2>2. IsFiniteSet(1..c) /\ Cardinality(1..c) = c
    BY <1>2, FS_Interval
  <2>3. at \in [1..c -> R]
    BY <1>1, <1>3
  <2>4. \E i, j \in 1..c : i # j /\ at[i] = at[j]
    BY <1>2, <2>1, <2>2, <2>3, FS_PigeonHole
  <2>5. PICK i \in 1..c, j \in 1..c : i # j /\ at[i] = at[j]
    BY <2>4
  <2>6. at[i] \in S /\ at[j] \in S /\ (i < j \/ j < i) /\ DOMAIN at = 1..c
    BY <1>1, <1>2, <2>5
  <2>7. \A x \in S : x \in Nat
    OBVIOUS
  <2>8. at[i] < at[j] \/ at[j] < at[i]
    BY <1>1, <2>6
  <2>9. at[i] \in Nat /\ at[j] \in Nat
    BY <2>6, <2>7
  <2> QED
    BY <2>5, <2>8, <2>9
<1>4. DOMAIN at = 1..c
  BY <1>1
<1> QED
  BY <1>1, <1>2, <1>3, <1>4 DEF at, c

Placed(h, cells, byId, rows_n, cols_n, m) ==
  h = [n \in 0..m |-> IF n = 0 THEN EmptyGrid(rows_n, cols_n) ELSE Place(h[n - 1], cells[n], byId)]

\* The loop over the cells is well defined.
LEMMA PlacedExists ==
  ASSUME NEW cells, NEW byId, NEW rows_n, NEW cols_n, NEW m \in Nat
  PROVE  \E h : Placed(h, cells, byId, rows_n, cols_n, m)
<1> DEFINE P(h, k) == Placed(h, cells, byId, rows_n, cols_n, k)
           T == {k \in Nat : ~\E h : P(h, k)}
<1> SUFFICES ASSUME T # {} PROVE FALSE
  OBVIOUS
<1>1. PICK k \in T : \A l \in T : k <= l
  <2>1. T \subseteq Nat
    OBVIOUS
  <2> HIDE DEF T
  <2> QED
    BY <2>1, LeastNumber
<1>2. k \in Nat /\ ~\E h : P(h, k)
  OBVIOUS
<1>3. CASE k = 0
  <2> DEFINE h == [n \in 0..0 |-> EmptyGrid(rows_n, cols_n)]
  <2>1. P(h, 0)
    BY DEF Placed
  <2> QED
    BY <1>2, <1>3, <2>1
<1>4. CASE k # 0
  <2>1. k - 1 \in Nat /\ ~(k <= k - 1)
    BY <1>2, <1>4
  <2>2. PICK h : P(h, k - 1)
    BY <1>1, <2>1
  <2> DEFINE E == EmptyGrid(rows_n, cols_n)
             g == [n \in 0..k |-> IF n < k THEN h[n] ELSE Place(h[k - 1], cells[k], byId)]
  <2>3. h = [n \in 0..(k - 1) |-> IF n = 0 THEN E ELSE Place(h[n - 1], cells[n], byId)]
    BY <2>2 DEF Placed
  <2> HIDE DEF E
  <2>4. ASSUME NEW n \in 0..k
        PROVE  g[n] = IF n = 0 THEN E ELSE Place(g[n - 1], cells[n], byId)
    <3>1. n \in Nat /\ n <= k
      BY <1>2
    <3>2. CASE n = 0
      BY <1>2, <1>4, <2>1, <2>3, <3>2
    <3>3. CASE n # 0 /\ n < k
      <4>1. n \in 0..(k - 1) /\ n - 1 \in 0..k /\ n - 1 < k
        BY <1>2, <3>1, <3>3
      <4>2. g[n] = h[n] /\ g[n - 1] = h[n - 1]
        BY <3>3, <4>1
      <4> QED
        BY <2>3, <3>3, <4>1, <4>2
    <3>4. CASE n = k
      <4>1. k - 1 \in 0..k /\ k - 1 < k /\ ~(k < k)
        BY <1>2, <1>4
      <4>2. g[n] = Place(h[k - 1], cells[k], byId) /\ g[k - 1] = h[k - 1]
        BY <3>4, <4>1
      <4> QED
        BY <1>4, <3>4, <4>2
    <3> QED
      BY <3>1, <3>2, <3>3, <3>4, <1>2
  <2>5. P(g, k)
    <3>1. g = [n \in 0..k |-> g[n]]
      OBVIOUS
    <3> HIDE DEF g
    <3>2. g = [n \in 0..k |-> IF n = 0 THEN E ELSE Place(g[n - 1], cells[n], byId)]
      BY <2>4, <3>1
    <3> QED
      BY <3>2 DEF Placed, E
  <2> QED
    BY <1>2, <2>5
<1> QED
  BY <1>3, <1>4

\* The loop starts from the empty grid and places a cell each round.
Rounds(h, cells, byId, rows_n, cols_n) ==
  /\ h[0] = EmptyGrid(rows_n, cols_n)
  /\ \A n \in 1..Len(cells) : h[n] = Place(h[n - 1], cells[n], byId)
  /\ Grid(cells, byId, rows_n, cols_n) = h[Len(cells)]

LEMMA GridLoop ==
  ASSUME NEW cells, NEW byId, NEW rows_n, NEW cols_n, Len(cells) \in Nat
  PROVE  \E h : Rounds(h, cells, byId, rows_n, cols_n)
<1> DEFINE N == Len(cells)
           E == EmptyGrid(rows_n, cols_n)
           h == CHOOSE h : Placed(h, cells, byId, rows_n, cols_n, N)
<1>1. Grid(cells, byId, rows_n, cols_n) = h[N]
  BY DEF Grid, Placed
<1>2. Placed(h, cells, byId, rows_n, cols_n, N)
  BY PlacedExists
<1> HIDE DEF h
<1>3. h = [n \in 0..N |-> IF n = 0 THEN E ELSE Place(h[n - 1], cells[n], byId)]
  BY <1>2 DEF Placed
<1> HIDE DEF E
<1>4. h[0] = E
  BY <1>3
<1>5. \A n \in 1..N : h[n] = Place(h[n - 1], cells[n], byId)
  BY <1>3
<1> QED
  BY <1>1, <1>4, <1>5 DEF E, Rounds

Begins(cell, r, c) == cell.row = r /\ cell.column = c

\* A grid of this size has, of the first n cells, the last at each position.
Filled(grid, cells, byId, rows_n, cols_n, n) ==
  /\ grid = [r \in 1..rows_n |-> grid[r]]
  /\ \A r \in 1..rows_n : DOMAIN grid[r] = 1..cols_n
  /\ \A r \in 1..rows_n, c \in 1..cols_n :
       \/ (\A i \in 1..n : ~Begins(cells[i], r, c)) /\ grid[r][c] = <<>>
       \/ \E i \in 1..n : /\ Begins(cells[i], r, c)
                          /\ \A j \in 1..n : Begins(cells[j], r, c) => j <= i
                          /\ grid[r][c] = CellText(cells[i], byId)

LEMMA PlaceOne ==
  ASSUME NEW cells, NEW byId, NEW rows_n, NEW cols_n, NEW n \in Nat, NEW grid,
         Filled(grid, cells, byId, rows_n, cols_n, n)
  PROVE  Filled(Place(grid, cells[n + 1], byId), cells, byId, rows_n, cols_n, n + 1)
<1> DEFINE cell == cells[n + 1]
           text == CellText(cell, byId)
           next == Place(grid, cell, byId)
           inside == cell.row \in 1..rows_n /\ cell.column \in 1..cols_n
<1>1. inside <=> cell.row \in DOMAIN grid /\ cell.column \in DOMAIN grid[cell.row]
  BY DEF Filled
<1>2. next = IF inside THEN [grid EXCEPT ![cell.row][cell.column] = text] ELSE grid
  BY <1>1 DEF Place
<1> HIDE DEF next, text
<1>3. next = [r \in 1..rows_n |-> next[r]] /\ \A r \in 1..rows_n : DOMAIN next[r] = 1..cols_n
  BY <1>2 DEF Filled
<1>4. ASSUME NEW r \in 1..rows_n, NEW c \in 1..cols_n
      PROVE  next[r][c] = IF Begins(cell, r, c) THEN text ELSE grid[r][c]
  <2>1. CASE inside
    BY <1>2, <1>4, <2>1 DEF Filled, Begins
  <2>2. CASE ~inside
    BY <1>2, <1>4, <2>2 DEF Begins
  <2> QED
    BY <2>1, <2>2
<1>5. \A i \in 1..(n + 1) : i \in 1..n \/ i = n + 1
  OBVIOUS
<1>6. n + 1 \in 1..(n + 1) /\ \A i \in 1..n : i \in 1..(n + 1) /\ i <= n + 1 /\ i # n + 1
  OBVIOUS
<1>7. ASSUME NEW r \in 1..rows_n, NEW c \in 1..cols_n
      PROVE  \/ (\A i \in 1..(n + 1) : ~Begins(cells[i], r, c)) /\ next[r][c] = <<>>
             \/ \E i \in 1..(n + 1) : /\ Begins(cells[i], r, c)
                                      /\ \A j \in 1..(n + 1) : Begins(cells[j], r, c) => j <= i
                                      /\ next[r][c] = CellText(cells[i], byId)
  <2>1. CASE Begins(cell, r, c)
    <3>1. next[r][c] = CellText(cells[n + 1], byId)
      BY <1>4, <2>1 DEF text
    <3>2. \A j \in 1..(n + 1) : j <= n + 1
      OBVIOUS
    <3> QED
      BY <1>6, <2>1, <3>1, <3>2
  <2>2. CASE ~Begins(cell, r, c)
    <3>1. next[r][c] = grid[r][c]
      BY <1>4, <2>2
    <3>2. CASE (\A i \in 1..n : ~Begins(cells[i], r, c)) /\ grid[r][c] = <<>>
      BY <1>5, <2>2, <3>1, <3>2
    <3>3. CASE \E i \in 1..n : /\ Begins(cells[i], r, c)
                               /\ \A j \in 1..n : Begins(cells[j], r, c) => j <= i
                               /\ grid[r][c] = CellText(cells[i], byId)
      <4>1. PICK i \in 1..n : /\ Begins(cells[i], r, c)
                              /\ \A j \in 1..n : Begins(cells[j], r, c) => j <= i
                              /\ grid[r][c] = CellText(cells[i], byId)
        BY <3>3
      <4>2. \A j \in 1..(n + 1) : Begins(cells[j], r, c) => j <= i
        BY <1>5, <2>2, <4>1
      <4> QED
        BY <1>6, <3>1, <4>1, <4>2
    <3> QED
      BY <1>7, <3>2, <3>3 DEF Filled
  <2> QED
    BY <2>1, <2>2
<1> QED
  BY <1>3, <1>7 DEF Filled, next

\* The loop places every cell, and a later one over an earlier one.
LEMMA GridFilled ==
  ASSUME NEW cells, NEW byId, NEW rows_n \in Nat, NEW cols_n \in Nat, Len(cells) \in Nat
  PROVE  Filled(Grid(cells, byId, rows_n, cols_n), cells, byId, rows_n, cols_n, Len(cells))
<1>0. PICK h : Rounds(h, cells, byId, rows_n, cols_n)
  BY GridLoop
<1> DEFINE N == Len(cells)
           F(g, n) == Filled(g, cells, byId, rows_n, cols_n, n)
<1>1. /\ h[0] = EmptyGrid(rows_n, cols_n)
      /\ \A n \in 1..N : h[n] = Place(h[n - 1], cells[n], byId)
      /\ Grid(cells, byId, rows_n, cols_n) = h[N]
  BY <1>0 DEF Rounds
<1>2. F(h[0], 0)
  <2>1. h[0] = [r \in 1..rows_n |-> [c \in 1..cols_n |-> <<>>]]
    BY <1>1 DEF EmptyGrid
  <2>2. 1..0 = {}
    OBVIOUS
  <2> QED
    BY <2>1, <2>2 DEF Filled
<1>3. ASSUME NEW n \in Nat, n < N, F(h[n], n) PROVE F(h[n + 1], n + 1)
  <2>1. n + 1 \in 1..N /\ n + 1 - 1 = n
    BY <1>3
  <2>2. h[n + 1] = Place(h[n], cells[n + 1], byId)
    BY <1>1, <2>1
  <2> QED
    BY <1>3, <2>2, PlaceOne
<1> DEFINE T == {n \in 0..N : ~F(h[n], n)}
<1> HIDE DEF F
<1>4. T = {}
  <2> SUFFICES ASSUME T # {} PROVE FALSE
    OBVIOUS
  <2>1. PICK n \in T : \A m \in T : n <= m
    <3>1. T \subseteq Nat
      OBVIOUS
    <3> HIDE DEF T
    <3> QED
      BY <3>1, LeastNumber
  <2>2. n \in 0..N /\ ~F(h[n], n) /\ n # 0
    BY <1>2
  <2>3. n - 1 \in 0..N /\ n - 1 \notin T /\ n - 1 \in Nat /\ n - 1 < N /\ n - 1 + 1 = n
    BY <2>1, <2>2
  <2>4. F(h[n - 1], n - 1)
    BY <2>3
  <2> QED
    BY <1>3, <2>2, <2>3, <2>4
<1>5. N \in 0..N
  OBVIOUS
<1> QED
  BY <1>1, <1>4, <1>5 DEF F

Kept(table, byId) == {k \in Children(table, byId) : byId[table.children[k]].type = "CELL"}

\* The cells of a table are the children kept, in their order.
LEMMA CellsInOrder ==
  ASSUME NEW table, NEW byId, table.children \in Seq(STRING)
  PROVE  \E at : /\ Len(Cells(table, byId)) \in Nat
                 /\ DOMAIN Cells(table, byId) = 1..Len(Cells(table, byId))
                 /\ \A i \in 1..Len(Cells(table, byId)) :
                      at[i] \in Kept(table, byId) /\ Cells(table, byId)[i] = byId[table.children[at[i]]]
                 /\ \A i, j \in 1..Len(Cells(table, byId)) : i < j => at[i] < at[j]
                 /\ \A k \in Kept(table, byId) : \E i \in 1..Len(Cells(table, byId)) : at[i] = k
<1> DEFINE C == Kept(table, byId)
           c == Cardinality(C)
           at == InOrder(C)
           cells == Cells(table, byId)
<1>1. C \in SUBSET (1..Len(table.children)) /\ Len(table.children) \in Nat
  BY DEF Kept, Children
<1>2. cells = [i \in DOMAIN at |-> byId[table.children[at[i]]]]
  BY DEF Cells, Kept
<1> HIDE DEF C
<1>3. /\ c \in Nat /\ DOMAIN at = 1..c /\ at \in [1..c -> C]
      /\ \A i, j \in 1..c : i < j => at[i] < at[j]
      /\ \A k \in C : \E i \in 1..c : at[i] = k
  BY <1>1, InOrderType
<1> HIDE DEF c, at, cells
<1>4. DOMAIN cells = 1..c /\ \A i \in 1..c : cells[i] = byId[table.children[at[i]]] /\ at[i] \in C
  BY <1>2, <1>3
<1>5. Len(cells) = c
  BY <1>2, <1>3
<1> QED
  BY <1>3, <1>4, <1>5 DEF C, cells

LEMMA SizeOf ==
  ASSUME NEW n \in Nat, NEW f \in [1..n -> Nat]
  PROVE  LET m == Max({f[i] : i \in 1..n} \cup {0})
         IN /\ m \in Nat
            /\ \A i \in 1..n : f[i] <= m
            /\ n # 0 => \E i \in 1..n : f[i] = m
<1> DEFINE S == {f[i] : i \in 1..n} \cup {0}
<1>1. IsFiniteSet(S)
  <2>1. IsFiniteSet(1..n)
    <3>1. 1..n \in SUBSET (1..n)
      OBVIOUS
    <3> QED
      BY <3>1, PositionsFinite
  <2>2. IsFiniteSet({f[i] : i \in 1..n})
    <3> DEFINE D == 1..n
               I == {f[i] : i \in D}
    <3>1. IsFiniteSet(D) /\ f \in Surjection(D, I)
      BY <2>1 DEF Surjection
    <3> HIDE DEF D, I
    <3>2. IsFiniteSet(I)
      BY <3>1, FS_Surjection
    <3> QED
      BY <3>2 DEF D, I
  <2> QED
    BY <2>2, FS_AddElement
<1>2. S \in SUBSET Nat /\ S # {}
  OBVIOUS
<1>3. Max(S) \in S /\ \A x \in S : x <= Max(S)
  <2> HIDE DEF S
  <2> QED
    BY <1>1, <1>2, GreatestNumber
<1> DEFINE m == Max(S)
<1>4. m \in S /\ \A x \in S : x <= m
  BY <1>3
<1> HIDE DEF m
<1>5. \A i \in 1..n : f[i] \in S /\ f[i] \in Nat
  OBVIOUS
<1>6. m \in Nat /\ \A i \in 1..n : f[i] <= m
  BY <1>2, <1>4, <1>5
<1>7. n # 0 => \E i \in 1..n : f[i] = m
  <2>1. CASE m = 0
    <3>1. n # 0 => 1 \in 1..n
      OBVIOUS
    <3> QED
      BY <1>5, <1>6, <2>1, <3>1
  <2>2. CASE m # 0
    BY <1>4, <2>2
  <2> QED
    BY <2>1, <2>2
<1> QED
  BY <1>6, <1>7 DEF m

\* Cells that a table has by these ids: where they begin, and how far they go.
LEMMA TableBuilt ==
  ASSUME NEW table, NEW byId, table.children \in Seq(STRING),
         \A id \in DOMAIN byId : /\ byId[id].row \in Nat /\ byId[id].column \in Nat
                                 /\ byId[id].rowSpan \in Nat /\ byId[id].columnSpan \in Nat
  PROVE  LET cell(k) == byId[table.children[k]]
             kept == Kept(table, byId)
             grid == BuildTable(table, byId)
         IN \E rows_n, cols_n \in Nat :
              /\ grid = [r \in 1..rows_n |-> grid[r]]
              /\ \A r \in 1..rows_n : DOMAIN grid[r] = 1..cols_n
              /\ \A k \in kept : LastRow(cell(k)) <= rows_n /\ LastColumn(cell(k)) <= cols_n
              /\ rows_n # 0 => \E k \in kept : LastRow(cell(k)) = rows_n
              /\ rows_n # 0 => \E k \in kept : LastColumn(cell(k)) = cols_n
              /\ \A r \in 1..rows_n, c \in 1..cols_n :
                   \/ (\A k \in kept : ~Begins(cell(k), r, c)) /\ grid[r][c] = <<>>
                   \/ \E k \in kept : /\ Begins(cell(k), r, c)
                                      /\ \A j \in kept : Begins(cell(j), r, c) => j <= k
                                      /\ grid[r][c] = CellText(cell(k), byId)
<1> DEFINE cells == Cells(table, byId)
           N == Len(cells)
           kept == Kept(table, byId)
           cell(k) == byId[table.children[k]]
           grid == BuildTable(table, byId)
<1>1. PICK at : /\ Len(Cells(table, byId)) \in Nat
                /\ DOMAIN Cells(table, byId) = 1..Len(Cells(table, byId))
                /\ \A i \in 1..Len(Cells(table, byId)) :
                     at[i] \in Kept(table, byId) /\ Cells(table, byId)[i] = byId[table.children[at[i]]]
                /\ \A i, j \in 1..Len(Cells(table, byId)) : i < j => at[i] < at[j]
                /\ \A k \in Kept(table, byId) : \E i \in 1..Len(Cells(table, byId)) : at[i] = k
  BY CellsInOrder
<1>2. \A k \in kept : table.children[k] \in DOMAIN byId /\ k \in Nat
  <2>1. \A k \in kept : k \in DOMAIN table.children
    BY DEF Kept, Children
  <2> QED
    BY <2>1 DEF Kept, Children
<1>3. \A k \in kept : LastRow(cell(k)) \in Nat /\ LastColumn(cell(k)) \in Nat
  <2> SUFFICES ASSUME NEW k \in kept PROVE LastRow(cell(k)) \in Nat /\ LastColumn(cell(k)) \in Nat
    OBVIOUS
  <2> DEFINE b == cell(k)
  <2>1. b.row \in Nat /\ b.column \in Nat /\ b.rowSpan \in Nat /\ b.columnSpan \in Nat
    BY <1>2
  <2> HIDE DEF b
  <2>2. LastRow(b) \in Nat /\ LastColumn(b) \in Nat
    BY <2>1 DEF LastRow, LastColumn, Span
  <2> QED
    BY <2>2 DEF b
<1> DEFINE rows == [i \in 1..N |-> LastRow(cells[i])]
           cols == [i \in 1..N |-> LastColumn(cells[i])]
           rows_n == Max({LastRow(cells[i]) : i \in DOMAIN cells} \cup {0})
           cols_n == Max({LastColumn(cells[i]) : i \in DOMAIN cells} \cup {0})
<1>4. grid = Grid(cells, byId, rows_n, cols_n)
  BY DEF BuildTable
<1>5. /\ N \in Nat /\ DOMAIN cells = 1..N
      /\ \A i \in 1..N : at[i] \in kept /\ cells[i] = cell(at[i])
      /\ \A i, j \in 1..N : i < j => at[i] < at[j]
      /\ \A k \in kept : \E i \in 1..N : at[i] = k
  BY <1>1
<1> HIDE DEF cells, N, kept, grid
<1>6. rows \in [1..N -> Nat] /\ cols \in [1..N -> Nat]
  BY <1>3, <1>5
<1>7. rows_n = Max({rows[i] : i \in 1..N} \cup {0}) /\ cols_n = Max({cols[i] : i \in 1..N} \cup {0})
  <2>1. {LastRow(cells[i]) : i \in DOMAIN cells} = {rows[i] : i \in 1..N}
    BY <1>5
  <2>2. {LastColumn(cells[i]) : i \in DOMAIN cells} = {cols[i] : i \in 1..N}
    BY <1>5
  <2> QED
    BY <2>1, <2>2
<1>8. /\ rows_n \in Nat /\ \A i \in 1..N : LastRow(cells[i]) <= rows_n
      /\ N # 0 => \E i \in 1..N : LastRow(cells[i]) = rows_n
  <2> HIDE DEF rows_n
  <2>1. /\ rows_n \in Nat /\ \A i \in 1..N : rows[i] <= rows_n
        /\ N # 0 => \E i \in 1..N : rows[i] = rows_n
    <3> HIDE DEF rows
    <3> QED
      BY <1>5, <1>6, <1>7, SizeOf
  <2> QED
    BY <2>1
<1>9. /\ cols_n \in Nat /\ \A i \in 1..N : LastColumn(cells[i]) <= cols_n
      /\ N # 0 => \E i \in 1..N : LastColumn(cells[i]) = cols_n
  <2> HIDE DEF cols_n
  <2>1. /\ cols_n \in Nat /\ \A i \in 1..N : cols[i] <= cols_n
        /\ N # 0 => \E i \in 1..N : cols[i] = cols_n
    <3> HIDE DEF cols
    <3> QED
      BY <1>5, <1>6, <1>7, SizeOf
  <2> QED
    BY <2>1
<1>10. N = 0 => rows_n = 0
  <2> SUFFICES ASSUME N = 0 PROVE rows_n = 0
    OBVIOUS
  <2>1. {LastRow(cells[i]) : i \in DOMAIN cells} \cup {0} = {0}
    BY <1>5
  <2> QED
    BY <2>1 DEF Max
<1> HIDE DEF rows_n, cols_n, rows, cols
<1>11. Filled(grid, cells, byId, rows_n, cols_n, N)
  BY <1>4, <1>5, <1>8, <1>9, GridFilled DEF N
<1>12. \A k \in kept : LastRow(cell(k)) <= rows_n /\ LastColumn(cell(k)) <= cols_n
  BY <1>5, <1>8, <1>9
<1>13. rows_n # 0 => \E k \in kept : LastRow(cell(k)) = rows_n
  BY <1>5, <1>8, <1>10
<1>14. rows_n # 0 => \E k \in kept : LastColumn(cell(k)) = cols_n
  BY <1>5, <1>9, <1>10
<1>15. ASSUME NEW r \in 1..rows_n, NEW c \in 1..cols_n
       PROVE  \/ (\A k \in kept : ~Begins(cell(k), r, c)) /\ grid[r][c] = <<>>
              \/ \E k \in kept : /\ Begins(cell(k), r, c)
                                 /\ \A j \in kept : Begins(cell(j), r, c) => j <= k
                                 /\ grid[r][c] = CellText(cell(k), byId)
  <2>1. CASE (\A i \in 1..N : ~Begins(cells[i], r, c)) /\ grid[r][c] = <<>>
    BY <1>5, <2>1
  <2>2. CASE \E i \in 1..N : /\ Begins(cells[i], r, c)
                             /\ \A j \in 1..N : Begins(cells[j], r, c) => j <= i
                             /\ grid[r][c] = CellText(cells[i], byId)
    <3>1. PICK i \in 1..N : /\ Begins(cells[i], r, c)
                            /\ \A j \in 1..N : Begins(cells[j], r, c) => j <= i
                            /\ grid[r][c] = CellText(cells[i], byId)
      BY <2>2
    <3>2. ASSUME NEW k \in kept, Begins(cell(k), r, c) PROVE k <= at[i]
      <4>1. PICK j \in 1..N : at[j] = k
        BY <1>5
      <4>2. j <= i
        BY <1>5, <3>1, <3>2, <4>1
      <4>3. k \in Nat /\ at[i] \in Nat /\ at[i] \in kept
        BY <1>2, <1>5
      <4>4. j = i \/ j < i
        BY <4>2
      <4> QED
        BY <1>5, <4>1, <4>3, <4>4
    <3>3. at[i] \in kept /\ cells[i] = cell(at[i])
      BY <1>5
    <3>4. Begins(cell(at[i]), r, c) /\ grid[r][c] = CellText(cell(at[i]), byId)
      BY <3>1, <3>3
    <3> QED
      BY <3>2, <3>3, <3>4
  <2> QED
    BY <1>11, <2>1, <2>2 DEF Filled
<1>16. grid = [r \in 1..rows_n |-> grid[r]] /\ \A r \in 1..rows_n : DOMAIN grid[r] = 1..cols_n
  BY <1>11 DEF Filled
<1> QED
  BY <1>8, <1>9, <1>12, <1>13, <1>14, <1>15, <1>16 DEF kept, grid

-----------------------------------------------------------------------------
(* The fold.                                                               *)

LEMMA ElementType == ASSUME NEW S, NEW s \in Seq(S), NEW i \in DOMAIN s PROVE s[i] \in S
OBVIOUS

LEMMA Slice ==
  ASSUME NEW S, NEW s \in Seq(S), NEW m \in 1..(Len(s) + 1), NEW n \in 0..Len(s), m <= n + 1
  PROVE  /\ SubSeq(s, m, n) \in Seq(S) /\ DOMAIN SubSeq(s, m, n) = 1..(n + 1 - m)
         /\ \A i \in 1..(n + 1 - m) : i + m - 1 \in DOMAIN s /\ SubSeq(s, m, n)[i] = s[i + m - 1]
<1>1. \A i \in 1..(n + 1 - m) : i + m - 1 \in DOMAIN s
  OBVIOUS
<1>2. \A i \in m..n : s[i] \in S
  OBVIOUS
<1>3. SubSeq(s, m, n) \in Seq(S) /\ Len(SubSeq(s, m, n)) = n + 1 - m
  BY <1>2
<1>4. \A i \in 1..(n + 1 - m) : SubSeq(s, m, n)[i] = s[i + m - 1]
  OBVIOUS
<1> QED
  BY <1>1, <1>3, <1>4

LEMMA Appended ==
  ASSUME NEW S, NEW s \in Seq(S), NEW x \in S
  PROVE  /\ Append(s, x) \in Seq(S)
         /\ DOMAIN Append(s, x) = DOMAIN s \cup {Len(s) + 1} /\ Len(s) + 1 \notin DOMAIN s
         /\ \A i \in DOMAIN s : i \in Nat /\ i < Len(s) + 1 /\ Append(s, x)[i] = s[i]
         /\ Append(s, x)[Len(s) + 1] = x
OBVIOUS

LEMMA PlacesType ==
  ASSUME GivenInv
  PROVE  /\ \A p \in Places : /\ p = <<p[1], p[2]>> /\ p[1] \in DOMAIN responses /\ p[2] \in Nat /\ p[2] >= 1
                              /\ p[2] \in DOMAIN responses[p[1]].blocks
                              /\ p[2] <= Len(responses[p[1]].blocks)
         /\ \A r \in DOMAIN responses : /\ r \in Nat /\ r >= 1 /\ r <= Len(responses)
                                        /\ responses[r].blocks \in Seq(Block)
                                        /\ responses[r].pages \in 0..MaxReported
                                        /\ \A b \in DOMAIN responses[r].blocks : <<r, b>> \in Places
<1>1. \A r \in DOMAIN responses : responses[r] \in Response /\ responses[r] \in [pages : 0..MaxReported, blocks : Seq(Block)]
  BY ElementType DEF GivenInv, Response
<1>2. \A r \in DOMAIN responses : r \in Nat /\ r >= 1 /\ r <= Len(responses)
  BY DEF GivenInv
<1>3. ASSUME NEW p \in Places
      PROVE  \E r \in DOMAIN responses : \E b \in DOMAIN responses[r].blocks : p = <<r, b>>
  BY DEF Places
<1>4. \A r \in DOMAIN responses : \A b \in DOMAIN responses[r].blocks :
        b \in Nat /\ b >= 1 /\ b <= Len(responses[r].blocks) /\ <<r, b>> \in Places
  <2> TAKE r \in DOMAIN responses
  <2> TAKE b \in DOMAIN responses[r].blocks
  <2>1. responses[r].blocks \in Seq(Block)
    BY <1>1
  <2>2. b \in Nat /\ b >= 1 /\ b <= Len(responses[r].blocks)
    BY <2>1
  <2>3. <<r, b>> \in Places
    BY DEF Places
  <2> QED
    BY <2>2, <2>3
<1> QED
  BY <1>1, <1>2, <1>3, <1>4

\* All of these places are before p.
IsBehind(p, places) == \A q \in places : Before(q, p)

\* One place more, for one element more.
IsLonger(to, at, list, p) ==
  to[Len(list) + 1] = p /\ \A i \in DOMAIN list : to[i] = at[i]

\* One more element in a list, from behind all others.
LEMMA ListGrows ==
  ASSUME NEW S, NEW list \in Seq(S), NEW set, NEW at, GoesThrough(at, list, set),
         NEW x \in S, NEW p, IsBehind(p, set)
  PROVE  \E to : GoesThrough(to, Append(list, x), set \cup {p}) /\ IsLonger(to, at, list, p)
<1> DEFINE longer == Append(list, x)
           n == Len(list) + 1
<1>1. /\ at \in [DOMAIN list -> set]
      /\ \A i, j \in DOMAIN list : i < j => Before(at[i], at[j])
      /\ \A q \in set : \E i \in DOMAIN list : at[i] = q
      /\ \A q \in set : Before(q, p)
  BY DEF GoesThrough, IsBehind
<1>2. /\ DOMAIN longer = DOMAIN list \cup {n} /\ n \notin DOMAIN list /\ n \in Nat
      /\ \A i \in DOMAIN list : i \in Nat /\ i < n
  BY Appended
<1> HIDE DEF n, longer
<1> DEFINE to == [i \in DOMAIN longer |-> IF i = n THEN p ELSE at[i]]
<1>3. to \in [DOMAIN longer -> set \cup {p}] /\ to[n] = p /\ \A i \in DOMAIN list : to[i] = at[i]
  BY <1>1, <1>2
<1> HIDE DEF to
<1>4. ASSUME NEW i \in DOMAIN longer, NEW j \in DOMAIN longer, i < j PROVE Before(to[i], to[j])
  <2>1. i \in DOMAIN list
    BY <1>2, <1>4
  <2>2. at[i] \in set
    BY <1>1, <2>1
  <2>3. CASE j = n
    BY <1>1, <1>3, <2>1, <2>2, <2>3
  <2>4. CASE j \in DOMAIN list
    BY <1>1, <1>3, <1>4, <2>1, <2>4
  <2> QED
    BY <1>2, <2>3, <2>4
<1>5. \A q \in set \cup {p} : \E i \in DOMAIN longer : to[i] = q
  BY <1>1, <1>2, <1>3
<1>6. GoesThrough(to, longer, set \cup {p})
  BY <1>3, <1>4, <1>5 DEF GoesThrough
<1> QED
  BY <1>3, <1>6 DEF IsLonger, n, longer

\* A line joins the text, and any other block leaves it as it is.
LEMMA TextFolds ==
  ASSUME NEW S, NEW text \in Seq(S), NEW places, IsTextOf(text, places),
         NEW p, \A q \in places : Before(q, p)
  PROVE  /\ Written(BlockAt(p)) /\ BlockAt(p).text \in S =>
              IsTextOf(Append(text, BlockAt(p).text), places \cup {p})
         /\ ~Written(BlockAt(p)) => IsTextOf(text, places \cup {p})
<1>1. PICK at \in [DOMAIN text -> LinesAt(places)] :
        /\ GoesThrough(at, text, LinesAt(places))
        /\ \A i \in DOMAIN text : text[i] = BlockAt(at[i]).text
  BY DEF IsTextOf
<1>2. CASE Written(BlockAt(p)) /\ BlockAt(p).text \in S
  <2> DEFINE longer == Append(text, BlockAt(p).text)
  <2>1. LinesAt(places \cup {p}) = LinesAt(places) \cup {p} /\ IsBehind(p, LinesAt(places))
    BY <1>2 DEF LinesAt, IsBehind
  <2>2. PICK to : GoesThrough(to, longer, LinesAt(places) \cup {p}) /\ IsLonger(to, at, text, p)
    BY <1>1, <1>2, <2>1, ListGrows
  <2>3. \A i \in DOMAIN longer : longer[i] = BlockAt(to[i]).text
    <3>1. /\ DOMAIN longer = DOMAIN text \cup {Len(text) + 1}
          /\ \A i \in DOMAIN text : longer[i] = text[i]
          /\ longer[Len(text) + 1] = BlockAt(p).text
      BY <1>2, Appended
    <3> HIDE DEF longer
    <3> QED
      BY <1>1, <2>2, <3>1 DEF IsLonger
  <2>4. to \in [DOMAIN longer -> LinesAt(places \cup {p})] /\ GoesThrough(to, longer, LinesAt(places \cup {p}))
    BY <2>1, <2>2 DEF GoesThrough
  <2> QED
    BY <1>2, <2>3, <2>4 DEF IsTextOf
<1>3. CASE ~Written(BlockAt(p))
  <2>1. LinesAt(places \cup {p}) = LinesAt(places)
    BY <1>3 DEF LinesAt
  <2> QED
    BY <1>1, <1>3, <2>1 DEF IsTextOf
<1> QED
  BY <1>2, <1>3

\* The same for the tables.
LEMMA TablesFold ==
  ASSUME NEW tables \in Seq(Block), NEW places, AreTablesOf(tables, places),
         NEW p, BlockAt(p) \in Block, \A q \in places : Before(q, p)
  PROVE  /\ BlockAt(p).type = "TABLE" => AreTablesOf(Append(tables, BlockAt(p)), places \cup {p})
         /\ BlockAt(p).type # "TABLE" => AreTablesOf(tables, places \cup {p})
<1>1. PICK at \in [DOMAIN tables -> TablesAt(places)] :
        /\ GoesThrough(at, tables, TablesAt(places))
        /\ \A i \in DOMAIN tables : tables[i] = BlockAt(at[i])
  BY DEF AreTablesOf
<1>2. CASE BlockAt(p).type = "TABLE"
  <2> DEFINE longer == Append(tables, BlockAt(p))
  <2>1. TablesAt(places \cup {p}) = TablesAt(places) \cup {p} /\ IsBehind(p, TablesAt(places))
    BY <1>2 DEF TablesAt, IsBehind
  <2>2. PICK to : GoesThrough(to, longer, TablesAt(places) \cup {p}) /\ IsLonger(to, at, tables, p)
    BY <1>1, <1>2, <2>1, ListGrows
  <2>3. \A i \in DOMAIN longer : longer[i] = BlockAt(to[i])
    <3>1. /\ DOMAIN longer = DOMAIN tables \cup {Len(tables) + 1}
          /\ \A i \in DOMAIN tables : longer[i] = tables[i]
          /\ longer[Len(tables) + 1] = BlockAt(p)
      BY Appended
    <3> HIDE DEF longer
    <3> QED
      BY <1>1, <2>2, <3>1 DEF IsLonger
  <2>4. to \in [DOMAIN longer -> TablesAt(places \cup {p})] /\ GoesThrough(to, longer, TablesAt(places \cup {p}))
    BY <2>1, <2>2 DEF GoesThrough
  <2> QED
    BY <1>2, <2>3, <2>4 DEF AreTablesOf
<1>3. CASE BlockAt(p).type # "TABLE"
  <2>1. TablesAt(places \cup {p}) = TablesAt(places)
    BY <1>3 DEF TablesAt
  <2> QED
    BY <1>1, <1>3, <2>1 DEF AreTablesOf
<1> QED
  BY <1>2, <1>3

\* A block takes its id from an earlier one.
LEMMA NamesFold ==
  ASSUME NEW by_id, NEW places, AreNamesOf(by_id, places),
         NEW p, BlockAt(p).id # "", \A q \in places : Before(q, p)
  PROVE  AreNamesOf([id \in DOMAIN by_id \cup {BlockAt(p).id} |->
                       IF id = BlockAt(p).id THEN BlockAt(p) ELSE by_id[id]], places \cup {p})
<1> DEFINE b == BlockAt(p)
           more == [id \in DOMAIN by_id \cup {b.id} |-> IF id = b.id THEN b ELSE by_id[id]]
<1>1. /\ DOMAIN more = DOMAIN by_id \cup {b.id} /\ more[b.id] = b
      /\ \A id \in DOMAIN by_id : id # b.id => more[id] = by_id[id]
  OBVIOUS
<1> HIDE DEF more
<1>2. /\ \A q \in places \cup {p} : BlockAt(q).id # "" => BlockAt(q).id \in DOMAIN more
      /\ "" \notin DOMAIN more
  BY <1>1 DEF AreNamesOf
<1>3. ASSUME NEW id \in DOMAIN more
      PROVE  \E q \in places \cup {p} : IsLast(q, id, places \cup {p}) /\ more[id] = BlockAt(q)
  <2>1. CASE id = b.id
    BY <1>1, <2>1 DEF IsLast
  <2>2. CASE id # b.id
    <3>1. PICK q \in places : IsLast(q, id, places) /\ by_id[id] = BlockAt(q)
      BY <1>1, <1>3, <2>2 DEF AreNamesOf
    <3>2. IsLast(q, id, places \cup {p})
      BY <2>2, <3>1 DEF IsLast
    <3> QED
      BY <1>1, <1>3, <2>2, <3>1, <3>2
  <2> QED
    BY <2>1, <2>2
<1> QED
  BY <1>2, <1>3 DEF AreNamesOf, more

\* A block without an id leaves the names as they are.
LEMMA NamesKept ==
  ASSUME NEW by_id, NEW places, AreNamesOf(by_id, places), NEW p, BlockAt(p).id = ""
  PROVE  AreNamesOf(by_id, places \cup {p})
<1>1. ASSUME NEW id \in DOMAIN by_id
      PROVE  \E q \in places \cup {p} : IsLast(q, id, places \cup {p}) /\ by_id[id] = BlockAt(q)
  <2>1. PICK q \in places : IsLast(q, id, places) /\ by_id[id] = BlockAt(q)
    BY DEF AreNamesOf
  <2>2. id # ""
    BY DEF AreNamesOf
  <2>3. IsLast(q, id, places \cup {p})
    BY <2>1, <2>2 DEF IsLast
  <2> QED
    BY <2>1, <2>3
<1> QED
  BY <1>1 DEF AreNamesOf

LEMMA InvInit == Init => IInv
<1> SUFFICES ASSUME Init PROVE IInv
  OBVIOUS
<1>1. responses \in Seq(Response)
  BY ResultsAssumption DEF Init
<1>8. \A p \in Places : BlockAt(p).type = "LINE" => IsText(BlockAt(p).text)
  <2> SUFFICES ASSUME NEW p \in Places, BlockAt(p).type = "LINE" PROVE IsText(BlockAt(p).text)
    OBVIOUS
  <2>1. PICK r \in DOMAIN responses : \E b \in DOMAIN responses[r].blocks : p = <<r, b>>
    BY DEF Places
  <2>2. PICK b \in DOMAIN responses[r].blocks : p = <<r, b>>
    BY <2>1
  <2>3. BlockAt(p) = responses[r].blocks[b]
    BY <2>2 DEF BlockAt
  <2> QED
    BY <2>3, ResultsAssumption DEF Init
<1>9. GivenInv
  BY <1>1, <1>8 DEF GivenInv, Init
<1>10. FoldInv
  <2>1. folded = 0 /\ block = 0 /\ reading = [pages |-> 0, lines |-> <<>>, tables |-> <<>>, by_id |-> NoBlocks]
    BY DEF Init
  <2>2. FoldedPlaces = {}
    BY <1>9, <2>1, PlacesType DEF FoldedPlaces
  <2>3. IsReadFrom(reading, {})
    <3>1. \A set : set = {} => [i \in {} |-> 0] \in [DOMAIN <<>> -> set] /\ GoesThrough([i \in {} |-> 0], <<>>, set)
      BY DEF GoesThrough
    <3>2. LinesAt({}) = {} /\ TablesAt({}) = {}
      BY DEF LinesAt, TablesAt
    <3>3. IsTextOf(<<>>, {})
      BY <3>1, <3>2 DEF IsTextOf
    <3>4. AreTablesOf(<<>>, {})
      BY <3>1, <3>2 DEF AreTablesOf
    <3>5. AreNamesOf(NoBlocks, {})
      BY DEF AreNamesOf, NoBlocks
    <3> QED
      BY <2>1, <3>3, <3>4, <3>5 DEF IsReadFrom
  <2>4. Blocks = <<>>
    BY <2>1 DEF Blocks
  <2>5. folded \in 0..Len(responses) /\ block \in 0..Len(Blocks)
    BY <1>1, <2>1, <2>4
  <2>6. /\ reading = [pages |-> reading.pages, lines |-> reading.lines,
                      tables |-> reading.tables, by_id |-> reading.by_id]
        /\ reading.pages = 0 /\ reading.lines = <<>> /\ reading.tables = <<>>
    BY <2>1
  <2>7. reading.pages \in 0..MaxReported
    BY <2>6, MaxReportedAssumption
  <2>8. reading.lines \in Seq({text \in SUBSET Phrase : IsText(text)}) /\ reading.tables \in Seq(Block)
    BY <2>6
  <2> QED
    BY <2>1, <2>2, <2>3, <2>5, <2>6, <2>7, <2>8 DEF FoldInv
<1>11. ExtractionInv
  BY DEF Init, ExtractionInv, NoExtraction
<1>12. AgentInv
  BY DEF Init, AgentInv, ComplianceInv, AnomalyInv, Agent
<1> QED
  BY <1>9, <1>10, <1>11, <1>12 DEF IInv

-----------------------------------------------------------------------------
(* The steps of the OCR task.                                              *)

LEMMA GivenStays ==
  ASSUME UNCHANGED given
  PROVE  /\ responses' = responses /\ pipeline' = pipeline /\ langgraph' = langgraph
         /\ GivenInv => GivenInv'
         /\ Places' = Places
         /\ \A p : BlockAt(p)' = BlockAt(p)
<1>1. responses' = responses /\ pipeline' = pipeline /\ langgraph' = langgraph
  BY DEF given
<1>2. \A p : BlockAt(p)' = BlockAt(p)
  BY <1>1 DEF BlockAt
<1>3. Places' = Places
  BY <1>1 DEF Places
<1>4. GivenInv => GivenInv'
  BY <1>1, <1>2, <1>3 DEF GivenInv
<1> QED
  BY <1>1, <1>2, <1>3, <1>4

\* The agents' part is as good after a step of the OCR task.
LEMMA AgentsStay ==
  ASSUME AgentInv, ExtractionInv, pipeline' = pipeline,
         node' = node, compliance' = compliance, anomaly' = anomaly,
         extraction.made => extraction' = extraction
  PROVE  AgentInv'
<1>1. CASE pipeline /\ ~extraction.made
  <2>1. \A a \in Agent : node[a] = "waiting"
    BY <1>1 DEF AgentInv
  <2> QED
    BY <2>1 DEF AgentInv, ComplianceInv, AnomalyInv, Agent
<1>2. CASE ~pipeline \/ extraction.made
  <2>1. AgentText' = AgentText /\ (pipeline => extraction'.made)
    BY <1>2 DEF AgentText, Judged
  <2> QED
    BY <2>1 DEF AgentInv, ComplianceInv, AnomalyInv
<1> QED
  BY <1>1, <1>2

LEMMA MaxType == ASSUME NEW n \in Nat, NEW a \in 0..n, NEW b \in 0..n PROVE Max({a, b}) \in 0..n /\ a <= Max({a, b}) /\ b <= Max({a, b})
<1>1. \E x \in {a, b} : \A y \in {a, b} : x >= y
  <2>1. CASE a >= b
    BY <2>1
  <2>2. CASE b >= a
    BY <2>2
  <2> QED
    BY <2>1, <2>2
<1>2. Max({a, b}) \in {a, b} /\ \A y \in {a, b} : Max({a, b}) >= y
  BY <1>1 DEF Max
<1> QED
  BY <1>2

\* The given being unchanged, what is read from the places folded is as good
\* after the step.
LEMMA FoldedStep ==
  ASSUME UNCHANGED given, NEW places, IsReadFrom(reading', places), FoldedPlaces' = places
  PROVE  IsReadFrom(reading, FoldedPlaces)'
<1>1. \A p : BlockAt(p)' = BlockAt(p)
  BY GivenStays
<1>2. LinesAt(FoldedPlaces)' = LinesAt(places) /\ TablesAt(FoldedPlaces)' = TablesAt(places)
  BY <1>1 DEF LinesAt, TablesAt, Written
<1>3. IsTextOf(reading.lines, FoldedPlaces)'
  <2>1. PICK at \in [DOMAIN reading'.lines -> LinesAt(places)] :
          /\ GoesThrough(at, reading'.lines, LinesAt(places))
          /\ \A i \in DOMAIN reading'.lines : reading'.lines[i] = BlockAt(at[i]).text
    BY DEF IsReadFrom, IsTextOf
  <2> QED
    BY <1>1, <1>2, <2>1 DEF IsTextOf
<1>4. AreTablesOf(reading.tables, FoldedPlaces)'
  <2>1. PICK at \in [DOMAIN reading'.tables -> TablesAt(places)] :
          /\ GoesThrough(at, reading'.tables, TablesAt(places))
          /\ \A i \in DOMAIN reading'.tables : reading'.tables[i] = BlockAt(at[i])
    BY DEF IsReadFrom, AreTablesOf
  <2> QED
    BY <1>1, <1>2, <2>1 DEF AreTablesOf
<1>5. AreNamesOf(reading.by_id, FoldedPlaces)'
  BY <1>1 DEF IsReadFrom, AreNamesOf, IsLast
<1> QED
  BY <1>3, <1>4, <1>5 DEF IsReadFrom

LEMMA TakeStep == IInv /\ TakeResponse /\ UNCHANGED given => IInv'
<1> SUFFICES ASSUME IInv, TakeResponse, UNCHANGED given PROVE IInv'
  OBVIOUS
<1>1. /\ GivenInv /\ GivenInv' /\ FoldInv /\ ExtractionInv /\ AgentInv
      /\ responses' = responses /\ pipeline' = pipeline /\ Places' = Places
  BY GivenStays DEF IInv
<1>2. /\ folded \in Nat /\ folded + 1 \in DOMAIN responses /\ Exhausted
      /\ folded' = folded + 1 /\ block' = 0
      /\ reading' = [reading EXCEPT !.pages = Max({reading.pages, responses[folded + 1].pages})]
      /\ extraction' = extraction /\ node' = node /\ compliance' = compliance /\ anomaly' = anomaly
  BY <1>1 DEF TakeResponse, FoldInv, GivenInv
<1>3. responses[folded + 1].blocks \in Seq(Block) /\ responses[folded + 1].pages \in 0..MaxReported
  BY <1>1, <1>2, PlacesType
<1>4. /\ reading'.pages = Max({reading.pages, responses[folded + 1].pages})
      /\ reading'.lines = reading.lines /\ reading'.tables = reading.tables /\ reading'.by_id = reading.by_id
      /\ reading' = [pages |-> reading'.pages, lines |-> reading'.lines,
                     tables |-> reading'.tables, by_id |-> reading'.by_id]
  <2>1. reading = [pages |-> reading.pages, lines |-> reading.lines,
                   tables |-> reading.tables, by_id |-> reading.by_id]
    BY <1>1 DEF FoldInv
  <2> QED
    BY <1>2, <2>1
<1>5. reading'.pages \in 0..MaxReported /\ \A r \in 1..folded' : responses'[r].pages <= reading'.pages
  <2> DEFINE a == reading.pages
             c == responses[folded + 1].pages
  <2>1. a \in 0..MaxReported /\ c \in 0..MaxReported /\ \A r \in 1..folded : responses[r].pages <= a
    BY <1>1, <1>3 DEF FoldInv
  <2>2. reading'.pages \in 0..MaxReported /\ a <= reading'.pages /\ c <= reading'.pages
    <3> HIDE DEF a, c
    <3>1. Max({a, c}) \in 0..MaxReported /\ a <= Max({a, c}) /\ c <= Max({a, c})
      BY <2>1, MaxType, MaxReportedAssumption
    <3>2. reading'.pages = Max({a, c})
      BY <1>4 DEF a, c
    <3> QED
      BY <3>1, <3>2
  <2>3. ASSUME NEW r \in 1..(folded + 1) PROVE responses[r].pages <= reading'.pages
    <3>1. r \in DOMAIN responses
      BY <1>1, <1>2, PlacesType DEF GivenInv
    <3>2. responses[r].pages \in 0..MaxReported
      BY <1>1, <3>1, PlacesType
    <3>3. CASE r = folded + 1
      BY <2>2, <3>3
    <3>4. CASE r # folded + 1
      <4>1. r \in 1..folded
        BY <1>2, <3>4
      <4>2. responses[r].pages <= a
        BY <2>1, <4>1
      <4> HIDE DEF a, c
      <4> QED
        BY <2>1, <2>2, <3>2, <4>2, MaxReportedAssumption
    <3> QED
      BY <3>3, <3>4
  <2> QED
    BY <1>1, <1>2, <2>2, <2>3
<1>6. FoldedPlaces' = FoldedPlaces
  <2>1. \A p \in Places : p[1] = folded => p[2] <= block
    <3> SUFFICES ASSUME NEW p \in Places, p[1] = folded PROVE p[2] <= block
      OBVIOUS
    <3>1. folded # 0 /\ p[2] <= Len(responses[folded].blocks)
      BY <1>1, PlacesType
    <3> QED
      BY <1>2, <3>1 DEF Exhausted, Blocks
  <2>2. \A p \in Places : p[1] \in Nat /\ p[2] \in Nat /\ p[2] >= 1
    BY <1>1, PlacesType
  <2>3. \A p \in Places :
          (p[1] < folded + 1 \/ (p[1] = folded + 1 /\ p[2] <= 0))
            <=> (p[1] < folded \/ (p[1] = folded /\ p[2] <= block))
    BY <1>2, <2>1, <2>2
  <2>4. FoldedPlaces' = {p \in Places : p[1] < folded + 1 \/ (p[1] = folded + 1 /\ p[2] <= 0)}
    BY <1>1, <1>2 DEF FoldedPlaces
  <2> QED
    BY <2>3, <2>4 DEF FoldedPlaces
<1>7. IsReadFrom(reading, FoldedPlaces)'
  <2>1. IsReadFrom(reading', FoldedPlaces)
    BY <1>1, <1>4 DEF FoldInv, IsReadFrom
  <2> QED
    BY <1>6, <2>1, FoldedStep
<1>8. folded' \in 0..Len(responses') /\ block' \in 0..Len(Blocks')
  <2>1. Blocks' = responses[folded + 1].blocks
    BY <1>1, <1>2 DEF Blocks
  <2>2. folded + 1 <= Len(responses) /\ Len(responses) \in Nat
    BY <1>1, <1>2, PlacesType DEF GivenInv
  <2> QED
    BY <1>1, <1>2, <1>3, <2>1, <2>2
<1>9. FoldInv'
  BY <1>1, <1>4, <1>5, <1>7, <1>8 DEF FoldInv
<1>10. ExtractionInv'
  <2>1. ~extraction.made
    BY <1>1, <1>2, PlacesType DEF ExtractionInv, TakeResponse
  <2> QED
    BY <1>1, <1>2, <2>1 DEF ExtractionInv
<1>11. AgentInv'
  BY <1>1, <1>2, AgentsStay
<1> QED
  BY <1>1, <1>9, <1>10, <1>11 DEF IInv

LEMMA BlockStep == IInv /\ FoldBlock /\ UNCHANGED given => IInv'
<1> SUFFICES ASSUME IInv, FoldBlock, UNCHANGED given PROVE IInv'
  OBVIOUS
<1> DEFINE p == <<folded, block + 1>>
           b == Blocks[block + 1]
<1>1. /\ GivenInv /\ GivenInv' /\ FoldInv /\ ExtractionInv /\ AgentInv
      /\ responses' = responses /\ pipeline' = pipeline /\ Places' = Places
  BY GivenStays DEF IInv
<1>2. /\ ~Exhausted /\ folded' = folded /\ block' = block + 1 /\ reading' = Fold(b)
      /\ extraction' = extraction /\ node' = node /\ compliance' = compliance /\ anomaly' = anomaly
  BY DEF FoldBlock
<1>3. /\ folded \in DOMAIN responses /\ Blocks = responses[folded].blocks
      /\ block \in Nat /\ block + 1 \in DOMAIN Blocks /\ Blocks' = Blocks
  <2>1. folded # 0
    BY <1>1, <1>2 DEF FoldInv, Exhausted, Blocks
  <2>2. folded \in DOMAIN responses /\ Blocks = responses[folded].blocks
    BY <1>1, <2>1 DEF FoldInv, GivenInv, Blocks
  <2>3. Blocks \in Seq(Block)
    BY <1>1, <2>2, PlacesType
  <2>4. block \in Nat /\ block + 1 \in DOMAIN Blocks
    BY <1>1, <1>2, <2>3 DEF FoldInv, Exhausted
  <2>5. Blocks' = Blocks
    BY <1>1, <1>2 DEF Blocks
  <2> QED
    BY <2>2, <2>4, <2>5
<1>4. p \in Places /\ BlockAt(p) = b
  <2>1. p[1] = folded /\ p[2] = block + 1
    OBVIOUS
  <2> QED
    BY <1>1, <1>3, <2>1, PlacesType DEF BlockAt
<1>5. FoldedPlaces' = FoldedPlaces \cup {p}
  <2>1. FoldedPlaces' = {q \in Places : q[1] < folded \/ (q[1] = folded /\ q[2] <= block + 1)}
    BY <1>1, <1>2 DEF FoldedPlaces
  <2>2. \A q \in Places : q[1] = folded /\ q[2] <= block + 1 <=> (q[1] = folded /\ q[2] <= block) \/ q = p
    BY <1>1, <1>3, PlacesType
  <2> QED
    BY <1>4, <2>1, <2>2 DEF FoldedPlaces
<1>6. \A q \in FoldedPlaces : Before(q, p)
  <2>1. p[1] = folded /\ p[2] = block + 1
    OBVIOUS
  <2> HIDE DEF p
  <2> QED
    BY <1>1, <1>3, <2>1, PlacesType DEF FoldedPlaces, Before
<1>7. /\ reading'.pages = reading.pages
      /\ reading'.lines = IF Written(b) THEN Append(reading.lines, b.text) ELSE reading.lines
      /\ reading'.tables = IF b.type = "TABLE" THEN Append(reading.tables, b) ELSE reading.tables
      /\ reading'.by_id = Indexed(b)
      /\ reading' = [pages |-> reading'.pages, lines |-> reading'.lines,
                     tables |-> reading'.tables, by_id |-> reading'.by_id]
  BY <1>2 DEF Fold
<1>8. b \in Block
  <2>1. Blocks \in Seq(Block)
    BY <1>1, <1>3, PlacesType
  <2> QED
    BY <1>3, <2>1, ElementType
<1> HIDE DEF b, p
<1> DEFINE S == {text \in SUBSET Phrase : IsText(text)}
<1>9. /\ reading.lines \in Seq(S) /\ IsTextOf(reading.lines, FoldedPlaces)
      /\ reading.tables \in Seq(Block) /\ AreTablesOf(reading.tables, FoldedPlaces)
      /\ AreNamesOf(reading.by_id, FoldedPlaces)
      /\ Written(b) => b.text \in S
  BY <1>1, <1>4 DEF FoldInv, IsReadFrom, GivenInv, Written, IsText
<1> HIDE DEF S
<1>10. /\ reading'.lines \in Seq(S) /\ reading'.tables \in Seq(Block)
       /\ IsReadFrom(reading', FoldedPlaces \cup {p})
  <2>1. reading'.lines \in Seq(S) /\ IsTextOf(reading'.lines, FoldedPlaces \cup {p})
    <3>1. CASE Written(b)
      BY <1>4, <1>6, <1>7, <1>9, <3>1, TextFolds, Appended
    <3>2. CASE ~Written(b)
      BY <1>4, <1>6, <1>7, <1>9, <3>2, TextFolds
    <3> QED
      BY <3>1, <3>2
  <2>2. reading'.tables \in Seq(Block) /\ AreTablesOf(reading'.tables, FoldedPlaces \cup {p})
    <3>1. CASE b.type = "TABLE"
      BY <1>4, <1>6, <1>7, <1>8, <1>9, <3>1, TablesFold, Appended
    <3>2. CASE b.type # "TABLE"
      BY <1>4, <1>6, <1>7, <1>8, <1>9, <3>2, TablesFold
    <3> QED
      BY <3>1, <3>2
  <2>3. AreNamesOf(reading'.by_id, FoldedPlaces \cup {p})
    <3>1. CASE b.id = ""
      <4>1. reading'.by_id = reading.by_id
        BY <1>7, <3>1 DEF Indexed
      <4>2. AreNamesOf(reading.by_id, FoldedPlaces \cup {p})
        BY <1>4, <1>9, <3>1, NamesKept
      <4> QED
        BY <4>1, <4>2
    <3>2. CASE b.id # ""
      <4>1. AreNamesOf([id \in DOMAIN reading.by_id \cup {BlockAt(p).id} |->
                          IF id = BlockAt(p).id THEN BlockAt(p) ELSE reading.by_id[id]], FoldedPlaces \cup {p})
        BY <1>4, <1>6, <1>9, <3>2, NamesFold
      <4>2. reading'.by_id = [id \in DOMAIN reading.by_id \cup {b.id} |->
                                IF id = b.id THEN b ELSE reading.by_id[id]]
        BY <1>7, <3>2 DEF Indexed
      <4> QED
        BY <1>4, <4>1, <4>2
    <3> QED
      BY <3>1, <3>2
  <2> QED
    BY <2>1, <2>2, <2>3 DEF IsReadFrom
<1>11. IsReadFrom(reading, FoldedPlaces)'
  BY <1>5, <1>10, FoldedStep
<1>12. FoldInv'
  <2>1. folded' \in 0..Len(responses') /\ block' \in 0..Len(Blocks')
    <3>1. Blocks \in Seq(Block)
      BY <1>1, <1>3, PlacesType
    <3> QED
      BY <1>1, <1>2, <1>3, <3>1 DEF FoldInv
  <2>2. reading'.pages \in 0..MaxReported /\ \A r \in 1..folded' : responses'[r].pages <= reading'.pages
    BY <1>1, <1>2, <1>7 DEF FoldInv
  <2> QED
    BY <1>7, <1>10, <1>11, <2>1, <2>2 DEF FoldInv, S
<1>13. ExtractionInv'
  <2>1. ~extraction.made
    BY <1>1, <1>2 DEF ExtractionInv
  <2> QED
    BY <1>1, <1>2, <2>1 DEF ExtractionInv
<1>14. AgentInv'
  BY <1>1, <1>2, AgentsStay
<1> QED
  BY <1>1, <1>12, <1>13, <1>14 DEF IInv

LEMMA ExtractStep == IInv /\ ToExtraction /\ UNCHANGED given => IInv'
<1> SUFFICES ASSUME IInv, ToExtraction, UNCHANGED given PROVE IInv'
  OBVIOUS
<1>1. /\ GivenInv /\ GivenInv' /\ FoldInv /\ ExtractionInv /\ AgentInv
      /\ responses' = responses /\ pipeline' = pipeline /\ Places' = Places
  BY GivenStays DEF IInv
<1>2. /\ folded = Len(responses) /\ Exhausted /\ ~extraction.made
      /\ extraction'.made /\ extraction'.text = reading.lines
      /\ extraction'.tables = [i \in DOMAIN reading.tables |-> BuildTable(reading.tables[i], reading.by_id)]
      /\ extraction'.page_count = IF reading.pages # 0 THEN reading.pages
                                  ELSE IF reading.lines # <<>> THEN 1 ELSE 0
      /\ folded' = folded /\ block' = block /\ reading' = reading
      /\ node' = node /\ compliance' = compliance /\ anomaly' = anomaly
  BY DEF ToExtraction
<1>3. Blocks' = Blocks /\ Exhausted' /\ FoldedPlaces' = FoldedPlaces
  BY <1>1, <1>2 DEF Blocks, Exhausted, FoldedPlaces
<1>4. FoldInv'
  <2>1. IsReadFrom(reading, FoldedPlaces)'
    <3>1. IsReadFrom(reading', FoldedPlaces)
      BY <1>1, <1>2 DEF FoldInv
    <3> QED
      BY <1>3, <3>1, FoldedStep
  <2> QED
    BY <1>1, <1>2, <1>3, <2>1 DEF FoldInv
<1>5. ExtractionInv'
  <2>1. reading.pages \in 0..MaxReported
    BY <1>1 DEF FoldInv
  <2>2. /\ extraction'.page_count \in 0..(MaxReported + 1)
        /\ reading.lines # <<>> => extraction'.page_count > 0
        /\ reading.pages <= extraction'.page_count
    BY <1>2, <2>1, MaxReportedAssumption
  <2> QED
    BY <1>1, <1>2, <1>3, <2>2 DEF ExtractionInv, ToExtraction
<1>6. AgentInv'
  BY <1>1, <1>2, AgentsStay
<1> QED
  BY <1>1, <1>4, <1>5, <1>6 DEF IInv

-----------------------------------------------------------------------------
(* The agents' steps.                                                      *)

\* Rule by rule the plain form comes to what the graph's node does at once.
LEMMA PlainForm ==
  ASSUME NEW text
  PROVE  /\ Checked(text, 0) = ComplianceState(text)
         /\ Len(RuleChecks(text)) \in Nat
         /\ \A n \in 0..Len(RuleChecks(text)) :
              n < Len(RuleChecks(text)) => EvaluateRule(Checked(text, n)) = Checked(text, n + 1)
         /\ Conclude(Checked(text, Len(RuleChecks(text)))) = EvaluateRules(ComplianceState(text))
<1> DEFINE checks == RuleChecks(text)
<1>1. checks \in Seq(Finding) /\ Len(checks) \in Nat
  BY ChecksType
<1> HIDE DEF checks
<1>2. SubSeq(checks, 1, 0) = <<>> /\ SubSeq(checks, 1, Len(checks)) = checks
  BY <1>1
<1>3. \A n \in 0..Len(checks) : n < Len(checks) =>
        Append(SubSeq(checks, 1, n), checks[n + 1]) = SubSeq(checks, 1, n + 1)
  BY <1>1
<1>4. Checked(text, 0) = ComplianceState(text)
  BY <1>2 DEF Checked, ComplianceState, checks
<1>5. ASSUME NEW n \in 0..Len(checks), n < Len(checks)
      PROVE  EvaluateRule(Checked(text, n)) = Checked(text, n + 1)
  <2> DEFINE state == Checked(text, n)
  <2>1. /\ state = [text |-> text, findings |-> SubSeq(checks, 1, n), rules_evaluated |-> n, passed |-> TRUE]
        /\ state.text = text /\ state.findings = SubSeq(checks, 1, n) /\ state.rules_evaluated = n
    BY DEF Checked, checks
  <2> HIDE DEF state
  <2>2. EvaluateRule(state) = [state EXCEPT !.rules_evaluated = n + 1, !.findings = SubSeq(checks, 1, n + 1)]
    BY <1>3, <1>5, <2>1 DEF EvaluateRule, checks
  <2>3. EvaluateRule(state) =
          [text |-> text, findings |-> SubSeq(checks, 1, n + 1), rules_evaluated |-> n + 1, passed |-> TRUE]
    BY <2>1, <2>2
  <2> QED
    BY <2>3 DEF Checked, checks, state
<1> DEFINE verdict == [text |-> text, findings |-> checks, rules_evaluated |-> Len(checks), passed |-> Passes(checks)]
<1>6. Conclude(Checked(text, Len(checks))) = verdict
  <2> DEFINE state == Checked(text, Len(checks))
  <2>1. /\ state = [text |-> text, findings |-> checks, rules_evaluated |-> Len(checks), passed |-> TRUE]
        /\ state.findings = checks
    BY <1>2 DEF Checked, checks
  <2> HIDE DEF state
  <2>2. Conclude(state) = [state EXCEPT !.passed = Passes(checks)]
    BY <2>1 DEF Conclude
  <2> QED
    BY <2>1, <2>2 DEF state
<1>7. EvaluateRules(ComplianceState(text)) = verdict
  <2> DEFINE state == ComplianceState(text)
  <2>1. /\ state = [text |-> text, findings |-> <<>>, rules_evaluated |-> 0, passed |-> TRUE]
        /\ state.text = text
    BY DEF ComplianceState
  <2> HIDE DEF state
  <2>2. EvaluateRules(state) =
          [state EXCEPT !.findings = checks, !.rules_evaluated = Len(checks), !.passed = Passes(checks)]
    BY <2>1 DEF EvaluateRules, checks
  <2> QED
    BY <2>1, <2>2 DEF state
<1> QED
  BY <1>1, <1>4, <1>5, <1>6, <1>7 DEF checks

LEMMA Inspected ==
  \A text : /\ InspectDocument(ComplianceState(text), text) = ComplianceState(text)
           /\ InspectDocument(AnomalyState(text), text) = AnomalyState(text)
           /\ ScoreDocument(AnomalyState(text)) = RunAnomalyPlain(text)
<1> TAKE text
<1>1. ComplianceState(text).text = text /\ AnomalyState(text).text = text
  BY DEF ComplianceState, AnomalyState
<1>2. InspectDocument(ComplianceState(text), text) = ComplianceState(text)
  BY <1>1 DEF InspectDocument, ComplianceState
<1>3. InspectDocument(AnomalyState(text), text) = AnomalyState(text)
  BY <1>1 DEF InspectDocument, AnomalyState
<1>4. ScoreDocument(AnomalyState(text)) = RunAnomalyPlain(text)
  BY <1>1, CopiesAgree DEF ScoreDocument, RunAnomalyPlain
<1> QED
  BY <1>2, <1>3, <1>4

\* An agent's step leaves the OCR task's part, and the text it judges, alone.
LEMMA OcrStays ==
  ASSUME IInv, UNCHANGED given, UNCHANGED ocr
  PROVE  /\ GivenInv' /\ FoldInv' /\ ExtractionInv' /\ AgentText' = AgentText
         /\ pipeline' = pipeline /\ extraction' = extraction
<1>1. /\ responses' = responses /\ pipeline' = pipeline /\ Places' = Places /\ GivenInv'
      /\ folded' = folded /\ block' = block /\ reading' = reading /\ extraction' = extraction
  BY GivenStays DEF IInv, ocr
<1>2. Blocks' = Blocks /\ Exhausted' = Exhausted /\ FoldedPlaces' = FoldedPlaces
  BY <1>1 DEF Blocks, Exhausted, FoldedPlaces
<1>3. IsReadFrom(reading', FoldedPlaces)
  BY <1>1 DEF IInv, FoldInv
<1>4. IsReadFrom(reading, FoldedPlaces)'
  BY <1>1, <1>2, <1>3, FoldedStep
<1>5. FoldInv'
  BY <1>1, <1>2, <1>4 DEF IInv, FoldInv
<1>6. ExtractionInv'
  BY <1>1, <1>2 DEF IInv, ExtractionInv
<1>7. AgentText' = AgentText
  BY <1>1 DEF AgentText, Judged
<1> QED
  BY <1>1, <1>5, <1>6, <1>7

\* One agent moves on, with what its part of the invariant asks for.
LEMMA AgentMoves ==
  ASSUME IInv, UNCHANGED given, UNCHANGED ocr,
         NEW a \in Agent, NEW label \in {"checking", "inspected", "done"}, Go(a, label),
         pipeline => extraction.made,
         ComplianceInv', AnomalyInv'
  PROVE  IInv'
<1>1. /\ GivenInv' /\ FoldInv' /\ ExtractionInv' /\ pipeline' = pipeline /\ extraction' = extraction
  BY OcrStays
<1>2. node \in [Agent -> {"waiting", "checking", "inspected", "done"}]
  BY DEF IInv, AgentInv
<1>3. /\ node' \in [Agent -> {"waiting", "checking", "inspected", "done"}]
      /\ \A c \in Agent : c # a => node'[c] = node[c]
  BY <1>2 DEF Go
<1>4. \A c \in Agent : node'[c] # "waiting" => (pipeline' => extraction'.made)
  BY <1>1, <1>3 DEF IInv, AgentInv
<1> QED
  BY <1>1, <1>3, <1>4 DEF IInv, AgentInv

\* What a move of one agent does to the other: nothing.
LEMMA OtherStays ==
  ASSUME IInv, UNCHANGED given, UNCHANGED ocr, NEW label
  PROVE  /\ Go("anomaly", label) /\ UNCHANGED compliance => ComplianceInv'
         /\ Go("compliance", label) /\ UNCHANGED anomaly => AnomalyInv'
         /\ Go("compliance", label) => node'["compliance"] = label
         /\ Go("anomaly", label) => node'["anomaly"] = label
<1>1. AgentText' = AgentText
  BY OcrStays
<1>2. node \in [Agent -> {"waiting", "checking", "inspected", "done"}] /\ ComplianceInv /\ AnomalyInv
  BY DEF IInv, AgentInv
<1>3. Go("anomaly", label) => node'["compliance"] = node["compliance"] /\ node'["anomaly"] = label
  BY <1>2 DEF Go, Agent
<1>4. Go("compliance", label) => node'["anomaly"] = node["anomaly"] /\ node'["compliance"] = label
  BY <1>2 DEF Go, Agent
<1>5. Go("anomaly", label) /\ UNCHANGED compliance => ComplianceInv'
  BY <1>1, <1>2, <1>3 DEF ComplianceInv
<1>6. Go("compliance", label) /\ UNCHANGED anomaly => AnomalyInv'
  BY <1>1, <1>2, <1>4 DEF AnomalyInv
<1> QED
  BY <1>3, <1>4, <1>5, <1>6

LEMMA PlainStep == IInv /\ RunPlain /\ UNCHANGED given => IInv'
<1> SUFFICES ASSUME IInv, RunPlain, UNCHANGED given PROVE IInv'
  OBVIOUS
<1>1. UNCHANGED ocr /\ AgentText' = AgentText
  BY OcrStays DEF RunPlain
<1>2. CASE Starts("compliance") /\ compliance' = ComplianceState(AgentText)
           /\ Go("compliance", "checking") /\ UNCHANGED anomaly
  <2>1. node'["compliance"] = "checking" /\ AnomalyInv'
    BY <1>1, <1>2, OtherStays
  <2>2. 0 \in 0..Len(RuleChecks(AgentText)) /\ compliance' = Checked(AgentText, 0)
    BY <1>2, PlainForm
  <2>3. ComplianceInv'
    BY <1>1, <2>1, <2>2 DEF ComplianceInv
  <2> QED
    BY <1>1, <1>2, <2>1, <2>3, AgentMoves DEF Starts, Agent
<1>3. CASE Starts("anomaly") /\ anomaly' = RunAnomalyPlain(AgentText)
           /\ Go("anomaly", "done") /\ UNCHANGED compliance
  <2>1. node'["anomaly"] = "done" /\ ComplianceInv'
    BY <1>1, <1>3, OtherStays
  <2>2. AnomalyInv'
    BY <1>1, <1>3, <2>1, Inspected DEF AnomalyInv
  <2> QED
    BY <1>1, <1>3, <2>1, <2>2, AgentMoves DEF Starts, Agent
<1> QED
  BY <1>2, <1>3 DEF RunPlain

LEMMA InspectStep == IInv /\ Inspect /\ UNCHANGED given => IInv'
<1> SUFFICES ASSUME IInv, Inspect, UNCHANGED given PROVE IInv'
  OBVIOUS
<1>1. UNCHANGED ocr /\ AgentText' = AgentText
  BY OcrStays DEF Inspect
<1>2. CASE Starts("compliance") /\ compliance' = InspectDocument(ComplianceState(AgentText), AgentText)
           /\ Go("compliance", "inspected") /\ UNCHANGED anomaly
  <2>1. node'["compliance"] = "inspected" /\ AnomalyInv'
    BY <1>1, <1>2, OtherStays
  <2>2. ComplianceInv'
    BY <1>1, <1>2, <2>1, Inspected DEF ComplianceInv
  <2> QED
    BY <1>1, <1>2, <2>1, <2>2, AgentMoves DEF Starts, Agent
<1>3. CASE Starts("anomaly") /\ anomaly' = InspectDocument(AnomalyState(AgentText), AgentText)
           /\ Go("anomaly", "inspected") /\ UNCHANGED compliance
  <2>1. node'["anomaly"] = "inspected" /\ ComplianceInv'
    BY <1>1, <1>3, OtherStays
  <2>2. AnomalyInv'
    BY <1>1, <1>3, <2>1, Inspected DEF AnomalyInv
  <2> QED
    BY <1>1, <1>3, <2>1, <2>2, AgentMoves DEF Starts, Agent
<1> QED
  BY <1>2, <1>3 DEF Inspect

LEMMA CheckStep == IInv /\ Check /\ UNCHANGED given => IInv'
<1> SUFFICES ASSUME IInv, Check, UNCHANGED given PROVE IInv'
  OBVIOUS
<1> DEFINE checks == RuleChecks(AgentText)
<1>1. UNCHANGED ocr /\ UNCHANGED anomaly /\ node["compliance"] = "checking"
  BY DEF Check, ocr
<1>2. AgentText' = AgentText /\ (pipeline => extraction.made)
  BY <1>1, OcrStays DEF IInv, AgentInv, Agent
<1>3. PICK n \in 0..Len(checks) : compliance = Checked(AgentText, n)
  BY <1>1 DEF IInv, AgentInv, ComplianceInv
<1>4. compliance.text = AgentText /\ compliance.rules_evaluated = n
  BY <1>3 DEF Checked
<1>5. n \in Nat /\ Len(checks) \in Nat /\ (MoreRules <=> n < Len(checks))
  BY <1>4, PlainForm DEF MoreRules
<1>6. CASE MoreRules /\ compliance' = EvaluateRule(compliance) /\ UNCHANGED node
  <2>1. n + 1 \in 0..Len(checks) /\ compliance' = Checked(AgentText, n + 1)
    BY <1>3, <1>5, <1>6, PlainForm
  <2>2. ComplianceInv'
    BY <1>1, <1>2, <1>6, <2>1 DEF ComplianceInv
  <2>3. AnomalyInv'
    BY <1>1, <1>2, <1>6 DEF IInv, AgentInv, AnomalyInv
  <2>4. /\ GivenInv' /\ FoldInv' /\ ExtractionInv' /\ pipeline' = pipeline /\ extraction' = extraction
    BY <1>1, OcrStays
  <2> QED
    BY <1>6, <2>2, <2>3, <2>4 DEF IInv, AgentInv
<1>7. CASE ~MoreRules /\ compliance' = Conclude(compliance) /\ Go("compliance", "done")
  <2>1. n = Len(checks)
    BY <1>5, <1>7
  <2>2. compliance' = EvaluateRules(ComplianceState(AgentText))
    BY <1>3, <1>7, <2>1, PlainForm
  <2>3. node'["compliance"] = "done" /\ AnomalyInv'
    BY <1>1, <1>7, OtherStays
  <2>4. ComplianceInv'
    BY <1>2, <2>2, <2>3 DEF ComplianceInv
  <2> QED
    BY <1>1, <1>2, <1>7, <2>3, <2>4, AgentMoves DEF Agent
<1> QED
  BY <1>6, <1>7 DEF Check

LEMMA EvaluateStep == IInv /\ Evaluate /\ UNCHANGED given => IInv'
<1> SUFFICES ASSUME IInv, Evaluate, UNCHANGED given PROVE IInv'
  OBVIOUS
<1>1. /\ UNCHANGED ocr /\ UNCHANGED anomaly /\ node["compliance"] = "inspected"
      /\ compliance' = EvaluateRules(compliance) /\ Go("compliance", "done")
  BY DEF Evaluate, ocr
<1>2. AgentText' = AgentText /\ (pipeline => extraction.made)
  BY <1>1, OcrStays DEF IInv, AgentInv, Agent
<1>3. compliance' = EvaluateRules(ComplianceState(AgentText))
  BY <1>1 DEF IInv, AgentInv, ComplianceInv
<1>4. node'["compliance"] = "done" /\ AnomalyInv'
  BY <1>1, OtherStays
<1>5. ComplianceInv'
  BY <1>2, <1>3, <1>4 DEF ComplianceInv
<1> QED
  BY <1>1, <1>2, <1>4, <1>5, AgentMoves DEF Agent

LEMMA AssessStep == IInv /\ Assess /\ UNCHANGED given => IInv'
<1> SUFFICES ASSUME IInv, Assess, UNCHANGED given PROVE IInv'
  OBVIOUS
<1>1. /\ UNCHANGED ocr /\ UNCHANGED compliance /\ node["anomaly"] = "inspected"
      /\ anomaly' = ScoreDocument(anomaly) /\ Go("anomaly", "done")
  BY DEF Assess, ocr
<1>2. AgentText' = AgentText /\ (pipeline => extraction.made)
  BY <1>1, OcrStays DEF IInv, AgentInv, Agent
<1>3. anomaly' = ScoreDocument(AnomalyState(AgentText))
  BY <1>1 DEF IInv, AgentInv, AnomalyInv
<1>4. node'["anomaly"] = "done" /\ ComplianceInv'
  BY <1>1, OtherStays
<1>5. AnomalyInv'
  BY <1>2, <1>3, <1>4 DEF AnomalyInv
<1> QED
  BY <1>1, <1>2, <1>4, <1>5, AgentMoves DEF Agent

LEMMA Invariance == Spec => []IInv
<1>1. ASSUME IInv, [Next]_vars PROVE IInv'
  <2>1. CASE Next
    BY <1>1, <2>1, TakeStep, BlockStep, ExtractStep, PlainStep, CheckStep, InspectStep, EvaluateStep, AssessStep DEF Next
  <2>2. CASE UNCHANGED vars
    <3>1. UNCHANGED given /\ UNCHANGED ocr /\ node' = node /\ compliance' = compliance /\ anomaly' = anomaly
      BY <2>2 DEF vars, given, ocr
    <3>2. /\ GivenInv' /\ FoldInv' /\ ExtractionInv' /\ pipeline' = pipeline /\ extraction' = extraction
      BY <1>1, <3>1, OcrStays
    <3>3. AgentInv'
      BY <1>1, <3>1, <3>2, AgentsStay DEF IInv
    <3> QED
      BY <3>2, <3>3 DEF IInv
  <2> QED
    BY <1>1, <2>1, <2>2
<1> QED
  BY InvInit, <1>1, PTL DEF Spec

-----------------------------------------------------------------------------
(* What the runs check, for documents of any length and any text.          *)

\* What the agents judge is a text, also when there is none.
LEMMA AgentTextType == IInv => IsText(AgentText)
<1> SUFFICES ASSUME IInv PROVE IsText(AgentText)
  OBVIOUS
<1>1. ASSUME NEW lines \in Seq({text \in SUBSET Phrase : IsText(text)}) PROVE IsText(UNION Range(lines))
  <2>1. \A text \in Range(lines) : IsText(text)
    <3>1. \A i \in DOMAIN lines : lines[i] \in {text \in SUBSET Phrase : IsText(text)}
      BY <1>1, ElementType
    <3> QED
      BY <3>1 DEF Range
  <2> QED
    BY <2>1 DEF IsText
<1>2. IsText({})
  BY DEF IsText
<1>3. CASE extraction.made
  <2>1. extraction.text \in Seq({text \in SUBSET Phrase : IsText(text)})
    BY <1>3 DEF IInv, ExtractionInv, FoldInv
  <2> QED
    BY <1>1, <1>2, <2>1 DEF AgentText, Judged
<1>4. CASE ~extraction.made
  <2>1. Judged = {}
    BY <1>4 DEF IInv, ExtractionInv, NoExtraction, Judged, Range
  <2> QED
    BY <1>2, <2>1 DEF AgentText
<1> QED
  BY <1>3, <1>4

LEMMA ComplianceType ==
  ASSUME IInv
  PROVE  /\ IsText(compliance.text) /\ compliance.passed \in BOOLEAN
         /\ compliance.rules_evaluated = Len(compliance.findings)
<1> DEFINE text == AgentText
           checks == RuleChecks(text)
           Fine(state) == /\ IsText(state.text) /\ state.passed \in BOOLEAN
                          /\ state.rules_evaluated = Len(state.findings)
<1>1. IsText(text) /\ IsText({}) /\ checks \in Seq(Finding)
  BY AgentTextType, ChecksType DEF IsText
<1>2. \A t : IsText(t) => Fine(ComplianceState(t))
  BY DEF ComplianceState
<1>3. \A n \in 0..Len(checks) : Fine(Checked(text, n))
  <2> TAKE n \in 0..Len(checks)
  <2> HIDE DEF checks
  <2>1. Len(SubSeq(checks, 1, n)) = n
    BY <1>1
  <2> QED
    BY <1>1, <2>1 DEF Checked, checks
<1>4. Fine(EvaluateRules(ComplianceState(text)))
  <2> DEFINE state == ComplianceState(text)
  <2>1. state = [text |-> text, findings |-> <<>>, rules_evaluated |-> 0, passed |-> TRUE] /\ state.text = text
    BY DEF ComplianceState
  <2> HIDE DEF state
  <2>2. EvaluateRules(state) =
          [state EXCEPT !.findings = checks, !.rules_evaluated = Len(checks), !.passed = Passes(checks)]
    BY <2>1 DEF EvaluateRules
  <2>3. Passes(checks) \in BOOLEAN
    BY DEF Passes
  <2> HIDE DEF checks, text
  <2>4. EvaluateRules(state) =
          [text |-> text, findings |-> checks, rules_evaluated |-> Len(checks), passed |-> Passes(checks)]
    BY <2>1, <2>2
  <2> QED
    BY <1>1, <2>3, <2>4 DEF state
<1>5. node["compliance"] \in {"waiting", "checking", "inspected", "done"} /\ ComplianceInv
  BY DEF IInv, AgentInv, Agent
<1>6. Fine(compliance)
  <2> HIDE DEF Fine, text, checks
  <2>1. CASE node["compliance"] = "waiting"
    BY <1>1, <1>2, <1>5, <2>1 DEF ComplianceInv
  <2>2. CASE node["compliance"] = "checking"
    BY <1>3, <1>5, <2>2 DEF ComplianceInv, text, checks
  <2>3. CASE node["compliance"] = "inspected"
    BY <1>1, <1>2, <1>5, <2>3 DEF ComplianceInv, text
  <2>4. CASE node["compliance"] = "done"
    BY <1>4, <1>5, <2>4 DEF ComplianceInv, text
  <2> QED
    BY <1>5, <2>1, <2>2, <2>3, <2>4
<1> QED
  BY <1>6

LEMMA AnomalyType ==
  ASSUME IInv
  PROVE  IsText(anomaly.text) /\ anomaly.is_anomalous \in BOOLEAN /\ anomaly.score \in 0..100
<1> DEFINE text == AgentText
           Fine(state) == IsText(state.text) /\ state.is_anomalous \in BOOLEAN /\ state.score \in 0..100
<1>1. IsText(text) /\ IsText({})
  BY AgentTextType DEF IsText
<1>2. \A t : IsText(t) => Fine(AnomalyState(t))
  BY DEF AnomalyState
<1>3. Fine(ScoreDocument(AnomalyState(text)))
  <2> DEFINE state == AnomalyState(text)
             score == Score(Signals, text)
             reasons == AllFound(Signals, text)
  <2>1. state = [text |-> text, score |-> 0, reasons |-> <<>>, is_anomalous |-> FALSE]
    BY DEF AnomalyState
  <2>2. RunAnomalyPlain(text) =
          [state EXCEPT !.score = score, !.reasons = reasons, !.is_anomalous = score >= 50 \/ reasons # <<>>]
    BY DEF RunAnomalyPlain
  <2>3. score \in 0..100
    BY ScoreType
  <2>4. ScoreDocument(state) = RunAnomalyPlain(text)
    BY Inspected
  <2> HIDE DEF text, state, score, reasons
  <2>5. RunAnomalyPlain(text) = [text |-> text, score |-> score, reasons |-> reasons,
                                 is_anomalous |-> score >= 50 \/ reasons # <<>>]
    BY <2>1, <2>2
  <2> QED
    BY <1>1, <2>3, <2>4, <2>5 DEF state
<1>4. node["anomaly"] \in {"waiting", "inspected", "done"} /\ AnomalyInv
  BY DEF IInv, AgentInv, AnomalyInv, Agent
<1>5. Fine(anomaly)
  <2> HIDE DEF Fine, text
  <2>1. CASE node["anomaly"] = "waiting"
    BY <1>1, <1>2, <1>4, <2>1 DEF AnomalyInv
  <2>2. CASE node["anomaly"] = "inspected"
    BY <1>1, <1>2, <1>4, <2>2 DEF AnomalyInv, text
  <2>3. CASE node["anomaly"] = "done"
    BY <1>3, <1>4, <2>3 DEF AnomalyInv, text
  <2> QED
    BY <1>4, <2>1, <2>2, <2>3
<1> QED
  BY <1>5

\* The extraction is made of all blocks.
LEMMA AllFolded == IInv /\ extraction.made => FoldedPlaces = Places
<1> SUFFICES ASSUME IInv, extraction.made, NEW p \in Places
             PROVE  p[1] < folded \/ (p[1] = folded /\ p[2] <= block)
  BY DEF FoldedPlaces
<1>1. /\ GivenInv /\ folded = Len(responses) /\ block = Len(Blocks) /\ folded \in 0..Len(responses)
  BY DEF IInv, ExtractionInv, FoldInv, Exhausted
<1>2. /\ p[1] \in Nat /\ p[1] >= 1 /\ p[1] <= Len(responses) /\ p[2] <= Len(responses[p[1]].blocks)
  BY <1>1, PlacesType
<1>3. CASE p[1] = folded
  BY <1>1, <1>2, <1>3 DEF Blocks
<1>4. CASE p[1] # folded
  BY <1>1, <1>2, <1>4
<1> QED
  BY <1>3, <1>4

\* The fold stays inside the result and takes an extraction from all of it
\* only, its counts are bounded by what the responses report, and the agents'
\* states have the fields of app/models.py: a score of at most 1, as many
\* rules evaluated as there are findings.
THEOREM TypeCorrect == Spec => []TypeOK
<1>1. ASSUME IInv PROVE TypeOK
  <2>1. extraction.page_count \in 0..(MaxReported + 1)
    <3>1. CASE extraction.made
      BY <1>1, <3>1 DEF IInv, ExtractionInv
    <3>2. CASE ~extraction.made
      BY <1>1, <3>2, MaxReportedAssumption DEF IInv, ExtractionInv, NoExtraction
    <3> QED
      BY <3>1, <3>2
  <2>2. extraction.made => folded = Len(responses) /\ Exhausted
    BY <1>1 DEF IInv, ExtractionInv
  <2>3. folded \in 0..Len(responses) /\ block \in 0..Len(Blocks) /\ reading.pages \in 0..MaxReported
    BY <1>1 DEF IInv, FoldInv
  <2>4. node \in [Agent -> {"waiting", "checking", "inspected", "done"}]
    BY <1>1 DEF IInv, AgentInv
  <2> QED
    BY <1>1, <2>1, <2>2, <2>3, <2>4, ComplianceType, AnomalyType DEF TypeOK
<1> QED
  BY <1>1, Invariance, PTL

\* However a job's blocks are split over responses, the text of its extraction
\* is every written line of them, each once and in order; a document with text
\* has a page, and as many as any of the responses reports.
THEOREM TextWhole == Spec => []TextIsWhole
<1>1. ASSUME IInv PROVE TextIsWhole
  <2> SUFFICES ASSUME extraction.made PROVE TextIsWhole
    BY DEF TextIsWhole
  <2>1. /\ extraction.text = reading.lines /\ IsTextOf(reading.lines, FoldedPlaces)
        /\ extraction.text # <<>> => extraction.page_count > 0
    BY <1>1 DEF IInv, ExtractionInv, FoldInv, IsReadFrom
  <2>2. FoldedPlaces = Places
    BY <1>1, AllFolded
  <2>3. ASSUME NEW r \in DOMAIN responses PROVE responses[r].pages <= extraction.page_count
    <3>1. r \in 1..folded
      BY <1>1 DEF IInv, ExtractionInv, GivenInv
    <3>2. responses[r].pages <= reading.pages /\ reading.pages <= extraction.page_count
      BY <1>1, <3>1 DEF IInv, FoldInv, ExtractionInv
    <3>3. /\ responses[r].pages \in 0..MaxReported /\ reading.pages \in 0..MaxReported
          /\ extraction.page_count \in 0..(MaxReported + 1)
      BY <1>1, PlacesType DEF IInv, FoldInv, ExtractionInv
    <3> QED
      BY <3>2, <3>3, MaxReportedAssumption
  <2> QED
    BY <2>1, <2>2, <2>3 DEF TextIsWhole
<1> QED
  BY <1>1, Invariance, PTL

\* By the ids kept a block is found, the last one with the id.
LEMMA NamesRight ==
  ASSUME IInv, extraction.made
  PROVE  /\ \A id : Known(id) <=> id \in DOMAIN reading.by_id
         /\ \A id \in DOMAIN reading.by_id : Named(id) = reading.by_id[id] /\ Named(id) \in Block
<1>1. GivenInv /\ AreNamesOf(reading.by_id, Places)
  BY AllFolded DEF IInv, FoldInv, IsReadFrom
<1>2. \A id : Known(id) <=> id \in DOMAIN reading.by_id
  BY <1>1 DEF Known, AreNamesOf, IsLast
<1>3. ASSUME NEW id \in DOMAIN reading.by_id
      PROVE  Named(id) = reading.by_id[id] /\ Named(id) \in Block
  <2>1. PICK p \in Places : IsLast(p, id, Places) /\ reading.by_id[id] = BlockAt(p)
    BY <1>1 DEF AreNamesOf
  <2>2. \A q \in Places : IsLast(q, id, Places) => q = p
    <3> SUFFICES ASSUME NEW q \in Places, IsLast(q, id, Places), q # p PROVE FALSE
      OBVIOUS
    <3>1. Before(q, p) /\ Before(p, q)
      BY <2>1 DEF IsLast
    <3>2. p[1] \in Nat /\ p[2] \in Nat /\ q[1] \in Nat /\ q[2] \in Nat
      BY <1>1, PlacesType
    <3> QED
      BY <3>1, <3>2 DEF Before
  <2>3. Named(id) = BlockAt(CHOOSE q \in Places : IsLast(q, id, Places))
    BY DEF Named, IsLast
  <2>4. (CHOOSE q \in Places : IsLast(q, id, Places)) = p
    BY <2>1, <2>2
  <2>5. BlockAt(p) \in Block
    BY <1>1, PlacesType, ElementType DEF BlockAt
  <2> QED
    BY <2>1, <2>3, <2>4, <2>5
<1> QED
  BY <1>2, <1>3

\* The words of a cell are what its children show.
LEMMA CellRight ==
  ASSUME IInv, extraction.made, NEW cell \in Block
  PROVE  IsTextOfCell(CellText(cell, reading.by_id), cell)
<1> DEFINE byId == reading.by_id
           S == {k \in Children(cell, byId) : IsShown(byId[cell.children[k]])}
           shown == {k \in DOMAIN cell.children : Known(cell.children[k]) /\ IsShown(Named(cell.children[k]))}
           at == InOrder(S)
           words == CellText(cell, byId)
<1>1. S = shown /\ \A k \in S : Named(cell.children[k]) = byId[cell.children[k]]
  BY NamesRight DEF Children
<1>2. S \in SUBSET (1..Len(cell.children)) /\ Len(cell.children) \in Nat
  BY DEF Children, Block
<1>3. words = [i \in DOMAIN at |-> Shown(byId[cell.children[at[i]]])]
  BY DEF CellText
<1> HIDE DEF S, words
<1>4. /\ at \in [DOMAIN at -> S]
      /\ \A i, j \in DOMAIN at : i < j => at[i] < at[j]
      /\ \A k \in S : \E i \in DOMAIN at : at[i] = k
  BY <1>2, InOrderType
<1> HIDE DEF at
<1>5. DOMAIN words = DOMAIN at /\ \A i \in DOMAIN words : words[i] = Shown(Named(cell.children[at[i]]))
  BY <1>1, <1>3, <1>4
<1>6. at \in [DOMAIN words -> shown]
  BY <1>1, <1>4, <1>5
<1> QED
  BY <1>1, <1>4, <1>5, <1>6 DEF IsTextOfCell, words

\* The grid built for a table is the one it must have.
LEMMA GridRight ==
  ASSUME IInv, extraction.made, NEW table \in Block
  PROVE  IsGridOf(BuildTable(table, reading.by_id), table)
<1> DEFINE byId == reading.by_id
           grid == BuildTable(table, byId)
           kept == Kept(table, byId)
           cell(k) == Named(table.children[k])
           cells == {k \in DOMAIN table.children : Known(table.children[k]) /\ cell(k).type = "CELL"}
           width == IF grid = <<>> THEN 0 ELSE Len(grid[1])
           at(r, c) == {k \in cells : cell(k).row = r /\ cell(k).column = c}
<1>1. /\ \A id : Known(id) <=> id \in DOMAIN byId
      /\ \A id \in DOMAIN byId : Named(id) = byId[id] /\ Named(id) \in Block
  BY NamesRight
<1>2. kept = cells /\ \A k \in kept : byId[table.children[k]] = cell(k) /\ cell(k) \in Block
  BY <1>1 DEF Kept, Children
<1>3. \A id \in DOMAIN byId : /\ byId[id].row \in Nat /\ byId[id].column \in Nat
                              /\ byId[id].rowSpan \in Nat /\ byId[id].columnSpan \in Nat
  BY <1>1 DEF Block
<1>4. table.children \in Seq(STRING)
  BY DEF Block
<1>5. PICK rows_n \in Nat, cols_n \in Nat :
         /\ grid = [r \in 1..rows_n |-> grid[r]]
         /\ \A r \in 1..rows_n : DOMAIN grid[r] = 1..cols_n
         /\ \A k \in kept : LastRow(byId[table.children[k]]) <= rows_n /\ LastColumn(byId[table.children[k]]) <= cols_n
         /\ rows_n # 0 => \E k \in kept : LastRow(byId[table.children[k]]) = rows_n
         /\ rows_n # 0 => \E k \in kept : LastColumn(byId[table.children[k]]) = cols_n
         /\ \A r \in 1..rows_n, c \in 1..cols_n :
              \/ (\A k \in kept : ~Begins(byId[table.children[k]], r, c)) /\ grid[r][c] = <<>>
              \/ \E k \in kept : /\ Begins(byId[table.children[k]], r, c)
                                 /\ \A j \in kept : Begins(byId[table.children[j]], r, c) => j <= k
                                 /\ grid[r][c] = CellText(byId[table.children[k]], byId)
  <2> HIDE DEF byId
  <2> QED
    BY <1>3, <1>4, TableBuilt
<1> HIDE DEF grid, kept, cell, cells
<1>6. /\ \A k \in cells : LastRow(cell(k)) <= rows_n /\ LastColumn(cell(k)) <= cols_n
      /\ rows_n # 0 => \E k \in cells : LastRow(cell(k)) = rows_n
      /\ rows_n # 0 => \E k \in cells : LastColumn(cell(k)) = cols_n
  BY <1>2, <1>5
<1>7. /\ Len(grid) = rows_n /\ DOMAIN grid = 1..rows_n /\ (grid = <<>> <=> rows_n = 0)
      /\ \A r \in 1..rows_n : Len(grid[r]) = cols_n
  BY <1>5
<1>8. rows_n # 0 => width = cols_n
  BY <1>7
<1>9. ASSUME NEW r \in 1..Len(grid), NEW c \in 1..width
      PROVE  IF at(r, c) = {} THEN grid[r][c] = <<>>
             ELSE \E k \in at(r, c) :
                    (\A j \in at(r, c) : j <= k) /\ IsTextOfCell(grid[r][c], cell(k))
  <2>1. r \in 1..rows_n /\ c \in 1..cols_n
    BY <1>7, <1>8
  <2>2. \A k : k \in at(r, c) <=> k \in kept /\ Begins(byId[table.children[k]], r, c)
    BY <1>2 DEF Begins
  <2> HIDE DEF at
  <2>3. CASE (\A k \in kept : ~Begins(byId[table.children[k]], r, c)) /\ grid[r][c] = <<>>
    BY <2>2, <2>3
  <2>4. CASE \E k \in kept : /\ Begins(byId[table.children[k]], r, c)
                             /\ \A j \in kept : Begins(byId[table.children[j]], r, c) => j <= k
                             /\ grid[r][c] = CellText(byId[table.children[k]], byId)
    <3>1. PICK k \in kept : /\ Begins(byId[table.children[k]], r, c)
                            /\ \A j \in kept : Begins(byId[table.children[j]], r, c) => j <= k
                            /\ grid[r][c] = CellText(byId[table.children[k]], byId)
      BY <2>4
    <3>2. cell(k) \in Block /\ byId[table.children[k]] = cell(k)
      BY <1>2
    <3>3. IsTextOfCell(grid[r][c], cell(k))
      BY <3>1, <3>2, CellRight
    <3>4. k \in at(r, c) /\ \A j \in at(r, c) : j <= k
      BY <2>2, <3>1
    <3> QED
      BY <3>3, <3>4
  <2> QED
    BY <1>5, <2>1, <2>3, <2>4
<1>10. \A r \in DOMAIN grid : Len(grid[r]) = width
  BY <1>7, <1>8
<1>11. \A k \in cells : LastRow(cell(k)) <= Len(grid)
  BY <1>6, <1>7
<1>12. grid # <<>> =>
         /\ \E k \in cells : LastRow(cell(k)) = Len(grid)
         /\ \A k \in cells : LastColumn(cell(k)) <= width
         /\ \E k \in cells : LastColumn(cell(k)) = width
  BY <1>6, <1>7, <1>8
<1> QED
  BY <1>9, <1>10, <1>11, <1>12 DEF IsGridOf, grid, cells, cell

\* However a job's blocks are split over responses, each of its tables has a
\* grid, in order: wide and high enough for the cells that are there and no
\* more, with the words of the last cell that begins at each position, also
\* when blocks share an id or are missing.
THEOREM GridsRight == Spec => []GridsMatch
<1>1. ASSUME IInv PROVE GridsMatch
  <2> SUFFICES ASSUME extraction.made PROVE GridsMatch
    BY DEF GridsMatch
  <2> DEFINE built == extraction.tables
             tables == reading.tables
  <2>1. /\ tables \in Seq(Block) /\ AreTablesOf(tables, Places)
        /\ built = [i \in DOMAIN tables |-> BuildTable(tables[i], reading.by_id)]
    BY <1>1, AllFolded DEF IInv, FoldInv, IsReadFrom, ExtractionInv
  <2>2. PICK at \in [DOMAIN tables -> TablesAt(Places)] :
          /\ GoesThrough(at, tables, TablesAt(Places))
          /\ \A i \in DOMAIN tables : tables[i] = BlockAt(at[i])
    BY <2>1 DEF AreTablesOf
  <2> HIDE DEF tables, built
  <2>3. DOMAIN built = DOMAIN tables /\ DOMAIN at = DOMAIN tables
    BY <2>1, <2>2
  <2>4. ASSUME NEW i \in DOMAIN tables PROVE IsGridOf(built[i], BlockAt(at[i]))
    <3>1. tables[i] \in Block /\ built[i] = BuildTable(tables[i], reading.by_id)
      BY <2>1, ElementType
    <3> QED
      BY <1>1, <2>2, <3>1, GridRight
  <2>5. GoesThrough(at, built, TablesAt(Places))
    BY <2>2, <2>3 DEF GoesThrough
  <2> QED
    BY <2>2, <2>3, <2>4, <2>5 DEF GridsMatch, built
<1> QED
  BY <1>1, Invariance, PTL

\* A document is judged the same with LangGraph installed and without, on the
\* text of its own extraction, or on none when the agents run beside OCR: the
\* signals of _run_anomaly_plain and those written again in _score_document are
\* the same, expression by expression and weight by weight.
THEOREM GraphAgreesWithPlain == Spec => []GraphMatchesPlain
<1>1. ASSUME IInv PROVE GraphMatchesPlain
  <2>1. ComplianceInv /\ AnomalyInv
    BY <1>1 DEF IInv, AgentInv
  <2>2. /\ InspectDocument(ComplianceState(AgentText), AgentText) = ComplianceState(AgentText)
        /\ ScoreDocument(AnomalyState(AgentText)) = RunAnomalyPlain(AgentText)
    BY Inspected
  <2> QED
    BY <2>1, <2>2 DEF ComplianceInv, AnomalyInv, GraphMatchesPlain
<1> QED
  BY <1>1, Invariance, PTL

\* A document that fails a compliance rule is never reported as free of
\* anomalies, in whichever order and form the two agents run.
THEOREM RiskFlagged == Spec => []RiskIsFlagged
<1>1. ASSUME IInv PROVE RiskIsFlagged
  <2> SUFFICES ASSUME node["compliance"] = "done", node["anomaly"] = "done", ~compliance.passed
               PROVE  anomaly.is_anomalous
    BY DEF RiskIsFlagged
  <2> DEFINE text == AgentText
             checks == RuleChecks(text)
             asked == ComplianceState(text)
             scored == AnomalyState(text)
             score == Score(Signals, text)
             reasons == AllFound(Signals, text)
  <2>1. compliance = EvaluateRules(asked) /\ anomaly = RunAnomalyPlain(text)
    BY <1>1, Inspected DEF IInv, AgentInv, ComplianceInv, AnomalyInv
  <2>2. /\ asked = [text |-> text, findings |-> <<>>, rules_evaluated |-> 0, passed |-> TRUE] /\ asked.text = text
        /\ scored = [text |-> text, score |-> 0, reasons |-> <<>>, is_anomalous |-> FALSE] /\ scored.text = text
    BY DEF ComplianceState, AnomalyState
  <2> HIDE DEF asked, scored
  <2>3. compliance = [asked EXCEPT !.findings = checks, !.rules_evaluated = Len(checks), !.passed = Passes(checks)]
    BY <2>1, <2>2 DEF EvaluateRules
  <2>4. anomaly = [scored EXCEPT !.score = score, !.reasons = reasons, !.is_anomalous = score >= 50 \/ reasons # <<>>]
    BY <2>1, <2>2 DEF RunAnomalyPlain, AnomalyState, scored
  <2>5. ~Passes(checks) => reasons # <<>>
    BY RiskIsReason
  <2> HIDE DEF checks, text, score, reasons
  <2>6. compliance.passed = Passes(checks)
    BY <2>2, <2>3
  <2>7. anomaly.is_anomalous = (score >= 50 \/ reasons # <<>>)
    BY <2>2, <2>4
  <2> QED
    BY <2>5, <2>6, <2>7
<1> QED
  BY <1>1, Invariance, PTL
=============================================================================
